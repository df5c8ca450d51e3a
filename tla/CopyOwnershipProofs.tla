-------------------------- MODULE CopyOwnershipProofs --------------------------
(***************************************************************************)
(* What the promise of CopyOwnership is worth, whoever implements it.      *)
(***************************************************************************)
EXTENDS CopyOwnership, TLAPS

\* Places and sources keep their types.
THEOREM OwnershipTypes == Spec => []TypeOK
<1>1. Init => TypeOK
  BY DEF Init
<1>2. TypeOK /\ [Next]_vars => TypeOK'
  BY DEF TypeOK, Next, vars, Arm, Disarm, Claim, Occupy, Vacate, Slot, Vacant
<1> QED BY <1>1, <1>2, PTL DEF Spec

\* With complete sweeps no copy is ever without a source bound to remove it:
\* what deleteCopies before removeFinalizer is for.
THEOREM SweepsLeaveNoOrphans ==
    ASSUME SweepComplete
    PROVE  Spec => []NoOrphans
<1>1. Init => NoOrphans
  BY DEF Init
<1>2. ASSUME TypeOK, NoOrphans, [Next]_vars PROVE NoOrphans'
  <2> SUFFICES ASSUME NEW s \in Owner, NEW n \in Place, slot'[n] = Copy(s)
               PROVE  s \in armed'
    BY DEF NoOrphans, CopiesOf
  <2>1. CASE slot[n] = Copy(s)
    <3>1. s \in armed /\ CopiesOf(s) # {}
      BY <1>2, <2>1 DEF NoOrphans, CopiesOf
    <3> QED BY <1>2, <3>1 DEF Next, vars, Arm, Disarm, Claim, Occupy, Vacate
  <2>2. CASE slot[n] # Copy(s)
    <3>1. PICK t \in Owner, m \in Place : Claim(t, m)
      BY <1>2, <2>2 DEF Next, vars, Arm, Disarm, Occupy, Vacate, TypeOK, Copy, Free,
                        Foreign, Adoptable
    <3>2. m = n /\ Copy(t) = Copy(s)
      BY <1>2, <2>2, <3>1 DEF Claim, TypeOK
    <3>3. t = s
      BY <3>2 DEF Copy
    <3> QED BY <3>1, <3>3 DEF Claim
  <2> QED BY <2>1, <2>2
<1> QED BY <1>1, <1>2, OwnershipTypes, PTL DEF Spec

\* First writer wins: a copy never passes from one source to another without
\* the place being free in between.
THEOREM CopiesNeverChangeHands ==
    Spec => [][\A s \in Owner, n \in Place :
                 slot[n] = Copy(s) => slot'[n] \in {Copy(s), Free}]_vars
<1>1. ASSUME TypeOK, [Next]_vars
      PROVE  \A s \in Owner, n \in Place :
               slot[n] = Copy(s) => slot'[n] \in {Copy(s), Free}
  <2> SUFFICES ASSUME NEW s \in Owner, NEW n \in Place, slot[n] = Copy(s)
               PROVE  slot'[n] \in {Copy(s), Free}
    OBVIOUS
  <2>1. slot[n] \notin Vacant
    BY DEF Vacant, Copy, Free, Adoptable
  <2>2. ASSUME NEW m \in Place, NEW v, slot' = [slot EXCEPT ![m] = v],
               m # n \/ v = Free
        PROVE  slot'[n] \in {Copy(s), Free}
    BY <1>1, <2>2 DEF TypeOK
  <2>3. ASSUME NEW t \in Owner, NEW m \in Place, Claim(t, m) PROVE m # n
    BY <2>1, <2>3 DEF Claim
  <2>4. ASSUME NEW m \in Place, Occupy(m) PROVE m # n
    BY <2>1, <2>4 DEF Occupy, Vacant
  <2> QED BY <1>1, <2>2, <2>3, <2>4
          DEF Next, vars, Arm, Disarm, Claim, Occupy, Vacate
<1> QED BY <1>1, OwnershipTypes, PTL DEF Spec
=============================================================================
