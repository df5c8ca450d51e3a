---------------------------- MODULE CopyOwnership ----------------------------
(***************************************************************************)
(* What replication promises about ownership, without caches, queues or    *)
(* workers: a place (a namespace, here or on a spoke) holds nothing,       *)
(* somebody else's object, an object that may be taken over, or the copy   *)
(* of exactly one source; a copy is only made for a source that is armed   *)
(* (holds the finalizer), only where there is nothing to overwrite, and    *)
(* never changes hands.                                                    *)
(*                                                                         *)
(* SweepComplete is the promise that makes the finalizer worth having: a   *)
(* source is disarmed only when no copy of it is left.                     *)
(***************************************************************************)
CONSTANTS
    Owner,           \* sources
    Place,           \* where copies may be
    SweepComplete

VARIABLES
    slot,    \* what each place holds
    armed    \* the sources that hold the finalizer

vars == <<slot, armed>>

Free == <<"free">>

Adoptable == <<"adoptable">>

Foreign == <<"foreign">>

Copy(s) == <<"copy", s>>

Vacant == {Free, Adoptable}

Slot == {Copy(s) : s \in Owner} \cup Vacant \cup {Foreign}

TypeOK == slot \in [Place -> Slot] /\ armed \subseteq Owner

CopiesOf(s) == {n \in Place : slot[n] = Copy(s)}

\* Every copy has a source that is bound to remove it.
NoOrphans == \A s \in Owner : CopiesOf(s) # {} => s \in armed

Init == TypeOK /\ (SweepComplete => NoOrphans)

Arm(s) == armed' = armed \cup {s} /\ UNCHANGED slot

Disarm(s) ==
    /\ SweepComplete => CopiesOf(s) = {}
    /\ armed' = armed \ {s}
    /\ UNCHANGED slot

Claim(s, n) ==
    /\ s \in armed /\ slot[n] \in Vacant
    /\ slot' = [slot EXCEPT ![n] = Copy(s)]
    /\ UNCHANGED armed

\* Somebody else's object appears, or whatever is there goes.
Occupy(n) ==
    /\ slot[n] = Free
    /\ \E v \in {Foreign, Adoptable} : slot' = [slot EXCEPT ![n] = v]
    /\ UNCHANGED armed

Vacate(n) == slot' = [slot EXCEPT ![n] = Free] /\ UNCHANGED armed

Next ==
    \/ \E s \in Owner : Arm(s) \/ Disarm(s)
    \/ \E s \in Owner, n \in Place : Claim(s, n)
    \/ \E n \in Place : Occupy(n) \/ Vacate(n)

Spec == Init /\ [][Next]_vars
=============================================================================
