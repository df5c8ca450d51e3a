---------------------------- MODULE MCMigration ----------------------------
(* One source of the previous domain and the namespaces around it. *)
EXTENDS Migration, TLC

CONSTANTS
    a, b, c,          \* namespaces
    t1, t2,           \* teams
    d1                \* the payload

Worlds ==
    LET source == [EmptyObject(d1) EXCEPT !.sync[Previous] = {t1}]
    IN  {(a :> source) @@ (b :> None) @@ (c :> None)}

Mixed == [n \in Namespace |-> IF n = c THEN t2 ELSE t1]
=============================================================================
