------------------------------ MODULE ValueSet ------------------------------
(***************************************************************************)
(* What a Cassandra\Set promises its PHP caller (spec.md section 4.4): a   *)
(* set of values under value equality, with add/remove/has/count/values,   *)
(* a memoised hash of its elements and an iterator whose current() yields *)
(* elements of the set.  Each method records its name and its result.     *)
(***************************************************************************)
EXTENDS Naturals, Sequences, FiniteSets, Functions

CONSTANTS Elems, NoValue

VARIABLES S, lastOp, ret

\* The sequences that list every element of X exactly once.
Enumerations(X) == { s \in [1..Cardinality(X) -> X] : Range(s) = X }

Init == S = {} /\ lastOp = "new" /\ ret = NoValue

Add(v)    == S' = S \cup {v} /\ lastOp' = "add" /\ ret' = TRUE
Remove(v) == S' = S \ {v} /\ lastOp' = "remove" /\ ret' = (v \in S)
Has(v)    == UNCHANGED S /\ lastOp' = "has" /\ ret' = (v \in S)
Count     == UNCHANGED S /\ lastOp' = "count" /\ ret' = Cardinality(S)
Values    == UNCHANGED S /\ lastOp' = "values" /\ ret' \in Enumerations(S)
Hash      == UNCHANGED S /\ lastOp' = "hash" /\ ret' \in Enumerations(S)

\* Iteration never changes the set; current() yields a member or nothing.
Iterate ==
    /\ UNCHANGED S
    /\ \/ lastOp' \in {"next", "rewind"} /\ ret' = NoValue
       \/ lastOp' = "valid" /\ ret' \in BOOLEAN
       \/ lastOp' = "current" /\ ret' \in S \cup {NoValue}

Next ==
    \/ \E v \in Elems : Add(v) \/ Remove(v) \/ Has(v)
    \/ Count \/ Values \/ Hash \/ Iterate

Spec == Init /\ [][Next]_<<S, lastOp, ret>>
=============================================================================
