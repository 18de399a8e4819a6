----------------------------- MODULE SetForeach -----------------------------
(***************************************************************************)
(* A PHP script running  foreach ($set as $v) { body }  over one           *)
(* Cassandra\Set (src/ext/src/Set.c), where the body may add, remove and   *)
(* query elements of the same set.  The Zend engine drives an object that *)
(* implements Iterator as: rewind(); while (valid()) { current(); body;    *)
(* next(); }.  Outside a loop the script may call the data methods and   *)
(* rewind()/valid()/next() freely; current() outside a loop is explored  *)
(* by PhpSet on its own (run set_current_after_remove).                   *)
(*                                                                         *)
(* The script also owns a second Set, $copy, of the same element type,   *)
(* and the body's first statement is $copy->add($v); after the loop it   *)
(* compares $set with $copy.                                               *)
(*                                                                         *)
(* The ghost variables record, for the pass in progress, the elements     *)
(* present at rewind(), the elements the body removed, and how often      *)
(* current() yielded each element.                                         *)
(***************************************************************************)
EXTENDS PhpSet

VARIABLES
    pc,          \* where the foreach loop is: idle/valid/current/body/done
    snapshot,    \* Content when the pass called rewind()
    removed,     \* elements the body removed during the pass
    visits       \* element -> times current() yielded it in the pass

loopVars == <<pc, snapshot, removed, visits>>
allVars == <<vars, loopVars>>

LoopTypeOK ==
    /\ TypeOK
    /\ pc \in {"idle", "valid", "current", "body", "done"}
    /\ snapshot \subseteq Elems
    /\ removed \subseteq Elems
    /\ visits \in [Elems -> 0..MaxEntries]

LoopInit ==
    /\ Init
    /\ pc = "idle"
    /\ snapshot = {}
    /\ removed = {}
    /\ visits = [v \in Elems |-> 0]

\* Data methods and cursor moves called outside any loop.
Outside ==
    /\ pc = "idle"
    /\ DataOp \/ Rewind \/ Valid \/ MoveNext
    /\ UNCHANGED loopVars

StartLoop ==
    /\ pc = "idle"
    /\ Rewind
    /\ pc' = "valid"
    /\ snapshot' = Content
    /\ removed' = {}
    /\ visits' = [v \in Elems |-> 0]

TestValid ==
    /\ pc = "valid"
    /\ Valid
    /\ pc' = IF ret' THEN "current" ELSE "done"
    /\ UNCHANGED <<snapshot, removed, visits>>

FetchCurrent ==
    /\ pc = "current"
    /\ Current
    /\ pc' = "body"
    /\ visits' = IF ret' \in Elems
                   THEN [visits EXCEPT ![ret'] = @ + 1] ELSE visits
    /\ UNCHANGED <<snapshot, removed>>

\* One statement of the loop body: any data method on the same set.
BodyStep ==
    /\ pc = "body"
    /\ \/ \E v \in Elems :
            /\ Del(v)
            /\ removed' = IF ret' THEN removed \cup {v} ELSE removed
       \/ /\ \/ \E v \in Elems : Add(v) \/ Has(v)
             \/ Count \/ GetValues \/ HashValue
          /\ UNCHANGED removed
    /\ UNCHANGED <<pc, snapshot, visits>>

EndBody ==
    /\ pc = "body"
    /\ MoveNext
    /\ pc' = "valid"
    /\ UNCHANGED <<snapshot, removed, visits>>

EndLoop ==
    /\ pc = "done"
    /\ pc' = "idle"
    /\ UNCHANGED <<vars, snapshot, removed, visits>>

LoopNext ==
    \/ Outside \/ StartLoop \/ TestValid \/ FetchCurrent
    \/ BodyStep \/ EndBody \/ EndLoop

LoopSpec == LoopInit /\ [][LoopNext]_allVars

\* $copy after the pass: the values current() yielded, each added once by
\* php_driver_set_add.  Its insertion order is that of the visits, which
\* the compare handler does not look at (it counts and looks up), so any
\* enumeration stands for it.
Copy == {v \in Elems : visits[v] > 0}

LOCAL SeqExt == INSTANCE SequencesExt

CopySeq == SeqExt!SetToSeq(Copy)

-----------------------------------------------------------------------------
(* Properties.                                                             *)

\* A finished foreach has yielded every element that was in the set at
\* rewind() and that the body did not remove exactly once, and no element
\* the body did not remove more than once, however the body interleaved
\* add() and remove() with the cursor's iter_curr/iter_temp pair.
ForeachVisitsEachOnce ==
    pc = "done" =>
        /\ \A v \in snapshot \ removed : visits[v] = 1
        /\ \A v \in Elems \ removed : visits[v] <= 1

\* After a foreach whose body copied every value it was given into $copy,
\* $set == $copy and $copy == $set hold exactly when the two sets hold the
\* same values: php_driver_set_compare decides by HASH_COUNT and a one-way
\* HASH_FIND_ZVAL, which is set equality only because add() never stores
\* a value twice.  The body's add() and remove() can leave the two sets
\* with different values, of the same size or not.
CompareIsSetEquality ==
    pc = "done" =>
        /\ (SetCompare(ValueSeq, CopySeq) = 0) <=> (Content = Copy)
        /\ (SetCompare(CopySeq, ValueSeq) = 0) <=> (Content = Copy)

\* The C set, seen through its content, behaves as the abstract set of
\* ValueSet: every add/remove/has/count/values/hash result and every value
\* current() yields inside a foreach is the one a mathematical set gives.
AbsSet == INSTANCE ValueSet WITH S <- Content

ImplementsValueSet == AbsSet!Spec
=============================================================================
