----------------------------- MODULE Composite -----------------------------
(***************************************************************************)
(* Cassandra\Tuple (src/ext/src/Tuple.c) objects of one tuple type.        *)
(* UserTypeValue.c is the same code keyed by field name instead of slot    *)
(* index (module UserTypeValue).                                           *)
(*                                                                         *)
(* An object keeps the values set so far in a zend HashTable, values,      *)
(* which keeps insertion order: zend_hash_index_update appends a new key   *)
(* and overwrites an existing one in place.  The type's own HashTable      *)
(* lists the keys in declaration order (Keys); the iterator position pos   *)
(* walks that table, not values.  hashv and dirty memoise the hash         *)
(* handler's result.                                                       *)
(*                                                                         *)
(* Values stored in a slot are integers standing for scalar values of the  *)
(* slot's type; php_driver_value_compare orders them as integers.         *)
(***************************************************************************)
EXTENDS Integers, Sequences, FiniteSets

CONSTANTS
    Objs,      \* the objects (all of the same type)
    Keys,      \* the type's keys in declaration order (a sequence)
    BadKeys,   \* keys the type does not have
    Vals,      \* values that pass the slot's type check
    Null,      \* PHP null (an unset slot in values())
    Exc        \* the method threw InvalidArgumentException

ASSUME /\ Vals \subseteq Int
       /\ Len(Keys) > 0
       /\ Null \notin Vals /\ Exc \notin Vals

KeySet == {Keys[i] : i \in 1..Len(Keys)}
PastEnd == Len(Keys) + 1

VARIABLES
    values,    \* object -> sequence of [k, v] in insertion order
    pos,       \* object -> iterator position in Keys (PastEnd: none)
    dirty,     \* object -> hash must be recomputed
    hashv,     \* object -> value sequence the memoised hash was combined from
    lastOp,    \* the last method called
    ret        \* what it returned

vars == <<values, pos, dirty, hashv, lastOp, ret>>

Entries == [k : KeySet, v : Vals]

\* zend_hash_index_find on values: the entry for key k, if any.
Find(s, k) == {i \in 1..Len(s) : s[i].k = k}

Lookup(s, k) == IF Find(s, k) = {} THEN Null
                ELSE s[CHOOSE i \in Find(s, k) : TRUE].v

\* The values in insertion order (ZEND_HASH_FOREACH_VAL over values).
InsertionValues(s) == [i \in 1..Len(s) |-> s[i].v]

\* Tuple::values / php_driver_tuple_populate: one value per key of the type,
\* in declaration order, null where unset.
SlotValues(o) == [i \in 1..Len(Keys) |-> Lookup(values[o], Keys[i])]

TypeOK ==
    /\ values \in [Objs -> Seq(Entries)]
    /\ \A o \in Objs : Len(values[o]) <= Len(Keys)
    /\ pos \in [Objs -> 1..PastEnd]
    /\ dirty \in [Objs -> BOOLEAN]
    /\ hashv \in [Objs -> Seq(Vals)]

\* php_driver_tuple_new: empty values, no iterator position, hash dirty.
Init ==
    /\ values = [o \in Objs |-> <<>>]
    /\ pos = [o \in Objs |-> PastEnd]
    /\ dirty = [o \in Objs |-> TRUE]
    /\ hashv = [o \in Objs |-> <<>>]
    /\ lastOp = "new"
    /\ ret = Null

\* Mutant of HashUpdate: every set appends (zend_hash_next_index_insert
\* semantics), so a key set twice appears twice.
HashAppend(s, k, v) == Append(s, [k |-> k, v |-> v])

\* zend_hash_index_update: overwrite in place, or append a new key.
HashUpdate(s, k, v) ==
    IF Find(s, k) = {} THEN Append(s, [k |-> k, v |-> v])
    ELSE [s EXCEPT ![CHOOSE i \in Find(s, k) : TRUE].v = v]

\* Mutant of TupleSet: the memoised hash is not invalidated.
TupleSetNoDirty(o, k, v) ==
    /\ values' = [values EXCEPT ![o] = HashUpdate(@, k, v)]
    /\ UNCHANGED dirty

\* php_driver_tuple_set: store the value and invalidate the hash.
TupleSet(o, k, v) ==
    /\ values' = [values EXCEPT ![o] = HashUpdate(@, k, v)]
    /\ dirty' = [dirty EXCEPT ![o] = TRUE]

\* Tuple::set: an index outside the type throws; otherwise php_driver_tuple_set.
Set(o, k, v) ==
    /\ IF k \in KeySet
         THEN /\ TupleSet(o, k, v)
              /\ ret' = Null
         ELSE /\ ret' = Exc
              /\ UNCHANGED <<values, dirty>>
    /\ lastOp' = "set"
    /\ UNCHANGED <<pos, hashv>>

\* Tuple::get: an index outside the type throws; an unset slot returns null.
Get(o, k) ==
    /\ ret' = IF k \in KeySet THEN Lookup(values[o], k) ELSE Exc
    /\ lastOp' = "get"
    /\ UNCHANGED <<values, pos, dirty, hashv>>

\* Tuple::values.
Values(o) ==
    /\ ret' = SlotValues(o)
    /\ lastOp' = "values"
    /\ UNCHANGED <<values, pos, dirty, hashv>>

\* Tuple::count: the number of keys of the type.
Count ==
    /\ ret' = Len(Keys)
    /\ lastOp' = "count"
    /\ UNCHANGED <<values, pos, dirty, hashv>>

\* Tuple::rewind: reset pos to the type's first key.
Rewind(o) ==
    /\ pos' = [pos EXCEPT ![o] = 1]
    /\ ret' = Null
    /\ lastOp' = "rewind"
    /\ UNCHANGED <<values, dirty, hashv>>

\* Tuple::next: move pos forward; past the end it stays past the end.
MoveNext(o) ==
    /\ pos' = [pos EXCEPT ![o] = IF @ < PastEnd THEN @ + 1 ELSE @]
    /\ ret' = Null
    /\ lastOp' = "next"
    /\ UNCHANGED <<values, dirty, hashv>>

\* Tuple::valid, Tuple::key and Tuple::current at pos (current is null for
\* an unset slot and when pos is past the end).
Valid(o) ==
    /\ ret' = (pos[o] < PastEnd)
    /\ lastOp' = "valid"
    /\ UNCHANGED <<values, pos, dirty, hashv>>

Key(o) ==
    /\ ret' = IF pos[o] < PastEnd THEN Keys[pos[o]] ELSE Null
    /\ lastOp' = "key"
    /\ UNCHANGED <<values, pos, dirty, hashv>>

Current(o) ==
    /\ ret' = IF pos[o] < PastEnd THEN Lookup(values[o], Keys[pos[o]]) ELSE Null
    /\ lastOp' = "current"
    /\ UNCHANGED <<values, pos, dirty, hashv>>

Sign(x) == IF x < 0 THEN -1 ELSE IF x = 0 THEN 0 ELSE 1

\* php_driver_tuple_compare for two objects of the same type: the one with
\* fewer values set is smaller; otherwise the values are compared pairwise
\* in insertion order and the first difference decides.
CompareValues(s1, s2) ==
    IF Len(s1) # Len(s2) THEN IF Len(s1) < Len(s2) THEN -1 ELSE 1
    ELSE LET D == {i \in 1..Len(s1) : s1[i].v # s2[i].v}
         IN  IF D = {} THEN 0
             ELSE LET i == CHOOSE j \in D : \A d \in D : j <= d
                  IN  Sign(s1[i].v - s2[i].v)

Compare(o1, o2) ==
    /\ ret' = [l |-> o1, r |-> o2, res |-> CompareValues(values[o1], values[o2])]
    /\ lastOp' = "compare"
    /\ UNCHANGED <<values, pos, dirty, hashv>>

\* php_driver_tuple_hash_value (PHP < 8): when dirty, combine the value
\* hashes in insertion order and memoise; else return the memoised hash.
HashValue(o) ==
    /\ IF dirty[o]
         THEN /\ hashv' = [hashv EXCEPT ![o] = InsertionValues(values[o])]
              /\ dirty' = [dirty EXCEPT ![o] = FALSE]
         ELSE UNCHANGED <<hashv, dirty>>
    /\ ret' = hashv'[o]
    /\ lastOp' = "hash"
    /\ UNCHANGED <<values, pos>>

Next ==
    \/ \E o \in Objs :
          \/ \E k \in KeySet \cup BadKeys :
                \/ \E v \in Vals : Set(o, k, v)
                \/ Get(o, k)
          \/ Values(o) \/ Rewind(o) \/ MoveNext(o) \/ Valid(o) \/ Key(o)
          \/ Current(o) \/ HashValue(o)
    \/ Count
    \/ \E o1, o2 \in Objs : Compare(o1, o2)

Spec == Init /\ [][Next]_vars

-----------------------------------------------------------------------------
(* Properties.                                                             *)

\* What the hash handler would return for o now.
HashNow(o) == IF dirty[o] THEN InsertionValues(values[o]) ELSE hashv[o]

\* Objects the compare handler calls equal hash alike (the contract of
\* hash_value used by collections): the memoised hash of either object must
\* not be stale after any sequence of set() calls on both.
HashAgreesWithCompare ==
    lastOp = "compare" /\ ret.res = 0 => HashNow(ret.l) = HashNow(ret.r)

\* compare() returns 0 exactly when the two tuples hold the same value in
\* every slot (spec: tuples compare by their values).
CompareIsValueEquality ==
    lastOp = "compare" =>
        ((ret.res = 0) <=> (SlotValues(ret.l) = SlotValues(ret.r)))
=============================================================================
