------------------------------- MODULE PhpSet -------------------------------
(***************************************************************************)
(* One Cassandra\Set object (src/ext/src/Set.c).                           *)
(*                                                                         *)
(* The C object keeps its elements in a uthash table: a doubly linked list *)
(* of heap-allocated entries in insertion order, looked up by value.  It   *)
(* also keeps a single iteration cursor made of two entry pointers,        *)
(* iter_curr (the element current() returns) and iter_temp (the element   *)
(* next() will move to), and a memoised hash with a dirty flag.            *)
(*                                                                         *)
(* Entries are modelled by allocation number: the n-th emalloc of an       *)
(* entry is entry n.  entries is the uthash list (a sequence of entry      *)
(* numbers, head first), val maps an entry to the value it holds.  An      *)
(* entry that is no longer in entries has been efree'd; a pointer to it is *)
(* dangling.  Every PHP method call records what it returned in ret and    *)
(* its name in lastOp, so properties can speak about results.              *)
(***************************************************************************)
EXTENDS Naturals, Sequences, FiniteSets, Functions

CONSTANTS
    Elems,       \* values that conform to the set's element type
    Null,        \* the NULL entry pointer
    NoValue,     \* "the method returned nothing" (PHP null)
    Garbage,     \* what a read through a dangling pointer may yield
    MaxEntries   \* bound on the number of entries ever allocated

ASSUME /\ Null \notin Nat
       /\ NoValue \notin Elems
       /\ Garbage \notin Elems \cup {NoValue}
       /\ MaxEntries \in Nat \ {0}

VARIABLES
    entries,     \* uthash list of live entries, head first
    val,         \* entry -> the value it was allocated for
    nextId,      \* number of the next entry emalloc will return
    iter_curr,   \* entry current() reads, or Null
    iter_temp,   \* entry next() moves to, or Null
    dirty,       \* hash must be recomputed
    hashv,       \* the element sequence the memoised hash was combined from
    lastOp,      \* name of the last method called on the object
    ret          \* what that method returned

vars == <<entries, val, nextId, iter_curr, iter_temp, dirty, hashv, lastOp, ret>>

EntryIds == 1..MaxEntries

\* The entries that are allocated and not yet freed.
Live == Range(entries)

\* The set as a mathematical set of values.
Content == { val[e] : e \in Live }

\* The values of the live entries in uthash order (HASH_ITER order).
ValueSeq == [i \in 1..Len(entries) |-> val[entries[i]]]

\* hh.next of a live entry: its successor in the list, or Null at the tail.
HhNext(e) ==
    LET i == CHOOSE k \in 1..Len(entries) : entries[k] = e
    IN  IF i < Len(entries) THEN entries[i + 1] ELSE Null

\* HASH_FIND_ZVAL: the live entry holding value v, or Null.
HashFind(v) ==
    IF \E e \in Live : val[e] = v THEN CHOOSE e \in Live : val[e] = v ELSE Null

\* HASH_DEL: unlink entry e, keeping the order of the others.
HashDel(e) == SelectSeq(entries, LAMBDA x : x # e)

\* What each method returns.
ReturnType ==
    [new |-> {NoValue}, add |-> BOOLEAN, remove |-> BOOLEAN, has |-> BOOLEAN,
     count |-> 0..MaxEntries, values |-> Seq(Elems), hash |-> Seq(Elems),
     current |-> Elems \cup {NoValue, Garbage}, valid |-> BOOLEAN,
     next |-> {NoValue}, rewind |-> {NoValue}]

TypeOK ==
    /\ entries \in Seq(EntryIds)
    /\ val \in [EntryIds -> Elems \cup {NoValue}]
    /\ nextId \in 1..(MaxEntries + 1)
    /\ iter_curr \in EntryIds \cup {Null}
    /\ iter_temp \in EntryIds \cup {Null}
    /\ dirty \in BOOLEAN
    /\ hashv \in Seq(Elems)
    /\ lastOp \in DOMAIN ReturnType
    /\ ret \in ReturnType[lastOp]

\* php_driver_set_new: empty table, no cursor, hash dirty.
Init ==
    /\ entries = <<>>
    /\ val = [e \in EntryIds |-> NoValue]
    /\ nextId = 1
    /\ iter_curr = Null
    /\ iter_temp = Null
    /\ dirty = TRUE
    /\ hashv = <<>>
    /\ lastOp = "new"
    /\ ret = NoValue

\* Mutant of Add: the HASH_FIND_ZVAL lookup is skipped, so an equal element
\* is inserted a second time.
AddNoFind(v) ==
    /\ nextId <= MaxEntries
    /\ dirty' = TRUE
    /\ val' = [val EXCEPT ![nextId] = v]
    /\ entries' = Append(entries, nextId)
    /\ nextId' = nextId + 1
    /\ lastOp' = "add"
    /\ ret' = TRUE
    /\ UNCHANGED <<iter_curr, iter_temp, hashv>>

\* Mutant of Add: a new entry is inserted without setting set->dirty.
AddNoDirty(v) ==
    /\ IF HashFind(v) = Null
         THEN /\ nextId <= MaxEntries
              /\ val' = [val EXCEPT ![nextId] = v]
              /\ entries' = Append(entries, nextId)
              /\ nextId' = nextId + 1
         ELSE UNCHANGED <<val, entries, nextId>>
    /\ lastOp' = "add"
    /\ ret' = TRUE
    /\ UNCHANGED <<dirty, iter_curr, iter_temp, hashv>>

\* Set::add -> php_driver_set_add for a value that passed the null and
\* element-type checks (a rejected value throws and changes nothing).  An
\* equal element already present leaves the table alone; either way the
\* method returns true.
Add(v) ==
    /\ IF HashFind(v) = Null
         THEN /\ nextId <= MaxEntries
              /\ dirty' = TRUE
              /\ val' = [val EXCEPT ![nextId] = v]
              /\ entries' = Append(entries, nextId)
              /\ nextId' = nextId + 1
         ELSE UNCHANGED <<dirty, val, entries, nextId>>
    /\ lastOp' = "add"
    /\ ret' = TRUE
    /\ UNCHANGED <<iter_curr, iter_temp, hashv>>

\* Mutant of Del: the entry is freed without advancing iter_temp past it.
DelNoTempAdvance(v) ==
    LET e == HashFind(v) IN
    /\ IF e # Null
         THEN /\ dirty' = TRUE
              /\ entries' = HashDel(e)
         ELSE UNCHANGED <<dirty, entries>>
    /\ lastOp' = "remove"
    /\ ret' = (e # Null)
    /\ UNCHANGED <<val, nextId, iter_curr, iter_temp, hashv>>

\* Set::remove -> php_driver_set_del.  When the removed entry is the one
\* next() would move to, iter_temp is first advanced past it; iter_curr is
\* left as it is.  The entry is then unlinked and freed.
Del(v) ==
    LET e == HashFind(v) IN
    /\ IF e # Null
         THEN /\ dirty' = TRUE
              /\ iter_temp' = IF e = iter_temp THEN HhNext(iter_temp) ELSE iter_temp
              /\ entries' = HashDel(e)
         ELSE UNCHANGED <<dirty, iter_temp, entries>>
    /\ lastOp' = "remove"
    /\ ret' = (e # Null)
    /\ UNCHANGED <<val, nextId, iter_curr, hashv>>

\* Set::has -> php_driver_set_has.
Has(v) ==
    /\ lastOp' = "has"
    /\ ret' = (HashFind(v) # Null)
    /\ UNCHANGED <<entries, val, nextId, iter_curr, iter_temp, dirty, hashv>>

\* Set::count: HASH_COUNT of the table.
Count ==
    /\ lastOp' = "count"
    /\ ret' = Len(entries)
    /\ UNCHANGED <<entries, val, nextId, iter_curr, iter_temp, dirty, hashv>>

\* Set::values -> php_driver_set_populate: the values in HASH_ITER order.
GetValues ==
    /\ lastOp' = "values"
    /\ ret' = ValueSeq
    /\ UNCHANGED <<entries, val, nextId, iter_curr, iter_temp, dirty, hashv>>

\* Mutant of Current: the entry pointer is returned instead of its value.
CurrentReturnsEntry ==
    /\ lastOp' = "current"
    /\ ret' = IF iter_curr = Null THEN NoValue ELSE iter_curr
    /\ UNCHANGED <<entries, val, nextId, iter_curr, iter_temp, dirty, hashv>>

\* Set::current: the value iter_curr points to.  Through a dangling pointer
\* the read is undefined: the freed entry may still hold its old value or
\* the memory may have been reused.
Current ==
    /\ lastOp' = "current"
    /\ ret' \in IF iter_curr = Null THEN {NoValue}
                ELSE IF iter_curr \in Live THEN {val[iter_curr]}
                ELSE {val[iter_curr], Garbage}
    /\ UNCHANGED <<entries, val, nextId, iter_curr, iter_temp, dirty, hashv>>

\* Set::valid: iter_curr is not NULL.
Valid ==
    /\ lastOp' = "valid"
    /\ ret' = (iter_curr # Null)
    /\ UNCHANGED <<entries, val, nextId, iter_curr, iter_temp, dirty, hashv>>

\* Set::next: iter_curr takes iter_temp, iter_temp moves to its hh.next.
\* (iter_index, which only feeds key(), is not modelled.)
MoveNext ==
    /\ iter_curr' = iter_temp
    /\ iter_temp' = IF iter_temp # Null THEN HhNext(iter_temp) ELSE Null
    /\ lastOp' = "next"
    /\ ret' = NoValue
    /\ UNCHANGED <<entries, val, nextId, dirty, hashv>>

\* Mutant of Rewind: iter_temp is set to the head itself (off by one).
RewindTempAtHead ==
    /\ iter_curr' = IF entries = <<>> THEN Null ELSE Head(entries)
    /\ iter_temp' = IF entries = <<>> THEN Null ELSE Head(entries)
    /\ lastOp' = "rewind"
    /\ ret' = NoValue
    /\ UNCHANGED <<entries, val, nextId, dirty, hashv>>

\* Set::rewind: iter_curr at the head, iter_temp at the head's hh.next.
Rewind ==
    /\ iter_curr' = IF entries = <<>> THEN Null ELSE Head(entries)
    /\ iter_temp' = IF Len(entries) > 1 THEN entries[2] ELSE Null
    /\ lastOp' = "rewind"
    /\ ret' = NoValue
    /\ UNCHANGED <<entries, val, nextId, dirty, hashv>>

\* php_driver_set_hash_value (the hash_value handler): recombine the element
\* hashes in HASH_ITER order when dirty, else return the memoised hash.
HashValue ==
    /\ IF dirty
         THEN /\ hashv' = ValueSeq
              /\ dirty' = FALSE
         ELSE UNCHANGED <<hashv, dirty>>
    /\ lastOp' = "hash"
    /\ ret' = hashv'
    /\ UNCHANGED <<entries, val, nextId, iter_curr, iter_temp>>

\* Mutant of SetCompare: the HASH_COUNT comparison is left out, so only
\* the one-way lookup of s1's values in s2 decides.
SetCompareNoCount(s1, s2) ==
    IF \E i \in 1..Len(s1) : s1[i] \notin Range(s2) THEN 1 ELSE 0

\* php_driver_set_compare (the compare handler behind == and <) for two
\* sets of the same element type, given their values in HASH_ITER order:
\* the smaller set is less; sets of one size are equal unless a value of
\* s1 is missing from s2 (HASH_FIND_ZVAL), which makes s1 greater.
SetCompare(s1, s2) ==
    IF Len(s1) # Len(s2)
      THEN IF Len(s1) < Len(s2) THEN -1 ELSE 1
      ELSE IF \E i \in 1..Len(s1) : s1[i] \notin Range(s2) THEN 1 ELSE 0

\* The data operations a script may call at any time.
DataOp ==
    \/ \E v \in Elems : Add(v) \/ Del(v) \/ Has(v)
    \/ Count \/ GetValues \/ HashValue

\* The iterator methods.
IterOp == Rewind \/ Valid \/ Current \/ MoveNext

Next == DataOp \/ IterOp

Spec == Init /\ [][Next]_vars

-----------------------------------------------------------------------------
(* Properties.                                                             *)

\* next() dereferences iter_temp (iter_temp->hh.next), so iter_temp must
\* never point to a freed entry, whatever the order of add/remove/next/
\* rewind calls: php_driver_set_del must advance it before freeing.
TempLive == iter_temp = Null \/ iter_temp \in Live

\* The memoised hash is only trusted when not dirty; then it must be the
\* hash of the current elements in the current iteration order, i.e. every
\* add and remove that changed the table set dirty.
HashCacheFresh == ~dirty => hashv = ValueSeq

\* current() returns an element of the set (or nothing): the spec promises
\* that removing the element the cursor is on is safe.  Set::remove leaves
\* iter_curr pointing at the freed entry.
CurrentReturnsMember == lastOp = "current" => ret \in Content \cup {NoValue}

=============================================================================
