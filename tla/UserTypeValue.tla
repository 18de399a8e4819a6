--------------------------- MODULE UserTypeValue ---------------------------
(***************************************************************************)
(* Cassandra\UserTypeValue (src/ext/src/UserTypeValue.c).  The object is  *)
(* the Tuple object with field names for keys: values is a zend HashTable *)
(* in insertion order updated by zend_hash_str_update, the iterator walks *)
(* the type's field table, and the compare and hash handlers walk values. *)
(* Each method is the Composite action it shares its code with; the       *)
(* checks of a name against the type replace the index bound checks.     *)
(***************************************************************************)
EXTENDS Composite

\* UserTypeValue::set: an unknown field name throws; otherwise
\* php_driver_user_type_value_set stores the value and sets dirty.
UdtSet(o, k, v) == Set(o, k, v)

\* UserTypeValue::get: an unknown field name throws; unset returns null.
UdtGet(o, k) == Get(o, k)

\* UserTypeValue::values / php_driver_user_type_value_populate.
UdtValues(o) == Values(o)

\* UserTypeValue::count.
UdtCount == Count

\* The Iterator methods over the type's field table.
UdtRewind(o) == Rewind(o)
UdtMoveNext(o) == MoveNext(o)
UdtValid(o) == Valid(o)
UdtKey(o) == Key(o)
UdtCurrent(o) == Current(o)

\* php_driver_user_type_value_compare.
UdtCompare(o1, o2) == Compare(o1, o2)

\* php_driver_user_type_value_hash_value (PHP < 8).
UdtHashValue(o) == HashValue(o)

UdtStep ==
    \/ \E o \in Objs :
          \/ \E k \in KeySet \cup BadKeys :
                \/ \E v \in Vals : UdtSet(o, k, v)
                \/ UdtGet(o, k)
          \/ UdtValues(o) \/ UdtRewind(o) \/ UdtMoveNext(o) \/ UdtValid(o)
          \/ UdtKey(o) \/ UdtCurrent(o) \/ UdtHashValue(o)
    \/ UdtCount
    \/ \E o1, o2 \in Objs : UdtCompare(o1, o2)

UdtSpec == Init /\ [][UdtStep]_vars
=============================================================================
