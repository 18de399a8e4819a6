---------------------------- MODULE MC_FixedInt ----------------------------
(* Cassandra\Tinyint: 8-bit payload, every pair of payloads as operands.   *)
EXTENDS FixedInt

\* Constructor arguments: in range, just out of range on either side, and
\* longs beyond 32 bits whose low word is in range (2^32 + 5, -2^32 - 3)
\* or out of range, next to the in-range negatives -1 and -128.
MC_LongInputs ==
    { [hi |-> 0, lo |-> 5], [hi |-> 0, lo |-> 127], [hi |-> 0, lo |-> 128],
      [hi |-> -1, lo |-> -1], [hi |-> -1, lo |-> -128], [hi |-> -1, lo |-> -129],
      [hi |-> 1, lo |-> 5], [hi |-> -2, lo |-> -3], [hi |-> 1, lo |-> 300] }

\* Floats: 127.9, -128.7, 128.0, -129.5, -0.5, 1e10, -1e10 and NaN.
MC_DoubleInputs ==
    { [c |-> "num", t |-> 127], [c |-> "num", t |-> -128], [c |-> "num", t |-> 128],
      [c |-> "num", t |-> -129], [c |-> "num", t |-> 0], [c |-> "big", t |-> 1],
      [c |-> "big", t |-> -1], [c |-> "nan", t |-> 0] }

\* Strings: "5", "200", "-129", "99999999999" and "abc".
MC_StringInputs ==
    { [c |-> "num", t |-> 5], [c |-> "num", t |-> 200], [c |-> "num", t |-> -129],
      [c |-> "big", t |-> 1], [c |-> "nan", t |-> 0] }

\* Every payload of the domain, for both operands.
MC_Operands == Domain
=============================================================================
