---------------------------- MODULE MC_Smallint ----------------------------
(* Cassandra\Smallint: 16-bit payload, operands at the boundaries.         *)
EXTENDS Smallint

\* Constructor arguments: in range, just out of range on either side, and
\* longs beyond 32 bits whose low word is in range (2^32 + 5, -2^32 - 3)
\* or out of range.
MC_LongInputs ==
    { [hi |-> 0, lo |-> 5], [hi |-> 0, lo |-> 32767], [hi |-> 0, lo |-> 32768],
      [hi |-> -1, lo |-> -1], [hi |-> -1, lo |-> -32768], [hi |-> -1, lo |-> -32769],
      [hi |-> 1, lo |-> 5], [hi |-> -2, lo |-> -3], [hi |-> 1, lo |-> 70000] }

\* Floats: 32767.9, -32768.7, 32768.0, -0.5, 1e10, -1e10 and NaN.
MC_DoubleInputs ==
    { [c |-> "num", t |-> 32767], [c |-> "num", t |-> -32768], [c |-> "num", t |-> 32768],
      [c |-> "num", t |-> 0], [c |-> "big", t |-> 1], [c |-> "big", t |-> -1],
      [c |-> "nan", t |-> 0] }

\* Strings: "5", "40000", "99999999999" and "abc".
MC_StringInputs ==
    { [c |-> "num", t |-> 5], [c |-> "num", t |-> 40000],
      [c |-> "big", t |-> 1], [c |-> "nan", t |-> 0] }

\* The extremes and their neighbours, the square-root boundary 181
\* (181^2 < 2^15 < 182^2), the 8-bit boundaries, and small values.
MC_Operands ==
    { -32768, -32767, -256, -182, -181, -2, -1, 0, 1, 2, 181, 182, 255, 256,
      32766, 32767 }
=============================================================================
