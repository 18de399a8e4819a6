----------------------------- MODULE MC_Temporal -----------------------------
(* Two PHP variables per class and constructor arguments at the edges of   *)
(* each payload's domain: Time around 0 and NUM_NANOSECONDS_PER_DAY, with *)
(* negative and past-midnight clock and DateTime seconds; Timestamp with  *)
(* negative seconds and microseconds of either sign and beyond a second;  *)
(* Timeuuid from the clock, from ints either side of 0 and a second, and *)
(* from version-1, version-4 and malformed strings.                       *)
EXTENDS Temporal, TLC

CONSTANTS o1, o2

MC_Objs == {o1, o2}

MaxNs == 1000000000 - 1

MC_TimeValues ==
    {<<-1, MaxNs>>, <<0, 0>>, <<43200, 1>>, <<86399, MaxNs>>, <<86400, 0>>}

MC_TimeArgs ==
    {[kind |-> "none", clk |-> c] :
        c \in {[sec |-> 0, nsec |-> 0], [sec |-> 172799, nsec |-> MaxNs]}}
    \cup {[kind |-> "long", v |-> v] : v \in MC_TimeValues}
    \cup {[kind |-> "string", v |-> v] :
            v \in {<<-1, MaxNs>>, <<86400, 0>>, <<43200, 1>>, Unparsable}}
    \cup {[kind |-> "other"]}

MC_EpochSecs == {-1, 0, 172805}

MC_TsArgs ==
    {[n |-> 0, clk |-> c, bad |-> FALSE] :
        c \in {[sec |-> 0, usec |-> 999999], [sec |-> 2, usec |-> 1500]}}
    \cup {[n |-> 1, s |-> s, bad |-> FALSE] : s \in {-1, 0, 1}}
    \cup {[n |-> 2, s |-> s, us |-> us, bad |-> FALSE] :
            s \in {-1, 1}, us \in {-1500, 500000, 1500000}}
    \cup {[n |-> 1, bad |-> TRUE]}

MC_UuidArgs ==
    {[kind |-> "none", clk |-> t, csn |-> c] : t \in {10000000, 25000000}, c \in {1, 2}}
    \cup {[kind |-> "long", v |-> v, csn |-> 1] : v \in {-1, 0, 1500}}
    \cup {[kind |-> "string", u |-> u] :
            u \in {[ver |-> 1, t |-> 15000000, csn |-> 2],
                   [ver |-> 4, t |-> 5000000, csn |-> 1], Unparsable}}
    \cup {[kind |-> "other"]}

\* The variables are interchangeable.
MC_Symmetry == Permutations(MC_Objs)
=============================================================================
