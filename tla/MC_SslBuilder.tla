---------------------------- MODULE MC_SslBuilder ----------------------------
(* Two files, at most two trusted certificates, two file-system changes,  *)
(* two passphrases and two verify-flag arguments.                          *)
EXTENDS SslBuilder, TLC

CONSTANTS p1, p2, pw1, pw2

MC_Passphrases == {pw1, pw2}

\* The bitmask 1, and 2^32 + 1, which the cast narrows to 1 as well.
MC_FlagInputs == {[hi |-> 0, lo |-> 1], [hi |-> 1, lo |-> 1]}

MC_Paths == {p1, p2}

\* The file names are interchangeable.
MC_Symmetry == Permutations(MC_Paths)
=============================================================================
