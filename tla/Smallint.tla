------------------------------ MODULE Smallint ------------------------------
(***************************************************************************)
(* Cassandra\Smallint (src/ext/src/Smallint.c).  The file is Tinyint.c     *)
(* with cass_int16_t payloads and INT16_MIN/INT16_MAX bounds: every method *)
(* is the FixedInt action of the same name at Bits = 16.                   *)
(***************************************************************************)
EXTENDS FixedInt

ASSUME Bits = 16

\* php_driver_smallint_init for a PHP int, a float, a string, a Smallint
\* and any other argument.
SmallintConstruct(l) == ConstructLong(l)
SmallintConstructDouble(d) == ConstructDouble(d)
SmallintConstructString(t) == ConstructString(t)
SmallintConstructCopy == ConstructCopy
SmallintConstructOther == ConstructOther

\* Smallint::add, sub, mul, div, mod, abs, neg and sqrt.
SmallintAdd == AddOp
SmallintSub == SubOp
SmallintMul == MulOp
SmallintDiv == DivOp
SmallintMod == ModOp
SmallintAbs == AbsOp
SmallintNeg == NegOp
SmallintSqrt == SqrtOp

\* php_driver_smallint_compare.
SmallintCompare == CompareOp

\* Smallint::min and Smallint::max.
SmallintMin == MinOp
SmallintMax == MaxOp

SmallintStep ==
    \/ \E l \in LongInputs : SmallintConstruct(l)
    \/ \E d \in DoubleInputs : SmallintConstructDouble(d)
    \/ \E t \in StringInputs : SmallintConstructString(t)
    \/ SmallintConstructCopy \/ SmallintConstructOther
    \/ SmallintAdd \/ SmallintSub \/ SmallintMul \/ SmallintDiv \/ SmallintMod
    \/ SmallintAbs \/ SmallintNeg \/ SmallintSqrt
    \/ SmallintCompare \/ SmallintMin \/ SmallintMax

SmallintSpec == Init /\ [][SmallintStep]_vars
=============================================================================
