------------------------------ MODULE FixedInt ------------------------------
(***************************************************************************)
(* The fixed-width integer wrappers Cassandra\Tinyint (src/ext/src/        *)
(* Tinyint.c) and Cassandra\Smallint (src/ext/src/Smallint.c).  Both files *)
(* are the same code for a payload of Bits = 8 or 16 bits.                 *)
(*                                                                         *)
(* A method reads the payloads of its operands, computes in C int (32     *)
(* bits, wide enough that no intermediate of two 8- or 16-bit operands     *)
(* overflows), stores the result into the Bits-wide payload of a new       *)
(* object (the conversion keeps the low Bits bits, two's complement, as   *)
(* gcc and clang do) and, for add/sub/mul, re-derives an operand from the  *)
(* stored result to detect overflow.                                       *)
(*                                                                         *)
(* A script holds two objects, self and other, whose payloads may be any  *)
(* value of Operands (the constructor accepts each value of the domain).  Every method call *)
(* is one step; last records the method, its operands, how it ended and   *)
(* the payload of the object it returned.  Methods never change their     *)
(* operands; only __construct re-initialises self.                        *)
(*                                                                         *)
(* A PHP int (zend_long) argument is 64 bits wide and TLC integers are 32, *)
(* so a long is given as its two 32-bit halves: hi (the high word, signed) *)
(* and lo (the low word read as a signed 32-bit int, i.e. what the cast to *)
(* cass_int32_t yields): value hi * 2^32 + (lo mod 2^32).                  *)
(*                                                                         *)
(* A PHP float argument is given by what the cast (cass_int32_t) sees: a   *)
(* finite value whose integral part t fits 32 bits ([c |-> "num", t]), a  *)
(* value beyond 32 bits or infinite ([c |-> "big"], t its sign), or NaN   *)
(* ([c |-> "nan"]).  A numeric string is given likewise by what the       *)
(* parser makes of it: a 32-bit number t, a number beyond 32 bits, or no  *)
(* number at all.                                                          *)
(***************************************************************************)
EXTENDS Integers

CONSTANTS
    Bits,        \* payload width: 8 (Tinyint) or 16 (Smallint)
    LongInputs,  \* zend_long constructor arguments, as [hi, lo] records
    DoubleInputs, \* float constructor arguments, as [c, t] records
    StringInputs, \* string constructor arguments, as [c, t] records
    Arch,        \* the target: "x86_64" or "aarch64"
    Operands     \* payloads the two objects may hold

MinV == -(2 ^ (Bits - 1))
MaxV == 2 ^ (Bits - 1) - 1
Domain == MinV..MaxV

ASSUME /\ Bits \in {8, 16}
       /\ LongInputs \subseteq [hi : Int, lo : Int]
       /\ DoubleInputs \cup StringInputs \subseteq [c : {"num", "big", "nan"}, t : Int]
       /\ Arch \in {"x86_64", "aarch64"}
       /\ Operands \subseteq Domain

VARIABLES self, other, last

vars == <<self, other, last>>

\* Conversion of a C int to the Bits-wide payload (cass_int8_t/int16_t).
Wrap(x) == ((x - MinV) % (2 ^ Bits)) + MinV

\* C integer division and remainder truncate toward zero.
Abs(x) == IF x < 0 THEN -x ELSE x
CDiv(a, b) == LET q == Abs(a) \div Abs(b)
              IN  IF (a < 0) = (b < 0) THEN q ELSE -q
CMod(a, b) == a - CDiv(a, b) * b

\* (cass_int16_t) sqrt((long double) x) for x >= 0: the floor of the root.
ISqrt(x) == CHOOSE r \in 0..x : r * r <= x /\ (r + 1) * (r + 1) > x

ConstructOps == {"construct", "construct_double", "construct_string",
                 "construct_copy", "construct_other"}
Outcomes == {"ok", "range", "div0", "invalid"}
BinOps == {"add", "sub", "mul", "div", "mod"}
UnOps == {"abs", "neg", "sqrt"}

TypeOK ==
    /\ self \in Domain
    /\ other \in Domain
    /\ last \in [op : BinOps \cup UnOps \cup ConstructOps \cup {"compare", "min", "max", "new"},
              a : Int, b : Int, outcome : Outcomes, res : Domain]

\* Record of a call; res is 0 when no object is returned.
Call(op, a, b, outcome, res) ==
    last' = [op |-> op, a |-> a, b |-> b, outcome |-> outcome, res |-> res]

\* A method on self with argument other: the operands stay as they are.
Method(op, outcome, res) ==
    /\ Call(op, self, other, outcome, res)
    /\ UNCHANGED <<self, other>>

\* Two objects built by the constructor; nothing called on them yet.
Init ==
    /\ self \in Operands
    /\ other \in Operands
    /\ last = [op |-> "new", a |-> 0, b |-> 0, outcome |-> "ok", res |-> 0]

IntMin == -2147483647 - 1
IntMax == 2147483647

\* The range check of a numeric branch of php_driver_tinyint_init on
\* number, then the store (cass_int8_t) number.
CheckAndStore(op, a, b, n) ==
    IF n < MinV \/ n > MaxV
      THEN /\ Call(op, a, b, "range", 0)
           /\ UNCHANGED self
      ELSE /\ Call(op, a, b, "ok", n)
           /\ self' = n

\* self->__construct(l), php_driver_tinyint_init for a long argument: the
\* long is cast to cass_int32_t (its low word), range-checked, then stored.
ConstructLong(l) ==
    /\ CheckAndStore("construct", l.hi, l.lo, l.lo)
    /\ UNCHANGED other

\* How a record's kind is kept in last.b.
KindCode(c) == CASE c = "num" -> 0 [] c = "big" -> 1 [] c = "nan" -> 2

\* (cass_int32_t) of a double: its integral part when that fits 32 bits.
\* Otherwise the conversion is undefined; x86-64's cvttsd2si yields
\* INT32_MIN for every such value, aarch64's fcvtzs saturates and maps NaN
\* to 0.
DoubleToInt32(d) ==
    CASE d.c = "num" -> d.t
      [] Arch = "x86_64" -> IntMin
      [] d.c = "big" -> IF d.t > 0 THEN IntMax ELSE IntMin
      [] d.c = "nan" -> 0

\* Mutant of ConstructDouble: the double is narrowed with no range check.
ConstructDoubleNoCheck(d) ==
    /\ Call("construct_double", d.t, KindCode(d.c), "ok", Wrap(DoubleToInt32(d)))
    /\ self' = Wrap(DoubleToInt32(d))
    /\ UNCHANGED other

\* The float branch: cast to cass_int32_t, range-check, store.
ConstructDouble(d) ==
    /\ CheckAndStore("construct_double", d.t, KindCode(d.c), DoubleToInt32(d))
    /\ UNCHANGED other

\* The string branch: php_driver_parse_int into a cass_int32_t; a number
\* beyond 32 bits (ERANGE) raises RangeException, no number returns with
\* the parser's InvalidArgumentException; then range-check and store.
ConstructString(s) ==
    /\ CASE s.c = "num" -> CheckAndStore("construct_string", s.t, 0, s.t)
         [] s.c = "big" -> Call("construct_string", s.t, 1, "range", 0) /\ UNCHANGED self
         [] s.c = "nan" -> Call("construct_string", s.t, 2, "invalid", 0) /\ UNCHANGED self
    /\ UNCHANGED other

\* A Tinyint argument: its payload is copied.
ConstructCopy ==
    /\ Call("construct_copy", other, 0, "ok", other)
    /\ self' = other
    /\ UNCHANGED other

\* Any other argument: INVALID_ARGUMENT throws and returns.
ConstructOther ==
    /\ Call("construct_other", 0, 0, "invalid", 0)
    /\ UNCHANGED <<self, other>>

\* Tinyint::add: the sum is stored, overflow if result - addend # self.
AddOp ==
    LET r == Wrap(self + other)
    IN  Method("add", IF r - other # self THEN "range" ELSE "ok", r)

\* Tinyint::sub: the difference is stored, overflow if
\* result + subtrahend # self.
SubOp ==
    LET r == Wrap(self - other)
    IN  Method("sub", IF r + other # self THEN "range" ELSE "ok", r)

\* Tinyint::mul: the product is stored, overflow if the multiplier is
\* non-zero and result / multiplier # self.
MulOp ==
    LET r == Wrap(self * other)
    IN  Method("mul", IF other # 0 /\ CDiv(r, other) # self THEN "range" ELSE "ok", r)

\* Tinyint::div: a zero divisor raises; otherwise the quotient is stored.
DivOp ==
    IF other = 0 THEN Method("div", "div0", 0)
                 ELSE Method("div", "ok", Wrap(CDiv(self, other)))

\* Tinyint::mod: a zero divisor raises; otherwise the remainder is stored.
ModOp ==
    IF other = 0 THEN Method("mod", "div0", 0)
                 ELSE Method("mod", "ok", Wrap(CMod(self, other)))

\* Mutant of AbsOp: the INT8_MIN guard is dropped.
AbsNoMinCheck == Method("abs", "ok", Wrap(Abs(self)))

\* Tinyint::abs: the minimum raises, otherwise |self|.
AbsOp ==
    IF self = MinV THEN Method("abs", "range", 0)
                   ELSE Method("abs", "ok", Abs(self))

\* Tinyint::neg: the minimum raises, otherwise -self.
NegOp ==
    IF self = MinV THEN Method("neg", "range", 0)
                   ELSE Method("neg", "ok", -self)

\* Tinyint::sqrt: a negative payload raises RangeException.
SqrtOp ==
    IF self < 0 THEN Method("sqrt", "range", 0)
                ELSE Method("sqrt", "ok", ISqrt(self))

\* php_driver_tinyint_compare (the ==, < and <=> handler): -1, 0 or 1.
CompareOp ==
    Method("compare", "ok", IF self = other THEN 0 ELSE IF self < other THEN -1 ELSE 1)

\* Tinyint::min / Tinyint::max (static).
MinOp == Method("min", "ok", MinV)
MaxOp == Method("max", "ok", MaxV)

Next ==
    \/ \E l \in LongInputs : ConstructLong(l)
    \/ \E d \in DoubleInputs : ConstructDouble(d)
    \/ \E t \in StringInputs : ConstructString(t)
    \/ ConstructCopy \/ ConstructOther
    \/ AddOp \/ SubOp \/ MulOp \/ DivOp \/ ModOp
    \/ AbsOp \/ NegOp \/ SqrtOp
    \/ CompareOp \/ MinOp \/ MaxOp

Spec == Init /\ [][Next]_vars

-----------------------------------------------------------------------------
(* Reference definitions: the mathematical result of each method.          *)

Math(op, a, b) ==
    CASE op = "add" -> a + b
      [] op = "sub" -> a - b
      [] op = "mul" -> a * b
      [] op = "div" -> CDiv(a, b)
      [] op = "mod" -> CMod(a, b)
      [] op = "abs" -> Abs(a)
      [] op = "neg" -> -a
      [] op = "compare" -> IF a < b THEN -1 ELSE IF a = b THEN 0 ELSE 1

\* add, sub, mul, abs and neg raise RangeException exactly when the
\* mathematical result leaves the domain, and otherwise return it: the
\* overflow check by re-deriving an operand from the wrapped result misses
\* no overflow and reports no false one.  compare orders the payloads.
CheckedOpsExact ==
    last.op \in {"add", "sub", "mul", "abs", "neg", "compare"} =>
        LET m == Math(last.op, last.a, last.b)
        IN  /\ (last.outcome = "ok") <=> (m \in Domain)
            /\ last.outcome = "ok" => last.res = m

\* div and mod with a non-zero divisor return the mathematical quotient or
\* remainder, or raise RangeException when it is out of the domain (spec:
\* "arithmetic operations ... raise RangeError" on overflow).
DivModExact ==
    last.op \in {"div", "mod"} /\ last.b # 0 =>
        LET m == Math(last.op, last.a, last.b)
        IN  /\ (last.outcome = "ok") <=> (m \in Domain)
            /\ last.outcome = "ok" => last.res = m

\* The long with high word hi and low word lo lies in the domain: its high
\* word is the sign extension of a low word in the domain.
LongInDomain(hi, lo) ==
    \/ hi = 0 /\ lo \in 0..MaxV
    \/ hi = -1 /\ lo \in MinV..-1

\* Constructing from a PHP int succeeds exactly when the int is in the
\* domain, and then holds that int (spec: out-of-domain values are
\* rejected with a RangeError).  last.a is the high word, last.b the low.
ConstructExact ==
    last.op = "construct" =>
        /\ (last.outcome = "ok") <=> LongInDomain(last.a, last.b)
        /\ last.outcome = "ok" => last.res = last.b

\* Constructing from a float succeeds exactly when the float is a finite
\* number whose integral part is in the domain, and then holds that part;
\* from a string, exactly when it denotes a number in the domain, and then
\* holds it (spec: out-of-domain values are rejected with a RangeError).
\* Beyond 32 bits the C conversion of the float branch is undefined.
NonLongConstructExact ==
    last.op \in {"construct_double", "construct_string"} =>
        /\ (last.outcome = "ok") <=> (last.b = 0 /\ last.a \in Domain)
        /\ last.outcome = "ok" => last.res = last.a
=============================================================================
