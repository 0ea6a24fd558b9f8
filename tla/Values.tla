-------------------------------- MODULE Values --------------------------------
(***************************************************************************)
(* The values of rows and expressions, their types and their conversions.  *)
(*                                                                         *)
(* A value is a type and a number of halves: 1 is 2, 0.5 is 1.  A string   *)
(* is its place in the order of strings, the empty one being 0.  Integers  *)
(* have IntBits bits and floating point numbers MantissaBits of mantissa,  *)
(* few enough for overflow and rounding to happen on small numbers, and    *)
(* ordered as in the program: an INT32 always fits a DOUBLE, an INT64 and  *)
(* a FLOAT literal may not.                                                *)
(***************************************************************************)
EXTENDS Integers, Sequences, FiniteSets

CONSTANTS IntBits,       \* [INT32, INT64 -> bits]
          MantissaBits   \* [FLOAT, DOUBLE -> bits]

ASSUME WidthsAssumption ==
    /\ DOMAIN IntBits = {"INT32", "INT64"} /\ DOMAIN MantissaBits = {"FLOAT", "DOUBLE"}
    /\ \A t \in DOMAIN IntBits : IntBits[t] \in Nat \ {0}
    /\ \A t \in DOMAIN MantissaBits : MantissaBits[t] \in Nat \ {0}

IsInteger(type)  == type \in {"INT32", "INT64"}
IsFloating(type) == type \in {"FLOAT", "DOUBLE"}
IsNumericType(type) == IsInteger(type) \/ IsFloating(type)

Value(type, n) == [t |-> type, n |-> n]
Bool(b) == Value("BOOL", IF b THEN 2 ELSE 0)
Throw   == Value("throw", 0)

Lowest(type)  == -(2 ^ IntBits[type])
Highest(type) == 2 ^ IntBits[type] - 2
Abs(n) == IF n < 0 THEN -n ELSE n

\* n on a grid of step s, ties to the even multiple.
ToGrid(n, s) ==
    LET below == n \div s
        rest  == 2 * (n % s)
    IN s * (IF rest > s \/ (rest = s /\ below % 2 = 1) THEN below + 1 ELSE below)

\* The nearest number with p bits of mantissa.
Round(p, n) ==
    IF Abs(n) < 2 ^ p THEN n
    ELSE ToGrid(n, CHOOSE s \in {2 ^ k : k \in 1..16} : Abs(n) < s * 2 ^ p /\ 2 * Abs(n) >= s * 2 ^ p)

\* static_cast from long double.  Out of range the result of an integer
\* conversion is what the processor stores, its lowest number.
CastNumber(n, type) ==
    IF IsInteger(type)
    THEN LET whole == IF n >= 0 THEN n - (n % 2) ELSE n + (n % 2)
         IN Value(type, IF whole \in Lowest(type)..Highest(type) THEN whole ELSE Lowest(type))
    ELSE IF type = "FLOAT" THEN Value(type, Round(MantissaBits.FLOAT, n))
    ELSE Value("DOUBLE", Round(MantissaBits.DOUBLE, n))

\* Two's complement addition, as the integer kernels do it.
Wrap(n, type) ==
    IF IsInteger(type) THEN Value(type, Lowest(type) + ((n - Lowest(type)) % (2 * 2 ^ IntBits[type])))
    ELSE CastNumber(n, type)

ExecValueAsBool(v) == v.n # 0

WriteExecValue(v, type) ==
    IF v.t = "throw" \/ (type = "VARCHAR") # (v.t = "VARCHAR") THEN Throw
    ELSE IF type = "VARCHAR" THEN v ELSE CastNumber(v.n, type)

\* The comparison operators.
Compares(op, a, b) ==
    \/ op = "="  /\ a = b
    \/ op = "!=" /\ a # b
    \/ op = ">"  /\ a > b
    \/ op = ">=" /\ a >= b
    \/ op = "<"  /\ a < b
    \/ op = "<=" /\ a <= b

CmpOps == {"=", "!=", ">", ">=", "<", "<="}
ReverseCmpOp(op) == CASE op = ">" -> "<" [] op = ">=" -> "<=" [] op = "<" -> ">" [] op = "<=" -> ">=" [] OTHER -> op

\* CompareExecValues under op: strings compare with strings only.
CompareValues(op, a, b) ==
    IF a.t = "throw" \/ b.t = "throw" \/ (a.t = "VARCHAR") # (b.t = "VARCHAR") THEN Throw
    ELSE Bool(Compares(op, a.n, b.n))

\* CoerceFromInt64 and CoerceFromDouble: whether a literal is a number of the
\* type, and so may be handed to the kernels.
CoerceFromInt64(n, type) ==
    CASE IsInteger(type)   -> n \in Lowest(type)..Highest(type)
      [] type = "FLOAT"    -> Abs(n) <= 2 * 2 ^ MantissaBits.FLOAT
      [] type = "DOUBLE"   -> Round(MantissaBits.DOUBLE, n) = n
      [] OTHER             -> FALSE
CoerceFromDouble(n, type) ==
    CASE IsInteger(type)   -> n % 2 = 0 /\ n \in Lowest(type)..Highest(type)
      [] IsFloating(type)  -> Round(MantissaBits[type], n) = n
      [] OTHER             -> FALSE
TryCoerceExact(v, type) ==
    \/ IsInteger(v.t) /\ CoerceFromInt64(v.n, type)
    \/ IsFloating(v.t) /\ CoerceFromDouble(v.n, type)

\* sum / count, to the nearest half and then to a DOUBLE.
Quotient(sum, count) == Round(MantissaBits.DOUBLE, IF count = 0 THEN 0 ELSE ToGrid(sum, count) \div count)
=============================================================================
