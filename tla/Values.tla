------------------------------- MODULE Values -------------------------------
(***************************************************************************)
(* The values of catalog/types.go and what the operators of evalBinary and *)
(* evalUnary (operators/expression.go:260-379) make of them: SQL's three   *)
(* truth values, and int64 arithmetic with the overflow guards of the      *)
(* code.  An operand whose evaluation fails is a value of type "error".    *)
(*                                                                         *)
(* Integers, Booleans and NULL are enough to tell the cases apart; floats  *)
(* and texts are left out.  Compare goes through float64, which is exact   *)
(* up to 2^53 and is taken to be exact here.                               *)
(***************************************************************************)
EXTENDS Integers

CONSTANT MaxInt             \* math.MaxInt64

ASSUME MaxIntAssumption == MaxInt \in Nat \ {0}

MinInt == -MaxInt - 1

IntValue(n) == [type |-> "int", val |-> n]
BoolValue(b) == [type |-> "bool", val |-> IF b THEN 1 ELSE 0]
NullValue == [type |-> "null", val |-> 0]

Unresolved == [type |-> "error", val |-> 0]   \* column or function not found
Raised == [type |-> "error", val |-> 1]       \* overflow, division by zero, wrong type

TrueValue == BoolValue(TRUE)
FalseValue == BoolValue(FALSE)

Truth == {TrueValue, FalseValue, NullValue}
Errors == {Unresolved, Raised}
Integer == [type : {"int"}, val : MinInt .. MaxInt]
Value == Truth \union Integer
Outcome == Value \union Errors

IsNull(v) == v.type = "null"
IsInt(v) == v.type = "int"
IsBool(v) == v.type = "bool"
IsError(v) == v.type = "error"
IsTruthy(v) == v = TrueValue

\* Go's arithmetic on int64: the sum wraps round, the quotient drops its fraction.
Wrapped(n) == ((n - MinInt) % (2 * MaxInt + 2)) + MinInt
Quotient(a, b) ==
  IF a >= 0 THEN IF b > 0 THEN a \div b ELSE -(a \div (-b))
            ELSE IF b > 0 THEN -((-a) \div b) ELSE (-a) \div (-b)

-----------------------------------------------------------------------------
(* The four operations of arithmetic, on operands that have evaluated.       *)

AddOverflows(a, b) ==
  \/ b > 0 /\ a > MaxInt - b
  \/ b < 0 /\ a < MinInt - b

SubOverflows(a, b) ==
  \/ b < 0 /\ a > MaxInt + b
  \/ b > 0 /\ a < MinInt + b

MulOverflows(a, b) ==
  /\ a # 0 /\ b # 0
  /\ \/ b > 0 /\ a > Quotient(MaxInt, b)
     \/ b > 0 /\ a < Quotient(MinInt, b)
     \/ b < 0 /\ a < Quotient(MaxInt, b)
     \/ b = -1 /\ a = MinInt
     \/ b < 0 /\ b # -1 /\ a > Quotient(MinInt, b)

OnIntegers(v, w, fails, result) ==
  IF IsNull(v) \/ IsNull(w) THEN NullValue
  ELSE IF IsInt(v) /\ IsInt(w) /\ ~fails THEN IntValue(Wrapped(result))
  ELSE Raised

Add(v, w) == OnIntegers(v, w, AddOverflows(v.val, w.val), v.val + w.val)
Sub(v, w) == OnIntegers(v, w, SubOverflows(v.val, w.val), v.val - w.val)
Mul(v, w) == OnIntegers(v, w, MulOverflows(v.val, w.val), v.val * w.val)
Div(v, w) == OnIntegers(v, w, w.val = 0, Quotient(v.val, w.val))

-----------------------------------------------------------------------------
(* Compare returns an error for NULL and for two types; a comparison then    *)
(* evaluates to NULL, and is not folded.                                     *)

Comparable(v, w) == ~IsNull(v) /\ ~IsNull(w) /\ v.type = w.type

Compares(op, v, w) ==
  \/ op = "=" /\ v.val = w.val
  \/ op = "<>" /\ v.val # w.val
  \/ op = "<" /\ v.val < w.val
  \/ op = ">" /\ v.val > w.val
  \/ op = "<=" /\ v.val <= w.val
  \/ op = ">=" /\ v.val >= w.val

Comparison(op, v, w) ==
  IF Comparable(v, w) THEN BoolValue(Compares(op, v, w)) ELSE NullValue

And(v, w) ==
  IF FalseValue \in {v, w} THEN FalseValue
  ELSE IF NullValue \in {v, w} THEN NullValue
  ELSE BoolValue(v = TrueValue /\ w = TrueValue)

Or(v, w) ==
  IF TrueValue \in {v, w} THEN TrueValue
  ELSE IF NullValue \in {v, w} THEN NullValue
  ELSE BoolValue(FALSE)

Not(v) ==
  IF IsNull(v) THEN NullValue
  ELSE IF IsBool(v) THEN BoolValue(v # TrueValue) ELSE Raised

Minus(v) ==
  IF IsNull(v) THEN NullValue
  ELSE IF IsInt(v) THEN IntValue(Wrapped(-v.val)) ELSE Raised

Arithmetic == {"+", "-", "*", "/"}
Comparisons == {"=", "<>", "<", ">", "<=", ">="}

\* evalBinary evaluates both operands first, so that an error of the left one
\* comes before an error of the right one, and neither is ever skipped.
Binary(op, v, w) ==
  IF IsError(v) THEN v
  ELSE IF IsError(w) THEN w
  ELSE CASE op = "+" -> Add(v, w)
         [] op = "-" -> Sub(v, w)
         [] op = "*" -> Mul(v, w)
         [] op = "/" -> Div(v, w)
         [] op = "AND" -> And(v, w)
         [] op = "OR" -> Or(v, w)
         [] op \in Comparisons -> Comparison(op, v, w)

Unary(op, v) ==
  IF IsError(v) THEN v
  ELSE CASE op = "NOT" -> Not(v)
         [] op = "-" -> Minus(v)
=============================================================================
