-------------------------------- MODULE Numbers --------------------------------
(***************************************************************************)
(* Numbers as Go keeps them (internal/scalar, constraints.go): a width,    *)
(* counts scaled by a unit, comparison across signedness.                  *)
(*                                                                         *)
(* Half stands for 2^63: an int64 lies in -Half .. Half - 1, a uint64 in   *)
(* 0 .. 2 * Half - 1.                                                      *)
(***************************************************************************)
EXTENDS Integers

CONSTANT Half

ASSUME HalfPositive == Half \in Nat \ {0}

Signed   == -Half .. Half - 1
Unsigned == 0 .. 2 * Half - 1

\* What the 64 bits of the integer n read as, when they are read as an int64.
wrapped(n) == ((n + Half) % (2 * Half)) - Half

\* Go's division truncates toward zero.
quotient(a, b) == IF a >= 0 THEN a \div b ELSE -((-a) \div b)

------------------------------------------------------------------------------
(* Scaling.                                                                *)

\* ScaleUnitFits, by comparing what may have wrapped.
ScaleUnitByBound(unit, n) == wrapped(n * unit) < Half

\* ScaleUnit: the product wraps, and dividing it back tells whether it did.
ScaleUnitFits(unit, n) == n = 0 \/ quotient(wrapped(n * unit), unit) = n
ScaleUnit(unit, n)     == wrapped(n * unit)

(* ScaleUnitFloat, for a count of halves.  float64(math.MaxInt64) is Half, *)
(* so a product of exactly Half is let through; converting it to an int64  *)
(* gives either end of the range, depending on the machine.                *)
ScaleUnitFloatFits(unit, halves) == halves * unit \in -2 * Half .. 2 * Half
ScaleUnitFloat(unit, halves) ==
  IF halves * unit = 2 * Half THEN {-Half, Half - 1}
  ELSE {quotient(halves * unit, 2)}

\* parseInteger: strconv refuses what the width of the type cannot hold.
parseInteger(kind) == IF kind = "uint" THEN Unsigned ELSE Signed

------------------------------------------------------------------------------
(* compareValues: a number is <<kind, n>>, kind "int" or "uint".           *)

cmpOrdered(a, b) == IF a < b THEN -1 ELSE IF a > b THEN 1 ELSE 0

\* compareValues, of both as int64.
compareConverted(a, b) == cmpOrdered(wrapped(a[2]), wrapped(b[2]))

compareValues(a, b) ==
  CASE a[1] = b[1] -> cmpOrdered(a[2], b[2])
    [] a[1] = "int" /\ b[1] = "uint" ->
         IF b[2] > Half - 1 THEN -1 ELSE cmpOrdered(a[2], wrapped(b[2]))
    [] a[1] = "uint" /\ b[1] = "int" ->
         IF a[2] > Half - 1 THEN 1 ELSE cmpOrdered(wrapped(a[2]), b[2])

\* RangeConstraint.Validate, for bounds [minimum, maximum, exclusive].
InRange(bounds, v) ==
  /\ LET low == compareValues(v, bounds.minimum)
     IN low > 0 \/ (low = 0 /\ ~bounds.exclusive)
  /\ LET high == compareValues(v, bounds.maximum)
     IN high < 0 \/ (high = 0 /\ ~bounds.exclusive)

\* The numbers that can be given, and that bounds can be.
Givable == ({"int"} \X Signed) \cup ({"uint"} \X Unsigned)

\* What a range says of the number n, whatever the types.
Within(bounds, n) ==
  IF bounds.exclusive THEN bounds.minimum[2] < n /\ n < bounds.maximum[2]
  ELSE bounds.minimum[2] <= n /\ n <= bounds.maximum[2]
==============================================================================
