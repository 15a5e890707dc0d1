------------------------------ MODULE TimeArith ------------------------------
(***************************************************************************)
(* arith.cc: times and differences of times as seconds and nanoseconds.    *)
(* The number of nanoseconds in a second and the spans of the integer      *)
(* types are constants, so that TLC can do with small ones.  Signed        *)
(* overflow is not given a meaning: that none occurs is to be shown.       *)
(***************************************************************************)
EXTENDS Integers

CONSTANTS
  Second,      \* nanoseconds in a second: 10^9
  IntSpan,     \* values of an Integer32: 2^32
  ULongSpan    \* values of a uint64_t: 2^64

(* Two seconds' worth of nanoseconds fit into an Integer32 *)
ASSUME SpansAssumption ==
  /\ Second \in Nat \ {0, 1}
  /\ IntSpan \in Nat /\ IntSpan % 2 = 0 /\ IntSpan >= 4 * Second
  /\ ULongSpan \in Nat /\ ULongSpan >= IntSpan * Second

Integer32 == -(IntSpan \div 2) .. (IntSpan \div 2) - 1

(* The conversion of a value that does not fit: modulo the span *)
ToInteger32(x) == ((x + IntSpan \div 2) % IntSpan) - IntSpan \div 2

Abs(x)     == IF x < 0 THEN -x ELSE x
Quot(a, b) == IF a >= 0 THEN a \div b ELSE -((-a) \div b)   \* C's a / b, b > 0

TimeInternal == [seconds : Integer32, nanoseconds : Integer32]

Zero == [seconds |-> 0, nanoseconds |-> 0]

(* The nanoseconds a time stands for *)
Total(t) == t.seconds * Second + t.nanoseconds

Normalized(t) ==
  /\ Abs(t.nanoseconds) < Second
  /\ ~(t.seconds > 0 /\ t.nanoseconds < 0)
  /\ ~(t.seconds < 0 /\ t.nanoseconds > 0)

normalizeTime(r) ==
  LET carry == Quot(r.nanoseconds, Second)
      s     == r.seconds + carry
      n     == r.nanoseconds - carry * Second
  IN  IF s > 0 /\ n < 0
      THEN [seconds |-> s - 1, nanoseconds |-> n + Second]
      ELSE IF s < 0 /\ n > 0
      THEN [seconds |-> s + 1, nanoseconds |-> n - Second]
      ELSE [seconds |-> s, nanoseconds |-> n]

addTime(x, y) ==
  normalizeTime([seconds     |-> x.seconds + y.seconds,
                 nanoseconds |-> x.nanoseconds + y.nanoseconds])

(* Mutant: only a sum that has left the second is brought back into it *)
subTime_carryOnly(x, y) ==
  LET n     == x.nanoseconds - y.nanoseconds
      carry == Quot(n, Second)
  IN  [seconds     |-> x.seconds - y.seconds + carry,
       nanoseconds |-> n - carry * Second]

subTime(x, y) ==
  normalizeTime([seconds     |-> x.seconds - y.seconds,
                 nanoseconds |-> x.nanoseconds - y.nanoseconds])

(* The time as a uint64_t, which no negative time has a place in *)
divTime(r, divisor) ==
  LET nanoseconds == (Total(r) % ULongSpan) \div divisor
  IN  [seconds     |-> ToInteger32(nanoseconds \div Second),
       nanoseconds |-> nanoseconds % Second]
=============================================================================
