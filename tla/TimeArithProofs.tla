--------------------------- MODULE TimeArithProofs ---------------------------
(* What the functions of arith.cc return, for a second of any number of    *)
(* nanoseconds and for all times                                           *)
EXTENDS TimeArith, TLAPS

(* Times before they are known to fit *)
Times == [seconds : Int, nanoseconds : Int]

(* C's division rounds towards zero *)
LEMMA QuotRounds ==
  ASSUME NEW a \in Int, NEW b \in Nat \ {0}
  PROVE  /\ Quot(a, b) \in Int
         /\ Abs(a - Quot(a, b) * b) < b
         /\ a >= 0 => Quot(a, b) >= 0 /\ Quot(a, b) * b <= a
         /\ a <= 0 => Quot(a, b) <= 0 /\ Quot(a, b) * b >= a
<1> DEFINE p == a \div b
           n == (-a) \div b
<1>1. p \in Int /\ p * b <= a /\ a < p * b + b
  OBVIOUS
<1>2. n \in Int /\ n * b <= -a /\ -a < n * b + b
  OBVIOUS
<1> HIDE DEF p, n
<1>3. CASE a >= 0
  <2>1. Quot(a, b) = p
    BY <1>3 DEF Quot, p
  <2>2. p >= 0
    <3>1. p * b + b > 0
      BY <1>1, <1>3
    <3>2. (p + 1) * b > 0
      BY <1>1, <3>1
    <3> QED BY <1>1, <3>2
  <2> QED BY <1>1, <1>3, <2>1, <2>2 DEF Abs
<1>4. CASE a < 0
  <2>1. Quot(a, b) = -n
    BY <1>4 DEF Quot, n
  <2>2. n >= 0
    <3>1. (n + 1) * b > 0
      BY <1>2, <1>4
    <3> QED BY <1>2, <3>1
  <2>3. (-n) * b = -(n * b)
    BY <1>2
  <2> QED BY <1>2, <1>4, <2>1, <2>2, <2>3 DEF Abs
<1> QED BY <1>3, <1>4

-----------------------------------------------------------------------------
(* Whatever the nanoseconds: the time is the same afterwards, its          *)
(* nanoseconds are less than a second and its two fields agree in sign.    *)
THEOREM NormalizeTimeCorrect ==
  ASSUME NEW r \in Times
  PROVE  /\ normalizeTime(r) \in Times
         /\ Total(normalizeTime(r)) = Total(r)
         /\ Normalized(normalizeTime(r))
<1> DEFINE carry == Quot(r.nanoseconds, Second)
           s     == r.seconds + carry
           n     == r.nanoseconds - carry * Second
<1>1. Second \in Nat \ {0} /\ Second > 1
  BY SpansAssumption
<1>2. r.seconds \in Int /\ r.nanoseconds \in Int
  BY DEF Times
<1>3. carry \in Int /\ Abs(n) < Second
  BY <1>1, <1>2, QuotRounds
<1>4. s \in Int /\ n \in Int
  BY <1>1, <1>2, <1>3
<1>5. s * Second + n = Total(r)
  <2>1. (r.seconds + carry) * Second = r.seconds * Second + carry * Second
    BY <1>1, <1>2, <1>3
  <2> QED BY <1>1, <1>2, <1>3, <2>1 DEF Total
<1>6. /\ (s - 1) * Second = s * Second - Second
      /\ (s + 1) * Second = s * Second + Second
  BY <1>1, <1>4
<1>7. normalizeTime(r) = IF s > 0 /\ n < 0
                         THEN [seconds |-> s - 1, nanoseconds |-> n + Second]
                         ELSE IF s < 0 /\ n > 0
                         THEN [seconds |-> s + 1, nanoseconds |-> n - Second]
                         ELSE [seconds |-> s, nanoseconds |-> n]
  BY DEF normalizeTime
<1> HIDE DEF s, n, carry
<1>8. CASE s > 0 /\ n < 0
  <2>1. normalizeTime(r) = [seconds |-> s - 1, nanoseconds |-> n + Second]
    BY <1>7, <1>8
  <2>2. Total(normalizeTime(r)) = Total(r)
    BY <1>1, <1>4, <1>5, <1>6, <2>1 DEF Total
  <2> QED BY <1>1, <1>3, <1>4, <1>8, <2>1, <2>2 DEF Times, Normalized, Abs
<1>9. CASE s < 0 /\ n > 0
  <2>1. normalizeTime(r) = [seconds |-> s + 1, nanoseconds |-> n - Second]
    BY <1>4, <1>7, <1>9
  <2>2. Total(normalizeTime(r)) = Total(r)
    BY <1>1, <1>4, <1>5, <1>6, <2>1 DEF Total
  <2> QED BY <1>1, <1>3, <1>4, <1>9, <2>1, <2>2 DEF Times, Normalized, Abs
<1>10. CASE ~(s > 0 /\ n < 0) /\ ~(s < 0 /\ n > 0)
  <2>1. normalizeTime(r) = [seconds |-> s, nanoseconds |-> n]
    BY <1>7, <1>10
  <2> QED BY <1>1, <1>3, <1>4, <1>5, <1>10, <2>1 DEF Total, Times, Normalized, Abs
<1> QED BY <1>8, <1>9, <1>10

(* Differences and sums are exact, and normalised.                         *)
THEOREM SubTimeCorrect ==
  ASSUME NEW x \in Times, NEW y \in Times
  PROVE  /\ subTime(x, y) \in Times
         /\ Total(subTime(x, y)) = Total(x) - Total(y)
         /\ Normalized(subTime(x, y))
<1> DEFINE d == [seconds     |-> x.seconds - y.seconds,
                 nanoseconds |-> x.nanoseconds - y.nanoseconds]
<1>1. /\ x.seconds \in Int /\ x.nanoseconds \in Int
      /\ y.seconds \in Int /\ y.nanoseconds \in Int /\ Second \in Int
  BY SpansAssumption DEF Times
<1>2. d \in Times /\ Total(d) = Total(x) - Total(y)
  <2>1. (x.seconds - y.seconds) * Second = x.seconds * Second - y.seconds * Second
    BY <1>1
  <2> QED BY <1>1, <2>1 DEF Times, Total
<1>3. subTime(x, y) = normalizeTime(d)
  BY DEF subTime
<1> HIDE DEF d
<1> QED BY <1>2, <1>3, NormalizeTimeCorrect

THEOREM AddTimeCorrect ==
  ASSUME NEW x \in Times, NEW y \in Times
  PROVE  /\ addTime(x, y) \in Times
         /\ Total(addTime(x, y)) = Total(x) + Total(y)
         /\ Normalized(addTime(x, y))
<1> DEFINE d == [seconds     |-> x.seconds + y.seconds,
                 nanoseconds |-> x.nanoseconds + y.nanoseconds]
<1>1. /\ x.seconds \in Int /\ x.nanoseconds \in Int
      /\ y.seconds \in Int /\ y.nanoseconds \in Int /\ Second \in Int
  BY SpansAssumption DEF Times
<1>2. d \in Times /\ Total(d) = Total(x) + Total(y)
  <2>1. (x.seconds + y.seconds) * Second = x.seconds * Second + y.seconds * Second
    BY <1>1
  <2> QED BY <1>1, <2>1 DEF Times, Total
<1>3. addTime(x, y) = normalizeTime(d)
  BY DEF addTime
<1> HIDE DEF d
<1> QED BY <1>2, <1>3, NormalizeTimeCorrect

(* The nanoseconds of two normalised times may be added and subtracted in  *)
(* an Integer32 before the result is normalised.                           *)
LEMMA NanosecondsFit ==
  ASSUME NEW a \in Int, NEW b \in Int, Abs(a) < Second, Abs(b) < Second
  PROVE  a + b \in Integer32 /\ a - b \in Integer32
<1>1. Second \in Nat /\ IntSpan \in Nat /\ IntSpan \div 2 >= 2 * Second
  BY SpansAssumption
<1> DEFINE half == IntSpan \div 2
<1>2. half \in Int
  BY <1>1
<1> HIDE DEF half
<1>3. a + b \in -half .. half - 1 /\ a - b \in -half .. half - 1
  BY <1>1, <1>2 DEF Abs, half
<1> QED BY <1>3 DEF Integer32, half

(* Of a normalised time the seconds tell whether it is a second or more,   *)
(* in either direction.                                                    *)
LEMMA SecondsTell ==
  ASSUME NEW t \in Times, Normalized(t)
  PROVE  t.seconds # 0 <=> Abs(Total(t)) >= Second
<1>1. /\ t.seconds \in Int /\ t.nanoseconds \in Int /\ Second \in Nat \ {0}
  BY SpansAssumption DEF Times
<1>2. CASE t.seconds = 0
  BY <1>1, <1>2 DEF Normalized, Total, Abs
<1>3. CASE t.seconds > 0
  <2>1. t.seconds * Second >= Second
    BY <1>1, <1>3
  <2> QED BY <1>1, <1>3, <2>1 DEF Normalized, Total, Abs
<1>4. CASE t.seconds < 0
  <2>1. t.seconds * Second <= -Second
    BY <1>1, <1>4
  <2> QED BY <1>1, <1>4, <2>1 DEF Normalized, Total, Abs
<1> QED BY <1>1, <1>2, <1>3, <1>4

(* A time that is not negative is divided exactly, rounded down, as long   *)
(* as the quotient's seconds fit.                                          *)
THEOREM DivTimeCorrect ==
  ASSUME NEW r \in Times, NEW d \in Nat \ {0},
         Total(r) \in 0 .. ULongSpan - 1,
         (Total(r) \div d) \div Second <= IntSpan \div 2 - 1
  PROVE  Total(divTime(r, d)) = Total(r) \div d
<1> DEFINE q == Total(r) \div d
           s == q \div Second
           h == IntSpan \div 2
<1>1. /\ Total(r) \in Nat /\ Total(r) % ULongSpan = Total(r)
      /\ Second \in Nat \ {0} /\ IntSpan \in Nat \ {0} /\ IntSpan = h + h /\ h \in Nat
  BY SpansAssumption
<1>2. q \in Nat
  BY <1>1
<1>3. divTime(r, d) = [seconds |-> ToInteger32(s), nanoseconds |-> q % Second]
  BY <1>1 DEF divTime
<1> HIDE DEF q
<1>4. s \in Nat /\ q = Second * s + (q % Second) /\ q % Second \in Nat
  BY <1>1, <1>2
<1> HIDE DEF s
<1>5. s + h \in 0 .. IntSpan - 1
  BY <1>1, <1>4 DEF s, q
<1>6. (s + h) % IntSpan = s + h
  BY <1>1, <1>5
<1>7. ToInteger32(s) = s
  BY <1>1, <1>4, <1>6 DEF ToInteger32
<1>8. s * Second = Second * s
  BY <1>1, <1>4
<1>9. Total(divTime(r, d)) = q
  BY <1>1, <1>3, <1>4, <1>7, <1>8 DEF Total
<1> QED BY <1>9 DEF q
=============================================================================
