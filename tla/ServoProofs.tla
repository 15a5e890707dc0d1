----------------------------- MODULE ServoProofs -----------------------------
(* That the servo's offset, rates, filters and times stay within their     *)
(* integers, for all circumstances, faults and attenuations                *)
EXTENDS Servo, TimeArithProofs, WellFoundedInduction

-----------------------------------------------------------------------------
(* The cutoff of the delay filter *)

LEMMA LeastMember ==
  ASSUME NEW S \in SUBSET Nat, S # {}
  PROVE  \E m \in S : \A k \in S : m <= k
<1> DEFINE R == {ss \in Nat \X Nat : ss[1] < ss[2]}
<1>1. IsWellFoundedOn(R, Nat)
  BY NatLessThanWellFounded DEF OpToRel
<1>2. PICK m \in S : \A k \in S : <<k, m>> \notin R
  <2> HIDE DEF R
  <2> QED BY <1>1, WFMin
<1>3. \A k \in S : ~(k < m)
  BY <1>2
<1> QED BY <1>3

Fits(y, s) == Abs(y) < 2 ^ (IntBits - s)

(* The loop that lowers the cutoff ends for every y of less than a second, *)
(* with a power of two whose product with y fits.                          *)
LEMMA CutoffFits ==
  ASSUME NEW y \in Int, Abs(y) < Second
  PROVE  /\ Cutoff(y) \in Nat \ {0}
         /\ 2 * (Cutoff(y) * Abs(y)) < IntSpan
<1>1. /\ stiffness \in Nat /\ IntBits \in Nat /\ stiffness <= IntBits
      /\ Second \in Nat /\ IntSpan \in Nat /\ IntSpan >= 4 * Second
  BY ServoAssumption, SpansAssumption
<1>2. Abs(y) \in Nat
  BY DEF Abs
<1>3. Fits(y, 0)
  <2>1. 2 * (1 * 2 ^ (IntBits - 0)) = IntSpan /\ 2 ^ (IntBits - 0) \in Nat
    <3>1. 0 \in 0 .. IntBits /\ IntBits - 0 \in 0 .. IntBits
      BY <1>1
    <3>2. /\ 2 * (2 ^ 0 * 2 ^ (IntBits - 0)) = IntSpan
          /\ 2 ^ (IntBits - 0) \in Nat /\ 2 ^ 0 = 1
      BY <3>1, PowersAssumption, Zenon
    <3> QED BY <3>2
  <2> QED BY <1>1, <1>2, <2>1 DEF Fits
<1> DEFINE Below == {n \in 0 .. stiffness : Fits(y, stiffness - n)}
<1>4. Below \in SUBSET Nat /\ stiffness \in Below
  BY <1>1, <1>3
<1>5. PICK m \in Below : \A k \in Below : m <= k
  BY <1>4, LeastMember
<1> DEFINE p == stiffness - m
<1>6. /\ p \in 0 .. stiffness /\ Fits(y, p)
      /\ \A r \in p + 1 .. stiffness : ~Fits(y, r)
  <2>1. p \in 0 .. stiffness /\ Fits(y, p) /\ m \in Nat
    BY <1>1, <1>5
  <2>2. ASSUME NEW r \in p + 1 .. stiffness, Fits(y, r) PROVE FALSE
    <3>1. stiffness - r \in 0 .. stiffness /\ stiffness - (stiffness - r) = r
      BY <1>1, <2>1
    <3>2. stiffness - r \in Below
      BY <2>2, <3>1
    <3>3. m <= stiffness - r
      BY <1>5, <3>2
    <3> QED BY <1>1, <2>1, <3>3
  <2> QED BY <2>1, <2>2
<1> HIDE DEF p
<1>7. /\ Abs(y) < 2 ^ (IntBits - p)
      /\ \A r \in p + 1 .. stiffness : Abs(y) >= 2 ^ (IntBits - r)
  <2>1. ASSUME NEW r \in p + 1 .. stiffness PROVE Abs(y) >= 2 ^ (IntBits - r)
    <3>1. IntBits - r \in 0 .. IntBits
      BY <1>1, <1>6
    <3>2. 2 ^ (IntBits - r) \in Nat
      BY <3>1, PowersAssumption
    <3> QED BY <1>2, <1>6, <3>2 DEF Fits
  <2> QED BY <1>6, <2>1 DEF Fits
<1>8. PICK s \in 0 .. stiffness :
        Cutoff(y) = 2 ^ s /\ Abs(y) < 2 ^ (IntBits - s)
  BY <1>6, <1>7 DEF Cutoff
<1> DEFINE a == 2 ^ s
           b == 2 ^ (IntBits - s)
<1>9. a \in Nat \ {0} /\ b \in Nat /\ 2 * (a * b) = IntSpan
  <2>1. s \in 0 .. IntBits /\ IntBits - s \in 0 .. IntBits
    BY <1>1
  <2> QED BY <2>1, PowersAssumption
<1>10. Cutoff(y) = a /\ Abs(y) < b
  BY <1>8
<1> HIDE DEF a, b
<1>11. a * Abs(y) < a * b
  BY <1>2, <1>9, <1>10
<1> QED BY <1>1, <1>2, <1>9, <1>10, <1>11

-----------------------------------------------------------------------------
(* The filters *)

FilterOK(filt) ==
  /\ filt \in [y : Int, nsec_prev : Int, s_exp : Nat]
  /\ Abs(filt.y) < Second /\ Abs(filt.nsec_prev) < Second

LEMMA SharpenedFits ==
  ASSUME NEW filt, FilterOK(filt)
  PROVE  /\ Sharpened(filt) \in Nat \ {0}
         /\ (Sharpened(filt) - 1) * filt.y \in Integer32
<1> DEFINE e == Sharpened(filt)
           top == Cutoff(filt.y)
           y == filt.y
           half == IntSpan \div 2
<1>1. y \in Int /\ filt.s_exp \in Nat /\ Abs(y) < Second
  BY DEF FilterOK
<1>2. top \in Nat \ {0} /\ 2 * (top * Abs(y)) < IntSpan
  BY <1>1, CutoffFits
<1> HIDE DEF top
<1>3. e \in 1 .. top
  BY <1>1, <1>2 DEF Sharpened, top
<1> HIDE DEF e, y
<1>4. Abs(y) \in Nat
  BY <1>1 DEF Abs
<1>5. /\ IntSpan \in Nat /\ half \in Nat /\ IntSpan = 2 * half
  BY SpansAssumption
<1> HIDE DEF half
<1>6. (e - 1) * Abs(y) <= top * Abs(y)
  BY <1>2, <1>3, <1>4
<1>7. /\ y >= 0 => (e - 1) * y = (e - 1) * Abs(y)
      /\ y < 0 => (e - 1) * y = -((e - 1) * Abs(y))
  BY <1>1, <1>3 DEF Abs
<1>8. (e - 1) * y \in Int /\ (e - 1) * Abs(y) \in Int /\ top * Abs(y) \in Int
  BY <1>1, <1>2, <1>3, <1>4
<1>9. (e - 1) * Abs(y) < half /\ (e - 1) * Abs(y) >= 0
  BY <1>2, <1>3, <1>4, <1>5, <1>6, <1>8
<1>10. (e - 1) * y \in -half .. half - 1
  BY <1>1, <1>5, <1>7, <1>8, <1>9
<1> QED BY <1>3, <1>10 DEF Integer32, half, e, y

(* The mean of two numbers of less than a second is one *)
LEMMA AverageFits ==
  ASSUME NEW a \in Int, NEW b \in Int, Abs(a) < Second, Abs(b) < Second
  PROVE  Average(a, b) \in Int /\ Abs(Average(a, b)) < Second
<1>1. \A x \in Int : Abs(x) < Second =>
        Quot(x, 2) \in Int /\ 2 * Abs(Quot(x, 2)) < Second
  <2> SUFFICES ASSUME NEW x \in Int, Abs(x) < Second
               PROVE  Quot(x, 2) \in Int /\ 2 * Abs(Quot(x, 2)) < Second
    OBVIOUS
  <2>1. /\ Quot(x, 2) \in Int
        /\ x >= 0 => Quot(x, 2) >= 0 /\ Quot(x, 2) * 2 <= x
        /\ x <= 0 => Quot(x, 2) <= 0 /\ Quot(x, 2) * 2 >= x
    BY QuotRounds
  <2> QED BY <2>1, SpansAssumption DEF Abs
<1> QED BY <1>1, SpansAssumption DEF Average, Abs

LEMMA FilteredFits ==
  ASSUME NEW filt, FilterOK(filt), NEW n \in Int, Abs(n) < Second
  PROVE  FilterOK(Filtered(filt, n))
<1> DEFINE e == Sharpened(filt)
           y == filt.y
           avg == Average(n, filt.nsec_prev)
           q == Quot((e - 1) * y, e)
           r == Quot(avg, e)
           M == Second - 1
<1>1. /\ y \in Int /\ Abs(y) <= M /\ e \in Nat \ {0} /\ M \in Nat
      /\ avg \in Int /\ Abs(avg) <= M
  <2>1. y \in Int /\ Abs(y) < Second /\ Second \in Nat \ {0}
    BY SpansAssumption DEF FilterOK
  <2>2. avg \in Int /\ Abs(avg) < Second
    BY AverageFits DEF FilterOK
  <2> QED BY <2>1, <2>2, SharpenedFits DEF Abs
<1> HIDE DEF e, y, avg, M
<1>2. (e - 1) * y \in Int
  BY <1>1
<1>3. /\ q \in Int
      /\ (e - 1) * y >= 0 => q >= 0 /\ q * e <= (e - 1) * y
      /\ (e - 1) * y <= 0 => q <= 0 /\ q * e >= (e - 1) * y
  BY <1>1, <1>2, QuotRounds
<1>4. /\ r \in Int
      /\ avg >= 0 => r >= 0 /\ r * e <= avg
      /\ avg <= 0 => r <= 0 /\ r * e >= avg
  BY <1>1, QuotRounds
<1> HIDE DEF q, r
<1>5. (e - 1) * y <= (e - 1) * M /\ (e - 1) * y >= -((e - 1) * M)
  BY <1>1 DEF Abs
<1>6. q * e <= (e - 1) * M /\ q * e >= -((e - 1) * M)
  <2>1. (e - 1) * M >= 0 /\ (e - 1) * M \in Int /\ q * e \in Int
    BY <1>1, <1>3
  <2>2. CASE (e - 1) * y >= 0
    <3>1. q * e >= 0
      BY <1>1, <1>3, <2>2
    <3> QED BY <1>2, <1>3, <1>5, <2>1, <2>2, <3>1
  <2>3. CASE (e - 1) * y <= 0
    <3>1. q * e <= 0
      BY <1>1, <1>3, <2>3
    <3> QED BY <1>2, <1>3, <1>5, <2>1, <2>3, <3>1
  <2> QED BY <1>2, <2>2, <2>3
<1>7. r * e <= M /\ r * e >= -M
  <2>1. CASE avg >= 0
    <3>1. r * e >= 0
      BY <1>1, <1>4, <2>1
    <3> QED BY <1>1, <1>4, <2>1, <3>1 DEF Abs
  <2>2. CASE avg <= 0
    <3>1. r * e <= 0
      BY <1>1, <1>4, <2>2
    <3> QED BY <1>1, <1>4, <2>2, <3>1 DEF Abs
  <2> QED BY <1>1, <2>1, <2>2
<1>8. (q + r) * e <= M * e /\ (q + r) * e >= -(M * e)
  <2>1. (q + r) * e = q * e + r * e /\ (e - 1) * M + M = M * e
    BY <1>1, <1>3, <1>4
  <2> QED BY <1>1, <1>3, <1>4, <1>6, <1>7, <2>1
<1>9. q + r <= M /\ q + r >= -M
  <2>1. (q + r - M) * e <= 0 /\ (q + r + M) * e >= 0
    BY <1>1, <1>3, <1>4, <1>8
  <2> QED BY <1>1, <1>3, <1>4, <2>1
<1>10. Filtered(filt, n) = [s_exp |-> e, nsec_prev |-> n, y |-> q + r]
  BY DEF Filtered, e, y, avg, q, r
<1>11. Abs(q + r) < Second /\ q + r \in Int
  BY <1>1, <1>3, <1>4, <1>9, SpansAssumption DEF Abs, M
<1> QED BY <1>1, <1>10, <1>11 DEF FilterOK

-----------------------------------------------------------------------------
(* The inductive invariant.  The offset is normalised, so that its seconds *)
(* tell its size; it stays so without seconds because what is averaged is  *)
(* less than a second; and the filter of the delay stays below a second    *)
(* because what it is fed with is.                                         *)
RatesOK ==
  /\ error \in Int /\ freq \in Int /\ observed_drift \in Int
  /\ Abs(freq) <= ADJ_FREQ_MAX /\ Abs(observed_drift) <= ADJ_FREQ_MAX

OffsetOK ==
  /\ offsetFromMaster \in Times /\ Normalized(offsetFromMaster)
  /\ ofm_filt \in Int /\ Abs(ofm_filt) < Second
  /\ delayMS \in Times

DelayOK == meanPathDelay \in Times /\ FilterOK(owd_filt)

ExchangeOK ==
  /\ exchange \in [stage : {"none", "asked", "answered"},
                   t1 : Times, t2 : Times, t4 : Times]
  /\ env \in Circumstances

IInv == RatesOK /\ OffsetOK /\ DelayOK /\ ExchangeOK

LEMMA ZeroIsATime == Zero \in Times /\ Normalized(Zero)
BY SpansAssumption DEF Zero, Times, Normalized, Abs

LEMMA TimeIsATime ==
  ASSUME NEW n \in Int PROVE Time(n) \in Times
<1>1. [seconds |-> 0, nanoseconds |-> n] \in Times
  BY DEF Times
<1> QED BY <1>1, NormalizeTimeCorrect DEF Time

LEMMA EnvTypes ==
  ASSUME ExchangeOK
  PROVE  /\ env.path \in Nat /\ env.skew \in Int /\ env.ahead \in Int
         /\ Now \in Nat /\ Late \in Nat /\ Leap \in Int
  BY CircumstancesAssumption, ServoAssumption DEF ExchangeOK, Circumstance

LEMMA ClampLimits ==
  ASSUME NEW x \in Int
  PROVE  Clamp(x) \in Int /\ Abs(Clamp(x)) <= ADJ_FREQ_MAX
BY ServoAssumption DEF Clamp, Abs

LEMMA InvInit == Init => IInv
<1> SUFFICES ASSUME Init PROVE IInv
  OBVIOUS
<1>1. env \in Circumstances /\ env.ahead \in Int
  BY CircumstancesAssumption DEF Init, Circumstance
<1>2. Second \in Nat \ {0} /\ ADJ_FREQ_MAX \in Nat
  BY SpansAssumption, ServoAssumption
<1>3. RatesOK
  BY <1>1, <1>2 DEF Init, RatesOK, Abs
<1>4. OffsetOK
  BY <1>2, ZeroIsATime DEF Init, OffsetOK, Abs
<1>5. DelayOK
  BY <1>2, ZeroIsATime DEF Init, DelayOK, FilterOK, Abs
<1>6. ExchangeOK
  BY <1>1, ZeroIsATime DEF Init, ExchangeOK, NoExchange
<1> QED BY <1>3, <1>4, <1>5, <1>6 DEF IInv

(* Setting the filter back leaves it as it was but for its sharpness *)
LEMMA ResetFilter ==
  ASSUME DelayOK, initClock, RatesOK
  PROVE  FilterOK(owd_filt') /\ freq' \in Int /\ Abs(freq') <= ADJ_FREQ_MAX
<1>1. -observed_drift \in Int
  BY DEF RatesOK
<1> QED BY <1>1, ClampLimits DEF initClock, adjFreq, DelayOK, FilterOK

LEMMA OffsetStep ==
  ASSUME OffsetOK, DelayOK, NEW received \in Times, updateOffset(received)
  PROVE  OffsetOK'
<1> DEFINE raw == RawOffset(received)
<1>1. MasterTime \in Times
  BY TimeIsATime, ServoAssumption DEF MasterTime
<1>2. subTime(received, MasterTime) \in Times
  BY <1>1, SubTimeCorrect
<1>3. raw \in Times /\ Normalized(raw)
  BY <1>2, SubTimeCorrect DEF RawOffset, DelayOK
<1> HIDE DEF raw
<1>4. CASE TooLong(subTime(received, MasterTime))
  BY <1>4 DEF updateOffset, OffsetOK, offset
<1>5. CASE ~TooLong(subTime(received, MasterTime))
  <2>1. delayMS' \in Times
    BY <1>2, <1>5 DEF updateOffset
  <2>2. CASE raw.seconds # 0
    BY <1>3, <1>5, <2>1, <2>2, SpansAssumption
       DEF updateOffset, raw, OffsetOK, Abs
  <2>3. CASE raw.seconds = 0
    <3>1. raw.nanoseconds \in Int /\ Abs(raw.nanoseconds) < Second
      BY <1>3, <2>3 DEF Times, Normalized
    <3>2. /\ offsetFromMaster' =
               [raw EXCEPT !.nanoseconds = Average(raw.nanoseconds, ofm_filt)]
          /\ ofm_filt' = raw.nanoseconds
      BY <1>5, <2>3 DEF updateOffset, raw
    <3>3. /\ Average(raw.nanoseconds, ofm_filt) \in Int
          /\ Abs(Average(raw.nanoseconds, ofm_filt)) < Second
      BY <3>1, AverageFits DEF OffsetOK
    <3>4. offsetFromMaster' \in Times /\ Normalized(offsetFromMaster')
      BY <1>3, <2>3, <3>2, <3>3 DEF Times, Normalized
    <3> QED BY <2>1, <3>1, <3>2, <3>4 DEF OffsetOK
  <2> QED BY <2>2, <2>3
<1> QED BY <1>4, <1>5

LEMMA ClockStep ==
  ASSUME RatesOK, DelayOK, OffsetOK', updateClock
  PROVE  RatesOK' /\ FilterOK(owd_filt')
<1> DEFINE o == offsetFromMaster'
<1>1. o.seconds \in Int /\ o.nanoseconds \in Int
  BY DEF OffsetOK, Times
<1>2. Second \in Int /\ Microsecond \in Nat /\ ap \in Nat \ {0} /\ ai \in Nat \ {0}
  BY SpansAssumption, ServoAssumption
<1> HIDE DEF o
<1>3. CASE StepClock
  <2>1. error' \in Int
    <3>1. Total(o) \in Int
      BY <1>1, <1>2 DEF Total
    <3>2. SetBack \in Int
      BY <3>1 DEF SetBack, RatesOK, o
    <3> QED BY <1>2, <1>3, <3>2 DEF StepClock, setTime
  <2>2. observed_drift' = observed_drift /\ initClock
    BY <1>3 DEF StepClock
  <2> QED BY <2>1, <2>2, ResetFilter DEF RatesOK
<1>4. CASE SteerClock
  <2>1. Quot(o.nanoseconds, ai) \in Int /\ Quot(o.nanoseconds, ap) \in Int
    BY <1>1, <1>2, QuotRounds
  <2>2. observed_drift' \in Int /\ Abs(observed_drift') <= ADJ_FREQ_MAX
    BY <1>4, <2>1, ClampLimits DEF SteerClock, Accumulated, RatesOK, o
  <2>3. -(Quot(o.nanoseconds, ap) + observed_drift') \in Int
    BY <2>1, <2>2
  <2>4. freq' \in Int /\ Abs(freq') <= ADJ_FREQ_MAX
    BY <1>4, <2>3, ClampLimits DEF SteerClock, adjFreq, o
  <2> QED BY <1>4, <2>2, <2>4 DEF SteerClock, RatesOK, DelayOK
<1> QED BY <1>3, <1>4 DEF updateClock

LEMMA SyncStep ==
  ASSUME IInv, NEW way \in Int, handleSync(way)
  PROVE  IInv'
<1>1. OwnTime(error + way) \in Times
  <2>1. Now + (error + way) \in Int
    BY ServoAssumption DEF IInv, RatesOK
  <2> QED BY <2>1, TimeIsATime DEF OwnTime
<1>2. OffsetOK'
  BY <1>1, OffsetStep DEF handleSync, IInv
<1>3. RatesOK' /\ FilterOK(owd_filt')
  BY <1>2, ClockStep DEF handleSync, IInv
<1>4. DelayOK' /\ ExchangeOK'
  BY <1>3 DEF handleSync, IInv, DelayOK, ExchangeOK
<1> QED BY <1>2, <1>3, <1>4 DEF IInv

(* A delay without seconds is fed to the filter and replaced by its output *)
LEMMA NewDelayStep ==
  ASSUME DelayOK, NEW t \in Times, NewDelay(t),
         t.seconds = 0 => Abs(t.nanoseconds) < Second
  PROVE  DelayOK'
<1>1. t.nanoseconds \in Int
  BY DEF Times
<1>2. CASE t.seconds # 0
  <2>1. /\ owd_filt' = [y |-> owd_filt.y, nsec_prev |-> 0, s_exp |-> 0]
        /\ meanPathDelay' \in Times
    BY <1>2 DEF NewDelay
  <2>2. Abs(0) < Second
    BY SpansAssumption DEF Abs
  <2> QED BY <2>1, <2>2 DEF DelayOK, FilterOK
<1>3. CASE t.seconds = 0
  <2>1. /\ owd_filt' = Filtered(owd_filt, t.nanoseconds)
        /\ meanPathDelay' = [t EXCEPT !.nanoseconds = owd_filt'.y]
    BY <1>3 DEF NewDelay
  <2>2. FilterOK(owd_filt')
    BY <1>1, <1>3, <2>1, FilteredFits DEF DelayOK
  <2>3. meanPathDelay' \in Times
    BY <2>1, <2>2 DEF FilterOK, Times
  <2> QED BY <2>2, <2>3 DEF DelayOK
<1> QED BY <1>2, <1>3

LEMMA PeerDelayStep ==
  ASSUME DelayOK, ExchangeOK, updatePeerDelay
  PROVE  DelayOK'
<1> DEFINE sum == addTime(subTime(exchange.t4, MasterTime),
                          subTime(exchange.t2, exchange.t1))
           t == Half(sum)
<1>1. sum \in Times /\ Normalized(sum)
  <2>1. MasterTime \in Times
    BY TimeIsATime, ServoAssumption DEF MasterTime
  <2>2. exchange.t1 \in Times /\ exchange.t2 \in Times /\ exchange.t4 \in Times
    BY DEF ExchangeOK
  <2>3. /\ subTime(exchange.t4, MasterTime) \in Times
        /\ subTime(exchange.t2, exchange.t1) \in Times
    BY <2>1, <2>2, SubTimeCorrect
  <2> QED BY <2>3, AddTimeCorrect
<1> HIDE DEF sum
<1>2. /\ sum.seconds \in Int /\ sum.nanoseconds \in Int
      /\ Abs(sum.nanoseconds) < Second /\ Second \in Nat
  BY <1>1, SpansAssumption DEF Times, Normalized
<1>3. /\ t \in Times
      /\ t.nanoseconds = Quot(sum.nanoseconds, 2)
  BY <1>2, QuotRounds DEF Half, Times
<1>4. Abs(Quot(sum.nanoseconds, 2)) < Second
  <2>1. /\ Quot(sum.nanoseconds, 2) \in Int
        /\ sum.nanoseconds >= 0 => /\ Quot(sum.nanoseconds, 2) >= 0
                                   /\ Quot(sum.nanoseconds, 2) * 2 <= sum.nanoseconds
        /\ sum.nanoseconds <= 0 => /\ Quot(sum.nanoseconds, 2) <= 0
                                   /\ Quot(sum.nanoseconds, 2) * 2 >= sum.nanoseconds
    BY <1>2, QuotRounds
  <2> QED BY <1>2, <2>1 DEF Abs
<1>5. NewDelay(t)
  BY DEF updatePeerDelay, sum
<1> HIDE DEF t
<1> QED BY <1>3, <1>4, <1>5, NewDelayStep

LEMMA DivTimeType ==
  ASSUME NEW r \in Times
  PROVE  divTime(r, 2) \in Times /\ Abs(divTime(r, 2).nanoseconds) < Second
<1> DEFINE q == (Total(r) % ULongSpan) \div 2
<1>1. /\ Second \in Nat \ {0} /\ IntSpan \in Nat \ {0} /\ ULongSpan \in Nat \ {0}
  <2>1. IntSpan * Second > 0
    BY SpansAssumption
  <2> QED BY <2>1, SpansAssumption
<1>2. Total(r) \in Int
  BY <1>1 DEF Total, Times
<1>3. Total(r) % ULongSpan \in Int
  BY <1>1, <1>2
<1>4. q \in Int
  BY <1>3
<1> HIDE DEF q
<1>5. q \div Second \in Int /\ q % Second \in Int /\ q % Second >= 0 /\ q % Second < Second
  BY <1>1, <1>4
<1>6. ToInteger32(q \div Second) \in Int
  BY <1>1, <1>5 DEF ToInteger32
<1>7. divTime(r, 2) = [seconds |-> ToInteger32(q \div Second),
                       nanoseconds |-> q % Second]
  BY DEF divTime, q
<1> QED BY <1>5, <1>6, <1>7 DEF Times, Abs

LEMMA DelayStep ==
  ASSUME DelayOK, OffsetOK, ExchangeOK, updateDelay
  PROVE  DelayOK'
<1> DEFINE delaySM == subTime(Time(Now + env.path), exchange.t1)
           t == divTime(addTime(delaySM, delayMS), 2)
<1>1. delaySM \in Times
  <2>1. Time(Now + env.path) \in Times
    BY EnvTypes, TimeIsATime
  <2>2. exchange.t1 \in Times
    BY DEF ExchangeOK
  <2> QED BY <2>1, <2>2, SubTimeCorrect
<1> HIDE DEF delaySM
<1>2. t \in Times /\ Abs(t.nanoseconds) < Second
  BY <1>1, AddTimeCorrect, DivTimeType DEF OffsetOK
<1>3. UNCHANGED delay \/ NewDelay(t)
  BY DEF updateDelay, delaySM
<1> HIDE DEF t
<1> QED BY <1>2, <1>3, NewDelayStep DEF delay, DelayOK

LEMMA InvNext == IInv /\ [Next]_vars => IInv'
<1> SUFFICES ASSUME IInv, [Next]_vars PROVE IInv'
  OBVIOUS
<1> USE DEF IInv
<1>1. env.path \in Int /\ env.skew \in Int /\ Late \in Int /\ Now \in Int /\ Leap \in Int
  BY EnvTypes
<1>2. CASE handleSync(env.path) \/ handleSync(env.path + Late)
  BY <1>1, <1>2, SyncStep
<1>3. CASE Ask
  <2>1. OwnTime(error) \in Times
    BY <1>1, TimeIsATime DEF OwnTime, RatesOK
  <2>2. ExchangeOK'
    BY <1>3, <2>1, ZeroIsATime DEF Ask, NoExchange, ExchangeOK
  <2> QED BY <1>3, <2>2 DEF Ask, RatesOK, OffsetOK, DelayOK, clock, offset, delay
<1>4. CASE handlePDelayResp
  <2>1. Time(Now + env.path) \in Times /\ OwnTime(error + env.path) \in Times
    BY <1>1, TimeIsATime DEF OwnTime, RatesOK
  <2>2. ExchangeOK'
    BY <1>4, <2>1 DEF handlePDelayResp, ExchangeOK
  <2> QED BY <1>4, <2>2 DEF handlePDelayResp, RatesOK, OffsetOK, DelayOK, clock,
          offset, delay
<1>5. CASE handlePDelayRespFollowUp \/ handleDelayResp
  <2>1. DelayOK'
    BY <1>5, PeerDelayStep, DelayStep DEF handlePDelayRespFollowUp, handleDelayResp
  <2>2. ExchangeOK'
    BY <1>5, ZeroIsATime
       DEF handlePDelayRespFollowUp, handleDelayResp, NoExchange, ExchangeOK
  <2> QED BY <1>5, <2>1, <2>2 DEF handlePDelayRespFollowUp, handleDelayResp,
          RatesOK, OffsetOK, clock, offset
<1>6. CASE Interval
  <2>1. PICK g \in Gain : error' = error + env.skew + g
    BY <1>6 DEF Interval
  <2>2. error' \in Int
    BY <1>1, <2>1 DEF Gain, RatesOK
  <2> QED BY <1>6, <2>2 DEF Interval, RatesOK, OffsetOK, DelayOK, ExchangeOK,
          offset, delay
<1>7. CASE LoseSync
  BY <1>7 DEF LoseSync, RatesOK, OffsetOK, DelayOK, ExchangeOK, clock, offset, delay
<1>8. CASE LoseAnswer
  BY <1>8, ZeroIsATime DEF LoseAnswer, NoExchange, RatesOK, OffsetOK, DelayOK,
     ExchangeOK, clock, offset, delay
<1>9. CASE MasterLeaps
  BY <1>1, <1>9 DEF MasterLeaps, RatesOK, OffsetOK, DelayOK, ExchangeOK, offset, delay
<1>10. CASE toState
  <2>1. /\ offsetFromMaster' \in {offsetFromMaster, Zero}
        /\ meanPathDelay' \in {meanPathDelay, Zero}
    BY <1>10 DEF toState, m1, initData
  <2>2. RatesOK' /\ DelayOK'
    BY <1>10, <2>1, ResetFilter, ZeroIsATime DEF toState, RatesOK, DelayOK
  <2>3. ExchangeOK'
    BY <1>10, ZeroIsATime DEF toState, NoExchange, ExchangeOK
  <2> QED BY <1>10, <2>1, <2>2, <2>3, ZeroIsATime DEF toState, OffsetOK
<1>11. CASE UNCHANGED vars
  BY <1>11 DEF vars, clock, offset, delay, RatesOK, OffsetOK, DelayOK, ExchangeOK
<1> QED BY <1>2, <1>3, <1>4, <1>5, <1>6, <1>7, <1>8, <1>9, <1>10, <1>11 DEF Next

LEMMA Invariance == Spec => []IInv
BY InvInit, InvNext, PTL DEF Spec

(* The servo may ask for the seconds of the offset alone, whatever it was  *)
(* given and whatever it was filtered with.                                *)
THEOREM SecondsTellTheSize == Spec => []SecondsTellSize
<1>1. IInv => SecondsTellSize
  BY SecondsTell DEF IInv, OffsetOK, SecondsTellSize
<1> QED BY <1>1, Invariance, PTL

(* The delay filter never leaves its integers, for every stiffness that    *)
(* fits the word and every sequence of resets and measurements.            *)
THEOREM FilterNeverOverflows == Spec => []FilterFits
<1>1. IInv => FilterFits
  BY SharpenedFits DEF IInv, DelayOK, FilterFits
<1> QED BY <1>1, Invariance, PTL

-----------------------------------------------------------------------------
(* Setting the clock *)

LEMMA TimeTotal ==
  ASSUME NEW n \in Int
  PROVE  Time(n) \in Times /\ Total(Time(n)) = n /\ Normalized(Time(n))
<1>1. [seconds |-> 0, nanoseconds |-> n] \in Times
  BY DEF Times
<1>2. Total([seconds |-> 0, nanoseconds |-> n]) = n
  BY SpansAssumption DEF Total
<1> QED BY <1>1, <1>2, NormalizeTimeCorrect DEF Time

LEMMA TotalType ==
  ASSUME NEW t \in Times PROVE Total(t) \in Int
BY SpansAssumption DEF Times, Total

(* What is measured: how far the clock is ahead, and how much longer the   *)
(* Sync took than the delay that is reckoned with.                         *)
LEMMA RawOffsetTotal ==
  ASSUME RatesOK, DelayOK, NEW way \in Int
  PROVE  /\ RawOffset(OwnTime(error + way)) \in Times
         /\ Normalized(RawOffset(OwnTime(error + way)))
         /\ Total(RawOffset(OwnTime(error + way)))
              = error + way - Total(meanPathDelay)
<1>1. Now \in Int /\ error \in Int
  BY ServoAssumption DEF RatesOK
<1>2. /\ OwnTime(error + way) \in Times
      /\ Total(OwnTime(error + way)) = Now + (error + way)
  BY <1>1, TimeTotal DEF OwnTime
<1>3. MasterTime \in Times /\ Total(MasterTime) = Now
  BY <1>1, TimeTotal DEF MasterTime
<1>4. PICK d : d = subTime(OwnTime(error + way), MasterTime)
  OBVIOUS
<1>5. d \in Times /\ Total(d) = error + way
  BY <1>1, <1>2, <1>3, <1>4, SubTimeCorrect
<1>6. PICK raw : raw = subTime(d, meanPathDelay)
  OBVIOUS
<1>7. meanPathDelay \in Times
  BY DEF DelayOK
<1>8. raw \in Times /\ Normalized(raw) /\ Total(raw) = Total(d) - Total(meanPathDelay)
  BY <1>5, <1>6, <1>7, SubTimeCorrect
<1>9. Total(raw) = error + way - Total(meanPathDelay)
  BY <1>1, <1>5, <1>7, <1>8, TotalType
<1>10. RawOffset(OwnTime(error + way)) = raw
  BY <1>4, <1>6 DEF RawOffset
<1> QED BY <1>8, <1>9, <1>10, Zenon

LEMMA SetStep ==
  ASSUME IInv, NEW way \in Int, handleSync(way), StepClock,
         ~TooLong(subTime(OwnTime(error + way), MasterTime))
  PROVE  Total(meanPathDelay) - way - error' \in 0 .. Microsecond - 1
<1> USE DEF IInv
<1>1. PICK received : received = OwnTime(error + way)
  OBVIOUS
<1>2. PICK raw : raw = RawOffset(received)
  OBVIOUS
<1>3. /\ raw \in Times /\ Normalized(raw)
      /\ Total(raw) = error + way - Total(meanPathDelay)
  BY <1>1, <1>2, RawOffsetTotal
<1>4. updateOffset(received) /\ ~TooLong(subTime(received, MasterTime))
  BY <1>1 DEF handleSync
<1>5. raw.seconds # 0
  <2> SUFFICES ASSUME raw.seconds = 0 PROVE FALSE
    OBVIOUS
  <2>1. offsetFromMaster' = [raw EXCEPT !.nanoseconds = Average(raw.nanoseconds, ofm_filt)]
    BY <1>2, <1>4 DEF updateOffset
  <2>2. raw.nanoseconds \in Int /\ Abs(raw.nanoseconds) < Second
    BY <1>3 DEF Times, Normalized
  <2>3. /\ Average(raw.nanoseconds, ofm_filt) \in Int
        /\ Abs(Average(raw.nanoseconds, ofm_filt)) < Second
    BY <2>2, AverageFits DEF OffsetOK
  <2>4. /\ offsetFromMaster'.seconds = 0
        /\ offsetFromMaster'.nanoseconds = Average(raw.nanoseconds, ofm_filt)
    BY <1>3, <2>1 DEF Times
  <2> QED BY <2>3, <2>4, SpansAssumption DEF StepClock, Abs
<1>6. offsetFromMaster' = raw
  BY <1>2, <1>4, <1>5 DEF updateOffset
<1>7. SetBack = error - (error + way - Total(meanPathDelay))
  BY <1>3, <1>6 DEF SetBack
<1>8. PICK rest \in 0 .. Microsecond - 1 : error' = SetBack - rest
  BY DEF StepClock, setTime
<1>9. error \in Int /\ Total(meanPathDelay) \in Int /\ Microsecond \in Nat
  BY TotalType, ServoAssumption DEF RatesOK, DelayOK
<1>10. Total(meanPathDelay) - way - error' = rest
  BY <1>7, <1>8, <1>9
<1> QED BY <1>8, <1>10

(* Whatever the sizes: a clock that is set is wrong by the error of the    *)
(* delay it was set with, and by less than the microsecond that is cut off.*)
THEOREM SetsClockAsMeasured == Spec => SetsAsMeasured
<1>1. ASSUME IInv, [Next]_vars,
             NEW way \in {env.path, env.path + Late}, handleSync(way), StepClock,
             ~TooLong(subTime(OwnTime(error + way), MasterTime))
      PROVE  Total(meanPathDelay) - way - error' \in 0 .. Microsecond - 1
  <2>1. way \in Int
    BY <1>1, EnvTypes DEF IInv
  <2> QED BY <1>1, <2>1, SetStep
<1>2. IInv /\ [Next]_vars =>
        [\A way \in {env.path, env.path + Late} :
           /\ handleSync(way) /\ StepClock
           /\ ~TooLong(subTime(OwnTime(error + way), MasterTime))
           => Total(meanPathDelay) - way - error' \in 0 .. Microsecond - 1]_vars
  BY <1>1
<1> QED BY <1>2, Invariance, PTL DEF Spec, SetsAsMeasured

-----------------------------------------------------------------------------
(* Types: what the invariant leaves out *)

ScheduleOK ==
  /\ offset_first_updated \in BOOLEAN
  /\ exchange.stage = "answered" => ~env.E2E_mode
  /\ syncDue \in BOOLEAN /\ askDue \in BOOLEAN
  /\ faults \in 0 .. MaxFaults
  /\ turn \in 0 .. env.every - 1

LEMMA ScheduleInit == Init => ScheduleOK
<1> SUFFICES ASSUME Init PROVE ScheduleOK
  OBVIOUS
<1>1. env.every \in Nat \ {0}
  BY CircumstancesAssumption DEF Init, Circumstance
<1>2. 0 \in 0 .. env.every - 1 /\ 0 \in 0 .. MaxFaults
  BY <1>1, ServoAssumption
<1> QED BY <1>2 DEF Init, ScheduleOK, NoExchange

LEMMA FaultCounted ==
  ASSUME faults \in 0 .. MaxFaults,
         faults' \in {faults, faults + 1}, faults' # faults => faults < MaxFaults
  PROVE  faults' \in 0 .. MaxFaults
BY ServoAssumption

(* A request voids what the last exchange left *)
LEMMA AskedExchange ==
  ASSUME NEW x
  PROVE  [NoExchange EXCEPT !.stage = "asked", !.t1 = x]
           = [stage |-> "asked", t1 |-> x, t2 |-> Zero, t4 |-> Zero]
<1>1. PICK z : z = Zero
  OBVIOUS
<1>2. [[stage |-> "none", t1 |-> z, t2 |-> z, t4 |-> z] EXCEPT !.stage = "asked"]
        = [stage |-> "asked", t1 |-> z, t2 |-> z, t4 |-> z]
  OBVIOUS
<1>3. [[stage |-> "asked", t1 |-> z, t2 |-> z, t4 |-> z] EXCEPT !.t1 = x]
        = [stage |-> "asked", t1 |-> x, t2 |-> z, t4 |-> z]
  OBVIOUS
<1> QED BY <1>1, <1>2, <1>3, Zenon DEF NoExchange

LEMMA ScheduleNext == IInv /\ ScheduleOK /\ [Next]_vars => ScheduleOK'
<1> SUFFICES ASSUME IInv, ScheduleOK, [Next]_vars PROVE ScheduleOK'
  OBVIOUS
<1>1. env.every \in Nat \ {0}
  BY CircumstancesAssumption DEF IInv, ExchangeOK, Circumstance
<1>2. CASE \/ handleSync(env.path) /\ UNCHANGED faults
           \/ handleSync(env.path + Late) /\ Fault("Sync late")
  <2>1. PICK way : handleSync(way)
    BY <1>2
  <2>2. offset_first_updated' \in BOOLEAN
    <3>1. updateOffset(OwnTime(error + way))
      BY <2>1 DEF handleSync
    <3> QED BY <3>1 DEF updateOffset, offset, ScheduleOK
  <2>3. faults' \in 0 .. MaxFaults
    <3>1. faults' \in {faults, faults + 1} /\ (faults' # faults => faults < MaxFaults)
      BY <1>2 DEF Fault
    <3> QED BY <3>1, FaultCounted DEF ScheduleOK
  <2> QED BY <2>1, <2>2, <2>3 DEF handleSync, ScheduleOK
<1>3. CASE Ask \/ handlePDelayResp \/ handlePDelayRespFollowUp \/ handleDelayResp
  <2>1. /\ UNCHANGED <<offset_first_updated, syncDue, faults, turn, env>>
        /\ askDue' \in {askDue, FALSE}
    BY <1>3 DEF Ask, handlePDelayResp, handlePDelayRespFollowUp, handleDelayResp,
       offset, schedule
  <2>2. exchange'.stage = "answered" => ~env.E2E_mode
    <3>1. CASE Ask \/ handlePDelayRespFollowUp \/ handleDelayResp
      <4>1. CASE Ask
        BY <4>1, AskedExchange DEF Ask
      <4>2. CASE handlePDelayRespFollowUp \/ handleDelayResp
        BY <4>2 DEF handlePDelayRespFollowUp, handleDelayResp, NoExchange
      <4> QED BY <3>1, <4>1, <4>2
    <3>2. CASE handlePDelayResp
      BY <3>2 DEF handlePDelayResp
    <3> QED BY <1>3, <3>1, <3>2
  <2> QED BY <2>1, <2>2 DEF ScheduleOK
<1>4. CASE Interval
  <2>1. turn' \in 0 .. env.every - 1
    BY <1>1, <1>4 DEF Interval, ScheduleOK
  <2> QED BY <1>4, <2>1 DEF Interval, ScheduleOK, offset
<1>5. CASE LoseSync \/ LoseAnswer \/ MasterLeaps \/ toState
  <2>1. faults' \in 0 .. MaxFaults
    <3>1. faults' \in {faults, faults + 1} /\ (faults' # faults => faults < MaxFaults)
      BY <1>5 DEF LoseSync, LoseAnswer, MasterLeaps, toState, Fault
    <3> QED BY <3>1, FaultCounted DEF ScheduleOK
  <2>2. /\ UNCHANGED <<offset_first_updated, askDue, turn, env>>
        /\ syncDue' \in {syncDue, FALSE}
    BY <1>5 DEF LoseSync, LoseAnswer, MasterLeaps, toState, offset, schedule
  <2>3. exchange'.stage \in {exchange.stage, "none"}
    <3>1. \/ exchange' \in {exchange, NoExchange}
          \/ exchange' = [NoExchange EXCEPT !.stage = exchange.stage]
      BY <1>5 DEF LoseSync, LoseAnswer, MasterLeaps, toState
    <3> QED BY <3>1 DEF NoExchange
  <2> QED BY <2>1, <2>2, <2>3 DEF ScheduleOK
<1>6. CASE UNCHANGED vars
  BY <1>6 DEF vars, offset, schedule, ScheduleOK
<1> QED BY <1>2, <1>3, <1>4, <1>5, <1>6 DEF Next

(* Rates are ones that adjtimex takes, what the filter of the offset keeps *)
(* is less than a second, a follow-up is waited for on the peer mechanism  *)
(* alone, and the schedule stays within its bounds.                        *)
THEOREM TypeCorrect == Spec => []TypeOK
<1>1. IInv /\ ScheduleOK => TypeOK
  BY ServoAssumption DEF IInv, RatesOK, OffsetOK, ExchangeOK, ScheduleOK, TypeOK, Abs
<1>2. Init => IInv /\ ScheduleOK
  BY InvInit, ScheduleInit
<1>3. IInv /\ ScheduleOK /\ [Next]_vars => (IInv /\ ScheduleOK)'
  BY InvNext, ScheduleNext
<1> QED BY <1>1, <1>2, <1>3, PTL DEF Spec

-----------------------------------------------------------------------------
(* The delay of a slave that is only steered.  The clock is not set within *)
(* an exchange, so that its error drops out of the four time stamps and    *)
(* what is fed to the filter is the path, which no mean of what came       *)
(* before exceeds.                                                         *)

LEMMA QuotWithin ==
  ASSUME NEW a \in Nat, NEW b \in Nat \ {0}, NEW bound \in Nat, a <= b * bound
  PROVE  Quot(a, b) \in 0 .. bound /\ Quot(a, b) * b <= a
<1>1. Quot(a, b) \in Int /\ Quot(a, b) >= 0 /\ Quot(a, b) * b <= a
  BY QuotRounds
<1>2. PICK q : q = Quot(a, b)
  OBVIOUS
<1>3. q \in Int /\ q >= 0 /\ q * b <= a
  BY <1>1, <1>2
<1>4. q * b <= bound * b
  BY <1>3
<1>5. q <= bound
  <2>1. (bound - q) * b >= 0
    BY <1>3, <1>4
  <2> QED BY <1>3, <2>1
<1> QED BY <1>2, <1>3, <1>5

LEMMA FilteredWithin ==
  ASSUME NEW filt, FilterOK(filt), NEW bound \in Nat, NEW n \in 0 .. bound,
         filt.y \in 0 .. bound, filt.nsec_prev \in 0 .. bound
  PROVE  Filtered(filt, n).y \in 0 .. bound /\ Filtered(filt, n).nsec_prev = n
<1>1. PICK e : e = Sharpened(filt)
  OBVIOUS
<1>2. PICK y : y = filt.y
  OBVIOUS
<1>3. PICK avg : avg = Average(n, filt.nsec_prev)
  OBVIOUS
<1>4. e \in Nat \ {0} /\ y \in 0 .. bound
  BY <1>1, <1>2, SharpenedFits
<1>5. avg \in 0 .. bound
  <2>1. ASSUME NEW x \in 0 .. bound
        PROVE  Quot(x, 2) \in Int /\ 0 <= Quot(x, 2) /\ 2 * Quot(x, 2) <= x
    <3>1. Quot(x, 2) \in Int /\ Quot(x, 2) >= 0 /\ Quot(x, 2) * 2 <= x
      BY QuotRounds
    <3> QED BY <3>1
  <2>2. /\ Quot(n, 2) \in Int /\ 0 <= Quot(n, 2) /\ 2 * Quot(n, 2) <= n
        /\ Quot(filt.nsec_prev, 2) \in Int /\ 0 <= Quot(filt.nsec_prev, 2)
        /\ 2 * Quot(filt.nsec_prev, 2) <= filt.nsec_prev
    BY <2>1
  <2> QED BY <1>3, <2>2 DEF Average
<1>6. PICK old : old = (e - 1) * y
  OBVIOUS
<1>7. PICK q : q = Quot(old, e)
  OBVIOUS
<1>8. PICK r : r = Quot(avg, e)
  OBVIOUS
<1>9. old \in Nat /\ old <= (e - 1) * bound /\ (e - 1) * bound \in Nat
  BY <1>4, <1>6
<1>10. q \in Int /\ q >= 0 /\ q * e <= old
  BY <1>4, <1>7, <1>9, QuotRounds
<1>11. r \in Int /\ r >= 0 /\ r * e <= avg
  BY <1>4, <1>5, <1>8, QuotRounds
<1>12. (q + r) * e <= bound * e
  <2>1. (q + r) * e = q * e + r * e /\ (e - 1) * bound + bound = bound * e
    BY <1>4, <1>10, <1>11
  <2>2. q * e \in Int /\ r * e \in Int
    BY <1>4, <1>10, <1>11
  <2> QED BY <1>5, <1>9, <1>10, <1>11, <2>1, <2>2
<1>13. q + r \in 0 .. bound
  <2>1. (bound - (q + r)) * e >= 0
    BY <1>4, <1>10, <1>11, <1>12
  <2> QED BY <1>4, <1>10, <1>11, <2>1
<1>14. Filtered(filt, n) = [s_exp |-> e, nsec_prev |-> n, y |-> q + r]
  BY <1>1, <1>2, <1>3, <1>6, <1>7, <1>8 DEF Filtered
<1> QED BY <1>13, <1>14

(* Twice a delay of less than a second has one second at most, which the   *)
(* halving drops: the other half is then more than the path has.           *)
LEMMA HalfWithin ==
  ASSUME NEW t \in Times, Normalized(t), NEW bound \in Nat, bound < Second,
         Total(t) = 2 * bound
  PROVE  Half(t).seconds = 0 /\ Half(t).nanoseconds \in 0 .. bound
<1>1. PICK s : s = t.seconds
  OBVIOUS
<1>2. PICK n : n = t.nanoseconds
  OBVIOUS
<1>3. s \in Int /\ n \in Int /\ Second \in Nat \ {0}
  BY <1>1, <1>2, SpansAssumption DEF Times
<1>4. s * Second + n = 2 * bound
  BY <1>1, <1>2 DEF Total
<1>5. /\ n < Second /\ -n < Second
      /\ ~(s > 0 /\ n < 0) /\ ~(s < 0 /\ n > 0)
  BY <1>1, <1>2, <1>3 DEF Normalized, Abs
<1>6. s >= 0
  <2> SUFFICES ASSUME s < 0 PROVE FALSE
    BY <1>3
  <2>1. s * Second <= -Second
    BY <1>3
  <2> QED BY <1>3, <1>4, <1>5, <2>1
<1>7. s <= 1
  <2> SUFFICES ASSUME s >= 2 PROVE FALSE
    BY <1>3
  <2>1. s * Second >= 2 * Second
    BY <1>3
  <2> QED BY <1>3, <1>4, <1>5, <2>1
<1>8. n \in Nat /\ n <= 2 * bound
  <2>1. s * Second \in Nat
    BY <1>3, <1>6
  <2>2. n >= 0
    <3>1. CASE s = 0
      BY <1>3, <1>4, <3>1
    <3>2. CASE s = 1
      BY <1>3, <1>5, <3>2
    <3> QED BY <1>3, <1>6, <1>7, <3>1, <3>2
  <2> QED BY <1>3, <1>4, <2>1, <2>2
<1>9. Quot(n, 2) \in 0 .. bound
  BY <1>8, QuotWithin
<1>10. Quot(s, 2) = 0
  <2>1. s \in {0, 1}
    BY <1>3, <1>6, <1>7
  <2> QED BY <2>1 DEF Quot
<1> QED BY <1>1, <1>2, <1>9, <1>10 DEF Half

(* The stamps of the exchange: nothing has moved the clock since the first *)
StampsOK ==
  /\ exchange.stage # "none" => Total(exchange.t1) = Now + error
  /\ exchange.stage = "answered" =>
       /\ Total(exchange.t2) = Now + env.path
       /\ Total(exchange.t4) = Now + (error + env.path)

DelayWithin ==
  /\ owd_filt.y \in 0 .. env.path /\ owd_filt.nsec_prev \in 0 .. env.path
  /\ meanPathDelay.seconds = 0 /\ meanPathDelay.nanoseconds \in 0 .. env.path

SteeredOK == NearBy => StampsOK /\ DelayWithin

LEMMA SteeredInit == Init => SteeredOK
<1> SUFFICES ASSUME Init PROVE SteeredOK
  OBVIOUS
<1>1. env.path \in Nat
  BY CircumstancesAssumption DEF Init, Circumstance
<1>2. exchange.stage = "none"
  BY DEF Init, NoExchange
<1>3. 0 \in 0 .. env.path
  BY <1>1
<1>4. DelayWithin
  BY <1>3 DEF Init, DelayWithin, Zero
<1> QED BY <1>2, <1>4 DEF SteeredOK, StampsOK

LEMMA NearByFaults ==
  ASSUME NearBy
  PROVE  ~env.E2E_mode /\ ~Fault("leap") /\ ~Fault("state") /\ HasRoom(env)
<1>1. "leap" \notin env.hits /\ "state" \notin env.hits
  BY DEF NearBy
<1> QED BY <1>1 DEF NearBy, Fault

(* An offset without seconds does not set the clock *)
LEMMA OnlySteers ==
  ASSUME OffsetOK', offsetFromMaster'.seconds = 0, updateClock
  PROVE  UNCHANGED <<error, owd_filt>>
<1>1. Abs(offsetFromMaster'.nanoseconds) < Second
  BY DEF OffsetOK, Normalized
<1>2. offsetFromMaster'.nanoseconds \in Int
  BY DEF OffsetOK, Times
<1>3. ~StepClock
  BY <1>1, <1>2, SpansAssumption DEF StepClock, Abs
<1> QED BY <1>3 DEF updateClock, SteerClock

(* The error drops out: what is measured is the path, twice *)
LEMMA ExchangeTotal ==
  ASSUME IInv, StampsOK, exchange.stage = "answered",
         NEW sum, sum = addTime(subTime(exchange.t4, MasterTime),
                                subTime(exchange.t2, exchange.t1))
  PROVE  sum \in Times /\ Normalized(sum) /\ Total(sum) = 2 * env.path
<1>1. MasterTime \in Times /\ Total(MasterTime) = Now
  BY TimeTotal, ServoAssumption DEF MasterTime
<1>2. exchange.t1 \in Times /\ exchange.t2 \in Times /\ exchange.t4 \in Times
  BY DEF IInv, ExchangeOK
<1>3. PICK there : there = subTime(exchange.t2, exchange.t1)
  OBVIOUS
<1>4. PICK back : back = subTime(exchange.t4, MasterTime)
  OBVIOUS
<1>5. there \in Times /\ Total(there) = Total(exchange.t2) - Total(exchange.t1)
  BY <1>2, <1>3, SubTimeCorrect
<1>6. back \in Times /\ Total(back) = Total(exchange.t4) - Total(MasterTime)
  BY <1>1, <1>2, <1>4, SubTimeCorrect
<1>7. sum \in Times /\ Normalized(sum) /\ Total(sum) = Total(back) + Total(there)
  BY <1>3, <1>4, <1>5, <1>6, AddTimeCorrect
<1>8. error \in Int /\ Now \in Int /\ env.path \in Int
  BY EnvTypes DEF IInv, RatesOK
<1>9. /\ Total(exchange.t1) = Now + error
      /\ Total(exchange.t2) = Now + env.path
      /\ Total(exchange.t4) = Now + (error + env.path)
  BY DEF StampsOK
<1>10. Total(there) = env.path - error /\ Total(back) = error + env.path
  BY <1>1, <1>5, <1>6, <1>8, <1>9
<1> QED BY <1>7, <1>8, <1>10

LEMMA SteeredFollowUp ==
  ASSUME IInv, StampsOK, DelayWithin, handlePDelayRespFollowUp, env.path < Second
  PROVE  StampsOK' /\ DelayWithin'
<1>1. PICK sum : sum = addTime(subTime(exchange.t4, MasterTime),
                               subTime(exchange.t2, exchange.t1))
  OBVIOUS
<1>2. env.path \in Nat /\ env' = env /\ exchange'.stage = "none"
  BY EnvTypes DEF IInv, handlePDelayRespFollowUp, NoExchange
<1>3. sum \in Times /\ Normalized(sum) /\ Total(sum) = 2 * env.path
  BY <1>1, ExchangeTotal DEF handlePDelayRespFollowUp
<1>4. Half(sum).seconds = 0 /\ Half(sum).nanoseconds \in 0 .. env.path
  BY <1>2, <1>3, HalfWithin
<1>5. PICK t : t = Half(sum)
  OBVIOUS
<1>6. t.seconds = 0 /\ t.nanoseconds \in 0 .. env.path /\ NewDelay(t)
  BY <1>1, <1>4, <1>5 DEF handlePDelayRespFollowUp, updatePeerDelay
<1>7. /\ owd_filt' = Filtered(owd_filt, t.nanoseconds)
      /\ meanPathDelay' = [t EXCEPT !.nanoseconds = owd_filt'.y]
  BY <1>6 DEF NewDelay
<1>8. /\ Filtered(owd_filt, t.nanoseconds).y \in 0 .. env.path
      /\ Filtered(owd_filt, t.nanoseconds).nsec_prev = t.nanoseconds
  BY <1>2, <1>6, FilteredWithin DEF IInv, DelayOK, DelayWithin
<1>9. t = [seconds |-> Quot(sum.seconds, 2), nanoseconds |-> Quot(sum.nanoseconds, 2)]
  BY <1>5 DEF Half
<1>10. meanPathDelay'.seconds = 0 /\ meanPathDelay'.nanoseconds = owd_filt'.y
  BY <1>6, <1>7, <1>9
<1>11. DelayWithin'
  BY <1>2, <1>6, <1>7, <1>8, <1>10 DEF DelayWithin
<1> QED BY <1>2, <1>11 DEF StampsOK

-----------------------------------------------------------------------------
(* How far a clock gets that is only steered.  For either side, s = 1 for  *)
(* a clock that is ahead and -1 for one behind, s * error never exceeds    *)
(* the Limit by more than an interval, two for each fault, can bring.      *)
Due      == IF syncDue THEN 1 ELSE 0
Short(s) == IF s = 1 THEN 0 ELSE env.path
Limit(s) == Larger(s * env.ahead, FullRate + Rate(env) + Short(s))
Spent    == 2 * faults * Rate(env)

(* The last offset tells of the error, but for what the delay was short by *)
(* and for one interval since; if it does not, because a Sync was lost or  *)
(* late, the error has left two intervals of room.                         *)
Remembers(s) ==
  \/ s * ofm_filt >= s * error - Short(s) - Due * Rate(env)
  \/ s * error <= Limit(s) + Spent - (1 - Due) * Rate(env)

(* Beyond the Limit the rate is the full one, and back *)
Turned(s) ==
  /\ s * error <= Limit(s) + Spent + Rate(env)
  /\ syncDue \/ s * error <= Limit(s) + Spent \/ s * freq = -ADJ_FREQ_MAX

NearOK == NearBy => \A s \in {1, -1} : Remembers(s) /\ Turned(s)

(* What the lemmas of this section use of the types *)
NearTypes ==
  /\ error \in Int /\ freq \in Int /\ ofm_filt \in Int
  /\ Abs(freq) <= ADJ_FREQ_MAX /\ Abs(ofm_filt) < Second
  /\ env.path \in Nat /\ env.skew \in Int /\ env.ahead \in Int
  /\ Rate(env) \in Nat /\ FullRate \in Nat
  /\ ADJ_FREQ_MAX \in Nat /\ Second \in Nat \ {0} /\ Now \in Nat
  /\ HeldUp(env) \in Nat
  /\ faults \in 0 .. MaxFaults /\ MaxFaults \in Nat
  /\ Spent \in Nat /\ Spent <= 2 * MaxFaults * Rate(env)
  /\ Slack(env) = 2 * MaxFaults * Rate(env) + Rate(env)
  /\ Due \in {0, 1} /\ Due * Rate(env) = (IF syncDue THEN Rate(env) ELSE 0)
  /\ (1 - Due) * Rate(env) = (IF syncDue THEN 0 ELSE Rate(env))

LEMMA NearTypesHold == IInv /\ ScheduleOK => NearTypes
<1> SUFFICES ASSUME IInv, ScheduleOK PROVE NearTypes
  OBVIOUS
<1>1. /\ error \in Int /\ freq \in Int /\ ofm_filt \in Int
      /\ Abs(freq) <= ADJ_FREQ_MAX /\ Abs(ofm_filt) < Second
  BY DEF IInv, RatesOK, OffsetOK
<1>2. /\ env.path \in Nat /\ env.skew \in Int /\ env.ahead \in Int
      /\ Now \in Nat /\ Late \in Nat
  BY EnvTypes DEF IInv
<1>3. /\ ADJ_FREQ_MAX \in Nat /\ Second \in Nat \ {0} /\ ap \in Nat \ {0}
      /\ MaxFaults \in Nat /\ faults \in 0 .. MaxFaults
  BY ServoAssumption, SpansAssumption DEF ScheduleOK
<1>4. PICK r : r = Rate(env)
  OBVIOUS
<1>5. r \in Nat
  BY <1>2, <1>3, <1>4 DEF Rate, Abs
<1>6. FullRate \in Nat
  <2>1. ap * ADJ_FREQ_MAX \in Nat
    BY <1>3
  <2> QED BY <2>1 DEF FullRate
<1>7. Spent \in Nat /\ Spent <= 2 * MaxFaults * r
  <2>1. faults * r \in Nat /\ (MaxFaults - faults) * r >= 0
    BY <1>3, <1>5
  <2>2. (MaxFaults - faults) * r = MaxFaults * r - faults * r
    BY <1>3, <1>5
  <2>3. 2 * faults * r = 2 * (faults * r) /\ 2 * MaxFaults * r = 2 * (MaxFaults * r)
    BY <1>3, <1>5
  <2>4. MaxFaults * r \in Nat
    BY <1>3, <1>5
  <2> QED BY <1>4, <2>1, <2>2, <2>3, <2>4 DEF Spent
<1>8. Slack(env) = 2 * MaxFaults * r + r
  BY <1>3, <1>4, <1>5 DEF Slack
<1>9. /\ Due \in {0, 1} /\ Due * r = (IF syncDue THEN r ELSE 0)
      /\ (1 - Due) * r = (IF syncDue THEN 0 ELSE r)
  BY <1>5 DEF Due
<1>10. HeldUp(env) \in Nat
  <2>1. HeldUp(env) \in {Late, 0}
    BY Zenon DEF HeldUp
  <2> QED BY <1>2, <2>1
<1> QED BY <1>1, <1>2, <1>3, <1>4, <1>5, <1>6, <1>7, <1>8, <1>9, <1>10 DEF NearTypes

LEMMA LimitHolds ==
  ASSUME NearTypes, NEW s \in {1, -1}
  PROVE  /\ Limit(s) \in Int /\ Short(s) \in Nat
         /\ s * env.ahead \in Int /\ s * env.ahead <= Limit(s)
         /\ FullRate + Rate(env) + Short(s) <= Limit(s)
         /\ s * error \in Int /\ s * ofm_filt \in Int
<1>1. Short(s) \in Nat
  BY DEF Short, NearTypes
<1>2. s * env.ahead \in Int /\ s * error \in Int /\ s * ofm_filt \in Int
  BY DEF NearTypes
<1>3. FullRate + Rate(env) + Short(s) \in Int
  BY <1>1 DEF NearTypes
<1> QED BY <1>1, <1>2, <1>3 DEF Limit, Larger

(* Turned, on both sides, is more than StaysNear says *)
LEMMA NearStays ==
  ASSUME NearTypes, Turned(1), Turned(-1)
  PROVE  /\ error \in -Behind(env) .. Ahead(env)
         /\ Behind(env) \in Int /\ Ahead(env) \in Int
<1>1. PICK r : r = Rate(env)
  OBVIOUS
<1>2. PICK room : room = 2 * MaxFaults * r
  OBVIOUS
<1>3. r \in Nat /\ room \in Nat /\ Spent \in Nat /\ Spent <= room /\ Slack(env) = room + r
  <2>1. MaxFaults * r \in Nat
    BY <1>1 DEF NearTypes
  <2>2. room = 2 * (MaxFaults * r)
    BY <1>1, <1>2 DEF NearTypes
  <2> QED BY <1>1, <1>2, <2>1, <2>2 DEF NearTypes
<1>4. /\ 1 * error = error /\ -1 * error = -error /\ error \in Int
      /\ 1 * env.ahead = env.ahead /\ -1 * env.ahead = -env.ahead /\ env.ahead \in Int
      /\ FullRate \in Nat /\ env.path \in Nat
  BY DEF NearTypes
<1>5. Limit(1) = Larger(env.ahead, FullRate + Rate(env))
  <2>1. FullRate + Rate(env) + 0 = FullRate + Rate(env)
    BY DEF NearTypes
  <2> QED BY <1>4, <2>1 DEF Limit, Short
<1>6. Limit(-1) = Larger(-env.ahead, FullRate + Rate(env) + env.path)
  BY <1>4 DEF Limit, Short
<1>7. Ahead(env) = Limit(1) + Slack(env) /\ Behind(env) = Limit(-1) + Slack(env)
  BY <1>5, <1>6 DEF Ahead, Behind
<1>8. error <= Limit(1) + Spent + r /\ -error <= Limit(-1) + Spent + r
  BY <1>1, <1>4 DEF Turned
<1>9. Limit(1) \in Int /\ Limit(-1) \in Int
  BY LimitHolds
<1> QED BY <1>3, <1>4, <1>7, <1>8, <1>9

(* What halving drops is less than the one nanosecond of each *)
LEMMA AverageAtLeast ==
  ASSUME NEW s \in {1, -1}, NEW x \in Int, NEW y \in Int
  PROVE  Average(x, y) \in Int /\ 2 * (s * Average(x, y)) >= s * x + s * y - 2
<1>1. PICK p : p = Quot(x, 2)
  OBVIOUS
<1>2. PICK q : q = Quot(y, 2)
  OBVIOUS
<1>3. p \in Int /\ q \in Int /\ Abs(x - p * 2) < 2 /\ Abs(y - q * 2) < 2
  BY <1>1, <1>2, QuotRounds
<1>4. Average(x, y) = p + q
  BY <1>1, <1>2 DEF Average
<1> QED BY <1>3, <1>4 DEF Abs

(* The proportional part of an offset of FullRate is twice the full rate,  *)
(* so that no accumulator can keep the rate from being full.               *)
LEMMA FullRateTurns ==
  ASSUME NEW s \in {1, -1}, NEW m \in Int, s * m >= FullRate,
         NEW drift \in Int, Abs(drift) <= ADJ_FREQ_MAX
  PROVE  s * Clamp(-(Quot(m, ap) + drift)) = -ADJ_FREQ_MAX
<1>1. PICK a : a = ADJ_FREQ_MAX
  OBVIOUS
<1>2. PICK q : q = Quot(m, ap)
  OBVIOUS
<1>3. a \in Nat /\ ap \in Nat \ {0}
  BY <1>1, ServoAssumption
<1>4. q \in Int /\ Abs(m - q * ap) < ap /\ q * ap \in Int
  BY <1>2, <1>3, QuotRounds
<1>5. s * m >= (2 * a) * ap
  <2>1. (2 * a) * ap = 2 * (ap * a)
    BY <1>3
  <2> QED BY <1>1, <2>1 DEF FullRate
<1>6. (s * q) * ap > (2 * a - 1) * ap
  <2>1. s * (q * ap) > s * m - ap
    BY <1>3, <1>4 DEF Abs
  <2>2. s * (q * ap) = (s * q) * ap
    BY <1>3, <1>4
  <2>3. (2 * a - 1) * ap = (2 * a) * ap - ap
    BY <1>3
  <2>4. (2 * a) * ap \in Int /\ (s * q) * ap \in Int /\ s * m \in Int
    BY <1>3, <1>4
  <2> QED BY <1>3, <1>5, <2>1, <2>2, <2>3, <2>4
<1>7. s * q >= 2 * a
  <2>1. s * q \in Int
    BY <1>4
  <2>2. (s * q - (2 * a - 1)) * ap > 0
    BY <1>3, <1>6, <2>1
  <2> QED BY <1>3, <2>1, <2>2
<1>8. -a <= drift /\ drift <= a
  BY <1>1, <1>3 DEF Abs
<1>9. CASE s = 1
  <2>1. -(q + drift) <= -a
    BY <1>3, <1>4, <1>7, <1>8, <1>9
  <2> QED BY <1>1, <1>2, <1>3, <1>4, <1>9, <2>1 DEF Clamp
<1>10. CASE s = -1
  <2>1. -(q + drift) >= a
    BY <1>3, <1>4, <1>7, <1>8, <1>10
  <2> QED BY <1>1, <1>2, <1>3, <1>4, <1>10, <2>1 DEF Clamp
<1> QED BY <1>9, <1>10

(* A Sync finds the delay within the path, so that what it measures is     *)
(* less than a second and the clock is not set.                            *)
LEMMA NearSyncSteers ==
  ASSUME IInv, IInv', ScheduleOK, SteeredOK, NearOK, OnlySteered, NearBy,
         NEW way \in {env.path, env.path + HeldUp(env)}, handleSync(way)
  PROVE  /\ offsetFromMaster'.seconds = 0 /\ error' = error
         /\ way = env.path =>
              /\ ofm_filt' \in error .. error + env.path
              /\ offsetFromMaster'.nanoseconds = Average(ofm_filt', ofm_filt)
<1>0. HasRoom(env)
  BY NearByFaults
<1>1. NearTypes
  BY NearTypesHold
<1>2. /\ error \in Int /\ env.path \in Nat /\ HeldUp(env) \in Nat /\ Now \in Nat
      /\ Second \in Nat \ {0}
  BY <1>1 DEF NearTypes
<1>3. way \in Int /\ way >= env.path
  BY <1>2
<1>4. -Second < error /\ error + env.path < Second
  <2>1. /\ error \in -Behind(env) .. Ahead(env)
        /\ Behind(env) \in Int /\ Ahead(env) \in Int
    BY <1>1, NearStays DEF NearOK
  <2>2. Behind(env) < Second
    BY <1>0 DEF HasRoom
  <2>3. Ahead(env) + env.path < Second
    <3>1. CASE env.maxDelay = 0
      BY <1>0, <1>2, <2>1, <3>1 DEF HasRoom
    <3>2. CASE env.maxDelay # 0
      <4>1. Ahead(env) + env.path <= env.maxDelay /\ env.maxDelay < Second
        BY <1>0, <3>2 DEF HasRoom
      <4>2. env.maxDelay \in Nat
        BY CircumstancesAssumption DEF IInv, ExchangeOK, Circumstance
      <4> QED BY <1>2, <2>1, <4>1, <4>2
    <3> QED BY <3>1, <3>2
  <2> QED BY <1>2, <2>1, <2>2, <2>3
<1>5. PICK received : received = OwnTime(error + way)
  OBVIOUS
<1>6. PICK took : took = subTime(received, MasterTime)
  OBVIOUS
<1>7. took \in Times /\ Normalized(took) /\ Total(took) = error + way
  <2>1. received \in Times /\ Total(received) = Now + (error + way)
    BY <1>2, <1>3, <1>5, TimeTotal DEF OwnTime
  <2>2. MasterTime \in Times /\ Total(MasterTime) = Now
    BY <1>2, TimeTotal DEF MasterTime
  <2>3. took \in Times /\ Normalized(took) /\ Total(took) = Total(received) - Total(MasterTime)
    BY <1>6, <2>1, <2>2, SubTimeCorrect
  <2> QED BY <1>2, <1>3, <2>1, <2>2, <2>3
<1>8. updateOffset(received) /\ updateClock
  BY <1>5 DEF handleSync
<1>9. CASE TooLong(took)
  <2>1. way # env.path
    <3> SUFFICES ASSUME way = env.path PROVE FALSE
      OBVIOUS
    <3>1. Abs(Total(took)) < Second
      BY <1>2, <1>4, <1>7 DEF Abs
    <3>2. took.seconds = 0
      BY <1>2, <1>7, <3>1, SecondsTell DEF Abs
    <3>3. took.nanoseconds = error + env.path
      BY <1>2, <1>7, <3>2 DEF Total, Times
    <3>4. env.maxDelay # 0 /\ error + env.path > env.maxDelay
      BY <1>9, <3>2, <3>3 DEF TooLong
    <3>5. Ahead(env) + env.path <= env.maxDelay
      BY <1>0, <3>4 DEF HasRoom
    <3>6. error <= Ahead(env) /\ Ahead(env) \in Int
      BY <1>1, NearStays DEF NearOK
    <3>7. env.maxDelay \in Nat
      BY CircumstancesAssumption DEF IInv, ExchangeOK, Circumstance
    <3> QED BY <1>2, <3>4, <3>5, <3>6, <3>7
  <2>2. offsetFromMaster' = offsetFromMaster
    BY <1>6, <1>8, <1>9 DEF updateOffset, offset
  <2>3. offsetFromMaster'.seconds = 0
    BY <2>2 DEF OnlySteered
  <2> QED BY <1>8, <2>1, <2>3, OnlySteers DEF IInv
<1>10. CASE ~TooLong(took)
  <2>1. PICK raw : raw = RawOffset(received)
    OBVIOUS
  <2>2. PICK d : d = meanPathDelay.nanoseconds
    OBVIOUS
  <2>3. d \in 0 .. env.path /\ Total(meanPathDelay) = d
    <3>1. meanPathDelay.seconds = 0 /\ d \in 0 .. env.path
      BY <2>2 DEF SteeredOK, DelayWithin
    <3> QED BY <1>2, <2>2, <3>1 DEF Total
  <2>4. raw \in Times /\ Normalized(raw) /\ Total(raw) = error + way - d
    BY <1>3, <1>5, <2>1, <2>3, RawOffsetTotal DEF IInv
  <2>5. error + way < Second
    <3>1. CASE way = env.path
      BY <1>2, <1>4, <3>1
    <3>2. CASE way # env.path /\ env.maxDelay = 0
      <4>1. Ahead(env) + env.path + HeldUp(env) < Second
        BY <1>0, <3>2 DEF HasRoom
      <4>2. error <= Ahead(env) /\ Ahead(env) \in Int
        BY <1>1, NearStays DEF NearOK
      <4> QED BY <1>2, <3>2, <4>1, <4>2
    <3>3. CASE env.maxDelay # 0
      <4>1. took.seconds = 0 /\ ~(took.nanoseconds > env.maxDelay)
        BY <1>10, <3>3 DEF TooLong
      <4>2. env.maxDelay < Second /\ env.maxDelay \in Nat
        BY <1>0, <3>3, CircumstancesAssumption
           DEF HasRoom, IInv, ExchangeOK, Circumstance
      <4>3. took.nanoseconds = error + way
        BY <1>2, <1>3, <1>7, <4>1 DEF Total, Times
      <4> QED BY <1>2, <1>3, <4>1, <4>2, <4>3
    <3> QED BY <3>1, <3>2, <3>3
  <2>6. Abs(Total(raw)) < Second
    BY <1>2, <1>3, <1>4, <2>3, <2>4, <2>5 DEF Abs
  <2>7. raw.seconds = 0
    <3>1. ~(Abs(Total(raw)) >= Second)
      BY <1>2, <2>4, <2>6, TotalType DEF Abs
    <3> QED BY <2>4, <3>1, SecondsTell
  <2>8. raw.nanoseconds = error + way - d
    BY <1>2, <1>3, <2>3, <2>4, <2>7 DEF Total, Times
  <2>9. /\ offsetFromMaster' =
             [raw EXCEPT !.nanoseconds = Average(raw.nanoseconds, ofm_filt)]
        /\ ofm_filt' = raw.nanoseconds
    BY <1>6, <1>8, <1>10, <2>1, <2>7 DEF updateOffset
  <2>10. /\ offsetFromMaster'.seconds = 0
         /\ offsetFromMaster'.nanoseconds = Average(ofm_filt', ofm_filt)
    BY <2>4, <2>7, <2>9 DEF Times
  <2>11. error' = error
    BY <1>8, <2>10, OnlySteers DEF IInv
  <2>12. way = env.path => ofm_filt' \in error .. error + env.path
    BY <1>2, <2>3, <2>8, <2>9
  <2> QED BY <2>10, <2>11, <2>12
<1> QED BY <1>9, <1>10

(* In time: the offset is remembered, and if it is FullRate the rate turns *)
LEMMA NearSync ==
  ASSUME IInv, IInv', ScheduleOK, SteeredOK, NearOK, OnlySteered, NearBy,
         handleSync(env.path), UNCHANGED faults, NEW s \in {1, -1}
  PROVE  Remembers(s)' /\ Turned(s)'
<1>1. /\ offsetFromMaster'.seconds = 0 /\ error' = error
      /\ ofm_filt' \in error .. error + env.path
      /\ offsetFromMaster'.nanoseconds = Average(ofm_filt', ofm_filt)
  BY NearSyncSteers
<1>2. syncDue /\ syncDue' = FALSE /\ env' = env /\ updateClock
  BY DEF handleSync
<1>3. NearTypes
  BY NearTypesHold
<1>4. PICK z : z = s * error
  OBVIOUS
<1>5. PICK limit : limit = Limit(s)
  OBVIOUS
<1>6. PICK r : r = Rate(env)
  OBVIOUS
<1>7. /\ z \in Int /\ limit \in Int /\ r \in Nat /\ Spent \in Nat /\ FullRate \in Nat
      /\ Short(s) \in Nat /\ FullRate + r + Short(s) <= limit /\ s * ofm_filt \in Int
  BY <1>3, <1>4, <1>5, <1>6, LimitHolds DEF NearTypes
<1>8. /\ Limit(s)' = limit /\ Short(s)' = Short(s) /\ Rate(env)' = r
      /\ Spent' = Spent /\ Due' = 0 /\ Due = 1 /\ (s * error)' = z
  BY <1>1, <1>2, <1>4, <1>5, <1>6 DEF Limit, Short, Rate, Spent, Due
<1>9. ofm_filt' \in Int /\ error \in Int /\ ofm_filt \in Int /\ env.path \in Nat
  BY <1>1, <1>3 DEF NearTypes
<1>10. s * ofm_filt' \in Int /\ s * ofm_filt' >= z - Short(s)
  BY <1>1, <1>4, <1>9 DEF Short
<1>11. Remembers(s)'
  <2>1. z - Short(s) - 0 * r = z - Short(s)
    BY <1>7
  <2> QED BY <1>8, <1>10, <2>1 DEF Remembers
<1>12. z <= limit + Spent + r /\ (Remembers(s) => \/ s * ofm_filt >= z - Short(s) - r
                                                  \/ z <= limit + Spent)
  <2>1. 1 * r = r /\ (1 - 1) * r = 0
    BY <1>7
  <2>2. limit + Spent - 0 = limit + Spent
    BY <1>7
  <2> QED BY <1>4, <1>5, <1>6, <1>8, <2>1, <2>2 DEF NearOK, Turned, Remembers
<1>13. z <= limit + Spent \/ s * freq' = -ADJ_FREQ_MAX
  <2> SUFFICES ASSUME ~(z <= limit + Spent) PROVE s * freq' = -ADJ_FREQ_MAX
    OBVIOUS
  <2>1. s * ofm_filt >= z - Short(s) - r
    BY <1>12 DEF NearOK
  <2>2. PICK m : m = Average(ofm_filt', ofm_filt)
    OBVIOUS
  <2>3. m \in Int /\ 2 * (s * m) >= s * ofm_filt' + s * ofm_filt - 2
    BY <1>9, <2>2, AverageAtLeast
  <2>4. s * m \in Int
    BY <2>3
  <2>5. s * m >= FullRate
    BY <1>7, <1>10, <2>1, <2>3, <2>4
  <2>6. SteerClock
    <3>1. Abs(m) < Second /\ Second \in Nat
      BY <1>1, <2>2, SpansAssumption DEF IInv, OffsetOK, Normalized
    <3>2. ~(Abs(m) > Second)
      BY <2>3, <3>1 DEF Abs
    <3> QED BY <1>1, <1>2, <2>2, <3>2 DEF updateClock, StepClock
  <2>7. freq' = Clamp(-(Quot(m, ap) + observed_drift'))
    BY <1>1, <2>2, <2>6 DEF SteerClock, adjFreq
  <2>8. observed_drift' \in Int /\ Abs(observed_drift') <= ADJ_FREQ_MAX
    BY DEF IInv, RatesOK
  <2> QED BY <2>3, <2>5, <2>7, <2>8, FullRateTurns
<1>14. Turned(s)'
  BY <1>8, <1>12, <1>13 DEF Turned
<1> QED BY <1>11, <1>14

(* A Sync that is lost or late tells nothing but takes a fault, which      *)
(* leaves two intervals of room: the one that went and the one to come.    *)
LEMMA NearFault ==
  ASSUME NearTypes, Remembers(1) /\ Turned(1), Remembers(-1) /\ Turned(-1),
         UNCHANGED <<error, env>>, faults' = faults + 1,
         \/ syncDue' = FALSE
         \/ UNCHANGED <<ofm_filt, syncDue, freq>>,
         NEW s \in {1, -1}
  PROVE  Remembers(s)' /\ Turned(s)'
<1>1. Remembers(s) /\ Turned(s)
  OBVIOUS
<1>2. PICK z : z = s * error
  OBVIOUS
<1>3. PICK limit : limit = Limit(s)
  OBVIOUS
<1>4. PICK r : r = Rate(env)
  OBVIOUS
<1>5. /\ z \in Int /\ limit \in Int /\ r \in Nat /\ Spent \in Nat /\ Short(s) \in Nat
      /\ s * ofm_filt \in Int /\ faults \in Nat
  BY <1>2, <1>3, <1>4, LimitHolds DEF NearTypes
<1>6. /\ Limit(s)' = limit /\ Short(s)' = Short(s) /\ Rate(env)' = r /\ (s * error)' = z
  BY <1>2, <1>3, <1>4 DEF Limit, Short, Rate
<1>7. Spent' = Spent + 2 * r
  BY <1>4, <1>5, <1>6 DEF Spent
<1>8. z <= limit + Spent + r
  BY <1>1, <1>2, <1>3, <1>4 DEF Turned
<1>9. CASE syncDue' = FALSE
  <2>1. Due' = 0 /\ (1 - 0) * r = r
    BY <1>5, <1>9 DEF Due
  <2>2. z <= limit + Spent' - r
    BY <1>5, <1>7, <1>8
  <2>3. z <= limit + Spent' /\ z <= limit + Spent' + r
    BY <1>5, <1>7, <1>8
  <2> QED BY <1>6, <2>1, <2>2, <2>3 DEF Remembers, Turned
<1>10. CASE UNCHANGED <<ofm_filt, syncDue, freq>>
  <2>1. Due' = Due /\ (s * freq)' = s * freq /\ (s * ofm_filt)' = s * ofm_filt
    BY <1>10 DEF Due
  <2>2. PICK used : used = (1 - Due) * r
    OBVIOUS
  <2>3. used \in {0, r}
    BY <1>4, <2>2 DEF NearTypes
  <2>4. \/ s * ofm_filt >= z - Short(s) - Due * r
        \/ z <= limit + Spent - used
    BY <1>1, <1>2, <1>3, <1>4, <2>2 DEF Remembers
  <2>5. z <= limit + Spent - used => z <= limit + Spent' - used
    BY <1>5, <1>7, <2>3
  <2>6. Remembers(s)'
    BY <1>6, <2>1, <2>2, <2>4, <2>5 DEF Remembers
  <2>7. syncDue \/ z <= limit + Spent \/ s * freq = -ADJ_FREQ_MAX
    BY <1>1, <1>2, <1>3 DEF Turned
  <2>8. /\ z <= limit + Spent' + r
        /\ z <= limit + Spent => z <= limit + Spent'
    BY <1>5, <1>7, <1>8
  <2> QED BY <1>6, <1>10, <2>1, <2>6, <2>7, <2>8 DEF Turned
<1> QED BY <1>9, <1>10

(* In an interval the clock moves by Rate at most; at the full rate it     *)
(* comes back, or stays where it is: the skew is less than that by one at  *)
(* least, and what adjtimex loses is no more than one.                     *)
LEMMA NearInterval ==
  ASSUME NearTypes, Abs(env.skew) < ADJ_FREQ_MAX,
         NEW s \in {1, -1}, Remembers(s), Turned(s), Interval
  PROVE  Remembers(s)' /\ Turned(s)'
<1>1. PICK g \in Gain : error' = error + env.skew + g
  BY DEF Interval
<1>2. UNCHANGED <<ofm_filt, faults, env>> /\ ~syncDue /\ syncDue'
  BY DEF Interval, offset
<1>3. PICK z : z = s * error
  OBVIOUS
<1>4. PICK limit : limit = Limit(s)
  OBVIOUS
<1>5. PICK r : r = Rate(env)
  OBVIOUS
<1>6. /\ z \in Int /\ limit \in Int /\ r \in Nat /\ Spent \in Nat /\ Short(s) \in Nat
      /\ s * ofm_filt \in Int
  BY <1>3, <1>4, <1>5, LimitHolds DEF NearTypes
<1>7. PICK a : a = ADJ_FREQ_MAX
  OBVIOUS
<1>8. PICK k : k = env.skew
  OBVIOUS
<1>9. PICK f : f = freq
  OBVIOUS
<1>10. /\ a \in Nat /\ k \in Int /\ f \in Int /\ error \in Int
       /\ -a <= f /\ f <= a /\ -a < k /\ k < a
  BY <1>7, <1>8, <1>9 DEF NearTypes, Abs
<1>11. g \in {f, IF f > 0 THEN f - 1 ELSE IF f < 0 THEN f + 1 ELSE 0}
  BY <1>9 DEF Gain
<1>12. r = a + Abs(k)
  BY <1>5, <1>7, <1>8 DEF Rate
<1>13. PICK new : new = s * error'
  OBVIOUS
<1>14. new \in Int /\ new = z + s * k + s * g
  BY <1>1, <1>3, <1>8, <1>10, <1>11, <1>13
<1>15. new <= z + r
  BY <1>6, <1>10, <1>11, <1>12, <1>14 DEF Abs
<1>16. s * f = -a => new <= z
  BY <1>6, <1>10, <1>11, <1>14
<1>17. /\ Limit(s)' = limit /\ Short(s)' = Short(s) /\ Rate(env)' = r
       /\ Spent' = Spent /\ Due' = 1 /\ Due = 0 /\ (s * ofm_filt)' = s * ofm_filt
  BY <1>2, <1>4, <1>5 DEF Limit, Short, Rate, Spent, Due
<1>18. 0 * r = 0 /\ (1 - 0) * r = r /\ 1 * r = r /\ (1 - 1) * r = 0
  BY <1>6
<1>19. \/ s * ofm_filt >= z - Short(s) - 0
       \/ z <= limit + Spent - r
  BY <1>3, <1>4, <1>5, <1>17, <1>18 DEF Remembers
<1>20. \/ s * ofm_filt >= new - Short(s) - r
       \/ new <= limit + Spent - 0
  BY <1>6, <1>14, <1>15, <1>19
<1>21. Remembers(s)'
  BY <1>13, <1>17, <1>18, <1>20 DEF Remembers
<1>22. z <= limit + Spent + r /\ (z <= limit + Spent \/ s * f = -a)
  BY <1>2, <1>3, <1>4, <1>5, <1>7, <1>9 DEF Turned
<1>23. new <= limit + Spent + r
  BY <1>6, <1>14, <1>15, <1>16, <1>22
<1> QED BY <1>2, <1>13, <1>17, <1>21, <1>23 DEF Turned

LEMMA EnvFixed == [Next]_vars => env' = env
BY Zenon DEF Next, handleSync, Ask, handlePDelayResp, handlePDelayRespFollowUp,
   handleDelayResp, Interval, LoseSync, LoseAnswer, MasterLeaps, toState, vars

LEMMA NearInit == Init => NearOK /\ OnlySteered
<1> SUFFICES ASSUME Init PROVE NearOK /\ OnlySteered
  OBVIOUS
<1>1. NearTypes
  BY InvInit, ScheduleInit, NearTypesHold
<1>2. ASSUME NEW s \in {1, -1} PROVE Remembers(s) /\ Turned(s)
  <2>1. error = env.ahead /\ syncDue
    BY DEF Init
  <2>2. PICK limit : limit = Limit(s)
    OBVIOUS
  <2>3. PICK z : z = s * error
    OBVIOUS
  <2>4. /\ limit \in Int /\ z \in Int /\ z <= limit
        /\ Spent \in Nat /\ Rate(env) \in Nat /\ (1 - Due) * Rate(env) = 0
    BY <1>1, <2>1, <2>2, <2>3, LimitHolds DEF NearTypes
  <2>5. z <= limit + Spent - (1 - Due) * Rate(env) /\ z <= limit + Spent + Rate(env)
    BY <2>4
  <2> QED BY <2>1, <2>2, <2>3, <2>5 DEF Remembers, Turned
<1>3. offsetFromMaster.seconds = 0
  BY DEF Init, Zero
<1> QED BY <1>2, <1>3 DEF NearOK, OnlySteered

LEMMA NearNext ==
  /\ IInv /\ IInv' /\ ScheduleOK /\ SteeredOK /\ NearOK /\ OnlySteered
  /\ [Next]_vars
  => NearOK' /\ OnlySteered'
<1> SUFFICES ASSUME IInv, IInv', ScheduleOK, SteeredOK, NearOK, OnlySteered,
                    [Next]_vars, NearBy'
             PROVE  /\ \A s \in {1, -1} : Remembers(s)' /\ Turned(s)'
                    /\ offsetFromMaster'.seconds = 0
  BY DEF NearOK, OnlySteered
<1>1. env' = env
  BY EnvFixed
<1>2. NearBy
  BY <1>1, Zenon DEF NearBy, HasRoom, Behind, Ahead, Slack, Rate, HeldUp
<1>3. NearTypes
  BY NearTypesHold
<1>4. /\ Remembers(1) /\ Turned(1) /\ Remembers(-1) /\ Turned(-1)
      /\ \A s \in {1, -1} : Remembers(s) /\ Turned(s)
      /\ offsetFromMaster.seconds = 0
  BY <1>2 DEF NearOK, OnlySteered
<1>5. ~env.E2E_mode /\ ~Fault("leap") /\ ~Fault("state") /\ HasRoom(env)
  BY <1>2, NearByFaults
<1>6. CASE handleSync(env.path) /\ UNCHANGED faults
  BY <1>2, <1>6, NearSync, NearSyncSteers
<1>7. CASE handleSync(env.path + Late) /\ Fault("Sync late")
  <2>1. HeldUp(env) = Late
    BY <1>7, Zenon DEF Fault, HeldUp
  <2>2. offsetFromMaster'.seconds = 0 /\ error' = error
    BY <1>2, <1>7, <2>1, NearSyncSteers
  <2>3. syncDue' = FALSE
    BY <1>7 DEF handleSync
  <2>4. faults' = faults + 1
    BY <1>7, Zenon DEF Fault
  <2> QED BY <1>1, <1>3, <1>4, <2>2, <2>3, <2>4, NearFault
<1>8. CASE \/ Ask \/ handlePDelayResp \/ handlePDelayRespFollowUp \/ handleDelayResp
           \/ UNCHANGED vars
  <2>1. UNCHANGED <<error, freq, ofm_filt, syncDue, faults, offsetFromMaster>>
    BY <1>8, Zenon DEF Ask, handlePDelayResp, handlePDelayRespFollowUp,
       handleDelayResp, vars, clock, offset, schedule
  <2>2. /\ Due' = Due /\ Spent' = Spent /\ Rate(env)' = Rate(env)
        /\ \A s \in {1, -1} : Limit(s)' = Limit(s) /\ Short(s)' = Short(s)
    BY <1>1, <2>1 DEF Due, Spent, Rate, Limit, Short
  <2> QED BY <1>4, <2>1, <2>2 DEF Remembers, Turned
<1>9. CASE Interval
  <2>1. Abs(env.skew) < ADJ_FREQ_MAX
    BY <1>5 DEF HasRoom
  <2>2. offsetFromMaster' = offsetFromMaster
    BY <1>9 DEF Interval, offset
  <2> QED BY <1>3, <1>4, <1>9, <2>1, <2>2, NearInterval
<1>10. CASE LoseSync \/ LoseAnswer
  <2>1. /\ UNCHANGED <<error, freq, ofm_filt, offsetFromMaster>>
        /\ syncDue' = FALSE \/ UNCHANGED syncDue
        /\ faults' = faults + 1
    BY <1>10, Zenon DEF LoseSync, LoseAnswer, Fault, clock, offset, schedule
  <2> QED BY <1>1, <1>3, <1>4, <2>1, NearFault
<1>11. CASE MasterLeaps \/ toState
  BY <1>5, <1>11, Zenon DEF MasterLeaps, toState
<1> QED BY <1>6, <1>7, <1>8, <1>9, <1>10, <1>11, Zenon DEF Next

LEMMA NearPath ==
  ASSUME NearTypes, NearBy
  PROVE  env.path < Second
<1>1. Behind(env) < Second
  BY NearByFaults DEF HasRoom
<1>2. /\ env.path \in Nat /\ Rate(env) \in Nat /\ FullRate \in Nat
      /\ env.ahead \in Int /\ Second \in Nat
  BY DEF NearTypes
<1>3. Slack(env) \in Nat
  <2>1. MaxFaults * Rate(env) \in Nat
    BY DEF NearTypes
  <2>2. 2 * MaxFaults * Rate(env) = 2 * (MaxFaults * Rate(env))
    BY DEF NearTypes
  <2> QED BY <1>2, <2>1, <2>2 DEF NearTypes
<1> QED BY <1>1, <1>2, <1>3 DEF Behind, Larger

LEMMA SteeredNext ==
  IInv /\ IInv' /\ ScheduleOK /\ OnlySteered' /\ SteeredOK /\ [Next]_vars => SteeredOK'
<1> SUFFICES ASSUME IInv, IInv', ScheduleOK, OnlySteered', SteeredOK, [Next]_vars, NearBy'
             PROVE  StampsOK' /\ DelayWithin'
  BY DEF SteeredOK
<1>1. env' = env
  BY EnvFixed
<1>2. NearBy
  BY <1>1, Zenon DEF NearBy, HasRoom, Behind, Ahead, Slack, Rate, HeldUp
<1>3. StampsOK /\ DelayWithin
  BY <1>2 DEF SteeredOK
<1>4. ~env.E2E_mode /\ ~Fault("leap") /\ ~Fault("state")
  BY <1>2, NearByFaults
<1>5. error \in Int /\ Now \in Int /\ env.path \in Int /\ env.path < Second
  BY <1>2, NearTypesHold, NearPath DEF NearTypes
<1>6. CASE handleSync(env.path) \/ handleSync(env.path + Late)
  <2>1. PICK way : handleSync(way)
    BY <1>6
  <2>2. offsetFromMaster'.seconds = 0
    BY DEF OnlySteered
  <2>3. UNCHANGED <<error, owd_filt>>
    BY <2>1, <2>2, OnlySteers DEF IInv, handleSync
  <2>4. UNCHANGED <<exchange, meanPathDelay>>
    BY <2>1 DEF handleSync
  <2> QED BY <1>1, <1>3, <2>3, <2>4 DEF StampsOK, DelayWithin
<1>7. CASE Ask
  <2>1. /\ UNCHANGED <<error, owd_filt, meanPathDelay>>
        /\ exchange' = [stage |-> "asked", t1 |-> OwnTime(error), t2 |-> Zero, t4 |-> Zero]
    BY <1>7, AskedExchange DEF Ask, clock, delay
  <2>2. Total(OwnTime(error)) = Now + error
    BY <1>5, TimeTotal DEF OwnTime
  <2>3. exchange'.stage = "asked" /\ exchange'.t1 = OwnTime(error)
    BY <2>1
  <2> QED BY <1>1, <1>3, <2>1, <2>2, <2>3 DEF StampsOK, DelayWithin
<1>8. CASE handlePDelayResp
  <2>1. UNCHANGED <<error, owd_filt, meanPathDelay>>
    BY <1>8 DEF handlePDelayResp, clock, delay
  <2>2. /\ exchange'.t1 = exchange.t1 /\ exchange'.t2 = Time(Now + env.path)
        /\ exchange'.t4 = OwnTime(error + env.path) /\ exchange.stage = "asked"
    BY <1>8 DEF handlePDelayResp, IInv, ExchangeOK
  <2>3. /\ Total(Time(Now + env.path)) = Now + env.path
        /\ Total(OwnTime(error + env.path)) = Now + (error + env.path)
    BY <1>5, TimeTotal DEF OwnTime
  <2>4. StampsOK'
    BY <1>1, <1>3, <2>1, <2>2, <2>3 DEF StampsOK
  <2> QED BY <1>1, <1>3, <2>1, <2>4 DEF DelayWithin
<1>9. CASE handlePDelayRespFollowUp
  BY <1>3, <1>5, <1>9, SteeredFollowUp
<1>10. CASE handleDelayResp
  BY <1>4, <1>10 DEF handleDelayResp
<1>11. CASE Interval
  <2>1. UNCHANGED <<exchange, owd_filt, meanPathDelay>> /\ exchange.stage = "none"
    BY <1>11 DEF Interval, delay
  <2> QED BY <1>1, <1>3, <2>1 DEF StampsOK, DelayWithin
<1>12. CASE LoseSync \/ UNCHANGED vars
  <2>1. UNCHANGED <<error, exchange, owd_filt, meanPathDelay>>
    BY <1>12 DEF LoseSync, vars, clock, delay
  <2> QED BY <1>1, <1>3, <2>1 DEF StampsOK, DelayWithin
<1>13. CASE LoseAnswer
  <2>1. UNCHANGED <<owd_filt, meanPathDelay>> /\ exchange'.stage = "none"
    BY <1>13 DEF LoseAnswer, NoExchange, delay
  <2> QED BY <1>1, <1>3, <2>1 DEF StampsOK, DelayWithin
<1>14. CASE MasterLeaps \/ toState
  BY <1>4, <1>14 DEF MasterLeaps, toState
<1> QED BY <1>6, <1>7, <1>8, <1>9, <1>10, <1>11, <1>12, <1>13, <1>14 DEF Next

(* The whole of the invariant: types, the schedule, what is measured and   *)
(* how far the clock gets                                                  *)
NearInv == IInv /\ ScheduleOK /\ SteeredOK /\ NearOK /\ OnlySteered

LEMMA NearInvariance == Spec => []NearInv
<1>1. Init => NearInv
  BY InvInit, ScheduleInit, SteeredInit, NearInit DEF NearInv
<1>2. NearInv /\ [Next]_vars => NearInv'
  <2> SUFFICES ASSUME NearInv, [Next]_vars PROVE NearInv'
    OBVIOUS
  <2>1. IInv' /\ ScheduleOK'
    BY InvNext, ScheduleNext DEF NearInv
  <2>2. NearOK' /\ OnlySteered'
    BY <2>1, NearNext DEF NearInv
  <2>3. SteeredOK'
    BY <2>1, <2>2, SteeredNext DEF NearInv
  <2> QED BY <2>1, <2>2, <2>3 DEF NearInv
<1> QED BY <1>1, <1>2, PTL DEF Spec

(* A slave nearby is never set: for all attenuations, rates, skews, paths  *)
(* and faults that leave it room in a second, and in the limit on the      *)
(* delay if there is one.                                                  *)
THEOREM NearbyOnlySteers == Spec => []OnlySteered
<1>1. NearInv => OnlySteered
  BY DEF NearInv
<1> QED BY <1>1, NearInvariance, PTL

(* Nor does it start to swing, although it is steered by offsets that are  *)
(* an interval old by half: it stays within where it began or where the    *)
(* full rate turns it.                                                     *)
THEOREM NearbyStaysNear == Spec => []StaysNear
<1>1. NearInv => StaysNear
  <2> SUFFICES ASSUME NearInv, NearBy PROVE error \in -Behind(env) .. Ahead(env)
    BY DEF StaysNear
  <2>1. NearTypes
    BY NearTypesHold DEF NearInv
  <2>2. Turned(1) /\ Turned(-1)
    BY DEF NearInv, NearOK
  <2> QED BY <2>1, <2>2, NearStays
<1> QED BY <1>1, NearInvariance, PTL

(* What the filter makes of the path is never negative and never more than *)
(* the path: for every stiffness, rate, loss and late Sync.                *)
THEOREM DelayStaysWithinPath == Spec => []DelayWithinPath
<1>1. NearInv => DelayWithinPath
  BY DEF NearInv, SteeredOK, DelayWithin, DelayWithinPath
<1> QED BY <1>1, NearInvariance, PTL

-----------------------------------------------------------------------------
(* That times fit.  How far the clock gets off is for the whole loop to    *)
(* say; if that and the path are never more than `reach', everything the   *)
(* peer mechanism and the servo keep is bounded by the time of day and a   *)
(* few times the reach.                                                    *)

Small(t, bound) == Abs(t.nanoseconds) < Second /\ Abs(Total(t)) <= bound

(* The first stamp is void or was taken with the clock within reach *)
StampsSmall(reach) ==
  /\ Total(exchange.t1) = 0 \/ Abs(Total(exchange.t1) - Now) + env.path <= reach
  /\ Small(exchange.t1, Now + reach)
  /\ Small(exchange.t2, Now + reach)
  /\ Small(exchange.t4, Now + reach)
  /\ exchange.stage = "answered" =>
       Abs((Total(exchange.t4) - Now) + (Total(exchange.t2) - Total(exchange.t1)))
         <= Now + 2 * reach

TimesSmall(reach) ==
  /\ Small(meanPathDelay, Now + 2 * reach + Second)
  /\ Small(delayMS, reach + Late)
  /\ Small(offsetFromMaster, Now + 3 * reach + Late + Second)

LEMMA SmallGrows ==
  ASSUME NEW t \in Times, NEW a \in Int, NEW b \in Int, Small(t, a), a <= b
  PROVE  Small(t, b)
<1>1. Abs(Total(t)) \in Int
  BY TotalType DEF Abs
<1> QED BY <1>1 DEF Small

LEMMA NormalizedSmall ==
  ASSUME NEW t \in Times, Normalized(t), NEW n \in Int, NEW bound \in Int,
         Total(t) = n, -bound <= n, n <= bound
  PROVE  Small(t, bound)
<1>1. Abs(Total(t)) <= bound
  BY DEF Abs
<1> QED BY <1>1 DEF Normalized, Small

LEMMA ZeroSmall ==
  ASSUME NEW bound \in Nat PROVE Small(Zero, bound)
BY SpansAssumption DEF Small, Zero, Total, Abs

LEMMA SmallFits ==
  ASSUME NEW t \in Times, NEW bound \in Int, Small(t, bound),
         bound <= (IntSpan \div 2 - 1) * Second
  PROVE  t \in TimeInternal
<1>1. PICK s : s = t.seconds
  OBVIOUS
<1>2. PICK n : n = t.nanoseconds
  OBVIOUS
<1>3. PICK half : half = IntSpan \div 2
  OBVIOUS
<1>4. /\ s \in Int /\ n \in Int /\ half \in Nat /\ Second \in Nat \ {0}
      /\ half >= 2 * Second
  BY <1>1, <1>2, <1>3, SpansAssumption DEF Times
<1>5. n < Second /\ -n < Second
  BY <1>2, <1>4 DEF Small, Abs
<1>6. s * Second + n <= (half - 1) * Second /\ -(s * Second + n) <= (half - 1) * Second
  <2>1. Total(t) = s * Second + n
    BY <1>1, <1>2 DEF Total
  <2>2. s * Second + n \in Int /\ (half - 1) * Second \in Int
    BY <1>4
  <2>3. Abs(s * Second + n) <= bound /\ bound <= (half - 1) * Second
    BY <1>3, <2>1 DEF Small
  <2> QED BY <2>2, <2>3 DEF Abs
<1>7. s < half
  <2> SUFFICES ASSUME s >= half PROVE FALSE
    BY <1>4
  <2>1. s * Second >= half * Second
    BY <1>4
  <2>2. (half - 1) * Second = half * Second - Second
    BY <1>4
  <2> QED BY <1>4, <1>5, <1>6, <2>1, <2>2
<1>8. s > -half
  <2> SUFFICES ASSUME s <= -half PROVE FALSE
    BY <1>4
  <2>1. s * Second <= (-half) * Second
    BY <1>4
  <2>2. (-half) * Second = -(half * Second) /\ (half - 1) * Second = half * Second - Second
    BY <1>4
  <2> QED BY <1>4, <1>5, <1>6, <2>1, <2>2
<1>9. s \in -half .. half - 1 /\ n \in -half .. half - 1
  BY <1>4, <1>5, <1>7, <1>8
<1>10. t = [seconds |-> s, nanoseconds |-> n]
  BY <1>1, <1>2 DEF Times
<1> QED BY <1>3, <1>9, <1>10 DEF TimeInternal, Integer32

(* Halving each field makes a normalised time no larger *)
LEMMA HalfSmall ==
  ASSUME NEW t \in Times, Normalized(t), NEW bound \in Int, Abs(Total(t)) <= bound
  PROVE  Half(t) \in Times /\ Small(Half(t), bound)
<1>1. PICK s : s = t.seconds
  OBVIOUS
<1>2. PICK n : n = t.nanoseconds
  OBVIOUS
<1>3. PICK p : p = Quot(s, 2)
  OBVIOUS
<1>4. PICK q : q = Quot(n, 2)
  OBVIOUS
<1>5. s \in Int /\ n \in Int /\ Second \in Nat \ {0}
  BY <1>1, <1>2, SpansAssumption DEF Times
<1>6. /\ n < Second /\ -n < Second
      /\ ~(s > 0 /\ n < 0) /\ ~(s < 0 /\ n > 0)
  BY <1>1, <1>2, <1>5 DEF Normalized, Abs
<1>7. Half(t) = [seconds |-> p, nanoseconds |-> q]
  BY <1>1, <1>2, <1>3, <1>4 DEF Half
<1>8. /\ p \in Int /\ (s >= 0 => 0 <= p /\ p * 2 <= s) /\ (s <= 0 => p <= 0 /\ p * 2 >= s)
      /\ q \in Int /\ (n >= 0 => 0 <= q /\ q * 2 <= n) /\ (n <= 0 => q <= 0 /\ q * 2 >= n)
  <2>1. \A x \in Int : /\ Quot(x, 2) \in Int
                       /\ x >= 0 => 0 <= Quot(x, 2) /\ Quot(x, 2) * 2 <= x
                       /\ x <= 0 => Quot(x, 2) <= 0 /\ Quot(x, 2) * 2 >= x
    BY QuotRounds
  <2> QED BY <1>3, <1>4, <1>5, <2>1
<1>9. /\ Total(Half(t)) = p * Second + q /\ Total(t) = s * Second + n
      /\ p * Second \in Int /\ s * Second \in Int
  BY <1>1, <1>2, <1>5, <1>7, <1>8 DEF Total
<1>10. s * Second + n <= bound /\ -(s * Second + n) <= bound
  BY <1>5, <1>9 DEF Abs
<1>11. p * Second + q <= bound /\ -(p * Second + q) <= bound
  <2>1. CASE s >= 0 /\ n >= 0
    <3>1. 0 <= p /\ p <= s /\ 0 <= q /\ q <= n
      BY <1>5, <1>8, <2>1
    <3>2. 0 <= p * Second /\ p * Second <= s * Second
      BY <1>5, <1>8, <3>1
    <3> QED BY <1>5, <1>8, <1>9, <1>10, <3>1, <3>2
  <2>2. CASE s <= 0 /\ n <= 0
    <3>1. p <= 0 /\ s <= p /\ q <= 0 /\ n <= q
      BY <1>5, <1>8, <2>2
    <3>2. p * Second <= 0 /\ s * Second <= p * Second
      BY <1>5, <1>8, <3>1
    <3> QED BY <1>5, <1>8, <1>9, <1>10, <3>1, <3>2
  <2> QED BY <1>5, <1>6, <2>1, <2>2
<1>12. q < Second /\ -q < Second
  BY <1>5, <1>6, <1>8
<1>13. Half(t) \in Times /\ Half(t).nanoseconds = q
  BY <1>7, <1>8 DEF Times
<1> QED BY <1>5, <1>8, <1>9, <1>11, <1>12, <1>13 DEF Small, Abs

BoundsOK(reach) == StampsSmall(reach) /\ TimesSmall(reach)

WithinReach(reach) == ~env.E2E_mode /\ Abs(error) + env.path <= reach

LEMMA ReachTypes ==
  ASSUME IInv, NEW reach \in Int, WithinReach(reach)
  PROVE  /\ error \in Int /\ env.path \in Nat /\ Late \in Nat /\ Now \in Nat
         /\ Second \in Nat \ {0} /\ reach \in Nat
         /\ -reach <= error /\ error <= reach
         /\ error + env.path <= reach /\ env.path - error <= reach
<1>1. error \in Int /\ env.path \in Nat /\ Late \in Nat /\ Now \in Nat /\ Second \in Nat \ {0}
  BY EnvTypes, SpansAssumption DEF IInv, RatesOK
<1>2. Abs(error) + env.path <= reach
  BY DEF WithinReach
<1> QED BY <1>1, <1>2 DEF Abs

LEMMA BoundsInit ==
  ASSUME NEW reach \in Nat
  PROVE  Init => BoundsOK(reach)
<1> SUFFICES ASSUME Init PROVE BoundsOK(reach)
  OBVIOUS
<1>1. Now \in Nat /\ Late \in Nat /\ Second \in Nat
  BY ServoAssumption, SpansAssumption
<1>2. /\ Small(Zero, Now + reach)
      /\ Small(Zero, Now + 2 * reach + Second) /\ Small(Zero, reach + Late)
      /\ Small(Zero, Now + 3 * reach + Late + Second)
  BY <1>1, ZeroSmall
<1>3. /\ exchange.stage = "none" /\ exchange.t1 = Zero
      /\ exchange.t2 = Zero /\ exchange.t4 = Zero
  BY DEF Init, NoExchange
<1>4. meanPathDelay = Zero /\ delayMS = Zero /\ offsetFromMaster = Zero
  BY DEF Init
<1>5. Total(Zero) = 0
  BY <1>1 DEF Zero, Total
<1> QED BY <1>2, <1>3, <1>4, <1>5 DEF BoundsOK, StampsSmall, TimesSmall

LEMMA TimeSmall ==
  ASSUME NEW n \in Int, NEW bound \in Int, -bound <= n, n <= bound
  PROVE  Small(Time(n), bound)
BY TimeTotal, NormalizedSmall

(* A Sync that took at most `Late' longer *)
LEMMA BoundsSync ==
  ASSUME IInv, IInv', NEW reach \in Int, WithinReach(reach), BoundsOK(reach),
         NEW way \in Int, 0 <= way, way <= env.path + Late, handleSync(way)
  PROVE  BoundsOK(reach)'
<1>1. /\ error \in Int /\ env.path \in Nat /\ Late \in Nat /\ Now \in Nat
      /\ Second \in Nat \ {0} /\ reach \in Nat
      /\ -reach <= error /\ error <= reach
      /\ error + env.path <= reach /\ env.path - error <= reach
  BY ReachTypes
<1>2. StampsSmall(reach)'
  BY DEF handleSync, BoundsOK, StampsSmall
<1>3. PICK received : received = OwnTime(error + way)
  OBVIOUS
<1>4. updateOffset(received)
  BY <1>3 DEF handleSync
<1>5. PICK took : took = subTime(received, MasterTime)
  OBVIOUS
<1>6. took \in Times /\ Normalized(took) /\ Total(took) = error + way
  <2>1. received \in Times /\ Total(received) = Now + (error + way)
    BY <1>1, <1>3, TimeTotal DEF OwnTime
  <2>2. MasterTime \in Times /\ Total(MasterTime) = Now
    BY <1>1, TimeTotal DEF MasterTime
  <2>3. took \in Times /\ Normalized(took) /\ Total(took) = Total(received) - Total(MasterTime)
    BY <1>5, <2>1, <2>2, SubTimeCorrect
  <2> QED BY <1>1, <2>1, <2>2, <2>3
<1>7. Small(took, reach + Late)
  <2>1. error + way \in Int /\ reach + Late \in Int
        /\ -(reach + Late) <= error + way /\ error + way <= reach + Late
    BY <1>1
  <2> QED BY <1>6, <2>1, NormalizedSmall
<1>8. Small(delayMS', reach + Late)
  BY <1>4, <1>5, <1>7 DEF updateOffset, offset, BoundsOK, TimesSmall
<1>9. PICK delayed : delayed = Total(meanPathDelay)
  OBVIOUS
<1>10. /\ delayed \in Int /\ delayed <= Now + 2 * reach + Second
       /\ -delayed <= Now + 2 * reach + Second
  <2>1. delayed \in Int
    BY <1>9, TotalType DEF IInv, DelayOK
  <2>2. Abs(delayed) <= Now + 2 * reach + Second
    BY <1>9 DEF BoundsOK, TimesSmall, Small
  <2> QED BY <1>1, <2>1, <2>2 DEF Abs
<1>11. PICK bound : bound = Now + 3 * reach + Late + Second
  OBVIOUS
<1>12. Small(offsetFromMaster', bound)
  <2>1. CASE TooLong(took)
    <3>1. offsetFromMaster' = offsetFromMaster
      BY <1>4, <1>5, <2>1 DEF updateOffset, offset
    <3> QED BY <1>11, <3>1 DEF BoundsOK, TimesSmall
  <2>2. CASE ~TooLong(took)
    <3>1. PICK raw : raw = RawOffset(received)
      OBVIOUS
    <3>2. /\ raw \in Times /\ Normalized(raw)
          /\ Total(raw) = error + way - Total(meanPathDelay)
      BY <1>3, <3>1, RawOffsetTotal DEF IInv
    <3>3. CASE raw.seconds # 0
      <4>1. offsetFromMaster' = raw
        BY <1>4, <1>5, <2>2, <3>1, <3>3 DEF updateOffset
      <4>2. /\ error + way - delayed \in Int /\ bound \in Int
            /\ -bound <= error + way - delayed /\ error + way - delayed <= bound
        BY <1>1, <1>10, <1>11
      <4>3. Total(raw) = error + way - delayed
        BY <1>9, <3>2
      <4> QED BY <3>2, <4>1, <4>2, <4>3, NormalizedSmall
    <3>4. CASE raw.seconds = 0
      <4>1. offsetFromMaster'.seconds = 0
        BY <1>4, <1>5, <2>2, <3>1, <3>2, <3>4 DEF updateOffset, Times
      <4>2. /\ offsetFromMaster'.nanoseconds \in Int
            /\ Abs(offsetFromMaster'.nanoseconds) < Second
        BY DEF IInv, OffsetOK, Times, Normalized
      <4>3. Total(offsetFromMaster') = offsetFromMaster'.nanoseconds
        BY <1>1, <4>1, <4>2 DEF Total
      <4>4. Abs(offsetFromMaster'.nanoseconds) <= bound
        BY <1>1, <1>11, <4>2 DEF Abs
      <4> QED BY <4>2, <4>3, <4>4 DEF Small
    <3> QED BY <3>2, <3>3, <3>4
  <2> QED BY <2>1, <2>2
<1>13. UNCHANGED <<meanPathDelay, env>>
  BY DEF handleSync
<1> QED BY <1>2, <1>8, <1>11, <1>12, <1>13 DEF BoundsOK, TimesSmall

(* What the peer mechanism measures, of stamps that may have been voided *)
LEMMA BoundsFollowUp ==
  ASSUME IInv, IInv', NEW reach \in Int, WithinReach(reach), BoundsOK(reach),
         handlePDelayRespFollowUp
  PROVE  BoundsOK(reach)'
<1>1. /\ error \in Int /\ env.path \in Nat /\ Late \in Nat /\ Now \in Nat
      /\ Second \in Nat \ {0} /\ reach \in Nat
  BY ReachTypes
<1>2. PICK there : there = subTime(exchange.t2, exchange.t1)
  OBVIOUS
<1>3. PICK back : back = subTime(exchange.t4, MasterTime)
  OBVIOUS
<1>4. exchange.t1 \in Times /\ exchange.t2 \in Times /\ exchange.t4 \in Times
  BY DEF IInv, ExchangeOK
<1>5. there \in Times /\ Total(there) = Total(exchange.t2) - Total(exchange.t1)
  BY <1>2, <1>4, SubTimeCorrect
<1>6. back \in Times /\ Total(back) = Total(exchange.t4) - Now
  BY <1>1, <1>3, <1>4, SubTimeCorrect, TimeTotal DEF MasterTime
<1>7. PICK sum : sum = addTime(back, there)
  OBVIOUS
<1>8. sum \in Times /\ Normalized(sum) /\ Total(sum) = Total(back) + Total(there)
  BY <1>5, <1>6, <1>7, AddTimeCorrect
<1>9. Abs(Total(sum)) <= Now + 2 * reach
  <2>1. Total(sum) = (Total(exchange.t4) - Now) + (Total(exchange.t2) - Total(exchange.t1))
    BY <1>5, <1>6, <1>8
  <2>2. exchange.stage = "answered"
    BY DEF handlePDelayRespFollowUp
  <2> QED BY <2>1, <2>2 DEF BoundsOK, StampsSmall
<1>10. PICK t : t = Half(sum)
  OBVIOUS
<1>11. t \in Times /\ Small(t, Now + 2 * reach)
  BY <1>1, <1>8, <1>9, <1>10, HalfSmall
<1>12. NewDelay(t)
  BY <1>2, <1>3, <1>7, <1>10 DEF handlePDelayRespFollowUp, updatePeerDelay
<1>13. Small(meanPathDelay', Now + 2 * reach + Second)
  <2>1. CASE t.seconds # 0
    <3>1. meanPathDelay' = t
      BY <1>12, <2>1 DEF NewDelay
    <3> QED BY <1>1, <1>11, <3>1, SmallGrows
  <2>2. CASE t.seconds = 0
    <3>1. meanPathDelay' = [t EXCEPT !.nanoseconds = owd_filt'.y]
      BY <1>12, <2>2 DEF NewDelay
    <3>2. owd_filt'.y \in Int /\ Abs(owd_filt'.y) < Second
      BY DEF IInv, DelayOK, FilterOK
    <3>3. meanPathDelay'.seconds = 0 /\ meanPathDelay'.nanoseconds = owd_filt'.y
      BY <1>11, <2>2, <3>1 DEF Times
    <3>4. Total(meanPathDelay') = owd_filt'.y
      BY <1>1, <3>2, <3>3 DEF Total
    <3>5. Abs(owd_filt'.y) <= Now + 2 * reach + Second
      BY <1>1, <3>2 DEF Abs
    <3> QED BY <3>2, <3>3, <3>4, <3>5 DEF Small
  <2> QED BY <2>1, <2>2
<1>14. StampsSmall(reach)'
  <2>1. /\ exchange'.stage = "none" /\ exchange'.t1 = Zero
        /\ exchange'.t2 = Zero /\ exchange'.t4 = Zero
    BY DEF handlePDelayRespFollowUp, NoExchange
  <2>2. Small(Zero, Now + reach) /\ Total(Zero) = 0
    BY <1>1, ZeroSmall DEF Zero, Total
  <2> QED BY <2>1, <2>2 DEF StampsSmall
<1>15. UNCHANGED <<delayMS, offsetFromMaster>>
  BY DEF handlePDelayRespFollowUp, offset
<1> QED BY <1>13, <1>14, <1>15 DEF BoundsOK, TimesSmall

LEMMA BoundsAsk ==
  ASSUME IInv, NEW reach \in Int, WithinReach(reach), BoundsOK(reach), Ask
  PROVE  StampsSmall(reach)'
<1>1. /\ error \in Int /\ env.path \in Nat /\ Now \in Nat /\ reach \in Nat
      /\ -reach <= error /\ error <= reach
  BY ReachTypes
<1>2. exchange' = [stage |-> "asked", t1 |-> OwnTime(error), t2 |-> Zero, t4 |-> Zero]
  BY AskedExchange DEF Ask
<1>3. /\ exchange'.stage = "asked" /\ exchange'.t1 = OwnTime(error)
      /\ exchange'.t2 = Zero /\ exchange'.t4 = Zero
  BY <1>2
<1>4. Total(OwnTime(error)) = Now + error
  BY <1>1, TimeTotal DEF OwnTime
<1>5. (Now + error) - Now = error
  BY <1>1
<1>6. Abs(Total(OwnTime(error)) - Now) + env.path <= reach
  BY <1>4, <1>5 DEF WithinReach
<1>7. Small(OwnTime(error), Now + reach)
  <2>1. Now + error \in Int /\ Now + reach \in Int
        /\ -(Now + reach) <= Now + error /\ Now + error <= Now + reach
    BY <1>1
  <2> QED BY <2>1, TimeSmall DEF OwnTime
<1>8. Small(Zero, Now + reach)
  BY <1>1, ZeroSmall
<1>9. env' = env
  BY DEF Ask
<1> QED BY <1>3, <1>6, <1>7, <1>8, <1>9 DEF StampsSmall

LEMMA BoundsAnswer ==
  ASSUME IInv, NEW reach \in Int, WithinReach(reach), BoundsOK(reach),
         handlePDelayResp
  PROVE  StampsSmall(reach)'
<1>1. /\ error \in Int /\ env.path \in Nat /\ Now \in Nat /\ reach \in Nat
      /\ -reach <= error /\ error <= reach
      /\ error + env.path <= reach /\ env.path - error <= reach
  BY ReachTypes
<1>2. /\ exchange'.t1 = exchange.t1 /\ exchange'.t2 = Time(Now + env.path)
      /\ exchange'.t4 = OwnTime(error + env.path)
  BY DEF handlePDelayResp, IInv, ExchangeOK
<1>3. PICK n : n = Total(exchange.t1)
  OBVIOUS
<1>4. n \in Int
  BY <1>3, TotalType DEF IInv, ExchangeOK
<1>5. /\ Total(Time(Now + env.path)) = Now + env.path
      /\ Total(OwnTime(error + env.path)) = Now + (error + env.path)
  BY <1>1, TimeTotal DEF OwnTime
<1>6. Small(Time(Now + env.path), Now + reach)
  <2>1. Now + env.path \in Int /\ Now + reach \in Int
        /\ -(Now + reach) <= Now + env.path /\ Now + env.path <= Now + reach
    BY <1>1
  <2> QED BY <2>1, TimeSmall
<1>7. Small(OwnTime(error + env.path), Now + reach)
  <2>1. Now + (error + env.path) \in Int /\ Now + reach \in Int
        /\ -(Now + reach) <= Now + (error + env.path)
        /\ Now + (error + env.path) <= Now + reach
    BY <1>1
  <2> QED BY <2>1, TimeSmall DEF OwnTime
<1>8. n = 0 \/ Abs(n - Now) + env.path <= reach
  BY <1>3 DEF BoundsOK, StampsSmall
<1>9. Abs(((Now + (error + env.path)) - Now) + ((Now + env.path) - n)) <= Now + 2 * reach
  <2>1. CASE n = 0
    BY <1>1, <2>1 DEF Abs
  <2>2. CASE Abs(n - Now) + env.path <= reach
    <3>1. n - Now + env.path <= reach /\ Now - n + env.path <= reach
      BY <1>1, <1>4, <2>2 DEF Abs
    <3> QED BY <1>1, <1>4, <3>1 DEF Abs
  <2> QED BY <1>8, <2>1, <2>2
<1>10. env' = env
  BY DEF handlePDelayResp
<1>11. Small(exchange.t1, Now + reach)
  BY DEF BoundsOK, StampsSmall
<1> QED BY <1>2, <1>3, <1>5, <1>6, <1>7, <1>8, <1>9, <1>10, <1>11 DEF StampsSmall

(* An exchange that is given up, or voided *)
LEMMA VoidStamps ==
  ASSUME NEW reach \in Nat, Total(exchange'.t1) = 0, exchange'.t1 = Zero,
         exchange'.t2 = Zero, exchange'.t4 = Zero
  PROVE  StampsSmall(reach)'
<1>1. Now \in Nat
  BY ServoAssumption
<1>2. Small(Zero, Now + reach)
  BY <1>1, ZeroSmall
<1>3. Abs((0 - Now) + (0 - 0)) <= Now + 2 * reach
  BY <1>1 DEF Abs
<1>4. Total(Zero) = 0
  BY SpansAssumption DEF Zero, Total
<1> QED BY <1>2, <1>3, <1>4 DEF StampsSmall

LEMMA BoundsNext ==
  ASSUME NEW reach \in Nat
  PROVE  IInv /\ IInv' /\ WithinReach(reach) /\ BoundsOK(reach) /\ [Next]_vars
           => BoundsOK(reach)'
<1> SUFFICES ASSUME IInv, IInv', WithinReach(reach), BoundsOK(reach), [Next]_vars
             PROVE  BoundsOK(reach)'
  OBVIOUS
<1>1. reach \in Int /\ env.path \in Nat /\ Late \in Nat /\ Now \in Nat /\ Second \in Nat
  BY ReachTypes
<1>2. Total(Zero) = 0
  BY <1>1 DEF Zero, Total
<1>3. CASE handleSync(env.path) \/ handleSync(env.path + Late)
  <2>1. PICK way \in {env.path, env.path + Late} : handleSync(way)
    BY <1>3
  <2>2. way \in Int /\ 0 <= way /\ way <= env.path + Late
    BY <1>1
  <2> QED BY <1>1, <2>1, <2>2, BoundsSync
<1>4. CASE Ask
  <2>1. StampsSmall(reach)'
    BY <1>1, <1>4, BoundsAsk
  <2> QED BY <1>4, <2>1 DEF Ask, delay, offset, BoundsOK, TimesSmall
<1>5. CASE handlePDelayResp
  <2>1. StampsSmall(reach)'
    BY <1>1, <1>5, BoundsAnswer
  <2> QED BY <1>5, <2>1 DEF handlePDelayResp, delay, offset, BoundsOK, TimesSmall
<1>6. CASE handlePDelayRespFollowUp
  BY <1>1, <1>6, BoundsFollowUp
<1>7. CASE handleDelayResp
  BY <1>7 DEF handleDelayResp, WithinReach
<1>8. CASE Interval \/ LoseSync \/ MasterLeaps \/ UNCHANGED vars
  <2>1. UNCHANGED <<exchange, env, meanPathDelay, delayMS, offsetFromMaster>>
    BY <1>8 DEF Interval, LoseSync, MasterLeaps, vars, delay, offset
  <2> QED BY <2>1 DEF BoundsOK, StampsSmall, TimesSmall
<1>9. CASE LoseAnswer
  <2>1. exchange'.t1 = Zero /\ exchange'.t2 = Zero /\ exchange'.t4 = Zero
    BY <1>9 DEF LoseAnswer, NoExchange
  <2>2. StampsSmall(reach)'
    BY <1>2, <2>1, VoidStamps
  <2> QED BY <1>9, <2>2 DEF LoseAnswer, delay, offset, BoundsOK, TimesSmall
<1>10. CASE toState
  <2>1. exchange' = [NoExchange EXCEPT !.stage = exchange.stage]
    BY <1>10 DEF toState, WithinReach
  <2>2. exchange'.t1 = Zero /\ exchange'.t2 = Zero /\ exchange'.t4 = Zero
    BY <2>1 DEF NoExchange
  <2>3. StampsSmall(reach)'
    BY <1>2, <2>2, VoidStamps
  <2>4. /\ offsetFromMaster' \in {offsetFromMaster, Zero}
        /\ meanPathDelay' \in {meanPathDelay, Zero} /\ delayMS' = delayMS
    BY <1>10 DEF toState, m1, initData
  <2>5. /\ Small(Zero, Now + 2 * reach + Second)
        /\ Small(Zero, Now + 3 * reach + Late + Second)
    BY <1>1, ZeroSmall
  <2> QED BY <2>3, <2>4, <2>5 DEF BoundsOK, TimesSmall
<1> QED BY <1>3, <1>4, <1>5, <1>6, <1>7, <1>8, <1>9, <1>10 DEF Next

LEMMA BoundsFit ==
  ASSUME IInv, NEW reach \in Nat, WithinReach(reach), BoundsOK(reach),
         Now + 3 * reach + Late + Second <= (IntSpan \div 2 - 1) * Second
  PROVE  TimesFit
<1>1. Now \in Nat /\ Late \in Nat /\ Second \in Nat
  BY ServoAssumption, SpansAssumption
<1>2. PICK room : room = (IntSpan \div 2 - 1) * Second
  OBVIOUS
<1>3. room \in Int
  <2>1. IntSpan \div 2 \in Int
    BY SpansAssumption
  <2> QED BY <1>1, <1>2, <2>1
<1>4. /\ Now + reach <= room /\ Now + 2 * reach + Second <= room
      /\ reach + Late <= room /\ Now + 3 * reach + Late + Second <= room
  BY <1>1, <1>2, <1>3
<1>5. /\ exchange.t1 \in Times /\ exchange.t2 \in Times /\ exchange.t4 \in Times
      /\ meanPathDelay \in Times /\ delayMS \in Times /\ offsetFromMaster \in Times
  BY DEF IInv, ExchangeOK, DelayOK, OffsetOK
<1>6. \A t \in Times, bound \in Int : Small(t, bound) /\ bound <= room => t \in TimeInternal
  BY <1>2, SmallFits
<1>7. /\ Now + reach \in Int /\ Now + 2 * reach + Second \in Int
      /\ reach + Late \in Int /\ Now + 3 * reach + Late + Second \in Int
  BY <1>1
<1>8. /\ exchange.t1 \in TimeInternal /\ exchange.t2 \in TimeInternal
      /\ exchange.t4 \in TimeInternal
  BY <1>4, <1>5, <1>6, <1>7 DEF BoundsOK, StampsSmall
<1>9. /\ meanPathDelay \in TimeInternal /\ delayMS \in TimeInternal
      /\ offsetFromMaster \in TimeInternal
  BY <1>4, <1>5, <1>6, <1>7 DEF BoundsOK, TimesSmall
<1>10. OwnTime(error) \in TimeInternal
  <2>1. error \in Int /\ -reach <= error /\ error <= reach
    BY ReachTypes
  <2>2. Now + error \in Int /\ -(Now + reach) <= Now + error /\ Now + error <= Now + reach
    BY <1>1, <2>1
  <2>3. Small(Time(Now + error), Now + reach)
    BY <1>7, <2>2, TimeSmall
  <2>4. Time(Now + error) \in Times
    BY <2>2, TimeTotal
  <2> QED BY <1>4, <1>6, <1>7, <2>3, <2>4 DEF OwnTime
<1> QED BY <1>8, <1>9, <1>10 DEF TimesFit

(* On the peer mechanism and as long as the clock is not off by more than  *)
(* `reach', the path included, its time and every time the port keeps fit  *)
(* their integers until the time of day comes within a few times the reach *)
(* of their end.                                                           *)
THEOREM TimesFitWithinReach ==
  ASSUME NEW reach \in Nat,
         Now + 3 * reach + Late + Second <= (IntSpan \div 2 - 1) * Second
  PROVE  Spec /\ []WithinReach(reach) => []TimesFit
<1>1. IInv /\ WithinReach(reach) /\ BoundsOK(reach) => TimesFit
  BY BoundsFit
<1>2. Init => BoundsOK(reach)
  BY BoundsInit
<1>3. IInv /\ IInv' /\ WithinReach(reach) /\ BoundsOK(reach) /\ [Next]_vars
        => BoundsOK(reach)'
  BY BoundsNext
<1> QED BY <1>1, <1>2, <1>3, Invariance, PTL DEF Spec

(* A slave nearby is within two seconds, the path included, so that its    *)
(* times fit until the time of day comes within seven seconds of its end,  *)
(* whatever is lost or late.                                               *)
THEOREM TimesFitNearby ==
  ASSUME Now + 7 * Second + Late <= (IntSpan \div 2 - 1) * Second
  PROVE  Spec => [](NearBy => TimesFit)
<1> DEFINE reach == 2 * Second
           Bounded == NearBy => BoundsOK(reach)
<1>1. reach \in Nat /\ Now \in Nat /\ Late \in Nat /\ Second \in Nat
  BY SpansAssumption, ServoAssumption
<1>2. Now + 3 * reach + Late + Second <= (IntSpan \div 2 - 1) * Second
  <2>1. Now + 3 * reach + Late + Second = Now + 7 * Second + Late
    BY <1>1
  <2> QED BY <2>1
<1> HIDE DEF reach
<1>3. NearInv /\ NearBy => WithinReach(reach)
  <2> SUFFICES ASSUME NearInv, NearBy PROVE WithinReach(reach)
    OBVIOUS
  <2>1. NearTypes
    BY NearTypesHold DEF NearInv
  <2>2. /\ error \in -Behind(env) .. Ahead(env)
        /\ Behind(env) \in Int /\ Ahead(env) \in Int
    BY <2>1, NearStays DEF NearInv, NearOK
  <2>3. HasRoom(env) /\ ~env.E2E_mode
    BY NearByFaults
  <2>4. /\ env.path \in Nat /\ HeldUp(env) \in Nat /\ Second \in Nat /\ error \in Int
        /\ env.path < Second
    BY <2>1, NearPath DEF NearTypes
  <2>5. env.maxDelay \in Nat
    BY CircumstancesAssumption DEF NearInv, IInv, ExchangeOK, Circumstance
  <2>6. Behind(env) < Second /\ Ahead(env) + env.path < Second
    BY <2>2, <2>3, <2>4, <2>5 DEF HasRoom
  <2>7. Abs(error) < Second
    BY <2>2, <2>4, <2>6 DEF Abs
  <2>8. Abs(error) \in Int
    BY <2>4 DEF Abs
  <2> QED BY <2>3, <2>4, <2>7, <2>8 DEF WithinReach, reach
<1>4. Init => Bounded
  BY <1>1, BoundsInit
<1>5. NearInv /\ NearInv' /\ Bounded /\ [Next]_vars => Bounded'
  <2> SUFFICES ASSUME NearInv, NearInv', Bounded, [Next]_vars, NearBy'
               PROVE  BoundsOK(reach)'
    OBVIOUS
  <2>1. NearBy
    BY EnvFixed, Zenon DEF NearBy, HasRoom, Behind, Ahead, Slack, Rate, HeldUp
  <2>2. WithinReach(reach) /\ BoundsOK(reach) /\ IInv /\ IInv'
    BY <1>3, <2>1 DEF NearInv
  <2> QED BY <1>1, <2>2, BoundsNext
<1>6. NearInv /\ Bounded => (NearBy => TimesFit)
  BY <1>1, <1>2, <1>3, BoundsFit DEF NearInv
<1> HIDE DEF Bounded
<1> QED BY <1>4, <1>5, <1>6, NearInvariance, PTL DEF Spec
=============================================================================
