-------------------------------- MODULE Servo --------------------------------
(***************************************************************************)
(* servo.cc in the loop with the clock it adjusts: a slave, how far its    *)
(* clock is ahead of its master's (`error'), and how fast it is set to     *)
(* gain (`freq').  One Sync comes per interval of a second, the shipped    *)
(* one, so that a rate in ppb is nanoseconds per Sync.                     *)
(*                                                                         *)
(* The delay of the path is measured by the two-way exchange of the peer   *)
(* delay mechanism or, with E2E_mode, of DelayReq and DelayResp.  The      *)
(* exchange and the Sync of an interval take no time, but come in any      *)
(* order: what is stamped before the clock is set may be used after it.    *)
(* The master's time of day is a constant, Now; only its size matters.     *)
(*                                                                         *)
(* Options are as shipped: adjust the clock without limit, and step it if  *)
(* the offset has seconds (DEFAULT_CLOCK_STEP_LIMIT).                      *)
(***************************************************************************)
EXTENDS TimeArith

CONSTANTS
  Microsecond,     \* in nanoseconds: setTime drops what is less
  ADJ_FREQ_MAX,
  ap, ai,          \* DEFAULT_AP, DEFAULT_AI: attenuations of the controller
  stiffness,       \* DEFAULT_DELAY_S: of the delay filter
  IntBits,         \* an Integer32 without its sign: 31
  Now,             \* the time of day, in nanoseconds
  Late,            \* what a Sync may be held up on the way
  Leap,            \* by how much the time of the master changes
  MaxFaults,       \* bound: faults of a behaviour
  Circumstances    \* see Circumstance

(* What does not change.  ahead: the error to begin with.  skew: what the  *)
(* clock gains by itself per interval.  path: the delay.  every: Syncs     *)
(* from one measurement of the delay to the next, 2 or 8 as shipped.       *)
(* maxDelay: DEFAULT_DELAY_LIMIT, 0 for none.  hits: the faults it meets.  *)
Circumstance ==
  [E2E_mode : BOOLEAN, maxDelay : Nat, every : Nat \ {0}, skew : Int,
   path : Nat, ahead : Int,
   hits : SUBSET {"Sync lost", "Sync late", "answer lost", "leap", "state"}]

ASSUME CircumstancesAssumption == Circumstances \subseteq Circumstance
ASSUME ServoAssumption ==
  /\ Microsecond \in Nat \ {0} /\ ADJ_FREQ_MAX \in Nat
  /\ ap \in Nat \ {0} /\ ai \in Nat \ {0}
  /\ stiffness \in 0 .. IntBits /\ IntBits \in Nat
  /\ Now \in Nat /\ Late \in Nat /\ Leap \in Int /\ MaxFaults \in Nat

(* IntSpan = 2 ^ (IntBits + 1), in the terms of the shifts of the filter *)
ASSUME PowersAssumption ==
  /\ 2 ^ 0 = 1
  /\ \A s \in 0 .. IntBits :
       2 ^ s \in Nat \ {0} /\ 2 * (2 ^ s * 2 ^ (IntBits - s)) = IntSpan

VARIABLES
  error, freq,               \* the clock
  observed_drift,
  offsetFromMaster, ofm_filt,
  meanPathDelay, owd_filt,   \* peerMeanPathDelay, unless E2E_mode
  delayMS, offset_first_updated,
  exchange,                  \* the time stamps of the exchange, and its stage
  syncDue, askDue,           \* what is to happen in this interval
  turn,                      \* intervals since the last exchange was due
  faults,
  env                        \* fixed, see Circumstances

clock    == <<error, freq>>
offset   == <<offsetFromMaster, ofm_filt, delayMS, offset_first_updated>>
delay    == <<meanPathDelay, owd_filt>>
schedule == <<syncDue, askDue, turn>>
vars     == <<clock, observed_drift, offset, delay, exchange, schedule,
              faults, env>>

(* A time of day, or any number of nanoseconds, as the program has it *)
Time(n) == normalizeTime([seconds |-> 0, nanoseconds |-> n])

MasterTime == Time(Now)
OwnTime(n) == Time(Now + n)   \* of a clock that is n ahead

NoExchange == [stage |-> "none", t1 |-> Zero, t2 |-> Zero, t4 |-> Zero]

Init ==
  /\ env \in Circumstances
  /\ error = env.ahead /\ freq = 0
  /\ observed_drift = 0
  /\ offsetFromMaster = Zero /\ ofm_filt = 0
  /\ meanPathDelay = Zero
  /\ owd_filt = [y |-> 0, nsec_prev |-> 0, s_exp |-> 0]
  /\ delayMS = Zero /\ offset_first_updated = FALSE
  /\ exchange = NoExchange
  /\ syncDue = TRUE /\ askDue = TRUE /\ turn = 0
  /\ faults = 0

-----------------------------------------------------------------------------
(* The clock *)

Clamp(x) ==
  IF x > ADJ_FREQ_MAX THEN ADJ_FREQ_MAX
  ELSE IF x < -ADJ_FREQ_MAX THEN -ADJ_FREQ_MAX ELSE x

(* Mutant: the caller's minus sign is taken for a correction of its own *)
adjFreq_against(adj) == freq' = Clamp(-adj)

adjFreq(adj) == freq' = Clamp(adj)

(* t.freq counts 2^-16 ppm, and (1 << 16) / 1000 is 65, not 65.536: for a  *)
(* small adj the clock gains that many nanoseconds or one less.            *)
Gain == {freq, IF freq > 0 THEN freq - 1 ELSE IF freq < 0 THEN freq + 1 ELSE 0}

(* setTime, from a time of day whose microseconds are anywhere *)
setTime(n) == \E rest \in 0 .. Microsecond - 1 : error' = n - rest

(* The clock keeps the rate it has learnt *)
initClock ==
  /\ owd_filt' = [owd_filt EXCEPT !.s_exp = 0]
  /\ adjFreq(-observed_drift)

-----------------------------------------------------------------------------
(* A Sync that took `way' on the way *)

TooLong(t) ==
  env.maxDelay # 0 /\ (t.seconds # 0 \/ t.nanoseconds > env.maxDelay)

(* Mutant: the delay is left out *)
RawOffset_undelayed(received) == subTime(received, MasterTime)

RawOffset(received) == subTime(subTime(received, MasterTime), meanPathDelay)

Average(x, y) == Quot(x, 2) + Quot(y, 2)

(* Without a new offset the old one stays, for updateClock to use again *)
updateOffset(received) ==
  IF TooLong(subTime(received, MasterTime))
  THEN UNCHANGED offset
  ELSE LET raw == RawOffset(received)
       IN  /\ delayMS' = subTime(received, MasterTime)
           /\ IF raw.seconds # 0
              THEN /\ offsetFromMaster' = raw
                   /\ ofm_filt' = 0
                   /\ UNCHANGED offset_first_updated
              ELSE /\ offsetFromMaster' =
                        [raw EXCEPT !.nanoseconds = Average(@, ofm_filt)]
                   /\ ofm_filt' = raw.nanoseconds
                   /\ offset_first_updated' = TRUE

(* Mutant: the offset is added *)
SetBack_added == error + Total(offsetFromMaster')

SetBack == error - Total(offsetFromMaster')

StepClock ==
  /\ offsetFromMaster'.seconds # 0 \/ Abs(offsetFromMaster'.nanoseconds) > Second
  /\ setTime(SetBack)
  /\ initClock
  /\ UNCHANGED observed_drift

(* Mutant: the accumulator is not clamped *)
Accumulated_unclamped ==
  observed_drift + Quot(offsetFromMaster'.nanoseconds, ai)

(* Mutant: it does not accumulate *)
Accumulated_anew == Clamp(Quot(offsetFromMaster'.nanoseconds, ai))

Accumulated == Clamp(observed_drift + Quot(offsetFromMaster'.nanoseconds, ai))

SteerClock ==
  /\ offsetFromMaster'.seconds = 0 /\ Abs(offsetFromMaster'.nanoseconds) <= Second
  /\ observed_drift' = Accumulated
  /\ adjFreq(-(Quot(offsetFromMaster'.nanoseconds, ap) + observed_drift'))
  /\ UNCHANGED <<error, owd_filt>>

updateClock == StepClock \/ SteerClock

handleSync(way) ==
  /\ syncDue
  /\ updateOffset(OwnTime(error + way))
  /\ updateClock
  /\ syncDue' = FALSE
  /\ UNCHANGED <<meanPathDelay, exchange, askDue, turn, env>>

-----------------------------------------------------------------------------
(* The delay *)

(* Mutant: the stiffness, however large y is *)
Cutoff_fixed(y) == 2 ^ stiffness

(* How far s_exp may go: less than 2 ^ stiffness if y is large *)
Cutoff(y) ==
  2 ^ (CHOOSE s \in 0 .. stiffness :
         /\ Abs(y) < 2 ^ (IntBits - s)
         /\ \A r \in s + 1 .. stiffness : Abs(y) >= 2 ^ (IntBits - r))

Sharpened(filt) ==
  LET top == Cutoff(filt.y)
  IN  IF filt.s_exp < 1 THEN 1
      ELSE IF filt.s_exp < top THEN filt.s_exp + 1
      ELSE IF filt.s_exp > top THEN top ELSE filt.s_exp

(* Mutant: the old value has the weight of one more *)
Filtered_weight(filt, n) ==
  LET e == Sharpened(filt)
  IN  [s_exp |-> e, nsec_prev |-> n,
       y |-> filt.y + Quot(Average(n, filt.nsec_prev), e)]

Filtered(filt, n) ==
  LET e == Sharpened(filt)
  IN  [s_exp |-> e, nsec_prev |-> n,
       y |-> Quot((e - 1) * filt.y, e) + Quot(Average(n, filt.nsec_prev), e)]

(* Seconds and nanoseconds are halved on their own, in P2P *)
Half(t) ==
  [seconds |-> Quot(t.seconds, 2), nanoseconds |-> Quot(t.nanoseconds, 2)]

NewDelay(t) ==
  IF t.seconds # 0
  THEN /\ meanPathDelay' = t
       /\ owd_filt' = [y |-> owd_filt.y, nsec_prev |-> 0, s_exp |-> 0]
  ELSE /\ owd_filt' = Filtered(owd_filt, t.nanoseconds)
       /\ meanPathDelay' = [t EXCEPT !.nanoseconds = owd_filt'.y]

updatePeerDelay ==
  NewDelay(Half(addTime(subTime(exchange.t4, MasterTime),
                        subTime(exchange.t2, exchange.t1))))

updateDelay ==
  LET delaySM == subTime(Time(Now + env.path), exchange.t1)
  IN  IF TooLong(delaySM) \/ ~offset_first_updated
      THEN UNCHANGED delay
      ELSE NewDelay(divTime(addTime(delaySM, delayMS), 2))

(* The request goes out and its sending time, t1, is taken *)
Ask ==
  /\ askDue
  /\ exchange' = [NoExchange EXCEPT !.stage = "asked", !.t1 = OwnTime(error)]
  /\ askDue' = FALSE
  /\ UNCHANGED <<clock, observed_drift, offset, delay, syncDue, turn, faults, env>>

(* The master took t2 when the request came; the answer comes at t4 *)
handlePDelayResp ==
  /\ exchange.stage = "asked" /\ ~env.E2E_mode
  /\ exchange' = [exchange EXCEPT !.stage = "answered",
                    !.t2 = Time(Now + env.path), !.t4 = OwnTime(error + env.path)]
  /\ UNCHANGED <<clock, observed_drift, offset, delay, schedule, faults, env>>

handlePDelayRespFollowUp ==
  /\ exchange.stage = "answered"
  /\ updatePeerDelay
  /\ exchange' = NoExchange
  /\ UNCHANGED <<clock, observed_drift, offset, schedule, faults, env>>

handleDelayResp ==
  /\ exchange.stage = "asked" /\ env.E2E_mode
  /\ updateDelay
  /\ exchange' = NoExchange
  /\ UNCHANGED <<clock, observed_drift, offset, schedule, faults, env>>

-----------------------------------------------------------------------------
(* Time passes when all that is due has happened *)
Interval ==
  /\ ~syncDue /\ ~askDue /\ exchange.stage = "none"
  /\ \E g \in Gain : error' = error + env.skew + g
  /\ turn' = (turn + 1) % env.every
  /\ syncDue' = TRUE
  /\ askDue' = (turn' = 0)
  /\ UNCHANGED <<freq, observed_drift, offset, delay, exchange, faults, env>>

(* Meanwhile it was a master, or was initialised again *)
m1 ==
  /\ offsetFromMaster' = Zero
  /\ meanPathDelay' = IF env.E2E_mode THEN Zero ELSE meanPathDelay

initData == offsetFromMaster' = Zero /\ meanPathDelay' = Zero

(* Faults: a Sync or an answer is lost, a Sync is held up, the time of the *)
(* master leaps (or another one is followed), the port leaves SLAVE and    *)
(* comes back, which voids the time stamps of the peer delay mechanism.    *)
Fault(kind) == kind \in env.hits /\ faults < MaxFaults /\ faults' = faults + 1

LoseSync ==
  /\ Fault("Sync lost")
  /\ syncDue /\ syncDue' = FALSE
  /\ UNCHANGED <<clock, observed_drift, offset, delay, exchange, askDue, turn, env>>

LoseAnswer ==
  /\ Fault("answer lost")
  /\ exchange.stage # "none" /\ exchange' = NoExchange
  /\ UNCHANGED <<clock, observed_drift, offset, delay, schedule, env>>

MasterLeaps ==
  /\ Fault("leap")
  /\ syncDue /\ exchange.stage = "none"
  /\ error' = error + Leap
  /\ UNCHANGED <<freq, observed_drift, offset, delay, exchange, schedule, env>>

toState ==
  /\ Fault("state")
  /\ initClock
  /\ exchange' = IF env.E2E_mode THEN exchange
                 ELSE [NoExchange EXCEPT !.stage = exchange.stage]
  /\ m1 \/ initData \/ UNCHANGED <<offsetFromMaster, meanPathDelay>>
  /\ UNCHANGED <<error, observed_drift, ofm_filt, delayMS, offset_first_updated,
                 schedule, env>>

Next ==
  \/ handleSync(env.path) /\ UNCHANGED faults
  \/ handleSync(env.path + Late) /\ Fault("Sync late")
  \/ Ask \/ handlePDelayResp \/ handlePDelayRespFollowUp \/ handleDelayResp
  \/ Interval
  \/ LoseSync \/ LoseAnswer \/ MasterLeaps \/ toState

(* Time passes: whatever is due in an interval happens or is lost in it.   *)
(* (The next step is always possible and an interval has a handful, so     *)
(* that this is the weak fairness of Next.)                                *)
Spec == Init /\ [][Next]_vars /\ []<><<Interval>>_vars
-----------------------------------------------------------------------------
(* Properties *)

(* Types.  Rates stay within what adjtimex takes, and what the filter of   *)
(* the offset takes for less than a second is less than a second.          *)
TypeOK ==
  /\ error \in Int
  /\ freq \in -ADJ_FREQ_MAX .. ADJ_FREQ_MAX
  /\ observed_drift \in -ADJ_FREQ_MAX .. ADJ_FREQ_MAX
  /\ ofm_filt \in Int /\ Abs(ofm_filt) < Second
  /\ offset_first_updated \in BOOLEAN
  /\ exchange.stage \in {"none", "asked", "answered"}
  /\ exchange.stage = "answered" => ~env.E2E_mode
  /\ syncDue \in BOOLEAN /\ askDue \in BOOLEAN
  /\ faults \in 0 .. MaxFaults
  /\ turn \in 0 .. env.every - 1
  /\ env \in Circumstances

(* doc: arith.cc, "Program will not run after 2038...".  Until then the    *)
(* time of the own clock, which updateClock computes to set it, and every  *)
(* time and difference of times the port keeps fit their Integer32 fields, *)
(* whatever has happened.                                                  *)
TimesFit ==
  {OwnTime(error), offsetFromMaster, meanPathDelay, delayMS,
   exchange.t1, exchange.t2, exchange.t4} \subseteq TimeInternal

(* The product in the delay filter fits an Integer32, whatever y has grown *)
(* to and however often s_exp was reset and counted up since.              *)
FilterFits == (Sharpened(owd_filt) - 1) * owd_filt.y \in Integer32

(* The servo asks for the seconds of the offset and means a second or more,*)
(* in either direction, and takes the nanoseconds alone for the rest.      *)
SecondsTellSize ==
  offsetFromMaster.seconds # 0 <=> Abs(Total(offsetFromMaster)) >= Second

(* What the controller and the filter cannot see: offsets below ai, which  *)
(* the integral part ignores, and what the delay filter loses by rounding. *)
Residue == ai + 2 * 2 ^ stiffness

(* What a Sync of these circumstances may be held up *)
HeldUp(e) == IF "Sync late" \in e.hits THEN Late ELSE 0

Brought ==
  Abs(env.ahead) + env.path + (IF "leap" \in env.hits THEN Abs(Leap) ELSE 0)
    + HeldUp(env)

(* The servo makes no error worse than the one it was given, though it may *)
(* set the clock with a delay measured across an earlier setting: that is  *)
(* wrong by half of what the clock was set by.  (Not end to end, where the *)
(* delay may be any number then, nor if time stamps are voided.)           *)
NeverWorse ==
  ~env.E2E_mode /\ "state" \notin env.hits => Abs(error) <= Brought + Residue

(* How far a clock gets off that is only steered.  In an interval it moves *)
(* by Rate at most.  An offset of FullRate is met with the full rate, the  *)
(* accumulator against it as it may be, and brings the clock nearer; but   *)
(* the offset is one averaged with the last, is taken for nearer by what   *)
(* the delay is short of the path, and every fault may cost two intervals. *)
Rate(e)  == ADJ_FREQ_MAX + Abs(e.skew)
FullRate == 2 * (ap * ADJ_FREQ_MAX)
Slack(e) == (1 + 2 * MaxFaults) * Rate(e)

Larger(x, y) == IF x > y THEN x ELSE y
Ahead(e)     == Larger(e.ahead, FullRate + Rate(e)) + Slack(e)
Behind(e)    == Larger(-e.ahead, FullRate + Rate(e) + e.path) + Slack(e)

(* So far off there are no seconds, and no Sync in time takes too long;    *)
(* and the rate can make up for the skew.                                  *)
HasRoom(e) ==
  /\ Abs(e.skew) < ADJ_FREQ_MAX
  /\ Behind(e) < Second
  /\ IF e.maxDelay = 0
     THEN Ahead(e) + e.path + HeldUp(e) < Second
     ELSE Ahead(e) + e.path <= e.maxDelay /\ e.maxDelay < Second

(* A slave not far off, on the peer mechanism, whose messages are lost or  *)
(* late but whose master and state do not change                           *)
NearBy ==
  /\ ~env.E2E_mode /\ HasRoom(env)
  /\ env.hits \subseteq {"Sync lost", "Sync late", "answer lost"}

(* Its clock overshoots by what the controller takes to turn round, but    *)
(* does not start to swing: it never gets farther off than that, or than   *)
(* it was to begin with.                                                   *)
StaysNear == NearBy => error \in -Behind(env) .. Ahead(env)

(* It is never set: no offset it computes has seconds, although the rate   *)
(* overshoots and a late Sync looks like a clock that is ahead.            *)
OnlySteered == NearBy => offsetFromMaster.seconds = 0

(* While the clock is only steered, the filtered delay of the peer         *)
(* mechanism is never negative and never more than the path has.           *)
DelayWithinPath ==
  NearBy => meanPathDelay.seconds = 0 /\ meanPathDelay.nanoseconds \in 0 .. env.path

(* A clock that is set off a Sync just measured, by however many years and *)
(* in whatever state the filters are, is then wrong by what the delay it   *)
(* used was wrong by and by the microsecond that setTime drops.            *)
SetsAsMeasured ==
  [][\A way \in {env.path, env.path + Late} :
       /\ handleSync(way) /\ StepClock
       /\ ~TooLong(subTime(OwnTime(error + way), MasterTime))
       => Total(meanPathDelay) - way - error' \in 0 .. Microsecond - 1]_vars

(* However far off it starts and whatever it meets, settings of the clock  *)
(* in the middle of an exchange, delays of years and voided time stamps    *)
(* included: in the end the clock is right but for the Residue.  If a time *)
(* does not fit its fields the program has other numbers than this module. *)
Settles == []TimesFit => <>[](Abs(error) <= Residue)

(* The accumulator, which survives settings of the clock and changes of    *)
(* state, is in the end what the clock gains by itself, to the accuracy of *)
(* the least offset it counts.                                             *)
LearnsSkew == []TimesFit => <>[](Abs(observed_drift - env.skew) <= ai \div ap)
=============================================================================
