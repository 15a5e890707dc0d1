-------------------------- MODULE PortEngineProofs --------------------------
(* PortEngine, and what its data set has to do with what it heard, for     *)
(* every value of the constants                                            *)
EXTENDS PortHistory, BestMasterProofs, WellFoundedInduction

(* m1, s1 and copyD0 produce well-formed data sets *)
LEMMA DataSetTypes ==
  /\ \A c \in Nat : m1(c) \in DataSet /\ copyD0(c) \in Announce
  /\ \A a \in Announce : s1(a) \in DataSet
  /\ ZeroRecord \in Announce /\ ZeroDataSet \in DataSet
BY OwnIdAssumption, OwnQualityAssumption
   DEF m1, s1, copyD0, DataSet, Announce, PortIdentity, ZeroRecord,
       ZeroDataSet, UInt16

(* A single timer keeps its type under the operations of timer.cc *)
LEMMA TimerTypes ==
  ASSUME NEW timer \in IntervalTimer
  PROVE  /\ \A d \in Nat : Advance(timer, d) \in IntervalTimer
         /\ [timer EXCEPT !.expire = FALSE] \in IntervalTimer
         /\ timerStop(timer) \in IntervalTimer
         /\ \A n \in Nat : timerStart(n) \in IntervalTimer
<1>1. \A d \in Nat : Advance(timer, d) \in IntervalTimer
  <2> SUFFICES ASSUME NEW d \in Nat PROVE Advance(timer, d) \in IntervalTimer
    OBVIOUS
  <2>1. [timer EXCEPT !.left = timer.interval, !.expire = TRUE] \in IntervalTimer
    BY DEF IntervalTimer
  <2>2. ~(timer.left <= d) => [timer EXCEPT !.left = timer.left - d] \in IntervalTimer
    <3>1. timer.left \in Nat
      BY DEF IntervalTimer
    <3>2. ~(timer.left <= d) => timer.left - d \in Nat
      BY <3>1
    <3> QED BY <3>2 DEF IntervalTimer
  <2> QED BY <2>1, <2>2 DEF Advance
<1>2. [timer EXCEPT !.expire = FALSE] \in IntervalTimer
  BY DEF IntervalTimer
<1>3. timerStop(timer) \in IntervalTimer
  BY DEF timerStop, IntervalTimer
<1>4. \A n \in Nat : timerStart(n) \in IntervalTimer
  BY DEF timerStart, IntervalTimer
<1> QED BY <1>1, <1>2, <1>3, <1>4

(* ... and so does the whole array *)
LEMMA ArrayTypes ==
  ASSUME NEW timers \in [TimerNames -> IntervalTimer], NEW t \in TimerNames
  PROVE  /\ \A d \in Nat : timerUpdate(timers, d) \in [TimerNames -> IntervalTimer]
         /\ Acknowledge(timers, t) \in [TimerNames -> IntervalTimer]
<1>1. \A d \in Nat : timerUpdate(timers, d) \in [TimerNames -> IntervalTimer]
  BY TimerTypes DEF timerUpdate
<1>2. Acknowledge(timers, t) = [timers EXCEPT ![t] = [timers[t] EXCEPT !.expire = FALSE]]
  BY DEF Acknowledge
<1> QED BY <1>1, <1>2, TimerTypes

LEMMA TicksType == TypeOK => Ticks \in [TimerNames -> Nat \ {0}]
BY TicksAssumption DEF TypeOK, Ticks, TimerNames, PDELAYREQ_INTERVAL_TIMER,
   DELAYREQ_INTERVAL_TIMER, SYNC_INTERVAL_TIMER, ANNOUNCE_RECEIPT_TIMER,
   ANNOUNCE_INTERVAL_TIMER

LEMMA TimersAfterType ==
  ASSUME TypeOK, NEW timers \in [TimerNames -> IntervalTimer],
         NEW from, NEW to, NEW e2e
  PROVE  TimersAfter(from, to, e2e, timers) \in [TimerNames -> IntervalTimer]
BY TimerTypes, TicksType DEF TimersAfter

(* A change of state keeps the types of what toState writes *)
LEMMA ToStateType ==
  ASSUME TypeOK, NEW timers \in [TimerNames -> IntervalTimer],
         NEW s \in PortStates, toState(s, timers)
  PROVE  /\ portState' \in PortStates
         /\ message_activity' \in BOOLEAN
         /\ itimer' \in [TimerNames -> IntervalTimer]
BY TimersAfterType DEF toState

(* The probe of addForeign stays inside the table *)
LEMMA ProbeInTable ==
  ASSUME TypeOK, NEW i \in 0 .. number_foreign_records - 1
  PROVE  Probe(i) \in Slots
<1>1. number_foreign_records \in Nat \ {0} /\ number_foreign_records <= max_foreign_records
  BY TableAssumption DEF TypeOK
<1>2. foreign_record_best \in Slots /\ foreign_record_best \in Nat
  BY TableAssumption DEF TypeOK, Slots
<1>3. (foreign_record_best + i) % number_foreign_records
        \in 0 .. number_foreign_records - 1
  BY <1>1, <1>2
<1> QED BY <1>1, <1>2, <1>3, TableAssumption DEF Probe, Slots

LEMMA NextSlot ==
  ASSUME NEW i \in Slots
  PROVE  (i + 1) % max_foreign_records \in Slots
BY TableAssumption DEF Slots

(* addForeign keeps the table's type and its indices in range *)
LEMMA AddForeignType ==
  ASSUME TypeOK, NEW a \in Announces, addForeign(a)
  PROVE  /\ foreign' \in [Slots -> Announce]
         /\ number_foreign_records' \in 0 .. max_foreign_records
         /\ foreign_record_i' \in Slots
         /\ foreign_record_best' \in Slots
<1>1. a \in Announce
  BY AnnouncesAssumption
<1>2. foreign_record_best' \in Slots
  BY DEF addForeign, TypeOK
<1>3. CASE UpdateForeign(a)
  <2>1. PICK i \in Hits(a) : foreign' = [foreign EXCEPT ![Probe(i)] = a]
    BY <1>3 DEF UpdateForeign
  <2>2. foreign' \in [Slots -> Announce]
    BY <1>1, <2>1 DEF TypeOK
  <2> QED BY <1>2, <1>3, <2>2 DEF UpdateForeign, TypeOK
<1>4. CASE NewForeign(a)
  <2>1. foreign' \in [Slots -> Announce]
    BY <1>1, <1>4 DEF NewForeign, TypeOK
  <2>2. number_foreign_records' \in 0 .. max_foreign_records
    BY <1>4, TableAssumption DEF NewForeign, TypeOK
  <2>3. foreign_record_i' \in Slots
    BY <1>4, NextSlot DEF NewForeign, TypeOK
  <2> QED BY <1>2, <2>1, <2>2, <2>3
<1> QED BY <1>3, <1>4 DEF addForeign

-----------------------------------------------------------------------------
(* Type correctness *)

LEMMA TypeInit == Init => TypeOK
<1> SUFFICES ASSUME Init PROVE TypeOK
  OBVIOUS
<1>1. ZeroTimer \in IntervalTimer
  BY DEF ZeroTimer, IntervalTimer
<1>2. 0 \in Slots /\ 0 \in 0 .. max_foreign_records
  BY TableAssumption DEF Slots
<1>3. itimer \in [TimerNames -> IntervalTimer]
  BY <1>1 DEF Init
<1>4. foreign \in [Slots -> Announce] /\ dataSet \in DataSet
  BY DataSetTypes DEF Init
<1> QED
  BY <1>2, <1>3, <1>4, OptionsAssumption, TicksAssumption
  DEF Init, TypeOK, Places, PortStates

LEMMA TypeNext == TypeOK /\ [Next]_vars => TypeOK'
<1> SUFFICES ASSUME TypeOK, [Next]_vars PROVE TypeOK'
  OBVIOUS
<1> USE DEF Places, PortStates
<1>1. CASE doInit
  <2>1. itimer' \in [TimerNames -> IntervalTimer] /\ portState' \in PortStates
        /\ message_activity' \in BOOLEAN
    BY <1>1, ToStateType DEF doInit, TypeOK
  <2>2. clockClass' \in Nat /\ rtOpts' \in RunTimeOpts /\ dataSet' \in DataSet
    BY <1>1, DataSetTypes DEF doInit, initData, TypeOK, RunTimeOpts
  <2>3. number_foreign_records' \in 0 .. max_foreign_records /\ elapsed' \in Nat
        /\ delayReqTicks' \in Nat \ {0}
    BY <1>1, TableAssumption, TicksAssumption DEF doInit, initData, initTimer
  <2> QED BY <1>1, <2>1, <2>2, <2>3 DEF doInit, initData, TypeOK
<1>2. CASE doInitFails
  <2>1. itimer' \in [TimerNames -> IntervalTimer] /\ portState' \in PortStates
        /\ message_activity' \in BOOLEAN
    BY <1>2, ToStateType DEF doInitFails, TypeOK
  <2> QED BY <1>2, <2>1 DEF doInitFails, TypeOK, tableVars, configVars
<1>3. CASE NoDecision
  BY <1>3 DEF NoDecision, EnterDoState, TypeOK, timerVars, tableVars, configVars
<1>4. CASE AloneDecision
  <2>1. dataSet' \in DataSet
    BY <1>4, DataSetTypes DEF AloneDecision, TypeOK
  <2> QED BY <1>4, <2>1
          DEF AloneDecision, EnterDoState, TypeOK, timerVars, tableVars, configVars
<1>5. CASE StateDecision
  <2>1. LastScanned \in Slots /\ 0 .. LastScanned \subseteq Slots
        /\ LastScanned \in 0 .. LastScanned
    BY TableAssumption DEF LastScanned, TypeOK, Slots
  <2>2. PICK best \in [0 .. LastScanned -> 0 .. LastScanned] :
          LET record   == foreign[best[LastScanned]]
              decision == bmcStateDecision(record)
          IN  /\ foreign_record_best' = best[LastScanned]
              /\ dataSet' = DataSetFor(decision, record)
              /\ TakeDecision(decision)
    BY <1>5 DEF StateDecision
  <2> DEFINE record == foreign[best[LastScanned]]
             decision == bmcStateDecision(record)
  <2>3. best[LastScanned] \in Slots /\ record \in Announce
    BY <2>1 DEF TypeOK
  <2>4. decision \in PortStates
    BY DEF bmcStateDecision
  <2>5. dataSet' \in DataSet
    <3> HIDE DEF record, decision
    <3> QED BY <2>2, <2>3, DataSetTypes DEF DataSetFor, TypeOK, record, decision
  <2>6. itimer' \in [TimerNames -> IntervalTimer] /\ portState' \in PortStates
        /\ message_activity' \in BOOLEAN
    <3>1. TakeDecision(decision)
      BY <2>2
    <3> HIDE DEF decision
    <3> QED BY <2>4, <3>1, ToStateType DEF TakeDecision, TypeOK
  <2>7. foreign_record_best' \in Slots
    BY <2>2, <2>3
  <2> HIDE DEF record, decision
  <2> QED BY <1>5, <2>5, <2>6, <2>7
          DEF StateDecision, EnterDoState, TypeOK, configVars
<1>6. CASE FaultCleared
  <2>1. itimer' \in [TimerNames -> IntervalTimer] /\ portState' \in PortStates
        /\ message_activity' \in BOOLEAN
    BY <1>6, ToStateType DEF FaultCleared, TypeOK
  <2> QED BY <1>6, <2>1 DEF FaultCleared, TypeOK, tableVars, configVars
<1>7. CASE HandleNothing
  <2>1. elapsed' \in Nat
    BY <1>7 DEF HandleNothing, TypeOK
  <2> QED BY <1>7, <2>1
          DEF HandleNothing, AfterHandle, TypeOK, portVars, tableVars, configVars
<1>8. CASE HandleFault
  <2>1. itimer' \in [TimerNames -> IntervalTimer] /\ portState' \in PortStates
        /\ message_activity' \in BOOLEAN
    BY <1>8, ToStateType DEF HandleFault, TypeOK
  <2> QED BY <1>8, <2>1 DEF HandleFault, AfterHandle, TypeOK, tableVars, configVars
<1>9. CASE HandleOther
  BY <1>9 DEF HandleOther, AfterHandle, TypeOK, timerVars, tableVars, configVars
<1>9a. CASE HandleDelayResp
  BY <1>9a, TicksAssumption
  DEF HandleDelayResp, AfterHandle, TypeOK, timerVars, tableVars
<1>10. ASSUME NEW a \in Announces, handleAnnounce(a) PROVE TypeOK'
  <2>1. a \in Announce
    BY AnnouncesAssumption
  <2>2. RestartReceiptTimer => itimer' \in [TimerNames -> IntervalTimer]
    <3>1. timerStart(Ticks[ANNOUNCE_RECEIPT_TIMER]) \in IntervalTimer
      BY TicksType, TicksAssumption
      DEF timerStart, IntervalTimer, TimerNames, ANNOUNCE_RECEIPT_TIMER
    <3> QED BY <3>1 DEF RestartReceiptTimer, TypeOK
  <2>3. CASE AnnounceFromParent(a)
    <3>1. dataSet' \in DataSet
      BY <2>1, <2>3, DataSetTypes DEF AnnounceFromParent
    <3> QED BY <2>2, <2>3, <3>1
            DEF AnnounceFromParent, ReceiveAnnounce, AfterHandle, TypeOK,
                tableVars, configVars
  <2>4. CASE AnnounceFromOther(a)
    BY <2>2, <2>4, AddForeignType
    DEF AnnounceFromOther, ReceiveAnnounce, AfterHandle, TypeOK, configVars
  <2>5. CASE AnnounceFiled(a)
    BY <2>5, AddForeignType
    DEF AnnounceFiled, ReceiveAnnounce, AfterHandle, TypeOK, configVars
  <2> QED BY <1>10, <2>3, <2>4, <2>5 DEF handleAnnounce
<1>11. Updated \in [TimerNames -> IntervalTimer]
  BY ArrayTypes DEF Updated, TypeOK, TimerNames
<1>12. \A t \in TimerNames : Acknowledge(Updated, t) \in [TimerNames -> IntervalTimer]
  BY <1>11, ArrayTypes
<1>13. ASSUME NEW place, NEW t \in TimerNames, NEW next \in Places,
              Issue(place, t, next) \/ NotExpired(place, t, next)
       PROVE  TypeOK'
  BY <1>11, <1>12, <1>13
  DEF Issue, NotExpired, Expired, TypeOK, portVars, tableVars, configVars
<1>14. CASE ReceiptTimeout
  <2> DEFINE timers == Acknowledge(Updated, ANNOUNCE_RECEIPT_TIMER)
  <2>1. timers \in [TimerNames -> IntervalTimer]
    BY <1>12 DEF TimerNames
  <2>2. /\ itimer' \in [TimerNames -> IntervalTimer] /\ portState' \in PortStates
        /\ message_activity' \in BOOLEAN /\ dataSet' \in DataSet
    <3>0. \/ dataSet' = m1(clockClass) /\ toState("MASTER", timers)
          \/ toState("LISTENING", timers) /\ UNCHANGED dataSet
          \/ itimer' = timers /\ UNCHANGED <<portVars, dataSet>>
      BY <1>14 DEF ReceiptTimeout
    <3> HIDE DEF timers
    <3>1. CASE dataSet' = m1(clockClass) /\ toState("MASTER", timers)
      BY <2>1, <3>1, ToStateType, DataSetTypes DEF TypeOK
    <3>2. CASE toState("LISTENING", timers) /\ UNCHANGED dataSet
      BY <2>1, <3>2, ToStateType DEF TypeOK
    <3>3. CASE itimer' = timers /\ UNCHANGED <<portVars, dataSet>>
      BY <2>1, <3>3 DEF TypeOK, portVars
    <3> QED BY <3>0, <3>1, <3>2, <3>3
  <2>3. number_foreign_records' \in 0 .. max_foreign_records
        /\ foreign_record_i' \in Slots
    BY <1>14, TableAssumption DEF ReceiptTimeout, Slots
  <2> QED BY <1>14, <2>2, <2>3 DEF ReceiptTimeout, Expired, TypeOK, configVars
<1>15. CASE NoReceiptTimeout
  BY <1>15, <1>13 DEF NoReceiptTimeout, TimerNames
<1>16. CASE IssueDelayRequest \/ NoDelayRequest
  BY <1>16, <1>13 DEF IssueDelayRequest, NoDelayRequest, DelayTimer, TimerNames
<1>17. CASE issueSync \/ NoSync
  BY <1>17, <1>13 DEF issueSync, NoSync, TimerNames
<1>18. CASE issueAnnounce \/ NoAnnounce
  BY <1>18, <1>13 DEF issueAnnounce, NoAnnounce, AfterAnnounce, TimerNames
<1>19. CASE MasterPDelayReq \/ NoMasterPDelayReq
  BY <1>19, <1>13 DEF MasterPDelayReq, NoMasterPDelayReq, TimerNames
<1>20. CASE Demote
  <2>1. itimer' \in [TimerNames -> IntervalTimer] /\ portState' \in PortStates
        /\ message_activity' \in BOOLEAN
    <3>1. CASE MayBeMaster
      BY <1>20, <3>1 DEF Demote, TypeOK, portVars
    <3>2. CASE ~MayBeMaster
      BY <1>20, <3>2, ToStateType DEF Demote, TypeOK
    <3> QED BY <3>1, <3>2
  <2> QED BY <1>20, <2>1 DEF Demote, TypeOK, tableVars, configVars
<1>21. CASE catch_alarm
  <2>1. elapsed' \in Nat
    BY <1>21 DEF catch_alarm, TypeOK
  <2> QED BY <1>21, <2>1 DEF catch_alarm, TypeOK, portVars, tableVars, configVars
<1>22. CASE Terminated \/ UNCHANGED vars
  BY <1>22 DEF Terminated, vars, TypeOK, portVars, timerVars, tableVars, configVars
<1> QED
  BY <1>1, <1>2, <1>3, <1>4, <1>5, <1>6, <1>7, <1>8, <1>9, <1>9a, <1>10, <1>14,
     <1>15, <1>16, <1>17, <1>18, <1>19, <1>20, <1>21, <1>22
  DEF Next, protocol, doState, handle, WaitingTimers, MasterTimersRound

(* Every reachable state is well typed: the table's indices never leave it *)
(* and every timer, record and data set is one the code can hold.          *)
THEOREM TypeCorrect == Spec => []TypeOK
<1> QED BY TypeInit, TypeNext, PTL DEF Spec

-----------------------------------------------------------------------------
(* Only initData writes to the options, and only the class in them *)
LEMMA OptionsKept ==
  ASSUME TypeOK, [Next]_vars
  PROVE  /\ rtOpts'.E2E_mode = rtOpts.E2E_mode
         /\ rtOpts'.slaveOnly = rtOpts.slaveOnly
<1>1. CASE doInit
  BY <1>1 DEF doInit, initData, TypeOK, RunTimeOpts
<1>2. CASE rtOpts' = rtOpts
  BY <1>2
<1>3. (doInitFails \/ doState \/ handle) => rtOpts' = rtOpts
  BY DEF doInitFails, doState, NoDecision, AloneDecision, StateDecision,
     FaultCleared, handle, HandleNothing, HandleFault, HandleOther,
     HandleDelayResp,
     handleAnnounce, AnnounceFromParent, AnnounceFromOther, AnnounceFiled,
     ReceiveAnnounce, configVars
<1>4. (WaitingTimers \/ MasterTimersRound) => rtOpts' = rtOpts
  BY DEF WaitingTimers, MasterTimersRound, ReceiptTimeout,
     NoReceiptTimeout, IssueDelayRequest, NoDelayRequest, issueSync, NoSync,
     issueAnnounce, NoAnnounce, MasterPDelayReq, NoMasterPDelayReq, Demote,
     Issue, NotExpired, configVars
<1>5. (catch_alarm \/ Terminated \/ UNCHANGED vars) => rtOpts' = rtOpts
  BY DEF catch_alarm, Terminated, vars, configVars
<1> QED BY <1>1, <1>2, <1>3, <1>4, <1>5 DEF Next, protocol

-----------------------------------------------------------------------------
(* The timers that run are those of the state *)

SameRunning(timers) ==
  \A t \in TimerNames : Running(timers[t]) <=> Running(itimer[t])

(* A change of state stops what the old state ran and starts what the new  *)
(* one needs, so it carries the invariant over whatever the two states are *)
LEMMA ToStateTimers ==
  ASSUME TypeOK, TimersMatchState, NEW s \in PortStates,
         NEW timers \in [TimerNames -> IntervalTimer], SameRunning(timers),
         toState(s, timers), rtOpts'.E2E_mode = rtOpts.E2E_mode
  PROVE  TimersMatchState'
<1> DEFINE e2e == rtOpts.E2E_mode
<1> SUFFICES ASSUME NEW t \in TimerNames
             PROVE  Running(itimer'[t]) <=> t \in StartedOnEntering(s, e2e)
  BY DEF TimersMatchState, toState
<1>1. itimer'[t] = IF t \in StartedOnEntering(s, e2e) THEN timerStart(Ticks[t])
                   ELSE IF t \in StoppedOnLeaving(portState, e2e)
                        THEN timerStop(timers[t]) ELSE timers[t]
  BY DEF toState, TimersAfter
<1>2. CASE t \in StartedOnEntering(s, e2e)
  BY <1>1, <1>2, TicksType DEF timerStart, Running
<1>3. CASE t \notin StartedOnEntering(s, e2e) /\ t \in StoppedOnLeaving(portState, e2e)
  <2>1. timers[t] \in IntervalTimer
    OBVIOUS
  <2> QED BY <1>1, <1>3, <2>1 DEF timerStop, IntervalTimer, Running
<1>4. CASE t \notin StartedOnEntering(s, e2e) /\ t \notin StoppedOnLeaving(portState, e2e)
  <2>1. t \notin StartedOnEntering(portState, e2e)
    BY <1>4 DEF StoppedOnLeaving, StartedOnEntering
  <2>2. ~Running(timers[t])
    BY <2>1 DEF TimersMatchState, SameRunning
  <2> QED BY <1>1, <1>4, <2>2
<1> QED BY <1>2, <1>3, <1>4

LEMMA UpdateKeepsRunning ==
  ASSUME TypeOK
  PROVE  /\ SameRunning(Updated)
         /\ \A t \in TimerNames : SameRunning(Acknowledge(Updated, t))
<1>1. Updated \in [TimerNames -> IntervalTimer]
  BY ArrayTypes DEF Updated, TypeOK, TimerNames
<1>2. ASSUME NEW u \in TimerNames PROVE Running(Updated[u]) <=> Running(itimer[u])
  <2>1. itimer[u] \in IntervalTimer /\ Updated[u] = Advance(itimer[u], elapsed)
    BY DEF Updated, timerUpdate, TypeOK
  <2> QED BY <2>1 DEF Advance, IntervalTimer, Running
<1>3. ASSUME NEW t \in TimerNames, NEW u \in TimerNames
      PROVE  Running(Acknowledge(Updated, t)[u]) <=> Running(itimer[u])
  <2>1. CASE u = t
    <3>1. Acknowledge(Updated, t)[u] = [Updated[u] EXCEPT !.expire = FALSE]
      BY <1>1, <2>1 DEF Acknowledge
    <3>2. Updated[u] \in IntervalTimer
      BY <1>1
    <3> QED BY <1>2, <3>1, <3>2 DEF IntervalTimer, Running
  <2>2. CASE u # t
    BY <1>1, <1>2, <2>2 DEF Acknowledge
  <2> QED BY <2>1, <2>2
<1> QED BY <1>2, <1>3 DEF SameRunning

LEMMA TimersNext == TypeOK /\ TimersMatchState /\ [Next]_vars => TimersMatchState'
<1> SUFFICES ASSUME TypeOK, TimersMatchState, [Next]_vars
             PROVE  TimersMatchState'
  OBVIOUS
<1>1. itimer \in [TimerNames -> IntervalTimer] /\ SameRunning(itimer)
      /\ rtOpts'.E2E_mode = rtOpts.E2E_mode
  BY OptionsKept DEF TypeOK, SameRunning
<1>2. \A s \in PortStates : toState(s, itimer) => TimersMatchState'
  BY <1>1, ToStateTimers
<1>3. ASSUME NEW timers, SameRunning(timers), itimer' = timers,
             portState' = portState
      PROVE  TimersMatchState'
  BY <1>1, <1>3 DEF TimersMatchState, SameRunning
<1>4. UNCHANGED <<portState, itimer>> => TimersMatchState'
  BY <1>1, <1>3
<1>5. CASE doInit \/ doInitFails \/ FaultCleared \/ HandleFault
  BY <1>2, <1>5 DEF doInit, doInitFails, FaultCleared, HandleFault, PortStates
<1>6. CASE NoDecision \/ AloneDecision \/ HandleNothing \/ HandleOther
           \/ HandleDelayResp \/ catch_alarm \/ Terminated \/ UNCHANGED vars
  BY <1>4, <1>6 DEF Terminated, NoDecision, AloneDecision, HandleNothing,
     HandleOther, HandleDelayResp,
     catch_alarm, vars, portVars, timerVars
<1>7. CASE StateDecision
  <2>1. PICK best \in [0 .. LastScanned -> 0 .. LastScanned] :
          TakeDecision(bmcStateDecision(foreign[best[LastScanned]]))
    BY <1>7 DEF StateDecision
  <2> DEFINE decision == bmcStateDecision(foreign[best[LastScanned]])
  <2>2. decision \in PortStates
    BY DEF bmcStateDecision, PortStates
  <2>3. TakeDecision(decision)
    BY <2>1
  <2> HIDE DEF decision
  <2> QED BY <1>2, <1>4, <2>2, <2>3 DEF TakeDecision
<1>8. ASSUME NEW a \in Announces, handleAnnounce(a) PROVE TimersMatchState'
  <2>1. CASE AnnounceFiled(a)
    BY <1>4, <2>1 DEF AnnounceFiled, ReceiveAnnounce
  <2>2. CASE AnnounceFromParent(a) \/ AnnounceFromOther(a)
    <3>1. portState = "SLAVE" /\ portState' = portState /\ RestartReceiptTimer
      BY <2>2 DEF AnnounceFromParent, AnnounceFromOther, ReceiveAnnounce
    <3>2. ANNOUNCE_RECEIPT_TIMER
            \in StartedOnEntering("SLAVE", rtOpts.E2E_mode)
          /\ ANNOUNCE_RECEIPT_TIMER \in TimerNames
      BY DEF StartedOnEntering, TimerNames
    <3>3. itimer' = [itimer EXCEPT ![ANNOUNCE_RECEIPT_TIMER] =
                       timerStart(Ticks[ANNOUNCE_RECEIPT_TIMER])]
      BY <3>1 DEF RestartReceiptTimer
    <3>4. Running(timerStart(Ticks[ANNOUNCE_RECEIPT_TIMER]))
      BY <3>2, TicksType DEF timerStart, Running
    <3> QED BY <1>1, <3>1, <3>2, <3>3, <3>4 DEF TimersMatchState
  <2> QED BY <1>8, <2>1, <2>2 DEF handleAnnounce
<1>9. ASSUME NEW place, NEW t \in TimerNames, NEW next,
             Issue(place, t, next) \/ NotExpired(place, t, next)
      PROVE  TimersMatchState'
  BY <1>3, <1>9, UpdateKeepsRunning DEF Issue, NotExpired, portVars
<1>10. CASE ReceiptTimeout
  <2> DEFINE timers == Acknowledge(Updated, ANNOUNCE_RECEIPT_TIMER)
  <2>1. timers \in [TimerNames -> IntervalTimer] /\ SameRunning(timers)
    BY ArrayTypes, UpdateKeepsRunning DEF Updated, TypeOK, TimerNames
  <2>2. \/ toState("MASTER", timers) \/ toState("LISTENING", timers)
        \/ itimer' = timers /\ portState' = portState
    BY <1>10 DEF ReceiptTimeout, portVars
  <2> HIDE DEF timers
  <2> QED BY <1>1, <1>3, <2>1, <2>2, ToStateTimers DEF PortStates
<1>11. CASE NoReceiptTimeout \/ IssueDelayRequest \/ NoDelayRequest
            \/ issueSync \/ NoSync \/ issueAnnounce \/ NoAnnounce
            \/ MasterPDelayReq \/ NoMasterPDelayReq
  BY <1>9, <1>11
  DEF NoReceiptTimeout, IssueDelayRequest, NoDelayRequest, issueSync, NoSync,
      issueAnnounce, NoAnnounce, MasterPDelayReq, NoMasterPDelayReq,
      DelayTimer, TimerNames
<1>12. CASE Demote
  BY <1>2, <1>4, <1>12 DEF Demote, portVars, PortStates
<1> QED
  BY <1>5, <1>6, <1>7, <1>8, <1>10, <1>11, <1>12
  DEF Next, protocol, doState, handle, WaitingTimers, MasterTimersRound

(* In every reachable state the running timers are those of the port's     *)
(* state: toState leaks no timer, whichever path a port takes.             *)
THEOREM TimersCorrect == Spec => []TimersMatchState
<1>1. Init => TimersMatchState
  BY DEF Init, TimersMatchState, StartedOnEntering, ZeroTimer, Running
<1> QED BY <1>1, TypeInit, TypeNext, TimersNext, PTL DEF Spec

-----------------------------------------------------------------------------
(* Actions that leave the state, the data set and the table alone *)

Idle == UNCHANGED <<portState, dataSet, tableVars, record_update, clockClass>>

LEMMA IdleSteps ==
  ASSUME \/ HandleNothing \/ HandleOther \/ HandleDelayResp
         \/ NoReceiptTimeout
         \/ IssueDelayRequest \/ NoDelayRequest \/ issueSync \/ NoSync
         \/ issueAnnounce \/ NoAnnounce \/ MasterPDelayReq
         \/ NoMasterPDelayReq \/ catch_alarm \/ Terminated
         \/ UNCHANGED vars
  PROVE  Idle
BY DEF Idle, Terminated, HandleNothing, HandleOther, HandleDelayResp,
   NoReceiptTimeout, IssueDelayRequest,
   NoDelayRequest, issueSync, NoSync, issueAnnounce, NoAnnounce,
   MasterPDelayReq, NoMasterPDelayReq, catch_alarm, vars, Issue, NotExpired,
   portVars, configVars, timerVars

(* Actions that keep the table, and at most change the state to one that   *)
(* follows nobody and is not MASTER *)
Resting == {"INITIALIZING", "FAULTY", "LISTENING"}

LEMMA RestingSteps ==
  ASSUME doInitFails \/ FaultCleared \/ HandleFault \/ Demote
  PROVE  /\ UNCHANGED <<tableVars, record_update, dataSet, clockClass>>
         /\ portState' = portState \/ portState' \in Resting
BY DEF doInitFails, FaultCleared, HandleFault, Demote, toState, portVars,
   configVars, Resting

(* What a state decision may do to the state and the data set *)
LEMMA DecisionStep ==
  ASSUME TypeOK, StateDecision
  PROVE  \E k \in 0 .. LastScanned :
           LET decision == bmcStateDecision(foreign[k])
           IN  /\ foreign_record_best' = k
               /\ dataSet' = DataSetFor(decision, foreign[k])
               /\ portState' = decision
               /\ decision \in {"SLAVE", "LISTENING", "MASTER", "FAULTY", "PASSIVE"}
<1>1. LastScanned \in 0 .. LastScanned
  BY TableAssumption DEF LastScanned, TypeOK
<1>2. PICK best \in [0 .. LastScanned -> 0 .. LastScanned] :
        LET decision == bmcStateDecision(foreign[best[LastScanned]])
        IN  /\ foreign_record_best' = best[LastScanned]
            /\ dataSet' = DataSetFor(decision, foreign[best[LastScanned]])
            /\ TakeDecision(decision)
  BY DEF StateDecision
<1>3. best[LastScanned] \in 0 .. LastScanned
  BY <1>1
<1> DEFINE decision == bmcStateDecision(foreign[best[LastScanned]])
<1>4. decision \in {"SLAVE", "LISTENING", "MASTER", "FAULTY", "PASSIVE"}
  BY DEF bmcStateDecision
<1>5. portState' = decision
  <2>1. TakeDecision(decision)
    BY <1>2
  <2> HIDE DEF decision
  <2> QED BY <2>1 DEF TakeDecision, toState
<1> QED BY <1>2, <1>3, <1>4, <1>5

-----------------------------------------------------------------------------
(* A master's data set is its own *)

LEMMA MasterNext ==
  TypeOK /\ MasterOwnsDataSet /\ [Next]_vars => MasterOwnsDataSet'
<1> SUFFICES ASSUME TypeOK, MasterOwnsDataSet, [Next]_vars
             PROVE  MasterOwnsDataSet'
  OBVIOUS
<1>1. ASSUME Idle PROVE MasterOwnsDataSet'
  BY <1>1 DEF Idle, MasterOwnsDataSet, m1
<1>2. CASE doInit
  BY <1>2 DEF doInit, toState, MasterOwnsDataSet
<1>3. CASE doInitFails \/ FaultCleared \/ HandleFault \/ Demote
  BY <1>3, RestingSteps DEF Resting, MasterOwnsDataSet, m1
<1>4. CASE NoDecision
  BY <1>4 DEF NoDecision, MasterOwnsDataSet, m1, configVars
<1>5. CASE AloneDecision
  BY <1>5 DEF AloneDecision, MasterOwnsDataSet, m1, configVars
<1>6. CASE StateDecision
  <2>1. PICK k \in 0 .. LastScanned :
          /\ dataSet' = DataSetFor(bmcStateDecision(foreign[k]), foreign[k])
          /\ portState' = bmcStateDecision(foreign[k])
    BY <1>6, DecisionStep
  <2>2. clockClass' = clockClass
    BY <1>6 DEF StateDecision, configVars
  <2>3. portState' = "MASTER" => dataSet' = m1(clockClass)
    BY <2>1 DEF DataSetFor
  <2> QED BY <2>2, <2>3 DEF MasterOwnsDataSet, m1
<1>7. ASSUME NEW a \in Announces, handleAnnounce(a) PROVE MasterOwnsDataSet'
  <2>1. portState' = portState /\ clockClass' = clockClass
    BY <1>7 DEF handleAnnounce, AnnounceFromParent, AnnounceFromOther,
       AnnounceFiled, ReceiveAnnounce, configVars
  <2>2. portState = "SLAVE" \/ dataSet' = dataSet
    BY <1>7 DEF handleAnnounce, AnnounceFromParent, AnnounceFromOther,
       AnnounceFiled
  <2> QED BY <2>1, <2>2 DEF MasterOwnsDataSet, m1
<1>8. CASE ReceiptTimeout
  <2>1. clockClass' = clockClass
    BY <1>8 DEF ReceiptTimeout, configVars
  <2>2. \/ portState' = "MASTER" /\ dataSet' = m1(clockClass)
        \/ portState' = "LISTENING"
    BY <1>8 DEF ReceiptTimeout, toState, portVars
  <2> QED BY <2>1, <2>2 DEF MasterOwnsDataSet, m1
<1> QED
  BY <1>1, <1>2, <1>3, <1>4, <1>5, <1>6, <1>7, <1>8, IdleSteps
  DEF Next, protocol, doState, handle, WaitingTimers, MasterTimersRound

(* A port in state MASTER always holds its own clock as parent and         *)
(* grandmaster: what issueAnnounce sends never mixes in a former master.   *)
THEOREM MasterCorrect == Spec => []MasterOwnsDataSet
<1>1. Init => MasterOwnsDataSet
  BY DEF Init, MasterOwnsDataSet
<1> QED BY <1>1, TypeInit, TypeNext, MasterNext, PTL DEF Spec

-----------------------------------------------------------------------------
(* The table is read only where it was written.                            *)
(*                                                                         *)
(* BmcReadsAnnouncedRecords is not inductive: number_foreign_records says  *)
(* how many slots bmc reads, foreign_record_i where the next is written,   *)
(* and they part company when doInit resets only the first.  What holds    *)
(* through it all is that the slots below foreign_record_i are written,    *)
(* that a number beyond foreign_record_i means the index wrapped and the   *)
(* table is full, and that slot 0, the one bmc reads when there is no      *)
(* record, is written before anybody is followed or any decision is due.   *)

Written(k) == foreign[k] # ZeroRecord

WrittenBelowIndex == \A k \in Slots : k < foreign_record_i => Written(k)

FullWhenWrapped ==
  number_foreign_records > foreign_record_i => \A k \in Slots : Written(k)

SlotZeroWritten ==
  record_update \/ portState \in {"SLAVE", "PASSIVE"} => Written(0)

TableInv == WrittenBelowIndex /\ FullWhenWrapped /\ SlotZeroWritten

LEMMA SlotZero == 0 \in Slots
BY TableAssumption DEF Slots

(* addForeign keeps the invariant and leaves slot 0 written *)
LEMMA AddForeignWritten ==
  ASSUME TypeOK, TableInv, NEW a \in Announces, addForeign(a)
  PROVE  WrittenBelowIndex' /\ FullWhenWrapped' /\ Written(0)'
<1>1. a # ZeroRecord /\ a \in Announce
  BY AnnouncesAssumption DEF ZeroRecord
<1>2. CASE UpdateForeign(a)
  <2>1. PICK i \in Hits(a) : foreign' = [foreign EXCEPT ![Probe(i)] = a]
    BY <1>2 DEF UpdateForeign
  <2>2. \A k \in Slots : Written(k) => Written(k)'
    BY <1>1, <2>1 DEF Written, TypeOK
  <2>3. UNCHANGED <<number_foreign_records, foreign_record_i>>
    BY <1>2 DEF UpdateForeign
  <2>4. WrittenBelowIndex' /\ FullWhenWrapped'
    BY <2>2, <2>3 DEF TableInv, WrittenBelowIndex, FullWhenWrapped
  <2>5. Written(0)
    <3>1. number_foreign_records > 0
      <4>1. i \in 0 .. number_foreign_records - 1
        BY <2>1 DEF Hits
      <4> QED BY <4>1 DEF TypeOK
    <3>2. foreign_record_i \in Nat
      BY DEF TypeOK, Slots
    <3> QED BY <3>1, <3>2, SlotZero
            DEF TableInv, WrittenBelowIndex, FullWhenWrapped
  <2> QED BY <2>2, <2>4, <2>5, SlotZero
<1>3. CASE NewForeign(a)
  <2> DEFINE i == foreign_record_i
             n == number_foreign_records
             max == max_foreign_records
  <2>1. /\ foreign' = [foreign EXCEPT ![i] = a]
        /\ n' = IF n < max THEN n + 1 ELSE n
        /\ i' = (i + 1) % max
    BY <1>3 DEF NewForeign
  <2>2. i \in Nat /\ i < max /\ n \in Nat /\ n <= max /\ max \in Nat \ {0}
        /\ i \in Slots
    BY TableAssumption DEF TypeOK, Slots
  <2>3. \A k \in Slots : Written(k)' <=> (k = i \/ Written(k))
    BY <1>1, <2>1, <2>2 DEF Written, TypeOK
  <2>4. Slots' = Slots /\ \A k \in Slots : k \in Nat /\ k < max
    BY TableAssumption DEF Slots
  <2>5. Written(0)'
    BY <2>2, <2>3, SlotZero DEF TableInv, WrittenBelowIndex
  <2>6. CASE i + 1 < max
    <3>1. i' = i + 1
      BY <2>1, <2>2, <2>6
    <3>2. WrittenBelowIndex'
      BY <2>2, <2>3, <2>4, <3>1 DEF TableInv, WrittenBelowIndex
    <3>3. FullWhenWrapped'
      BY <2>1, <2>2, <2>3, <3>1 DEF TableInv, FullWhenWrapped
    <3> QED BY <2>5, <3>2, <3>3
  <2>7. CASE i + 1 = max
    <3>1. i' = 0
      BY <2>1, <2>2, <2>7
    <3>2. \A k \in Slots : Written(k)'
      BY <2>2, <2>3, <2>4, <2>7 DEF TableInv, WrittenBelowIndex
    <3> QED BY <2>5, <3>1, <3>2 DEF WrittenBelowIndex, FullWhenWrapped
  <2> QED BY <2>2, <2>6, <2>7
<1> QED BY <1>2, <1>3 DEF addForeign

LEMMA TableNext == TypeOK /\ TableInv /\ [Next]_vars => TableInv'
<1> SUFFICES ASSUME TypeOK, TableInv, [Next]_vars PROVE TableInv'
  OBVIOUS
<1> USE DEF TableInv, WrittenBelowIndex, FullWhenWrapped, SlotZeroWritten, Written
<1>1. ASSUME Idle PROVE TableInv'
  BY <1>1 DEF Idle, tableVars
<1>2. CASE doInit
  <2>1. UNCHANGED <<foreign, foreign_record_i, record_update>>
        /\ number_foreign_records' = 0 /\ portState' = "LISTENING"
    BY <1>2 DEF doInit, initData, toState
  <2>2. ~(0 > foreign_record_i)
    BY DEF TypeOK, Slots
  <2> QED BY <2>1, <2>2
<1>3. CASE doInitFails \/ FaultCleared \/ HandleFault \/ Demote
  BY <1>3, RestingSteps DEF tableVars, Resting
<1>4. CASE NoDecision \/ AloneDecision
  BY <1>4 DEF NoDecision, AloneDecision, tableVars
<1>5. CASE StateDecision
  <2>1. record_update /\ ~record_update'
        /\ UNCHANGED <<foreign, number_foreign_records, foreign_record_i>>
    BY <1>5 DEF StateDecision
  <2> QED BY <2>1
<1>6. ASSUME NEW a \in Announces, handleAnnounce(a) PROVE TableInv'
  <2>1. CASE addForeign(a)
    BY <2>1, AddForeignWritten
  <2>2. CASE AnnounceFromParent(a)
    BY <2>2 DEF AnnounceFromParent, tableVars
  <2> QED BY <1>6, <2>1, <2>2 DEF handleAnnounce, AnnounceFromOther, AnnounceFiled
<1>7. CASE ReceiptTimeout
  <2>1. UNCHANGED <<foreign, record_update>> /\ number_foreign_records' = 0
        /\ foreign_record_i' = 0
    BY <1>7 DEF ReceiptTimeout
  <2>2. \A k \in Slots : ~(k < 0)
    BY DEF Slots
  <2>3. portState' \in {"MASTER", "LISTENING"}
    BY <1>7 DEF ReceiptTimeout, toState, portVars
  <2> QED BY <2>1, <2>2, <2>3
<1> QED
  BY <1>1, <1>2, <1>3, <1>4, <1>5, <1>6, <1>7, IdleSteps
  DEF Next, protocol, doState, handle, WaitingTimers, MasterTimersRound

LEMMA TableInvImplies == TypeOK /\ TableInv => BmcReadsAnnouncedRecords
<1> SUFFICES ASSUME TypeOK, TableInv, record_update, ReadsTable,
                    NEW k \in 0 .. LastScanned
             PROVE  Written(k)
  BY DEF BmcReadsAnnouncedRecords, Written
<1>1. CASE number_foreign_records > 0
  <2>1. k \in Slots /\ k \in Nat /\ k < number_foreign_records
    BY <1>1, TableAssumption DEF LastScanned, TypeOK, Slots
  <2>2. k < foreign_record_i \/ number_foreign_records > foreign_record_i
    BY <2>1 DEF TypeOK, Slots
  <2> QED BY <2>1, <2>2 DEF TableInv, WrittenBelowIndex, FullWhenWrapped
<1>2. CASE number_foreign_records = 0
  <2>1. k = 0
    BY <1>2 DEF LastScanned
  <2> QED BY <2>1 DEF TableInv, SlotZeroWritten
<1> QED BY <1>1, <1>2 DEF TypeOK

LEMMA TableInit == Init => TableInv
BY DEF Init, TableInv, WrittenBelowIndex, FullWhenWrapped, SlotZeroWritten, Slots

(* bmc never elects a slot nobody wrote: not after a timeout that empties  *)
(* the table, not after a fault that resets its size but not its index,    *)
(* not when the table is full and wraps.                                   *)
THEOREM ScanReadsOnlyAnnounced == Spec => []BmcReadsAnnouncedRecords
<1> QED BY TypeInit, TypeNext, TableInit, TableNext, TableInvImplies, PTL DEF Spec

-----------------------------------------------------------------------------
(* A follower's parent is recorded once the decision is made.              *)
(*                                                                         *)
(* Filing an Announce may evict the parent's record from a full table, so  *)
(* the invariant only holds while no decision is pending; and a follower   *)
(* has a record at all because only the receipt timeout and doInit empty   *)
(* the table, and both end the following.                                  *)

Following == ~rtOpts.slaveOnly /\ portState \in {"SLAVE", "PASSIVE"}

Recorded == \E k \in 0 .. number_foreign_records - 1 :
              foreign[k].src = dataSet.parent

FollowerInv ==
  Following => /\ number_foreign_records > 0
               /\ ~record_update => Recorded

NothingPending ==
  pc = "actions" /\ portState \in Deciding => ~record_update

LEMMA PendingNext == NothingPending /\ [Next]_vars => NothingPending'
<1> SUFFICES ASSUME NothingPending, [Next]_vars PROVE NothingPending'
  OBVIOUS
<1>1. CASE NoDecision \/ AloneDecision \/ StateDecision
  BY <1>1 DEF NoDecision, AloneDecision, StateDecision, NothingPending
<1>2. CASE catch_alarm \/ Terminated \/ UNCHANGED vars
  BY <1>2 DEF catch_alarm, Terminated, vars, portVars, NothingPending
<1>3. CASE doInit \/ doInitFails
  BY <1>3 DEF doInit, doInitFails, NothingPending
<1>4. CASE FaultCleared
  BY <1>4 DEF FaultCleared, NothingPending
<1>5. ASSUME AfterHandle PROVE NothingPending'
  BY <1>5 DEF AfterHandle, NothingPending
<1>6. CASE handle
  BY <1>5, <1>6 DEF handle, HandleNothing, HandleFault, HandleOther,
     HandleDelayResp,
     handleAnnounce, AnnounceFromParent, AnnounceFromOther, AnnounceFiled,
     ReceiveAnnounce
<1>7. CASE WaitingTimers \/ MasterTimersRound
  BY <1>7 DEF WaitingTimers, MasterTimersRound, ReceiptTimeout,
     NoReceiptTimeout, IssueDelayRequest, NoDelayRequest, issueSync, NoSync,
     issueAnnounce, NoAnnounce, AfterAnnounce, MasterPDelayReq,
     NoMasterPDelayReq, Demote, Issue, NotExpired, NothingPending
<1> QED BY <1>1, <1>2, <1>3, <1>4, <1>6, <1>7 DEF Next, protocol, doState

LEMMA FollowerNext == TypeOK /\ FollowerInv /\ [Next]_vars => FollowerInv'
<1> SUFFICES ASSUME TypeOK, FollowerInv, [Next]_vars, Following'
             PROVE  /\ number_foreign_records' > 0
                    /\ ~record_update' => Recorded'
  BY DEF FollowerInv
<1>0. ~rtOpts.slaveOnly
  BY OptionsKept DEF Following
<1> USE DEF FollowerInv, Following, Recorded
<1>1. CASE Idle
  BY <1>0, <1>1 DEF Idle, tableVars
<1>2. CASE doInit
  BY <1>2 DEF doInit, toState
<1>3. CASE doInitFails \/ FaultCleared \/ HandleFault \/ Demote
  BY <1>0, <1>3, RestingSteps DEF tableVars, Resting
<1>4. CASE NoDecision
  BY <1>0, <1>4 DEF NoDecision, tableVars
<1>5. CASE AloneDecision
  BY <1>5 DEF AloneDecision
<1>6. CASE StateDecision
  <2>1. PICK k \in 0 .. LastScanned :
          /\ dataSet' = DataSetFor(bmcStateDecision(foreign[k]), foreign[k])
          /\ portState' = bmcStateDecision(foreign[k])
    BY <1>6, DecisionStep
  <2>2. UNCHANGED <<foreign, number_foreign_records>> /\ portState \in Deciding
        /\ (portState = "MASTER" => number_foreign_records > 0)
    BY <1>6 DEF StateDecision
  <2>3. number_foreign_records > 0
    <3>1. CASE portState = "LISTENING"
      BY <1>0, <2>1, <3>1 DEF bmcStateDecision, TypeOK
    <3>2. CASE portState # "LISTENING"
      BY <1>0, <2>2, <3>2 DEF Deciding, Waiting
    <3> QED BY <3>1, <3>2
  <2>4. k \in 0 .. number_foreign_records - 1
    BY <2>3 DEF LastScanned, TypeOK
  <2>5. dataSet'.parent = foreign[k].src
    BY <2>1 DEF DataSetFor, s1
  <2> QED BY <2>2, <2>3, <2>4, <2>5
<1>7. ASSUME NEW a \in Announces, handleAnnounce(a)
      PROVE  number_foreign_records' > 0 /\ record_update'
  <2>1. record_update' /\ portState' = portState
    BY <1>7 DEF handleAnnounce, AnnounceFromParent, AnnounceFromOther,
       AnnounceFiled, ReceiveAnnounce
  <2>2. number_foreign_records > 0 /\ number_foreign_records \in Nat
    BY <1>0, <2>1 DEF TypeOK
  <2>3. number_foreign_records' = number_foreign_records
        \/ number_foreign_records' = number_foreign_records + 1
    BY <1>7 DEF handleAnnounce, AnnounceFromParent, AnnounceFromOther,
       AnnounceFiled, addForeign, UpdateForeign, NewForeign, tableVars
  <2> QED BY <2>1, <2>2, <2>3
<1>8. CASE ReceiptTimeout
  BY <1>8 DEF ReceiptTimeout, toState, portVars
<1> QED
  BY <1>1, <1>2, <1>3, <1>4, <1>5, <1>6, <1>7, <1>8, IdleSteps
  DEF Next, protocol, doState, handle, WaitingTimers, MasterTimersRound

(* After each state decision a port that follows another clock has a       *)
(* record of it: eviction from a full table and the stale indices of a     *)
(* re-initialisation never leave it following a clock it forgot.           *)
THEOREM FollowersKnowTheirParent == Spec => []ParentIsRecorded
<1>1. Init => FollowerInv /\ NothingPending
  BY DEF Init, FollowerInv, Following, NothingPending
<1>2. FollowerInv /\ NothingPending => ParentIsRecorded
  BY DEF FollowerInv, NothingPending, Following, Recorded, ParentIsRecorded,
     Deciding, Waiting
<1> QED
  BY <1>1, <1>2, TypeInit, TypeNext, FollowerNext, PendingNext, PTL DEF Spec

-----------------------------------------------------------------------------
(* Where the data a port follows comes from *)

(* Observing changes nothing: every step of the history is a step of the   *)
(* port, so the invariants of PortEngine hold here too.                    *)
LEMMA HistoryStep == [HistoryNext]_historyVars => [Next]_vars
BY DEF HistoryNext, Hear, Reinitialise, HearNothing, historyVars, Next,
   protocol, handle

(* Every record was received, or was never written *)
TableReceived == \A k \in Slots : foreign[k] = ZeroRecord \/ foreign[k] \in received

GenuineInv == TableReceived /\ FollowsGenuineAnnounce

LEMMA HearReceived ==
  ASSUME TypeOK, GenuineInv, NEW a \in Announces, Hear(a)
  PROVE  GenuineInv'
<1>1. received \subseteq received' /\ a \in received' /\ handleAnnounce(a)
  BY DEF Hear
<1>2. portState' = portState
  BY <1>1 DEF handleAnnounce, AnnounceFromParent, AnnounceFromOther,
     AnnounceFiled, ReceiveAnnounce
<1>3. CASE addForeign(a) /\ dataSet' = dataSet
  <2>1. FollowsGenuineAnnounce'
    BY <1>1, <1>2, <1>3 DEF GenuineInv, FollowsGenuineAnnounce, s1
  <2>2. CASE UpdateForeign(a)
    <3>1. PICK i \in Hits(a) : foreign' = [foreign EXCEPT ![Probe(i)] = a]
      BY <2>2 DEF UpdateForeign
    <3>2. TableReceived'
      BY <1>1, <3>1 DEF GenuineInv, TableReceived, TypeOK
    <3> QED BY <2>1, <3>2 DEF GenuineInv
  <2>3. CASE NewForeign(a)
    <3>1. TableReceived'
      BY <1>1, <2>3 DEF NewForeign, GenuineInv, TableReceived, TypeOK
    <3> QED BY <2>1, <3>1 DEF GenuineInv
  <2> QED BY <1>3, <2>2, <2>3 DEF addForeign
<1>4. CASE AnnounceFromParent(a)
  <2>1. dataSet' = s1(a) /\ foreign' = foreign
    BY <1>4 DEF AnnounceFromParent, tableVars
  <2>2. FollowsGenuineAnnounce'
    BY <1>1, <2>1 DEF FollowsGenuineAnnounce, s1
  <2> QED BY <1>1, <2>1, <2>2 DEF GenuineInv, TableReceived
<1> QED
  BY <1>1, <1>3, <1>4 DEF handleAnnounce, AnnounceFromOther, AnnounceFiled

(* What a port adopts with a decision to follow, it has received: the scan *)
(* reads no record that nobody wrote.                                      *)
LEMMA DecisionAdopts ==
  ASSUME TypeOK, BmcReadsAnnouncedRecords, TableReceived, StateDecision,
         portState' \in {"SLAVE", "PASSIVE"}
  PROVE  \E a \in received : dataSet' = s1(a)
<1>1. PICK k \in 0 .. LastScanned :
        /\ dataSet' = DataSetFor(bmcStateDecision(foreign[k]), foreign[k])
        /\ portState' = bmcStateDecision(foreign[k])
  BY DecisionStep
<1>2. pc = "protocol" /\ record_update /\ portState \in Deciding
      /\ (portState = "MASTER" => number_foreign_records > 0)
  BY DEF StateDecision, EnterDoState
<1>3. ReadsTable
  <2>1. CASE number_foreign_records = 0
    <3>1. portState # "MASTER"
      BY <1>2, <2>1
    <3>2. portState = "LISTENING" => rtOpts.slaveOnly
      BY <1>1, <2>1 DEF bmcStateDecision
    <3> QED BY <1>2, <3>1, <3>2 DEF ReadsTable, Deciding, Waiting
  <2>2. CASE number_foreign_records # 0
    BY <2>2 DEF ReadsTable, TypeOK
  <2> QED BY <2>1, <2>2
<1>4. foreign[k] # ZeroRecord
  BY <1>2, <1>3 DEF BmcReadsAnnouncedRecords
<1>5. k \in Slots
  BY TableAssumption DEF LastScanned, TypeOK, Slots
<1>6. dataSet' = s1(foreign[k])
  BY <1>1 DEF DataSetFor
<1> QED BY <1>4, <1>5, <1>6 DEF TableReceived

LEMMA GenuineNext ==
  TypeOK /\ BmcReadsAnnouncedRecords /\ GenuineInv
    /\ [HistoryNext]_historyVars => GenuineInv'
<1> SUFFICES ASSUME TypeOK, BmcReadsAnnouncedRecords, GenuineInv,
                    [HistoryNext]_historyVars
             PROVE  GenuineInv'
  OBVIOUS
<1> USE DEF GenuineInv, TableReceived, FollowsGenuineAnnounce
<1>1. ASSUME NEW a \in Announces, Hear(a) PROVE GenuineInv'
  BY <1>1, HearReceived
<1>2. CASE Reinitialise
  BY <1>2 DEF Reinitialise, doInit, initData, toState
<1>3. ASSUME UNCHANGED <<received, foreign, dataSet>>,
             portState' = portState \/ portState' \notin {"SLAVE", "PASSIVE"}
      PROVE  GenuineInv'
  BY <1>3 DEF s1
<1>4. CASE StateDecision /\ received' = received
  <2>1. foreign' = foreign
    BY <1>4 DEF StateDecision
  <2>2. portState' \in {"SLAVE", "PASSIVE"} => \E a \in received : dataSet' = s1(a)
    BY <1>4, DecisionAdopts
  <2> QED BY <1>4, <2>1, <2>2 DEF s1
<1>5. CASE HearNothing
  <2>1. received' = received
    BY <1>5 DEF HearNothing
  <2>2. CASE Idle
    BY <1>3, <2>1, <2>2 DEF Idle, tableVars
  <2>3. CASE doInitFails \/ FaultCleared \/ HandleFault \/ Demote
    BY <1>3, <2>1, <2>3, RestingSteps DEF tableVars, Resting
  <2>4. CASE NoDecision
    BY <1>3, <2>1, <2>4 DEF NoDecision, tableVars
  <2>5. CASE AloneDecision
    <3>1. UNCHANGED <<foreign, portState>> /\ portState = "MASTER"
      BY <2>5 DEF AloneDecision, tableVars
    <3> QED BY <2>1, <3>1
  <2>6. CASE ReceiptTimeout
    <3>1. foreign' = foreign /\ portState' \in {"MASTER", "LISTENING"}
      BY <2>6 DEF ReceiptTimeout, toState, portVars
    <3> QED BY <2>1, <3>1
  <2> QED
    BY <1>4, <1>5, <2>1, <2>2, <2>3, <2>4, <2>5, <2>6, IdleSteps
    DEF HearNothing, doState, WaitingTimers, MasterTimersRound
<1>6. CASE UNCHANGED historyVars
  BY <1>3, <1>6 DEF historyVars, vars, portVars, tableVars
<1> QED BY <1>1, <1>2, <1>5, <1>6 DEF HistoryNext

(* A port that follows another clock holds the data of one Announce it     *)
(* really received.                                                        *)
THEOREM DataIsGenuine == HistorySpec => []FollowsGenuineAnnounce
<1>1. HistoryInit => Init /\ GenuineInv
  BY DEF HistoryInit, Init, GenuineInv, TableReceived, FollowsGenuineAnnounce,
     Slots
<1>2. GenuineInv => FollowsGenuineAnnounce
  BY DEF GenuineInv
<1> QED
  BY <1>1, <1>2, HistoryStep, TypeInit, TypeNext, TableInit, TableNext,
     TableInvImplies, GenuineNext, PTL
  DEF HistorySpec

-----------------------------------------------------------------------------
(* The port implements an ordinary clock.  Whether a step is one of        *)
(* OrdinaryClock depends on where the daemon is: only a MASTER is between  *)
(* its timers and handle, and a port that must initialise does that next.  *)

PlaceInv ==
  /\ portState = "INITIALIZING" => pc = "protocol"
  /\ pc \in {"announce", "pdelayreq", "handle"} => portState = "MASTER"

LEMMA PlaceNext == TypeOK /\ PlaceInv /\ [Next]_vars => PlaceInv'
<1> SUFFICES ASSUME TypeOK, PlaceInv, [Next]_vars PROVE PlaceInv'
  OBVIOUS
<1> USE DEF PlaceInv
<1>1. CASE doInit \/ doInitFails \/ FaultCleared
  BY <1>1 DEF doInit, doInitFails, FaultCleared, toState
<1>2. CASE NoDecision \/ AloneDecision
  BY <1>2 DEF NoDecision, AloneDecision, EnterDoState
<1>3. CASE StateDecision
  <2>1. portState' # "INITIALIZING"
    BY <1>3, DecisionStep
  <2> QED BY <1>3, <2>1 DEF StateDecision, EnterDoState
<1>4. CASE handle
  <2>1. AtHandle /\ AfterHandle /\ (portState' = portState \/ portState' = "FAULTY")
    BY <1>4 DEF handle, HandleNothing, HandleFault, HandleOther, HandleDelayResp,
       handleAnnounce, AnnounceFromParent, AnnounceFromOther, AnnounceFiled,
       ReceiveAnnounce, toState, portVars
  <2> QED BY <2>1 DEF AtHandle, AfterHandle
<1>5. CASE WaitingTimers
  BY <1>5 DEF WaitingTimers, ReceiptTimeout, NoReceiptTimeout, Expired,
     IssueDelayRequest, NoDelayRequest, Issue, NotExpired, toState, portVars
<1>6. CASE MasterTimersRound
  BY <1>6 DEF MasterTimersRound, issueSync, NoSync, issueAnnounce, NoAnnounce,
     AfterAnnounce, MasterPDelayReq, NoMasterPDelayReq, Demote, Issue,
     NotExpired, Expired, toState, portVars
<1>7. CASE catch_alarm \/ Terminated \/ UNCHANGED vars
  BY <1>7 DEF catch_alarm, Terminated, vars, portVars
<1> QED
  BY <1>1, <1>2, <1>3, <1>4, <1>5, <1>6, <1>7 DEF Next, protocol, doState

(* The variables of the ordinary clock stay when these do                  *)
LEMMA RefineNothing ==
  ASSUME UNCHANGED <<portState, dataSet, clockClass, received>>
  PROVE  UNCHANGED Ordinary!vars
BY DEF Ordinary!vars

(* A change of state that leaves the data alone                            *)
LEMMA RefineState ==
  ASSUME UNCHANGED <<dataSet, clockClass, received>>,
         \/ portState' = "FAULTY"
         \/ portState' = "LISTENING" /\ portState # "INITIALIZING"
         \/ portState' = "INITIALIZING" /\ portState = "FAULTY"
  PROVE  Ordinary!Next
BY DEF Ordinary!Next, Ordinary!Fail, Ordinary!Listen, Ordinary!Reset

(* A change of state in which the port takes the data of its own clock     *)
LEMMA RefineLead ==
  ASSUME UNCHANGED <<clockClass, received>>, portState # "INITIALIZING",
         portState' = "MASTER", dataSet' = m1(clockClass)
  PROVE  Ordinary!Next
BY DEF Ordinary!Next, Ordinary!Lead

LEMMA RefineHear ==
  ASSUME TypeOK, PlaceInv, NEW a \in Announces, Hear(a)
  PROVE  Ordinary!Next
<1>1. /\ s1(a).parent = a.src
      /\ {s1(b) : b \in received'} = {s1(b) : b \in received} \cup {s1(a)}
  BY DEF Hear, s1
<1>2. UNCHANGED <<portState, clockClass>> /\ portState \in Ordinary!Elected
  BY DEF Hear, handleAnnounce, AnnounceFromParent, AnnounceFromOther,
     AnnounceFiled, ReceiveAnnounce, configVars, AtHandle, PlaceInv, Waiting,
     Ordinary!Elected
<1>3. dataSet' = IF portState = "SLAVE" /\ a.src = dataSet.parent THEN s1(a)
                                                                  ELSE dataSet
  BY DEF Hear, handleAnnounce, AnnounceFromParent, AnnounceFromOther,
     AnnounceFiled
<1>4. Ordinary!Hear(s1(a))
  BY <1>1, <1>2, <1>3 DEF Ordinary!Hear, Origin
<1> QED BY <1>4 DEF Ordinary!Next

LEMMA RefineDecision ==
  ASSUME TypeOK, BmcReadsAnnouncedRecords, TableReceived, StateDecision,
         UNCHANGED received
  PROVE  Ordinary!Next
<1>1. UNCHANGED <<clockClass, received>> /\ portState \in Ordinary!Elected
  BY DEF StateDecision, configVars, Deciding, Waiting, Ordinary!Elected
<1>2. PICK k \in 0 .. LastScanned :
        /\ dataSet' = DataSetFor(portState', foreign[k])
        /\ portState' \in {"SLAVE", "LISTENING", "MASTER", "FAULTY", "PASSIVE"}
  BY DecisionStep
<1>3. portState # "INITIALIZING"
  BY <1>1 DEF Ordinary!Elected
<1>4. CASE portState' \in {"SLAVE", "PASSIVE"}
  BY <1>1, <1>4, DecisionAdopts DEF Ordinary!Next, Ordinary!Follow
<1>5. CASE portState' = "MASTER"
  BY <1>1, <1>2, <1>3, <1>5, RefineLead DEF DataSetFor
<1>6. CASE portState' \in {"LISTENING", "FAULTY"}
  BY <1>1, <1>2, <1>3, <1>6, RefineState DEF DataSetFor
<1> QED BY <1>2, <1>4, <1>5, <1>6

LEMMA RefineNext ==
  TypeOK /\ BmcReadsAnnouncedRecords /\ GenuineInv /\ PlaceInv
    /\ [HistoryNext]_historyVars => [Ordinary!Next]_Ordinary!vars
<1> SUFFICES ASSUME TypeOK, BmcReadsAnnouncedRecords, GenuineInv, PlaceInv,
                    [HistoryNext]_historyVars
             PROVE  Ordinary!Next \/ UNCHANGED Ordinary!vars
  OBVIOUS
<1>1. ASSUME NEW a \in Announces, Hear(a)
      PROVE  Ordinary!Next
  BY <1>1, RefineHear
<1>2. CASE Reinitialise
  BY <1>2 DEF Reinitialise, doInit, initData, toState, Ordinary!Next,
     Ordinary!Start
<1>3. CASE HearNothing
  <2>1. received' = received
    BY <1>3 DEF HearNothing
  <2>2. CASE Idle \/ NoDecision
    <3>1. UNCHANGED <<portState, dataSet, clockClass>>
      BY <2>2 DEF Idle, NoDecision, configVars
    <3> QED BY <2>1, <3>1, RefineNothing
  <2>3. CASE doInitFails \/ FaultCleared \/ HandleFault
    <3>1. UNCHANGED <<dataSet, clockClass>>
      BY <2>3, RestingSteps
    <3>2. portState' = "FAULTY" \/ (portState' = "INITIALIZING" /\ portState = "FAULTY")
      BY <2>3 DEF doInitFails, FaultCleared, HandleFault, toState
    <3> QED BY <2>1, <3>1, <3>2, RefineState
  <2>4. CASE Demote
    <3>1. UNCHANGED <<dataSet, clockClass>>
      BY <2>4, RestingSteps
    <3>2. portState # "INITIALIZING" /\ (portState' = portState \/ portState' = "LISTENING")
      BY <2>4 DEF Demote, toState, portVars, PlaceInv
    <3> QED BY <2>1, <3>1, <3>2, RefineNothing, RefineState
  <2>5. CASE AloneDecision
    <3>1. UNCHANGED clockClass /\ dataSet' = m1(clockClass)
          /\ portState = "MASTER" /\ portState' = "MASTER"
      BY <2>5 DEF AloneDecision, configVars
    <3> QED BY <2>1, <3>1, RefineLead
  <2>6. CASE StateDecision
    BY <2>1, <2>6, RefineDecision DEF GenuineInv
  <2>7. CASE ReceiptTimeout
    <3>1. UNCHANGED clockClass /\ portState # "INITIALIZING"
      BY <2>7 DEF ReceiptTimeout, Expired, configVars, PlaceInv
    <3>2. \/ dataSet' = m1(clockClass) /\ portState' = "MASTER"
          \/ dataSet' = dataSet /\ portState' = "LISTENING"
      BY <2>7 DEF ReceiptTimeout, toState, portVars
    <3> QED BY <2>1, <3>1, <3>2, RefineLead, RefineState
  <2> QED
    BY <1>3, <2>2, <2>3, <2>4, <2>5, <2>6, <2>7, IdleSteps
    DEF HearNothing, doState, WaitingTimers, MasterTimersRound
<1>4. CASE UNCHANGED historyVars
  BY <1>4, RefineNothing DEF historyVars, vars, portVars, configVars
<1> QED BY <1>1, <1>2, <1>3, <1>4 DEF HistoryNext

(* The port state machine implements an ordinary clock: whatever is heard, *)
(* lost or evicted, whenever timers expire and however often the port      *)
(* fails and starts again, its data changes with its role, by a decision   *)
(* or by an Announce of its parent, and is its own or one claim it heard.  *)
THEOREM Refinement == HistorySpec => ImplementsOrdinaryClock
<1>1. HistoryInit => Init /\ GenuineInv /\ PlaceInv /\ Ordinary!Init
  BY DEF HistoryInit, Init, GenuineInv, TableReceived, FollowsGenuineAnnounce,
     Slots, PlaceInv, Ordinary!Init
<1> QED
  BY <1>1, HistoryStep, TypeInit, TypeNext, TableInit, TableNext,
     TableInvImplies, GenuineNext, PlaceNext, RefineNext, PTL
  DEF HistorySpec, ImplementsOrdinaryClock, Ordinary!Spec

(* An ordinary clock that leads holds its own data, and one that follows   *)
(* holds a claim it heard: with the refinement, the port does.             *)
THEOREM OrdinaryClockAgrees == Ordinary!Spec => []Ordinary!DataGoesWithRole
<1>1. Ordinary!Init => Ordinary!DataGoesWithRole
  BY DEF Ordinary!Init, Ordinary!DataGoesWithRole
<1>2. Ordinary!DataGoesWithRole /\ [Ordinary!Next]_Ordinary!vars
        => Ordinary!DataGoesWithRole'
  BY DEF Ordinary!DataGoesWithRole, Ordinary!Next, Ordinary!vars,
     Ordinary!Start, Ordinary!Hear, Ordinary!Lead, Ordinary!Follow,
     Ordinary!Listen, Ordinary!Fail, Ordinary!Reset, Ordinary!Elected
<1> QED
  BY <1>1, <1>2, PTL DEF Ordinary!Spec

-----------------------------------------------------------------------------
(* The state decision finds the best grandmaster.  bmc's scan is the       *)
(* function best of Scan; that what it has found after k records is        *)
(* outranked by none of them is shown for the least k for which it would   *)
(* not be so.                                                              *)

Scanned == {foreign[k] : k \in 0 .. LastScanned}

LEMMA ScanOutranked ==
  ASSUME TypeOK, Agree(Scanned),
         NEW best \in [0 .. LastScanned -> 0 .. LastScanned], Scan(best),
         NEW j \in 0 .. LastScanned
  PROVE  ~Precedes(foreign[j], foreign[best[LastScanned]])
<1>1. LastScanned \in Nat /\ \A k \in 0 .. LastScanned : k \in Slots
  BY TableAssumption DEF LastScanned, TypeOK, Slots
<1>2. Scanned \in SUBSET Announce /\ \A k \in 0 .. LastScanned : foreign[k] \in Scanned
  BY <1>1 DEF Scanned, TypeOK
<1> DEFINE Missed(k) == \E l \in 0 .. k : Precedes(foreign[l], foreign[best[k]])
           Bad == {k \in 0 .. LastScanned : Missed(k)}
           R == {ss \in Nat \X Nat : ss[1] < ss[2]}
<1>3. ASSUME Bad # {} PROVE FALSE
  <2>1. IsWellFoundedOn(R, Nat)
    BY NatLessThanWellFounded DEF OpToRel
  <2>2. Bad \in SUBSET Nat
    BY <1>1
  <2>3. PICK k \in Bad : \A m \in Bad : <<m, k>> \notin R
    <3> HIDE DEF R, Bad
    <3> QED BY <1>3, <2>1, <2>2, WFMin
  <2>4. k \in 0 .. LastScanned /\ best[k] \in 0 .. LastScanned
    BY <2>3
  <2>5. PICK l \in 0 .. k : Precedes(foreign[l], foreign[best[k]])
    BY <2>3
  <2>6. l \in 0 .. LastScanned
    BY <1>1, <2>4
  <2>7. CASE k = 0
    <3>1. l = 0 /\ best[k] = 0
      BY <2>7 DEF Scan
    <3> QED BY <1>2, <2>5, <2>6, <3>1, RanksOrder
  <2>8. CASE k # 0
    <3>1. /\ k - 1 \in 0 .. LastScanned /\ k \in DOMAIN best \ {0}
          /\ l = k \/ l \in 0 .. k - 1
          /\ <<k - 1, k>> \in R
      <4>1. k \in Nat /\ k - 1 \in Nat /\ k - 1 < k /\ k <= LastScanned
        BY <1>1, <2>4, <2>8
      <4>2. <<k - 1, k>> \in R
        BY <4>1
      <4>3. DOMAIN best = 0 .. LastScanned
        OBVIOUS
      <4> HIDE DEF R
      <4> QED BY <1>1, <2>4, <2>5, <2>8, <4>1, <4>2, <4>3
    <3>2. best[k - 1] \in 0 .. LastScanned
      BY <3>1
    <3>3. ~Missed(k - 1)
      BY <2>3, <3>1
    <3>4. best[k] = IF bmcDataSetComparison(foreign[k], foreign[best[k - 1]],
                                            dataSet.parent) < 0
                    THEN k ELSE best[k - 1]
      BY <3>1 DEF Scan
    <3> DEFINE a == foreign[k]
               b == foreign[best[k - 1]]
               c == foreign[l]
    <3>5. a \in Scanned /\ b \in Scanned /\ c \in Scanned
      BY <1>2, <2>4, <2>6, <3>2
    <3>6. /\ bmcDataSetComparison(a, b, dataSet.parent) < 0 => ~Precedes(b, a)
          /\ ~(bmcDataSetComparison(a, b, dataSet.parent) < 0) => ~Precedes(a, b)
      <4> HIDE DEF a, b
      <4> QED BY <1>2, <3>5, SignFollowsRank
    <3>7. l # k => ~Precedes(c, b)
      BY <3>1, <3>3
    <3>8. l = k => c = a
      OBVIOUS
    <3>9. \/ foreign[best[k]] = a /\ ~Precedes(b, a)
          \/ foreign[best[k]] = b /\ ~Precedes(a, b)
      BY <3>4, <3>6
    <3>10. a \in Announce /\ b \in Announce /\ c \in Announce
      BY <1>2, <3>5
    <3>11. ~Precedes(c, foreign[best[k]])
      <4> HIDE DEF a, b, c
      <4> QED BY <3>7, <3>8, <3>9, <3>10, RanksOrder
    <3> QED BY <2>5, <3>11
  <2> QED BY <2>7, <2>8
<1>4. LastScanned \in 0 .. LastScanned
  BY <1>1
<1> QED BY <1>3, <1>4

(* m1 and s1 adopt the grandmaster they are about as it is *)
LEMMA AdoptedRanks ==
  /\ \A r : Ranks(s1(r)) = Ranks(r)
  /\ \A c : Ranks(m1(c)) = Ranks(copyD0(c))
BY DEF Ranks, s1, m1, copyD0

LEMMA DecisionOutranked ==
  ASSUME TypeOK, FollowerInv, StateDecision,
         portState' \in {"MASTER", "SLAVE", "PASSIVE"}, Agree(Choices),
         NEW a \in Choices
  PROVE  ~Before(Ranks(a), Ranks(dataSet'))
<1>1. PICK best \in [0 .. LastScanned -> 0 .. LastScanned] :
        /\ Scan(best)
        /\ dataSet' = DataSetFor(bmcStateDecision(foreign[best[LastScanned]]),
                                 foreign[best[LastScanned]])
        /\ TakeDecision(bmcStateDecision(foreign[best[LastScanned]]))
  BY DEF StateDecision
<1>2. PICK r : r = foreign[best[LastScanned]]
  OBVIOUS
<1>3. PICK d : d = bmcStateDecision(r)
  OBVIOUS
<1>4. PICK own : own = copyD0(clockClass)
  OBVIOUS
<1>5. portState' = d /\ dataSet' = DataSetFor(d, r)
  BY <1>1, <1>2, <1>3 DEF TakeDecision, toState
<1>6. number_foreign_records > 0
  <2> SUFFICES ASSUME number_foreign_records = 0 PROVE FALSE
    BY DEF TypeOK
  <2>1. ~rtOpts.slaveOnly
    BY DEF Choices
  <2>2. portState = "LISTENING"
    BY <2>1 DEF StateDecision, Deciding, Waiting, FollowerInv, Following
  <2> QED BY <1>3, <1>5, <2>1, <2>2 DEF bmcStateDecision
<1>7. LastScanned = number_foreign_records - 1 /\ number_foreign_records \in Nat
  BY <1>6 DEF LastScanned, TypeOK
<1>8. /\ Scanned \subseteq Choices /\ r \in Scanned /\ r \in Choices
      /\ ~rtOpts.slaveOnly => own \in Choices
      /\ a \in Scanned \/ (a = own /\ ~rtOpts.slaveOnly)
  <2>1. LastScanned \in 0 .. LastScanned
    BY <1>6, <1>7
  <2> QED BY <1>2, <1>4, <1>7, <2>1 DEF Scanned, Choices
<1>9. Choices \in SUBSET Announce
  <2>1. \A k \in 0 .. number_foreign_records - 1 : k \in Slots
    BY TableAssumption DEF TypeOK, Slots
  <2> QED BY <2>1, DataSetTypes DEF Choices, TypeOK
<1>10. \A s \in Scanned : ~Precedes(s, r)
  <2>1. Agree(Scanned)
    BY <1>8 DEF Agree
  <2> QED BY <1>1, <1>2, <2>1, ScanOutranked DEF Scanned
<1>11. CASE d = "MASTER"
  <2>1. ~rtOpts.slaveOnly /\ bmcDataSetComparison(own, r, dataSet.parent) < 0
    BY <1>3, <1>4, <1>11 DEF bmcStateDecision
  <2>2. ~Precedes(r, own)
    BY <1>8, <1>9, <2>1, SignFollowsRank
  <2>3. ~Precedes(a, own)
    BY <1>8, <1>9, <1>10, <2>1, <2>2, RanksOrder
  <2>4. ~Before(Ranks(a), Ranks(own))
    BY <1>8, <1>9, <2>1, <2>3, BeforeRanks
  <2>5. dataSet' = m1(clockClass)
    BY <1>5, <1>11 DEF DataSetFor
  <2> QED BY <1>4, <2>4, <2>5, AdoptedRanks
<1>12. CASE d \in {"SLAVE", "PASSIVE"}
  <2>1. ~rtOpts.slaveOnly => ~(bmcDataSetComparison(own, r, dataSet.parent) < 0)
    BY <1>3, <1>4, <1>12 DEF bmcStateDecision
  <2>2. ~rtOpts.slaveOnly => ~Precedes(own, r)
    BY <1>8, <1>9, <2>1, SignFollowsRank
  <2>3. ~Precedes(a, r)
    BY <1>8, <1>10, <2>2
  <2>4. ~Before(Ranks(a), Ranks(r))
    BY <1>8, <1>9, <2>3, BeforeRanks
  <2>5. dataSet' = s1(r)
    BY <1>5, <1>12 DEF DataSetFor
  <2> QED BY <2>4, <2>5, AdoptedRanks
<1> QED BY <1>5, <1>11, <1>12

(* Whatever the table holds and whoever the parent is, for a table of any  *)
(* size: each state decision ends with a grandmaster that neither the      *)
(* port's own clock nor a record outranks.                                 *)
THEOREM DecisionsAreRight == Spec => DecidesForBestGrandmaster
<1>1. Init => FollowerInv
  BY DEF Init, FollowerInv, Following
<1>2. TypeOK /\ FollowerInv /\ [Next]_vars
        => [StateDecision /\ portState' \in {"MASTER", "SLAVE", "PASSIVE"}
              /\ Agree(Choices)
            => \A a \in Choices : ~Before(Ranks(a), Ranks(dataSet'))]_vars
  BY DecisionOutranked
<1> QED
  BY <1>1, <1>2, TypeInit, TypeNext, FollowerNext, PTL
  DEF Spec, DecidesForBestGrandmaster

(* No decision is ever left open among clocks that agree, unless one of    *)
(* them names this port as its grandmaster: it is only for variances that  *)
(* differ, which the comparison forgets, that bmcStateDecision falls       *)
(* through to FAULTY.                                                      *)
THEOREM AgreementDecides ==
  Spec => [][StateDecision /\ Agree(Choices)
               /\ (\A k \in 0 .. number_foreign_records - 1 : foreign[k].gm # OwnId)
             => portState' # "FAULTY"]_vars
<1>1. Init => FollowerInv
  BY DEF Init, FollowerInv, Following
<1>2. ASSUME TypeOK, FollowerInv, StateDecision, Agree(Choices),
             \A k \in 0 .. number_foreign_records - 1 : foreign[k].gm # OwnId
      PROVE  portState' # "FAULTY"
  <2>1. PICK k \in 0 .. LastScanned : portState' = bmcStateDecision(foreign[k])
    BY <1>2, DecisionStep
  <2>2. CASE rtOpts.slaveOnly
    BY <2>1, <2>2 DEF bmcStateDecision
  <2>3. CASE ~rtOpts.slaveOnly /\ number_foreign_records = 0
    <3>1. portState = "LISTENING"
      BY <1>2, <2>3 DEF StateDecision, Deciding, Waiting, FollowerInv, Following
    <3> QED BY <2>1, <2>3, <3>1 DEF bmcStateDecision
  <2>4. CASE ~rtOpts.slaveOnly /\ number_foreign_records # 0
    <3>1. k \in 0 .. number_foreign_records - 1 /\ k \in Slots
      BY <1>2, <2>4, TableAssumption DEF LastScanned, TypeOK, Slots
    <3>2. PICK own : own = copyD0(clockClass)
      OBVIOUS
    <3>3. own \in Choices /\ foreign[k] \in Choices
      BY <2>4, <3>1, <3>2 DEF Choices
    <3>4. own \in Announce /\ foreign[k] \in Announce
      BY <1>2, <3>1, <3>2, DataSetTypes DEF TypeOK
    <3>5. own.gm # foreign[k].gm /\ own.var = foreign[k].var
      BY <1>2, <3>1, <3>2, <3>3 DEF copyD0, Agree
    <3>6. bmcDataSetComparison(own, foreign[k], dataSet.parent) # 0
      BY <3>4, <3>5, EqualVarianceDecides
    <3> QED BY <2>1, <3>2, <3>6 DEF bmcStateDecision
  <2> QED BY <2>2, <2>3, <2>4
<1>3. TypeOK /\ FollowerInv /\ [Next]_vars
        => [StateDecision /\ Agree(Choices)
              /\ (\A k \in 0 .. number_foreign_records - 1 : foreign[k].gm # OwnId)
            => portState' # "FAULTY"]_vars
  BY <1>2
<1> QED
  BY <1>1, <1>3, TypeInit, TypeNext, FollowerNext, PTL DEF Spec
=============================================================================
