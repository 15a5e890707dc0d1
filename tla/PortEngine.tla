----------------------------- MODULE PortEngine -----------------------------
(***************************************************************************)
(* The PTP port state machine: protocol(), doState(), toState(), doInit()  *)
(* and the Announce side of handle() in protocol.cc, the best master clock *)
(* decision of bmc.cc and the timers of timer.cc.                          *)
(*                                                                         *)
(* The daemon is one thread; the only thing concurrent with it is the      *)
(* SIGALRM handler, which adds a tick to `elapsed' between any two of its  *)
(* steps.  One call of doState is therefore cut where the code reads       *)
(* `elapsed' (every timerExpired) or waits (netSelect in handle); pc names *)
(* the place reached.  Code between two such places is one action.         *)
(*                                                                         *)
(* Messages other than Announce do not touch this state, except that a     *)
(* DelayResp sets a timer's length: they appear as HandleOther and         *)
(* HandleDelayResp.  What they do to the delay measurement and to the      *)
(* servo is not part of this module.                                       *)
(***************************************************************************)
EXTENDS BestMaster, Timers

CONSTANTS
  Options,               \* the RunTimeOpts a daemon may be started with:
                         \* E2E_mode (-h), slaveOnly (-g), clockClass (-s)
  max_foreign_records,   \* -m
  PdelayReqTicks, DelayReqTicks, SyncTicks,       \* timer lengths, in ticks
  AnnounceReceiptTicks, AnnounceTicks,
  GrantedTicks,          \* DelayReq intervals a master may ask for
  Announces,             \* the Announce messages other clocks may send
  MaxElapsed             \* bound: ticks that pile up while the daemon works

RunTimeOpts == [E2E_mode : BOOLEAN, slaveOnly : BOOLEAN, clockClass : Nat]

ASSUME OptionsAssumption == Options \subseteq RunTimeOpts
ASSUME TableAssumption == max_foreign_records \in Nat \ {0}
ASSUME TicksAssumption ==
  /\ PdelayReqTicks \in Nat \ {0} /\ DelayReqTicks \in Nat \ {0}
  /\ SyncTicks \in Nat \ {0} /\ AnnounceTicks \in Nat \ {0}
  /\ AnnounceReceiptTicks \in Nat \ {0}
  /\ GrantedTicks \subseteq Nat \ {0}
ASSUME AnnouncesAssumption ==
  Announces \subseteq {a \in Announce : a.src.id \notin {0, OwnId}}
ASSUME MaxElapsedAssumption == MaxElapsed \in Nat

VARIABLES
  pc,                      \* where the daemon is, see Places
  portState,
  message_activity,
  itimer,
  elapsed,                 \* timer.cc's global, incremented by catch_alarm
  foreign,                 \* the foreign master table (calloc'ed once)
  number_foreign_records,
  foreign_record_i,        \* where the next new master is written
  foreign_record_best,
  record_update,           \* an Announce changed the table since the last bmc
  dataSet,                 \* current and parent data set
  clockClass,              \* ptpClock->clockQuality.clockClass
  rtOpts,                  \* the options; initData changes the class in them
  delayReqTicks            \* 2 ^ logMinDelayReqInterval

timerVars   == <<itimer, elapsed>>
tableVars   == <<foreign, number_foreign_records, foreign_record_i,
                 foreign_record_best>>
configVars  == <<clockClass, rtOpts, delayReqTicks>>
portVars    == <<portState, message_activity>>
vars        == <<pc, portVars, timerVars, tableVars, record_update, dataSet,
                 configVars>>

(* "protocol" is the head of the loop in protocol(); the others are inside *)
(* doState.  The daemon has "returned" when doInit fails.                  *)
Places == {"protocol", "actions", "receipt", "delayreq",
           "announce", "pdelayreq", "handle", "demote", "returned"}

(* States toState is ever called with.  DISABLED, PRE_MASTER and           *)
(* UNCALIBRATED exist in the enumeration only.                             *)
PortStates == {"INITIALIZING", "FAULTY", "LISTENING", "MASTER", "PASSIVE",
               "SLAVE"}
Waiting    == {"LISTENING", "PASSIVE", "SLAVE"}
Deciding   == Waiting \cup {"MASTER"}

Slots == 0 .. max_foreign_records - 1
-----------------------------------------------------------------------------
(* toState *)

Ticks ==
  [t \in TimerNames |->
     CASE t = PDELAYREQ_INTERVAL_TIMER -> PdelayReqTicks
       [] t = DELAYREQ_INTERVAL_TIMER  -> delayReqTicks
       [] t = SYNC_INTERVAL_TIMER      -> SyncTicks
       [] t = ANNOUNCE_RECEIPT_TIMER   -> AnnounceReceiptTicks
       [] t = ANNOUNCE_INTERVAL_TIMER  -> AnnounceTicks]

(* The timer of the delay mechanism a slave uses                           *)
DelayTimer(e2e) == IF e2e THEN DELAYREQ_INTERVAL_TIMER
                          ELSE PDELAYREQ_INTERVAL_TIMER

MasterTimers == {SYNC_INTERVAL_TIMER, ANNOUNCE_INTERVAL_TIMER,
                 PDELAYREQ_INTERVAL_TIMER}

(* Mutant: SLAVE stops the peer delay timer in either mode *)
StoppedOnLeaving_peerOnly(s, e2e) ==
  CASE s = "MASTER"    -> MasterTimers
    [] s \in {"SLAVE", "PASSIVE"} ->
         {PDELAYREQ_INTERVAL_TIMER, ANNOUNCE_RECEIPT_TIMER}
    [] s = "LISTENING" -> {ANNOUNCE_RECEIPT_TIMER}
    [] OTHER           -> {}

StoppedOnLeaving(s, e2e) ==
  CASE s = "MASTER"    -> MasterTimers
    [] s = "SLAVE"     -> {ANNOUNCE_RECEIPT_TIMER, DelayTimer(e2e)}
    [] s = "PASSIVE"   -> {PDELAYREQ_INTERVAL_TIMER, ANNOUNCE_RECEIPT_TIMER}
    [] s = "LISTENING" -> {ANNOUNCE_RECEIPT_TIMER}
    [] OTHER           -> {}

(* Mutant: LISTENING starts no timer *)
StartedOnEntering_listensOnly(s, e2e) ==
  CASE s = "MASTER"    -> MasterTimers
    [] s = "SLAVE"     -> {ANNOUNCE_RECEIPT_TIMER, DelayTimer(e2e)}
    [] s = "PASSIVE"   -> {PDELAYREQ_INTERVAL_TIMER, ANNOUNCE_RECEIPT_TIMER}
    [] OTHER           -> {}

StartedOnEntering(s, e2e) ==
  CASE s = "MASTER"    -> MasterTimers
    [] s = "SLAVE"     -> {ANNOUNCE_RECEIPT_TIMER, DelayTimer(e2e)}
    [] s = "PASSIVE"   -> {PDELAYREQ_INTERVAL_TIMER, ANNOUNCE_RECEIPT_TIMER}
    [] s = "LISTENING" -> {ANNOUNCE_RECEIPT_TIMER}
    [] OTHER           -> {}

TimersAfter(from, to, e2e, timers) ==
  [t \in TimerNames |->
     IF t \in StartedOnEntering(to, e2e) THEN timerStart(Ticks[t])
     ELSE IF t \in StoppedOnLeaving(from, e2e) THEN timerStop(timers[t])
     ELSE timers[t]]

(* toState(s) when the timers stand at `timers'                            *)
toState(s, timers) ==
  /\ portState' = s
  /\ message_activity' = TRUE
  /\ itimer' = TimersAfter(portState, s, rtOpts.E2E_mode, timers)

-----------------------------------------------------------------------------
(* Initialisation.  The first toState(PTP_INITIALIZING) of protocol() acts *)
(* on a zeroed PtpClock, whose portState already is INITIALIZING (0).      *)
Init ==
  /\ pc = "protocol"
  /\ portState = "INITIALIZING"
  /\ message_activity = TRUE
  /\ itimer = [t \in TimerNames |-> ZeroTimer]
  /\ elapsed = 0
  /\ foreign = [k \in Slots |-> ZeroRecord]
  /\ number_foreign_records = 0
  /\ foreign_record_i = 0
  /\ foreign_record_best = 0
  /\ record_update = FALSE
  /\ dataSet = ZeroDataSet
  /\ clockClass = 0
  /\ rtOpts \in Options
  /\ delayReqTicks = DelayReqTicks   \* not read before initData sets it

(* initData copies the class before it sets the configured one to 255, and *)
(* of the foreign master bookkeeping it resets only the number of records. *)
initData ==
  /\ clockClass' = rtOpts.clockClass
  /\ rtOpts' = IF rtOpts.slaveOnly THEN [rtOpts EXCEPT !.clockClass = 255]
                                   ELSE rtOpts
  /\ delayReqTicks' = DelayReqTicks
  /\ number_foreign_records' = 0
  /\ UNCHANGED <<foreign, foreign_record_i, foreign_record_best, record_update>>

(* initTimer drops the ticks counted so far *)
initTimer == elapsed' = 0

doInit ==
  /\ pc = "protocol" /\ portState = "INITIALIZING"
  /\ initData
  /\ initTimer
  /\ dataSet' = m1(rtOpts.clockClass)
  /\ toState("LISTENING", itimer)
  /\ UNCHANGED pc

(* netInit fails: doInit returns FALSE and so does protocol(), in spite of *)
(* the transition to FAULTY made on the way out.                           *)
doInitFails ==
  /\ pc = "protocol" /\ portState = "INITIALIZING"
  /\ pc' = "returned"
  /\ toState("FAULTY", itimer)
  /\ UNCHANGED <<elapsed, tableVars, record_update, dataSet, configVars>>

-----------------------------------------------------------------------------
(* The state decision at the head of doState *)

(* bmc's scan: best[k] is the value of `best' once record k was compared   *)
Scan(best) ==
  /\ best[0] = 0
  /\ \A k \in DOMAIN best \ {0} :
       best[k] = IF bmcDataSetComparison(foreign[k], foreign[best[k - 1]],
                                         dataSet.parent) < 0
                 THEN k ELSE best[k - 1]

(* Mutant: the loop ends one record early *)
LastScanned_early == IF number_foreign_records < 2 THEN 0
                                                   ELSE number_foreign_records - 2

(* With no record the loop does not run, and slot 0 is "best"              *)
LastScanned == IF number_foreign_records = 0 THEN 0
                                             ELSE number_foreign_records - 1

bmcStateDecision(record) ==
  LET comparison == bmcDataSetComparison(copyD0(clockClass), record,
                                         dataSet.parent)
  IN  IF rtOpts.slaveOnly THEN "SLAVE"
      ELSE IF number_foreign_records = 0 /\ portState = "LISTENING"
           THEN "LISTENING"
      ELSE IF comparison < 0 THEN "MASTER"
      ELSE IF comparison = 0 THEN "FAULTY"
      ELSE IF clockClass < 128 THEN "PASSIVE" ELSE "SLAVE"

(* Mutant: s1 where m1 belongs *)
DataSetFor_s1Always(decision, record) ==
  CASE decision \in {"MASTER", "SLAVE", "PASSIVE"} -> s1(record)
    [] OTHER                                       -> dataSet

(* The data set that goes with the decision: m1 for MASTER, s1 for a       *)
(* foreign master, none when the port keeps LISTENING or turns FAULTY.     *)
DataSetFor(decision, record) ==
  CASE decision = "MASTER"               -> m1(clockClass)
    [] decision \in {"SLAVE", "PASSIVE"} -> s1(record)
    [] OTHER                             -> dataSet

TakeDecision(decision) ==
  IF decision = portState
  THEN message_activity' = FALSE /\ UNCHANGED <<portState, itimer>>
  ELSE toState(decision, itimer)

(* doState clears message_activity and, when the table changed, runs bmc   *)
EnterDoState ==
  /\ pc = "protocol" /\ portState # "INITIALIZING"
  /\ pc' = "actions"

NoDecision ==
  /\ EnterDoState
  /\ ~record_update \/ portState \notin Deciding
  /\ message_activity' = FALSE
  /\ UNCHANGED <<portState, timerVars, tableVars, record_update, dataSet,
                 configVars>>

(* STATE_DECISION_EVENT of a master that knows no other *)
AloneDecision ==
  /\ EnterDoState
  /\ record_update /\ portState = "MASTER" /\ number_foreign_records = 0
  /\ record_update' = FALSE
  /\ message_activity' = FALSE
  /\ dataSet' = m1(clockClass)
  /\ UNCHANGED <<portState, timerVars, tableVars, configVars>>

StateDecision ==
  /\ EnterDoState
  /\ record_update /\ portState \in Deciding
  /\ portState = "MASTER" => number_foreign_records > 0
  /\ record_update' = FALSE
  /\ \E best \in [0 .. LastScanned -> 0 .. LastScanned] :
       /\ Scan(best)
       /\ LET record   == foreign[best[LastScanned]]
              decision == bmcStateDecision(record)
          IN  /\ foreign_record_best' = best[LastScanned]
              /\ dataSet' = DataSetFor(decision, record)
              /\ TakeDecision(decision)
  /\ UNCHANGED <<elapsed, foreign, number_foreign_records, foreign_record_i,
                 configVars>>

(* Mutant: the fault is noticed and nothing done about it *)
FaultCleared_ignored ==
  /\ pc = "actions" /\ portState = "FAULTY"
  /\ pc' = "protocol"
  /\ UNCHANGED <<portVars, timerVars, tableVars, record_update, dataSet,
                 configVars>>

(* FAULTY: "imaginary troubleshooting", then initialise again *)
FaultCleared ==
  /\ pc = "actions" /\ portState = "FAULTY"
  /\ pc' = "protocol"
  /\ toState("INITIALIZING", itimer)
  /\ UNCHANGED <<elapsed, tableVars, record_update, dataSet, configVars>>
-----------------------------------------------------------------------------
(* handle: at most one message, before the timers are looked at in the     *)
(* waiting states and after them in MASTER                                 *)
AtHandle == \/ pc = "actions" /\ portState \in Waiting
            \/ pc = "handle"
AfterHandle == pc' = IF pc = "handle" THEN "demote" ELSE "receipt"

(* select and the receive calls give nothing.  Right after a change of     *)
(* state handle does not wait; otherwise select only ends because a tick   *)
(* interrupts it.                                                          *)
HandleNothing ==
  /\ AtHandle /\ AfterHandle
  /\ elapsed' = IF message_activity THEN elapsed ELSE elapsed + 1
  /\ UNCHANGED <<portVars, itimer, tableVars, record_update, dataSet, configVars>>

(* A receive error, a message shorter than its type demands *)
HandleFault ==
  /\ AtHandle /\ AfterHandle
  /\ toState("FAULTY", itimer)
  /\ UNCHANGED <<elapsed, tableVars, record_update, dataSet, configVars>>

(* Any other message that is no Announce from another clock of the domain: *)
(* wrong version or domain, the port's own Announce looped back, the       *)
(* messages of the delay mechanism                                         *)
HandleOther ==
  /\ AtHandle /\ AfterHandle
  /\ message_activity' = TRUE
  /\ UNCHANGED <<portState, timerVars, tableVars, record_update, dataSet,
                 configVars>>

(* The part of handleDelayResp that matters here: the master's answer to   *)
(* a slave's DelayReq sets how long the DELAYREQ timer runs when it is     *)
(* started next.                                                           *)
HandleDelayResp ==
  /\ AtHandle /\ AfterHandle
  /\ rtOpts.E2E_mode /\ portState = "SLAVE"
  /\ message_activity' = TRUE
  /\ delayReqTicks' \in GrantedTicks
  /\ UNCHANGED <<portState, timerVars, tableVars, record_update, dataSet,
                 clockClass, rtOpts>>

(* addForeign looks for the sender from the best record on, wrapping round *)
Probe(i) == IF i = 0 THEN foreign_record_best
            ELSE (foreign_record_best + i) % number_foreign_records
Hits(a) == {i \in 0 .. number_foreign_records - 1 :
              foreign[Probe(i)].src = a.src}

UpdateForeign(a) ==
  \E i \in Hits(a) :
    /\ \A k \in Hits(a) : i <= k
    /\ foreign' = [foreign EXCEPT ![Probe(i)] = a]
    /\ UNCHANGED <<number_foreign_records, foreign_record_i>>

(* Mutants: the index does not wrap; it is advanced before the record is   *)
(* written; the new record keeps the header of the one it replaces.        *)
NewForeign_noWrap(a) ==
  /\ Hits(a) = {}
  /\ foreign' = [foreign EXCEPT ![foreign_record_i] = a]
  /\ number_foreign_records' =
       IF number_foreign_records < max_foreign_records
       THEN number_foreign_records + 1 ELSE number_foreign_records
  /\ foreign_record_i' = foreign_record_i + 1

NewForeign_advanceFirst(a) ==
  /\ Hits(a) = {}
  /\ foreign_record_i' = (foreign_record_i + 1) % max_foreign_records
  /\ foreign' = [foreign EXCEPT ![foreign_record_i'] = a]
  /\ number_foreign_records' =
       IF number_foreign_records < max_foreign_records
       THEN number_foreign_records + 1 ELSE number_foreign_records

NewForeign_oldHeader(a) ==
  /\ Hits(a) = {}
  /\ foreign' = [foreign EXCEPT ![foreign_record_i] =
                   [a EXCEPT !.src = foreign[foreign_record_i].src]]
  /\ number_foreign_records' =
       IF number_foreign_records < max_foreign_records
       THEN number_foreign_records + 1 ELSE number_foreign_records
  /\ foreign_record_i' = (foreign_record_i + 1) % max_foreign_records

NewForeign(a) ==
  /\ Hits(a) = {}
  /\ foreign' = [foreign EXCEPT ![foreign_record_i] = a]
  /\ number_foreign_records' =
       IF number_foreign_records < max_foreign_records
       THEN number_foreign_records + 1 ELSE number_foreign_records
  /\ foreign_record_i' = (foreign_record_i + 1) % max_foreign_records

addForeign(a) ==
  /\ UpdateForeign(a) \/ NewForeign(a)
  /\ UNCHANGED foreign_record_best

RestartReceiptTimer ==
  itimer' = [itimer EXCEPT ![ANNOUNCE_RECEIPT_TIMER] =
               timerStart(Ticks[ANNOUNCE_RECEIPT_TIMER])]

(* Mutant: a slave does not call for a state decision *)
ReceiveAnnounce_quietSlave(a) ==
  /\ AtHandle /\ AfterHandle
  /\ a \in Announces
  /\ message_activity' = TRUE
  /\ record_update' = (record_update \/ portState # "SLAVE")
  /\ UNCHANGED <<portState, elapsed, configVars>>

(* What handleAnnounce does in every state it listens in *)
ReceiveAnnounce(a) ==
  /\ AtHandle /\ AfterHandle
  /\ a \in Announces
  /\ message_activity' = TRUE
  /\ record_update' = TRUE
  /\ UNCHANGED <<portState, elapsed, configVars>>

(* Mutant: whoever the master is *)
AnnounceFromParent_anyMaster(a) ==
  /\ ReceiveAnnounce(a)
  /\ portState = "SLAVE"
  /\ dataSet' = s1(a)
  /\ RestartReceiptTimer
  /\ UNCHANGED tableVars

(* A slave takes its parent's data straight into the data set; the         *)
(* parent's record in the table stays as it is.                            *)
AnnounceFromParent(a) ==
  /\ ReceiveAnnounce(a)
  /\ portState = "SLAVE" /\ a.src = dataSet.parent
  /\ dataSet' = s1(a)
  /\ RestartReceiptTimer
  /\ UNCHANGED tableVars

(* Another master's Announce restarts a slave's receipt timer as well *)
AnnounceFromOther(a) ==
  /\ ReceiveAnnounce(a)
  /\ portState = "SLAVE" /\ a.src # dataSet.parent
  /\ addForeign(a)
  /\ RestartReceiptTimer
  /\ UNCHANGED dataSet

(* LISTENING, PASSIVE and MASTER only file the record *)
AnnounceFiled(a) ==
  /\ ReceiveAnnounce(a)
  /\ portState # "SLAVE"
  /\ addForeign(a)
  /\ UNCHANGED <<itimer, dataSet>>
-----------------------------------------------------------------------------
(* The timers doState looks at.  timerExpired(t) at `place' hands the      *)
(* counted ticks to every timer before it looks at t.                      *)
Updated == timerUpdate(itimer, elapsed)

Expired(place, t) ==
  pc = place /\ elapsed' = 0 /\ Updated[t].expire

NotExpired(place, t, next) ==
  /\ pc = place /\ elapsed' = 0 /\ ~Updated[t].expire
  /\ itimer' = Updated
  /\ pc' = next
  /\ UNCHANGED <<portVars, tableVars, record_update, dataSet, configVars>>

(* ANNOUNCE_RECEIPT_TIMEOUT_EXPIRES, also for a port that handle has just  *)
(* made FAULTY                                                             *)
MayBeMaster == ~rtOpts.slaveOnly /\ clockClass # 255

ReceiptTimeout ==
  /\ Expired("receipt", ANNOUNCE_RECEIPT_TIMER)
  /\ number_foreign_records' = 0
  /\ foreign_record_i' = 0
  /\ LET timers == Acknowledge(Updated, ANNOUNCE_RECEIPT_TIMER)
     IN  \/ /\ MayBeMaster
            /\ dataSet' = m1(clockClass)
            /\ toState("MASTER", timers)
         \/ /\ ~MayBeMaster /\ portState # "LISTENING"
            /\ toState("LISTENING", timers)
            /\ UNCHANGED dataSet
         \/ /\ ~MayBeMaster /\ portState = "LISTENING"
            /\ itimer' = timers
            /\ UNCHANGED <<portVars, dataSet>>
  /\ pc' = "delayreq"
  /\ UNCHANGED <<foreign, foreign_record_best, record_update, configVars>>

NoReceiptTimeout == NotExpired("receipt", ANNOUNCE_RECEIPT_TIMER, "delayreq")

(* The issuing of a message changes nothing here but the timer's flag *)
Issue(place, t, next) ==
  /\ Expired(place, t)
  /\ itimer' = Acknowledge(Updated, t)
  /\ pc' = next
  /\ UNCHANGED <<portVars, tableVars, record_update, dataSet, configVars>>

(* issueDelayReq or issuePDelayReq, in whatever state the port now is *)
IssueDelayRequest == Issue("delayreq", DelayTimer(rtOpts.E2E_mode), "protocol")
NoDelayRequest    == NotExpired("delayreq", DelayTimer(rtOpts.E2E_mode), "protocol")

(* MASTER: Sync, Announce and (P2P) PdelayReq, then handle *)
AfterAnnounce == IF rtOpts.E2E_mode THEN "handle" ELSE "pdelayreq"

(* Mutant: Announce is only looked at when no Sync was due *)
issueSync_elseAnnounce == /\ portState = "MASTER"
                          /\ Issue("actions", SYNC_INTERVAL_TIMER, AfterAnnounce)

issueSync      == /\ portState = "MASTER"
                  /\ Issue("actions", SYNC_INTERVAL_TIMER, "announce")
NoSync         == /\ portState = "MASTER"
                  /\ NotExpired("actions", SYNC_INTERVAL_TIMER, "announce")
issueAnnounce  == Issue("announce", ANNOUNCE_INTERVAL_TIMER, AfterAnnounce)
NoAnnounce     == NotExpired("announce", ANNOUNCE_INTERVAL_TIMER, AfterAnnounce)
MasterPDelayReq == Issue("pdelayreq", PDELAYREQ_INTERVAL_TIMER, "handle")
NoMasterPDelayReq == NotExpired("pdelayreq", PDELAYREQ_INTERVAL_TIMER, "handle")

(* Mutant: it stays *)
Demote_never ==
  /\ pc = "demote"
  /\ pc' = "protocol"
  /\ UNCHANGED <<portVars, timerVars, tableVars, record_update, dataSet,
                 configVars>>

(* A clock that may not be master leaves the state after one round in it *)
Demote ==
  /\ pc = "demote"
  /\ pc' = "protocol"
  /\ IF MayBeMaster THEN UNCHANGED <<portVars, itimer>>
                    ELSE toState("LISTENING", itimer)
  /\ UNCHANGED <<elapsed, tableVars, record_update, dataSet, configVars>>

-----------------------------------------------------------------------------
(* catch_alarm, between any two steps of the daemon *)
catch_alarm ==
  /\ pc # "returned"
  /\ elapsed < MaxElapsed
  /\ elapsed' = elapsed + 1
  /\ UNCHANGED <<pc, portVars, itimer, tableVars, record_update, dataSet,
                 configVars>>

doState == NoDecision \/ AloneDecision \/ StateDecision \/ FaultCleared

handleAnnounce(a) ==
  AnnounceFromParent(a) \/ AnnounceFromOther(a) \/ AnnounceFiled(a)

handle == \/ HandleNothing \/ HandleFault \/ HandleOther
          \/ HandleDelayResp
          \/ \E a \in Announces : handleAnnounce(a)

WaitingTimers == \/ ReceiptTimeout \/ NoReceiptTimeout
                 \/ IssueDelayRequest \/ NoDelayRequest

MasterTimersRound == \/ issueSync \/ NoSync \/ issueAnnounce \/ NoAnnounce
                     \/ MasterPDelayReq \/ NoMasterPDelayReq \/ Demote

protocol == doInit \/ doInitFails \/ doState \/ handle \/ WaitingTimers
            \/ MasterTimersRound

(* protocol() has returned and the process shuts down *)
Terminated == pc = "returned" /\ UNCHANGED vars

Next == protocol \/ catch_alarm \/ Terminated

Spec == Init /\ [][Next]_vars

(* The daemon keeps looping and the interval timer of the kernel keeps     *)
(* firing; nothing is assumed of the other clocks.                         *)
FairSpec == Spec /\ WF_vars(protocol) /\ WF_vars(catch_alarm)
-----------------------------------------------------------------------------
(* Properties *)

(* Every variable keeps its type; in particular the indices into the       *)
(* foreign master table stay inside it.                                    *)
TypeOK ==
  /\ pc \in Places
  /\ portState \in PortStates
  /\ message_activity \in BOOLEAN
  /\ itimer \in [TimerNames -> IntervalTimer]
  /\ elapsed \in Nat
  /\ foreign \in [Slots -> Announce]
  /\ number_foreign_records \in 0 .. max_foreign_records
  /\ foreign_record_i \in Slots
  /\ foreign_record_best \in Slots
  /\ record_update \in BOOLEAN
  /\ dataSet \in DataSet
  /\ clockClass \in Nat
  /\ rtOpts \in RunTimeOpts
  /\ delayReqTicks \in Nat \ {0}

(* The timers that run are exactly those of the state the port is in: no   *)
(* path through toState leaks a timer into a state that never stops it, or *)
(* leaves a state waiting for a timer that does not run.                   *)
TimersMatchState ==
  \A t \in TimerNames :
    Running(itimer[t]) <=> t \in StartedOnEntering(portState, rtOpts.E2E_mode)

(* A port that is MASTER names itself as parent and grandmaster, whatever  *)
(* decision, timeout or late Announce brought it there.                    *)
MasterOwnsDataSet ==
  portState = "MASTER" => dataSet = m1(clockClass)

(* bmc never compares, and never elects, a slot of the table that no       *)
(* Announce was written to: an all-zero record would beat every real       *)
(* clock.  The indices survive re-initialisation and timeouts separately,  *)
(* so this is a fact about their whole history.                            *)
ReadsTable == \/ number_foreign_records > 0
              \/ portState \in {"SLAVE", "PASSIVE"}
              \/ portState = "LISTENING" /\ rtOpts.slaveOnly

BmcReadsAnnouncedRecords ==
  pc = "protocol" /\ record_update /\ ReadsTable
    => \A k \in 0 .. LastScanned : foreign[k] # ZeroRecord

(* A slave or passive port follows a clock it has a record of, once the    *)
(* state decision that its last Announce called for has been made.         *)
ParentIsRecorded ==
  pc = "actions" /\ portState \in {"SLAVE", "PASSIVE"} /\ ~rtOpts.slaveOnly
    => \E k \in 0 .. number_foreign_records - 1 :
         foreign[k].src = dataSet.parent

(* What the state decision is for: of the clocks it knows, its own and     *)
(* those in the table, the port ends up with a grandmaster that none       *)
(* outranks, be it as MASTER or as a follower, and whoever its parent was. *)
(* Only a port that must not be master disregards its own clock.           *)
Choices == {foreign[k] : k \in 0 .. number_foreign_records - 1}
             \cup (IF rtOpts.slaveOnly THEN {} ELSE {copyD0(clockClass)})

DecidesForBestGrandmaster ==
  [][StateDecision /\ portState' \in {"MASTER", "SLAVE", "PASSIVE"} /\ Agree(Choices)
       => \A a \in Choices : ~Before(Ranks(a), Ranks(dataSet'))]_vars

(* The pending timeout of a receipt timer may fire for a port that handle  *)
(* has just made FAULTY; but a port never stays FAULTY for good, it        *)
(* initialises again or the daemon returns.                                *)
FaultIsLeft ==
  portState = "FAULTY" ~> (portState # "FAULTY" \/ pc = "returned")

(* LISTENING is not for ever: on a clock that may be master the receipt    *)
(* timer, which LISTENING never restarts, or a state decision ends it.     *)
ListeningEnds ==
  portState = "LISTENING" /\ MayBeMaster ~> portState # "LISTENING"

(* Once no Announce arrives and nothing fails any more, the port takes     *)
(* over as master (or listens, when it may not be one) for good, whatever  *)
(* stale records, indices and expire flags it is left with.                *)
AnnounceTaken == \E a \in Announces : handleAnnounce(a)

Quiet == <>[][~AnnounceTaken /\ ~HandleFault]_vars

Settled == portState = IF MayBeMaster THEN "MASTER" ELSE "LISTENING"

SettlesWhenSilent == Quiet => <>[](pc = "returned" \/ Settled)

(* A port that stays master keeps announcing itself: neither the traffic   *)
(* it handles nor the other timers starve the announce timer.              *)
MasterKeepsAnnouncing ==
  <>[](portState = "MASTER") => []<><<issueAnnounce>>_vars

(* doc: what protocol() says of its loop, "once they are done we loop      *)
(* around again and perform the actions required for the new 'port_state'":*)
(* a FAULTY port initialises before it takes any other role.               *)
FaultyInitialisesNext ==
  [][portState = "FAULTY" => portState' \in {"FAULTY", "INITIALIZING"}]_vars
=============================================================================
