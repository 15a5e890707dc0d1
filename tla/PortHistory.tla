----------------------------- MODULE PortHistory -----------------------------
(***************************************************************************)
(* PortEngine together with a record of what the port has heard, to state  *)
(* what its data set should have to do with the Announces it received.     *)
(* The code keeps no such history: `received' and `heard' only observe.    *)
(***************************************************************************)
EXTENDS PortEngine

VARIABLES
  received,   \* every Announce taken since the daemon started
  heard,      \* per sender, its last Announce since the last doInit
  latest      \* the sender of the last Announce taken

historyVars == <<vars, received, heard, latest>>

Senders == {a.src : a \in Announces}

Unheard == [s \in Senders |-> ZeroRecord]

HistoryInit == Init /\ received = {} /\ heard = Unheard
               /\ latest = ZeroRecord.src

Hear(a) ==
  /\ handleAnnounce(a)
  /\ received' = received \cup {a}
  /\ heard' = [heard EXCEPT ![a.src] = a]
  /\ latest' = a.src

Reinitialise ==
  /\ doInit
  /\ heard' = Unheard
  /\ UNCHANGED <<received, latest>>

HearNothing ==
  /\ \/ doInitFails \/ doState
     \/ HandleNothing \/ HandleFault \/ HandleOther \/ HandleDelayResp
     \/ WaitingTimers \/ MasterTimersRound \/ catch_alarm \/ Terminated
  /\ UNCHANGED <<received, heard, latest>>

HistoryNext == (\E a \in Announces : Hear(a)) \/ Reinitialise \/ HearNothing

HistorySpec == HistoryInit /\ [][HistoryNext]_historyVars

FairHistorySpec ==
  HistorySpec /\ WF_historyVars(HistoryNext /\ protocol)
              /\ WF_historyVars(HistoryNext /\ catch_alarm)

-----------------------------------------------------------------------------
(* A port that follows another clock follows what that clock really said:  *)
(* its whole data set comes from one Announce it received, never from an   *)
(* unwritten record or from a mix of two, across evictions, timeouts and   *)
(* re-initialisations.                                                     *)
FollowsGenuineAnnounce ==
  portState \in {"SLAVE", "PASSIVE"} => \E a \in received : dataSet = s1(a)

(* The port is an ordinary clock: through the table with its evictions and *)
(* its stale indices, through timeouts, faults and re-initialisations, its *)
(* role and its data change only as OrdinaryClock lets them.               *)
Origin(data) == data.parent

Ordinary == INSTANCE OrdinaryClock WITH
  Claims <- {s1(a) : a \in Announces},
  role   <- portState,
  data   <- dataSet,
  own    <- m1(clockClass),
  heard  <- {s1(a) : a \in received}

ImplementsOrdinaryClock == Ordinary!Spec

(* doc: ptpd.hh of s1, "copy dataset of master into parent and grandmaster *)
(* dataset": after the state decision a slave holds the data its master    *)
(* announced last.                                                         *)
ParentDataIsCurrent ==
  pc = "actions" /\ portState = "SLAVE" /\ heard[dataSet.parent] # ZeroRecord
    => dataSet = s1(heard[dataSet.parent])

(* doc: initData's "Init other stuff" empties the foreign master data set: *)
(* a port that was initialised again follows a master only after hearing   *)
(* it again.                                                               *)
ElectsOnlyHeardMasters ==
  pc = "actions" /\ portState = "SLAVE" => heard[dataSet.parent] # ZeroRecord

(* doc: constants.hh gives foreign master records a time window of 4       *)
(* announce intervals, and ANNOUNCE_RECEIPT_TIMER is to notice a master    *)
(* that fell silent: a slave that hears only others leaves its old master. *)
AbandonsSilentParent ==
  \A s \in Senders :
    <>[](latest # s) => []<>(portState # "SLAVE" \/ dataSet.parent # s)
=============================================================================
