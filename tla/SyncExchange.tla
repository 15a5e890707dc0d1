---------------------------- MODULE SyncExchange ----------------------------
(***************************************************************************)
(* Sync, FollowUp, DelayReq and DelayResp of protocol.cc (E2E_mode), seen  *)
(* by one port, Self, among other ports that run this program: the masters *)
(* it may follow, and a Stranger, a slave whose exchanges it overhears.    *)
(*                                                                         *)
(* A time is described by what was stamped (see TwoWayTime): delayMS by    *)
(* the master whose Sync gave it, delay_req_send_time by whether it is the *)
(* sending time of the last request.  Both are taken from the port's own   *)
(* clock, so that setting it makes them void; the same goes for messages   *)
(* that wait in the event socket with a stamp of the old time scale, where *)
(* a sender may have several: nothing discards them.                       *)
(*                                                                         *)
(* A socket is the set of messages that wait in it.  handle reads the      *)
(* general socket only when the event socket is empty.  The port's own     *)
(* copies come back at once; copies for the masters are on their way until *)
(* they are answered or lost.  Which state the port is in and whom it      *)
(* follows PortEngine says; here both change at any time they can.         *)
(***************************************************************************)
EXTENDS Integers, FiniteSets

CONSTANTS
  Self, Stranger, Masters, NoMaster,
  SequenceIdSpace,   \* sequence numbers before they wrap: 2^16 in the code
  Environments       \* what the port may meet, see Environment

ASSUME PortsAssumption ==
  /\ Self \notin Masters /\ Stranger \notin Masters \cup {Self}
  /\ NoMaster \notin Masters \cup {Self, Stranger}
ASSUME SequenceIdAssumption == SequenceIdSpace \in Nat \ {0, 1}

(* What the port meets, fixed in a behaviour.  prompt: answers come before *)
(* the next request.  overhears: others' FollowUps and DelayResps arrive.  *)
(* serves: others' DelayReqs arrive, and as a master it sends Syncs.       *)
(* lags: it may send a Sync before it has read its copy of the last one.   *)
(* And two bounds: on the event messages that wait while others arrive,    *)
(* and on its requests that are lost or answered twice.                    *)
Environment ==
  [prompt : BOOLEAN, overhears : BOOLEAN, serves : BOOLEAN, lags : BOOLEAN,
   waiting : Nat, faults : Nat]

ASSUME EnvironmentsAssumption == Environments \subseteq Environment

Ports       == Masters \cup {Self, Stranger}
SequenceIds == 0 .. SequenceIdSpace - 1
PortStates  == {"LISTENING", "PASSIVE", "SLAVE", "MASTER"}

(* `voidedBy': the masters whose Syncs have set the clock since it was     *)
(* received; if there are none, its time is on the present scale.          *)
EventMessage ==
  [type : {"SYNC", "DELAY_REQ"}, from : Ports, seq : SequenceIds,
   voidedBy : SUBSET Masters]

Valid(e) == e.voidedBy = {}

GeneralMessage ==
  [type : {"FOLLOW_UP", "DELAY_RESP"}, from : Ports, requester : Ports,
   seq : SequenceIds]

VARIABLES
  portState,
  parentPortIdentity,
  sentDelayReqSequenceId,   \* the sequenceId of the next DelayReq
  sentSyncSequenceId,       \* and of the next Sync
  delay_req_send_time,      \* "LastRequest", or "Obsolete"
  delayMS,                  \* the way from this master, or NoMaster
  offset_first_updated,
  meanPathDelay,            \* the delay to this master, or NoMaster
  offsetFromMaster,         \* the offset from this master, or NoMaster
  eventSock, generalSock,   \* messages waiting to be read
  wire,                     \* own requests under way, each [to, seq]
  faults,                   \* requests lost or answered twice so far
  env                       \* fixed, see Environments

port     == <<portState, parentPortIdentity>>
counters == <<sentDelayReqSequenceId, sentSyncSequenceId>>
estimate == <<delayMS, offset_first_updated, meanPathDelay, offsetFromMaster>>
sockets  == <<eventSock, generalSock>>
network  == <<wire, faults, env>>
vars     == <<port, counters, delay_req_send_time, estimate, sockets, network>>

Init ==
  /\ portState = "LISTENING" /\ parentPortIdentity = Self
  /\ sentDelayReqSequenceId = 0 /\ sentSyncSequenceId = 0
  /\ delay_req_send_time = "Obsolete"
  /\ delayMS = NoMaster /\ offset_first_updated = FALSE
  /\ meanPathDelay = NoMaster /\ offsetFromMaster = NoMaster
  /\ eventSock = {} /\ generalSock = {}
  /\ wire = {} /\ faults = 0
  /\ env \in Environments

-----------------------------------------------------------------------------
(* The state of the port *)

(* Mutant: the general socket does not wait for the event socket *)
EventSocketRead_unread == TRUE

EventSocketRead == eventSock = {}

(* The port becomes a master, or begins anew: the delay and the offset in  *)
(* use are zero, neither about any master.                                 *)
m1 ==
  /\ parentPortIdentity' = Self
  /\ meanPathDelay' = NoMaster /\ offsetFromMaster' = NoMaster
  /\ UNCHANGED <<delayMS, offset_first_updated>>

(* It follows m, of whom nothing is known yet, with all it has measured *)
s1(m) == parentPortIdentity' = m /\ UNCHANGED estimate

(* A parent comes with an Announce, which is read from the general socket, *)
(* and the decision is the next step.                                      *)
followMaster(m) ==
  /\ EventSocketRead
  /\ portState # "SLAVE" \/ parentPortIdentity # m
  /\ portState' = "SLAVE" /\ s1(m)
  /\ UNCHANGED <<counters, delay_req_send_time, sockets, network>>

becomePassive(m) ==
  /\ EventSocketRead
  /\ portState' = "PASSIVE" /\ s1(m)
  /\ UNCHANGED <<counters, delay_req_send_time, sockets, network>>

becomeMaster ==
  /\ portState # "MASTER"
  /\ portState' = "MASTER" /\ m1
  /\ UNCHANGED <<counters, delay_req_send_time, sockets, network>>

(* The receipt timeout of a port that may not be master *)
becomeListening ==
  /\ portState # "LISTENING"
  /\ portState' = "LISTENING"
  /\ UNCHANGED <<parentPortIdentity, counters, delay_req_send_time, estimate,
                 sockets, network>>

(* After a fault the sockets are closed and opened again; the counters and *)
(* the times taken stay.                                                   *)
reinitialise ==
  /\ portState' = "LISTENING" /\ m1
  /\ eventSock' = {} /\ generalSock' = {}
  /\ UNCHANGED <<counters, delay_req_send_time, network>>

-----------------------------------------------------------------------------
(* Sending *)

OwnCopies(type) == {e \in eventSock : e.type = type /\ e.from = Self}

OwnCopyWaits(type) == OwnCopies(type) # {}

OwnCopy(type, n) ==
  [type |-> type, from |-> Self, seq |-> n, voidedBy |-> {}]

(* When the Sync timer expires, a second or so after the last Sync, is for *)
(* the environment to say: the own copies of the last Sync and of its      *)
(* FollowUp have been read, or, if the port lags, not that of the Sync.    *)
MaySync ==
  /\ generalSock = {}
  /\ IF env.lags
     THEN /\ Cardinality(OwnCopies("SYNC")) <= 1
          /\ \A e \in OwnCopies("SYNC") : e.seq # sentSyncSequenceId
     ELSE ~OwnCopyWaits("SYNC")

issueSync ==
  /\ portState = "MASTER" /\ env.serves
  /\ MaySync
  /\ eventSock' = eventSock \cup {OwnCopy("SYNC", sentSyncSequenceId)}
  /\ sentSyncSequenceId' = (sentSyncSequenceId + 1) % SequenceIdSpace
  /\ UNCHANGED <<port, sentDelayReqSequenceId, delay_req_send_time, estimate,
                 generalSock, network>>

OwnAnswers == {g \in generalSock : g.type = "DELAY_RESP" /\ g.requester = Self}

(* No message lives until its number comes round, and a request's own copy *)
(* is read before the next is due.  Bound: one copy may be under way still.*)
MayAsk ==
  /\ ~OwnCopyWaits("DELAY_REQ")
  /\ \A x \in wire \cup OwnAnswers : x.seq # sentDelayReqSequenceId
  /\ Cardinality(wire) <= 1
  /\ env.prompt => wire = {} /\ OwnAnswers = {}

Requests(n) == {[to |-> m, seq |-> n] : m \in Masters}

(* Mutant: the counter does not wrap *)
issueDelayReq_noWrap ==
  /\ portState # "MASTER"
  /\ MayAsk
  /\ eventSock' = eventSock \cup {OwnCopy("DELAY_REQ", sentDelayReqSequenceId)}
  /\ wire' = wire \cup Requests(sentDelayReqSequenceId)
  /\ delay_req_send_time' = "Obsolete"
  /\ sentDelayReqSequenceId' = sentDelayReqSequenceId + 1
  /\ UNCHANGED <<port, sentSyncSequenceId, estimate, generalSock, faults, env>>

(* The timer runs in SLAVE; its flag may outlive that state (PortEngine).  *)
(* What was the last request's sending time is so no longer.               *)
issueDelayReq ==
  /\ portState # "MASTER"
  /\ MayAsk
  /\ eventSock' = eventSock \cup {OwnCopy("DELAY_REQ", sentDelayReqSequenceId)}
  /\ wire' = wire \cup Requests(sentDelayReqSequenceId)
  /\ delay_req_send_time' = "Obsolete"
  /\ sentDelayReqSequenceId' = (sentDelayReqSequenceId + 1) % SequenceIdSpace
  /\ UNCHANGED <<port, sentSyncSequenceId, estimate, generalSock, faults, env>>

-----------------------------------------------------------------------------
(* The other ports *)

Answer(m, requester, n) ==
  [type |-> "DELAY_RESP", from |-> m, requester |-> requester, seq |-> n]

FollowUp(from, n) ==
  [type |-> "FOLLOW_UP", from |-> from, requester |-> from, seq |-> n]

(* The number only tells it from others of the sender that wait *)
ArrivesAtEvent(type, q) ==
  /\ Cardinality(eventSock) < env.waiting
  /\ \E n \in SequenceIds :
       /\ n < env.waiting
       /\ \A e \in eventSock : ~(e.type = type /\ e.from = q /\ e.seq = n)
       /\ eventSock' = eventSock \cup
            {[type |-> type, from |-> q, seq |-> n, voidedBy |-> {}]}
  /\ UNCHANGED <<port, counters, delay_req_send_time, estimate, generalSock,
                 network>>

SyncArrives(m) == ArrivesAtEvent("SYNC", m)
StrangersRequestArrives ==
  env.serves /\ generalSock = {} /\ ArrivesAtEvent("DELAY_REQ", Stranger)

(* What masters send on the general port for others to see *)
GeneralArrives(m, n) ==
  /\ env.overhears
  /\ generalSock = {}
  /\ \E g \in {FollowUp(m, 0), Answer(m, Stranger, n)} :
       generalSock' = generalSock \cup {g}
  /\ UNCHANGED <<port, counters, delay_req_send_time, estimate, eventSock,
                 network>>

(* A master answers with the number and the identity of the request *)
AnswerArrives(x) ==
  /\ generalSock = {}
  /\ generalSock' = generalSock \cup {Answer(x.to, Self, x.seq)}
  /\ wire' = wire \ {x}
  /\ UNCHANGED <<port, counters, delay_req_send_time, estimate, eventSock,
                 faults, env>>

Duplicate(x) ==
  /\ generalSock = {}
  /\ faults < env.faults
  /\ generalSock' = generalSock \cup {Answer(x.to, Self, x.seq)}
  /\ faults' = faults + 1
  /\ UNCHANGED <<port, counters, delay_req_send_time, estimate, eventSock,
                 wire, env>>

Lose(x) ==
  /\ faults < env.faults
  /\ wire' = wire \ {x}
  /\ faults' = faults + 1
  /\ UNCHANGED <<port, counters, delay_req_send_time, estimate, sockets,
                 env>>

-----------------------------------------------------------------------------
(* Event messages.  Each handler is given the message, already taken from  *)
(* the socket.                                                             *)

SameMaster(x, y) == IF x = y THEN x ELSE NoMaster

IsFromCurrentParent(m) == m.from = parentPortIdentity

ParentsSync(e) ==
  /\ e.type = "SYNC" /\ portState = "SLAVE"
  /\ e.from # Self /\ IsFromCurrentParent(e)

WayFrom(e) == IF Valid(e) THEN e.from ELSE NoMaster

(* updateOffset: the way from the parent less the delay in use *)
updateOffset(e) ==
  offsetFromMaster' = SameMaster(WayFrom(e), meanPathDelay)

(* An offset below a second is filtered and steers the frequency *)
SteerClock(e) ==
  /\ updateOffset(e)
  /\ delayMS' = WayFrom(e)
  /\ offset_first_updated' = TRUE
  /\ eventSock' = eventSock \ {e}
  /\ UNCHANGED <<meanPathDelay, delay_req_send_time>>

(* With a larger one updateClock sets the clock *)
SetClock(e) ==
  /\ updateOffset(e)
  /\ delayMS' = NoMaster
  /\ delay_req_send_time' = "Obsolete"
  /\ eventSock' =
       {[w EXCEPT !.voidedBy = @ \cup {e.from}] : w \in eventSock \ {e}}
  /\ UNCHANGED <<meanPathDelay, offset_first_updated>>

(* Mutant: the counter itself, which is one ahead *)
FollowUpSequenceId_next == sentSyncSequenceId

FollowUpSequenceId == (sentSyncSequenceId - 1) % SequenceIdSpace

(* In every other state the own Sync is followed up; its copy comes back *)
OwnSync(e) ==
  /\ e.type = "SYNC" /\ portState # "SLAVE" /\ e.from = Self
  /\ generalSock' = generalSock \cup {FollowUp(Self, FollowUpSequenceId)}
  /\ eventSock' = eventSock \ {e}
  /\ UNCHANGED <<delay_req_send_time, estimate>>

OwnRequest(e) ==
  /\ e.type = "DELAY_REQ" /\ portState = "SLAVE" /\ e.from = Self
  /\ delay_req_send_time' = IF Valid(e) THEN "LastRequest" ELSE "Obsolete"
  /\ eventSock' = eventSock \ {e}
  /\ UNCHANGED <<estimate, generalSock>>

(* A master answers every request, its own copies included *)
RequestToMaster(e) ==
  /\ e.type = "DELAY_REQ" /\ portState = "MASTER"
  /\ generalSock' = generalSock \cup {Answer(Self, e.from, e.seq)}
  /\ eventSock' = eventSock \ {e}
  /\ UNCHANGED <<delay_req_send_time, estimate>>

DisregardEvent(e) ==
  /\ \/ e.type = "SYNC" /\ portState = "SLAVE" /\ ~ParentsSync(e)
     \/ e.type = "SYNC" /\ portState # "SLAVE" /\ e.from # Self
     \/ e.type = "DELAY_REQ" /\ portState = "SLAVE" /\ e.from # Self
     \/ e.type = "DELAY_REQ" /\ portState \in {"LISTENING", "PASSIVE"}
  /\ eventSock' = eventSock \ {e}
  /\ UNCHANGED <<delay_req_send_time, estimate, generalSock>>

handleSync(e) ==
  \/ ParentsSync(e) /\ SteerClock(e) /\ UNCHANGED generalSock
  \/ ParentsSync(e) /\ SetClock(e) /\ UNCHANGED generalSock
  \/ OwnSync(e)

handleDelayReq(e) == OwnRequest(e) \/ RequestToMaster(e)

handleEvent ==
  /\ \E e \in eventSock : handleSync(e) \/ handleDelayReq(e) \/ DisregardEvent(e)
  /\ UNCHANGED <<port, counters, network>>
-----------------------------------------------------------------------------
(* General messages *)

netRecvGeneral == EventSocketRead /\ generalSock # {}

(* Mutant: the number is not compared *)
Accepted_anyNumber(g) ==
  /\ g.type = "DELAY_RESP" /\ portState = "SLAVE"
  /\ g.requester = Self /\ IsFromCurrentParent(g)

(* Mutant: it is compared with the counter, which is one ahead *)
Accepted_counter(g) ==
  /\ g.type = "DELAY_RESP" /\ portState = "SLAVE"
  /\ g.requester = Self
  /\ g.seq = sentDelayReqSequenceId
  /\ IsFromCurrentParent(g)

(* sentDelayReqSequenceId - 1 is an int: -1 equals no sequenceId *)
Accepted(g) ==
  /\ g.type = "DELAY_RESP" /\ portState = "SLAVE"
  /\ g.requester = Self
  /\ g.seq = sentDelayReqSequenceId - 1
  /\ IsFromCurrentParent(g)

LastSequenceId == (sentDelayReqSequenceId - 1) % SequenceIdSpace

(* The way back is that to g.from, if both of its times are of one request *)
WayBack(g) ==
  IF g.requester = Self /\ g.seq = LastSequenceId
       /\ delay_req_send_time = "LastRequest"
  THEN g.from ELSE NoMaster

(* updateDelay: half of both ways, once an offset was computed *)
updateDelay(g) ==
  meanPathDelay' = IF offset_first_updated
                   THEN SameMaster(delayMS, WayBack(g)) ELSE meanPathDelay

handleDelayResp(g) == Accepted(g) /\ updateDelay(g)

(* A FollowUp too: the slave never waits for one, the code that would make *)
(* it wait is commented out.                                               *)
DisregardGeneral(g) == ~Accepted(g) /\ UNCHANGED meanPathDelay

handleGeneral ==
  /\ netRecvGeneral
  /\ \E g \in generalSock :
       /\ handleDelayResp(g) \/ DisregardGeneral(g)
       /\ generalSock' = generalSock \ {g}
  /\ UNCHANGED <<port, counters, delay_req_send_time, delayMS,
                 offset_first_updated, offsetFromMaster, eventSock, network>>

handle == handleEvent \/ handleGeneral
-----------------------------------------------------------------------------
Next ==
  \/ \E m \in Masters : followMaster(m) \/ becomePassive(m)
  \/ becomeMaster \/ becomeListening \/ reinitialise
  \/ issueSync \/ issueDelayReq \/ handle
  \/ \E m \in Masters : SyncArrives(m) \/ GeneralArrives(m, LastSequenceId)
  \/ StrangersRequestArrives
  \/ \E x \in wire : AnswerArrives(x) \/ Duplicate(x) \/ Lose(x)

Spec == Init /\ [][Next]_vars

ParentSends == \E m \in Masters : m = parentPortIdentity /\ SyncArrives(m)

RequestsAreAnswered == \E x \in wire : AnswerArrives(x) \/ Lose(x)

(* The daemon keeps looping and the request timer of a slave keeps         *)
(* expiring; the master followed sends Syncs for ever, and requests are    *)
(* answered or lost.  Strong fairness where a full socket, which is small  *)
(* here, might keep the same messages out for ever, or the event socket    *)
(* the general one.                                                        *)
FairSpec ==
  /\ Spec
  /\ WF_vars(handle) /\ SF_vars(handleGeneral)
  /\ WF_vars(portState = "SLAVE" /\ issueDelayReq)
  /\ SF_vars(ParentSends) /\ SF_vars(RequestsAreAnswered)
-----------------------------------------------------------------------------
(* Properties *)

(* Every variable keeps its type; both counters wrap.                      *)
TypeOK ==
  /\ portState \in PortStates
  /\ parentPortIdentity \in Masters \cup {Self}
  /\ portState = "SLAVE" => parentPortIdentity \in Masters
  /\ sentDelayReqSequenceId \in SequenceIds
  /\ sentSyncSequenceId \in SequenceIds
  /\ delay_req_send_time \in {"LastRequest", "Obsolete"}
  /\ delayMS \in Masters \cup {NoMaster}
  /\ offset_first_updated \in BOOLEAN
  /\ meanPathDelay \in Masters \cup {NoMaster}
  /\ offsetFromMaster \in Masters \cup {NoMaster}
  /\ eventSock \subseteq EventMessage
  /\ generalSock \subseteq GeneralMessage
  /\ wire \subseteq [to : Masters, seq : SequenceIds]
  /\ env \in Environments
  /\ faults \in 0 .. env.faults

(* initClock discards nothing that waits in a socket, so that a backlog of *)
(* the parent's Syncs, stamped before the first of them set the clock, may *)
(* set it again and again.  But the backlog of one master never outlives a *)
(* setting by another: no Sync is taken for an offset that was received    *)
(* before another master set the clock.  It rests on the event socket      *)
(* being read before any Announce that could change the parent.            *)
NoSyncAcrossMasters ==
  \A e \in eventSock : ParentsSync(e) => e.voidedBy \subseteq {parentPortIdentity}

(* A FollowUp carries the number of the Sync whose sending time it is,     *)
(* though msgPackFollowUp takes it from a counter that has moved on, and   *)
(* the port may have ceased to be master in between, or begun anew: as     *)
(* long as the port does not lag behind its own Syncs.                     *)
FollowUpNamesItsSync ==
  ~env.lags => \A e \in OwnCopies("SYNC") : e.seq = FollowUpSequenceId

(* The sending time of the last request is held, or will be when the own   *)
(* copy has been read.                                                     *)
SendTimeKnown ==
  \/ delay_req_send_time = "LastRequest"
  \/ \E e \in OwnCopies("DELAY_REQ") : Valid(e)

StaleSyncWaits == \E e \in eventSock : ParentsSync(e) /\ ~Valid(e)

TwoWay == INSTANCE TwoWayTime WITH
  parent  <- IF portState = "SLAVE" THEN parentPortIdentity ELSE NoMaster,
  forward <- delayMS,
  asked   <- SendTimeKnown,
  stale   <- StaleSyncWaits,
  delay   <- meanPathDelay,
  offset  <- offsetFromMaster

(* Whatever is lost, doubled, late or overheard, whenever the parent       *)
(* changes and the counter wraps: the halves of a delay are a Sync of the  *)
(* parent and an answer of the parent to the last request, on one time     *)
(* scale, unless the port has not had such a Sync, or has missed its own   *)
(* request, since it last changed parent, set its clock or was no slave;   *)
(* and Syncs stamped before it set its clock are all taken before another  *)
(* answer is, or another parent.                                           *)
ImplementsTwoWayTime == TwoWay!Spec

(* The step sets the clock, or changes the state or the parent             *)
Disturbance == port' # port \/ reinitialise \/ (\E e \in eventSock : SetClock(e))

(* Nothing of the old parent is used for ever: a change of parent does not *)
(* pass through toState and clears nothing, but if the port is left alone  *)
(* its delay and its offset are in the end about the parent, in spite of   *)
(* losses and of the request that is never matched when the counter wraps. *)
Recalibrates ==
  env.prompt /\ env.waiting = 1 =>
    \/ []<><<Disturbance>>_vars
    \/ <>[](portState = "SLAVE" => /\ meanPathDelay = parentPortIdentity
                                   /\ offsetFromMaster = parentPortIdentity)
=============================================================================
