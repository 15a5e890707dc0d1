------------------------------ MODULE PeerDelay ------------------------------
(***************************************************************************)
(* The peer delay mechanism of protocol.cc (E2E_mode off) between ports    *)
(* that all run this program: PdelayReq, PdelayResp, PdelayRespFollowUp.   *)
(*                                                                         *)
(* A port multicasts; its own copy comes back on the same socket at once,  *)
(* the others' copies travel on a wire that may delay or lose them.  handle*)
(* reads the event socket first (PdelayReq, PdelayResp) and the general    *)
(* socket (PdelayRespFollowUp) only when the event socket is empty.        *)
(*                                                                         *)
(* A time stamp is the exchange it was taken in: t1 and t4 are the sending *)
(* of a request and the receipt of its response at the requester, t2 and   *)
(* t3 the receipt and the sending at the responder.  Exchanges are named   *)
(* by requester and sequenceId.  Every port announces itself as a two-step *)
(* clock, so the branch for one-step responses is not taken; portState     *)
(* does not change during a behaviour.                                     *)
(***************************************************************************)
EXTENDS Integers, Sequences

CONSTANTS
  Ports,
  Roles,             \* the states the ports may be in, in [Ports -> ...]
  SequenceIdSpace,   \* sequence numbers before they wrap: 2^16 in the code
  MaxLosses,         \* bound: messages the wire loses
  NoExchange         \* a time stamp not taken yet

ASSUME SequenceIdAssumption == SequenceIdSpace \in Nat \ {0, 1}
ASSUME MaxLossesAssumption == MaxLosses \in Nat

SequenceIds == 0 .. SequenceIdSpace - 1
Exchange    == [requester : Ports, seq : SequenceIds]
Stamp       == Exchange \cup {NoExchange}

ASSUME NoExchangeAssumption == NoExchange \notin Exchange

(* `exchange' of a follow-up is the one whose response send time it        *)
(* carries; seq is the sequenceId in its header.                           *)
Message == [type : {"PDELAY_REQ", "PDELAY_RESP", "PDELAY_RESP_FOLLOW_UP"},
            src : Ports, seq : SequenceIds, exchange : Exchange]

Measuring == {"MASTER", "SLAVE"}
Answering == Measuring \cup {"PASSIVE"}

ASSUME RolesAssumption ==
  Roles \subseteq [Ports -> Answering \cup {"LISTENING"}]

VARIABLES
  portState,                 \* fixed, see Roles
  sentPDelayReqSequenceId,   \* the sequenceId of the next request
  PdelayReqHeader,           \* the last request of another port
  pdelay_req_send_time,      \* t1
  pdelay_req_receive_time,   \* t2
  pdelay_resp_send_time,     \* t3
  pdelay_resp_receive_time,  \* t4
  peerMeanPathDelay,         \* the four stamps it was last computed from
  eventSock, generalSock,    \* messages waiting to be read
  wire,                      \* wire[p][q]: on their way from p to q
  losses

stamps  == <<pdelay_req_send_time, pdelay_req_receive_time,
             pdelay_resp_send_time, pdelay_resp_receive_time>>
network == <<wire, losses>>
sockets == <<eventSock, generalSock>>
vars    == <<portState, sentPDelayReqSequenceId, PdelayReqHeader, stamps,
             peerMeanPathDelay, sockets, network>>

Init ==
  /\ portState \in Roles
  /\ sentPDelayReqSequenceId = [p \in Ports |-> 0]
  /\ PdelayReqHeader = [p \in Ports |-> NoExchange]
  /\ pdelay_req_send_time = [p \in Ports |-> NoExchange]
  /\ pdelay_req_receive_time = [p \in Ports |-> NoExchange]
  /\ pdelay_resp_send_time = [p \in Ports |-> NoExchange]
  /\ pdelay_resp_receive_time = [p \in Ports |-> NoExchange]
  /\ peerMeanPathDelay = [p \in Ports |-> <<>>]
  /\ eventSock = [p \in Ports |-> <<>>]
  /\ generalSock = [p \in Ports |-> <<>>]
  /\ wire = [p \in Ports |-> [q \in Ports \ {p} |-> <<>>]]
  /\ losses = 0

-----------------------------------------------------------------------------
(* Sending: every other port's copy goes on the wire *)
Multicast(p, m) ==
  /\ wire' = [wire EXCEPT ![p] = [q \in Ports \ {p} |-> Append(@[q], m)]]
  /\ UNCHANGED losses

Deliver(p, q) ==
  /\ wire[p][q] # <<>>
  /\ LET m == Head(wire[p][q])
     IN  IF m.type = "PDELAY_RESP_FOLLOW_UP"
         THEN /\ generalSock' = [generalSock EXCEPT ![q] = Append(@, m)]
              /\ UNCHANGED eventSock
         ELSE /\ eventSock' = [eventSock EXCEPT ![q] = Append(@, m)]
              /\ UNCHANGED generalSock
  /\ wire' = [wire EXCEPT ![p][q] = Tail(@)]
  /\ UNCHANGED <<portState, sentPDelayReqSequenceId, PdelayReqHeader, stamps,
                 peerMeanPathDelay, losses>>

Lose(p, q) ==
  /\ losses < MaxLosses
  /\ wire[p][q] # <<>>
  /\ wire' = [wire EXCEPT ![p][q] = Tail(@)]
  /\ losses' = losses + 1
  /\ UNCHANGED <<portState, sentPDelayReqSequenceId, PdelayReqHeader, stamps,
                 peerMeanPathDelay, sockets>>

-----------------------------------------------------------------------------
(* Requests.  The request timer runs in the states that answer requests. *)

(* An assumption, which the code does not check: the next request is two   *)
(* seconds away, a message microseconds, so that nothing of an exchange is *)
(* under way when its requester starts the next.                           *)
Carries(queue, p) == \E k \in DOMAIN queue : queue[k].exchange.requester = p

PreviousExchangeOver(p) ==
  \A q \in Ports :
    /\ ~Carries(eventSock[q], p) /\ ~Carries(generalSock[q], p)
    /\ \A r \in Ports \ {q} : ~Carries(wire[q][r], p)

Request(p) ==
  LET seq == sentPDelayReqSequenceId[p]
  IN  [type |-> "PDELAY_REQ", src |-> p, seq |-> seq,
       exchange |-> [requester |-> p, seq |-> seq]]

(* Mutant: the counter does not wrap *)
issuePDelayReq_noWrap(p) ==
  /\ portState[p] \in Answering
  /\ PreviousExchangeOver(p)
  /\ eventSock' = [eventSock EXCEPT ![p] = Append(@, Request(p))]
  /\ Multicast(p, Request(p))
  /\ sentPDelayReqSequenceId' = [sentPDelayReqSequenceId EXCEPT ![p] = @ + 1]
  /\ UNCHANGED <<portState, PdelayReqHeader, stamps, peerMeanPathDelay,
                 generalSock>>

issuePDelayReq(p) ==
  /\ portState[p] \in Answering
  /\ PreviousExchangeOver(p)
  /\ eventSock' = [eventSock EXCEPT ![p] = Append(@, Request(p))]
  /\ Multicast(p, Request(p))
  /\ sentPDelayReqSequenceId' =
       [sentPDelayReqSequenceId EXCEPT ![p] = (@ + 1) % SequenceIdSpace]
  /\ UNCHANGED <<portState, PdelayReqHeader, stamps, peerMeanPathDelay,
                 generalSock>>

-----------------------------------------------------------------------------
(* Receiving *)

netRecvEvent(p) == eventSock[p] # <<>>

(* Mutant: the general socket need not wait *)
netRecvGeneral_first(p) == generalSock[p] # <<>>

netRecvGeneral(p) == eventSock[p] = <<>> /\ generalSock[p] # <<>>

(* The port's own request comes back: t1 *)
OwnRequest(p, m) ==
  /\ m.type = "PDELAY_REQ" /\ m.src = p /\ portState[p] \in Answering
  /\ pdelay_req_send_time' = [pdelay_req_send_time EXCEPT ![p] = m.exchange]
  /\ eventSock' = [eventSock EXCEPT ![p] = Tail(@)]
  /\ UNCHANGED <<PdelayReqHeader, pdelay_req_receive_time,
                 pdelay_resp_send_time, pdelay_resp_receive_time,
                 peerMeanPathDelay, generalSock, network>>

(* The response carries t2 and the identity of the request *)
Response(p, request) ==
  [type |-> "PDELAY_RESP", src |-> p, seq |-> request.seq,
   exchange |-> request.exchange]

issuePDelayResp(p, request) ==
  /\ eventSock' = [eventSock EXCEPT ![p] = Append(Tail(@), Response(p, request))]
  /\ Multicast(p, Response(p, request))

(* Another port's request is kept and answered *)
OthersRequest(p, m) ==
  /\ m.type = "PDELAY_REQ" /\ m.src # p /\ portState[p] \in Answering
  /\ PdelayReqHeader' = [PdelayReqHeader EXCEPT ![p] = m.exchange]
  /\ issuePDelayResp(p, m)
  /\ UNCHANGED <<stamps, peerMeanPathDelay, generalSock>>

(* The follow-up carries t3, but its sequenceId is that of the request     *)
(* kept last.                                                              *)
FollowUp(p, response) ==
  [type |-> "PDELAY_RESP_FOLLOW_UP", src |-> p,
   seq |-> PdelayReqHeader[p].seq, exchange |-> response.exchange]

issuePDelayRespFollowUp(p, response) ==
  /\ generalSock' = [generalSock EXCEPT ![p] = Append(@, FollowUp(p, response))]
  /\ Multicast(p, FollowUp(p, response))

OwnResponse(p, m) ==
  /\ m.type = "PDELAY_RESP" /\ m.src = p /\ portState[p] \in Measuring
  /\ issuePDelayRespFollowUp(p, m)
  /\ eventSock' = [eventSock EXCEPT ![p] = Tail(@)]
  /\ UNCHANGED <<PdelayReqHeader, stamps, peerMeanPathDelay>>

(* Mutant: the test is turned round *)
Rejected_unmatched(p, m) ==
  ~(sentPDelayReqSequenceId[p] = m.seq /\ m.exchange.requester = p)

(* The test the code makes to tell a response that "doesn't match".  The   *)
(* counter is one ahead of the last request, so that no response is ever   *)
(* dropped, those to other ports' requests included.                       *)
Rejected(p, m) ==
  sentPDelayReqSequenceId[p] = m.seq /\ m.exchange.requester = p

OthersResponse(p, m) ==
  /\ m.type = "PDELAY_RESP" /\ m.src # p /\ portState[p] \in Measuring
  /\ ~Rejected(p, m)
  /\ pdelay_resp_receive_time' =
       [pdelay_resp_receive_time EXCEPT ![p] = m.exchange]
  /\ pdelay_req_receive_time' =
       [pdelay_req_receive_time EXCEPT ![p] = m.exchange]
  /\ eventSock' = [eventSock EXCEPT ![p] = Tail(@)]
  /\ UNCHANGED <<PdelayReqHeader, pdelay_req_send_time, pdelay_resp_send_time,
                 peerMeanPathDelay, generalSock, network>>

DisregardEvent(p, m) ==
  /\ \/ m.type = "PDELAY_REQ" /\ portState[p] \notin Answering
     \/ m.type = "PDELAY_RESP" /\ portState[p] \notin Measuring
     \/ m.type = "PDELAY_RESP" /\ m.src # p /\ Rejected(p, m)
  /\ eventSock' = [eventSock EXCEPT ![p] = Tail(@)]
  /\ UNCHANGED <<PdelayReqHeader, stamps, peerMeanPathDelay, generalSock,
                 network>>

(* Mutant: the counter itself is expected *)
Expected_nextRequest(p, m) ==
  portState[p] \in Measuring /\ m.seq = sentPDelayReqSequenceId[p]

(* sentPDelayReqSequenceId - 1 is an int: -1 equals no sequenceId.  Whose  *)
(* follow-up it is, and whether it is the port's own, is not asked.        *)
Expected(p, m) ==
  portState[p] \in Measuring /\ m.seq = sentPDelayReqSequenceId[p] - 1

(* The delay is a function of the four stamps, filtered *)
updatePeerDelay(p, t3) ==
  peerMeanPathDelay' =
    [peerMeanPathDelay EXCEPT ![p] =
       <<pdelay_req_send_time[p], pdelay_req_receive_time[p],
         t3, pdelay_resp_receive_time[p]>>]

Measure(p, m) ==
  /\ Expected(p, m)
  /\ pdelay_resp_send_time' = [pdelay_resp_send_time EXCEPT ![p] = m.exchange]
  /\ updatePeerDelay(p, m.exchange)
  /\ UNCHANGED <<pdelay_req_send_time, pdelay_req_receive_time,
                 pdelay_resp_receive_time>>

DisregardFollowUp(p, m) ==
  ~Expected(p, m) /\ UNCHANGED <<stamps, peerMeanPathDelay>>

handlePDelayRespFollowUp(p, m) ==
  /\ Measure(p, m) \/ DisregardFollowUp(p, m)
  /\ generalSock' = [generalSock EXCEPT ![p] = Tail(@)]
  /\ UNCHANGED <<PdelayReqHeader, eventSock, network>>

handlePDelayReq(p, m)  == OwnRequest(p, m) \/ OthersRequest(p, m)
handlePDelayResp(p, m) == OwnResponse(p, m) \/ OthersResponse(p, m)

handleEvent(p) ==
  LET m == Head(eventSock[p])
  IN  /\ netRecvEvent(p)
      /\ handlePDelayReq(p, m) \/ handlePDelayResp(p, m) \/ DisregardEvent(p, m)

handleGeneral(p) ==
  netRecvGeneral(p) /\ handlePDelayRespFollowUp(p, Head(generalSock[p]))

handle(p) ==
  /\ handleEvent(p) \/ handleGeneral(p)
  /\ UNCHANGED <<portState, sentPDelayReqSequenceId>>

Next ==
  \/ \E p \in Ports : issuePDelayReq(p) \/ handle(p)
  \/ \E p \in Ports : \E q \in Ports \ {p} : Deliver(p, q) \/ Lose(p, q)

Spec == Init /\ [][Next]_vars

(* Each daemon keeps looping and its request timer keeps expiring; what    *)
(* the wire does not lose it delivers.                                     *)
FairSpec ==
  /\ Spec
  /\ \A p \in Ports : WF_vars(issuePDelayReq(p)) /\ WF_vars(handle(p))
  /\ \A p \in Ports : \A q \in Ports \ {p} :
       WF_vars(Deliver(p, q) \/ Lose(p, q))
-----------------------------------------------------------------------------
(* Properties *)

(* Every variable keeps its type; the request counter wraps.              *)
TypeOK ==
  /\ portState \in Roles
  /\ sentPDelayReqSequenceId \in [Ports -> SequenceIds]
  /\ PdelayReqHeader \in [Ports -> Stamp]
  /\ \A k \in DOMAIN stamps : stamps[k] \in [Ports -> Stamp]
  /\ \A p \in Ports :
       /\ peerMeanPathDelay[p] \in {<<>>} \cup (Stamp \X Stamp \X Stamp \X Stamp)
       /\ eventSock[p] \in Seq(Message)
       /\ generalSock[p] \in Seq(Message)
       /\ \A q \in Ports \ {p} : wire[p][q] \in Seq(Message)
  /\ losses \in 0 .. MaxLosses

(* The step in which p computes the delay from another port's follow-up    *)
MeasuresPeer(p) ==
  LET m == Head(generalSock[p])
  IN  handleGeneral(p) /\ m.src # p /\ Measure(p, m)

LastExchange(p) ==
  [requester |-> p,
   seq |-> (sentPDelayReqSequenceId[p] - 1) % SequenceIdSpace]

(* Whatever was lost: a delay computed from another port's follow-up uses  *)
(* the sending times of the same exchange on both sides, the last one.     *)
(* It rests on the event socket being read first and on the responder's    *)
(* single PdelayReqHeader.                                                 *)
SendTimesBelongTogether ==
  [][\A p \in Ports : MeasuresPeer(p) =>
       /\ peerMeanPathDelay'[p][1] = LastExchange(p)
       /\ peerMeanPathDelay'[p][3] = LastExchange(p)]_vars

(* As long as nothing was lost, all four stamps are of that exchange: the  *)
(* test for responses that do not match lets the right one pass, and the   *)
(* response is in before its follow-up is looked at.                       *)
UndisturbedStampsBelongTogether ==
  [][\A p \in Ports : losses = 0 /\ MeasuresPeer(p) =>
       \A k \in 1 .. 4 : peerMeanPathDelay'[p][k] = LastExchange(p)]_vars

(* Two ports that are master or slave measure the link for ever, in spite  *)
(* of losses and of the request each loses when its counter wraps.         *)
KeepsMeasuring ==
  \A p \in Ports :
    (\A q \in Ports : portState[q] \in Measuring) => []<><<MeasuresPeer(p)>>_vars

(* doc: protocol.cc stores t2 and t4 as those of figure 35 and drops a     *)
(* response that "doesn't match with the PdelayReq": a delay is computed   *)
(* from the four stamps of one exchange.                                   *)
MeasuresOneExchange ==
  \A p \in Ports : peerMeanPathDelay[p] # <<>> =>
    \A k \in 2 .. 4 : peerMeanPathDelay[p][k] = peerMeanPathDelay[p][1]
=============================================================================
