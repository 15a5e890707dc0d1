---------------------------- MODULE PeerDelayProofs ----------------------------
(* That the stamps of a peer delay belong together, whatever the length of  *)
(* the counters and the roles of the ports                                  *)
EXTENDS PeerDelay, TLAPS

Elements(queue) == {queue[k] : k \in DOMAIN queue}

LEMMA Appended ==
  ASSUME NEW s \in Seq(Message), NEW m \in Message
  PROVE  /\ Append(s, m) \in Seq(Message)
         /\ Elements(Append(s, m)) = Elements(s) \cup {m}
<1>1. /\ Append(s, m) \in Seq(Message)
      /\ DOMAIN Append(s, m) = DOMAIN s \cup {Len(s) + 1}
      /\ \A k \in DOMAIN s : Append(s, m)[k] = s[k]
      /\ Append(s, m)[Len(s) + 1] = m
  OBVIOUS
<1> QED BY <1>1 DEF Elements

LEMMA HeadAndTail ==
  ASSUME NEW s \in Seq(Message), s # <<>>
  PROVE  /\ Tail(s) \in Seq(Message)
         /\ Head(s) \in Elements(s) /\ Head(s) \in Message
         /\ Elements(Tail(s)) \subseteq Elements(s)
         /\ \A m \in Elements(s) : m = Head(s) \/ m \in Elements(Tail(s))
<1>1. /\ Tail(s) \in Seq(Message) /\ Len(s) \in Nat \ {0}
      /\ DOMAIN s = 1 .. Len(s) /\ DOMAIN Tail(s) = 1 .. Len(s) - 1
      /\ \A k \in 1 .. Len(s) - 1 : Tail(s)[k] = s[k + 1]
      /\ Head(s) = s[1] /\ s[1] \in Message
  OBVIOUS
<1>2. ASSUME NEW k \in 1 .. Len(s), k # 1 PROVE s[k] \in Elements(Tail(s))
  <2>1. k - 1 \in 1 .. Len(s) - 1 /\ Tail(s)[k - 1] = s[k]
    BY <1>1, <1>2
  <2> QED BY <1>1, <2>1 DEF Elements
<1>3. Elements(Tail(s)) \subseteq Elements(s)
  <2> SUFFICES ASSUME NEW k \in 1 .. Len(s) - 1 PROVE Tail(s)[k] \in Elements(s)
    BY <1>1 DEF Elements
  <2> QED BY <1>1 DEF Elements
<1> QED BY <1>1, <1>2, <1>3 DEF Elements

LEMMA ElementsAreMessages ==
  ASSUME NEW s \in Seq(Message) PROVE Elements(s) \subseteq Message
BY DEF Elements

LEMMA NoElements == Elements(<<>>) = {}
BY DEF Elements

LEMMA LastIsAnExchange ==
  ASSUME NEW p \in Ports, sentPDelayReqSequenceId[p] \in SequenceIds
  PROVE  LastExchange(p) \in Exchange
BY SequenceIdAssumption DEF LastExchange, Exchange, SequenceIds

-----------------------------------------------------------------------------
(* The invariant *)

TypesOK ==
  /\ portState \in Roles
  /\ sentPDelayReqSequenceId \in [Ports -> SequenceIds]
  /\ PdelayReqHeader \in [Ports -> Stamp]
  /\ pdelay_req_send_time \in [Ports -> Stamp]
  /\ pdelay_req_receive_time \in [Ports -> Stamp]
  /\ pdelay_resp_send_time \in [Ports -> Stamp]
  /\ pdelay_resp_receive_time \in [Ports -> Stamp]
  /\ peerMeanPathDelay \in [Ports -> {<<>>} \cup (Stamp \X Stamp \X Stamp \X Stamp)]
  /\ eventSock \in [Ports -> Seq(Message)]
  /\ generalSock \in [Ports -> Seq(Message)]
  /\ DOMAIN wire = Ports
  /\ \A p \in Ports : wire[p] \in [Ports \ {p} -> Seq(Message)]
  /\ losses \in 0 .. MaxLosses

(* No two exchanges of one requester are under way, and what is under way  *)
(* was sent by the one whose turn it was.                                  *)
Genuine(m) ==
  /\ m.exchange = LastExchange(m.exchange.requester)
  /\ m.type = "PDELAY_REQ" <=> m.src = m.exchange.requester
  /\ m.type # "PDELAY_RESP_FOLLOW_UP" => m.seq = m.exchange.seq

MessagesOK ==
  \A p \in Ports :
    /\ \A m \in Elements(eventSock[p]) :
         Genuine(m) /\ m.type # "PDELAY_RESP_FOLLOW_UP"
    /\ \A m \in Elements(generalSock[p]) :
         Genuine(m) /\ m.type = "PDELAY_RESP_FOLLOW_UP"
    /\ \A q \in Ports \ {p} : \A m \in Elements(wire[p][q]) :
         Genuine(m) /\ m.src = p

(* Who has a response to follow up has kept a request *)
HeadersOK ==
  \A p \in Ports : \A m \in Elements(eventSock[p]) :
    m.type = "PDELAY_RESP" /\ m.src = p => PdelayReqHeader[p] # NoExchange

OwnRequestWaits(p) ==
  \E m \in Elements(eventSock[p]) : m.type = "PDELAY_REQ" /\ m.src = p

(* The last request waits to be read, or its sending time is t1 *)
SendingTimesOK ==
  \A p \in Ports : sentPDelayReqSequenceId[p] # 0 =>
    /\ portState[p] \in Answering
    /\ pdelay_req_send_time[p] = LastExchange(p) \/ OwnRequestWaits(p)

IInv == TypesOK /\ MessagesOK /\ HeadersOK /\ SendingTimesOK

LEMMA InvInit == Init => IInv
<1> SUFFICES ASSUME Init PROVE IInv
  OBVIOUS
<1>1. TypesOK
  <2>1. <<>> \in Seq(Message) /\ 0 \in SequenceIds /\ NoExchange \in Stamp
    BY SequenceIdAssumption DEF SequenceIds, Stamp
  <2>2. portState \in Roles /\ losses \in 0 .. MaxLosses
    <3>1. portState \in Roles /\ losses = 0
      BY DEF Init
    <3> QED BY <3>1, MaxLossesAssumption
  <2>3. DOMAIN wire = Ports
    BY DEF Init
  <2>4. \A p \in Ports : wire[p] \in [Ports \ {p} -> Seq(Message)]
    BY <2>1 DEF Init
  <2>5. /\ sentPDelayReqSequenceId \in [Ports -> SequenceIds]
        /\ PdelayReqHeader \in [Ports -> Stamp]
        /\ pdelay_req_send_time \in [Ports -> Stamp]
        /\ pdelay_req_receive_time \in [Ports -> Stamp]
        /\ pdelay_resp_send_time \in [Ports -> Stamp]
        /\ pdelay_resp_receive_time \in [Ports -> Stamp]
    BY <2>1 DEF Init
  <2>6. /\ peerMeanPathDelay \in
             [Ports -> {<<>>} \cup (Stamp \X Stamp \X Stamp \X Stamp)]
        /\ eventSock \in [Ports -> Seq(Message)]
        /\ generalSock \in [Ports -> Seq(Message)]
    BY <2>1 DEF Init
  <2> QED BY <2>2, <2>3, <2>4, <2>5, <2>6 DEF TypesOK
<1>2. MessagesOK /\ HeadersOK /\ SendingTimesOK
  BY NoElements DEF Init, MessagesOK, HeadersOK, SendingTimesOK
<1> QED BY <1>1, <1>2 DEF IInv

LEMMA TypesSuffice == TypesOK => TypeOK
<1> SUFFICES ASSUME TypesOK PROVE TypeOK
  OBVIOUS
<1>1. \A k \in DOMAIN stamps : stamps[k] \in [Ports -> Stamp]
  <2>1. DOMAIN stamps = 1 .. 4
    BY DEF stamps
  <2>2. /\ stamps[1] = pdelay_req_send_time
        /\ stamps[2] = pdelay_req_receive_time
        /\ stamps[3] = pdelay_resp_send_time
        /\ stamps[4] = pdelay_resp_receive_time
    BY DEF stamps
  <2>3. \A k \in 1 .. 4 : k = 1 \/ k = 2 \/ k = 3 \/ k = 4
    OBVIOUS
  <2> QED BY <2>1, <2>2, <2>3 DEF TypesOK
<1> QED BY <1>1 DEF TypesOK, TypeOK

-----------------------------------------------------------------------------
(* Types *)

LEMMA Multicasts ==
  ASSUME TypesOK, NEW p \in Ports, NEW m \in Message, Multicast(p, m)
  PROVE  /\ DOMAIN wire' = Ports
         /\ \A r \in Ports : wire'[r] \in [Ports \ {r} -> Seq(Message)]
         /\ \A q \in Ports \ {p} : wire'[p][q] = Append(wire[p][q], m)
         /\ \A r \in Ports \ {p} : wire'[r] = wire[r]
         /\ losses' = losses
<1>1. /\ DOMAIN wire' = Ports
      /\ wire'[p] = [q \in Ports \ {p} |-> Append(wire[p][q], m)]
      /\ \A r \in Ports \ {p} : wire'[r] = wire[r]
      /\ losses' = losses
  BY DEF Multicast, TypesOK
<1>2. \A q \in Ports \ {p} : Append(wire[p][q], m) \in Seq(Message)
  BY Appended DEF TypesOK
<1>3. wire'[p] \in [Ports \ {p} -> Seq(Message)]
  BY <1>1, <1>2
<1>4. \A r \in Ports : wire'[r] \in [Ports \ {r} -> Seq(Message)]
  BY <1>1, <1>3 DEF TypesOK
<1> QED BY <1>1, <1>4

LEMMA Takes ==
  ASSUME TypesOK, NEW p \in Ports, NEW q \in Ports \ {p}, wire[p][q] # <<>>,
         wire' = [wire EXCEPT ![p][q] = Tail(@)]
  PROVE  /\ DOMAIN wire' = Ports
         /\ \A r \in Ports : wire'[r] \in [Ports \ {r} -> Seq(Message)]
         /\ wire'[p][q] = Tail(wire[p][q])
         /\ \A r \in Ports : \A t \in Ports \ {r} :
              r # p \/ t # q => wire'[r][t] = wire[r][t]
<1>1. wire[p] \in [Ports \ {p} -> Seq(Message)] /\ DOMAIN wire = Ports
  BY DEF TypesOK
<1>2. Tail(wire[p][q]) \in Seq(Message)
  BY <1>1, HeadAndTail
<1>3. /\ DOMAIN wire' = Ports
      /\ wire'[p] = [wire[p] EXCEPT ![q] = Tail(@)]
      /\ \A r \in Ports \ {p} : wire'[r] = wire[r]
  BY <1>1
<1>4. \A r \in Ports : wire'[r] \in [Ports \ {r} -> Seq(Message)]
  BY <1>1, <1>2, <1>3 DEF TypesOK
<1>5. \A r \in Ports : \A t \in Ports \ {r} :
        r # p \/ t # q => wire'[r][t] = wire[r][t]
  BY <1>1, <1>3
<1>6. wire'[p][q] = Tail(wire[p][q])
  BY <1>1, <1>3
<1> QED BY <1>3, <1>4, <1>5, <1>6

LEMMA RequestIsAMessage ==
  ASSUME TypesOK, NEW p \in Ports PROVE Request(p) \in Message
BY DEF TypesOK, Request, Message, Exchange

LEMMA ResponseIsAMessage ==
  ASSUME NEW p \in Ports, NEW m \in Message PROVE Response(p, m) \in Message
BY DEF Response, Message

LEMMA FollowUpIsAMessage ==
  ASSUME TypesOK, NEW p \in Ports, NEW m \in Message,
         PdelayReqHeader[p] # NoExchange
  PROVE  FollowUp(p, m) \in Message
<1>1. PdelayReqHeader[p] \in Exchange
  BY DEF TypesOK, Stamp
<1> QED BY <1>1 DEF FollowUp, Message, Exchange

(* What heads the queue of a socket *)
LEMMA EventHead ==
  ASSUME IInv, NEW p \in Ports, eventSock[p] # <<>>
  PROVE  LET m == Head(eventSock[p])
         IN  /\ m \in Message /\ m \in Elements(eventSock[p])
             /\ Genuine(m) /\ m.type # "PDELAY_RESP_FOLLOW_UP"
             /\ m.exchange \in Exchange /\ m.src \in Ports
             /\ m.type = "PDELAY_RESP" /\ m.src = p =>
                  PdelayReqHeader[p] # NoExchange
<1>1. eventSock[p] \in Seq(Message)
  BY DEF IInv, TypesOK
<1>2. Head(eventSock[p]) \in Message /\ Head(eventSock[p]) \in Elements(eventSock[p])
  BY <1>1, HeadAndTail
<1> QED BY <1>2 DEF IInv, MessagesOK, HeadersOK, Message

LEMMA GeneralHead ==
  ASSUME IInv, NEW p \in Ports, generalSock[p] # <<>>
  PROVE  LET m == Head(generalSock[p])
         IN  /\ m \in Message /\ Genuine(m) /\ m.type = "PDELAY_RESP_FOLLOW_UP"
             /\ m.exchange \in Exchange /\ m.src \in Ports
             /\ m.seq \in SequenceIds
<1>1. generalSock[p] \in Seq(Message)
  BY DEF IInv, TypesOK
<1>2. Head(generalSock[p]) \in Message /\ Head(generalSock[p]) \in Elements(generalSock[p])
  BY <1>1, HeadAndTail
<1> QED BY <1>2 DEF IInv, MessagesOK, Message

LEMMA WireHead ==
  ASSUME IInv, NEW p \in Ports, NEW q \in Ports \ {p}, wire[p][q] # <<>>
  PROVE  LET m == Head(wire[p][q])
         IN  m \in Message /\ m \in Elements(wire[p][q]) /\ Genuine(m) /\ m.src = p
<1>1. wire[p][q] \in Seq(Message)
  BY DEF IInv, TypesOK
<1>2. Head(wire[p][q]) \in Message /\ Head(wire[p][q]) \in Elements(wire[p][q])
  BY <1>1, HeadAndTail
<1> QED BY <1>2 DEF IInv, MessagesOK

LEMMA TypesNext == IInv /\ [Next]_vars => TypesOK'
<1> SUFFICES ASSUME IInv, [Next]_vars PROVE TypesOK'
  OBVIOUS
<1>0. TypesOK
  BY DEF IInv
<1>1. ASSUME NEW p \in Ports, issuePDelayReq(p) PROVE TypesOK'
  <2>1. Request(p) \in Message
    BY <1>0, RequestIsAMessage
  <2>2. Append(eventSock[p], Request(p)) \in Seq(Message)
    BY <1>0, <2>1, Appended DEF TypesOK
  <2>3. (sentPDelayReqSequenceId[p] + 1) % SequenceIdSpace \in SequenceIds
    BY <1>0, SequenceIdAssumption DEF TypesOK, SequenceIds
  <2>4. Multicast(p, Request(p))
    BY <1>1 DEF issuePDelayReq
  <2> QED
    BY <1>0, <1>1, <2>1, <2>2, <2>3, <2>4, Multicasts
    DEF issuePDelayReq, TypesOK, stamps
<1>2. ASSUME NEW p \in Ports, NEW q \in Ports \ {p}, Deliver(p, q) PROVE TypesOK'
  <2> DEFINE m == Head(wire[p][q])
  <2>1. wire[p][q] # <<>> /\ m \in Message
    BY <1>2, WireHead DEF Deliver
  <2>2. /\ Append(eventSock[q], m) \in Seq(Message)
        /\ Append(generalSock[q], m) \in Seq(Message)
    BY <1>0, <2>1, Appended DEF TypesOK
  <2>3. /\ DOMAIN wire' = Ports
        /\ \A r \in Ports : wire'[r] \in [Ports \ {r} -> Seq(Message)]
    BY <1>0, <1>2, <2>1, Takes DEF Deliver
  <2>4. /\ eventSock' \in [Ports -> Seq(Message)]
        /\ generalSock' \in [Ports -> Seq(Message)]
    <3>1. \/ /\ generalSock' = [generalSock EXCEPT ![q] = Append(@, m)]
             /\ eventSock' = eventSock
          \/ /\ eventSock' = [eventSock EXCEPT ![q] = Append(@, m)]
             /\ generalSock' = generalSock
      BY <1>2 DEF Deliver
    <3>2. /\ eventSock \in [Ports -> Seq(Message)]
          /\ generalSock \in [Ports -> Seq(Message)]
      BY <1>0 DEF TypesOK
    <3>3. ASSUME NEW f \in [Ports -> Seq(Message)],
                 Append(f[q], m) \in Seq(Message)
          PROVE  [f EXCEPT ![q] = Append(@, m)] \in [Ports -> Seq(Message)]
      <4> HIDE DEF m
      <4> QED BY <3>3
    <3> QED BY <2>2, <3>1, <3>2, <3>3
  <2> QED BY <1>0, <1>2, <2>3, <2>4 DEF Deliver, TypesOK, stamps
<1>3. ASSUME NEW p \in Ports, NEW q \in Ports \ {p}, Lose(p, q) PROVE TypesOK'
  <2>1. /\ DOMAIN wire' = Ports
        /\ \A r \in Ports : wire'[r] \in [Ports \ {r} -> Seq(Message)]
    BY <1>0, <1>3, Takes DEF Lose
  <2>2. losses' \in 0 .. MaxLosses
    BY <1>0, <1>3, MaxLossesAssumption DEF Lose, TypesOK
  <2> QED BY <1>0, <1>3, <2>1, <2>2 DEF Lose, TypesOK, stamps, sockets
<1>4. ASSUME NEW p \in Ports, handle(p), handleEvent(p) PROVE TypesOK'
  <2> DEFINE m == Head(eventSock[p])
  <2>1. eventSock[p] # <<>>
    BY <1>4 DEF handleEvent, netRecvEvent
  <2>2. /\ m \in Message /\ m.exchange \in Stamp
        /\ Tail(eventSock[p]) \in Seq(Message)
    BY <1>0, <2>1, EventHead, HeadAndTail DEF TypesOK, Stamp
  <2>3. UNCHANGED <<portState, sentPDelayReqSequenceId>>
    BY <1>4 DEF handle
  <2>4. CASE OwnRequest(p, m) \/ OthersResponse(p, m) \/ DisregardEvent(p, m)
    BY <1>0, <2>2, <2>3, <2>4
    DEF OwnRequest, OthersResponse, DisregardEvent, TypesOK, stamps, network
  <2>5. CASE OthersRequest(p, m)
    <3>1. Response(p, m) \in Message
      BY <2>2, ResponseIsAMessage
    <3>2. Append(Tail(eventSock[p]), Response(p, m)) \in Seq(Message)
      BY <2>2, <3>1, Appended
    <3>3. Multicast(p, Response(p, m))
      BY <2>5 DEF OthersRequest, issuePDelayResp
    <3>4. /\ eventSock' \in [Ports -> Seq(Message)]
          /\ PdelayReqHeader' \in [Ports -> Stamp]
      BY <1>0, <2>2, <2>5, <3>2 DEF OthersRequest, issuePDelayResp, TypesOK
    <3> QED
      BY <1>0, <2>3, <2>5, <3>1, <3>3, <3>4, Multicasts
      DEF OthersRequest, TypesOK, stamps
  <2>6. CASE OwnResponse(p, m)
    <3>1. FollowUp(p, m) \in Message
      BY <1>0, <2>1, <2>2, <2>6, EventHead, FollowUpIsAMessage DEF OwnResponse
    <3>2. Append(generalSock[p], FollowUp(p, m)) \in Seq(Message)
      BY <1>0, <3>1, Appended DEF TypesOK
    <3>3. Multicast(p, FollowUp(p, m))
      BY <2>6 DEF OwnResponse, issuePDelayRespFollowUp
    <3>4. /\ eventSock' \in [Ports -> Seq(Message)]
          /\ generalSock' \in [Ports -> Seq(Message)]
      BY <1>0, <2>2, <2>6, <3>2 DEF OwnResponse, issuePDelayRespFollowUp, TypesOK
    <3> QED
      BY <1>0, <2>3, <2>6, <3>1, <3>3, <3>4, Multicasts
      DEF OwnResponse, TypesOK, stamps
  <2> QED
    BY <1>4, <2>4, <2>5, <2>6
    DEF handleEvent, handlePDelayReq, handlePDelayResp
<1>5. ASSUME NEW p \in Ports, handle(p), handleGeneral(p) PROVE TypesOK'
  <2> DEFINE m == Head(generalSock[p])
  <2>1. generalSock[p] # <<>>
    BY <1>5 DEF handleGeneral, netRecvGeneral
  <2>2. /\ m.exchange \in Stamp /\ Tail(generalSock[p]) \in Seq(Message)
    BY <1>0, <2>1, GeneralHead, HeadAndTail DEF TypesOK, Stamp
  <2>3. UNCHANGED <<portState, sentPDelayReqSequenceId>>
    BY <1>5 DEF handle
  <2>4. handlePDelayRespFollowUp(p, m)
    BY <1>5 DEF handleGeneral
  <2>5. CASE DisregardFollowUp(p, m)
    BY <1>0, <2>2, <2>3, <2>4, <2>5
    DEF handlePDelayRespFollowUp, DisregardFollowUp, TypesOK, stamps, network
  <2>6. CASE Measure(p, m)
    <3>1. <<pdelay_req_send_time[p], pdelay_req_receive_time[p], m.exchange,
            pdelay_resp_receive_time[p]>> \in Stamp \X Stamp \X Stamp \X Stamp
      BY <1>0, <2>2 DEF TypesOK
    <3> QED
      BY <1>0, <2>2, <2>3, <2>4, <2>6, <3>1
      DEF handlePDelayRespFollowUp, Measure, updatePeerDelay, TypesOK, network
  <2> QED BY <2>4, <2>5, <2>6 DEF handlePDelayRespFollowUp
<1>6. CASE UNCHANGED vars
  BY <1>0, <1>6 DEF vars, stamps, sockets, network, TypesOK
<1> QED BY <1>1, <1>2, <1>3, <1>4, <1>5, <1>6 DEF Next, handle

-----------------------------------------------------------------------------
(* Messages *)

LEMMA TheNextIsTheLast ==
  ASSUME NEW n \in SequenceIds
  PROVE  (((n + 1) % SequenceIdSpace) - 1) % SequenceIdSpace = n
<1>1. SequenceIdSpace \in Nat /\ SequenceIdSpace > 1 /\ n \in Nat /\ n < SequenceIdSpace
  BY SequenceIdAssumption DEF SequenceIds
<1>2. CASE n + 1 < SequenceIdSpace
  <2>1. (n + 1) % SequenceIdSpace = n + 1
    BY <1>1, <1>2
  <2> QED BY <1>1, <1>2, <2>1
<1>3. CASE n + 1 = SequenceIdSpace
  <2>1. (n + 1) % SequenceIdSpace = 0
    BY <1>1, <1>3
  <2>2. (0 - 1) % SequenceIdSpace = SequenceIdSpace - 1
    BY <1>1
  <2> QED BY <1>1, <1>3, <2>1, <2>2
<1> QED BY <1>1, <1>2, <1>3

(* While no request is sent, the messages are judged as before: only those  *)
(* that a queue has not held need a look.                                   *)
LEMMA MessagesKept ==
  ASSUME MessagesOK, UNCHANGED sentPDelayReqSequenceId,
         \A p \in Ports : \A m \in Elements(eventSock'[p]) :
           m \in Elements(eventSock[p])
             \/ (Genuine(m) /\ m.type # "PDELAY_RESP_FOLLOW_UP"),
         \A p \in Ports : \A m \in Elements(generalSock'[p]) :
           m \in Elements(generalSock[p])
             \/ (Genuine(m) /\ m.type = "PDELAY_RESP_FOLLOW_UP"),
         \A p \in Ports : \A q \in Ports \ {p} : \A m \in Elements(wire'[p][q]) :
           m \in Elements(wire[p][q]) \/ (Genuine(m) /\ m.src = p)
  PROVE  MessagesOK'
<1>1. \A m : Genuine(m) => Genuine(m)'
  BY DEF Genuine, LastExchange
<1>2. \A p \in Ports : \A m \in Elements(eventSock'[p]) :
        Genuine(m)' /\ m.type # "PDELAY_RESP_FOLLOW_UP"
  BY <1>1 DEF MessagesOK
<1>3. \A p \in Ports : \A m \in Elements(generalSock'[p]) :
        Genuine(m)' /\ m.type = "PDELAY_RESP_FOLLOW_UP"
  BY <1>1 DEF MessagesOK
<1>4. \A p \in Ports : \A q \in Ports \ {p} : \A m \in Elements(wire'[p][q]) :
        Genuine(m)' /\ m.src = p
  BY <1>1 DEF MessagesOK
<1> QED BY <1>2, <1>3, <1>4 DEF MessagesOK, Elements

LEMMA Joins ==
  ASSUME NEW f \in [Ports -> Seq(Message)], NEW p \in Ports, NEW m \in Message,
         NEW r \in Ports
  PROVE  Elements([f EXCEPT ![p] = Append(@, m)][r])
           = Elements(f[r]) \cup IF r = p THEN {m} ELSE {}
<1> DEFINE g == [f EXCEPT ![p] = Append(@, m)]
<1>1. f[p] \in Seq(Message) /\ g[p] = Append(f[p], m)
  OBVIOUS
<1>2. Elements(g[p]) = Elements(f[p]) \cup {m}
  BY <1>1, Appended
<1>3. r # p => g[r] = f[r]
  OBVIOUS
<1> QED BY <1>2, <1>3

LEMMA MulticastElements ==
  ASSUME TypesOK, NEW p \in Ports, NEW m \in Message, Multicast(p, m)
  PROVE  \A r \in Ports : \A q \in Ports \ {r} : \A n \in Elements(wire'[r][q]) :
           n \in Elements(wire[r][q]) \/ (r = p /\ n = m)
<1>1. \A q \in Ports \ {p} : wire[p][q] \in Seq(Message)
  BY DEF TypesOK
<1>2. /\ \A q \in Ports \ {p} : wire'[p][q] = Append(wire[p][q], m)
      /\ \A r \in Ports \ {p} : wire'[r] = wire[r]
  BY Multicasts
<1>3. ASSUME NEW q \in Ports \ {p}
      PROVE  Elements(wire'[p][q]) = Elements(wire[p][q]) \cup {m}
  <2>1. wire[p][q] \in Seq(Message) /\ wire'[p][q] = Append(wire[p][q], m)
    BY <1>1, <1>2
  <2> QED BY <2>1, Appended
<1>4. ASSUME NEW r \in Ports, NEW q \in Ports \ {r}, NEW n \in Elements(wire'[r][q])
      PROVE  n \in Elements(wire[r][q]) \/ (r = p /\ n = m)
  <2>1. CASE r = p
    BY <1>3, <1>4, <2>1
  <2>2. CASE r # p
    <3>1. wire'[r] = wire[r]
      BY <1>2, <2>2
    <3> QED BY <1>4, <3>1
  <2> QED BY <2>1, <2>2
<1> QED BY <1>4

LEMMA TakenElements ==
  ASSUME TypesOK, NEW p \in Ports, NEW q \in Ports \ {p}, wire[p][q] # <<>>,
         wire' = [wire EXCEPT ![p][q] = Tail(@)]
  PROVE  \A r \in Ports : \A t \in Ports \ {r} :
           Elements(wire'[r][t]) \subseteq Elements(wire[r][t])
<1>1. wire[p][q] \in Seq(Message)
  BY DEF TypesOK
<1>2. Elements(wire'[p][q]) \subseteq Elements(wire[p][q])
  BY <1>1, HeadAndTail, Takes
<1> QED BY <1>2, Takes

LEMMA MessagesNext == IInv /\ [Next]_vars => MessagesOK'
<1> SUFFICES ASSUME IInv, [Next]_vars PROVE MessagesOK'
  OBVIOUS
<1>0. TypesOK /\ MessagesOK
  BY DEF IInv
<1>1. ASSUME NEW p \in Ports, issuePDelayReq(p) PROVE MessagesOK'
  <2> PICK seq, new : /\ seq = sentPDelayReqSequenceId[p] /\ new = Request(p)
    OBVIOUS
  <2>1. /\ new \in Message /\ seq \in SequenceIds
        /\ new = [type |-> "PDELAY_REQ", src |-> p, seq |-> seq,
                  exchange |-> [requester |-> p, seq |-> seq]]
    BY <1>0, RequestIsAMessage DEF TypesOK, Request
  <2>2. /\ sentPDelayReqSequenceId'[p] = (sentPDelayReqSequenceId[p] + 1) % SequenceIdSpace
        /\ \A r \in Ports \ {p} : sentPDelayReqSequenceId'[r] = sentPDelayReqSequenceId[r]
    BY <1>0, <1>1 DEF issuePDelayReq, TypesOK
  <2>3. Genuine(new)'
    <3>1. LastExchange(p)' = [requester |-> p, seq |-> seq]
      BY <2>1, <2>2, TheNextIsTheLast DEF LastExchange
    <3> QED BY <2>1, <3>1 DEF Genuine
  <2>4. ASSUME NEW m \in Message, Genuine(m), m.exchange.requester # p
        PROVE  Genuine(m)'
    <3>1. m.exchange.requester \in Ports \ {p}
      BY <2>4 DEF Message, Exchange
    <3> QED BY <2>2, <2>4, <3>1 DEF Genuine, LastExchange
  <2>5. ASSUME NEW r \in Ports PROVE
          /\ \A m \in Elements(eventSock[r]) :
               Genuine(m)' /\ m.type # "PDELAY_RESP_FOLLOW_UP"
          /\ \A m \in Elements(generalSock[r]) :
               Genuine(m)' /\ m.type = "PDELAY_RESP_FOLLOW_UP"
          /\ \A q \in Ports \ {r} : \A m \in Elements(wire[r][q]) :
               Genuine(m)' /\ m.src = r
    <3>1. /\ \A m \in Elements(eventSock[r]) : m.exchange.requester # p
          /\ \A m \in Elements(generalSock[r]) : m.exchange.requester # p
          /\ \A q \in Ports \ {r} : \A m \in Elements(wire[r][q]) :
               m.exchange.requester # p
      BY <1>1 DEF issuePDelayReq, PreviousExchangeOver, Carries, Elements
    <3>2. /\ Elements(eventSock[r]) \subseteq Message
          /\ Elements(generalSock[r]) \subseteq Message
          /\ \A q \in Ports \ {r} : Elements(wire[r][q]) \subseteq Message
      BY <1>0, ElementsAreMessages DEF TypesOK
    <3> QED BY <1>0, <2>4, <3>1, <3>2 DEF MessagesOK
  <2>6. ASSUME NEW r \in Ports, NEW m \in Elements(eventSock'[r])
        PROVE  Genuine(m)' /\ m.type # "PDELAY_RESP_FOLLOW_UP"
    <3>1. CASE r = p
      <4>1. eventSock[p] \in Seq(Message) /\ eventSock'[p] = Append(eventSock[p], new)
        BY <1>0, <1>1 DEF issuePDelayReq, TypesOK
      <4>2. m \in Elements(eventSock[p]) \/ m = new
        BY <2>1, <2>6, <3>1, <4>1, Appended
      <4>3. new.type = "PDELAY_REQ"
        BY <2>1
      <4> QED BY <2>3, <2>5, <4>2, <4>3
    <3>2. CASE r # p
      <4>1. eventSock'[r] = eventSock[r]
        BY <1>0, <1>1, <3>2 DEF issuePDelayReq, TypesOK
      <4> QED BY <2>5, <2>6, <4>1
    <3> QED BY <3>1, <3>2
  <2>7. ASSUME NEW r \in Ports, NEW m \in Elements(generalSock'[r])
        PROVE  Genuine(m)' /\ m.type = "PDELAY_RESP_FOLLOW_UP"
    BY <1>1, <2>5, <2>7 DEF issuePDelayReq
  <2>8. ASSUME NEW r \in Ports, NEW q \in Ports \ {r}, NEW m \in Elements(wire'[r][q])
        PROVE  Genuine(m)' /\ m.src = r
    <3>1. Multicast(p, new)
      BY <1>1 DEF issuePDelayReq
    <3>2. m \in Elements(wire[r][q]) \/ (r = p /\ m = new)
      BY <1>0, <2>1, <2>8, <3>1, MulticastElements
    <3>3. new.src = p
      BY <2>1
    <3> QED BY <2>3, <2>5, <3>2, <3>3
  <2> QED BY <2>6, <2>7, <2>8 DEF MessagesOK, Elements
<1>2. ASSUME NEW p \in Ports, NEW q \in Ports \ {p}, Deliver(p, q) PROVE MessagesOK'
  <2> PICK m : m = Head(wire[p][q])
    OBVIOUS
  <2>1. /\ wire[p][q] # <<>>
        /\ wire' = [wire EXCEPT ![p][q] = Tail(@)]
        /\ UNCHANGED sentPDelayReqSequenceId
        /\ \/ /\ m.type = "PDELAY_RESP_FOLLOW_UP"
              /\ generalSock' = [generalSock EXCEPT ![q] = Append(@, m)]
              /\ eventSock' = eventSock
           \/ /\ m.type # "PDELAY_RESP_FOLLOW_UP"
              /\ eventSock' = [eventSock EXCEPT ![q] = Append(@, m)]
              /\ generalSock' = generalSock
    BY <1>2 DEF Deliver
  <2>2. m \in Message /\ Genuine(m)
    BY <2>1, WireHead
  <2>3. \A r \in Ports : \A t \in Ports \ {r} :
          Elements(wire'[r][t]) \subseteq Elements(wire[r][t])
    BY <1>0, <2>1, TakenElements
  <2>4. \A r \in Ports :
          /\ Elements(eventSock'[r]) \subseteq Elements(eventSock[r])
               \cup IF m.type # "PDELAY_RESP_FOLLOW_UP" THEN {m} ELSE {}
          /\ Elements(generalSock'[r]) \subseteq Elements(generalSock[r])
               \cup IF m.type = "PDELAY_RESP_FOLLOW_UP" THEN {m} ELSE {}
    <3>1. /\ eventSock \in [Ports -> Seq(Message)]
          /\ generalSock \in [Ports -> Seq(Message)]
      BY <1>0 DEF TypesOK
    <3>2. CASE m.type = "PDELAY_RESP_FOLLOW_UP"
      <4>1. /\ generalSock' = [generalSock EXCEPT ![q] = Append(@, m)]
            /\ eventSock' = eventSock
        BY <2>1, <3>2
      <4>2. \A r \in Ports : Elements(generalSock'[r])
              = Elements(generalSock[r]) \cup IF r = q THEN {m} ELSE {}
        BY <2>2, <3>1, <4>1, Joins
      <4> QED BY <3>2, <4>1, <4>2
    <3>3. CASE m.type # "PDELAY_RESP_FOLLOW_UP"
      <4>1. /\ eventSock' = [eventSock EXCEPT ![q] = Append(@, m)]
            /\ generalSock' = generalSock
        BY <2>1, <3>3
      <4>2. \A r \in Ports : Elements(eventSock'[r])
              = Elements(eventSock[r]) \cup IF r = q THEN {m} ELSE {}
        BY <2>2, <3>1, <4>1, Joins
      <4> QED BY <3>3, <4>1, <4>2
    <3> QED BY <3>2, <3>3
  <2> QED BY <1>0, <2>1, <2>2, <2>3, <2>4, MessagesKept
<1>3. ASSUME NEW p \in Ports, NEW q \in Ports \ {p}, Lose(p, q) PROVE MessagesOK'
  <2>1. \A r \in Ports : \A t \in Ports \ {r} :
          Elements(wire'[r][t]) \subseteq Elements(wire[r][t])
    BY <1>0, <1>3, TakenElements DEF Lose
  <2> QED BY <1>0, <1>3, <2>1, MessagesKept DEF Lose, sockets
<1>4. ASSUME NEW p \in Ports, handle(p), handleEvent(p) PROVE MessagesOK'
  <2> PICK m : m = Head(eventSock[p])
    OBVIOUS
  <2>1. eventSock[p] # <<>> /\ UNCHANGED sentPDelayReqSequenceId
    BY <1>4 DEF handle, handleEvent, netRecvEvent
  <2>2. /\ m \in Message /\ Genuine(m)
        /\ m.type = "PDELAY_RESP" /\ m.src = p => PdelayReqHeader[p] # NoExchange
    BY <2>1, EventHead
  <2>3. /\ eventSock \in [Ports -> Seq(Message)]
        /\ generalSock \in [Ports -> Seq(Message)]
        /\ eventSock[p] \in Seq(Message) /\ generalSock[p] \in Seq(Message)
        /\ Tail(eventSock[p]) \in Seq(Message)
        /\ Elements(Tail(eventSock[p])) \subseteq Elements(eventSock[p])
    BY <1>0, <2>1, HeadAndTail DEF TypesOK
  <2>4. CASE OwnRequest(p, m) \/ OthersResponse(p, m) \/ DisregardEvent(p, m)
    <3>1. /\ eventSock' = [eventSock EXCEPT ![p] = Tail(@)]
          /\ UNCHANGED <<generalSock, wire>>
      BY <2>4 DEF OwnRequest, OthersResponse, DisregardEvent, network
    <3>2. \A r \in Ports : Elements(eventSock'[r]) \subseteq Elements(eventSock[r])
      BY <2>3, <3>1
    <3> QED BY <1>0, <2>1, <3>1, <3>2, MessagesKept
  <2>5. CASE OthersRequest(p, m)
    <3> PICK resp : resp = Response(p, m)
      OBVIOUS
    <3>1. /\ resp \in Message /\ resp.src = p /\ resp.type = "PDELAY_RESP"
          /\ resp.exchange = m.exchange /\ resp.seq = m.seq
      BY <2>2, ResponseIsAMessage DEF Response
    <3>2. /\ m.type = "PDELAY_REQ" /\ m.src # p
          /\ eventSock' = [eventSock EXCEPT ![p] = Append(Tail(@), resp)]
          /\ Multicast(p, resp) /\ UNCHANGED generalSock
      BY <2>5 DEF OthersRequest, issuePDelayResp
    <3>3. Genuine(resp)
      <4>1. m.seq = m.exchange.seq
        BY <2>2, <3>2 DEF Genuine
      <4> QED BY <2>2, <3>1, <3>2, <4>1 DEF Genuine
    <3>4. \A r \in Ports : \A n \in Elements(eventSock'[r]) :
            n \in Elements(eventSock[r]) \/ n = resp
      <4>1. Elements(Append(Tail(eventSock[p]), resp))
              = Elements(Tail(eventSock[p])) \cup {resp}
        BY <2>3, <3>1, Appended
      <4>2. /\ eventSock'[p] = Append(Tail(eventSock[p]), resp)
            /\ \A r \in Ports \ {p} : eventSock'[r] = eventSock[r]
        BY <2>3, <3>2
      <4> QED BY <2>3, <4>1, <4>2
    <3>5. \A r \in Ports : \A q \in Ports \ {r} : \A n \in Elements(wire'[r][q]) :
            n \in Elements(wire[r][q]) \/ (r = p /\ n = resp)
      BY <1>0, <3>1, <3>2, MulticastElements
    <3> QED BY <1>0, <2>1, <3>1, <3>2, <3>3, <3>4, <3>5, MessagesKept
  <2>6. CASE OwnResponse(p, m)
    <3> PICK fu : fu = FollowUp(p, m)
      OBVIOUS
    <3>1. /\ m.type = "PDELAY_RESP" /\ m.src = p
          /\ eventSock' = [eventSock EXCEPT ![p] = Tail(@)]
          /\ generalSock' = [generalSock EXCEPT ![p] = Append(@, fu)]
          /\ Multicast(p, fu)
      BY <2>6 DEF OwnResponse, issuePDelayRespFollowUp
    <3>2. /\ fu \in Message /\ fu.src = p /\ fu.type = "PDELAY_RESP_FOLLOW_UP"
          /\ fu.exchange = m.exchange
      BY <1>0, <2>2, <3>1, FollowUpIsAMessage DEF FollowUp
    <3>3. Genuine(fu)
      BY <2>2, <3>1, <3>2 DEF Genuine
    <3>4. \A r \in Ports : Elements(eventSock'[r]) \subseteq Elements(eventSock[r])
      BY <2>3, <3>1
    <3>5. \A r \in Ports : \A n \in Elements(generalSock'[r]) :
            n \in Elements(generalSock[r]) \/ n = fu
      <4>1. generalSock' = [generalSock EXCEPT ![p] = Append(@, fu)] /\ fu \in Message
        BY <3>1, <3>2
      <4>2. \A r \in Ports : Elements(generalSock'[r])
              = Elements(generalSock[r]) \cup IF r = p THEN {fu} ELSE {}
        BY <2>3, <4>1, Joins
      <4> QED BY <4>2
    <3>6. \A r \in Ports : \A q \in Ports \ {r} : \A n \in Elements(wire'[r][q]) :
            n \in Elements(wire[r][q]) \/ (r = p /\ n = fu)
      BY <1>0, <3>1, <3>2, MulticastElements
    <3>7. \A r \in Ports : \A n \in Elements(eventSock'[r]) : n \in Elements(eventSock[r])
      BY <3>4
    <3> QED
      <4> HIDE <3>4
      <4> QED BY <1>0, <2>1, <3>2, <3>3, <3>5, <3>6, <3>7, MessagesKept
  <2> QED
    BY <1>4, <2>4, <2>5, <2>6
    DEF handleEvent, handlePDelayReq, handlePDelayResp
<1>5. ASSUME NEW p \in Ports, handle(p), handleGeneral(p) PROVE MessagesOK'
  <2>1. /\ generalSock[p] # <<>>
        /\ generalSock' = [generalSock EXCEPT ![p] = Tail(@)]
        /\ UNCHANGED <<sentPDelayReqSequenceId, eventSock, wire>>
    BY <1>5
    DEF handle, handleGeneral, netRecvGeneral, handlePDelayRespFollowUp, network
  <2>2. generalSock \in [Ports -> Seq(Message)]
    BY <1>0 DEF TypesOK
  <2>3. Elements(Tail(generalSock[p])) \subseteq Elements(generalSock[p])
    BY <2>1, <2>2, HeadAndTail
  <2>4. \A r \in Ports : Elements(generalSock'[r]) \subseteq Elements(generalSock[r])
    BY <2>1, <2>2, <2>3
  <2> QED BY <1>0, <2>1, <2>4, MessagesKept
<1>6. CASE UNCHANGED vars
  <2>1. UNCHANGED <<sentPDelayReqSequenceId, eventSock, generalSock, wire>>
    BY <1>6 DEF vars, sockets, network
  <2> QED BY <1>0, <2>1, MessagesKept
<1> QED BY <1>1, <1>2, <1>3, <1>4, <1>5, <1>6 DEF Next, handle

-----------------------------------------------------------------------------
(* What a port has kept *)

(* How a step may change the event socket of q: another's message is       *)
(* added, or the head leaves, or q's request or answer is added.           *)
LEMMA EventSteps ==
  ASSUME IInv, Next, NEW q \in Ports
  PROVE  \/ UNCHANGED eventSock[q]
         \/ \E p \in Ports \ {q} : \E m \in Message :
              m.src = p /\ eventSock'[q] = Append(eventSock[q], m)
         \/ /\ issuePDelayReq(q)
            /\ eventSock'[q] = Append(eventSock[q], Request(q))
         \/ /\ handleEvent(q) /\ UNCHANGED <<portState, sentPDelayReqSequenceId>>
<1>0. eventSock \in [Ports -> Seq(Message)]
  BY DEF IInv, TypesOK
<1>1. ASSUME NEW p \in Ports, issuePDelayReq(p)
      PROVE  IF p = q THEN eventSock'[q] = Append(eventSock[q], Request(q))
                      ELSE UNCHANGED eventSock[q]
  BY <1>0, <1>1 DEF issuePDelayReq
<1>2. ASSUME NEW p \in Ports, NEW r \in Ports \ {p}, Deliver(p, r)
      PROVE  \/ UNCHANGED eventSock[q]
             \/ \E t \in Ports \ {q} : \E m \in Message :
                  m.src = t /\ eventSock'[q] = Append(eventSock[q], m)
  <2> DEFINE m == Head(wire[p][r])
  <2>1. m \in Message /\ m.src = p
    BY <1>2, WireHead DEF Deliver
  <2>2. eventSock' = eventSock \/ eventSock' = [eventSock EXCEPT ![r] = Append(@, m)]
    BY <1>2 DEF Deliver
  <2>3. CASE r # q
    BY <1>0, <2>2, <2>3
  <2>4. CASE r = q
    <3>1. eventSock'[q] = eventSock[q] \/ eventSock'[q] = Append(eventSock[q], m)
      BY <1>0, <2>2, <2>4
    <3> QED BY <2>1, <2>4, <3>1
  <2> QED BY <2>3, <2>4
<1>3. ASSUME NEW p \in Ports, NEW r \in Ports \ {p}, Lose(p, r)
      PROVE  UNCHANGED eventSock[q]
  BY <1>3 DEF Lose, sockets
<1>4. ASSUME NEW p \in Ports, handle(p), p # q PROVE UNCHANGED eventSock[q]
  BY <1>0, <1>4
  DEF handle, handleEvent, handleGeneral, handlePDelayReq, handlePDelayResp,
      handlePDelayRespFollowUp, OwnRequest, OthersRequest, OwnResponse,
      OthersResponse, DisregardEvent, issuePDelayResp, issuePDelayRespFollowUp
<1>5. CASE handle(q)
  BY <1>5 DEF handle, handleGeneral, handlePDelayRespFollowUp
<1> QED BY <1>1, <1>2, <1>3, <1>4, <1>5 DEF Next

(* A request once kept is only replaced by another *)
LEMMA KeptHeaders ==
  ASSUME IInv, Next, NEW q \in Ports, PdelayReqHeader[q] # NoExchange
  PROVE  PdelayReqHeader'[q] # NoExchange
<1>1. UNCHANGED PdelayReqHeader
        \/ \E p \in Ports : netRecvEvent(p) /\ OthersRequest(p, Head(eventSock[p]))
  BY DEF Next, issuePDelayReq, Deliver, Lose, handle, handleEvent, handleGeneral,
         handlePDelayReq, handlePDelayResp, handlePDelayRespFollowUp, OwnRequest,
         OwnResponse, OthersResponse, DisregardEvent
<1>2. ASSUME NEW p \in Ports, netRecvEvent(p), OthersRequest(p, Head(eventSock[p]))
      PROVE  PdelayReqHeader'[q] # NoExchange
  <2>1. Head(eventSock[p]).exchange \in Exchange
    BY <1>2, EventHead DEF netRecvEvent
  <2>2. PdelayReqHeader' = [PdelayReqHeader EXCEPT ![p] = Head(eventSock[p]).exchange]
    BY <1>2 DEF OthersRequest
  <2> QED BY <2>1, <2>2, NoExchangeAssumption DEF IInv, TypesOK
<1> QED BY <1>1, <1>2

LEMMA HeadersNext == IInv /\ [Next]_vars => HeadersOK'
<1> SUFFICES ASSUME IInv, [Next]_vars PROVE HeadersOK'
  OBVIOUS
<1>1. CASE UNCHANGED vars
  BY <1>1 DEF vars, sockets, IInv, HeadersOK, Elements
<1>2. ASSUME Next, NEW q \in Ports, NEW n \in Elements(eventSock'[q]),
             n.type = "PDELAY_RESP", n.src = q
      PROVE  PdelayReqHeader'[q] # NoExchange
  <2>0. eventSock[q] \in Seq(Message)
    BY DEF IInv, TypesOK
  <2>1. CASE n \in Elements(eventSock[q])
    BY <1>2, <2>1, KeptHeaders DEF IInv, HeadersOK
  <2>2. CASE n \notin Elements(eventSock[q])
    <3>1. ASSUME NEW p \in Ports \ {q}, NEW m \in Message, m.src = p,
                 eventSock'[q] = Append(eventSock[q], m)
          PROVE  FALSE
      <4>1. n = m
        BY <1>2, <2>0, <2>2, <3>1, Appended
      <4> QED BY <1>2, <3>1, <4>1
    <3>2. ASSUME eventSock'[q] = Append(eventSock[q], Request(q)) PROVE FALSE
      <4>1. n = Request(q)
        BY <1>2, <2>0, <2>2, <3>2, Appended, RequestIsAMessage DEF IInv
      <4> QED BY <1>2, <4>1 DEF Request
    <3>3. CASE handleEvent(q)
      <4> DEFINE m == Head(eventSock[q])
      <4>1. eventSock[q] # <<>>
        BY <3>3 DEF handleEvent, netRecvEvent
      <4>2. m.exchange \in Exchange
        BY <4>1, EventHead
      <4>3. Elements(Tail(eventSock[q])) \subseteq Elements(eventSock[q])
        BY <2>0, <4>1, HeadAndTail
      <4>4. eventSock'[q] # Tail(eventSock[q])
        BY <1>2, <2>2, <4>3
      <4>5. OthersRequest(q, m)
        BY <3>3, <4>4
        DEF handleEvent, handlePDelayReq, handlePDelayResp, OwnRequest,
            OwnResponse, OthersResponse, DisregardEvent, IInv, TypesOK
      <4>6. PdelayReqHeader' = [PdelayReqHeader EXCEPT ![q] = m.exchange]
        BY <4>5 DEF OthersRequest
      <4> QED BY <4>2, <4>6, NoExchangeAssumption DEF IInv, TypesOK
    <3> QED BY <1>2, <2>2, <3>1, <3>2, <3>3, EventSteps
  <2> QED BY <2>1, <2>2
<1>3. CASE Next
  BY <1>2, <1>3 DEF HeadersOK, Elements
<1> QED BY <1>1, <1>3

LEMMA SendingTimesNext == IInv /\ [Next]_vars => SendingTimesOK'
<1> SUFFICES ASSUME IInv, [Next]_vars PROVE SendingTimesOK'
  OBVIOUS
<1>1. CASE UNCHANGED vars
  BY <1>1 DEF vars, stamps, sockets, IInv, SendingTimesOK, OwnRequestWaits,
              LastExchange, Elements
<1>2. ASSUME Next, NEW q \in Ports, sentPDelayReqSequenceId'[q] # 0
      PROVE  /\ portState'[q] \in Answering
             /\ pdelay_req_send_time'[q] = LastExchange(q)' \/ OwnRequestWaits(q)'
  <2>0. /\ eventSock[q] \in Seq(Message)
        /\ sentPDelayReqSequenceId \in [Ports -> SequenceIds]
        /\ pdelay_req_send_time \in [Ports -> Stamp]
    BY DEF IInv, TypesOK
  <2>1. portState' = portState
    BY <1>2 DEF Next, issuePDelayReq, Deliver, Lose, handle
  <2>2. CASE issuePDelayReq(q)
    <3> PICK new : new = Request(q)
      OBVIOUS
    <3>1. eventSock'[q] = Append(eventSock[q], new) /\ portState[q] \in Answering
      BY <2>0, <2>2 DEF issuePDelayReq, IInv, TypesOK
    <3>2. new \in Message /\ new.type = "PDELAY_REQ" /\ new.src = q
      BY RequestIsAMessage DEF IInv, Request
    <3>3. new \in Elements(eventSock'[q])
      BY <2>0, <3>1, <3>2, Appended
    <3> QED BY <2>1, <3>1, <3>2, <3>3 DEF OwnRequestWaits, Elements
  <2>3. CASE ~issuePDelayReq(q)
    <3>1. sentPDelayReqSequenceId'[q] = sentPDelayReqSequenceId[q]
      <4>1. ASSUME NEW p \in Ports \ {q}, issuePDelayReq(p)
            PROVE  sentPDelayReqSequenceId'[q] = sentPDelayReqSequenceId[q]
        BY <2>0, <4>1 DEF issuePDelayReq
      <4> QED BY <1>2, <2>3, <4>1 DEF Next, Deliver, Lose, handle
    <3>2. /\ LastExchange(q)' = LastExchange(q)
          /\ portState[q] \in Answering
          /\ pdelay_req_send_time[q] = LastExchange(q) \/ OwnRequestWaits(q)
      BY <1>2, <3>1 DEF LastExchange, IInv, SendingTimesOK
    <3>3. CASE handleEvent(q)
      <4> PICK m : m = Head(eventSock[q])
        OBVIOUS
      <4>1. eventSock[q] # <<>>
        BY <3>3 DEF handleEvent, netRecvEvent
      <4>2. m \in Message /\ Genuine(m)
        BY <4>1, EventHead
      <4>3. \A n \in Elements(eventSock[q]) :
              n = m \/ n \in Elements(Tail(eventSock[q]))
        BY <2>0, <4>1, HeadAndTail
      <4>4. CASE m.type = "PDELAY_REQ" /\ m.src = q
        <5>1. OwnRequest(q, m)
          BY <3>2, <3>3, <4>4
          DEF handleEvent, handlePDelayReq, handlePDelayResp, OthersRequest,
              OwnResponse, OthersResponse, DisregardEvent
        <5>2. pdelay_req_send_time'[q] = m.exchange
          BY <2>0, <5>1 DEF OwnRequest
        <5>3. m.exchange = LastExchange(q)
          BY <4>2, <4>4 DEF Genuine
        <5> QED BY <2>1, <3>2, <5>2, <5>3
      <4>5. CASE ~(m.type = "PDELAY_REQ" /\ m.src = q)
        <5>1. pdelay_req_send_time' = pdelay_req_send_time
          BY <3>3, <4>5
          DEF handleEvent, handlePDelayReq, handlePDelayResp, OwnRequest,
              OthersRequest, OwnResponse, OthersResponse, DisregardEvent, stamps
        <5>2. \/ eventSock'[q] = Tail(eventSock[q])
              \/ eventSock'[q] = Append(Tail(eventSock[q]), Response(q, m))
          BY <3>3, <4>5
          DEF handleEvent, handlePDelayReq, handlePDelayResp, OwnRequest,
              OthersRequest, OwnResponse, OthersResponse, DisregardEvent,
              issuePDelayResp, IInv, TypesOK
        <5>3. Elements(Tail(eventSock[q])) \subseteq Elements(eventSock'[q])
          <6>1. Tail(eventSock[q]) \in Seq(Message)
            BY <2>0, <4>1, HeadAndTail
          <6> QED BY <4>2, <5>2, <6>1, Appended, ResponseIsAMessage
        <5>4. OwnRequestWaits(q) => OwnRequestWaits(q)'
          BY <4>3, <4>5, <5>3 DEF OwnRequestWaits, Elements
        <5> QED BY <2>1, <3>2, <5>1, <5>4
      <4> QED BY <4>4, <4>5
    <3>4. CASE ~handleEvent(q)
      <4>1. Elements(eventSock[q]) \subseteq Elements(eventSock'[q])
        BY <1>2, <2>0, <2>3, <3>4, EventSteps, Appended
      <4>2. pdelay_req_send_time'[q] = pdelay_req_send_time[q]
        <5>1. ASSUME NEW p \in Ports, handle(p), p # q
              PROVE  pdelay_req_send_time'[q] = pdelay_req_send_time[q]
          BY <2>0, <5>1
          DEF handle, handleEvent, handleGeneral, handlePDelayReq,
              handlePDelayResp, handlePDelayRespFollowUp, OwnRequest,
              OthersRequest, OwnResponse, OthersResponse, DisregardEvent,
              Measure, DisregardFollowUp, stamps
        <5>2. CASE handle(q)
          BY <3>4, <5>2
          DEF handle, handleGeneral, handlePDelayRespFollowUp, Measure,
              DisregardFollowUp, stamps
        <5> QED
          BY <1>2, <5>1, <5>2 DEF Next, issuePDelayReq, Deliver, Lose, stamps
      <4>3. OwnRequestWaits(q) => OwnRequestWaits(q)'
        BY <4>1 DEF OwnRequestWaits, Elements
      <4> QED BY <2>1, <3>2, <4>2, <4>3
    <3> QED BY <3>3, <3>4
  <2> QED BY <2>2, <2>3
<1>3. CASE Next
  BY <1>2, <1>3 DEF SendingTimesOK
<1> QED BY <1>1, <1>3

-----------------------------------------------------------------------------
LEMMA Invariance == Spec => []IInv
<1>1. IInv /\ [Next]_vars => IInv'
  BY TypesNext, MessagesNext, HeadersNext, SendingTimesNext DEF IInv
<1> QED BY InvInit, <1>1, PTL DEF Spec

(* The request counter wraps within its width and every message, stamp and  *)
(* delay has its type: peerMeanPathDelay is computed from stamps only.      *)
THEOREM TypeCorrect == Spec => []TypeOK
<1>1. IInv => TypeOK
  BY TypesSuffice DEF IInv
<1> QED BY Invariance, <1>1, PTL

(* A link has two ends *)
TwoPorts == \A p, q, r \in Ports : p = q \/ q = r \/ p = r

LEMMA LastSendTimes ==
  ASSUME TwoPorts, IInv, NEW p \in Ports, MeasuresPeer(p)
  PROVE  /\ peerMeanPathDelay'[p][1] = LastExchange(p)
         /\ peerMeanPathDelay'[p][3] = LastExchange(p)
<1> DEFINE m == Head(generalSock[p])
<1>1. /\ eventSock[p] = <<>> /\ generalSock[p] # <<>>
      /\ m.src # p /\ Measure(p, m)
  BY DEF MeasuresPeer, handleGeneral, netRecvGeneral
<1>2. /\ Genuine(m) /\ m.type = "PDELAY_RESP_FOLLOW_UP" /\ m.src \in Ports
      /\ m.exchange \in Exchange /\ m.seq \in SequenceIds
  BY <1>1, GeneralHead
<1>3. m.exchange = LastExchange(p)
  <2>1. m.src # m.exchange.requester /\ m.exchange.requester \in Ports
    BY <1>2 DEF Genuine, Exchange
  <2>2. m.exchange.requester = p
    BY <1>1, <1>2, <2>1 DEF TwoPorts
  <2> QED BY <1>2, <2>2 DEF Genuine
<1>4. pdelay_req_send_time[p] = LastExchange(p)
  <2>1. sentPDelayReqSequenceId[p] # 0
    BY <1>1, <1>2, SequenceIdAssumption DEF Measure, Expected, SequenceIds
  <2>2. ~OwnRequestWaits(p)
    BY <1>1, NoElements DEF OwnRequestWaits
  <2> QED BY <2>1, <2>2 DEF IInv, SendingTimesOK
<1>5. peerMeanPathDelay'[p] =
        <<pdelay_req_send_time[p], pdelay_req_receive_time[p], m.exchange,
          pdelay_resp_receive_time[p]>>
  BY <1>1 DEF Measure, updatePeerDelay, IInv, TypesOK
<1> QED BY <1>3, <1>4, <1>5

(* On a link of two ports a delay computed from the other's follow-up uses  *)
(* the sending times of one exchange, the last, whatever the wire loses and *)
(* however long the counter is: handle() reads the event socket first, so   *)
(* that t1 is the last request's, and nobody else's exchange is answered    *)
(* by the other port.                                                       *)
THEOREM SendTimes ==
  ASSUME TwoPorts
  PROVE  Spec => SendTimesBelongTogether
<1>1. IInv => [\A p \in Ports : MeasuresPeer(p) =>
                 /\ peerMeanPathDelay'[p][1] = LastExchange(p)
                 /\ peerMeanPathDelay'[p][3] = LastExchange(p)]_vars
  BY LastSendTimes
<1> QED BY Invariance, <1>1, PTL DEF SendTimesBelongTogether

-----------------------------------------------------------------------------
(* The response travels before its follow-up *)

Answers(m, p)   == m.type = "PDELAY_RESP" /\ m.exchange.requester = p
FollowsUp(m, p) == m.type = "PDELAY_RESP_FOLLOW_UP" /\ m.exchange.requester = p

Answered(s, p) == \E k \in DOMAIN s : Answers(s[k], p)

InOrder(s, p) ==
  \A k \in DOMAIN s : FollowsUp(s[k], p) => \E j \in 1 .. k - 1 : Answers(s[j], p)

(* Both stamps of the last exchange are taken, or are about to be *)
ResponseTaken(p) ==
  /\ pdelay_req_receive_time[p] = LastExchange(p)
  /\ pdelay_resp_receive_time[p] = LastExchange(p)

ResponseIn(p) == ResponseTaken(p) \/ Answered(eventSock[p], p)

(* Until p has the response of q, it has no follow-up of q either: the     *)
(* response is ahead of it on the wire, or q has yet to follow it up.      *)
ResponseAhead(q, p) ==
  /\ \A m \in Elements(generalSock[p]) : ~FollowsUp(m, p)
  /\ InOrder(wire[q][p], p)
  /\ Answered(eventSock[q], p) => Answered(wire[q][p], p)

ResponsesOK ==
  losses = 0 => \A p \in Ports : \A q \in Ports \ {p} :
    portState[p] \in Measuring => ResponseIn(p) \/ ResponseAhead(q, p)

LEMMA AppendKeepsOrder ==
  ASSUME NEW s \in Seq(Message), NEW m \in Message, NEW p \in Ports
  PROVE  /\ Answered(s, p) \/ Answers(m, p) <=> Answered(Append(s, m), p)
         /\ InOrder(s, p) /\ (FollowsUp(m, p) => Answered(s, p))
              => InOrder(Append(s, m), p)
<1> DEFINE t == Append(s, m)
<1>1. /\ Len(s) \in Nat /\ DOMAIN s = 1 .. Len(s) /\ DOMAIN t = 1 .. Len(s) + 1
      /\ \A k \in 1 .. Len(s) : t[k] = s[k]
      /\ t[Len(s) + 1] = m
  OBVIOUS
<1> HIDE DEF t
<1>2. Answered(s, p) \/ Answers(m, p) <=> Answered(t, p)
  <2>1. ASSUME NEW k \in DOMAIN t, Answers(t[k], p)
        PROVE  Answered(s, p) \/ Answers(m, p)
    BY <1>1, <2>1 DEF Answered
  <2>2. \A k \in DOMAIN s : k \in DOMAIN t /\ t[k] = s[k]
    BY <1>1
  <2>3. Len(s) + 1 \in DOMAIN t
    BY <1>1
  <2> QED BY <1>1, <2>1, <2>2, <2>3 DEF Answered
<1>3. ASSUME InOrder(s, p), FollowsUp(m, p) => Answered(s, p)
      PROVE  InOrder(t, p)
  <2> SUFFICES ASSUME NEW k \in DOMAIN t, FollowsUp(t[k], p)
               PROVE  \E j \in 1 .. k - 1 : Answers(t[j], p)
    BY DEF InOrder
  <2>1. CASE k \in 1 .. Len(s)
    <3>1. PICK j \in 1 .. k - 1 : Answers(s[j], p)
      BY <1>1, <1>3, <2>1 DEF InOrder
    <3>2. t[j] = s[j]
      BY <1>1, <2>1
    <3> QED BY <3>1, <3>2
  <2>2. CASE k = Len(s) + 1
    <3>1. PICK j \in 1 .. Len(s) : Answers(s[j], p)
      BY <1>1, <1>3, <2>2 DEF Answered
    <3>2. t[j] = s[j] /\ j \in 1 .. k - 1
      BY <1>1, <2>2
    <3> QED BY <3>1, <3>2
  <2> QED BY <1>1, <2>1, <2>2
<1> QED BY <1>2, <1>3 DEF t

(* What is not the response may leave, and is no follow-up if it is first *)
LEMMA TailKeepsOrder ==
  ASSUME NEW s \in Seq(Message), s # <<>>, NEW p \in Ports
  PROVE  /\ InOrder(s, p) => ~FollowsUp(Head(s), p)
         /\ ~Answers(Head(s), p) =>
              /\ Answered(s, p) <=> Answered(Tail(s), p)
              /\ InOrder(s, p) => InOrder(Tail(s), p)
<1> DEFINE t == Tail(s)
<1>1. /\ Len(s) \in Nat \ {0} /\ DOMAIN s = 1 .. Len(s) /\ DOMAIN t = 1 .. Len(s) - 1
      /\ \A k \in 1 .. Len(s) - 1 : t[k] = s[k + 1]
      /\ Head(s) = s[1]
  OBVIOUS
<1> HIDE DEF t
<1>2. InOrder(s, p) => ~FollowsUp(Head(s), p)
  <2>1. 1 \in DOMAIN s /\ 1 .. 1 - 1 = {}
    BY <1>1
  <2> QED BY <1>1, <2>1 DEF InOrder
<1>3. ASSUME ~Answers(Head(s), p), NEW k \in DOMAIN s, Answers(s[k], p)
      PROVE  k - 1 \in DOMAIN t /\ t[k - 1] = s[k]
  <2>1. k # 1
    BY <1>1, <1>3
  <2>2. k - 1 \in 1 .. Len(s) - 1 /\ (k - 1) + 1 = k
    BY <1>1, <2>1
  <2> QED BY <1>1, <2>2
<1>4. \A k \in DOMAIN t : k + 1 \in DOMAIN s /\ t[k] = s[k + 1]
  BY <1>1
<1>5. ASSUME ~Answers(Head(s), p)
      PROVE  Answered(s, p) <=> Answered(t, p)
  BY <1>3, <1>4, <1>5 DEF Answered
<1>6. ASSUME ~Answers(Head(s), p), InOrder(s, p)
      PROVE  InOrder(t, p)
  <2> SUFFICES ASSUME NEW k \in DOMAIN t, FollowsUp(t[k], p)
               PROVE  \E j \in 1 .. k - 1 : Answers(t[j], p)
    BY DEF InOrder
  <2>1. PICK j \in 1 .. (k + 1) - 1 : Answers(s[j], p)
    BY <1>4, <1>6 DEF InOrder
  <2>2. j \in DOMAIN s
    BY <1>1
  <2>3. j - 1 \in DOMAIN t /\ t[j - 1] = s[j]
    BY <1>3, <1>6, <2>1, <2>2
  <2>4. j - 1 \in 1 .. k - 1
    BY <1>1, <2>3
  <2> QED BY <2>1, <2>3, <2>4
<1> QED BY <1>2, <1>5, <1>6 DEF t

LEMMA AnswersKept ==
  ASSUME NEW s \in Seq(Message), NEW t \in Seq(Message), NEW p \in Ports,
         Elements(s) \subseteq Elements(t), Answered(s, p)
  PROVE  Answered(t, p)
BY DEF Answered, Elements

(* Only p's next request undoes that the response to its last one is in *)
LEMMA ResponseStays ==
  ASSUME TwoPorts, IInv, Next, NEW p \in Ports, portState[p] \in Measuring,
         ~issuePDelayReq(p), ResponseIn(p)
  PROVE  ResponseIn(p)'
<1>0. /\ eventSock \in [Ports -> Seq(Message)]
      /\ eventSock' \in [Ports -> Seq(Message)]
      /\ sentPDelayReqSequenceId \in [Ports -> SequenceIds]
      /\ pdelay_req_receive_time \in [Ports -> Stamp]
      /\ pdelay_resp_receive_time \in [Ports -> Stamp]
  BY TypesNext DEF IInv, TypesOK
<1>1. LastExchange(p)' = LastExchange(p)
  <2>1. ASSUME NEW r \in Ports \ {p}, issuePDelayReq(r)
        PROVE  sentPDelayReqSequenceId'[p] = sentPDelayReqSequenceId[p]
    BY <1>0, <2>1 DEF issuePDelayReq
  <2>2. sentPDelayReqSequenceId'[p] = sentPDelayReqSequenceId[p]
    BY <2>1 DEF Next, Deliver, Lose, handle
  <2> QED BY <2>2 DEF LastExchange
<1>2. CASE handleEvent(p)
  <2> PICK m : m = Head(eventSock[p])
    OBVIOUS
  <2>1. /\ eventSock[p] # <<>> /\ m \in Message /\ Genuine(m)
        /\ m.exchange.requester \in Ports /\ m.src \in Ports
    BY <1>2, EventHead DEF handleEvent, netRecvEvent, Exchange
  <2>2. CASE OthersResponse(p, m)
    <3>1. m.exchange.requester = p
      BY <2>1, <2>2 DEF OthersResponse, Genuine, TwoPorts
    <3>2. m.exchange = LastExchange(p)
      BY <2>1, <3>1 DEF Genuine
    <3>3. ResponseTaken(p)'
      BY <1>0, <1>1, <2>2, <3>2 DEF OthersResponse, ResponseTaken
    <3> QED BY <3>3 DEF ResponseIn
  <2>3. CASE ~OthersResponse(p, m)
    <3>1. ~Answers(m, p)
      <4> SUFFICES ASSUME Answers(m, p) PROVE FALSE
        OBVIOUS
      <4>1. m.src # p /\ m.type = "PDELAY_RESP"
        BY <2>1 DEF Answers, Genuine
      <4>2. ~Rejected(p, m)
        <5>1. m.seq = (sentPDelayReqSequenceId[p] - 1) % SequenceIdSpace
          BY <2>1 DEF Answers, Genuine, LastExchange
        <5>2. \A n \in SequenceIds : n # (n - 1) % SequenceIdSpace
          BY SequenceIdAssumption DEF SequenceIds
        <5> QED BY <1>0, <5>1, <5>2 DEF Rejected
      <4> QED BY <1>2, <2>3, <4>1, <4>2
          DEF handleEvent, handlePDelayReq, handlePDelayResp, OwnRequest,
              OthersRequest, OwnResponse, DisregardEvent
    <3>2. /\ \/ eventSock'[p] = Tail(eventSock[p])
             \/ eventSock'[p] = Append(Tail(eventSock[p]), Response(p, m))
          /\ UNCHANGED <<pdelay_req_receive_time, pdelay_resp_receive_time>>
      BY <1>0, <1>2, <2>3
      DEF handleEvent, handlePDelayReq, handlePDelayResp, OwnRequest,
          OthersRequest, OwnResponse, DisregardEvent, issuePDelayResp, stamps
    <3>3. ResponseTaken(p) => ResponseTaken(p)'
      BY <1>1, <3>2 DEF ResponseTaken
    <3>4. Answered(eventSock[p], p) => Answered(eventSock'[p], p)
      <4>1. Tail(eventSock[p]) \in Seq(Message) /\ Response(p, m) \in Message
        BY <1>0, <2>1, HeadAndTail, ResponseIsAMessage
      <4>2. Answered(eventSock[p], p) => Answered(Tail(eventSock[p]), p)
        BY <1>0, <2>1, <3>1, TailKeepsOrder
      <4> QED BY <3>2, <4>1, <4>2, AppendKeepsOrder
    <3> QED BY <3>3, <3>4 DEF ResponseIn, Answered
  <2> QED BY <2>2, <2>3
<1>3. CASE ~handleEvent(p)
  <2>1. Elements(eventSock[p]) \subseteq Elements(eventSock'[p])
    BY <1>0, <1>3, EventSteps, Appended
  <2>2. Answered(eventSock[p], p) => Answered(eventSock[p], p)'
    BY <1>0, <2>1, AnswersKept DEF Answered
  <2>3. /\ pdelay_req_receive_time'[p] = pdelay_req_receive_time[p]
        /\ pdelay_resp_receive_time'[p] = pdelay_resp_receive_time[p]
    <3>1. ASSUME NEW r \in Ports, handle(r), r # p \/ ~handleEvent(p)
          PROVE  /\ pdelay_req_receive_time'[p] = pdelay_req_receive_time[p]
                 /\ pdelay_resp_receive_time'[p] = pdelay_resp_receive_time[p]
      BY <1>0, <3>1
      DEF handle, handleEvent, handleGeneral, handlePDelayReq,
          handlePDelayResp, handlePDelayRespFollowUp, OwnRequest,
          OthersRequest, OwnResponse, OthersResponse, DisregardEvent,
          Measure, DisregardFollowUp, stamps
    <3> QED BY <1>3, <3>1 DEF Next, issuePDelayReq, Deliver, Lose, stamps
  <2> QED BY <1>1, <2>2, <2>3 DEF ResponseIn, ResponseTaken
<1> QED BY <1>2, <1>3

(* p's next request leaves with nothing of p's under way *)
LEMMA RequestStep ==
  ASSUME TwoPorts, IInv, NEW p \in Ports, NEW q \in Ports \ {p}, issuePDelayReq(p)
  PROVE  ResponseAhead(q, p)'
<1>0. /\ eventSock \in [Ports -> Seq(Message)]
      /\ DOMAIN wire = Ports
  BY DEF IInv, TypesOK
<1>1. /\ generalSock' = generalSock /\ eventSock'[q] = eventSock[q]
      /\ wire'[q] = wire[q]
  BY <1>0 DEF issuePDelayReq, Multicast
<1>2. /\ \A m \in Elements(generalSock[p]) : m.exchange.requester # p
      /\ \A m \in Elements(wire[q][p]) : m.exchange.requester # p
      /\ \A m \in Elements(eventSock[q]) : m.exchange.requester # p
  BY DEF issuePDelayReq, PreviousExchangeOver, Carries, Elements
<1>3. /\ \A m \in Elements(generalSock'[p]) : ~FollowsUp(m, p)
      /\ \A k \in DOMAIN wire'[q][p] : ~FollowsUp(wire'[q][p][k], p)
      /\ \A k \in DOMAIN eventSock'[q] : ~Answers(eventSock'[q][k], p)
  BY <1>1, <1>2 DEF FollowsUp, Answers, Elements
<1> QED BY <1>3 DEF ResponseAhead, InOrder, Answered, Elements

(* A message that waits at p and is none of q's follow-ups changes nothing *)
LEMMA AheadKept ==
  ASSUME NEW p \in Ports, NEW q \in Ports \ {p}, ResponseAhead(q, p),
         \A m \in Elements(generalSock'[p]) :
           m \in Elements(generalSock[p]) \/ ~FollowsUp(m, p),
         wire'[q][p] = wire[q][p],
         Answered(eventSock'[q], p) => Answered(eventSock[q], p)
  PROVE  ResponseAhead(q, p)'
<1>1. \A m \in Elements(generalSock'[p]) : ~FollowsUp(m, p)
  BY DEF ResponseAhead
<1>2. InOrder(wire'[q][p], p) /\ (Answered(eventSock'[q], p) => Answered(wire'[q][p], p))
  BY DEF ResponseAhead
<1> QED BY <1>1, <1>2 DEF ResponseAhead, Elements, InOrder, Answered

LEMMA ArrivalStep ==
  ASSUME IInv, NEW p \in Ports, NEW q \in Ports \ {p}, ResponseAhead(q, p),
         Deliver(q, p)
  PROVE  ResponseIn(p)' \/ ResponseAhead(q, p)'
<1> PICK m : m = Head(wire[q][p])
  OBVIOUS
<1>1. /\ wire[q][p] # <<>> /\ wire[q][p] \in Seq(Message)
      /\ m \in Message /\ wire'[q][p] = Tail(wire[q][p])
      /\ eventSock \in [Ports -> Seq(Message)]
      /\ generalSock \in [Ports -> Seq(Message)]
  <2>1. wire[q][p] # <<>> /\ wire' = [wire EXCEPT ![q][p] = Tail(@)]
    BY DEF Deliver
  <2>2. TypesOK /\ m \in Message
    BY <2>1, WireHead DEF IInv
  <2>3. wire'[q][p] = Tail(wire[q][p])
    BY <2>1, <2>2, Takes
  <2>4. /\ eventSock \in [Ports -> Seq(Message)]
        /\ generalSock \in [Ports -> Seq(Message)]
        /\ wire[q][p] \in Seq(Message)
    BY <2>2 DEF TypesOK
  <2> QED BY <2>1, <2>2, <2>3, <2>4
<1>2. ~FollowsUp(m, p)
  BY <1>1, TailKeepsOrder DEF ResponseAhead
<1>3. CASE Answers(m, p)
  <2>1. eventSock'[p] = Append(eventSock[p], m)
    <3>1. eventSock' = [eventSock EXCEPT ![p] = Append(@, m)]
      BY <1>3 DEF Deliver, Answers
    <3> QED BY <1>1, <3>1
  <2>2. Answered(eventSock'[p], p)
    BY <1>1, <1>3, <2>1, AppendKeepsOrder
  <2> QED BY <2>2 DEF ResponseIn, Answered
<1>4. CASE ~Answers(m, p)
  <2>1. InOrder(wire'[q][p], p) /\ (Answered(wire[q][p], p) <=> Answered(wire'[q][p], p))
    BY <1>1, <1>4, TailKeepsOrder DEF ResponseAhead
  <2>2. eventSock'[q] = eventSock[q]
    BY <1>1 DEF Deliver
  <2>3. \A n \in Elements(generalSock'[p]) : n \in Elements(generalSock[p]) \/ n = m
    <3>1. \/ generalSock' = generalSock
          \/ generalSock' = [generalSock EXCEPT ![p] = Append(@, m)]
      BY DEF Deliver
    <3>2. generalSock'[p] = generalSock[p] \/ generalSock'[p] = Append(generalSock[p], m)
      BY <1>1, <3>1
    <3>3. generalSock[p] \in Seq(Message) /\ m \in Message
      BY <1>1
    <3>4. Elements(Append(generalSock[p], m)) = Elements(generalSock[p]) \cup {m}
      BY <3>3, Appended
    <3> QED BY <3>2, <3>4
  <2>4. /\ \A n \in Elements(generalSock'[p]) : ~FollowsUp(n, p)
        /\ Answered(eventSock'[q], p) => Answered(wire'[q][p], p)
    BY <1>2, <2>1, <2>2, <2>3 DEF ResponseAhead
  <2> QED BY <2>1, <2>4 DEF ResponseAhead, Elements, InOrder, Answered
<1> QED BY <1>3, <1>4

(* q answers p's request, and follows its answer up when it comes back *)
LEMMA AnswererStep ==
  ASSUME TwoPorts, IInv, NEW p \in Ports, NEW q \in Ports \ {p}, ResponseAhead(q, p),
         handleEvent(q)
  PROVE  ResponseAhead(q, p)'
<1> PICK m : m = Head(eventSock[q])
  OBVIOUS
<1>1. /\ eventSock[q] # <<>> /\ m \in Message /\ Genuine(m)
      /\ m.type = "PDELAY_RESP" /\ m.src = q => PdelayReqHeader[q] # NoExchange
      /\ m.exchange.requester \in Ports /\ m.src \in Ports
  BY EventHead DEF handleEvent, netRecvEvent, Exchange
<1>2. /\ eventSock \in [Ports -> Seq(Message)]
      /\ generalSock \in [Ports -> Seq(Message)]
      /\ wire[q] \in [Ports \ {q} -> Seq(Message)]
      /\ Tail(eventSock[q]) \in Seq(Message)
  BY <1>1, HeadAndTail DEF IInv, TypesOK
<1>3. Answered(Tail(eventSock[q]), p) => Answered(eventSock[q], p)
  BY <1>1, <1>2, HeadAndTail, AnswersKept
<1>4. ASSUME UNCHANGED <<generalSock, wire>>, eventSock'[q] = Tail(eventSock[q])
      PROVE  ResponseAhead(q, p)'
  BY <1>3, <1>4, AheadKept
<1>5. CASE OwnRequest(q, m) \/ OthersResponse(q, m) \/ DisregardEvent(q, m)
  BY <1>2, <1>4, <1>5 DEF OwnRequest, OthersResponse, DisregardEvent, network
<1>6. CASE OthersRequest(q, m)
  <2> PICK answer : answer = Response(q, m)
    OBVIOUS
  <2>1. answer \in Message /\ ~FollowsUp(answer, p)
    BY <1>1, ResponseIsAMessage DEF FollowsUp, Response
  <2>2. Answers(answer, p)
    BY <1>1, <1>6 DEF OthersRequest, Genuine, TwoPorts, Answers, Response
  <2>3. wire'[q][p] = Append(wire[q][p], answer) /\ generalSock' = generalSock
    BY <1>6, <2>1, Multicasts DEF OthersRequest, issuePDelayResp, IInv
  <2>4. Answered(wire'[q][p], p) /\ InOrder(wire'[q][p], p)
    BY <1>2, <2>1, <2>2, <2>3, AppendKeepsOrder DEF ResponseAhead
  <2> QED BY <2>3, <2>4 DEF ResponseAhead, Elements, InOrder, Answered
<1>7. CASE OwnResponse(q, m)
  <2> PICK fu : fu = FollowUp(q, m)
    OBVIOUS
  <2>1. fu \in Message /\ ~Answers(fu, p)
    BY <1>1, <1>7, FollowUpIsAMessage DEF Answers, FollowUp, OwnResponse, IInv
  <2>2. Answers(m, p)
    BY <1>1, <1>7 DEF OwnResponse, Genuine, TwoPorts, Answers
  <2>3. Answered(eventSock[q], p)
    <3>1. m \in Elements(eventSock[q])
      BY <1>1, <1>2, HeadAndTail
    <3> QED BY <2>2, <3>1 DEF Answered, Elements
  <2>4. wire'[q][p] = Append(wire[q][p], fu) /\ generalSock'[p] = generalSock[p]
    BY <1>2, <1>7, <2>1, Multicasts DEF OwnResponse, issuePDelayRespFollowUp, IInv
  <2>5. Answered(wire'[q][p], p) /\ InOrder(wire'[q][p], p)
    BY <1>2, <2>1, <2>3, <2>4, AppendKeepsOrder DEF ResponseAhead
  <2> QED BY <2>4, <2>5 DEF ResponseAhead, Elements, InOrder, Answered
<1> QED BY <1>5, <1>6, <1>7 DEF handleEvent, handlePDelayReq, handlePDelayResp

(* What p itself, and the wire to the other port, do to what p has of q *)
LEMMA OtherSteps ==
  ASSUME TwoPorts, IInv, NEW p \in Ports, NEW q \in Ports \ {p}, ResponseAhead(q, p),
         \/ issuePDelayReq(q) \/ Deliver(p, q)
         \/ handle(p) \/ (handle(q) /\ handleGeneral(q))
  PROVE  ResponseAhead(q, p)'
<1>0. /\ eventSock \in [Ports -> Seq(Message)]
      /\ generalSock \in [Ports -> Seq(Message)]
      /\ \A r \in Ports : wire[r] \in [Ports \ {r} -> Seq(Message)]
  BY DEF IInv, TypesOK
<1>1. CASE issuePDelayReq(q)
  <2> PICK new : new = Request(q)
    OBVIOUS
  <2>1. new \in Message /\ ~Answers(new, p) /\ ~FollowsUp(new, p)
    BY RequestIsAMessage DEF IInv, Request, Answers, FollowsUp
  <2>2. /\ generalSock' = generalSock
        /\ eventSock'[q] = Append(eventSock[q], new)
        /\ wire'[q][p] = Append(wire[q][p], new)
    BY <1>0, <1>1, <2>1, Multicasts DEF issuePDelayReq, IInv
  <2>3. /\ InOrder(wire'[q][p], p)
        /\ Answered(eventSock'[q], p) => Answered(wire'[q][p], p)
    <3>1. eventSock[q] \in Seq(Message) /\ wire[q][p] \in Seq(Message)
      BY <1>0
    <3>2. Answered(eventSock'[q], p) => Answered(eventSock[q], p)
      BY <2>1, <2>2, <3>1, AppendKeepsOrder
    <3>3. /\ InOrder(wire[q][p], p) => InOrder(wire'[q][p], p)
          /\ Answered(wire[q][p], p) => Answered(wire'[q][p], p)
      BY <2>1, <2>2, <3>1, AppendKeepsOrder
    <3> QED BY <3>2, <3>3 DEF ResponseAhead
  <2> QED BY <2>2, <2>3 DEF ResponseAhead, Elements, InOrder, Answered
<1>2. CASE Deliver(p, q)
  <2> PICK m : m = Head(wire[p][q])
    OBVIOUS
  <2>1. /\ wire[p][q] # <<>> /\ wire' = [wire EXCEPT ![p][q] = Tail(@)]
        /\ m \in Message /\ Genuine(m) /\ m.src = p
    BY <1>2, WireHead DEF Deliver
  <2>2. ~Answers(m, p)
    BY <2>1 DEF Genuine, Answers
  <2>3. wire'[q][p] = wire[q][p]
    BY <2>1, Takes DEF IInv
  <2>4. generalSock'[p] = generalSock[p]
    BY <1>0, <1>2 DEF Deliver
  <2>5. Answered(eventSock'[q], p) => Answered(eventSock[q], p)
    <3>1. \/ eventSock' = eventSock
          \/ eventSock' = [eventSock EXCEPT ![q] = Append(@, m)]
      BY <1>2 DEF Deliver
    <3>2. eventSock'[q] = eventSock[q] \/ eventSock'[q] = Append(eventSock[q], m)
      BY <1>0, <3>1
    <3> QED BY <1>0, <2>1, <2>2, <3>2, AppendKeepsOrder
  <2> QED BY <2>3, <2>4, <2>5, AheadKept
<1>3. CASE handle(p)
  <2>1. UNCHANGED <<eventSock[q], wire[q][p]>>
    BY <1>0, <1>3
    DEF handle, handleEvent, handleGeneral, handlePDelayReq, handlePDelayResp,
        handlePDelayRespFollowUp, OwnRequest, OthersRequest, OwnResponse,
        OthersResponse, DisregardEvent, issuePDelayResp, issuePDelayRespFollowUp,
        Multicast, network, IInv, TypesOK
  <2>2. CASE handleEvent(p)
    <3> PICK m, fu : m = Head(eventSock[p]) /\ fu = FollowUp(p, m)
      OBVIOUS
    <3>1. /\ eventSock[p] # <<>> /\ m \in Message /\ Genuine(m)
          /\ m.type = "PDELAY_RESP" /\ m.src = p => PdelayReqHeader[p] # NoExchange
      BY <2>2, EventHead DEF handleEvent, netRecvEvent
    <3>2. \/ UNCHANGED generalSock
          \/ OwnResponse(p, m) /\ generalSock' = [generalSock EXCEPT ![p] = Append(@, fu)]
      BY <2>2
      DEF handleEvent, handlePDelayReq, handlePDelayResp, OwnRequest,
          OthersRequest, OwnResponse, OthersResponse, DisregardEvent,
          issuePDelayRespFollowUp
    <3>3. CASE UNCHANGED generalSock
      BY <2>1, <3>3, AheadKept
    <3>4. CASE OwnResponse(p, m) /\ generalSock' = [generalSock EXCEPT ![p] = Append(@, fu)]
      <4>1. fu \in Message
        BY <3>1, <3>4, FollowUpIsAMessage DEF OwnResponse, IInv
      <4>2. ~FollowsUp(fu, p)
        BY <3>1, <3>4 DEF OwnResponse, Genuine, FollowsUp, FollowUp
      <4>3. generalSock'[p] = Append(generalSock[p], fu)
        BY <1>0, <3>4
      <4>4. \A n \in Elements(generalSock'[p]) :
              n \in Elements(generalSock[p]) \/ ~FollowsUp(n, p)
        BY <1>0, <4>1, <4>2, <4>3, Appended
      <4> QED BY <2>1, <4>4, AheadKept
    <3> QED BY <3>2, <3>3, <3>4
  <2>3. CASE handleGeneral(p)
    <3>1. generalSock[p] # <<>> /\ generalSock'[p] = Tail(generalSock[p])
      BY <1>0, <2>3 DEF handleGeneral, netRecvGeneral, handlePDelayRespFollowUp
    <3>2. Elements(generalSock'[p]) \subseteq Elements(generalSock[p])
      BY <1>0, <3>1, HeadAndTail
    <3> QED BY <2>1, <3>2, AheadKept
  <2> QED BY <1>3, <2>2, <2>3 DEF handle
<1>4. CASE handle(q) /\ handleGeneral(q)
  <2>1. UNCHANGED <<eventSock, wire, generalSock[p]>>
    BY <1>0, <1>4 DEF handleGeneral, handlePDelayRespFollowUp, network
  <2> QED BY <2>1, AheadKept
<1> QED BY <1>1, <1>2, <1>3, <1>4

LEMMA ResponsesNext == TwoPorts /\ IInv /\ ResponsesOK /\ [Next]_vars => ResponsesOK'
<1> SUFFICES ASSUME TwoPorts, IInv, ResponsesOK, [Next]_vars, losses' = 0,
                    NEW p \in Ports, NEW q \in Ports \ {p}, portState'[p] \in Measuring
             PROVE  ResponseIn(p)' \/ ResponseAhead(q, p)'
  BY DEF ResponsesOK
<1>1. CASE UNCHANGED vars
  BY <1>1 DEF vars, stamps, sockets, network, ResponsesOK, ResponseIn, ResponseTaken,
     ResponseAhead, LastExchange, Answered, InOrder, Elements
<1>2. CASE Next
  <2>1. portState' = portState
    BY <1>2 DEF Next, issuePDelayReq, Deliver, Lose, handle
  <2>2. losses = 0 /\ \A r \in Ports : \A t \in Ports \ {r} : ~Lose(r, t)
    <3>1. losses \in Nat
      BY MaxLossesAssumption DEF IInv, TypesOK
    <3>2. \A r \in Ports : \A t \in Ports \ {r} : Lose(r, t) => losses' = losses + 1
      BY DEF Lose
    <3>3. losses' = losses \/ losses' = losses + 1
      <4>1. ASSUME NEW r \in Ports, issuePDelayReq(r) PROVE losses' = losses
        BY <4>1 DEF issuePDelayReq, Multicast
      <4>2. ASSUME NEW r \in Ports, handle(r) PROVE losses' = losses
        BY <4>2
        DEF handle, handleEvent, handleGeneral, handlePDelayReq,
            handlePDelayResp, handlePDelayRespFollowUp, OwnRequest,
            OthersRequest, OwnResponse, OthersResponse, DisregardEvent,
            issuePDelayResp, issuePDelayRespFollowUp, Multicast, network
      <4> QED BY <1>2, <4>1, <4>2 DEF Next, Deliver, Lose
    <3> QED BY <3>1, <3>2, <3>3
  <2>3. CASE issuePDelayReq(p)
    BY <2>3, RequestStep
  <2>4. CASE ~issuePDelayReq(p) /\ ResponseIn(p)
    BY <1>2, <2>1, <2>4, ResponseStays
  <2>5. CASE ~issuePDelayReq(p) /\ ResponseAhead(q, p)
    <3>1. \A r \in Ports : r = p \/ r = q
      BY DEF TwoPorts
    <3>2. CASE Deliver(q, p)
      BY <2>5, <3>2, ArrivalStep
    <3>3. CASE handleEvent(q)
      BY <2>5, <3>3, AnswererStep
    <3>4. CASE issuePDelayReq(q) \/ Deliver(p, q) \/ handle(p)
                 \/ (handle(q) /\ handleGeneral(q))
      BY <2>5, <3>4, OtherSteps
    <3>5. \/ issuePDelayReq(q) \/ handle(p) \/ handle(q)
          \/ Deliver(p, q) \/ Deliver(q, p)
      BY <1>2, <2>2, <2>5, <3>1 DEF Next
    <3>6. handle(q) => handleEvent(q) \/ (handle(q) /\ handleGeneral(q))
      BY DEF handle
    <3> QED BY <3>2, <3>3, <3>4, <3>5, <3>6
  <2> QED BY <2>1, <2>2, <2>3, <2>4, <2>5 DEF ResponsesOK
<1> QED BY <1>1, <1>2

(* On a link of two ports, as long as nothing was lost on it: all four     *)
(* stamps of a delay computed from the other's follow-up are of the last   *)
(* exchange, whatever is delayed and whatever the lengths of the counters. *)
(* What a response that "doesn't match" is tested for rejects none of      *)
(* these, and no follow-up overtakes its response.                         *)
THEOREM UndisturbedStamps ==
  ASSUME TwoPorts
  PROVE  Spec => UndisturbedStampsBelongTogether
<1>1. Init => ResponsesOK
  <2>1. ASSUME Init, NEW p \in Ports, NEW q \in Ports \ {p} PROVE ResponseAhead(q, p)
    <3>1. generalSock[p] = <<>> /\ eventSock[q] = <<>> /\ wire[q][p] = <<>>
      BY <2>1 DEF Init
    <3>2. DOMAIN <<>> = {}
      OBVIOUS
    <3> QED BY <3>1, <3>2 DEF ResponseAhead, InOrder, Answered, Elements
  <2> QED BY <2>1 DEF ResponsesOK
<1>2. ASSUME IInv, ResponsesOK, NEW p \in Ports, losses = 0, MeasuresPeer(p)
      PROVE  \A k \in 1 .. 4 : peerMeanPathDelay'[p][k] = LastExchange(p)
  <2> PICK m : m = Head(generalSock[p])
    OBVIOUS
  <2>1. /\ eventSock[p] = <<>> /\ generalSock[p] # <<>>
        /\ m.src # p /\ Measure(p, m)
    BY <1>2 DEF MeasuresPeer, handleGeneral, netRecvGeneral
  <2>2. /\ Genuine(m) /\ m.type = "PDELAY_RESP_FOLLOW_UP" /\ m.src \in Ports \ {p}
        /\ m.exchange \in Exchange
    BY <1>2, <2>1, GeneralHead
  <2>3. FollowsUp(m, p)
    BY <2>2 DEF Genuine, Exchange, TwoPorts, FollowsUp
  <2>4. ~ResponseAhead(m.src, p)
    <3>1. m \in Elements(generalSock[p])
      BY <1>2, <2>1, HeadAndTail DEF IInv, TypesOK
    <3> QED BY <2>3, <3>1 DEF ResponseAhead
  <2>5. ResponseIn(p)
    BY <1>2, <2>1, <2>2, <2>4 DEF ResponsesOK, Measure, Expected
  <2>6. ResponseTaken(p)
    BY <2>1, <2>5 DEF ResponseIn, Answered
  <2>7. /\ peerMeanPathDelay'[p][1] = LastExchange(p)
        /\ peerMeanPathDelay'[p][3] = LastExchange(p)
    BY <1>2, LastSendTimes
  <2>8. peerMeanPathDelay'[p] =
          <<pdelay_req_send_time[p], pdelay_req_receive_time[p], m.exchange,
            pdelay_resp_receive_time[p]>>
    BY <1>2, <2>1 DEF Measure, updatePeerDelay, IInv, TypesOK
  <2>9. \A k \in 1 .. 4 : k = 1 \/ k = 2 \/ k = 3 \/ k = 4
    OBVIOUS
  <2> QED BY <2>6, <2>7, <2>8, <2>9 DEF ResponseTaken
<1>3. IInv /\ ResponsesOK =>
        [\A p \in Ports : losses = 0 /\ MeasuresPeer(p) =>
           \A k \in 1 .. 4 : peerMeanPathDelay'[p][k] = LastExchange(p)]_vars
  BY <1>2
<1>4. IInv /\ ResponsesOK /\ [Next]_vars => ResponsesOK'
  BY ResponsesNext
<1> QED BY <1>1, <1>3, <1>4, Invariance, PTL DEF Spec, UndisturbedStampsBelongTogether
=============================================================================
