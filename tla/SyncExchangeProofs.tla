-------------------------- MODULE SyncExchangeProofs --------------------------
(* That the exchange of Sync, DelayReq and DelayResp implements the two-way *)
(* comparison of TwoWayTime, for every set of masters, number of sequence   *)
(* numbers and environment                                                  *)
EXTENDS SyncExchange, TLAPS

(* No two own copies of requests wait in the event socket *)
OneCopy == \A e, f \in OwnCopies("DELAY_REQ") : e = f

(* While the own copy of the last request waits, its sending time is not   *)
(* taken for that of an earlier one.                                       *)
CopyBeforeTime == OwnCopyWaits("DELAY_REQ") => delay_req_send_time = "Obsolete"

(* Whatever waits while the port is a slave was voided, if at all, by the  *)
(* parent: who becomes the parent does so when nothing waits.              *)
VoidedByParent ==
  portState = "SLAVE" =>
    \A e \in eventSock : e.voidedBy \subseteq {parentPortIdentity}

SocketInv == OneCopy /\ CopyBeforeTime /\ VoidedByParent /\ FollowUpNamesItsSync

IInv == TypeOK /\ SocketInv

-----------------------------------------------------------------------------
(* Sequence numbers *)

LEMMA Successor ==
  ASSUME NEW n \in SequenceIds
  PROVE  /\ (n + 1) % SequenceIdSpace \in SequenceIds
         /\ (n - 1) % SequenceIdSpace \in SequenceIds
         /\ (((n + 1) % SequenceIdSpace) - 1) % SequenceIdSpace = n
BY SequenceIdAssumption DEF SequenceIds

LEMMA Predecessor ==
  ASSUME NEW n \in SequenceIds, NEW k \in SequenceIds, k = n - 1
  PROVE  k = (n - 1) % SequenceIdSpace
BY SequenceIdAssumption DEF SequenceIds

-----------------------------------------------------------------------------
(* Types *)

LEMMA TypeNext == TypeOK /\ [Next]_vars => TypeOK'
<1> SUFFICES ASSUME TypeOK, [Next]_vars PROVE TypeOK'
  OBVIOUS
<1> USE DEF TypeOK
<1>1. ASSUME NEW m \in Masters, followMaster(m) \/ becomePassive(m) PROVE TypeOK'
  BY <1>1 DEF followMaster, becomePassive, s1, PortStates, counters, estimate,
     sockets, network
<1>2. CASE becomeMaster \/ becomeListening \/ reinitialise
  BY <1>2 DEF becomeMaster, becomeListening, reinitialise, m1, PortStates, counters,
     estimate, sockets, network
<1>3. CASE issueSync
  <2>1. OwnCopy("SYNC", sentSyncSequenceId) \in EventMessage
    BY DEF OwnCopy, EventMessage, Ports
  <2> QED BY <1>3, <2>1, Successor DEF issueSync, port, estimate, network
<1>4. CASE issueDelayReq
  <2>1. OwnCopy("DELAY_REQ", sentDelayReqSequenceId) \in EventMessage
    BY DEF OwnCopy, EventMessage, Ports
  <2>2. Requests(sentDelayReqSequenceId) \subseteq [to : Masters, seq : SequenceIds]
    BY DEF Requests
  <2> QED BY <1>4, <2>1, <2>2, Successor DEF issueDelayReq, port, estimate
<1>5. ASSUME NEW type \in {"SYNC", "DELAY_REQ"}, NEW q \in Ports,
             ArrivesAtEvent(type, q)
      PROVE  TypeOK'
  <2>1. \A n \in SequenceIds :
          [type |-> type, from |-> q, seq |-> n, voidedBy |-> {}] \in EventMessage
    BY DEF EventMessage
  <2> QED
    BY <1>5, <2>1 DEF ArrivesAtEvent, port, counters, estimate, network
<1>6. ASSUME NEW m \in Masters, GeneralArrives(m, LastSequenceId) PROVE TypeOK'
  <2>1. {FollowUp(m, 0), Answer(m, Stranger, LastSequenceId)} \subseteq GeneralMessage
    BY Successor, SequenceIdAssumption
    DEF FollowUp, Answer, GeneralMessage, Ports, LastSequenceId, SequenceIds
  <2> QED
    BY <1>6, <2>1 DEF GeneralArrives, port, counters, estimate, network
<1>7. ASSUME NEW x \in wire, AnswerArrives(x) \/ Duplicate(x) \/ Lose(x)
      PROVE  TypeOK'
  <2>1. Answer(x.to, Self, x.seq) \in GeneralMessage
    BY DEF Answer, GeneralMessage, Ports
  <2>2. env.faults \in Nat
    BY EnvironmentsAssumption DEF Environment
  <2> QED
    BY <1>7, <2>1, <2>2
    DEF AnswerArrives, Duplicate, Lose, port, counters, estimate, sockets
<1>8. CASE handleEvent
  <2>1. PICK e \in eventSock : handleSync(e) \/ handleDelayReq(e) \/ DisregardEvent(e)
    BY <1>8 DEF handleEvent
  <2>2. UNCHANGED <<port, counters, network>>
    BY <1>8 DEF handleEvent
  <2>3. CASE ParentsSync(e) /\ SteerClock(e) /\ UNCHANGED generalSock
    <3>1. e.from \in Masters
      BY <2>3 DEF ParentsSync, IsFromCurrentParent
    <3> QED
      BY <2>2, <2>3, <3>1
      DEF SteerClock, updateOffset, SameMaster, WayFrom, port, counters, network
  <2>4. CASE ParentsSync(e) /\ SetClock(e) /\ UNCHANGED generalSock
    <3>1. e.from \in Masters
      BY <2>4 DEF ParentsSync, IsFromCurrentParent
    <3>2. \A w \in eventSock :
            [w EXCEPT !.voidedBy = @ \cup {e.from}] \in EventMessage
      BY <3>1 DEF EventMessage
    <3> QED
      BY <2>2, <2>4, <3>1, <3>2
      DEF SetClock, updateOffset, SameMaster, WayFrom, port, counters, network
  <2>5. CASE OwnSync(e)
    <3>1. FollowUp(Self, FollowUpSequenceId) \in GeneralMessage
      BY Successor DEF FollowUp, FollowUpSequenceId, GeneralMessage, Ports
    <3> QED
      BY <2>2, <2>5, <3>1 DEF OwnSync, port, counters, estimate, network
  <2>6. CASE OwnRequest(e)
    BY <2>2, <2>6 DEF OwnRequest, port, counters, estimate, network
  <2>7. CASE RequestToMaster(e)
    <3>1. Answer(Self, e.from, e.seq) \in GeneralMessage
      BY DEF Answer, GeneralMessage, EventMessage, Ports
    <3> QED
      BY <2>2, <2>7, <3>1 DEF RequestToMaster, port, counters, estimate, network
  <2>8. CASE DisregardEvent(e)
    BY <2>2, <2>8 DEF DisregardEvent, port, counters, estimate, network
  <2> QED
    BY <2>1, <2>3, <2>4, <2>5, <2>6, <2>7, <2>8 DEF handleSync, handleDelayReq
<1>9. CASE handleGeneral
  <2>1. meanPathDelay' \in Masters \cup {NoMaster}
    BY <1>9 DEF handleGeneral, handleDelayResp, DisregardGeneral, updateDelay,
       SameMaster
  <2> QED
    BY <1>9, <2>1 DEF handleGeneral, port, counters, network
<1>10. CASE UNCHANGED vars
  BY <1>10 DEF vars, port, counters, estimate, sockets, network
<1> QED
  BY <1>1, <1>2, <1>3, <1>4, <1>5, <1>6, <1>7, <1>8, <1>9, <1>10
  DEF Next, handle, SyncArrives, StrangersRequestArrives, Ports

-----------------------------------------------------------------------------
(* The event socket *)

LEMMA InvInit == Init => IInv
<1> SUFFICES ASSUME Init PROVE IInv
  OBVIOUS
<1>1. env.faults \in Nat
  BY EnvironmentsAssumption DEF Init, Environment
<1>2. 0 \in SequenceIds
  BY SequenceIdAssumption DEF SequenceIds
<1>3. faults \in 0 .. env.faults
  BY <1>1 DEF Init
<1>4. TypeOK
  <2>1. portState \in PortStates /\ portState # "SLAVE"
    BY DEF Init, PortStates
  <2> QED BY <1>2, <1>3, <2>1 DEF Init, TypeOK
<1> QED
  BY <1>4 DEF Init, IInv, SocketInv, OneCopy, CopyBeforeTime, OwnCopyWaits,
     OwnCopies, VoidedByParent, FollowUpNamesItsSync

(* Every step that reads no event message *)
LEMMA InvArrivals ==
  ASSUME IInv,
         NEW type \in {"SYNC", "DELAY_REQ"}, NEW q \in Masters \cup {Stranger},
         ArrivesAtEvent(type, q)
  PROVE  SocketInv'
<1>1. PICK n \in SequenceIds :
        eventSock' = eventSock \cup
          {[type |-> type, from |-> q, seq |-> n, voidedBy |-> {}]}
  BY DEF ArrivesAtEvent
<1>2. q # Self
  BY PortsAssumption
<1>3. OwnCopies("DELAY_REQ")' = OwnCopies("DELAY_REQ")
        /\ OwnCopies("SYNC")' = OwnCopies("SYNC")
  BY <1>1, <1>2 DEF OwnCopies
<1>4. UNCHANGED <<port, counters, delay_req_send_time, env>>
  BY DEF ArrivesAtEvent, network
<1>5. VoidedByParent'
  BY <1>1, <1>4 DEF IInv, SocketInv, VoidedByParent, port
<1> QED
  BY <1>3, <1>4, <1>5
  DEF IInv, SocketInv, OneCopy, CopyBeforeTime, OwnCopyWaits,
      FollowUpNamesItsSync, FollowUpSequenceId, counters

LEMMA InvOwnSteps ==
  ASSUME IInv,
         \/ \E m \in Masters : followMaster(m) \/ becomePassive(m)
         \/ becomeMaster \/ becomeListening \/ reinitialise
         \/ issueSync \/ issueDelayReq
  PROVE  SocketInv'
<1> USE DEF IInv, SocketInv, OneCopy, CopyBeforeTime, OwnCopyWaits, OwnCopies,
    VoidedByParent, FollowUpNamesItsSync, FollowUpSequenceId
<1>1. ASSUME NEW m \in Masters, followMaster(m) \/ becomePassive(m)
      PROVE  SocketInv'
  BY <1>1 DEF followMaster, becomePassive, EventSocketRead, sockets, counters,
     network
<1>2. CASE becomeMaster \/ becomeListening
  BY <1>2 DEF becomeMaster, becomeListening, sockets, counters, network
<1>3. CASE reinitialise
  BY <1>3 DEF reinitialise
<1>4. CASE issueSync
  <2>1. (sentSyncSequenceId' - 1) % SequenceIdSpace = sentSyncSequenceId
    BY <1>4, Successor DEF issueSync, TypeOK
  <2> DEFINE x == OwnCopy("SYNC", sentSyncSequenceId)
  <2>2. /\ x.type = "SYNC" /\ x.from = Self /\ x.seq = sentSyncSequenceId
        /\ x.voidedBy = {}
        /\ eventSock' = eventSock \cup {x}
    BY <1>4 DEF issueSync, OwnCopy
  <2> HIDE DEF x
  <2>3. OneCopy' /\ CopyBeforeTime' /\ VoidedByParent'
    BY <1>4, <2>2 DEF issueSync, port
  <2>4. FollowUpNamesItsSync'
    BY <1>4, <2>1, <2>2 DEF issueSync, MaySync, network
  <2> QED BY <2>3, <2>4
<1>5. CASE issueDelayReq
  <2> DEFINE x == OwnCopy("DELAY_REQ", sentDelayReqSequenceId)
  <2>1. /\ x.type = "DELAY_REQ" /\ x.from = Self /\ x.voidedBy = {}
        /\ eventSock' = eventSock \cup {x}
    BY <1>5 DEF issueDelayReq, OwnCopy
  <2> HIDE DEF x
  <2>2. OneCopy'
    BY <1>5, <2>1 DEF issueDelayReq, MayAsk
  <2>3. CopyBeforeTime' /\ VoidedByParent' /\ FollowUpNamesItsSync'
    BY <1>5, <2>1 DEF issueDelayReq, port
  <2> QED BY <2>2, <2>3
<1> QED BY <1>1, <1>2, <1>3, <1>4, <1>5

(* When the clock is set, what waits is voided by the parent, and by nobody *)
(* else.                                                                    *)
LEMMA InvSetClock ==
  ASSUME IInv, NEW e \in eventSock, ParentsSync(e), SetClock(e),
         UNCHANGED <<port, counters, network>>
  PROVE  SocketInv'
<1>1. \A f \in eventSock' :
        \E w \in eventSock :
          /\ f = [w EXCEPT !.voidedBy = @ \cup {e.from}]
          /\ f.type = w.type /\ f.from = w.from /\ f.seq = w.seq
          /\ f.voidedBy = w.voidedBy \cup {parentPortIdentity}
  <2> SUFFICES ASSUME NEW f \in eventSock'
               PROVE  \E w \in eventSock :
                        /\ f = [w EXCEPT !.voidedBy = @ \cup {e.from}]
                        /\ f.type = w.type /\ f.from = w.from /\ f.seq = w.seq
                        /\ f.voidedBy = w.voidedBy \cup {parentPortIdentity}
    OBVIOUS
  <2>1. PICK w \in eventSock \ {e} : f = [w EXCEPT !.voidedBy = @ \cup {e.from}]
    BY DEF SetClock
  <2>2. w \in EventMessage /\ e.from = parentPortIdentity
    BY DEF IInv, TypeOK, ParentsSync, IsFromCurrentParent
  <2> QED BY <2>1, <2>2 DEF EventMessage
<1>2. OneCopy'
  <2> SUFFICES ASSUME NEW f \in OwnCopies("DELAY_REQ")',
                      NEW g \in OwnCopies("DELAY_REQ")'
               PROVE  f = g
    BY DEF OneCopy
  <2>1. PICK v \in OwnCopies("DELAY_REQ") : f = [v EXCEPT !.voidedBy = @ \cup {e.from}]
    BY <1>1 DEF OwnCopies
  <2>2. PICK w \in OwnCopies("DELAY_REQ") : g = [w EXCEPT !.voidedBy = @ \cup {e.from}]
    BY <1>1 DEF OwnCopies
  <2>3. v = w
    BY <2>1, <2>2 DEF IInv, SocketInv, OneCopy
  <2> QED BY <2>1, <2>2, <2>3
<1>3. CopyBeforeTime'
  BY DEF CopyBeforeTime, SetClock
<1>4. VoidedByParent'
  BY <1>1 DEF IInv, SocketInv, VoidedByParent, port
<1>5. FollowUpNamesItsSync'
  BY <1>1
  DEF IInv, SocketInv, FollowUpNamesItsSync, FollowUpSequenceId, OwnCopies,
      counters, network
<1> QED BY <1>2, <1>3, <1>4, <1>5 DEF SocketInv

LEMMA InvHandle ==
  ASSUME IInv, handle
  PROVE  SocketInv'
<1> USE DEF IInv, SocketInv, OneCopy, CopyBeforeTime, OwnCopyWaits, OwnCopies,
    VoidedByParent, FollowUpNamesItsSync, FollowUpSequenceId
<1>1. CASE handleGeneral
  BY <1>1 DEF handleGeneral, port, counters, network
<1>2. CASE handleEvent
  <2>1. PICK e \in eventSock : handleSync(e) \/ handleDelayReq(e) \/ DisregardEvent(e)
    BY <1>2 DEF handleEvent
  <2>2. UNCHANGED <<port, counters, network>>
    BY <1>2 DEF handleEvent
  <2>3. CASE ParentsSync(e) /\ SetClock(e)
    BY <2>2, <2>3, InvSetClock
  <2>4. CASE OwnRequest(e)
    <3>1. eventSock' = eventSock \ {e} /\ e.type = "DELAY_REQ" /\ e.from = Self
      BY <2>4 DEF OwnRequest
    <3>2. ~OwnCopyWaits("DELAY_REQ")'
      BY <3>1
    <3> QED BY <2>2, <3>1, <3>2 DEF port, counters, network
  <2>5. CASE eventSock' = eventSock \ {e} /\ UNCHANGED delay_req_send_time
    BY <2>2, <2>5 DEF port, counters, network
  <2> QED
    BY <2>1, <2>3, <2>4, <2>5
    DEF handleSync, handleDelayReq, SteerClock, OwnSync, RequestToMaster,
        DisregardEvent
<1> QED BY <1>1, <1>2 DEF handle

LEMMA InvNext == IInv /\ [Next]_vars => IInv'
<1> SUFFICES ASSUME IInv, [Next]_vars PROVE SocketInv'
  BY TypeNext DEF IInv
<1>1. ASSUME \/ UNCHANGED vars
             \/ \E m \in Masters : GeneralArrives(m, LastSequenceId)
             \/ \E x \in wire : AnswerArrives(x) \/ Duplicate(x) \/ Lose(x)
      PROVE  SocketInv'
  <2>1. UNCHANGED <<port, counters, delay_req_send_time, eventSock, env>>
    BY <1>1 DEF GeneralArrives, AnswerArrives, Duplicate, Lose, vars, sockets,
       network
  <2> QED
    BY <2>1 DEF IInv, SocketInv, OneCopy, CopyBeforeTime, OwnCopyWaits, OwnCopies,
       VoidedByParent, FollowUpNamesItsSync, FollowUpSequenceId, port, counters
<1> QED
  BY <1>1, InvArrivals, InvOwnSteps, InvHandle
  DEF Next, SyncArrives, StrangersRequestArrives

LEMMA Invariance == Spec => []IInv
BY InvInit, InvNext, PTL DEF Spec

(* The counters wrap, and every message keeps its type.                    *)
THEOREM TypeCorrect == Spec => []TypeOK
BY Invariance, PTL DEF IInv

(* However many Syncs of however many masters wait, none is taken for an   *)
(* offset that was stamped before another master set the clock.            *)
THEOREM NoOtherMastersScale == Spec => []NoSyncAcrossMasters
<1>1. IInv => NoSyncAcrossMasters
  BY DEF IInv, SocketInv, VoidedByParent, NoSyncAcrossMasters, ParentsSync
<1> QED BY <1>1, Invariance, PTL

(* A FollowUp carries the number of the Sync whose sending time it is, if  *)
(* the port keeps up with its own Syncs.                                   *)
THEOREM FollowUpsAreNumberedRight == Spec => []FollowUpNamesItsSync
BY Invariance, PTL DEF IInv, SocketInv

-----------------------------------------------------------------------------
(* The refinement *)

USE DEF TwoWay!vars, TwoWay!SameMaster

LEMMA RefineInit == Init => TwoWay!Init
BY DEF Init, TwoWay!Init, SendTimeKnown, OwnCopies, StaleSyncWaits

LEMMA RefineNothing ==
  ASSUME UNCHANGED <<port, estimate, SendTimeKnown, StaleSyncWaits>>
  PROVE  UNCHANGED TwoWay!vars
BY DEF port, estimate

LEMMA SocketUnchanged ==
  ASSUME UNCHANGED <<port, eventSock>>
  PROVE  UNCHANGED StaleSyncWaits
BY DEF StaleSyncWaits, ParentsSync, IsFromCurrentParent, port

(* A port that is no slave idles: it takes no Sync, whatever waits *)
LEMMA RefineIdle ==
  ASSUME UNCHANGED estimate \/ m1, portState' # "SLAVE",
         SendTimeKnown' \in {SendTimeKnown, FALSE}
  PROVE  TwoWay!Next
<1>1. StaleSyncWaits' = FALSE
  BY DEF StaleSyncWaits, ParentsSync
<1> QED BY <1>1 DEF estimate, m1, TwoWay!Next, TwoWay!Idle

LEMMA RefinePort ==
  ASSUME \/ \E m \in Masters : followMaster(m) \/ becomePassive(m)
         \/ becomeMaster \/ becomeListening \/ reinitialise
  PROVE  TwoWay!Next
<1>1. ASSUME NEW m \in Masters, followMaster(m) PROVE TwoWay!Next
  <2>1. UNCHANGED <<delay_req_send_time, eventSock, estimate>>
    BY <1>1 DEF followMaster, s1, sockets
  <2>2. StaleSyncWaits = FALSE /\ StaleSyncWaits' = FALSE
    BY <1>1, <2>1 DEF followMaster, EventSocketRead, StaleSyncWaits
  <2>3. SendTimeKnown' = SendTimeKnown
    BY <2>1 DEF SendTimeKnown, OwnCopies
  <2>4. TwoWay!Follow(m)
    BY <1>1, <2>1, <2>2, <2>3 DEF followMaster, s1, TwoWay!Follow, estimate
  <2> QED BY <2>4 DEF TwoWay!Next
<1>2. CASE becomeMaster \/ becomeListening \/ (\E m \in Masters : becomePassive(m))
  <2>1. /\ UNCHANGED <<delay_req_send_time, eventSock>>
        /\ UNCHANGED estimate \/ m1
        /\ portState' # "SLAVE"
    <3>1. ASSUME NEW m \in Masters, becomePassive(m)
          PROVE  /\ UNCHANGED <<delay_req_send_time, eventSock, estimate>>
                 /\ portState' # "SLAVE"
      BY <3>1 DEF becomePassive, s1, sockets
    <3> QED BY <1>2, <3>1 DEF becomeMaster, becomeListening, sockets
  <2>2. SendTimeKnown' = SendTimeKnown
    BY <2>1 DEF SendTimeKnown, OwnCopies
  <2> QED BY <2>1, <2>2, RefineIdle
<1>3. CASE reinitialise
  <2>1. /\ UNCHANGED delay_req_send_time /\ m1 /\ eventSock' = {}
        /\ portState' # "SLAVE"
    BY <1>3 DEF reinitialise
  <2>2. SendTimeKnown' \in {SendTimeKnown, FALSE}
    BY <2>1 DEF SendTimeKnown, OwnCopies
  <2> QED BY <2>1, <2>2, RefineIdle
<1> QED BY <1>1, <1>2, <1>3

(* A request is asked, and its sending time is known as soon as its copy   *)
(* can be read.                                                            *)
LEMMA RefineIssue ==
  ASSUME issueSync \/ issueDelayReq
  PROVE  [TwoWay!Next]_TwoWay!vars
<1>1. CASE issueSync
  <2>1. UNCHANGED <<port, estimate, delay_req_send_time>> /\ portState # "SLAVE"
    BY <1>1 DEF issueSync
  <2>2. SendTimeKnown' = SendTimeKnown
    BY <1>1, <2>1 DEF issueSync, SendTimeKnown, OwnCopies, OwnCopy
  <2>3. StaleSyncWaits = FALSE /\ StaleSyncWaits' = FALSE
    BY <2>1 DEF StaleSyncWaits, ParentsSync, port
  <2> QED BY <2>1, <2>2, <2>3, RefineNothing
<1>2. CASE issueDelayReq
  <2> DEFINE x == OwnCopy("DELAY_REQ", sentDelayReqSequenceId)
  <2>1. /\ x.type = "DELAY_REQ" /\ x.from = Self /\ x.voidedBy = {}
        /\ eventSock' = eventSock \cup {x}
        /\ UNCHANGED <<port, estimate>>
    BY <1>2 DEF issueDelayReq, OwnCopy
  <2> HIDE DEF x
  <2>2. SendTimeKnown'
    BY <2>1 DEF SendTimeKnown, OwnCopies, Valid
  <2>3. StaleSyncWaits' = StaleSyncWaits
    BY <2>1 DEF StaleSyncWaits, ParentsSync, IsFromCurrentParent, port
  <2> QED
    BY <2>1, <2>2, <2>3 DEF TwoWay!Next, TwoWay!Ask, port, estimate
<1> QED BY <1>1, <1>2

LEMMA RefineArrivals ==
  ASSUME \/ \E m \in Masters : SyncArrives(m) \/ GeneralArrives(m, LastSequenceId)
         \/ StrangersRequestArrives
         \/ \E x \in wire : AnswerArrives(x) \/ Duplicate(x) \/ Lose(x)
  PROVE  UNCHANGED TwoWay!vars
<1>1. ASSUME NEW type \in {"SYNC", "DELAY_REQ"}, NEW q, ArrivesAtEvent(type, q),
             type = "DELAY_REQ" => q # Self
      PROVE  UNCHANGED TwoWay!vars
  <2>1. PICK n \in SequenceIds :
          eventSock' = eventSock \cup
            {[type |-> type, from |-> q, seq |-> n, voidedBy |-> {}]}
    BY <1>1 DEF ArrivesAtEvent
  <2> DEFINE x == [type |-> type, from |-> q, seq |-> n, voidedBy |-> {}]
  <2>2. /\ x.type = type /\ x.from = q /\ Valid(x)
        /\ eventSock' = eventSock \cup {x}
        /\ UNCHANGED <<port, estimate, delay_req_send_time>>
    BY <1>1, <2>1 DEF ArrivesAtEvent, Valid
  <2> HIDE DEF x
  <2>3. SendTimeKnown' = SendTimeKnown
    BY <1>1, <2>2 DEF SendTimeKnown, OwnCopies
  <2>4. StaleSyncWaits' = StaleSyncWaits
    BY <2>2 DEF StaleSyncWaits, ParentsSync, IsFromCurrentParent, port
  <2> QED BY <2>2, <2>3, <2>4, RefineNothing
<1>2. CASE \/ \E m \in Masters : GeneralArrives(m, LastSequenceId)
           \/ \E x \in wire : AnswerArrives(x) \/ Duplicate(x) \/ Lose(x)
  <2>1. UNCHANGED <<port, estimate, delay_req_send_time, eventSock>>
    BY <1>2 DEF GeneralArrives, AnswerArrives, Duplicate, Lose, sockets
  <2>2. SendTimeKnown' = SendTimeKnown
    BY <2>1 DEF SendTimeKnown, OwnCopies
  <2> QED BY <2>1, <2>2, SocketUnchanged, RefineNothing
<1> QED
  BY <1>1, <1>2, PortsAssumption DEF SyncArrives, StrangersRequestArrives

(* A Sync of the parent is a Sync taken, and with a large offset the clock *)
(* is set; or it is one that was stamped before the clock was set.         *)
LEMMA RefineSync ==
  ASSUME IInv, NEW e \in eventSock, ParentsSync(e), SteerClock(e) \/ SetClock(e),
         UNCHANGED port
  PROVE  TwoWay!Next
<1>1. /\ portState = "SLAVE" /\ e.from = parentPortIdentity /\ e.type = "SYNC"
      /\ parentPortIdentity # NoMaster
      /\ WayFrom(e) = IF Valid(e) THEN parentPortIdentity ELSE NoMaster
  BY PortsAssumption
  DEF ParentsSync, IsFromCurrentParent, IInv, TypeOK, WayFrom
<1>2. /\ UNCHANGED <<portState, parentPortIdentity, meanPathDelay>>
      /\ offsetFromMaster' = SameMaster(WayFrom(e), meanPathDelay)
      /\ delayMS' = IF SetClock(e) THEN NoMaster ELSE WayFrom(e)
  BY DEF SteerClock, SetClock, updateOffset, port
<1>3. StaleSyncWaits' \in BOOLEAN /\ SendTimeKnown \in BOOLEAN
  BY DEF StaleSyncWaits, SendTimeKnown
<1>4. CASE SteerClock(e)
  <2>1. SendTimeKnown' = SendTimeKnown
    BY <1>1, <1>4 DEF SteerClock, SendTimeKnown, OwnCopies
  <2>2. CASE Valid(e)
    <3>1. StaleSyncWaits' = StaleSyncWaits
      BY <1>2, <1>4, <2>2
      DEF SteerClock, StaleSyncWaits, ParentsSync, IsFromCurrentParent
    <3>2. delayMS' = parentPortIdentity
      BY <1>1, <1>4, <2>2 DEF SteerClock
    <3>3. TwoWay!TakeSync
      BY <1>1, <1>2, <2>1, <2>2, <3>1, <3>2 DEF SameMaster, TwoWay!TakeSync
    <3> QED BY <3>3 DEF TwoWay!Next
  <2>3. CASE ~Valid(e)
    <3>1. StaleSyncWaits = TRUE
      BY <2>3 DEF StaleSyncWaits
    <3>2. TwoWay!TakeStaleSync
      BY <1>1, <1>2, <1>3, <2>1, <2>3, <3>1 DEF SameMaster, TwoWay!TakeStaleSync
    <3> QED BY <3>2 DEF TwoWay!Next
  <2> QED BY <2>2, <2>3
<1>5. CASE SetClock(e)
  <2>1. SendTimeKnown' = FALSE
    <3>1. \A f \in eventSock' :
            \E w \in eventSock : f = [w EXCEPT !.voidedBy = @ \cup {e.from}]
      BY <1>5 DEF SetClock
    <3>2. \A f \in eventSock' : ~Valid(f)
      BY <3>1 DEF IInv, TypeOK, EventMessage, Valid
    <3> QED BY <1>5, <3>2 DEF SetClock, SendTimeKnown, OwnCopies
  <2>2. CASE Valid(e)
    <3>1. TwoWay!TakeSyncAndSetClock
      BY <1>1, <1>2, <1>3, <1>5, <2>1, <2>2
      DEF SameMaster, TwoWay!TakeSyncAndSetClock
    <3> QED BY <3>1 DEF TwoWay!Next
  <2>3. CASE ~Valid(e)
    <3>1. StaleSyncWaits = TRUE
      BY <2>3 DEF StaleSyncWaits
    <3>2. TwoWay!TakeStaleSync
      BY <1>1, <1>2, <1>3, <2>1, <2>3, <3>1 DEF SameMaster, TwoWay!TakeStaleSync
    <3> QED BY <3>2 DEF TwoWay!Next
  <2> QED BY <2>2, <2>3
<1> QED BY <1>4, <1>5

(* Any other event message: if it is the own copy of a request, its        *)
(* sending time is held from now on, or missed by a port that is no slave. *)
LEMMA RefineOtherEvents ==
  ASSUME IInv, NEW e \in eventSock, UNCHANGED port,
         OwnSync(e) \/ OwnRequest(e) \/ RequestToMaster(e) \/ DisregardEvent(e)
  PROVE  [TwoWay!Next]_TwoWay!vars
<1>1. eventSock' = eventSock \ {e} /\ UNCHANGED estimate /\ ~ParentsSync(e)
  BY PortsAssumption
  DEF OwnSync, OwnRequest, RequestToMaster, DisregardEvent, ParentsSync
<1>2. StaleSyncWaits' = StaleSyncWaits
  BY <1>1 DEF StaleSyncWaits, ParentsSync, IsFromCurrentParent, port
<1>3. CASE OwnRequest(e)
  <2>1. OwnCopies("DELAY_REQ") = {e} /\ delay_req_send_time = "Obsolete"
    BY <1>3
    DEF IInv, SocketInv, OneCopy, CopyBeforeTime, OwnCopyWaits, OwnCopies, OwnRequest
  <2>2. OwnCopies("DELAY_REQ")' = {}
    BY <1>1, <2>1 DEF OwnCopies
  <2>3. SendTimeKnown' = Valid(e) /\ SendTimeKnown = Valid(e)
    BY <1>3, <2>1, <2>2 DEF OwnRequest, SendTimeKnown, Valid
  <2> QED BY <1>1, <1>2, <2>3, RefineNothing
<1>4. CASE delay_req_send_time' = delay_req_send_time
           /\ ~(e.type = "DELAY_REQ" /\ e.from = Self)
  <2>1. SendTimeKnown' = SendTimeKnown
    BY <1>1, <1>4 DEF SendTimeKnown, OwnCopies
  <2> QED BY <1>1, <1>2, <2>1, RefineNothing
<1>5. CASE delay_req_send_time' = delay_req_send_time /\ portState # "SLAVE"
  <2>1. SendTimeKnown' \in {SendTimeKnown, FALSE}
    BY <1>1, <1>5 DEF SendTimeKnown, OwnCopies
  <2> QED BY <1>1, <1>5, <2>1, RefineIdle DEF port
<1> QED
  BY <1>3, <1>4, <1>5 DEF OwnSync, RequestToMaster, DisregardEvent

(* An answer is accepted from the parent only, and only to the last        *)
(* request, although the comparison fails when the counter is 0.           *)
LEMMA RefineGeneral ==
  ASSUME IInv, handleGeneral
  PROVE  [TwoWay!Next]_TwoWay!vars
<1>1. PICK g \in generalSock : handleDelayResp(g) \/ DisregardGeneral(g)
  BY DEF handleGeneral
<1>2. /\ UNCHANGED <<port, delay_req_send_time, delayMS, offset_first_updated,
                     offsetFromMaster, eventSock>>
      /\ eventSock = {}
  BY DEF handleGeneral, netRecvGeneral, EventSocketRead
<1>3. /\ SendTimeKnown' = SendTimeKnown
      /\ SendTimeKnown = (delay_req_send_time = "LastRequest")
  BY <1>2 DEF SendTimeKnown, OwnCopies
<1>4. StaleSyncWaits = FALSE /\ StaleSyncWaits' = FALSE
  BY <1>2 DEF StaleSyncWaits
<1>5. CASE UNCHANGED meanPathDelay
  BY <1>2, <1>3, <1>4, <1>5, RefineNothing DEF estimate
<1>6. CASE handleDelayResp(g) /\ offset_first_updated
  <2>1. /\ portState = "SLAVE" /\ g.requester = Self
        /\ g.from = parentPortIdentity /\ g.seq = sentDelayReqSequenceId - 1
        /\ parentPortIdentity # NoMaster
    BY <1>6, PortsAssumption
    DEF handleDelayResp, Accepted, IsFromCurrentParent, IInv, TypeOK
  <2>2. g.seq = LastSequenceId
    BY <2>1, Predecessor DEF LastSequenceId, IInv, TypeOK, GeneralMessage
  <2>3. WayBack(g) = IF SendTimeKnown THEN parentPortIdentity ELSE NoMaster
    BY <1>3, <2>1, <2>2 DEF WayBack
  <2>4. meanPathDelay' = SameMaster(delayMS, WayBack(g))
    BY <1>6 DEF handleDelayResp, updateDelay
  <2>5. TwoWay!TakeAnswer
    BY <1>2, <1>3, <1>4, <2>1, <2>3, <2>4 DEF SameMaster, TwoWay!TakeAnswer, port
  <2> QED BY <2>5 DEF TwoWay!Next
<1> QED
  BY <1>1, <1>5, <1>6 DEF handleDelayResp, updateDelay, DisregardGeneral

LEMMA RefineNext == IInv /\ [Next]_vars => [TwoWay!Next]_TwoWay!vars
<1> SUFFICES ASSUME IInv, [Next]_vars PROVE [TwoWay!Next]_TwoWay!vars
  OBVIOUS
<1>1. CASE handleEvent
  <2>1. PICK e \in eventSock : handleSync(e) \/ handleDelayReq(e) \/ DisregardEvent(e)
    BY <1>1 DEF handleEvent
  <2>2. UNCHANGED port
    BY <1>1 DEF handleEvent
  <2> QED
    BY <2>1, <2>2, RefineSync, RefineOtherEvents DEF handleSync, handleDelayReq
<1>2. CASE UNCHANGED vars
  <2>1. SendTimeKnown' = SendTimeKnown
    BY <1>2 DEF vars, sockets, SendTimeKnown, OwnCopies
  <2> QED BY <1>2, <2>1, SocketUnchanged, RefineNothing DEF vars, sockets
<1> QED
  BY <1>1, <1>2, RefinePort, RefineIssue, RefineArrivals, RefineGeneral
  DEF Next, handle

(* The exchange implements the two-way comparison: nothing that is lost,   *)
(* doubled, late or overheard, no change of parent and no wrap of the      *)
(* counter makes the port combine times that do not belong together, other *)
(* than where TwoWayTime says so.                                          *)
THEOREM Refinement == Spec => ImplementsTwoWayTime
<1>1. Spec => []IInv
  BY Invariance
<1>2. Init => TwoWay!Init
  BY RefineInit
<1>3. IInv /\ [Next]_vars => [TwoWay!Next]_TwoWay!vars
  BY RefineNext
<1> QED
  BY <1>1, <1>2, <1>3, PTL DEF Spec, ImplementsTwoWayTime, TwoWay!Spec
=============================================================================
