------------------------------- MODULE Messages -------------------------------
(***************************************************************************)
(* msg.cc: the fields of the eight messages a port sends, in the one       *)
(* buffer it packs them all into.  The header is packed when the port is   *)
(* initialised; each message then changes what is different about it, and  *)
(* leaves the rest as the message before left it.                          *)
(*                                                                         *)
(* Numbers are their octets, most significant first (flip16, flip32), a    *)
(* time stamp the ten octets of its three numbers, a port identity the ten *)
(* of clockIdentity and portNumber.                                        *)
(***************************************************************************)
EXTENDS Integers

CONSTANTS
  versionNumber, domainNumber, portIdentity, twoStepFlag,   \* of the port
  CorrectionFields   \* those of the requests it answers

PACKET_SIZE == 300
TWO_STEP_FLAG == 2

Octet         == 0 .. 255
Octets(width) == [0 .. width - 1 -> Octet]
Zeros(width)  == [k \in 0 .. width - 1 |-> 0]
Buffer        == Octets(PACKET_SIZE)

(* What the theorems assume of the constants *)
PortAssumption ==
  /\ versionNumber \in 0 .. 15 /\ domainNumber \in Octet
  /\ portIdentity \in Octets(10) /\ twoStepFlag \in BOOLEAN
  /\ CorrectionFields \subseteq Octets(8)

(* memcpy and assignment through a pointer into the buffer *)
Put(buf, at, octets) ==
  [k \in DOMAIN buf |-> IF k - at \in DOMAIN octets THEN octets[k - at] ELSE buf[k]]

Get(buf, at, width) == [k \in 0 .. width - 1 |-> buf[at + k]]

UInteger16(n) == [k \in 0 .. 1 |-> IF k = 0 THEN n \div 256 ELSE n % 256]

VARIABLE msgObuf

-----------------------------------------------------------------------------
(* Packing *)

(* The flag is set, and never taken back *)
msgPackHeader(buf) ==
  [Put(Put(buf, 8, Zeros(8)), 20, portIdentity) EXCEPT
     ![0] = 128, ![1] = versionNumber, ![4] = domainNumber,
     ![6] = IF twoStepFlag THEN TWO_STEP_FLAG ELSE @, ![33] = 127]

(* What every message changes in the header; the type is half an octet *)
ChangeHeader(buf, type, length, sequenceId, control, interval) ==
  [Put(Put(buf, 2, UInteger16(length)), 30, sequenceId) EXCEPT
     ![0] = 16 * (@ \div 16) + type, ![32] = control, ![33] = interval]

ClearCorrection(buf) == Put(buf, 8, Zeros(8))

msgPackSync(buf, sequenceId, interval, originTimestamp) ==
  Put(ClearCorrection(ChangeHeader(buf, 0, 44, sequenceId, 0, interval)),
      34, originTimestamp)

(* The correction stays as it is *)
msgPackFollowUp(buf, sequenceId, interval, preciseOriginTimestamp) ==
  Put(ChangeHeader(buf, 8, 44, sequenceId, 2, interval),
      34, preciseOriginTimestamp)

msgPackDelayReq(buf, sequenceId, originTimestamp) ==
  Put(ClearCorrection(ChangeHeader(buf, 1, 44, sequenceId, 1, 127)),
      34, originTimestamp)

msgPackPDelayReq(buf, sequenceId, originTimestamp) ==
  Put(Put(ClearCorrection(ChangeHeader(buf, 2, 54, sequenceId, 5, 127)),
          34, originTimestamp), 44, Zeros(10))

(* To a request, of whose header the answers have the number, the sender   *)
(* and some also the domain and the correction                             *)
Answer(buf, request, timestamp) ==
  Put(Put(buf, 34, timestamp), 44, request.sourcePortIdentity)

msgPackDelayResp(buf, request, interval, receiveTimestamp) ==
  Answer(Put([ChangeHeader(buf, 9, 54, request.sequenceId, 3, interval)
                EXCEPT ![4] = request.domainNumber],
             8, request.correctionfield),
         request, receiveTimestamp)

msgPackPDelayResp(buf, request, requestReceiptTimestamp) ==
  Answer(ClearCorrection([ChangeHeader(buf, 3, 54, request.sequenceId, 5, 127)
                            EXCEPT ![4] = request.domainNumber]),
         request, requestReceiptTimestamp)

msgPackPDelayRespFollowUp(buf, request, responseOriginTimestamp) ==
  Answer(Put(ChangeHeader(buf, 10, 54, request.sequenceId, 5, 127),
             8, request.correctionfield),
         request, responseOriginTimestamp)

(* The correction stays as it is, and an octet of the last identity *)
msgPackAnnounce(buf, sequenceId, interval, a) ==
  LET head    == Put(ChangeHeader(buf, 11, 64, sequenceId, 5, interval), 34, Zeros(10))
      quality == [Put(head, 50, a.offsetScaledLogVariance) EXCEPT
                    ![47] = a.grandmasterPriority1, ![48] = a.clockClass,
                    ![49] = a.clockAccuracy, ![52] = a.grandmasterPriority2,
                    ![63] = a.timeSource]
  IN  Put(Put(Put(quality, 44, a.currentUtcOffset), 53, a.grandmasterIdentity),
          61, a.stepsRemoved)

-----------------------------------------------------------------------------
(* Unpacking *)

msgUnpackHeader(buf) ==
  [transportSpecific  |-> buf[0] \div 16,
   messageType        |-> buf[0] % 16,
   versionPTP         |-> buf[1] % 16,
   messageLength      |-> 256 * buf[2] + buf[3],
   domainNumber       |-> buf[4],
   flagField          |-> Get(buf, 6, 2),
   correctionfield    |-> Get(buf, 8, 8),
   sourcePortIdentity |-> Get(buf, 20, 10),
   sequenceId         |-> Get(buf, 30, 2),
   controlField       |-> buf[32],
   logMessageInterval |-> buf[33]]

Timestamp(buf) == Get(buf, 34, 10)

msgUnpackSync(buf)      == Timestamp(buf)
msgUnpackFollowUp(buf)  == Timestamp(buf)
msgUnpackDelayReq(buf)  == Timestamp(buf)
msgUnpackPDelayReq(buf) == Timestamp(buf)

TimestampAndRequester(buf) ==
  [timestamp |-> Timestamp(buf), requestingPortIdentity |-> Get(buf, 44, 10)]

msgUnpackDelayResp(buf)          == TimestampAndRequester(buf)
msgUnpackPDelayResp(buf)         == TimestampAndRequester(buf)
msgUnpackPDelayRespFollowUp(buf) == TimestampAndRequester(buf)

msgUnpackAnnounce(buf) ==
  [currentUtcOffset        |-> Get(buf, 44, 2),
   grandmasterPriority1    |-> buf[47],
   clockClass              |-> buf[48],
   clockAccuracy           |-> buf[49],
   offsetScaledLogVariance |-> Get(buf, 50, 2),
   grandmasterPriority2    |-> buf[52],
   grandmasterIdentity     |-> Get(buf, 53, 8),
   stepsRemoved            |-> Get(buf, 61, 2),
   timeSource              |-> buf[63]]
-----------------------------------------------------------------------------
(* The buffer of a port, from its start (startup.cc) on *)

(* handle lets no message of another domain through *)
Request ==
  [sequenceId : Octets(2), correctionfield : CorrectionFields,
   domainNumber : {domainNumber}, sourcePortIdentity : Octets(10)]

Announcement ==
  [currentUtcOffset : Octets(2), grandmasterPriority1 : Octet,
   clockClass : Octet, clockAccuracy : Octet,
   offsetScaledLogVariance : Octets(2), grandmasterPriority2 : Octet,
   grandmasterIdentity : Octets(8), stepsRemoved : Octets(2),
   timeSource : Octet]

Init == msgObuf = msgPackHeader(Zeros(PACKET_SIZE))

(* Of doInit and the issuers, the packing; the rest of what they do is in  *)
(* PortEngine, PeerDelay and SyncExchange.                                 *)
doInit == msgObuf' = msgPackHeader(msgObuf)

issueSync(n, interval, t)     == msgObuf' = msgPackSync(msgObuf, n, interval, t)
issueFollowup(n, interval, t) == msgObuf' = msgPackFollowUp(msgObuf, n, interval, t)
issueDelayReq(n, t)           == msgObuf' = msgPackDelayReq(msgObuf, n, t)
issuePDelayReq(n, t)          == msgObuf' = msgPackPDelayReq(msgObuf, n, t)

issueDelayResp(r, interval, t) == msgObuf' = msgPackDelayResp(msgObuf, r, interval, t)
issuePDelayResp(r, t)          == msgObuf' = msgPackPDelayResp(msgObuf, r, t)
issuePDelayRespFollowUp(r, t)  == msgObuf' = msgPackPDelayRespFollowUp(msgObuf, r, t)

issueAnnounce(n, interval, a) == msgObuf' = msgPackAnnounce(msgObuf, n, interval, a)

Next ==
  \/ doInit
  \/ \E n \in Octets(2), interval \in Octet, t \in Octets(10) :
       \/ issueSync(n, interval, t) \/ issueFollowup(n, interval, t)
       \/ issueDelayReq(n, t)       \/ issuePDelayReq(n, t)
  \/ \E r \in Request, interval \in Octet, t \in Octets(10) :
       \/ issueDelayResp(r, interval, t)
       \/ issuePDelayResp(r, t) \/ issuePDelayRespFollowUp(r, t)
  \/ \E n \in Octets(2), interval \in Octet, a \in Announcement :
       issueAnnounce(n, interval, a)

Spec == Init /\ [][Next]_msgObuf
-----------------------------------------------------------------------------
(* Properties *)

(* The buffer keeps its size, and holds octets.                            *)
TypeOK == msgObuf \in Buffer

(* What receivers ask of every message, whether it is of their version and *)
(* domain and whose it is, was packed once and survives all packing.       *)
KeepsHeader(buf) ==
  /\ buf[0] \div 16 = 8 /\ buf[1] = versionNumber
  /\ buf[4] = domainNumber /\ Get(buf, 20, 10) = portIdentity
  /\ buf[6] = IF twoStepFlag THEN TWO_STEP_FLAG ELSE 0
  /\ buf[7] = 0

HeaderStays == KeepsHeader(msgObuf)

(* The correction in a message, also where the packing leaves what the     *)
(* message before had (FollowUp, Announce), is none or that of a request   *)
(* that was answered.                                                      *)
CorrectionWasReceived ==
  Get(msgObuf, 8, 8) \in CorrectionFields \cup {Zeros(8)}

HeaderOf(type, length, sequenceId, control, interval, correction) ==
  [transportSpecific  |-> 8,
   messageType        |-> type,
   versionPTP         |-> versionNumber,
   messageLength      |-> length,
   domainNumber       |-> domainNumber,
   flagField          |-> [k \in 0 .. 1 |-> IF k = 0 /\ twoStepFlag
                                            THEN TWO_STEP_FLAG ELSE 0],
   correctionfield    |-> correction,
   sourcePortIdentity |-> portIdentity,
   sequenceId         |-> sequenceId,
   controlField       |-> control,
   logMessageInterval |-> interval]

(* A message is unpacked to what was packed, whatever messages the buffer  *)
(* held before: its own header, its time stamp ...                         *)
StampedStep ==
  \A n \in Octets(2), interval \in Octet, t \in Octets(10) :
    /\ issueSync(n, interval, t) =>
         /\ msgUnpackHeader(msgObuf') = HeaderOf(0, 44, n, 0, interval, Zeros(8))
         /\ msgUnpackSync(msgObuf') = t
    /\ issueFollowup(n, interval, t) =>
         /\ msgUnpackHeader(msgObuf')
              = HeaderOf(8, 44, n, 2, interval, Get(msgObuf, 8, 8))
         /\ msgUnpackFollowUp(msgObuf') = t
    /\ issueDelayReq(n, t) =>
         /\ msgUnpackHeader(msgObuf') = HeaderOf(1, 44, n, 1, 127, Zeros(8))
         /\ msgUnpackDelayReq(msgObuf') = t
    /\ issuePDelayReq(n, t) =>
         /\ msgUnpackHeader(msgObuf') = HeaderOf(2, 54, n, 5, 127, Zeros(8))
         /\ msgUnpackPDelayReq(msgObuf') = t

TimestampArrives == [][StampedStep]_msgObuf

(* ... the number and the identity of the request it answers ...           *)
AnsweredStep ==
  \A r \in Request, interval \in Octet, t \in Octets(10) :
    LET header(type, control, log, correction) ==
          HeaderOf(type, 54, r.sequenceId, control, log, correction)
        answer == [timestamp |-> t, requestingPortIdentity |-> r.sourcePortIdentity]
    IN  /\ issueDelayResp(r, interval, t) =>
             /\ msgUnpackHeader(msgObuf') = header(9, 3, interval, r.correctionfield)
             /\ msgUnpackDelayResp(msgObuf') = answer
        /\ issuePDelayResp(r, t) =>
             /\ msgUnpackHeader(msgObuf') = header(3, 5, 127, Zeros(8))
             /\ msgUnpackPDelayResp(msgObuf') = answer
        /\ issuePDelayRespFollowUp(r, t) =>
             /\ msgUnpackHeader(msgObuf') = header(10, 5, 127, r.correctionfield)
             /\ msgUnpackPDelayRespFollowUp(msgObuf') = answer

AnswerArrives == [][AnsweredStep]_msgObuf

(* ... or all of the data that the best master clock algorithm compares.   *)
AnnouncedStep ==
  \A n \in Octets(2), interval \in Octet, a \in Announcement :
    issueAnnounce(n, interval, a) =>
      /\ msgUnpackHeader(msgObuf')
           = HeaderOf(11, 64, n, 5, interval, Get(msgObuf, 8, 8))
      /\ msgUnpackAnnounce(msgObuf') = a

AnnouncementArrives == [][AnnouncedStep]_msgObuf
=============================================================================
