--------------------------- MODULE MessagesProofs ---------------------------
(***************************************************************************)
(* What is packed into the one buffer is what is unpacked from it, whatever *)
(* the buffer held before.                                                 *)
(*                                                                         *)
(* Each message is followed octet by octet: Put changes the octets it is   *)
(* given and no other (PutOctets), so does the header's change             *)
(* (ChangedOctets), and every field a message is unpacked to is one that   *)
(* was put there last.                                                     *)
(***************************************************************************)
EXTENDS Messages, TLAPS

LEMMA BufferOctets == Buffer = [0 .. 299 -> Octet]
<1>1. 300 - 1 = 299
  OBVIOUS
<1> QED BY <1>1, Zenon DEF Buffer, Octets, PACKET_SIZE

(* A field that is put into the buffer fits, and the rest stays.           *)
Replaced(buf, b, at, width, octets) ==
  /\ b \in Buffer
  /\ \A k \in 0 .. 299 :
       b[k] = IF at <= k /\ k < at + width THEN octets[k - at] ELSE buf[k]

LEMMA PutOctets ==
  ASSUME NEW buf \in Buffer, NEW at \in Nat, NEW width \in Nat,
         at + width <= PACKET_SIZE, NEW octets \in Octets(width)
  PROVE  Replaced(buf, Put(buf, at, octets), at, width, octets)
<1>1. DOMAIN buf = 0 .. 299 /\ DOMAIN octets = 0 .. width - 1
  BY BufferOctets DEF Octets
<1>2. \A k \in 0 .. 299 : k - at \in DOMAIN octets <=> at <= k /\ k < at + width
  BY <1>1
<1>3. \A k \in 0 .. 299 :
        Put(buf, at, octets)[k]
          = IF at <= k /\ k < at + width THEN octets[k - at] ELSE buf[k]
  BY <1>1, <1>2, Zenon DEF Put
<1>4. \A k \in 0 .. 299 : Put(buf, at, octets)[k] \in Octet
  <2> TAKE k \in 0 .. 299
  <2>1. buf[k] \in Octet
    BY BufferOctets
  <2>2. at <= k /\ k < at + width => octets[k - at] \in Octet
    BY DEF Octets
  <2> QED BY <1>3, <2>1, <2>2
<1>5. Put(buf, at, octets) = [k \in 0 .. 299 |-> Put(buf, at, octets)[k]]
  BY <1>1 DEF Put
<1>6. Put(buf, at, octets) \in Buffer
  BY <1>4, <1>5, BufferOctets
<1> QED BY <1>3, <1>6 DEF Replaced

(* So the field is got that was put, and no octet outside it changes.      *)
HasField(buf, b, at, width, octets) ==
  /\ b \in Buffer
  /\ Get(b, at, width) = octets
  /\ \A k \in 0 .. 299 : k < at \/ at + width <= k => b[k] = buf[k]

LEMMA PutField ==
  ASSUME NEW buf \in Buffer, NEW at \in Nat, NEW width \in Nat,
         at + width <= PACKET_SIZE, NEW octets \in Octets(width)
  PROVE  HasField(buf, Put(buf, at, octets), at, width, octets)
<1>1. PICK b : b = Put(buf, at, octets)
  OBVIOUS
<1>2. Replaced(buf, b, at, width, octets)
  BY <1>1, PutOctets
<1>3. \A k \in 0 .. width - 1 : b[at + k] = octets[k]
  <2> TAKE k \in 0 .. width - 1
  <2>1. at + k \in 0 .. 299 /\ at <= at + k /\ at + k < at + width /\ (at + k) - at = k
    BY DEF PACKET_SIZE
  <2> QED BY <1>2, <2>1 DEF Replaced
<1>4. Get(b, at, width) = octets
  BY <1>3 DEF Get, Octets
<1>5. \A k \in 0 .. 299 : k < at \/ at + width <= k => b[k] = buf[k]
  BY <1>2 DEF Replaced
<1>6. HasField(buf, b, at, width, octets)
  BY <1>2, <1>4, <1>5 DEF HasField, Replaced
<1> QED BY <1>1, <1>6

LEMMA TwoOctets ==
  \A buf \in Buffer, f \in Octets(2) :
    /\ Replaced(buf, Put(buf, 2, f), 2, 2, f)
    /\ Replaced(buf, Put(buf, 30, f), 30, 2, f)
BY PutOctets DEF PACKET_SIZE

LEMMA MessageFields ==
  \A buf \in Buffer :
    /\ \A f \in Octets(8)  : HasField(buf, Put(buf, 8, f), 8, 8, f)
    /\ \A p \in Octets(10) : HasField(buf, Put(buf, 20, p), 20, 10, p)
    /\ \A t \in Octets(10) : HasField(buf, Put(buf, 34, t), 34, 10, t)
    /\ \A i \in Octets(10) : HasField(buf, Put(buf, 44, i), 44, 10, i)
BY PutField DEF PACKET_SIZE

LEMMA ZeroOctets ==
  \A width \in Nat : Zeros(width) \in Octets(width)
BY DEF Zeros, Octets, Octet

(* The header's change is of seven octets, and of one only half.           *)
Changed(buf, b, type, length, n, control, interval) ==
  /\ b \in Buffer
  /\ b[0] = 16 * (buf[0] \div 16) + type
  /\ b[2] = 0 /\ b[3] = length
  /\ b[30] = n[0] /\ b[31] = n[1]
  /\ b[32] = control /\ b[33] = interval
  /\ \A k \in 0 .. 299 : k \notin {0, 2, 3, 30, 31, 32, 33} => b[k] = buf[k]

LEMMA ChangedOctets ==
  ASSUME NEW buf \in Buffer, NEW type \in 0 .. 15, NEW length \in 0 .. 255,
         NEW n \in Octets(2), NEW control \in Octet, NEW interval \in Octet
  PROVE  Changed(buf, ChangeHeader(buf, type, length, n, control, interval),
                 type, length, n, control, interval)
<1>1. PICK u : u = UInteger16(length)
  OBVIOUS
<1>2. u \in Octets(2) /\ u[0] = 0 /\ u[1] = length
  BY <1>1 DEF UInteger16, Octets, Octet
<1>3. PICK b1 : b1 = Put(buf, 2, u)
  OBVIOUS
<1>4. Replaced(buf, b1, 2, 2, u) /\ b1 \in Buffer
  <2>1. Replaced(buf, b1, 2, 2, u)
    BY <1>2, <1>3, TwoOctets
  <2> QED BY <2>1 DEF Replaced
<1>5. PICK b2 : b2 = Put(b1, 30, n)
  OBVIOUS
<1>6. Replaced(b1, b2, 30, 2, n) /\ b2 \in [0 .. 299 -> Octet]
  <2>1. Replaced(b1, b2, 30, 2, n)
    BY <1>4, <1>5, TwoOctets
  <2> QED BY <2>1, BufferOctets DEF Replaced
<1>7. PICK b : b = ChangeHeader(buf, type, length, n, control, interval)
  OBVIOUS
<1>8. b = [b2 EXCEPT ![0] = 16 * (b2[0] \div 16) + type, ![32] = control, ![33] = interval]
  BY <1>1, <1>3, <1>5, <1>7 DEF ChangeHeader
<1>9. /\ b1[2] = 0 /\ b1[3] = length /\ b2[2] = b1[2] /\ b2[3] = b1[3]
      /\ b2[30] = n[0] /\ b2[31] = n[1] /\ b2[0] = buf[0]
      /\ \A k \in 0 .. 299 : k \notin {2, 3, 30, 31} => b2[k] = buf[k]
  BY <1>2, <1>4, <1>6 DEF Replaced
<1>10. 16 * (b2[0] \div 16) + type \in Octet
  <2>1. b2[0] \in Octet
    BY <1>6
  <2>2. b2[0] \in 0 .. 255
    BY <2>1 DEF Octet
  <2>3. b2[0] \div 16 \in 0 .. 15
    BY <2>2
  <2> QED BY <2>3 DEF Octet
<1>11. /\ b \in Buffer
       /\ b[0] = 16 * (b2[0] \div 16) + type /\ b[32] = control /\ b[33] = interval
       /\ \A k \in 0 .. 299 : k \notin {0, 32, 33} => b[k] = b2[k]
  <2>1. b \in [0 .. 299 -> Octet]
    BY <1>6, <1>8, <1>10
  <2>2. b[0] = 16 * (b2[0] \div 16) + type /\ b[32] = control /\ b[33] = interval
    BY <1>6, <1>8
  <2>3. \A k \in 0 .. 299 : k \notin {0, 32, 33} => b[k] = b2[k]
    BY <1>6, <1>8
  <2> QED BY <2>1, <2>2, <2>3, BufferOctets
<1>12. Changed(buf, b, type, length, n, control, interval)
  BY <1>9, <1>11 DEF Changed
<1> QED BY <1>7, <1>12

(* A header is unpacked to what the port put there when it was initialised *)
(* and what the message changed of it, if nothing but the correction is    *)
(* changed after that.                                                     *)
Arrived(b, type, length, n, control, interval, correction) ==
  /\ KeepsHeader(b)
  /\ msgUnpackHeader(b) = HeaderOf(type, length, n, control, interval, correction)

SameHead(c, b) == \A k \in 0 .. 33 : k \notin 8 .. 15 => b[k] = c[k]

LEMMA HeaderArrives ==
  ASSUME PortAssumption,
         NEW buf \in Buffer, KeepsHeader(buf),
         NEW type \in 0 .. 15, NEW length \in 0 .. 255, NEW n \in Octets(2),
         NEW control \in Octet, NEW interval \in Octet,
         NEW b, SameHead(ChangeHeader(buf, type, length, n, control, interval), b)
  PROVE  Arrived(b, type, length, n, control, interval, Get(b, 8, 8))
<1> DEFINE c == ChangeHeader(buf, type, length, n, control, interval)
<1>1. Changed(buf, c, type, length, n, control, interval)
  BY ChangedOctets, Zenon
<1>2. \A k \in 0 .. 33 : k \notin 8 .. 15 => b[k] = c[k]
  BY DEF SameHead
<1> HIDE DEF c
<1>3. b[0] = 128 + type
  BY <1>1, <1>2 DEF Changed, KeepsHeader
<1>4. b[0] \div 16 = 8 /\ b[0] % 16 = type
  BY <1>3
<1>5. /\ b[1] = versionNumber /\ b[4] = domainNumber
      /\ b[6] = (IF twoStepFlag THEN TWO_STEP_FLAG ELSE 0) /\ b[7] = 0
  BY <1>1, <1>2 DEF Changed, KeepsHeader
<1>6. Get(b, 20, 10) = portIdentity
  <2>1. \A k \in 0 .. 10 - 1 : b[20 + k] = buf[20 + k]
    BY <1>1, <1>2 DEF Changed
  <2> QED BY <2>1 DEF Get, KeepsHeader
<1>7. KeepsHeader(b)
  BY <1>4, <1>5, <1>6, Zenon DEF KeepsHeader
<1>8. Get(b, 30, 2) = n
  <2>1. \A k \in 0 .. 2 - 1 : b[30 + k] = n[k]
    BY <1>1, <1>2 DEF Changed
  <2> QED BY <2>1 DEF Get, Octets
<1>9. Get(b, 6, 2) = [k \in 0 .. 1 |-> IF k = 0 /\ twoStepFlag THEN TWO_STEP_FLAG ELSE 0]
  <2>1. \A k \in 0 .. 1 :
          b[6 + k] = IF k = 0 /\ twoStepFlag THEN TWO_STEP_FLAG ELSE 0
    <3>1. b[6 + 0] = IF 0 = 0 /\ twoStepFlag THEN TWO_STEP_FLAG ELSE 0
      BY <1>5
    <3>2. b[6 + 1] = IF 1 = 0 /\ twoStepFlag THEN TWO_STEP_FLAG ELSE 0
      BY <1>5
    <3>3. \A k \in 0 .. 1 : k = 0 \/ k = 1
      OBVIOUS
    <3> QED BY <3>1, <3>2, <3>3
  <2>2. 2 - 1 = 1
    OBVIOUS
  <2> QED BY <2>1, <2>2, Zenon DEF Get
<1>10. b[1] % 16 = versionNumber
  BY <1>5 DEF PortAssumption
<1>11. 256 * b[2] + b[3] = length
  BY <1>1, <1>2 DEF Changed
<1>12. b[32] = control /\ b[33] = interval
  BY <1>1, <1>2 DEF Changed
<1> QED BY <1>4, <1>5, <1>6, <1>7, <1>8, <1>9, <1>10, <1>11, <1>12, Zenon
        DEF Arrived, KeepsHeader, msgUnpackHeader, HeaderOf

-----------------------------------------------------------------------------
(* What is packed behind a header                                          *)

IsHead(buf, h, type, length, n, control, interval, correction) ==
  /\ h \in Buffer
  /\ SameHead(ChangeHeader(buf, type, length, n, control, interval), h)
  /\ Get(h, 8, 8) = correction

(* The header changed is one, with the correction it had ...               *)
LEMMA PlainHead ==
  ASSUME NEW buf \in Buffer,
         NEW type \in 0 .. 15, NEW length \in 0 .. 255, NEW n \in Octets(2),
         NEW control \in Octet, NEW interval \in Octet
  PROVE  IsHead(buf, ChangeHeader(buf, type, length, n, control, interval),
                type, length, n, control, interval, Get(buf, 8, 8))
<1>1. PICK c : c = ChangeHeader(buf, type, length, n, control, interval)
  OBVIOUS
<1>2. Changed(buf, c, type, length, n, control, interval)
  BY <1>1, ChangedOctets
<1>3. Get(c, 8, 8) = Get(buf, 8, 8)
  BY <1>2 DEF Changed, Get
<1> QED BY <1>1, <1>2, <1>3 DEF IsHead, SameHead, Changed

(* ... and is one with another that is put there.                          *)
LEMMA CorrectedHead ==
  ASSUME NEW buf \in Buffer,
         NEW type \in 0 .. 15, NEW length \in 0 .. 255, NEW n \in Octets(2),
         NEW control \in Octet, NEW interval \in Octet,
         NEW f \in Octets(8)
  PROVE  IsHead(buf, Put(ChangeHeader(buf, type, length, n, control, interval), 8, f),
                type, length, n, control, interval, f)
<1>1. PICK c : c = ChangeHeader(buf, type, length, n, control, interval)
  OBVIOUS
<1>2. c \in Buffer
  BY <1>1, ChangedOctets DEF Changed
<1>3. PICK h : h = Put(c, 8, f)
  OBVIOUS
<1>4. HasField(c, h, 8, 8, f)
  BY <1>2, <1>3, MessageFields
<1>5. h \in Buffer /\ SameHead(c, h) /\ Get(h, 8, 8) = f
  BY <1>4 DEF HasField, SameHead
<1> QED BY <1>1, <1>3, <1>5 DEF IsHead

OfThisDomain(c) == c \in [0 .. 299 -> Octet] /\ c[4] = domainNumber

(* The domain that an answer takes from its request is the port's own.     *)
LEMMA SameDomain ==
  ASSUME NEW buf \in Buffer, KeepsHeader(buf),
         NEW type \in 0 .. 15, NEW length \in 0 .. 255, NEW n \in Octets(2),
         NEW control \in Octet, NEW interval \in Octet
  PROVE  OfThisDomain(ChangeHeader(buf, type, length, n, control, interval))
<1>1. PICK c : c = ChangeHeader(buf, type, length, n, control, interval)
  OBVIOUS
<1>2. Changed(buf, c, type, length, n, control, interval)
  BY <1>1, ChangedOctets
<1>3. c[4] = domainNumber
  BY <1>2 DEF Changed, KeepsHeader
<1>4. c \in [0 .. 299 -> Octet]
  BY <1>2, BufferOctets DEF Changed
<1> QED BY <1>1, <1>3, <1>4 DEF OfThisDomain

Stamped(b, type, length, n, control, interval, correction, t) ==
  /\ b \in Buffer
  /\ Arrived(b, type, length, n, control, interval, correction)
  /\ Timestamp(b) = t

(* A time stamp behind a header arrives, and the header with it ...        *)
LEMMA StampArrives ==
  ASSUME PortAssumption, NEW buf \in Buffer, KeepsHeader(buf),
         NEW type \in 0 .. 15, NEW length \in 0 .. 255, NEW n \in Octets(2),
         NEW control \in Octet, NEW interval \in Octet,
         NEW h, NEW correction, NEW t \in Octets(10),
         IsHead(buf, h, type, length, n, control, interval, correction)
  PROVE  Stamped(Put(h, 34, t), type, length, n, control, interval, correction, t)
<1>1. PICK c : c = ChangeHeader(buf, type, length, n, control, interval)
  OBVIOUS
<1>2. h \in Buffer /\ SameHead(c, h) /\ Get(h, 8, 8) = correction
  BY <1>1 DEF IsHead
<1>3. PICK b : b = Put(h, 34, t)
  OBVIOUS
<1>4. HasField(h, b, 34, 10, t)
  BY <1>2, <1>3, MessageFields
<1>5. SameHead(c, b)
  BY <1>2, <1>4 DEF HasField, SameHead
<1>6. Arrived(b, type, length, n, control, interval, Get(b, 8, 8))
  BY <1>1, <1>5, HeaderArrives
<1>7. Get(b, 8, 8) = Get(h, 8, 8)
  BY <1>4 DEF HasField, Get
<1>8. b \in Buffer /\ Timestamp(b) = t
  BY <1>4 DEF HasField, Timestamp
<1> QED BY <1>2, <1>3, <1>6, <1>7, <1>8 DEF Stamped

Answered(b, type, n, control, interval, correction, t, i) ==
  /\ b \in Buffer
  /\ Arrived(b, type, 54, n, control, interval, correction)
  /\ TimestampAndRequester(b) = [timestamp |-> t, requestingPortIdentity |-> i]

(* ... and so does an identity behind both.                                *)
LEMMA IdentityArrives ==
  ASSUME PortAssumption, NEW buf \in Buffer, KeepsHeader(buf),
         NEW type \in 0 .. 15, NEW n \in Octets(2),
         NEW control \in Octet, NEW interval \in Octet,
         NEW h, NEW correction, NEW t \in Octets(10), NEW i \in Octets(10),
         IsHead(buf, h, type, 54, n, control, interval, correction)
  PROVE  Answered(Put(Put(h, 34, t), 44, i), type, n, control, interval, correction, t, i)
<1>1. PICK c : c = ChangeHeader(buf, type, 54, n, control, interval)
  OBVIOUS
<1>2. h \in Buffer /\ SameHead(c, h) /\ Get(h, 8, 8) = correction
  BY <1>1 DEF IsHead
<1>3. PICK a : a = Put(h, 34, t)
  OBVIOUS
<1>4. HasField(h, a, 34, 10, t)
  BY <1>2, <1>3, MessageFields
<1>5. a \in Buffer
  BY <1>4 DEF HasField
<1>6. PICK b : b = Put(a, 44, i)
  OBVIOUS
<1>7. HasField(a, b, 44, 10, i)
  BY <1>5, <1>6, MessageFields
<1>8. SameHead(c, b)
  BY <1>2, <1>4, <1>7 DEF HasField, SameHead
<1>9. Arrived(b, type, 54, n, control, interval, Get(b, 8, 8))
  <2>1. 54 \in 0 .. 255
    OBVIOUS
  <2> QED BY <1>1, <1>8, <2>1, HeaderArrives
<1>10. Get(b, 8, 8) = Get(h, 8, 8) /\ Get(b, 34, 10) = Get(a, 34, 10)
  BY <1>4, <1>7 DEF HasField, Get
<1>11. b \in Buffer /\ Get(b, 34, 10) = t /\ Get(b, 44, 10) = i
  BY <1>4, <1>7, <1>10 DEF HasField
<1> QED BY <1>2, <1>3, <1>6, <1>9, <1>10, <1>11 DEF Answered, TimestampAndRequester, Timestamp

-----------------------------------------------------------------------------
(* The messages, one by one                                                *)

(* The numbers that the packing puts into a header                         *)
LEMMA HeaderNumbers ==
  /\ {0, 1, 2, 3, 8, 9, 10, 11} \subseteq 0 .. 15
  /\ {44, 54, 64} \subseteq 0 .. 255
  /\ {0, 1, 2, 3, 5, 127} \subseteq Octet
BY DEF Octet

LEMMA TimestampMessages ==
  ASSUME PortAssumption, NEW buf \in Buffer, KeepsHeader(buf),
         NEW n \in Octets(2), NEW interval \in Octet, NEW t \in Octets(10)
  PROVE  /\ Stamped(msgPackSync(buf, n, interval, t),
                    0, 44, n, 0, interval, Zeros(8), t)
         /\ Stamped(msgPackFollowUp(buf, n, interval, t),
                    8, 44, n, 2, interval, Get(buf, 8, 8), t)
         /\ Stamped(msgPackDelayReq(buf, n, t), 1, 44, n, 1, 127, Zeros(8), t)
         /\ Stamped(msgPackPDelayReq(buf, n, t), 2, 54, n, 5, 127, Zeros(8), t)
<1>1. Zeros(8) \in Octets(8) /\ Zeros(10) \in Octets(10)
  BY ZeroOctets
<1>2. Stamped(msgPackSync(buf, n, interval, t), 0, 44, n, 0, interval, Zeros(8), t)
  <2>1. IsHead(buf, Put(ChangeHeader(buf, 0, 44, n, 0, interval), 8, Zeros(8)),
               0, 44, n, 0, interval, Zeros(8))
    BY <1>1, HeaderNumbers, CorrectedHead
  <2> QED BY <2>1, HeaderNumbers, StampArrives DEF msgPackSync, ClearCorrection
<1>3. Stamped(msgPackFollowUp(buf, n, interval, t),
              8, 44, n, 2, interval, Get(buf, 8, 8), t)
  <2>1. IsHead(buf, ChangeHeader(buf, 8, 44, n, 2, interval),
               8, 44, n, 2, interval, Get(buf, 8, 8))
    BY HeaderNumbers, PlainHead
  <2> QED BY <2>1, HeaderNumbers, StampArrives DEF msgPackFollowUp
<1>4. Stamped(msgPackDelayReq(buf, n, t), 1, 44, n, 1, 127, Zeros(8), t)
  <2>1. IsHead(buf, Put(ChangeHeader(buf, 1, 44, n, 1, 127), 8, Zeros(8)),
               1, 44, n, 1, 127, Zeros(8))
    BY <1>1, HeaderNumbers, CorrectedHead
  <2> QED BY <2>1, HeaderNumbers, StampArrives DEF msgPackDelayReq, ClearCorrection
<1>5. Stamped(msgPackPDelayReq(buf, n, t), 2, 54, n, 5, 127, Zeros(8), t)
  <2>1. IsHead(buf, Put(ChangeHeader(buf, 2, 54, n, 5, 127), 8, Zeros(8)),
               2, 54, n, 5, 127, Zeros(8))
    BY <1>1, HeaderNumbers, CorrectedHead
  <2>2. Answered(msgPackPDelayReq(buf, n, t), 2, n, 5, 127, Zeros(8), t, Zeros(10))
    BY <1>1, <2>1, HeaderNumbers, IdentityArrives DEF msgPackPDelayReq, ClearCorrection
  <2> QED BY <2>2 DEF Answered, Stamped, TimestampAndRequester, Timestamp
<1> QED BY <1>2, <1>3, <1>4, <1>5

LEMMA AnswerMessages ==
  ASSUME PortAssumption, NEW buf \in Buffer, KeepsHeader(buf),
         NEW r \in Request, NEW interval \in Octet, NEW t \in Octets(10)
  PROVE  /\ Answered(msgPackDelayResp(buf, r, interval, t), 9, r.sequenceId, 3,
                     interval, r.correctionfield, t, r.sourcePortIdentity)
         /\ Answered(msgPackPDelayResp(buf, r, t), 3, r.sequenceId, 5,
                     127, Zeros(8), t, r.sourcePortIdentity)
         /\ Answered(msgPackPDelayRespFollowUp(buf, r, t), 10, r.sequenceId, 5,
                     127, r.correctionfield, t, r.sourcePortIdentity)
<1>1. /\ r.sequenceId \in Octets(2) /\ r.correctionfield \in Octets(8)
      /\ r.domainNumber = domainNumber /\ r.sourcePortIdentity \in Octets(10)
  BY DEF Request, PortAssumption
<1>2. Zeros(8) \in Octets(8)
  BY ZeroOctets
<1>3. Answered(msgPackDelayResp(buf, r, interval, t), 9, r.sequenceId, 3,
               interval, r.correctionfield, t, r.sourcePortIdentity)
  <2>1. PICK c : c = ChangeHeader(buf, 9, 54, r.sequenceId, 3, interval)
    OBVIOUS
  <2>2. [c EXCEPT ![4] = r.domainNumber] = c
    <3>1. OfThisDomain(c)
      BY <1>1, <2>1, HeaderNumbers, SameDomain
    <3> QED BY <1>1, <3>1 DEF OfThisDomain
  <2>3. IsHead(buf, Put(c, 8, r.correctionfield),
               9, 54, r.sequenceId, 3, interval, r.correctionfield)
    BY <1>1, <2>1, HeaderNumbers, CorrectedHead
  <2>4. msgPackDelayResp(buf, r, interval, t)
          = Put(Put(Put(c, 8, r.correctionfield), 34, t), 44, r.sourcePortIdentity)
    BY <2>1, <2>2 DEF msgPackDelayResp, Answer
  <2> QED BY <1>1, <2>3, <2>4, HeaderNumbers, IdentityArrives
<1>4. Answered(msgPackPDelayResp(buf, r, t), 3, r.sequenceId, 5,
               127, Zeros(8), t, r.sourcePortIdentity)
  <2>1. PICK c : c = ChangeHeader(buf, 3, 54, r.sequenceId, 5, 127)
    OBVIOUS
  <2>2. [c EXCEPT ![4] = r.domainNumber] = c
    <3>1. OfThisDomain(c)
      BY <1>1, <2>1, HeaderNumbers, SameDomain
    <3> QED BY <1>1, <3>1 DEF OfThisDomain
  <2>3. IsHead(buf, Put(c, 8, Zeros(8)), 3, 54, r.sequenceId, 5, 127, Zeros(8))
    BY <1>1, <1>2, <2>1, HeaderNumbers, CorrectedHead
  <2>4. msgPackPDelayResp(buf, r, t)
          = Put(Put(Put(c, 8, Zeros(8)), 34, t), 44, r.sourcePortIdentity)
    BY <2>1, <2>2 DEF msgPackPDelayResp, Answer, ClearCorrection
  <2> QED BY <1>1, <2>3, <2>4, HeaderNumbers, IdentityArrives
<1>5. Answered(msgPackPDelayRespFollowUp(buf, r, t), 10, r.sequenceId, 5,
               127, r.correctionfield, t, r.sourcePortIdentity)
  <2>1. IsHead(buf, Put(ChangeHeader(buf, 10, 54, r.sequenceId, 5, 127),
                        8, r.correctionfield),
               10, 54, r.sequenceId, 5, 127, r.correctionfield)
    BY <1>1, HeaderNumbers, CorrectedHead
  <2> QED BY <1>1, <2>1, HeaderNumbers, IdentityArrives
          DEF msgPackPDelayRespFollowUp, Answer
<1> QED BY <1>3, <1>4, <1>5

LEMMA AnnounceFields ==
  \A buf \in Buffer :
    /\ \A f \in Octets(2) : /\ HasField(buf, Put(buf, 44, f), 44, 2, f)
                            /\ HasField(buf, Put(buf, 50, f), 50, 2, f)
                            /\ HasField(buf, Put(buf, 61, f), 61, 2, f)
    /\ \A f \in Octets(8) : HasField(buf, Put(buf, 53, f), 53, 8, f)
BY PutField DEF PACKET_SIZE

LEMMA AnnounceMessage ==
  ASSUME PortAssumption, NEW buf \in Buffer, KeepsHeader(buf),
         NEW n \in Octets(2), NEW interval \in Octet, NEW a \in Announcement
  PROVE  /\ msgPackAnnounce(buf, n, interval, a) \in Buffer
         /\ Arrived(msgPackAnnounce(buf, n, interval, a),
                    11, 64, n, 5, interval, Get(buf, 8, 8))
         /\ msgUnpackAnnounce(msgPackAnnounce(buf, n, interval, a)) = a
<1>1. /\ a.currentUtcOffset \in Octets(2) /\ a.offsetScaledLogVariance \in Octets(2)
      /\ a.stepsRemoved \in Octets(2) /\ a.grandmasterIdentity \in Octets(8)
  BY DEF Announcement
<1>2. PICK c : c = ChangeHeader(buf, 11, 64, n, 5, interval)
  OBVIOUS
<1>3. c \in Buffer /\ Get(c, 8, 8) = Get(buf, 8, 8)
  <2>1. IsHead(buf, c, 11, 64, n, 5, interval, Get(buf, 8, 8))
    BY <1>2, HeaderNumbers, PlainHead
  <2> QED BY <2>1 DEF IsHead
<1>4. PICK head : head = Put(c, 34, Zeros(10))
  OBVIOUS
<1>5. HasField(c, head, 34, 10, Zeros(10)) /\ head \in Buffer
  <2>1. HasField(c, head, 34, 10, Zeros(10))
    BY <1>3, <1>4, ZeroOctets, MessageFields
  <2> QED BY <2>1 DEF HasField
<1>6. PICK v : v = Put(head, 50, a.offsetScaledLogVariance)
  OBVIOUS
<1>7. HasField(head, v, 50, 2, a.offsetScaledLogVariance) /\ v \in Buffer
  <2>1. HasField(head, v, 50, 2, a.offsetScaledLogVariance)
    BY <1>1, <1>5, <1>6, AnnounceFields
  <2> QED BY <2>1 DEF HasField
<1>8. PICK q : q = [v EXCEPT ![47] = a.grandmasterPriority1, ![48] = a.clockClass,
                             ![49] = a.clockAccuracy, ![52] = a.grandmasterPriority2,
                             ![63] = a.timeSource]
  OBVIOUS
<1>9. /\ q \in Buffer
      /\ q[47] = a.grandmasterPriority1 /\ q[48] = a.clockClass
      /\ q[49] = a.clockAccuracy /\ q[52] = a.grandmasterPriority2
      /\ q[63] = a.timeSource
      /\ \A k \in 0 .. 299 : k \notin {47, 48, 49, 52, 63} => q[k] = v[k]
  <2>1. v \in [0 .. 299 -> Octet]
    BY <1>7, BufferOctets
  <2>2. /\ a.grandmasterPriority1 \in Octet /\ a.clockClass \in Octet
        /\ a.clockAccuracy \in Octet /\ a.grandmasterPriority2 \in Octet
        /\ a.timeSource \in Octet
    BY DEF Announcement
  <2>3. q \in [0 .. 299 -> Octet]
    BY <1>8, <2>1, <2>2
  <2>4. /\ q[47] = a.grandmasterPriority1 /\ q[48] = a.clockClass
        /\ q[49] = a.clockAccuracy /\ q[52] = a.grandmasterPriority2
        /\ q[63] = a.timeSource
    BY <1>8, <2>1
  <2>5. \A k \in 0 .. 299 : k \notin {47, 48, 49, 52, 63} => q[k] = v[k]
    BY <1>8, <2>1
  <2> QED BY <2>3, <2>4, <2>5, BufferOctets
<1>10. PICK u : u = Put(q, 44, a.currentUtcOffset)
  OBVIOUS
<1>11. HasField(q, u, 44, 2, a.currentUtcOffset) /\ u \in Buffer
  <2>1. HasField(q, u, 44, 2, a.currentUtcOffset)
    BY <1>1, <1>9, <1>10, AnnounceFields
  <2> QED BY <2>1 DEF HasField
<1>12. PICK g : g = Put(u, 53, a.grandmasterIdentity)
  OBVIOUS
<1>13. HasField(u, g, 53, 8, a.grandmasterIdentity) /\ g \in Buffer
  <2>1. HasField(u, g, 53, 8, a.grandmasterIdentity)
    BY <1>1, <1>11, <1>12, AnnounceFields
  <2> QED BY <2>1 DEF HasField
<1>14. PICK b : b = Put(g, 61, a.stepsRemoved)
  OBVIOUS
<1>15. HasField(g, b, 61, 2, a.stepsRemoved) /\ b \in Buffer
  <2>1. HasField(g, b, 61, 2, a.stepsRemoved)
    BY <1>1, <1>13, <1>14, AnnounceFields
  <2> QED BY <2>1 DEF HasField
<1>16. b = msgPackAnnounce(buf, n, interval, a)
  BY <1>2, <1>4, <1>6, <1>8, <1>10, <1>12, <1>14 DEF msgPackAnnounce
<1>17. Arrived(b, 11, 64, n, 5, interval, Get(buf, 8, 8))
  <2>1. \A k \in 0 .. 33 : b[k] = c[k]
    <3>1. \A k \in 0 .. 33 : v[k] = c[k]
      BY <1>5, <1>7 DEF HasField
    <3>2. \A k \in 0 .. 33 : u[k] = v[k]
      BY <1>9, <1>11 DEF HasField
    <3>3. \A k \in 0 .. 33 : b[k] = u[k]
      BY <1>13, <1>15 DEF HasField
    <3> QED BY <3>1, <3>2, <3>3
  <2>2. SameHead(c, b) /\ Get(b, 8, 8) = Get(c, 8, 8)
    BY <2>1 DEF SameHead, Get
  <2>3. Arrived(b, 11, 64, n, 5, interval, Get(b, 8, 8))
    BY <1>2, <2>2, HeaderNumbers, HeaderArrives
  <2> QED BY <1>3, <2>2, <2>3
<1>18. Get(b, 61, 2) = a.stepsRemoved
  BY <1>15 DEF HasField
<1>19. Get(b, 53, 8) = a.grandmasterIdentity
  BY <1>13, <1>15 DEF HasField, Get
<1>20. Get(b, 44, 2) = a.currentUtcOffset
  BY <1>11, <1>13, <1>15 DEF HasField, Get
<1>21. Get(b, 50, 2) = a.offsetScaledLogVariance
  <2>1. \A k \in 50 .. 51 : b[k] = v[k]
    BY <1>9, <1>11, <1>13, <1>15 DEF HasField
  <2>2. Get(b, 50, 2) = Get(v, 50, 2)
    BY <2>1 DEF Get
  <2> QED BY <1>7, <2>2 DEF HasField
<1>22. /\ b[47] = a.grandmasterPriority1 /\ b[48] = a.clockClass
       /\ b[49] = a.clockAccuracy /\ b[52] = a.grandmasterPriority2
       /\ b[63] = a.timeSource
  BY <1>9, <1>11, <1>13, <1>15 DEF HasField
<1>23. msgUnpackAnnounce(b) = a
  BY <1>18, <1>19, <1>20, <1>21, <1>22 DEF msgUnpackAnnounce, Announcement
<1> QED BY <1>15, <1>16, <1>17, <1>23

-----------------------------------------------------------------------------
(* The port's buffer                                                       *)

IInv == TypeOK /\ HeaderStays /\ CorrectionWasReceived

(* The header can be packed again over any message.                        *)
LEMMA HeaderPacked ==
  ASSUME PortAssumption, NEW buf \in Buffer, buf[7] = 0,
         buf[6] \in {0, IF twoStepFlag THEN TWO_STEP_FLAG ELSE 0}
  PROVE  /\ msgPackHeader(buf) \in Buffer
         /\ KeepsHeader(msgPackHeader(buf))
         /\ Get(msgPackHeader(buf), 8, 8) = Zeros(8)
<1>1. PICK c : c = Put(buf, 8, Zeros(8))
  OBVIOUS
<1>2. HasField(buf, c, 8, 8, Zeros(8)) /\ c \in Buffer
  BY <1>1, ZeroOctets, MessageFields DEF HasField
<1>3. PICK i : i = Put(c, 20, portIdentity)
  OBVIOUS
<1>4. HasField(c, i, 20, 10, portIdentity) /\ i \in Buffer
  <2>1. portIdentity \in Octets(10)
    BY DEF PortAssumption
  <2>2. HasField(c, i, 20, 10, portIdentity)
    BY <1>2, <1>3, <2>1, MessageFields
  <2> QED BY <2>2 DEF HasField
<1>5. PICK b : b = msgPackHeader(buf)
  OBVIOUS
<1>6. b = [i EXCEPT ![0] = 128, ![1] = versionNumber, ![4] = domainNumber,
                    ![6] = IF twoStepFlag THEN TWO_STEP_FLAG ELSE @, ![33] = 127]
  BY <1>1, <1>3, <1>5 DEF msgPackHeader
<1>7. i \in [0 .. 299 -> Octet]
  BY <1>4, BufferOctets
<1>8. /\ {0, 127, 128, versionNumber, domainNumber, TWO_STEP_FLAG} \subseteq Octet
  BY DEF Octet, PortAssumption, TWO_STEP_FLAG
<1>9. i[6] = buf[6] /\ i[7] = 0
  BY <1>2, <1>4 DEF HasField
<1>10. /\ b[0] = 128 /\ b[1] = versionNumber /\ b[4] = domainNumber
       /\ b[6] = (IF twoStepFlag THEN TWO_STEP_FLAG ELSE i[6])
       /\ \A k \in 0 .. 299 : k \notin {0, 1, 4, 6, 33} => b[k] = i[k]
  BY <1>6, <1>7
<1>11. b \in Buffer
  <2>1. (IF twoStepFlag THEN TWO_STEP_FLAG ELSE i[6]) \in Octet
    BY <1>7, <1>8
  <2>2. b \in [0 .. 299 -> Octet]
    BY <1>6, <1>7, <1>8, <2>1
  <2> QED BY <2>2, BufferOctets
<1>12. Get(b, 8, 8) = Zeros(8)
  BY <1>2, <1>4, <1>10 DEF HasField, Get
<1>13. Get(b, 20, 10) = portIdentity
  BY <1>4, <1>10 DEF HasField, Get
<1>14. b[6] = IF twoStepFlag THEN TWO_STEP_FLAG ELSE 0
  BY <1>9, <1>10
<1>15. b[7] = 0 /\ b[0] \div 16 = 8
  BY <1>9, <1>10
<1>16. KeepsHeader(b)
  BY <1>10, <1>13, <1>14, <1>15, Zenon DEF KeepsHeader
<1> QED BY <1>5, <1>11, <1>12, <1>16

LEMMA BufferStep ==
  ASSUME PortAssumption, IInv, [Next]_msgObuf
  PROVE  IInv'
<1> USE PortAssumption
<1>1. msgObuf \in Buffer /\ KeepsHeader(msgObuf)
  BY DEF IInv, TypeOK, HeaderStays
<1>2. Get(msgObuf, 8, 8) \in CorrectionFields \cup {Zeros(8)}
  BY DEF IInv, CorrectionWasReceived
<1>3. SUFFICES /\ msgObuf' \in Buffer /\ KeepsHeader(msgObuf')
               /\ Get(msgObuf', 8, 8) \in CorrectionFields \cup {Zeros(8)}
  BY DEF IInv, TypeOK, HeaderStays, CorrectionWasReceived
<1>4. ASSUME NEW b, NEW type, NEW length, NEW n, NEW control, NEW interval, NEW correction,
             Arrived(b, type, length, n, control, interval, correction)
      PROVE  KeepsHeader(b) /\ Get(b, 8, 8) = correction
  BY <1>4 DEF Arrived, msgUnpackHeader, HeaderOf
<1>5. CASE doInit
  BY <1>1, <1>5, HeaderPacked DEF doInit, KeepsHeader
<1>6. ASSUME NEW n \in Octets(2), NEW interval \in Octet, NEW t \in Octets(10),
             \/ issueSync(n, interval, t) \/ issueFollowup(n, interval, t)
             \/ issueDelayReq(n, t)       \/ issuePDelayReq(n, t)
      PROVE  /\ msgObuf' \in Buffer /\ KeepsHeader(msgObuf')
             /\ Get(msgObuf', 8, 8) \in CorrectionFields \cup {Zeros(8)}
  BY <1>1, <1>2, <1>4, <1>6, TimestampMessages
     DEF issueSync, issueFollowup, issueDelayReq, issuePDelayReq, Stamped
<1>7. ASSUME NEW r \in Request, NEW interval \in Octet, NEW t \in Octets(10),
             \/ issueDelayResp(r, interval, t)
             \/ issuePDelayResp(r, t) \/ issuePDelayRespFollowUp(r, t)
      PROVE  /\ msgObuf' \in Buffer /\ KeepsHeader(msgObuf')
             /\ Get(msgObuf', 8, 8) \in CorrectionFields \cup {Zeros(8)}
  <2>1. r.correctionfield \in CorrectionFields
    BY DEF Request
  <2> QED BY <1>1, <1>4, <1>7, <2>1, AnswerMessages
          DEF issueDelayResp, issuePDelayResp, issuePDelayRespFollowUp, Answered
<1>8. ASSUME NEW interval \in Octet, NEW n \in Octets(2), NEW a \in Announcement,
             issueAnnounce(n, interval, a)
      PROVE  /\ msgObuf' \in Buffer /\ KeepsHeader(msgObuf')
             /\ Get(msgObuf', 8, 8) \in CorrectionFields \cup {Zeros(8)}
  BY <1>1, <1>2, <1>4, <1>8, AnnounceMessage DEF issueAnnounce
<1>9. CASE UNCHANGED msgObuf
  BY <1>1, <1>2, <1>9
<1> QED BY <1>5, <1>6, <1>7, <1>8, <1>9 DEF Next

(* Every message that a port sends is of the version and the domain it was *)
(* initialised with and says whose it is, and its correction is none or    *)
(* one that came with a request: nothing that is packed into the buffer    *)
(* disturbs what it does not mean to change.                               *)
THEOREM BufferCorrect ==
  ASSUME PortAssumption
  PROVE  Spec => [](TypeOK /\ HeaderStays /\ CorrectionWasReceived)
<1>1. Init => IInv
  <2> SUFFICES ASSUME Init PROVE IInv
    OBVIOUS
  <2>1. Zeros(300) \in Buffer
    BY ZeroOctets DEF Buffer, PACKET_SIZE
  <2>2. Zeros(300)[6] = 0 /\ Zeros(300)[7] = 0
    BY DEF Zeros
  <2> QED BY <2>1, <2>2, HeaderPacked
          DEF Init, IInv, TypeOK, HeaderStays, CorrectionWasReceived, PACKET_SIZE
<1>2. IInv /\ [Next]_msgObuf => IInv'
  BY BufferStep
<1>3. IInv => TypeOK /\ HeaderStays /\ CorrectionWasReceived
  BY DEF IInv
<1> QED BY <1>1, <1>2, <1>3, PTL DEF Spec

(* Sync, FollowUp, DelayReq and PDelayReq are unpacked to what was packed, *)
(* whichever messages the buffer held before.                              *)
THEOREM TimestampsArrive ==
  ASSUME PortAssumption
  PROVE  Spec => TimestampArrives
<1>1. TypeOK /\ HeaderStays => StampedStep
  BY TimestampMessages
     DEF StampedStep, issueSync, issueFollowup, issueDelayReq, issuePDelayReq,
         msgUnpackSync, msgUnpackFollowUp, msgUnpackDelayReq, msgUnpackPDelayReq,
         TypeOK, HeaderStays, Stamped, Arrived
<1> QED BY <1>1, BufferCorrect, PTL DEF TimestampArrives

(* DelayResp, PDelayResp and PDelayRespFollowUp arrive with the number and *)
(* the identity of the request they answer.                                *)
THEOREM AnswersArrive ==
  ASSUME PortAssumption
  PROVE  Spec => AnswerArrives
<1>1. TypeOK /\ HeaderStays => AnsweredStep
  BY AnswerMessages
     DEF AnsweredStep, issueDelayResp, issuePDelayResp, issuePDelayRespFollowUp,
         msgUnpackDelayResp, msgUnpackPDelayResp, msgUnpackPDelayRespFollowUp,
         TypeOK, HeaderStays, Answered, Arrived
<1> QED BY <1>1, BufferCorrect, PTL DEF AnswerArrives

(* An Announce arrives with all of the data that is compared of it, though *)
(* its packing leaves an octet of the buffer as the message before did.    *)
THEOREM AnnouncementsArrive ==
  ASSUME PortAssumption
  PROVE  Spec => AnnouncementArrives
<1>1. TypeOK /\ HeaderStays => AnnouncedStep
  BY AnnounceMessage DEF AnnouncedStep, issueAnnounce, TypeOK, HeaderStays, Arrived
<1> QED BY <1>1, BufferCorrect, PTL DEF AnnouncementArrives
=============================================================================
