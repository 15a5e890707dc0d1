----------------------------- MODULE BestMaster -----------------------------
(***************************************************************************)
(* The pure part of bmc.cc: the comparison of two data sets, the data sets *)
(* a port adopts when it becomes master (m1) or follows a master (s1), and *)
(* the clock's own data set D0 (copyD0).                                   *)
(*                                                                         *)
(* An Announce is the header and body that addForeign unpacks, reduced to  *)
(* what the algorithm reads: the sending port `src' and the grandmaster    *)
(* the sender follows.  Clock identities are numbers ordered as memcmp     *)
(* orders the eight octets; 0 is the all-zero identity no clock has.       *)
(***************************************************************************)
EXTENDS Integers

CONSTANTS
  OwnId,        \* clockIdentity, from the interface's MAC address
  Priority1,    \* rtOpts->priority1            (-p)
  Accuracy,     \* rtOpts->clockQuality.clockAccuracy            (-r)
  Variance,     \* rtOpts->clockQuality.offsetScaledLogVariance  (-v)
  Priority2     \* rtOpts->priority2            (-q)

ASSUME OwnIdAssumption == OwnId \in Nat \ {0}
ASSUME OwnQualityAssumption ==
  Priority1 \in Nat /\ Accuracy \in Nat /\ Variance \in Nat /\ Priority2 \in Nat

UInt16 == 65536

PortIdentity == [id : Nat, port : Nat]

Announce == [src : PortIdentity, gm : Nat, p1 : Nat, class : Nat, acc : Nat,
             var : Nat, p2 : Nat, steps : Nat]

(* Current and parent data set of PtpClock, the fields m1 and s1 write     *)
DataSet == [parent : PortIdentity, gm : Nat, p1 : Nat, class : Nat,
            acc : Nat, var : Nat, p2 : Nat, steps : Nat]

(* What calloc leaves in a foreign master record nobody has written        *)
ZeroRecord == [src |-> [id |-> 0, port |-> 0], gm |-> 0, p1 |-> 0,
               class |-> 0, acc |-> 0, var |-> 0, p2 |-> 0, steps |-> 0]

ZeroDataSet == [parent |-> [id |-> 0, port |-> 0], gm |-> 0, p1 |-> 0,
                class |-> 0, acc |-> 0, var |-> 0, p2 |-> 0, steps |-> 0]

Sign(x, y) == IF x < y THEN -1 ELSE IF x > y THEN 1 ELSE 0

-----------------------------------------------------------------------------
(* Mutant: only the first sender is compared with the parent *)
CompareSameGrandmaster_oneSided(a, b, parent) ==
  LET apart == IF a.steps > b.steps THEN a.steps - b.steps
                                    ELSE b.steps - a.steps
  IN  IF apart = 0 THEN Sign(a.src.id, b.src.id)
      ELSE IF apart = 1 /\ a.src.id = parent.id THEN 0
      ELSE Sign(a.steps, b.steps)

(* Mutant: however much farther the parent is *)
CompareSameGrandmaster_anyFarther(a, b, parent) ==
  LET farther == IF a.steps > b.steps THEN a ELSE b
  IN  IF a.steps = b.steps THEN Sign(a.src.id, b.src.id)
      ELSE IF farther.src.id = parent.id THEN 0
      ELSE Sign(a.steps, b.steps)

(* Both data sets name the same grandmaster (figure 28): the shorter path  *)
(* wins, the sender's identity breaks a tie.  One step apart is "no        *)
(* decision" when the farther one was sent by the current parent.          *)
CompareSameGrandmaster(a, b, parent) ==
  LET farther == IF a.steps > b.steps THEN a ELSE b
      apart   == farther.steps - (IF a.steps > b.steps THEN b ELSE a).steps
  IN  IF apart = 0 THEN Sign(a.src.id, b.src.id)
      ELSE IF apart = 1 /\ farther.src.id = parent.id THEN 0
      ELSE Sign(a.steps, b.steps)

(* Mutant: accuracy before class *)
CompareGrandmasters_accuracyFirst(a, b) ==
  IF a.p1 # b.p1 THEN Sign(a.p1, b.p1)
  ELSE IF a.acc # b.acc THEN Sign(a.acc, b.acc)
  ELSE IF a.class # b.class THEN Sign(a.class, b.class)
  ELSE IF a.var # b.var THEN Sign(a.class, b.class)
  ELSE IF a.p2 # b.p2 THEN Sign(a.p2, b.p2)
  ELSE Sign(a.gm, b.gm)

(* Different grandmasters (figure 27): the first field that differs        *)
(* decides; for the variance the code then compares the class, which is    *)
(* equal at that point.                                                    *)
CompareGrandmasters(a, b) ==
  IF a.p1 # b.p1 THEN Sign(a.p1, b.p1)
  ELSE IF a.class # b.class THEN Sign(a.class, b.class)
  ELSE IF a.acc # b.acc THEN Sign(a.acc, b.acc)
  ELSE IF a.var # b.var THEN Sign(a.class, b.class)
  ELSE IF a.p2 # b.p2 THEN Sign(a.p2, b.p2)
  ELSE Sign(a.gm, b.gm)

(* Negative when a is the better master, as memcmp                         *)
bmcDataSetComparison(a, b, parent) ==
  IF a.gm = b.gm THEN CompareSameGrandmaster(a, b, parent)
                 ELSE CompareGrandmasters(a, b)

-----------------------------------------------------------------------------
(* What the comparison is to compute, from the standard's figure 27: a     *)
(* grandmaster ranks by the first field that differs.                      *)
Ranks(a) == <<a.p1, a.class, a.acc, a.var, a.p2, a.gm>>

Before(x, y) ==
  \E k \in DOMAIN x : x[k] < y[k] /\ \A l \in 1 .. k - 1 : x[l] = y[l]

(* The clocks of the records S describe each grandmaster alike, and no two *)
(* differ in variance, which the comparison leaves undecided.              *)
Agree(S) ==
  \A a, b \in S : a.var = b.var /\ (a.gm = b.gm => Ranks(a) = Ranks(b))

-----------------------------------------------------------------------------
(* D0: the local clock as if it were a foreign master.  clockClass is a    *)
(* parameter because initData changes it between two initialisations.      *)
copyD0(clockClass) ==
  [src |-> [id |-> OwnId, port |-> 1], gm |-> OwnId, p1 |-> Priority1,
   class |-> clockClass, acc |-> Accuracy, var |-> Variance,
   p2 |-> Priority2, steps |-> 0]

(* The port becomes master: its own clock is parent and grandmaster, and   *)
(* port number 0 marks that the parent is no port at all.                  *)
m1(clockClass) ==
  [parent |-> [id |-> OwnId, port |-> 0], gm |-> OwnId, p1 |-> Priority1,
   class |-> clockClass, acc |-> Accuracy, var |-> Variance,
   p2 |-> Priority2, steps |-> 0]

(* The port follows the sender of announce (stepsRemoved is a UInteger16)  *)
s1(announce) ==
  [parent |-> announce.src, gm |-> announce.gm, p1 |-> announce.p1,
   class |-> announce.class, acc |-> announce.acc, var |-> announce.var,
   p2 |-> announce.p2, steps |-> (announce.steps + 1) % UInt16]
=============================================================================
