-------------------------- MODULE ForeignScanProofs --------------------------
(***************************************************************************)
(* The scan of a table of any size, and the elections on it: the best of   *)
(* the table if the parent is not in it, and if it is, the best            *)
(* grandmaster and a choice that is stable in the end.                     *)
(***************************************************************************)
EXTENDS ForeignScan, BestMasterProofs

LEMMA ScanTypeInit == ScanInit => TypeOKScan
BY ScanAssumption DEF ScanInit, TypeOKScan

LEMMA ScanTypeNext == TypeOKScan /\ [ScanNext]_scanVars => TypeOKScan'
<1> SUFFICES ASSUME TypeOKScan, [ScanNext]_scanVars
             PROVE  TypeOKScan'
  OBVIOUS
<1>1. CASE Compare
  BY <1>1, ScanAssumption DEF TypeOKScan, Compare, Tables
<1>2. CASE Adopt
  <2>1. best \in 0 .. N - 1
    BY <1>2 DEF Adopt, TypeOKScan
  <2>2. parent' \in {foreign'[k].src : k \in 0 .. N - 1}
    BY <1>2, <2>1 DEF Adopt, s1
  <2> QED BY <1>2, <2>2, ScanAssumption DEF TypeOKScan, Adopt, Tables
<1>3. CASE UNCHANGED scanVars
  BY <1>3 DEF TypeOKScan, scanVars, Tables
<1> QED BY <1>1, <1>2, <1>3 DEF ScanNext

(* Whatever the table holds and whoever the parent is, the comparison bmc  *)
(* and bmcStateDecision rely on is antisymmetric.                          *)
THEOREM ScanAntisymmetric == ScanSpec => []ComparisonIsAntisymmetric
<1>1. TypeOKScan => ComparisonIsAntisymmetric
  <2> SUFFICES ASSUME TypeOKScan, NEW j \in 0 .. N - 1, NEW k \in 0 .. N - 1
               PROVE  bmcDataSetComparison(foreign[j], foreign[k], parent)
                        = - bmcDataSetComparison(foreign[k], foreign[j], parent)
    BY DEF ComparisonIsAntisymmetric
  <2>1. foreign[j] \in Announce /\ foreign[k] \in Announce
    BY ScanAssumption DEF TypeOKScan, Tables
  <2> QED BY <2>1, Antisymmetry
<1> QED BY <1>1, ScanTypeInit, ScanTypeNext, PTL DEF ScanSpec

(* The scan is type correct: its indices stay within the table *)
THEOREM ScanTypeCorrect == ScanSpec => []TypeOKScan
BY ScanTypeInit, ScanTypeNext, PTL DEF ScanSpec

-----------------------------------------------------------------------------
(* One pass finds a best record *)

(* The order by fields, one after the other *)
LEMMA BeforePairs ==
  ASSUME NEW a \in Nat, NEW b \in Nat, NEW c \in Nat, NEW d \in Nat
  PROVE  Before(<<a, b>>, <<c, d>>) <=> a < c \/ (a = c /\ b < d)
<1> DEFINE x == <<a, b>>
           y == <<c, d>>
<1>1. DOMAIN x = {1, 2} /\ x[1] = a /\ x[2] = b /\ y[1] = c /\ y[2] = d
  OBVIOUS
<1>2. Before(x, y) <=> x[1] < y[1] \/ (x[2] < y[2] /\ x[1] = y[1])
  <2>1. 1 .. 1 - 1 = {} /\ 1 .. 2 - 1 = {1}
    OBVIOUS
  <2> HIDE DEF x, y
  <2> QED BY <1>1, <2>1 DEF Before
<1> QED BY <1>1, <1>2

(* Without the parent among the senders and with one variance, the sign of *)
(* the comparison is the order.                                            *)
LEMMA ComparisonIsOrder ==
  ASSUME NEW a \in Announce, NEW b \in Announce, NEW p,
         a.var = b.var, a.src.id # p.id, b.src.id # p.id
  PROVE  bmcDataSetComparison(a, b, p) < 0 <=> Better(a, b)
<1>1. a.src.id \in Nat /\ b.src.id \in Nat /\ a.steps \in Nat /\ b.steps \in Nat
  BY DEF Announce, PortIdentity
<1>2. CASE a.gm = b.gm
  <2>1. Better(a, b) <=>
          a.steps < b.steps \/ (a.steps = b.steps /\ a.src.id < b.src.id)
    BY <1>1, <1>2, BeforePairs DEF Better
  <2> QED BY <1>1, <1>2, <2>1
          DEF bmcDataSetComparison, CompareSameGrandmaster, Sign
<1>3. CASE a.gm # b.gm
  BY <1>3, BeforeRanks
     DEF Better, Precedes, bmcDataSetComparison, CompareGrandmasters, Sign, Announce
<1> QED BY <1>2, <1>3

(* What the last best was not worse than, the new best is not worse than *)
LEMMA NewBestSuffices ==
  ASSUME Agree(Records),
         NEW k \in Records, NEW b \in Records, NEW n \in Records,
         ~Better(k, b), Better(n, b)
  PROVE  ~Better(k, n)
<1>1. k \in Announce /\ b \in Announce /\ n \in Announce
  BY ScanAssumption
<1>2. /\ k.src.id \in Nat /\ b.src.id \in Nat /\ n.src.id \in Nat
      /\ k.steps \in Nat /\ b.steps \in Nat /\ n.steps \in Nat
  BY <1>1 DEF Announce, PortIdentity
<1>3. k.var = b.var /\ b.var = n.var
  BY DEF Agree
<1> DEFINE Nearer(x, y) ==
             x.steps < y.steps \/ (x.steps = y.steps /\ x.src.id < y.src.id)
<1>4. /\ Better(k, b) <=> IF k.gm = b.gm THEN Nearer(k, b) ELSE Precedes(k, b)
      /\ Better(n, b) <=> IF n.gm = b.gm THEN Nearer(n, b) ELSE Precedes(n, b)
      /\ Better(k, n) <=> IF k.gm = n.gm THEN Nearer(k, n) ELSE Precedes(k, n)
  BY <1>1, <1>2, BeforePairs, BeforeRanks DEF Better
<1>5. /\ k.gm = b.gm => k.p1 = b.p1 /\ k.class = b.class /\ k.acc = b.acc /\ k.p2 = b.p2
      /\ n.gm = b.gm => n.p1 = b.p1 /\ n.class = b.class /\ n.acc = b.acc /\ n.p2 = b.p2
      /\ k.gm = n.gm => k.p1 = n.p1 /\ k.class = n.class /\ k.acc = n.acc /\ k.p2 = n.p2
  BY SameData
<1>6. \A r \in {k, b, n} :
        /\ r.p1 \in Nat /\ r.class \in Nat /\ r.acc \in Nat
        /\ r.var \in Nat /\ r.p2 \in Nat /\ r.gm \in Nat
  BY <1>1 DEF Announce
<1>7. CASE k.gm = b.gm /\ n.gm = b.gm
  BY <1>2, <1>4, <1>7
<1>8. CASE k.gm = b.gm /\ n.gm # b.gm
  <2>1. Precedes(n, b)
    BY <1>4, <1>8
  <2>2. Precedes(n, k)
    BY <1>3, <1>5, <1>8, <2>1 DEF Precedes
  <2>3. ~Precedes(k, n)
    BY <1>6, <2>2 DEF Precedes
  <2> QED BY <1>4, <1>8, <2>3
<1>9. CASE k.gm # b.gm /\ n.gm = b.gm
  BY <1>3, <1>4, <1>5, <1>6, <1>9 DEF Precedes
<1>10. CASE k.gm # b.gm /\ k.gm = n.gm
  BY <1>3, <1>4, <1>5, <1>6, <1>10 DEF Precedes
<1>11. CASE k.gm # b.gm /\ n.gm # b.gm /\ k.gm # n.gm
  BY <1>3, <1>4, <1>6, <1>11 DEF Precedes
<1> QED BY <1>7, <1>8, <1>9, <1>10, <1>11

LEMMA NotBetterThanItself ==
  ASSUME NEW a \in Announce PROVE ~Better(a, a)
<1>1. a.src.id \in Nat /\ a.steps \in Nat
  BY DEF Announce, PortIdentity
<1> QED BY <1>1, BeforePairs DEF Better

(* What the scan has found when it has come to the i-th record *)
BestSoFar ==
  (\A k \in 0 .. N - 1 : foreign[k].src.id # parent.id)
    => \A k \in 0 .. i - 1 : ~Better(foreign[k], foreign[best])

LEMMA BestSoFarNext ==
  ASSUME Agree(Records), TypeOKScan, BestSoFar, [ScanNext]_scanVars
  PROVE  BestSoFar'
<1>1. CASE UNCHANGED scanVars
  BY <1>1 DEF scanVars, BestSoFar
<1>2. CASE Compare
  <2> SUFFICES ASSUME \A k \in 0 .. N - 1 : foreign[k].src.id # parent.id,
                      NEW j \in 0 .. i
               PROVE  ~Better(foreign[j], foreign[best'])
    <3>1. foreign' = foreign /\ parent' = parent /\ i' - 1 = i
      BY <1>2 DEF Compare, TypeOKScan
    <3> QED BY <3>1 DEF BestSoFar
  <2>1. /\ i \in 0 .. N - 1 /\ best \in 0 .. N - 1 /\ i - 1 \in 0 .. N - 1
        /\ \A k \in 0 .. i - 1 : ~Better(foreign[k], foreign[best])
    BY <1>2, ScanAssumption DEF TypeOKScan, Compare, BestSoFar
  <2>2. \A k \in 0 .. N - 1 : foreign[k] \in Records /\ foreign[k] \in Announce
    BY ScanAssumption DEF TypeOKScan, Tables
  <2>3. foreign[i].var = foreign[best].var
    BY <2>1, <2>2 DEF Agree
  <2>4. bmcDataSetComparison(foreign[i], foreign[best], parent) < 0
          <=> Better(foreign[i], foreign[best])
    BY <2>1, <2>2, <2>3, ComparisonIsOrder
  <2>5. CASE Better(foreign[i], foreign[best])
    <3>1. best' = i
      BY <1>2, <2>4, <2>5 DEF Compare
    <3>2. CASE j = i
      BY <2>1, <2>2, <3>1, <3>2, NotBetterThanItself
    <3>3. CASE j # i
      <4>1. j \in 0 .. i - 1 /\ j \in 0 .. N - 1
        BY <2>1, <3>3, ScanAssumption
      <4>2. ~Better(foreign[j], foreign[best])
        BY <2>1, <4>1
      <4> QED BY <2>1, <2>2, <2>5, <3>1, <4>1, <4>2, NewBestSuffices
    <3> QED BY <3>2, <3>3
  <2>6. CASE ~Better(foreign[i], foreign[best])
    <3>1. best' = best
      BY <1>2, <2>4, <2>6 DEF Compare
    <3>2. j = i \/ j \in 0 .. i - 1
      BY <2>1
    <3> QED BY <2>1, <2>6, <3>1, <3>2
  <2> QED BY <2>5, <2>6
<1>3. CASE Adopt
  <2>1. best \in 0 .. N - 1 /\ foreign' = foreign /\ parent' = foreign[best].src
    BY <1>3 DEF Adopt, TypeOKScan, s1
  <2> QED BY <2>1 DEF BestSoFar
<1> QED BY <1>1, <1>2, <1>3 DEF ScanNext

(* For any table of any size: if the senders agree about the grandmasters  *)
(* they follow and the variances are equal, the single pass of bmc ends    *)
(* with a record none is better than, whatever the order of arrival.       *)
THEOREM OnePassSuffices ==
  ASSUME Agree(Records)
  PROVE  ScanSpec => []ScanFindsBest
<1>1. ScanInit => BestSoFar
  <2> SUFFICES ASSUME ScanInit, NEW k \in 0 .. i - 1
               PROVE  ~Better(foreign[k], foreign[best])
    BY DEF BestSoFar
  <2>1. k = 0 /\ best = 0 /\ foreign[0] \in Announce
    <3>1. k \in 0 .. 0 /\ 0 \in 0 .. N - 1
      BY ScanAssumption DEF ScanInit
    <3> QED BY <3>1, ScanAssumption DEF ScanInit, Tables
  <2> QED BY <2>1, NotBetterThanItself
<1>2. TypeOKScan /\ BestSoFar /\ [ScanNext]_scanVars => BestSoFar'
  BY BestSoFarNext
<1>3. BestSoFar => ScanFindsBest
  BY DEF BestSoFar, ScanFindsBest
<1> QED BY <1>1, <1>2, <1>3, ScanTypeInit, ScanTypeNext, PTL DEF ScanSpec
-----------------------------------------------------------------------------
(* With the parent among the senders *)

Nearer(a, b) ==
  a.steps < b.steps \/ (a.steps = b.steps /\ a.src.id < b.src.id)

LEMMA BetterMeans ==
  ASSUME NEW a \in Announce, NEW b \in Announce
  PROVE  Better(a, b) <=> IF a.gm = b.gm THEN Nearer(a, b) ELSE Precedes(a, b)
<1>1. a.src.id \in Nat /\ b.src.id \in Nat /\ a.steps \in Nat /\ b.steps \in Nat
  BY DEF Announce, PortIdentity
<1> QED BY <1>1, BeforePairs, BeforeRanks DEF Better, Nearer

(* b is one step farther from the grandmaster than a *)
OneFarther(a, b) == a.gm = b.gm /\ b.steps = a.steps + 1

(* The record of the parent holds its own against a better one if that is  *)
(* only one step nearer; in every other case the better one wins.          *)
LEMMA WinsIfBetter ==
  ASSUME NEW a \in Announce, NEW b \in Announce, NEW p, a.var = b.var
  PROVE  bmcDataSetComparison(a, b, p) < 0
           <=> Better(a, b) /\ ~(OneFarther(a, b) /\ b.src.id = p.id)
<1>1. a.src.id \in Nat /\ b.src.id \in Nat /\ a.steps \in Nat /\ b.steps \in Nat
  BY DEF Announce, PortIdentity
<1>2. CASE a.gm = b.gm
  <2>1. Better(a, b) <=> Nearer(a, b)
    BY <1>2, BetterMeans
  <2> QED BY <1>1, <1>2, <2>1
          DEF bmcDataSetComparison, CompareSameGrandmaster, Sign, Nearer, OneFarther
<1>3. CASE a.gm # b.gm
  <2>1. Better(a, b) <=> Precedes(a, b)
    BY <1>3, BetterMeans
  <2> QED BY <1>3, <2>1
          DEF Precedes, bmcDataSetComparison, CompareGrandmasters, Sign, Announce,
              OneFarther
<1> QED BY <1>2, <1>3

LEMMA OneIsBetter ==
  ASSUME NEW a \in Announce, NEW b \in Announce, a.src.id # b.src.id
  PROVE  Better(a, b) \/ Better(b, a)
<1>1. a.src.id \in Nat /\ b.src.id \in Nat /\ a.steps \in Nat /\ b.steps \in Nat
  BY DEF Announce, PortIdentity
<1>2. CASE a.gm = b.gm
  BY <1>1, <1>2, BetterMeans DEF Nearer
<1>3. CASE a.gm # b.gm
  BY <1>3, BetterMeans DEF Precedes, Announce
<1> QED BY <1>2, <1>3

(* Between two records of one grandmaster stand only records of its own *)
LEMMA SameGrandmasterBetween ==
  ASSUME Agree(Records),
         NEW a \in Records, NEW b \in Records, NEW c \in Records,
         Better(a, b), Better(b, c), a.gm = c.gm
  PROVE  b.gm = a.gm /\ b.steps <= c.steps
<1>1. a \in Announce /\ b \in Announce /\ c \in Announce
  BY ScanAssumption
<1>2. a.var = b.var /\ b.var = c.var
  BY DEF Agree
<1>3. a.p1 = c.p1 /\ a.class = c.class /\ a.acc = c.acc /\ a.p2 = c.p2
  BY SameData
<1>4. b.gm = a.gm
  <2> SUFFICES ASSUME b.gm # a.gm PROVE FALSE
    OBVIOUS
  <2>1. Precedes(a, b) /\ Precedes(b, c)
    BY <1>1, BetterMeans
  <2> QED BY <1>1, <1>2, <1>3, <2>1 DEF Precedes, Announce
<1>5. Nearer(b, c)
  BY <1>1, <1>4, BetterMeans
<1>6. b.steps \in Nat /\ c.steps \in Nat
  BY <1>1 DEF Announce
<1> QED BY <1>4, <1>5, <1>6 DEF Nearer

(* What is better than a better one is better *)
LEMMA BetterTransitive ==
  ASSUME Agree(Records),
         NEW a \in Records, NEW b \in Records, NEW c \in Records,
         Better(a, b), Better(b, c)
  PROVE  Better(a, c)
BY NewBestSuffices

(* Who is passed over for the best so far names the same grandmaster and   *)
(* is at most one step nearer to it.                                       *)
PassedOverByAStep ==
  \A k \in 0 .. i - 1 :
    Better(foreign[k], foreign[best])
      => /\ foreign[k].gm = foreign[best].gm
         /\ foreign[best].steps <= foreign[k].steps + 1

LEMMA AdoptStartsOver ==
  ASSUME TypeOKScan, Adopt
  PROVE  /\ foreign' = foreign /\ i' = 1 /\ best' = 0 /\ 0 .. i' - 1 = {0}
         /\ i = N /\ best \in 0 .. N - 1 /\ parent' = foreign[best].src
         /\ ~Better(foreign[0], foreign[0])
<1>1. 0 \in 0 .. N - 1 /\ foreign[0] \in Announce
  BY ScanAssumption DEF TypeOKScan, Tables
<1> QED BY <1>1, NotBetterThanItself DEF Adopt, TypeOKScan, s1

(* One comparison, with the sign explained *)
LEMMA CompareStep ==
  ASSUME Agree(Records), TypeOKScan, Compare
  PROVE  /\ foreign' = foreign /\ parent' = parent /\ i' - 1 = i
         /\ decisions' = decisions
         /\ i \in 1 .. N - 1 /\ best \in 0 .. i - 1 /\ best \in 0 .. N - 1
         /\ \A k \in 0 .. N - 1 : foreign[k] \in Records /\ foreign[k] \in Announce
         /\ \A k \in 0 .. i : k = i \/ k \in 0 .. i - 1
         /\ \/ /\ best' = i /\ Better(foreign[i], foreign[best])
               /\ ~(/\ OneFarther(foreign[i], foreign[best])
                    /\ foreign[best].src.id = parent.id)
            \/ /\ best' = best
               /\ \/ ~Better(foreign[i], foreign[best])
                  \/ /\ OneFarther(foreign[i], foreign[best])
                     /\ foreign[best].src.id = parent.id
<1>1. /\ i \in 1 .. N - 1 /\ best \in 0 .. i - 1 /\ best \in 0 .. N - 1
      /\ i \in 0 .. N - 1
  BY ScanAssumption DEF TypeOKScan, Compare
<1>2. \A k \in 0 .. N - 1 : foreign[k] \in Records /\ foreign[k] \in Announce
  BY ScanAssumption DEF TypeOKScan, Tables
<1>3. foreign[i].var = foreign[best].var
  BY <1>1, <1>2 DEF Agree
<1>4. bmcDataSetComparison(foreign[i], foreign[best], parent) < 0
        <=> /\ Better(foreign[i], foreign[best])
            /\ ~(/\ OneFarther(foreign[i], foreign[best])
                 /\ foreign[best].src.id = parent.id)
  BY <1>1, <1>2, <1>3, WinsIfBetter
<1>5. i' - 1 = i /\ \A k \in 0 .. i : k = i \/ k \in 0 .. i - 1
  BY <1>1 DEF Compare
<1> QED BY <1>1, <1>2, <1>4, <1>5 DEF Compare

LEMMA PassedOverNext ==
  ASSUME Agree(Records), TypeOKScan, PassedOverByAStep, [ScanNext]_scanVars
  PROVE  PassedOverByAStep'
<1>1. CASE UNCHANGED scanVars
  BY <1>1 DEF scanVars, PassedOverByAStep
<1>2. CASE Adopt
  BY <1>2, AdoptStartsOver DEF PassedOverByAStep
<1>3. CASE Compare
  <2> SUFFICES ASSUME NEW k \in 0 .. i,
                      Better(foreign[k], foreign[best'])
               PROVE  /\ foreign[k].gm = foreign[best'].gm
                      /\ foreign[best'].steps <= foreign[k].steps + 1
    BY <1>3, CompareStep DEF PassedOverByAStep
  <2>1. /\ i \in 0 .. N - 1 /\ best \in 0 .. N - 1 /\ k \in 0 .. N - 1
        /\ k = i \/ k \in 0 .. i - 1
    <3>1. i \in 1 .. N - 1 /\ best \in 0 .. N - 1
      BY <1>3, CompareStep
    <3> QED BY <3>1, ScanAssumption
  <2>2. /\ foreign[k] \in Records /\ foreign[i] \in Records /\ foreign[best] \in Records
        /\ foreign[i] \in Announce
        /\ foreign[k].steps \in Nat /\ foreign[i].steps \in Nat
        /\ foreign[best].steps \in Nat
    BY <1>3, <2>1, CompareStep DEF Announce
  <2>3. k \in 0 .. i - 1 /\ Better(foreign[k], foreign[best])
          => /\ foreign[k].gm = foreign[best].gm
             /\ foreign[best].steps <= foreign[k].steps + 1
    BY DEF PassedOverByAStep
  <2>4. CASE best' = i /\ Better(foreign[i], foreign[best])
    <3>1. k \in 0 .. i - 1
      BY <2>1, <2>2, <2>4, NotBetterThanItself
    <3>2. Better(foreign[k], foreign[best])
      BY <2>2, <2>4, BetterTransitive
    <3>3. foreign[i].gm = foreign[k].gm /\ foreign[i].steps <= foreign[best].steps
      BY <2>2, <2>3, <2>4, <3>1, <3>2, SameGrandmasterBetween
    <3> QED BY <2>2, <2>3, <2>4, <3>1, <3>2, <3>3
  <2>5. CASE best' = best
    <3>1. CASE k \in 0 .. i - 1
      BY <2>3, <2>5, <3>1
    <3>2. CASE k = i
      <4>1. OneFarther(foreign[k], foreign[best])
        BY <1>3, <2>5, <3>2, CompareStep, <2>1, <2>2, NotBetterThanItself
      <4> QED BY <2>2, <2>5, <4>1 DEF OneFarther
    <3> QED BY <2>1, <3>1, <3>2
  <2> QED BY <1>3, <2>4, <2>5, CompareStep
<1> QED BY <1>1, <1>2, <1>3 DEF ScanNext

(* Whoever the parent is and in whatever order the records were filed: the *)
(* election never ends with a grandmaster worse than one it has heard of,  *)
(* nor with a path more than one step longer than it need be.              *)
THEOREM ElectionNeverMissesGrandmaster ==
  ASSUME Agree(Records)
  PROVE  ScanSpec => []ElectsBestGrandmaster
<1>1. ScanInit => PassedOverByAStep
  <2> SUFFICES ASSUME ScanInit PROVE PassedOverByAStep
    OBVIOUS
  <2>1. 0 .. i - 1 = {0} /\ best = 0 /\ ~Better(foreign[0], foreign[0])
    BY ScanAssumption, NotBetterThanItself DEF ScanInit, Tables
  <2> QED BY <2>1 DEF PassedOverByAStep
<1>2. TypeOKScan /\ PassedOverByAStep /\ [ScanNext]_scanVars => PassedOverByAStep'
  BY PassedOverNext
<1>3. PassedOverByAStep => ElectsBestGrandmaster
  BY DEF PassedOverByAStep, ElectsBestGrandmaster
<1> QED BY <1>1, <1>2, <1>3, ScanTypeInit, ScanTypeNext, PTL DEF ScanSpec

-----------------------------------------------------------------------------
(* The election settles.  A table is an order of its slots, except for the *)
(* slot of the parent.                                                     *)

Beats(t, j, k) == Better(t[j], t[k])
SentBy(t, q, p) == t[q].src.id = p.id

(* None of the slots 0 .. n beats b *)
Tops(t, n, b) == \A k \in 0 .. n : ~Beats(t, k, b)

(* As the parent's slot, q keeps its place: what beats it comes later and  *)
(* by one step only ...                                                    *)
HoldsOut(t, q) ==
  \A k \in 0 .. N - 1 : Beats(t, k, q) => k > q /\ OneFarther(t[k], t[q])

(* ... or loses it to a slot the scan meets before it gets to q            *)
MeetsBetter(t, q) == \E k \in 0 .. q - 1 : Beats(t, k, q)

LEMMA TableOrder ==
  ASSUME Agree(Records), NEW t \in Tables, OneRecordPerClock(t), NEW p
  PROVE  /\ \A j \in 0 .. N - 1 : ~Beats(t, j, j)
         /\ \A j, k \in 0 .. N - 1 : j # k => Beats(t, j, k) \/ Beats(t, k, j)
         /\ \A j, k, n \in 0 .. N - 1 :
              ~Beats(t, j, k) /\ Beats(t, n, k) => ~Beats(t, j, n)
         /\ \A j, k \in 0 .. N - 1 : SentBy(t, j, p) /\ SentBy(t, k, p) => j = k
<1>1. \A j \in 0 .. N - 1 : t[j] \in Records /\ t[j] \in Announce
  BY ScanAssumption DEF Tables
<1>2. \A j, k \in 0 .. N - 1 : t[j].src.id = t[k].src.id => j = k
  BY DEF OneRecordPerClock
<1>3. \A j \in 0 .. N - 1 : ~Beats(t, j, j)
  BY <1>1, NotBetterThanItself DEF Beats
<1>4. ASSUME NEW j \in 0 .. N - 1, NEW k \in 0 .. N - 1, j # k
      PROVE  Beats(t, j, k) \/ Beats(t, k, j)
  BY <1>1, <1>2, <1>4, OneIsBetter DEF Beats
<1>5. ASSUME NEW j \in 0 .. N - 1, NEW k \in 0 .. N - 1, NEW n \in 0 .. N - 1,
             ~Beats(t, j, k), Beats(t, n, k)
      PROVE  ~Beats(t, j, n)
  BY <1>1, <1>5, NewBestSuffices DEF Beats
<1>6. \A j, k \in 0 .. N - 1 : SentBy(t, j, p) /\ SentBy(t, k, p) => j = k
  BY <1>2 DEF SentBy
<1> QED BY <1>3, <1>4, <1>5, <1>6

(* Where the scan of t stands with the slots 0 .. n behind it, b the best  *)
(* of them and p the parent.                                               *)
WithoutParent(t, p, n, b) ==
  (\A k \in 0 .. n : ~SentBy(t, k, p)) => Tops(t, n, b)

ParentStays(t, p, n, b) ==
  SentBy(t, b, p) =>
    \A k \in 0 .. n : Beats(t, k, b) => k > b /\ OneFarther(t[k], t[b])

OtherMetBetter(t, p, n, b) ==
  ~SentBy(t, b, p) => \A k \in 0 .. n : Beats(t, k, b) => k < b

ParentBeaten(t, p, n, b) ==
  \A q \in 0 .. N - 1 : SentBy(t, q, p) /\ MeetsBetter(t, q) => Tops(t, n, b)

ParentHoldsOut(t, p, n, b) ==
  \A q \in 0 .. N - 1 : SentBy(t, q, p) /\ HoldsOut(t, q) /\ q <= n => b = q

ScanPoint(t, p, n, b) ==
  /\ WithoutParent(t, p, n, b)
  /\ ParentStays(t, p, n, b)
  /\ OtherMetBetter(t, p, n, b)
  /\ ParentBeaten(t, p, n, b)
  /\ ParentHoldsOut(t, p, n, b)

LEMMA ScanPointStart ==
  ASSUME Agree(Records), NEW t \in Tables, OneRecordPerClock(t), NEW p
  PROVE  ScanPoint(t, p, 0, 0)
<1>1. \A k \in 0 .. 0 : k = 0 /\ k \in 0 .. N - 1
  BY ScanAssumption
<1>2. Tops(t, 0, 0)
  BY <1>1, TableOrder DEF Tops
<1>3. \A q \in 0 .. N - 1 : q <= 0 => q = 0
  BY ScanAssumption
<1> QED BY <1>2, <1>3
        DEF ScanPoint, WithoutParent, ParentStays, OtherMetBetter, ParentBeaten,
            ParentHoldsOut, Tops

LEMMA ScanPointStep ==
  ASSUME Agree(Records), NEW t \in Tables, OneRecordPerClock(t), NEW p,
         NEW n \in 1 .. N - 1, NEW b \in 0 .. n - 1, NEW c,
         ScanPoint(t, p, n - 1, b),
         \/ /\ c = n /\ Beats(t, n, b)
            /\ ~(OneFarther(t[n], t[b]) /\ SentBy(t, b, p))
         \/ /\ c = b
            /\ ~Beats(t, n, b) \/ (OneFarther(t[n], t[b]) /\ SentBy(t, b, p))
  PROVE  ScanPoint(t, p, n, c)
<1>1. /\ n \in Nat /\ b \in Nat /\ b < n /\ n # b
      /\ n \in 0 .. N - 1 /\ b \in 0 .. N - 1
      /\ \A k \in 0 .. n : k \in 0 .. N - 1 /\ (k = n \/ k \in 0 .. n - 1)
      /\ \A k \in 0 .. n - 1 : k \in 0 .. n /\ k \in 0 .. N - 1 /\ k < n
      /\ 0 .. n \subseteq Nat /\ n \in 0 .. n
  BY ScanAssumption
<1>2. /\ \A j \in 0 .. N - 1 : ~Beats(t, j, j)
      /\ \A j, k \in 0 .. N - 1 : j # k => Beats(t, j, k) \/ Beats(t, k, j)
      /\ \A j, k, m \in 0 .. N - 1 :
           ~Beats(t, j, k) /\ Beats(t, m, k) => ~Beats(t, j, m)
      /\ \A j, k \in 0 .. N - 1 : SentBy(t, j, p) /\ SentBy(t, k, p) => j = k
  BY TableOrder
<1>3. Tops(t, n - 1, b) /\ Beats(t, n, b) => Tops(t, n, n)
  BY <1>1, <1>2 DEF Tops
<1>4. Tops(t, n - 1, b) /\ ~Beats(t, n, b) => Tops(t, n, b)
  BY <1>1 DEF Tops
(* If b is not the parent's, the better of the two is the new best *)
<1>5. ~SentBy(t, b, p) => IF Beats(t, n, b) THEN c = n ELSE c = b
  OBVIOUS
<1>6. ~SentBy(t, b, p) /\ Tops(t, n - 1, b) => Tops(t, n, c)
  BY <1>3, <1>4, <1>5
<1>7. WithoutParent(t, p, n, c)
  <2> SUFFICES ASSUME \A k \in 0 .. n : ~SentBy(t, k, p) PROVE Tops(t, n, c)
    BY DEF WithoutParent
  <2>1. Tops(t, n - 1, b)
    BY <1>1 DEF ScanPoint, WithoutParent
  <2>2. ~SentBy(t, b, p)
    BY <1>1
  <2> QED BY <1>6, <2>1, <2>2
<1>8. ParentStays(t, p, n, c)
  <2> SUFFICES ASSUME SentBy(t, c, p), NEW k \in 0 .. n, Beats(t, k, c)
               PROVE  k > c /\ OneFarther(t[k], t[c])
    BY DEF ParentStays
  <2>1. CASE c = n /\ Beats(t, n, b)
    <3>1. \A j \in 0 .. n - 1 : ~SentBy(t, j, p)
      BY <1>1, <1>2, <2>1
    <3>2. Tops(t, n, n)
      BY <1>3, <2>1, <3>1 DEF ScanPoint, WithoutParent
    <3> QED BY <2>1, <3>2 DEF Tops
  <2>2. CASE c = b
    <3>1. CASE k = n
      BY <1>1, <2>2, <3>1
    <3>2. CASE k \in 0 .. n - 1
      BY <2>2, <3>2 DEF ScanPoint, ParentStays
    <3> QED BY <1>1, <3>1, <3>2
  <2> QED BY <2>1, <2>2
<1>9. OtherMetBetter(t, p, n, c)
  <2> SUFFICES ASSUME ~SentBy(t, c, p), NEW k \in 0 .. n, Beats(t, k, c)
               PROVE  k < c
    BY DEF OtherMetBetter
  <2>1. CASE c = n
    BY <1>1, <1>2, <2>1
  <2>2. CASE c = b
    <3>1. k \in 0 .. n - 1
      BY <1>1, <1>5, <2>2
    <3> QED BY <2>2, <3>1 DEF ScanPoint, OtherMetBetter
  <2> QED BY <2>1, <2>2
<1>10. ParentBeaten(t, p, n, c)
  <2> SUFFICES ASSUME NEW q \in 0 .. N - 1, SentBy(t, q, p),
                      NEW k \in 0 .. q - 1, Beats(t, k, q)
               PROVE  Tops(t, n, c)
    BY DEF ParentBeaten, MeetsBetter
  <2>1. Tops(t, n - 1, b)
    BY DEF ScanPoint, ParentBeaten, MeetsBetter
  <2>2. ~SentBy(t, b, p)
    <3> SUFFICES ASSUME b = q PROVE FALSE
      BY <1>1, <1>2
    <3>1. k \in 0 .. n - 1
      BY <1>1
    <3> QED BY <2>1, <3>1 DEF Tops
  <2> QED BY <1>6, <2>1, <2>2
<1>11. ParentHoldsOut(t, p, n, c)
  <2> SUFFICES ASSUME NEW q \in 0 .. N - 1, SentBy(t, q, p), HoldsOut(t, q), q <= n
               PROVE  c = q
    BY DEF ParentHoldsOut
  <2>1. CASE q = n
    <3>1. ~SentBy(t, b, p) /\ \A j \in 0 .. n - 1 : ~SentBy(t, j, p)
      BY <1>1, <1>2, <2>1
    <3>2. ~Beats(t, b, n)
      BY <1>1, <2>1 DEF HoldsOut
    <3>3. Beats(t, n, b)
      BY <1>1, <1>2, <3>2
    <3> QED BY <1>5, <2>1, <3>1, <3>3
  <2>2. CASE q # n
    <3>1. b = q
      <4>1. q <= n - 1
        BY <2>2, <1>1
      <4> QED BY <4>1 DEF ScanPoint, ParentHoldsOut
    <3>2. Beats(t, n, b) => OneFarther(t[n], t[b])
      BY <1>1, <3>1 DEF HoldsOut
    <3> QED BY <3>1, <3>2
  <2> QED BY <2>1, <2>2
<1> QED BY <1>7, <1>8, <1>9, <1>10, <1>11 DEF ScanPoint

(* A scan that ends with b makes a parent that holds out or meets a better *)
LEMMA ChoiceIsEither ==
  ASSUME NEW t \in Tables, NEW p, NEW b \in 0 .. N - 1, ScanPoint(t, p, N - 1, b)
  PROVE  HoldsOut(t, b) \/ MeetsBetter(t, b)
<1>1. CASE SentBy(t, b, p)
  BY <1>1 DEF ScanPoint, ParentStays, HoldsOut
<1>2. CASE ~SentBy(t, b, p)
  <2> SUFFICES ASSUME NEW k \in 0 .. N - 1, Beats(t, k, b)
               PROVE  MeetsBetter(t, b)
    BY DEF HoldsOut
  <2>1. k < b
    BY <1>2 DEF ScanPoint, OtherMetBetter
  <2>2. k \in 0 .. b - 1
    BY <2>1
  <2> QED BY <2>2 DEF MeetsBetter
<1> QED BY <1>1, <1>2

(* How far the election has settled: after the first decision the parent   *)
(* has one of the two kinds of slot, after the second it holds out.        *)
Settling ==
  OneRecordPerClock(foreign) =>
  /\ decisions = 1 =>
       \E q \in 0 .. N - 1 : /\ foreign[q].src = parent
                             /\ HoldsOut(foreign, q) \/ MeetsBetter(foreign, q)
  /\ decisions = 2 =>
       \E q \in 0 .. N - 1 : foreign[q].src = parent /\ HoldsOut(foreign, q)

Scanned ==
  OneRecordPerClock(foreign) => ScanPoint(foreign, parent, i - 1, best)

LEMMA ScannedNext ==
  ASSUME Agree(Records), TypeOKScan, Scanned, [ScanNext]_scanVars
  PROVE  Scanned'
<1>1. CASE UNCHANGED scanVars
  BY <1>1 DEF scanVars, Scanned, OneRecordPerClock
<1>2. CASE Compare
  <2>1. foreign \in Tables
    BY DEF TypeOKScan
  <2>2. ASSUME OneRecordPerClock(foreign)
        PROVE  ScanPoint(foreign, parent, i, best')
    <3>1. i \in 1 .. N - 1 /\ best \in 0 .. i - 1
      BY <1>2, CompareStep
    <3>2. \/ /\ best' = i /\ Beats(foreign, i, best)
             /\ ~(/\ OneFarther(foreign[i], foreign[best])
                  /\ SentBy(foreign, best, parent))
          \/ /\ best' = best
             /\ \/ ~Beats(foreign, i, best)
                \/ /\ OneFarther(foreign[i], foreign[best])
                   /\ SentBy(foreign, best, parent)
      BY <1>2, CompareStep DEF Beats, SentBy
    <3> QED BY <2>1, <2>2, <3>1, <3>2, ScanPointStep DEF Scanned
  <2>3. foreign' = foreign /\ parent' = parent /\ i' - 1 = i
    BY <1>2, CompareStep
  <2> QED BY <2>2, <2>3 DEF Scanned, OneRecordPerClock
<1>3. CASE Adopt
  <2>1. i' - 1 = 0 /\ best' = 0 /\ foreign' = foreign
    BY <1>3, AdoptStartsOver
  <2>2. foreign \in Tables
    BY DEF TypeOKScan
  <2>3. OneRecordPerClock(foreign') => ScanPoint(foreign', parent', 0, 0)
    BY <2>1, <2>2, ScanPointStart
  <2> QED BY <2>1, <2>3 DEF Scanned, OneRecordPerClock
<1> QED BY <1>1, <1>2, <1>3 DEF ScanNext

LEMMA SettlingNext ==
  ASSUME TypeOKScan, Scanned, Settling, [ScanNext]_scanVars
  PROVE  Settling'
<1> SUFFICES ASSUME OneRecordPerClock(foreign) PROVE Settling'
  <2>1. foreign' = foreign
    BY DEF ScanNext, Compare, Adopt, scanVars
  <2> QED BY <2>1 DEF Settling, OneRecordPerClock
<1>1. CASE UNCHANGED scanVars
  BY <1>1 DEF scanVars, Settling
<1>2. CASE Compare
  BY <1>2 DEF Compare, Settling
<1>3. CASE Adopt
  <2>1. /\ foreign' = foreign /\ i = N /\ best \in 0 .. N - 1
        /\ foreign[best].src = parent' /\ foreign \in Tables
    BY <1>3, AdoptStartsOver DEF TypeOKScan
  <2>2. ScanPoint(foreign, parent, N - 1, best)
    BY <2>1 DEF Scanned
  <2>3. HoldsOut(foreign, best) \/ MeetsBetter(foreign, best)
    BY <2>1, <2>2, ChoiceIsEither
  <2>4. ASSUME NEW q \in 0 .. N - 1, foreign[q].src = parent,
               HoldsOut(foreign, q) \/ MeetsBetter(foreign, q)
        PROVE  HoldsOut(foreign, best)
    <3>1. SentBy(foreign, q, parent)
      BY <2>4 DEF SentBy
    <3>2. CASE HoldsOut(foreign, q)
      <4>1. q <= N - 1
        BY ScanAssumption
      <4>2. best = q
        BY <2>2, <3>1, <3>2, <4>1 DEF ScanPoint, ParentHoldsOut
      <4> QED BY <3>2, <4>2
    <3>3. CASE MeetsBetter(foreign, q)
      <4>1. Tops(foreign, N - 1, best)
        BY <2>2, <3>1, <3>3 DEF ScanPoint, ParentBeaten
      <4> QED BY <4>1 DEF Tops, HoldsOut
    <3> QED BY <2>4, <3>2, <3>3
  <2>5. CASE decisions = 0
    <3>1. decisions' = 1
      BY <1>3, <2>5 DEF Adopt
    <3> QED BY <2>1, <2>3, <3>1 DEF Settling
  <2>6. CASE decisions \in {1, 2}
    <3>1. decisions' = 2
      BY <1>3, <2>6 DEF Adopt
    <3>2. HoldsOut(foreign, best)
      BY <2>4, <2>6 DEF Settling
    <3> QED BY <2>1, <3>1, <3>2 DEF Settling
  <2> QED BY <2>5, <2>6 DEF TypeOKScan
<1> QED BY <1>1, <1>2, <1>3 DEF ScanNext

(* Masters do not take turns: on a table of any size that no longer        *)
(* changes and has one record of each clock, the third decision and all    *)
(* after it choose the sender that is the parent already, whatever the     *)
(* order of arrival and whoever the parent was.                            *)
THEOREM ElectionIsStable ==
  ASSUME Agree(Records)
  PROVE  ScanSpec => []ElectionSettles
<1>1. ScanInit => Scanned /\ Settling
  <2> SUFFICES ASSUME ScanInit PROVE Scanned /\ Settling
    OBVIOUS
  <2>1. i - 1 = 0 /\ best = 0 /\ foreign \in Tables /\ decisions = 0
    BY DEF ScanInit
  <2> QED BY <2>1, ScanPointStart DEF Scanned, Settling
<1>2. TypeOKScan /\ Scanned /\ [ScanNext]_scanVars => Scanned'
  BY ScannedNext
<1>3. TypeOKScan /\ Scanned /\ Settling /\ [ScanNext]_scanVars => Settling'
  BY SettlingNext
<1>4. TypeOKScan /\ Scanned /\ Settling => ElectionSettles
  <2> SUFFICES ASSUME TypeOKScan, Scanned, Settling, i = N, decisions = 2,
                      OneRecordPerClock(foreign)
               PROVE  foreign[best].src = parent
    BY DEF ElectionSettles
  <2>1. PICK q \in 0 .. N - 1 : foreign[q].src = parent /\ HoldsOut(foreign, q)
    BY DEF Settling
  <2>2. ScanPoint(foreign, parent, N - 1, best) /\ q <= N - 1
    BY ScanAssumption DEF Scanned
  <2>3. best = q
    BY <2>1, <2>2 DEF ScanPoint, ParentHoldsOut, SentBy
  <2> QED BY <2>1, <2>3
<1> QED BY <1>1, <1>2, <1>3, <1>4, ScanTypeInit, ScanTypeNext, PTL DEF ScanSpec
=============================================================================
