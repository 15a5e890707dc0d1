--------------------------- MODULE BestMasterProofs ---------------------------
(* The comparison of two data sets, for every pair of them and any parent *)
EXTENDS BestMaster, TLAPS

LEMMA SignNegates == \A x, y \in Nat : Sign(x, y) = - Sign(y, x)
BY DEF Sign

(* Swapping the arguments negates the result, ties and "no decision" too *)
LEMMA Antisymmetry ==
  ASSUME NEW a \in Announce, NEW b \in Announce, NEW p
  PROVE  bmcDataSetComparison(a, b, p) = - bmcDataSetComparison(b, a, p)
<1>1. /\ a.src.id \in Nat /\ b.src.id \in Nat /\ a.steps \in Nat /\ b.steps \in Nat
      /\ a.p1 \in Nat /\ b.p1 \in Nat /\ a.class \in Nat /\ b.class \in Nat
      /\ a.acc \in Nat /\ b.acc \in Nat /\ a.p2 \in Nat /\ b.p2 \in Nat
      /\ a.gm \in Nat /\ b.gm \in Nat
  BY DEF Announce, PortIdentity
<1>2. CASE a.gm = b.gm
  <2>1. CompareSameGrandmaster(a, b, p) = - CompareSameGrandmaster(b, a, p)
    <3>1. CASE a.steps = b.steps
      BY <1>1, <3>1, SignNegates DEF CompareSameGrandmaster
    <3>2. CASE a.steps > b.steps
      BY <1>1, <3>2, SignNegates DEF CompareSameGrandmaster
    <3>3. CASE a.steps < b.steps
      BY <1>1, <3>3, SignNegates DEF CompareSameGrandmaster
    <3> QED BY <1>1, <3>1, <3>2, <3>3
  <2> QED BY <1>2, <2>1 DEF bmcDataSetComparison
<1>3. CASE a.gm # b.gm
  <2>1. CompareGrandmasters(a, b) = - CompareGrandmasters(b, a)
    BY <1>1, SignNegates DEF CompareGrandmasters
  <2> QED BY <1>3, <2>1 DEF bmcDataSetComparison
<1> QED BY <1>2, <1>3

(* The comparison is decided: two data sets of different grandmasters and  *)
(* equal variance never compare equal.                                     *)
LEMMA EqualVarianceDecides ==
  ASSUME NEW a \in Announce, NEW b \in Announce, NEW p,
         a.gm # b.gm, a.var = b.var
  PROVE  bmcDataSetComparison(a, b, p) # 0
BY DEF bmcDataSetComparison, CompareGrandmasters, Sign, Announce

-----------------------------------------------------------------------------
(* The order of grandmasters, field by field *)

Precedes(a, b) ==
  \/ a.p1 < b.p1
  \/ a.p1 = b.p1 /\ a.class < b.class
  \/ a.p1 = b.p1 /\ a.class = b.class /\ a.acc < b.acc
  \/ a.p1 = b.p1 /\ a.class = b.class /\ a.acc = b.acc /\ a.var < b.var
  \/ a.p1 = b.p1 /\ a.class = b.class /\ a.acc = b.acc /\ a.var = b.var
     /\ a.p2 < b.p2
  \/ a.p1 = b.p1 /\ a.class = b.class /\ a.acc = b.acc /\ a.var = b.var
     /\ a.p2 = b.p2 /\ a.gm < b.gm

LEMMA BeforeRanks ==
  ASSUME NEW a \in Announce, NEW b \in Announce
  PROVE  Before(Ranks(a), Ranks(b)) <=> Precedes(a, b)
<1> DEFINE x == Ranks(a)
           y == Ranks(b)
<1>1. /\ x[1] = a.p1 /\ x[2] = a.class /\ x[3] = a.acc
      /\ x[4] = a.var /\ x[5] = a.p2 /\ x[6] = a.gm
      /\ y[1] = b.p1 /\ y[2] = b.class /\ y[3] = b.acc
      /\ y[4] = b.var /\ y[5] = b.p2 /\ y[6] = b.gm
      /\ DOMAIN x = 1 .. 6
  BY DEF Ranks
<1>2. \A k \in 1 .. 6 : k \in {1, 2, 3, 4, 5, 6}
  OBVIOUS
<1> HIDE DEF x, y
<1>3. Before(x, y) <=>
        \/ x[1] < y[1]
        \/ x[1] = y[1] /\ x[2] < y[2]
        \/ x[1] = y[1] /\ x[2] = y[2] /\ x[3] < y[3]
        \/ x[1] = y[1] /\ x[2] = y[2] /\ x[3] = y[3] /\ x[4] < y[4]
        \/ x[1] = y[1] /\ x[2] = y[2] /\ x[3] = y[3] /\ x[4] = y[4]
           /\ x[5] < y[5]
        \/ x[1] = y[1] /\ x[2] = y[2] /\ x[3] = y[3] /\ x[4] = y[4]
           /\ x[5] = y[5] /\ x[6] < y[6]
  BY <1>1, <1>2 DEF Before
<1> QED BY <1>1, <1>3 DEF x, y, Precedes

LEMMA SameData ==
  ASSUME NEW S, Agree(S), NEW a \in S, NEW b \in S, a.gm = b.gm
  PROVE  a.p1 = b.p1 /\ a.class = b.class /\ a.acc = b.acc /\ a.p2 = b.p2
<1>1. Ranks(a) = Ranks(b)
  BY DEF Agree
<1> QED BY <1>1 DEF Ranks

(* Ranks is a weak order, and records that agree are told apart by it or   *)
(* are of one grandmaster.                                                 *)
LEMMA RanksOrder ==
  ASSUME NEW a \in Announce, NEW b \in Announce, NEW c \in Announce
  PROVE  /\ ~Precedes(a, a)
         /\ Precedes(a, b) => ~Precedes(b, a)
         /\ ~Precedes(a, b) /\ ~Precedes(b, c) => ~Precedes(a, c)
BY DEF Precedes, Announce

(* The sign of the comparison never contradicts the order of grandmasters, *)
(* "no decision" included, whoever the parent is.                          *)
LEMMA SignFollowsRank ==
  ASSUME NEW S \in SUBSET Announce, Agree(S), NEW a \in S, NEW b \in S, NEW p
  PROVE  /\ bmcDataSetComparison(a, b, p) < 0 => ~Precedes(b, a)
         /\ ~(bmcDataSetComparison(a, b, p) < 0) => ~Precedes(a, b)
<1>1. CASE a.gm = b.gm
  <2>1. /\ a.p1 = b.p1 /\ a.class = b.class /\ a.acc = b.acc /\ a.p2 = b.p2
        /\ a.var = b.var
    BY <1>1, SameData DEF Agree
  <2> QED BY <1>1, <2>1 DEF Precedes, Announce
<1>2. CASE a.gm # b.gm
  <2>1. a.var = b.var
    BY DEF Agree
  <2> QED BY <1>2, <2>1
          DEF bmcDataSetComparison, CompareGrandmasters, Sign, Precedes, Announce
<1> QED BY <1>1, <1>2
=============================================================================
