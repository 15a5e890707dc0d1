----------------------------- MODULE ForeignScan -----------------------------
(***************************************************************************)
(* The loop of bmc() over the foreign master table, one comparison a step, *)
(* from every table over a set of records: does the record it ends with    *)
(* deserve the name foreign_record_best?  PortEngine takes the whole loop  *)
(* in one step (its Scan).                                                 *)
(*                                                                         *)
(* The comparison asks who the parent is, and s1 makes the sender of the   *)
(* best record the parent.  Every Announce calls for a state decision, so  *)
(* the loop runs again and again on a table that has not changed: does the *)
(* port stay with its choice?                                              *)
(***************************************************************************)
EXTENDS BestMaster

CONSTANTS
  Records,   \* what the slots may hold
  Parents,   \* the parents the port may have while it scans
  N          \* number_foreign_records

ASSUME ScanAssumption ==
  Records \subseteq Announce /\ Parents \subseteq PortIdentity /\ N \in Nat \ {0}

VARIABLES
  foreign, parent, i, best,
  decisions    \* on this table, up to two

scanVars == <<foreign, parent, i, best, decisions>>

(* addForeign looks for the sender before it files a new record; but after *)
(* a re-initialisation an older record of it may count again.              *)
Tables == [0 .. N - 1 -> Records]

ScanInit ==
  /\ foreign \in Tables
  /\ parent \in Parents
  /\ i = 1
  /\ best = 0
  /\ decisions = 0

(* Mutant: the index of the best is taken after the increment *)
Compare_afterIncrement ==
  /\ i < N
  /\ best' = IF bmcDataSetComparison(foreign[i], foreign[best], parent) < 0
             THEN i + 1 ELSE best
  /\ i' = i + 1
  /\ UNCHANGED <<foreign, parent, decisions>>

Compare ==
  /\ i < N
  /\ best' = IF bmcDataSetComparison(foreign[i], foreign[best], parent) < 0
             THEN i ELSE best
  /\ i' = i + 1
  /\ UNCHANGED <<foreign, parent, decisions>>

(* The decision is to follow: s1 takes the sender for the parent, and the  *)
(* next Announce has the loop run again.                                   *)
Adopt ==
  /\ i = N
  /\ parent' = s1(foreign[best]).parent
  /\ i' = 1 /\ best' = 0
  /\ decisions' = IF decisions < 2 THEN decisions + 1 ELSE 2
  /\ UNCHANGED foreign

ScanNext == Compare \/ Adopt

ScanSpec == ScanInit /\ [][ScanNext]_scanVars

-----------------------------------------------------------------------------
(* Figures 27 and 28 as an order on records: by grandmaster, and records   *)
(* of one grandmaster by path length and then sender.                      *)
Better(a, b) ==
  IF a.gm = b.gm THEN Before(<<a.steps, a.src.id>>, <<b.steps, b.src.id>>)
                 ELSE Before(Ranks(a), Ranks(b))

TypeOKScan ==
  /\ foreign \in Tables
  /\ parent \in Parents \cup {foreign[k].src : k \in 0 .. N - 1}
  /\ i \in 1 .. N
  /\ best \in 0 .. i - 1
  /\ decisions \in 0 .. 2

(* The scan is a single pass with a strict comparison, so it is right only *)
(* if the comparison is transitive: a port whose parent is not among the   *)
(* senders ends with a record none of the table is better than, in         *)
(* whatever order they were filed.                                         *)
ScanFindsBest ==
  i = N /\ (\A k \in 0 .. N - 1 : foreign[k].src.id # parent.id)
    => \A k \in 0 .. N - 1 : ~Better(foreign[k], foreign[best])

(* With the parent among the senders the comparison is not transitive: a   *)
(* record one step farther ties with a nearer one if the parent sent it,   *)
(* and a third may beat the one and lose to the other.  Still nobody is    *)
(* passed over for a worse grandmaster, nor for a path more than one step  *)
(* longer.                                                                 *)
ElectsBestGrandmaster ==
  i = N =>
    \A k \in 0 .. N - 1 :
      Better(foreign[k], foreign[best])
        => /\ foreign[k].gm = foreign[best].gm
           /\ foreign[best].steps <= foreign[k].steps + 1

(* What it may do is take a detour: to a sender that is worse than another *)
(* one, which the next decision leaves again.  It does so once.  From the  *)
(* third decision on an unchanged table the port stays with its parent:    *)
(* masters do not take turns.  (With two records of one clock they may.)   *)
OneRecordPerClock(f) ==
  \A j, k \in 0 .. N - 1 : f[j].src.id = f[k].src.id => j = k

ElectionSettles ==
  OneRecordPerClock(foreign) /\ i = N /\ decisions = 2
    => foreign[best].src = parent

(* bmcStateDecision calls the comparison with the arguments in one order   *)
(* and trusts both signs: swapping the arguments negates the result.       *)
ComparisonIsAntisymmetric ==
  \A j, k \in 0 .. N - 1 :
    bmcDataSetComparison(foreign[j], foreign[k], parent)
      = - bmcDataSetComparison(foreign[k], foreign[j], parent)
=============================================================================
