---------------------------- MODULE MCForeignScan ----------------------------
(* Tables for ForeignScan: five grandmasters heard over up to three paths *)
EXTENDS ForeignScan

Own == [id |-> 5, port |-> 0]

(* Grandmaster gm as every sender describes it *)
Of(gm, sender, steps) ==
  [src |-> [id |-> sender, port |-> 1], gm |-> gm,
   p1 |-> IF gm = 1 THEN 100 ELSE 110, class |-> IF gm = 2 THEN 6 ELSE 248,
   acc |-> IF gm = 3 THEN 33 ELSE 254, var |-> 10,
   p2 |-> IF gm = 4 THEN 100 ELSE 248, steps |-> steps]

(* Several paths to each grandmaster, one variance *)
Coherent == {Of(gm, sender, steps) :
               gm \in {1, 2, 3, 4, 6}, sender \in {1, 3, 8}, steps \in 0 .. 2}

(* A port that is its own parent, or follows clock 3 *)
Follows3 == {Own, [id |-> 3, port |-> 1]}
=============================================================================
