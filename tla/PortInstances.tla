---------------------------- MODULE PortInstances ----------------------------
(* Clocks, messages and options of the instances of PortEngine for TLC *)

(* An Announce of clock `id' that follows grandmaster `gm' *)
From(id, gm, p1, steps) ==
  [src |-> [id |-> id, port |-> 1], gm |-> gm, p1 |-> p1, class |-> 248,
   acc |-> 254, var |-> 10, p2 |-> 248, steps |-> steps]

(* The port is clock 5 with priority 128.  Clock 2 is a better grandmaster *)
(* that may degrade to 120, still better than the port; 7 is a worse one.  *)
Degrading == {From(2, 2, 100, 0), From(2, 2, 120, 0), From(7, 7, 200, 0)}

TwoMasters == {From(2, 2, 100, 0), From(7, 7, 200, 0)}

(* Clock 6 differs from the port in its variance only, so that comparing   *)
(* it with the port gives no decision.                                     *)
WithUndecided == {From(2, 2, 100, 0), From(7, 7, 200, 0),
                  [From(6, 6, 128, 0) EXCEPT !.var = 11]}

Opts(e2e, slaveOnly, class) ==
  [E2E_mode |-> e2e, slaveOnly |-> slaveOnly, clockClass |-> class]

(* As shipped; with -h and -g; with -s below 128; with -s 255 *)
Shipped == {Opts(FALSE, FALSE, 248)}
AllOptions == {Opts(FALSE, FALSE, 248), Opts(TRUE, TRUE, 248),
               Opts(FALSE, FALSE, 100), Opts(TRUE, FALSE, 255)}
=============================================================================
