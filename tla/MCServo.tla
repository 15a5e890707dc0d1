------------------------------- MODULE MCServo -------------------------------
(* A second of 500 ns: the proportions of the shipped values, roughly *)
EXTENDS Servo

Usual ==
  [E2E_mode |-> FALSE, maxDelay |-> 0, every |-> 3, skew |-> 3, path |-> 40,
   ahead |-> 0, hits |-> {}]

(* A slave seconds ahead or behind, by either mechanism; a long path; a    *)
(* clock with a large skew and a limit on the delay.                       *)
Cases ==
  {[Usual EXCEPT !.ahead = 1300, !.hits = {"leap", "answer lost"}],
   [Usual EXCEPT !.ahead = -1400, !.skew = -3, !.hits = {"state", "Sync lost"}],
   [Usual EXCEPT !.E2E_mode = TRUE, !.hits = {"leap"}],
   [Usual EXCEPT !.E2E_mode = TRUE, !.hits = {"state", "Sync late"}],
   [Usual EXCEPT !.path = 240, !.hits = {"Sync lost", "answer lost"}],
   [Usual EXCEPT !.maxDelay = 300, !.skew = 14, !.ahead = 120,
                 !.hits = {"Sync late", "Sync lost"}]}

(* A slave whose state changes in the middle of an exchange *)
Voided == {[Usual EXCEPT !.hits = {"state"}]}

(* The last two are nearby, one without and one with a limit on the delay *)
ASSUME SomeHaveRoom ==
  \E d, e \in Cases : /\ ~d.E2E_mode /\ HasRoom(d) /\ d.path > 0 /\ d.maxDelay = 0
                      /\ ~e.E2E_mode /\ HasRoom(e) /\ e.maxDelay # 0

Backwards == -700
=============================================================================
