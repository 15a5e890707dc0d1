--------------------------- MODULE MCSyncExchange ---------------------------
(* A port and two masters, for TLC *)
EXTENDS SyncExchange

(* One thing at a time that may be in the way of measuring: masters'       *)
(* messages that pile up and get lost, answers that come late, other       *)
(* ports' exchanges, and a past as a master, in time or lagging behind.    *)
Meets ==
  LET Alone == [prompt |-> TRUE, overhears |-> FALSE, serves |-> FALSE,
                lags |-> FALSE, waiting |-> 1, faults |-> 0]
  IN  {[Alone EXCEPT !.waiting = 2, !.faults = 1],
       [Alone EXCEPT !.prompt = FALSE],
       [Alone EXCEPT !.overhears = TRUE],
       [Alone EXCEPT !.serves = TRUE],
       [Alone EXCEPT !.serves = TRUE, !.lags = TRUE]}
=============================================================================
