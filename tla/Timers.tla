------------------------------- MODULE Timers -------------------------------
(***************************************************************************)
(* The interval timers of timer.cc.  PtpClock keeps an array itimer of     *)
(* them; SIGALRM counts ticks of 10 ms in the global `elapsed', and        *)
(* nothing happens to a timer until somebody calls timerExpired, which     *)
(* first hands the counted ticks to EVERY timer (timerUpdate).             *)
(*                                                                         *)
(* One time unit is one tick; a timer that is stopped has interval 0.      *)
(* The operators are pure: PortEngine applies them to its state.           *)
(***************************************************************************)
EXTENDS Naturals

PDELAYREQ_INTERVAL_TIMER == "PDELAYREQ_INTERVAL_TIMER"
DELAYREQ_INTERVAL_TIMER  == "DELAYREQ_INTERVAL_TIMER"
SYNC_INTERVAL_TIMER      == "SYNC_INTERVAL_TIMER"
ANNOUNCE_RECEIPT_TIMER   == "ANNOUNCE_RECEIPT_TIMER"
ANNOUNCE_INTERVAL_TIMER  == "ANNOUNCE_INTERVAL_TIMER"

TimerNames == { PDELAYREQ_INTERVAL_TIMER, DELAYREQ_INTERVAL_TIMER,
                SYNC_INTERVAL_TIMER, ANNOUNCE_RECEIPT_TIMER,
                ANNOUNCE_INTERVAL_TIMER }

IntervalTimer == [interval : Nat, left : Nat, expire : BOOLEAN]

(* calloc'ed with PtpClock: never started *)
ZeroTimer == [interval |-> 0, left |-> 0, expire |-> FALSE]

Running(timer) == timer.interval > 0

(* Only the interval is cleared: a pending expire flag survives the stop,  *)
(* and so does `left'.                                                     *)
timerStop(timer) == [timer EXCEPT !.interval = 0]

timerStart(ticks) == [interval |-> ticks, left |-> ticks, expire |-> FALSE]

(* One timer's share of timerUpdate: it reloads at once, and the ticks by  *)
(* which it is overdue are dropped.                                        *)
Advance(timer, delta) ==
  IF Running(timer) /\ delta > 0
  THEN IF timer.left <= delta
       THEN [timer EXCEPT !.left = timer.interval, !.expire = TRUE]
       ELSE [timer EXCEPT !.left = timer.left - delta]
  ELSE timer

timerUpdate(itimer, delta) == [t \in TimerNames |-> Advance(itimer[t], delta)]

(* timerExpired(t) is timerUpdate, a test of itimer[t].expire and, when it *)
(* is set, its acknowledgement.                                            *)
Acknowledge(itimer, t) == [itimer EXCEPT ![t].expire = FALSE]
=============================================================================
