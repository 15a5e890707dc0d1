------------------------------ MODULE TwoWayTime ------------------------------
(***************************************************************************)
(* What a slave that measures end to end promises, without messages,       *)
(* sockets, sequence numbers or time stamps.                               *)
(*                                                                         *)
(* A clock is compared with that of the parent in two halves: a Sync gives *)
(* the way from the parent, a request that is answered gives the way back. *)
(* Together they are the delay of the path to that master; with the delay, *)
(* the next Sync gives the offset from it.  A value is described by the    *)
(* master it is about, or by NoMaster if it is about none: not measured    *)
(* yet, or put together from halves that do not belong together.           *)
(*                                                                         *)
(* The halves do not belong together when they are of different masters or *)
(* when the clock was set in between.  A slave does not know which of its  *)
(* values are sound; this module does.                                     *)
(***************************************************************************)
CONSTANTS Masters, NoMaster   \* NoMaster is not one of the Masters

VARIABLES
  parent,    \* the master followed, or NoMaster
  forward,   \* the way from this master is known, on the present time scale
  asked,     \* the sending time of the last request is known, on that scale
  stale,     \* Syncs of the parent are still to come with older times
  delay,     \* the path delay in use is that to this master
  offset     \* the offset last used was from this master

vars == <<parent, forward, asked, stale, delay, offset>>

Init ==
  /\ parent = NoMaster /\ forward = NoMaster /\ asked = FALSE /\ stale = FALSE
  /\ delay = NoMaster /\ offset = NoMaster

SameMaster(x, y) == IF x = y THEN x ELSE NoMaster

(* Another master, or the first: what is known of the old one stays, but   *)
(* no Sync that it voided is still to come.                                *)
Follow(m) ==
  /\ ~stale
  /\ parent' = m
  /\ UNCHANGED <<forward, asked, stale, delay, offset>>

(* Whoever follows nobody may miss when its request was sent, and may      *)
(* discard the results, but not the half on which the next delay rests.    *)
Idle ==
  /\ parent' = NoMaster
  /\ asked' \in {asked, FALSE} /\ stale' = FALSE
  /\ <<delay', offset'>> \in {<<delay, offset>>, <<NoMaster, NoMaster>>}
  /\ UNCHANGED forward

Ask == asked' = TRUE /\ UNCHANGED <<parent, forward, stale, delay, offset>>

TakeSync ==
  /\ parent # NoMaster
  /\ forward' = parent
  /\ offset' = SameMaster(parent, delay)
  /\ UNCHANGED <<parent, asked, stale, delay>>

(* The clock is set: what was stamped before is void, the delay is not.    *)
(* More Syncs of the parent may have been stamped before.                  *)
TakeSyncAndSetClock ==
  /\ parent # NoMaster
  /\ forward' = NoMaster
  /\ asked' = FALSE
  /\ stale' \in BOOLEAN
  /\ offset' = SameMaster(parent, delay)
  /\ UNCHANGED <<parent, delay>>

(* One of them is taken all the same: its time is of a scale that is gone, *)
(* and the clock may well be set by it again.                              *)
TakeStaleSync ==
  /\ parent # NoMaster /\ stale
  /\ forward' = NoMaster /\ offset' = NoMaster
  /\ asked' \in {asked, FALSE} /\ stale' \in BOOLEAN
  /\ UNCHANGED <<parent, delay>>

(* No answer is taken before them *)
TakeAnswer ==
  /\ parent # NoMaster /\ ~stale
  /\ delay' = IF asked THEN SameMaster(parent, forward) ELSE NoMaster
  /\ UNCHANGED <<parent, forward, asked, stale, offset>>

Next ==
  \/ \E m \in Masters : Follow(m)
  \/ Idle \/ Ask \/ TakeSync \/ TakeSyncAndSetClock \/ TakeStaleSync
  \/ TakeAnswer

Spec == Init /\ [][Next]_vars
=============================================================================
