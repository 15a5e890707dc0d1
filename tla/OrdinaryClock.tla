---------------------------- MODULE OrdinaryClock ----------------------------
(***************************************************************************)
(* What a port promises about the clock it stands for, without a foreign   *)
(* master table, timers, message buffers or places in a program.           *)
(*                                                                         *)
(* A port plays a role and holds the data of one clock: its own, or one    *)
(* that another clock claims in an Announce.  It may change to the data    *)
(* of any claim it ever heard, however old; it never makes up data, never  *)
(* mixes two claims, and its data changes only with its role, by a         *)
(* decision, or when the clock it follows announces itself anew.           *)
(***************************************************************************)
CONSTANTS Claims,     \* the data a port would adopt from an Announce
          Origin(_)   \* who claims it

VARIABLES
  role,
  data,     \* what the port tells others, and follows when it is a slave
  own,      \* the data of the port's own clock
  heard     \* the claims heard since power on

vars == <<role, data, own, heard>>

(* The roles of a port that takes part in the election                     *)
Elected == {"LISTENING", "MASTER", "PASSIVE", "SLAVE"}

Init == role = "INITIALIZING" /\ heard = {}

(* The clock's own data may be others than before                          *)
Start ==
  /\ role = "INITIALIZING" /\ role' = "LISTENING"
  /\ data' = own'
  /\ UNCHANGED heard

(* A slave, and only a slave, takes what the clock it follows announces    *)
Hear(claim) ==
  /\ role \in Elected
  /\ heard' = heard \cup {claim}
  /\ data' = IF role = "SLAVE" /\ Origin(claim) = Origin(data) THEN claim
                                                               ELSE data
  /\ UNCHANGED <<role, own>>

(* By a decision, or because nobody was heard: also, when the port just    *)
(* met a fault, before it has started again.                               *)
Lead ==
  /\ role # "INITIALIZING" /\ role' = "MASTER"
  /\ data' = own
  /\ UNCHANGED <<own, heard>>

Follow ==
  /\ role \in Elected /\ role' \in {"SLAVE", "PASSIVE"}
  /\ data' \in heard
  /\ UNCHANGED <<own, heard>>

(* A port that may not lead listens, and keeps the data it has             *)
Listen ==
  /\ role # "INITIALIZING" /\ role' = "LISTENING"
  /\ UNCHANGED <<data, own, heard>>

Fail  == role' = "FAULTY" /\ UNCHANGED <<data, own, heard>>

Reset ==
  /\ role = "FAULTY" /\ role' = "INITIALIZING"
  /\ UNCHANGED <<data, own, heard>>

Next ==
  \/ \E claim \in Claims : Hear(claim)
  \/ Start \/ Lead \/ Follow \/ Listen \/ Fail \/ Reset

Spec == Init /\ [][Next]_vars

(* What follows from it: the data of a port goes with its role.            *)
DataGoesWithRole ==
  /\ role = "MASTER" => data = own
  /\ role \in {"SLAVE", "PASSIVE"} => data \in heard
=============================================================================
