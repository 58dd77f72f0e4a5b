---------------------------- MODULE MCChatTurns ----------------------------
(* Small instances of ChatTurns. *)
EXTENDS ChatTurnsInv, TLC

(* One page asks every question. *)
OnePage == [t \in Turns |-> 1]

(* Two pages take turns in the same session. *)
TwoPages == [t \in Turns |-> 1 + (t % 2)]

SamePersona == [p \in Pages |-> "host"]

(* Each page insists on a persona of its own. *)
OwnPersona == [p \in Pages |-> IF p = 1 THEN "host" ELSE "guide"]
=============================================================================
