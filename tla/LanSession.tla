------------------------------ MODULE LanSession ------------------------------
(***************************************************************************)
(* What the coordinator is promised by its LAN client: a flag that tells   *)
(* whether a session is up, pushes only while it is, and silence for good  *)
(* once the client has been stopped.                                       *)
(***************************************************************************)
EXTENDS Naturals

VARIABLES life,    \* "new", "running" or "stopped"
          up,      \* the client says it is connected
          pushes   \* how many pushes it has handed to the callback

Init == life = "new" /\ up = FALSE /\ pushes = 0

Start   == life = "new" /\ life' = "running" /\ UNCHANGED <<up, pushes>>
Gain    == life = "running" /\ ~up /\ up' = TRUE /\ UNCHANGED <<life, pushes>>
Lose    == up /\ up' = FALSE /\ UNCHANGED <<life, pushes>>
Deliver == up /\ pushes' = pushes + 1 /\ UNCHANGED <<life, up>>
Stop    == life' = "stopped" /\ up' = FALSE /\ UNCHANGED pushes

Next == Start \/ Gain \/ Lose \/ Deliver \/ Stop

Spec == Init /\ [][Next]_<<life, up, pushes>>
=============================================================================
