--------------------------- MODULE MCMediaSession ---------------------------
(* Two sessions on one stream and two bridges: one session sets up two      *)
(* tracks, the other one, so that they contend for one pair of ports, of     *)
(* which another process may hold one.                                      *)
EXTENDS MediaSession, TLC

CONSTANTS c1, c2

MCClients   == {c1, c2}
MCMaxSetups == (c1 :> 2) @@ (c2 :> 1)
Symmetry    == Permutations(Starters)
=============================================================================
