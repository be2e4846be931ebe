----------------------------- MODULE MCLanClient -----------------------------
(* LanClient with two addresses, two protocol versions and a firmware      *)
(* update; one heartbeat is due every two time units.                      *)
EXTENDS LanClient

CONSTANTS v33, v35
MCFirmwares == {[speaks |-> {v33}, announces |-> None],
                [speaks |-> {v33, v35}, announces |-> v35]}
=============================================================================
