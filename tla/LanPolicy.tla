------------------------------ MODULE LanPolicy ------------------------------
(* The decisions of lan_policy.py, on scaled times.                        *)
EXTENDS Integers, Sequences

CONSTANTS Versions, Default,   \* protocol versions, and the fallback among them
          HeartbeatInterval, DataTimeout, MaxPayloadErrors

ASSUME PolicyAssumption ==
  /\ Default \in Versions
  /\ HeartbeatInterval \in Nat \ {0} /\ DataTimeout \in Nat \ {0}
  /\ MaxPayloadErrors \in Nat \ {0}

\* Decisions that forget one of their cases.
NeverWaits(failures) == FALSE
NeverDue(elapsed) == FALSE
AnnouncedOnly(v) == IF v = Default THEN <<Default>> ELSE <<v>>

ShouldReconnect(lost, errors) == lost \/ errors >= MaxPayloadErrors

HeartbeatDue(elapsed) == elapsed >= HeartbeatInterval

DataStale(elapsed) == elapsed > DataTimeout

\* reconnect_delay is zero for the first failure.
Waits(failures) == failures > 1

VersionCandidates(v) == IF v \in Versions \ {Default} THEN <<v, Default>> ELSE <<Default>>
=============================================================================
