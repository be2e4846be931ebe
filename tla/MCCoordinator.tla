--------------------------- MODULE MCCoordinator ---------------------------
EXTENDS Coordinator, TLC
CONSTANTS playing, stopping, once, loop
SomeStart == {[lullaby |-> playing, mode |-> once, alarm |-> 0]}
EveryStart ==
  {[lullaby |-> p, mode |-> m, alarm |-> 0] : p \in Playback, m \in Mode}
=============================================================================
