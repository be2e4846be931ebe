---------------------------- MODULE CameraSession ----------------------------
(***************************************************************************)
(* What a camera stream promises of the WebRTC sessions it goes through: a *)
(* bridge belongs to one stream, connects at most once and is not used     *)
(* again after its attempt failed or it was stopped; the stream is shown   *)
(* exactly while its bridge is up, and nothing takes the bridge's place    *)
(* meanwhile.                                                              *)
(***************************************************************************)
CONSTANTS Stream, Bridge, None

VARIABLES bridge,  \* the bridge of each stream, None before the first
          life,    \* "unused", "ready" for its attempt, "up" or "spent"
          shown    \* the streams that are shown

Init ==
  /\ bridge \in [Stream -> Bridge \cup {None}]
  /\ \A i, j \in Stream : bridge[i] = bridge[j] /\ bridge[i] # None => i = j
  /\ life = [b \in Bridge |-> IF \E i \in Stream : bridge[i] = b THEN "ready" ELSE "unused"]
  /\ shown = {}

Take(i, b) ==
  /\ i \notin shown /\ life[b] = "unused"
  /\ bridge' = [bridge EXCEPT ![i] = b]
  /\ life' = [d \in Bridge |-> IF d = b THEN "ready" ELSE IF d = bridge[i] THEN "spent" ELSE life[d]]
  /\ UNCHANGED shown

Turn(i, from, to) ==
  /\ bridge[i] # None /\ life[bridge[i]] = from
  /\ life' = [life EXCEPT ![bridge[i]] = to]
  /\ UNCHANGED bridge

Show(i) == i \notin shown /\ Turn(i, "ready", "up") /\ shown' = shown \cup {i}
Fail(i) == i \notin shown /\ Turn(i, "ready", "spent") /\ UNCHANGED shown
Hide(i) == i \in shown /\ Turn(i, "up", "spent") /\ shown' = shown \ {i}

Next == \E i \in Stream : Show(i) \/ Fail(i) \/ Hide(i) \/ \E b \in Bridge : Take(i, b)

Spec == Init /\ [][Next]_<<bridge, life, shown>>
=============================================================================
