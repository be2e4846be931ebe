---------------------------- MODULE MCSignalling ----------------------------
(* Signalling for two streams of one camera: a connection may be taken over *)
(* by a retry's own, cut by the network, or shared with the other stream.   *)
EXTENDS Signalling, TLC

CONSTANTS s1, s2

TwoStreams == {s1, s2}

OneEach == (s1 :> 1) @@ (s2 :> 1)
=============================================================================
