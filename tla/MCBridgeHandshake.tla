------------------------- MODULE MCBridgeHandshake -------------------------
(* BridgeHandshake for the streams whose start has an end, and for the one  *)
(* that has none: SD without HEVC.                                         *)
EXTENDS BridgeHandshake

SettledKinds == {<<"hd", FALSE>>, <<"hd", TRUE>>, <<"sd", TRUE>>}
PlainSD      == {<<"sd", FALSE>>}
=============================================================================
