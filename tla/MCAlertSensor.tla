---------------------------- MODULE MCAlertSensor ----------------------------
(* AlertSensor with a tick of thirty seconds: an alert shows for one tick, *)
(* polls come every tick or every four, the cloud lags by one.             *)
EXTENDS AlertSensor
=============================================================================
