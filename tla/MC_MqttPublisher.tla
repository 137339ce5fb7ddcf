-------------------------- MODULE MC_MqttPublisher --------------------------
(* A small instance of MqttPublisher for TLC.                              *)
EXTENDS MqttPublisher
=============================================================================
