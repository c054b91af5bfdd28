------------------------------- MODULE MCMqtt -------------------------------
(* Finite instances of MqttApp: message ids wrap after three, and the first of *)
(* the broker's packet ids has a zero high byte and the second has not.        *)
EXTENDS MqttApp
MCPacketIds == {1, 2}
=============================================================================
