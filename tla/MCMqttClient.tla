---------------------------- MODULE MCMqttClient ----------------------------
(* MqttClient with the two slots of the pool of device/device.py.            *)
EXTENDS MqttClient

\* The slots of the pool are interchangeable.
Slots == Permutations(Slot)
=============================================================================
