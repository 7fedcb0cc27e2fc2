----------------------------- MODULE CanDevices -----------------------------
(* The devices of the CAN bus, which the monitor thread (CanOperator) and  *)
(* the watch over the sensors (SensorManager) have in common.              *)
CONSTANT CanId              \* identifiers of the devices
=============================================================================
