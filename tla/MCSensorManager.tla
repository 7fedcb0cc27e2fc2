-------------------------- MODULE MCSensorManager --------------------------
(* Buttons and lidar; messages of ES0_CANID come to both.                  *)
EXTENDS SensorManager

MCCanId == {"KEY_RCANID", "LIDAR_RCANID", "ES0_CANID"}
MCRCanId == <<"KEY_RCANID", "LIDAR_RCANID">>
=============================================================================
