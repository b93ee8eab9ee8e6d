--------------------------- MODULE MCMonitoredBus ---------------------------
(* Two devices, two zones and a ring of two events: the ring wraps, requests  *)
(* to different devices alternate and both may fall silent.                   *)
EXTENDS MonitoredBus

MCDevices    == {1, 2}
MCEventCodes == {4}
MCZoneCounts == {9}
MCAllQueries == {CMD_PING, CMD_READ_DEVICE_TYPE, CMD_READ_VERSION,
                 CMD_READ_STATUS, CMD_READ_EVENT}
=============================================================================
