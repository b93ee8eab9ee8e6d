-------------------------- MODULE MCDeviceTracker --------------------------
(* DeviceTracker on a small instance: one device, three threads. *)
EXTENDS DeviceTracker

MCAddresses == {1}
MCWants     == {0, 2, 4}
=============================================================================
