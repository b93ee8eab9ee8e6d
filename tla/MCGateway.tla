------------------------------ MODULE MCGateway ------------------------------
(* The gateway with two devices on the bus. *)
EXTENDS Gateway

MCDevices == 1..MaxAddress
AllSerial  == {"MASTER_ON", "MASTER_OFF", "ARM", "POLL_ON", "POLL_OFF", "REBOOT"}
\* For liveness: a stream of ARMs would hold the loop in its serial stage for
\* ever, and one of REBOOTs in its debounce time.
ModeSerial == {"MASTER_ON", "MASTER_OFF"}
=============================================================================
