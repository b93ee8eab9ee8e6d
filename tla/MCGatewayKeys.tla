---------------------------- MODULE MCGatewayKeys ----------------------------
(* Three key bytes, the default 0 among them, and a few power losses. *)
EXTENDS GatewayKeys

MCKeys == {0, 7, 90}
=============================================================================
