---------------------------- MODULE MCOrionLink ----------------------------
(* OrionLink on a small instance: two keys that differ in bit 0, so that ARM zone 2 *)
(* under one key reads RESET_ALARM zone 3 under the other.                         *)
EXTENDS OrionLink

MCKeys      == {{}, {0}}
MCFactory   == {0}
MCZones     == {{0}, {1}, {0, 1}}     \* zones 1, 2, 3
MCHostZones == {{1}, {0, 1}}          \* zones 2, 3
MCEvents    == 1..3
=============================================================================
