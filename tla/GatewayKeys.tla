----------------------------- MODULE GatewayKeys -----------------------------
(***************************************************************************)
(* The encryption key and the boot counter of the ESP32 gateway: what is   *)
(* kept in flash (NVS), what OrionBusMonitor and OrionMaster hold in RAM,  *)
(* and the two ways to set a key.  loop() runs one command at a time; the  *)
(* power may fail, or the watchdog fire, between any two steps.            *)
(***************************************************************************)
EXTENDS Integers

CONSTANTS
    Keys,         \* the key bytes
    DefaultKey,   \* ORION_GLOBAL_KEY
    MaxBoots      \* bound: boots explored

ASSUME KeysAssumption == 0 \in Keys /\ DefaultKey \in Keys /\ MaxBoots \in Nat

VARIABLES
    flashKey,     \* NVS "global_key"
    flashBoots,   \* NVS "boot_count"
    monitorKey,   \* busMonitor._global_key
    masterKey,    \* busMaster._global_key
    messageKey,   \* busMaster._message_key
    bootCount,    \* boot_count
    pc,           \* where setup() or loop() is
    newKey,       \* the key being set, or the one loaded by setup()
    acked,        \* history: the last key confirmed to the operator
    requested,    \* history: keys asked for since then
    announced,    \* history: the last boot count announced
    serialSet     \* history: the last key set since the boot came by serial cable

flashVars   == <<flashKey, flashBoots>>
ramVars     == <<monitorKey, masterKey, messageKey, bootCount, newKey>>
historyVars == <<acked, requested, announced, serialSet>>
vars        == <<flashVars, ramVars, pc, historyVars>>

Places == {"load", "count", "keys", "announce", "loop", "store", "reply"}

TypeOK ==
    /\ flashKey \in Keys /\ monitorKey \in Keys /\ masterKey \in Keys
    /\ messageKey \in Keys /\ newKey \in Keys /\ acked \in Keys
    /\ flashBoots \in Nat /\ bootCount \in Nat /\ announced \in Nat
    /\ pc \in Places
    /\ requested \subseteq Keys
    /\ serialSet \in BOOLEAN

Init ==
    /\ flashKey = DefaultKey /\ flashBoots = 0
    /\ monitorKey = 0 /\ masterKey = 0 /\ messageKey = 0
    /\ bootCount = 0 /\ newKey = DefaultKey
    /\ pc = "load"
    /\ acked = DefaultKey /\ requested = {} /\ announced = 0
    /\ serialSet = FALSE

Goes(from, to) == pc = from /\ pc' = to

-----------------------------------------------------------------------------
(* setup()                                                                 *)

LoadConfig ==
    /\ Goes("load", "count")
    /\ newKey' = flashKey
    /\ bootCount' = flashBoots + 1
    /\ UNCHANGED <<flashVars, monitorKey, masterKey, messageKey, historyVars>>

SaveBootCountLater ==                                        \* faulty variant
    /\ Goes("count", "keys")
    /\ UNCHANGED <<flashVars, ramVars, historyVars>>

SaveBootCount ==
    /\ Goes("count", "keys")
    /\ flashBoots' = bootCount
    /\ UNCHANGED <<flashKey, ramVars, historyVars>>

HoldsKey(k) == monitorKey' = k /\ masterKey' = k /\ messageKey' = k

ConfigureMonitorOnly ==                                      \* faulty variant
    /\ Goes("keys", "announce")
    /\ monitorKey' = newKey
    /\ serialSet' = FALSE
    /\ UNCHANGED <<flashVars, masterKey, messageKey, bootCount, newKey, acked,
                   requested, announced>>

ConfigureKeys ==
    /\ Goes("keys", "announce")
    /\ HoldsKey(newKey)
    /\ serialSet' = FALSE
    /\ UNCHANGED <<flashVars, bootCount, newKey, acked, requested, announced>>

\* "BOOT,<version>,<boot count>" on the serial cable.
AnnounceBoot ==
    /\ Goes("announce", "loop")
    /\ announced' = bootCount
    /\ UNCHANGED <<flashVars, ramVars, acked, requested, serialSet>>

-----------------------------------------------------------------------------
(* The two commands.                                                       *)

\* SET_KEY,<hex>: the monitor's key only.
SerialSetKey(k) ==
    /\ Goes("loop", "store")
    /\ newKey' = k
    /\ monitorKey' = k
    /\ requested' = requested \cup {k}
    /\ serialSet' = TRUE
    /\ UNCHANGED <<flashVars, masterKey, messageKey, bootCount, acked, announced>>

\* POST /api/config with a global_key.
HttpSetKey(k) ==
    /\ Goes("loop", "store")
    /\ newKey' = k
    /\ HoldsKey(k)
    /\ requested' = requested \cup {k}
    /\ serialSet' = FALSE
    /\ UNCHANGED <<flashVars, bootCount, acked, announced>>

StoreUnchecked ==                                            \* faulty variant
    /\ Goes("store", "reply")
    /\ flashKey' = newKey + 256
    /\ UNCHANGED <<flashBoots, ramVars, historyVars>>

StoreNothing ==                                              \* faulty variant
    /\ Goes("store", "reply")
    /\ UNCHANGED <<flashVars, ramVars, historyVars>>

StoreKey ==
    /\ Goes("store", "reply")
    /\ flashKey' = newKey
    /\ UNCHANGED <<flashBoots, ramVars, historyVars>>

\* "OK,SET_KEY" or status 200.
ReplyOk ==
    /\ Goes("reply", "loop")
    /\ acked' = newKey
    /\ requested' = {}
    /\ UNCHANGED <<flashVars, ramVars, announced, serialSet>>

-----------------------------------------------------------------------------

\* Power loss, watchdog or REBOOT: only the flash survives.
PowerCycle ==
    /\ flashBoots < MaxBoots
    /\ pc' = "load"
    /\ monitorKey' = 0 /\ masterKey' = 0 /\ messageKey' = 0
    /\ bootCount' = 0 /\ newKey' = DefaultKey
    /\ serialSet' = FALSE
    /\ UNCHANGED <<flashVars, acked, requested, announced>>

Next ==
    \/ LoadConfig \/ SaveBootCount \/ ConfigureKeys \/ AnnounceBoot
    \/ \E k \in Keys : SerialSetKey(k) \/ HttpSetKey(k)
    \/ StoreKey \/ ReplyOk
    \/ PowerCycle

Spec == Init /\ [][Next]_vars

-----------------------------------------------------------------------------
(* Properties.                                                             *)

\* In operation the monitor decrypts with the last key confirmed to the operator
\* or with one asked for later, whatever was cut off by a power loss in between.
RunsWithConfirmedKey ==
    pc = "loop" => monitorKey \in {acked} \cup requested

\* The master's frames carry the key the flash holds, and so does the monitor,
\* unless a key came by serial cable since the boot (main.cpp:410, 606-608, 796,
\* 804).
KeysAgreeUnlessSerial ==
    pc = "loop" =>
        /\ monitorKey = flashKey
        /\ masterKey = messageKey
        /\ masterKey = flashKey \/ serialSet

\* The external system tells boots apart: whenever a boot count is announced it is
\* greater than every one announced before, although any boot may be cut short
\* (main.cpp:772-782, 820-821).
BootCountsIncrease == [][Goes("announce", "loop") => announced' > announced]_vars
=============================================================================
