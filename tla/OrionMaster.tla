----------------------------- MODULE OrionMaster -----------------------------
(***************************************************************************)
(* The class OrionMaster of the ESP32 gateway: the MONITOR/MASTER mode,    *)
(* the detection of a real C2000M master on the bus, the DE (transmit      *)
(* enable) pin, the transactions sendAndReceive runs and the round-robin   *)
(* auto-poll.                                                              *)
(*                                                                         *)
(* The class is driven by the single Arduino loop, so a call is one step,  *)
(* except for a bus transaction: it keeps DE high while the frame leaves   *)
(* and then blocks up to the response timeout, and time and the bus go on  *)
(* meanwhile.  It is three steps: Begin..., TransmitDone, TransactionDone. *)
(*                                                                         *)
(* millis() - t is modelled as an age counted in ticks.  The age of the    *)
(* last master traffic is kept modulo MillisPeriod, the wrap of the        *)
(* uint32_t difference.                                                    *)
(***************************************************************************)
EXTENDS Clock

CONSTANTS
    DetectTimeout,   \* ORION_MASTER_DETECT_TIMEOUT_MS, in ticks
    MillisPeriod,    \* 2^32 ms, in ticks: where millis() - t wraps
    PollInterval,    \* ORION_MASTER_POLL_INTERVAL_MS, in ticks
    MaxAddress,      \* ORION_MAX_DEVICES (127)
    Byte             \* 2^8: where the uint8_t poll address wraps

ASSUME MasterAssumption ==
    /\ DetectTimeout \in Nat \ {0}
    /\ MillisPeriod \in Nat /\ MillisPeriod > DetectTimeout + 1
    /\ PollInterval \in Nat
    /\ MaxAddress \in Nat \ {0}
    /\ Byte \in Nat /\ Byte > MaxAddress

VARIABLES
    mode,            \* _mode
    masterDetected,  \* _master_detected
    trafficAge,      \* millis() - _last_master_traffic, or Never
    autoPolling,     \* _auto_polling
    pollMin,         \* _poll_addr_min
    pollMax,         \* _poll_addr_max
    pollAddr,        \* _poll_current_addr
    pollPhase,       \* _poll_phase
    pollAge,         \* millis() - _last_poll_time, saturated at PollInterval
    de,              \* level of the DE pin
    txn,             \* the transaction sendAndReceive is blocked in, or Idle
    heardAge         \* history: ticks since the last notifyBusRequest of this
                     \* boot, saturated at DetectTimeout + 1

modeVars   == <<mode, masterDetected, trafficAge, heardAge>>
pollVars   == <<autoPolling, pollMin, pollMax, pollAddr, pollPhase, pollAge>>
lineVars   == <<de, txn>>
masterVars == <<modeVars, pollVars, lineVars>>

-----------------------------------------------------------------------------

Modes     == {"MONITOR", "MASTER"}
Levels    == {"LOW", "HIGH"}
Never     == -1
Addresses == 1..MaxAddress
Bytes     == 0..(Byte - 1)

\* The commands auto-poll sends in phases 0 to 3, and the ones sent on request.
AutoCommand == [p \in 0..3 |-> CASE p = 0 -> "PING"
                                 [] p = 1 -> "READ_DEVICE_TYPE"
                                 [] p = 2 -> "READ_STATUS"
                                 [] p = 3 -> "READ_EVENT"]
Commands == {"PING", "READ_DEVICE_TYPE", "READ_STATUS", "READ_EVENT",
             "CONFIRM_EVENT", "ARM_ZONE", "DISARM_ZONE", "RESET_ALARM"}

Idle == [stage |-> "idle", addr |-> 0, cmd |-> "none", auto |-> FALSE]
Transactions ==
    [stage : {"sending", "waiting"}, addr : Addresses, cmd : Commands,
     auto : BOOLEAN]

MasterTypeOK ==
    /\ mode \in Modes
    /\ masterDetected \in BOOLEAN
    /\ trafficAge \in {Never} \cup 0..(MillisPeriod - 1)
    /\ heardAge \in 0..(DetectTimeout + 1)
    /\ autoPolling \in BOOLEAN
    /\ pollMin \in Bytes /\ pollMax \in Bytes /\ pollAddr \in Bytes
    /\ pollPhase \in 0..3
    /\ pollAge \in 0..PollInterval
    /\ de \in Levels
    /\ txn \in Transactions \cup {Idle}

\* The constructor, followed by begin(): also the state after a reset.
MasterInit ==
    /\ mode = "MONITOR"
    /\ masterDetected = FALSE
    /\ trafficAge = Never
    /\ heardAge = DetectTimeout + 1
    /\ autoPolling = TRUE
    /\ pollMin = 1 /\ pollMax = MaxAddress /\ pollAddr = 1
    /\ pollPhase = 0
    /\ pollAge = PollInterval
    /\ de = "LOW"
    /\ txn = Idle

Blocked == txn # Idle

-----------------------------------------------------------------------------
(* Master detection.                                                       *)

\* The bus monitor saw a request frame.
NotifyBusRequest ==
    /\ ~Blocked
    /\ masterDetected' = TRUE
    /\ trafficAge' = 0
    /\ heardAge' = 0
    /\ UNCHANGED <<mode, pollVars, lineVars>>

\* Faulty variant.
StillDetectedOneTickShort ==
    masterDetected /\ trafficAge # Never /\ trafficAge < DetectTimeout

\* _master_detected as updateMasterDetection leaves it.
StillDetected ==
    /\ masterDetected
    /\ trafficAge # Never
    /\ trafficAge <= DetectTimeout

(* Mode control.                                                           *)

\* The two checks of switchToMaster.
Refuses ==
    \/ masterDetected
    \/ trafficAge # Never /\ trafficAge < DetectTimeout

SwitchToMaster ==
    /\ ~Blocked
    /\ mode = "MONITOR"
    /\ ~Refuses
    /\ mode' = "MASTER"
    /\ pollAddr' = pollMin
    /\ pollPhase' = 0
    /\ pollAge' = PollInterval
    /\ UNCHANGED <<masterDetected, trafficAge, heardAge, autoPolling, pollMin,
                   pollMax, lineVars>>

SwitchToMonitor ==
    /\ ~Blocked
    /\ mode = "MASTER"
    /\ mode' = "MONITOR"
    /\ de' = "LOW"
    /\ UNCHANGED <<masterDetected, trafficAge, heardAge, pollVars, txn>>

-----------------------------------------------------------------------------
(* Transactions.                                                           *)

MayTransmitInAnyMode(a) == a \in Addresses      \* faulty variant

\* The checks of buildPacket and transmitPacket that let a frame out.
MayTransmit(a) == a \in Addresses /\ mode = "MASTER"

Transmit(a, c, auto) ==
    /\ de' = "HIGH"
    /\ txn' = [stage |-> "sending", addr |-> a, cmd |-> c, auto |-> auto]

\* cmdPing ... cmdResetAlarm, called for a serial command.  When the checks
\* fail the call returns and changes nothing in this class.
Command(a, c) ==
    /\ ~Blocked
    /\ MayTransmit(a)
    /\ Transmit(a, c, FALSE)
    /\ UNCHANGED <<modeVars, pollVars>>

\* The UART is flushed and DE goes back to receive.
TransmitDone ==
    /\ txn.stage = "sending"
    /\ de' = "LOW"
    /\ txn' = [txn EXCEPT !.stage = "waiting"]
    /\ UNCHANGED <<modeVars, pollVars>>

\* Faulty variants: the phase is not reset; the last address is skipped.
AdvancePollPhaseRunsOn ==
    /\ pollPhase' = pollPhase + 1
    /\ pollAddr' = IF pollPhase = 3 THEN pollMin ELSE pollAddr
AdvancePollSkipsLast ==
    /\ pollPhase' = (pollPhase + 1) % 4
    /\ pollAddr' = IF pollPhase # 3 THEN pollAddr
                   ELSE IF pollAddr + 1 >= pollMax THEN pollMin ELSE pollAddr + 1

\* doAutoPoll's switch: the next phase, and after the last the next address.
AdvancePoll ==
    /\ pollPhase' = (pollPhase + 1) % 4
    /\ pollAddr' = IF pollPhase # 3 THEN pollAddr
                   ELSE LET next == (pollAddr + 1) % Byte
                        IN  IF next > pollMax THEN pollMin ELSE next

\* sendAndReceive returns: an answer, a CRC error or the timeout.
TransactionDone ==
    /\ txn.stage = "waiting"
    /\ txn' = Idle
    /\ IF txn.auto THEN AdvancePoll ELSE UNCHANGED <<pollAddr, pollPhase>>
    /\ UNCHANGED <<modeVars, autoPolling, pollMin, pollMax, pollAge, de>>

-----------------------------------------------------------------------------
(* poll()                                                                  *)

\* "C2000M DETECTED - emergency switch to MONITOR"
PollFallback ==
    /\ ~Blocked
    /\ mode = "MASTER" /\ StillDetected
    /\ mode' = "MONITOR"
    /\ de' = "LOW"
    /\ masterDetected' = StillDetected
    /\ UNCHANGED <<trafficAge, heardAge, pollVars, txn>>

PollDue == autoPolling /\ pollAge >= PollInterval

\* One step of doAutoPoll.
PollNextDevice ==
    /\ ~Blocked
    /\ mode = "MASTER" /\ ~StillDetected /\ PollDue
    /\ masterDetected' = StillDetected
    /\ pollAge' = 0
    /\ IF MayTransmit(pollAddr)
       THEN /\ Transmit(pollAddr, AutoCommand[pollPhase], TRUE)
            /\ UNCHANGED <<pollAddr, pollPhase>>
       ELSE AdvancePoll /\ UNCHANGED lineVars
    /\ UNCHANGED <<mode, trafficAge, heardAge, autoPolling, pollMin, pollMax>>

PollQuiet ==
    /\ ~Blocked
    /\ mode = "MASTER" => ~StillDetected /\ ~PollDue
    /\ masterDetected' = StillDetected
    /\ UNCHANGED <<mode, trafficAge, heardAge, pollVars, lineVars>>

Poll == PollFallback \/ PollNextDevice \/ PollQuiet

-----------------------------------------------------------------------------
(* Setters, reset and time.                                                *)

SetAutoPolling(enable) ==
    /\ ~Blocked
    /\ autoPolling' = enable
    /\ UNCHANGED <<modeVars, pollMin, pollMax, pollAddr, pollPhase, pollAge,
                   lineVars>>

SetPollRange(lo, hi) ==
    /\ ~Blocked
    /\ pollMin' = IF lo < 1 THEN 1 ELSE lo
    /\ pollMax' = IF hi > MaxAddress THEN MaxAddress ELSE hi
    /\ pollAddr' = pollMin'
    /\ UNCHANGED <<modeVars, autoPolling, pollPhase, pollAge, lineVars>>

\* REBOOT, the watchdog or a power loss, at any point of a transaction.
Reboot ==
    /\ mode' = "MONITOR"
    /\ masterDetected' = FALSE
    /\ trafficAge' = Never
    /\ heardAge' = DetectTimeout + 1
    /\ autoPolling' = TRUE
    /\ pollMin' = 1 /\ pollMax' = MaxAddress /\ pollAddr' = 1
    /\ pollPhase' = 0
    /\ pollAge' = PollInterval
    /\ de' = "LOW"
    /\ txn' = Idle

MasterTick ==
    /\ trafficAge' = IF trafficAge = Never THEN Never
                     ELSE (trafficAge + 1) % MillisPeriod
    /\ heardAge' = Aged(heardAge, DetectTimeout + 1)
    /\ pollAge' = Aged(pollAge, PollInterval)
    /\ UNCHANGED <<mode, masterDetected, autoPolling, pollMin, pollMax,
                   pollAddr, pollPhase, lineVars>>

-----------------------------------------------------------------------------
(* The class on its own: its methods are called in any order.              *)

MasterNext ==
    \/ NotifyBusRequest
    \/ SwitchToMaster
    \/ SwitchToMonitor
    \/ \E a \in Addresses, c \in Commands : Command(a, c)
    \/ TransmitDone
    \/ TransactionDone
    \/ Poll
    \/ \E enable \in BOOLEAN : SetAutoPolling(enable)
    \/ \E lo, hi \in Bytes : SetPollRange(lo, hi)
    \/ Reboot
    \/ MasterTick

MasterSpec == MasterInit /\ [][MasterNext]_masterVars

-----------------------------------------------------------------------------
(* Properties.                                                             *)

\* Never drive the line while passive: DE is high only in MASTER mode and only
\* while a frame leaves (orion_master.h:42 "passive, never transmits").
TransmitsOnlyAsMaster ==
    de = "HIGH" => mode = "MASTER" /\ txn.stage = "sending"

\* MASTER mode is entered only after more than the whole detection timeout
\* without a request (or none was heard since boot): the flag, the age modulo
\* the clock's period and the two checks of switchToMaster agree with the real
\* age of the traffic.
EntersAfterSilence ==
    [][mode = "MONITOR" /\ mode' = "MASTER" => heardAge > DetectTimeout]_masterVars

\* The auto-poll never talks over a master the class was told about: a poll
\* begins only when the last notified request is older than the timeout.
NoPollOverMaster ==
    [][txn = Idle /\ txn'.auto => heardAge > DetectTimeout]_masterVars
=============================================================================
