------------------------------- MODULE Gateway -------------------------------
(***************************************************************************)
(* The Arduino loop of the ESP32 gateway: OrionBusMonitor and OrionMaster  *)
(* on one UART, the serial commands, the physical mode switch, and around  *)
(* them a C2000M that may be plugged in and the devices of the bus.        *)
(*                                                                         *)
(* loop() is a cycle of stages: the monitor reads what the UART holds,     *)
(* the master polls, the serial commands run, the mode switch is read.     *)
(* The loop blocks while a transaction is under way; the bus, the operator *)
(* and the clock do not.                                                   *)
(***************************************************************************)
EXTENDS OrionMaster, BusMonitor

CONSTANTS
    RespTimeout,      \* ORION_RESPONSE_TIMEOUT_MS, in ticks
    Debounce,         \* the 500 ms of handleModeSwitch, in ticks
    RxMax,            \* bound: frames the UART holds
    SerialCommands,   \* the commands the external system sends
    C2000M            \* whether a C2000M may be plugged in

ASSUME GatewayAssumption ==
    /\ RespTimeout \in Nat \ {0} /\ Debounce \in Nat \ {0}
    /\ RxMax \in Nat \ {0}
    /\ SerialCommands \subseteq {"MASTER_ON", "MASTER_OFF", "ARM", "POLL_ON",
                                 "POLL_OFF", "REBOOT"}
    /\ C2000M \in BOOLEAN
    /\ Devices = Addresses

VARIABLES
    stage,       \* where loop() is
    rx,          \* frames waiting in the UART
    txnAge,      \* age of the start of the wait in sendAndReceive
    switch,      \* level of the mode switch pin
    lastSwitch,  \* last_switch_state
    switchAge,   \* millis() - last_switch_change, saturated at Debounce
    owed,        \* devices that were asked and have not answered yet
    passiveAge,  \* history: ticks spent in MONITOR mode, saturated at RespGap
    c2kAge,      \* history: ticks since the monitor processed a C2000M frame, in
                 \* any mode and across resets
    forgotten    \* history: that frame was processed before the last reset, in
                 \* MASTER mode or less than RespGap after leaving it

loopVars    == <<stage, rx, txnAge>>
switchVars  == <<switch, lastSwitch, switchAge>>
historyVars == <<passiveAge, c2kAge, forgotten>>
vars == <<masterVars, monitorVars, loopVars, switchVars, owed, historyVars>>

QuietLimit == DetectTimeout + 1

Init ==
    /\ MasterInit /\ MonitorInit
    /\ stage = "monitor" /\ rx = <<>> /\ txnAge = 0
    /\ switch \in Levels /\ lastSwitch = "LOW" /\ switchAge = 0
    /\ owed = {}
    /\ passiveAge = RespGap /\ c2kAge = QuietLimit
    /\ forgotten = FALSE

-----------------------------------------------------------------------------
(* The frames.  Which command they carry does not matter here.             *)

MasterFrame(a) == [from |-> "master", addr |-> a, encrypted |-> FALSE,
                   body |-> <<CMD_PING>>]
DeviceFrame(a) == [from |-> "device", addr |-> a, encrypted |-> FALSE,
                   body |-> <<6>>]

-----------------------------------------------------------------------------
(* Stage 1: busMonitor.poll() and the callback onPacket.                   *)

\* Faulty variant: the answers are reported, not the requests.
OnPacketForAnswers(f) ==
    IF IsResponse(f) /\ mode = "MONITOR" THEN NotifyBusRequest
                                         ELSE UNCHANGED masterVars

OnPacket(f) ==
    IF ~IsResponse(f) /\ mode = "MONITOR" THEN NotifyBusRequest
                                          ELSE UNCHANGED masterVars

ObserveFrame(f) ==
    /\ IF f.from = "master"
       THEN c2kAge' = 0 /\ forgotten' = (mode = "MASTER" \/ passiveAge < RespGap)
       ELSE UNCHANGED <<c2kAge, forgotten>>
    /\ UNCHANGED passiveAge

MonitorReads ==
    /\ stage = "monitor" /\ ~Blocked
    /\ rx # <<>>
    /\ rx' = Tail(rx)
    /\ ProcessPacket(Head(rx))
    /\ OnPacket(Head(rx))
    /\ ObserveFrame(Head(rx))
    /\ UNCHANGED <<stage, txnAge, switchVars, owed>>

MonitorDone ==
    /\ stage = "monitor" /\ ~Blocked
    /\ rx = <<>>
    /\ stage' = "master"
    /\ IF checkAge > CheckPeriod THEN CheckOfflineDevices
                                 ELSE UNCHANGED monitorVars
    /\ UNCHANGED <<masterVars, rx, txnAge, switchVars, owed, historyVars>>

-----------------------------------------------------------------------------
(* Stage 2: busMaster.poll().  sendAndReceive first throws away whatever   *)
(* the UART holds.                                                         *)

ChangesMode == passiveAge' = IF mode' = mode THEN passiveAge ELSE 0

MasterPolls ==
    /\ stage = "master"
    /\ Poll
    /\ stage' = "serial"
    /\ rx' = IF txn' # Idle THEN <<>> ELSE rx
    /\ ChangesMode
    /\ UNCHANGED <<monitorVars, txnAge, switchVars, owed, c2kAge, forgotten>>

\* The frame is out: the device it names may answer from now on.
TransmitEnds ==
    /\ TransmitDone
    /\ owed' = owed \cup {txn.addr}
    /\ txnAge' = 0
    /\ UNCHANGED <<monitorVars, stage, rx, switchVars, historyVars>>

\* The next frame on the line is taken as the answer, whoever sent it.
TransactionReceives ==
    /\ TransactionDone
    /\ rx # <<>>
    /\ rx' = Tail(rx)
    /\ UNCHANGED <<monitorVars, stage, txnAge, switchVars, owed, historyVars>>

TransactionTimesOut ==
    /\ TransactionDone
    /\ rx = <<>> /\ txnAge >= RespTimeout
    /\ UNCHANGED <<monitorVars, loopVars, switchVars, owed, historyVars>>

-----------------------------------------------------------------------------
(* Stage 3: handleExternalSerialInput runs the commands that have arrived. *)

Serial(command) ==
    /\ stage = "serial" /\ ~Blocked
    /\ command \in SerialCommands

SerialMode ==
    /\ \/ Serial("MASTER_ON") /\ SwitchToMaster
       \/ Serial("MASTER_OFF") /\ SwitchToMonitor
    /\ ChangesMode
    /\ UNCHANGED <<monitorVars, loopVars, switchVars, owed, c2kAge, forgotten>>

\* ARM, DISARM, RESET_ALARM, PING_DEV and every step of SCAN: the UART is
\* flushed before transmitPacket checks the mode.
SerialCommand(a) ==
    /\ Serial("ARM")
    /\ rx' = <<>>
    /\ IF MayTransmit(a) THEN Command(a, "ARM_ZONE") ELSE UNCHANGED masterVars
    /\ UNCHANGED <<monitorVars, stage, txnAge, switchVars, owed, historyVars>>

SerialAutoPolling ==
    /\ \/ Serial("POLL_ON") /\ SetAutoPolling(TRUE)
       \/ Serial("POLL_OFF") /\ SetAutoPolling(FALSE)
    /\ UNCHANGED <<monitorVars, loopVars, switchVars, owed, historyVars>>

SerialDone ==
    /\ stage = "serial" /\ ~Blocked
    /\ stage' = "switch"
    /\ UNCHANGED <<masterVars, monitorVars, rx, txnAge, switchVars, owed,
                   historyVars>>

-----------------------------------------------------------------------------
(* Stage 4: handleModeSwitch acts on a level that differs from the last    *)
(* one, at most once per debounce time.                                    *)

Bounces == switch # lastSwitch /\ switchAge < Debounce

\* Faulty variant: the level is remembered although the change is ignored.
RemembersLevelAlways == lastSwitch' = switch

RemembersLevel == lastSwitch' = IF Bounces THEN lastSwitch ELSE switch

ReadModeSwitch ==
    /\ stage = "switch" /\ ~Blocked
    /\ stage' = "monitor"
    /\ RemembersLevel
    /\ IF switch = lastSwitch \/ Bounces
       THEN UNCHANGED <<switchAge, masterVars>>
       ELSE /\ switchAge' = 0
            /\ CASE switch = "HIGH" /\ mode = "MONITOR" /\ ~Refuses -> SwitchToMaster
                 [] switch = "LOW" /\ mode = "MASTER" -> SwitchToMonitor
                 [] OTHER -> UNCHANGED masterVars
    /\ ChangesMode
    /\ UNCHANGED <<monitorVars, rx, txnAge, switch, owed, c2kAge, forgotten>>

-----------------------------------------------------------------------------
(* Around the loop.                                                        *)

\* REBOOT, or a reset at any point.  Everything in RAM is lost.
GatewayReboot ==
    /\ "REBOOT" \in SerialCommands
    /\ Reboot
    /\ lastRequest' = [addr |-> 0, cmd |-> 0, age |-> RespGap]
    /\ devs' = [a \in Devices |-> UnknownDevice]
    /\ events' = [i \in 0..(LogSize - 1) |-> NoEvent]
    /\ eventHead' = 0 /\ eventCount' = 0 /\ checkAge' = 0
    /\ stage' = "monitor" /\ rx' = <<>> /\ txnAge' = 0
    /\ lastSwitch' = "LOW" /\ switchAge' = 0
    /\ passiveAge' = RespGap
    /\ forgotten' = (c2kAge < QuietLimit)
    /\ UNCHANGED <<switch, owed, c2kAge>>

OperatorFlipsSwitch ==
    /\ switch' = IF switch = "LOW" THEN "HIGH" ELSE "LOW"
    /\ UNCHANGED <<masterVars, monitorVars, loopVars, lastSwitch, switchAge, owed,
                   historyVars>>

\* A frame on the line reaches the UART unless DE disables the receiver.
Arrives(f) ==
    IF de = "HIGH" THEN UNCHANGED rx
    ELSE Len(rx) < RxMax /\ rx' = Append(rx, f)

C2000MAsks(a) ==
    /\ C2000M
    /\ Arrives(MasterFrame(a))
    /\ UNCHANGED <<masterVars, monitorVars, stage, txnAge, switchVars, owed,
                   historyVars>>

\* A device answers late, in time, or never.
DeviceAnswers(a) ==
    /\ a \in owed
    /\ owed' = owed \ {a}
    /\ Arrives(DeviceFrame(a))
    /\ UNCHANGED <<masterVars, monitorVars, stage, txnAge, switchVars, historyVars>>

Tick ==
    /\ MasterTick /\ MonitorTick
    /\ txnAge' = Aged(txnAge, RespTimeout)
    /\ switchAge' = Aged(switchAge, Debounce)
    /\ passiveAge' = IF mode = "MONITOR" THEN Aged(passiveAge, RespGap) ELSE 0
    /\ c2kAge' = Aged(c2kAge, QuietLimit)
    /\ forgotten' = (forgotten /\ c2kAge' < QuietLimit)
    /\ UNCHANGED <<stage, rx, switch, lastSwitch, owed>>

LoopStep ==
    \/ MonitorReads \/ MonitorDone
    \/ MasterPolls \/ TransmitEnds \/ TransactionReceives \/ TransactionTimesOut
    \/ SerialDone
    \/ ReadModeSwitch

Next ==
    \/ LoopStep
    \/ SerialMode
    \/ \E a \in Devices : SerialCommand(a)
    \/ SerialAutoPolling
    \/ GatewayReboot
    \/ OperatorFlipsSwitch
    \/ \E a \in Devices : C2000MAsks(a) \/ DeviceAnswers(a)
    \/ Tick

Spec == Init /\ [][Next]_vars

\* The Arduino runtime calls loop() for ever and time passes.
FairSpec == Spec /\ WF_vars(LoopStep) /\ WF_vars(Tick)

-----------------------------------------------------------------------------
(* Properties.                                                             *)

\* MASTER mode is entered only after the bus monitor has processed no frame of
\* a C2000M for DetectTimeout, up to the RespGap for which a repeated request
\* may pass for an answer (main.cpp:305-312, orion_master.cpp:40-58).  A frame
\* seen in MASTER mode, in the first RespGap after it, or before a reset does not
\* count: the code does not see it or does not remember it.
EntersAfterBusSilence ==
    [][mode = "MONITOR" /\ mode' = "MASTER"
         => forgotten \/ c2kAge > DetectTimeout - RespGap]_vars

\* No device is ever addressed by a passive gateway, whatever the external
\* system commands and whenever the mode changes (main.cpp:454-516 leave the
\* check to transmitPacket).
PassiveAsksNobody ==
    [][owed' \subseteq owed \/ mode = "MASTER"]_vars

\* A change of the mode switch that stays is acted on, also when its edge falls
\* into the debounce time, the loop is blocked or the external system changes the
\* mode meanwhile.  What counts is the change: a switch that already lay at LOW
\* when MASTER_ON came is not obeyed (main.cpp:182-221).
SwitchChangeObeyed ==
    /\ switch = "LOW" /\ lastSwitch = "HIGH" ~> mode = "MONITOR" \/ switch = "HIGH"
    /\ switch = "HIGH" /\ lastSwitch = "LOW"
         ~> mode = "MASTER" \/ Refuses \/ switch = "LOW"

\* In MASTER mode auto-poll, while it is on, reaches every device again and again,
\* whichever devices stay silent (orion_master.cpp:445-486).
EveryDevicePolled ==
    \A a \in Devices :
        \/ []<>(txn.auto /\ txn.addr = a /\ txn.cmd = "READ_EVENT")
        \/ []<>(mode = "MONITOR")
        \/ []<>~autoPolling
=============================================================================
