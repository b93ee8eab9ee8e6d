---------------------------- MODULE GatewayProofs ----------------------------
(***************************************************************************)
(* The loop of the gateway uses the class OrionMaster as the class allows, *)
(* so what is proved of the class holds of the gateway; and what the class *)
(* was told about agrees, up to the gap of the monitor, with the frames of *)
(* the C2000M that the gateway has really read.                            *)
(***************************************************************************)
EXTENDS Gateway, OrionMasterProofs

-----------------------------------------------------------------------------
(* The gateway drives the class.                                           *)

LEMMA StepIsMasterStep ==
    ASSUME [Next]_vars
    PROVE  [MasterNext]_masterVars
<1>1. CASE UNCHANGED vars
  BY <1>1 DEF vars
<1>2. CASE MonitorReads
  BY <1>2 DEF MonitorReads, OnPacket, MasterNext
<1>3. CASE MonitorDone \/ SerialDone \/ OperatorFlipsSwitch
  BY <1>3 DEF MonitorDone, SerialDone, OperatorFlipsSwitch
<1>4. CASE MasterPolls
  BY <1>4 DEF MasterPolls, MasterNext
<1>5. CASE TransmitEnds \/ TransactionReceives \/ TransactionTimesOut
  BY <1>5 DEF TransmitEnds, TransactionReceives, TransactionTimesOut, MasterNext
<1>6. CASE ReadModeSwitch
  <2>1. SwitchToMaster \/ SwitchToMonitor \/ UNCHANGED masterVars
    BY <1>6 DEF ReadModeSwitch
  <2> QED
    BY <2>1 DEF MasterNext
<1>7. CASE SerialMode \/ SerialAutoPolling
  BY <1>7 DEF SerialMode, SerialAutoPolling, MasterNext
<1>8. ASSUME NEW a \in Devices, SerialCommand(a)
      PROVE  [MasterNext]_masterVars
  <2>1. a \in Addresses /\ "ARM_ZONE" \in Commands
    BY GatewayAssumption DEF Commands
  <2>2. Command(a, "ARM_ZONE") \/ UNCHANGED masterVars
    BY <1>8 DEF SerialCommand
  <2> QED
    BY <2>1, <2>2 DEF MasterNext
<1>9. CASE GatewayReboot
  BY <1>9 DEF GatewayReboot, MasterNext
<1>10. ASSUME NEW a \in Devices, C2000MAsks(a) \/ DeviceAnswers(a)
       PROVE  UNCHANGED masterVars
  BY <1>10 DEF C2000MAsks, DeviceAnswers
<1>11. CASE Tick
  BY <1>11 DEF Tick, MasterNext
<1> QED
  BY <1>1, <1>2, <1>3, <1>4, <1>5, <1>6, <1>7, <1>8, <1>9, <1>10, <1>11 DEF Next, LoopStep

\* The loop calls the class only as MasterSpec lets it be called: every step of the gateway
\* is a step of the class or leaves it alone (main.cpp:840-877).
THEOREM GatewayDrivesMaster == Spec => MasterSpec
<1>1. Init => MasterInit
  BY DEF Init
<1>2. [Next]_vars => [MasterNext]_masterVars
  BY StepIsMasterStep
<1> QED
  BY <1>1, <1>2, PTL DEF Spec, MasterSpec

\* A device is asked only in MASTER mode, whatever the external system commands and whenever
\* the mode changes (main.cpp:454-516, orion_master.cpp:234-262).
THEOREM PassiveIsMute == Spec => PassiveAsksNobody
<1>1. MasterInv /\ [Next]_vars => [owed' \subseteq owed \/ mode = "MASTER"]_vars
  <2> SUFFICES ASSUME MasterInv, Next
               PROVE  owed' \subseteq owed \/ mode = "MASTER"
    OBVIOUS
  <2>1. CASE TransmitEnds
    BY <2>1 DEF TransmitEnds, TransmitDone, MasterInv, Idle
  <2>2. CASE ~TransmitEnds
    BY <2>2 DEF Next, LoopStep, MonitorReads, MonitorDone, MasterPolls, TransactionReceives,
       TransactionTimesOut, SerialDone, ReadModeSwitch, SerialMode, SerialCommand,
       SerialAutoPolling, GatewayReboot, OperatorFlipsSwitch, C2000MAsks, DeviceAnswers, Tick
  <2> QED
    BY <2>1, <2>2
<1> QED
  BY <1>1, GatewayDrivesMaster, MasterInvariant, PTL DEF Spec, PassiveAsksNobody

-----------------------------------------------------------------------------
(* What the class was told agrees with what was read.                      *)

AgesOK ==
    /\ lastRequest = [addr |-> lastRequest.addr, cmd |-> lastRequest.cmd,
                      age |-> lastRequest.age]
    /\ lastRequest.age \in 0..RespGap /\ passiveAge \in 0..RespGap
    /\ c2kAge \in 0..QuietLimit

\* A request read since the gateway went passive was passed on, so a frame taken for its
\* answer comes within the gap of a notification; hence no frame of the C2000M that counts
\* is more than the gap younger than the last notification.
HeardInv ==
    /\ AgesOK
    /\ mode = "MONITOR" /\ lastRequest.age < passiveAge => heardAge <= lastRequest.age
    /\ ~forgotten => heardAge <= c2kAge + RespGap

Numbers == /\ DetectTimeout \in Nat /\ RespGap \in Nat \ {0}
           /\ QuietLimit = DetectTimeout + 1

LEMMA Constants == Numbers
BY MasterAssumption, MonitorAssumption DEF Numbers, QuietLimit

LEMMA HeardInit == Init => HeardInv
<1> SUFFICES ASSUME Init PROVE HeardInv
  OBVIOUS
<1>1. /\ lastRequest = [addr |-> 0, cmd |-> 0, age |-> RespGap] /\ passiveAge = RespGap
      /\ c2kAge = QuietLimit /\ heardAge = DetectTimeout + 1
  BY DEF Init, MasterInit, MonitorInit
<1> QED
  BY <1>1, Constants DEF HeardInv, AgesOK, Numbers

\* A step that lets no time pass and reads no frame; it may change the mode.
LEMMA HeardKept ==
    ASSUME HeardInv, UNCHANGED <<lastRequest, heardAge, c2kAge, forgotten>>,
           \/ mode' = mode /\ passiveAge' = passiveAge
           \/ passiveAge' = 0
    PROVE  HeardInv'
BY Constants DEF HeardInv, AgesOK, Numbers

LEMMA ReadingHeard ==
    ASSUME MasterInv, HeardInv, MonitorReads
    PROVE  HeardInv'
<1> DEFINE f == Head(rx)
<1>0. Numbers /\ heardAge \in Nat
  BY Constants, MasterAssumption DEF MasterInv, MasterTypeOK
<1>1. /\ IF IsResponse(f) THEN lastRequest' = lastRequest
         ELSE lastRequest' = [addr |-> f.addr, cmd |-> f.body[1], age |-> 0]
      /\ mode' = mode /\ passiveAge' = passiveAge
  BY DEF MonitorReads, ProcessPacket, DecodeResponse, DecodeRequest, OnPacket, NotifyBusRequest,
     ObserveFrame, masterVars, modeVars
<1>2. IF ~IsResponse(f) /\ mode = "MONITOR" THEN heardAge' = 0 ELSE heardAge' = heardAge
  BY DEF MonitorReads, OnPacket, NotifyBusRequest, masterVars, modeVars
<1>3. IF f.from = "master"
      THEN c2kAge' = 0 /\ (~forgotten' => mode # "MASTER" /\ ~(passiveAge < RespGap))
      ELSE UNCHANGED <<c2kAge, forgotten>>
  BY DEF MonitorReads, ObserveFrame
<1>4. mode = "MASTER" \/ mode = "MONITOR"
  BY DEF MasterInv, MasterTypeOK, Modes
<1> HIDE DEF f
<1>5. AgesOK'
  <2>1. c2kAge' \in 0..QuietLimit /\ passiveAge' \in 0..RespGap
    BY <1>0, <1>1, <1>3 DEF HeardInv, AgesOK, Numbers
  <2>2. /\ lastRequest' = [addr |-> lastRequest'.addr, cmd |-> lastRequest'.cmd,
                           age |-> lastRequest'.age]
        /\ lastRequest'.age \in 0..RespGap
    BY <1>0, <1>1 DEF HeardInv, AgesOK, Numbers
  <2> QED
    BY <2>1, <2>2 DEF AgesOK
<1>6. mode' = "MONITOR" /\ lastRequest'.age < passiveAge' => heardAge' <= lastRequest'.age
  BY <1>0, <1>1, <1>2 DEF HeardInv, AgesOK, Numbers
<1>7. ASSUME ~forgotten'
      PROVE  heardAge' <= c2kAge' + RespGap
  <2>1. CASE f.from = "master"
    <3>1. mode = "MONITOR" /\ passiveAge = RespGap /\ c2kAge' = 0
      BY <1>0, <1>3, <1>4, <1>7, <2>1 DEF HeardInv, AgesOK, Numbers
    <3>2. CASE IsResponse(f)
      <4>1. lastRequest.age < RespGap /\ heardAge' = heardAge
        BY <1>2, <3>2 DEF IsResponse
      <4> QED
        BY <1>0, <3>1, <4>1 DEF HeardInv, AgesOK, Numbers
    <3>3. CASE ~IsResponse(f)
      BY <1>0, <1>2, <3>1, <3>3 DEF Numbers
    <3> QED
      BY <3>2, <3>3
  <2>2. CASE f.from # "master"
    <3>1. c2kAge' = c2kAge /\ ~forgotten /\ c2kAge \in Nat
      BY <1>0, <1>3, <1>7, <2>2 DEF HeardInv, AgesOK, Numbers
    <3> QED
      BY <1>0, <1>2, <3>1 DEF HeardInv, Numbers
  <2> QED
    BY <2>1, <2>2
<1> QED
  BY <1>5, <1>6, <1>7 DEF HeardInv

LEMMA TickHeard ==
    ASSUME MasterInv, HeardInv, Tick
    PROVE  HeardInv'
<1>0. Numbers /\ heardAge \in 0..QuietLimit
  BY Constants, MasterAssumption DEF MasterInv, MasterTypeOK, Numbers
<1>1. /\ lastRequest' = [lastRequest EXCEPT !.age = Aged(@, RespGap)]
      /\ heardAge' = Aged(heardAge, QuietLimit) /\ mode' = mode
      /\ passiveAge' = IF mode = "MONITOR" THEN Aged(passiveAge, RespGap) ELSE 0
      /\ c2kAge' = Aged(c2kAge, QuietLimit)
      /\ ~forgotten' => ~forgotten \/ ~(c2kAge' < QuietLimit)
  BY DEF Tick, MonitorTick, MasterTick, QuietLimit
<1>2. lastRequest' = [addr |-> lastRequest.addr, cmd |-> lastRequest.cmd,
                      age |-> Aged(lastRequest.age, RespGap)]
  BY <1>1 DEF HeardInv, AgesOK
<1>3. AgesOK'
  BY <1>0, <1>1, <1>2 DEF HeardInv, AgesOK, Numbers, Aged
<1>4. mode' = "MONITOR" /\ lastRequest'.age < passiveAge' => heardAge' <= lastRequest'.age
  BY <1>0, <1>1, <1>2 DEF HeardInv, AgesOK, Numbers, Aged
<1>5. ~forgotten' => heardAge' <= c2kAge' + RespGap
  BY <1>0, <1>1 DEF HeardInv, AgesOK, Numbers, Aged
<1> QED
  BY <1>3, <1>4, <1>5 DEF HeardInv

LEMMA RebootHeard ==
    ASSUME HeardInv, GatewayReboot
    PROVE  HeardInv'
<1>1. /\ lastRequest' = [addr |-> 0, cmd |-> 0, age |-> RespGap] /\ passiveAge' = RespGap
      /\ c2kAge' = c2kAge /\ heardAge' = DetectTimeout + 1
  BY DEF GatewayReboot, Reboot
<1>2. ~forgotten' => ~(c2kAge < QuietLimit)
  BY DEF GatewayReboot
<1> QED
  BY <1>1, <1>2, Constants DEF HeardInv, AgesOK, Numbers

LEMMA HeardStep ==
    ASSUME MasterInv, HeardInv, [Next]_vars
    PROVE  HeardInv'
<1>1. CASE UNCHANGED vars
  BY <1>1, HeardKept DEF vars, masterVars, modeVars, monitorVars, historyVars
<1>2. CASE MonitorReads \/ Tick \/ GatewayReboot
  BY <1>2, ReadingHeard, TickHeard, RebootHeard
<1>3. CASE MonitorDone
  BY <1>3, HeardKept DEF MonitorDone, CheckOfflineDevices, masterVars, modeVars, monitorVars,
     historyVars
<1>4. CASE MasterPolls
  <2>1. /\ UNCHANGED <<lastRequest, heardAge, c2kAge, forgotten>> /\ ChangesMode
    BY <1>4 DEF MasterPolls, monitorVars, Poll, PollFallback, PollNextDevice, PollQuiet
  <2> QED
    BY <2>1, HeardKept DEF ChangesMode
<1>5. CASE TransmitEnds \/ TransactionReceives \/ TransactionTimesOut
  BY <1>5, HeardKept DEF TransmitEnds, TransactionReceives, TransactionTimesOut, TransmitDone,
     TransactionDone, modeVars, monitorVars, historyVars
<1>6. CASE ReadModeSwitch
  <2>1. SwitchToMaster \/ SwitchToMonitor \/ UNCHANGED masterVars
    BY <1>6 DEF ReadModeSwitch
  <2>2. /\ UNCHANGED <<lastRequest, heardAge, c2kAge, forgotten>> /\ ChangesMode
    BY <1>6, <2>1 DEF ReadModeSwitch, SwitchToMaster, SwitchToMonitor, masterVars, modeVars,
       monitorVars
  <2> QED
    BY <2>2, HeardKept DEF ChangesMode
<1>7. CASE SerialMode
  <2>1. /\ UNCHANGED <<lastRequest, heardAge, c2kAge, forgotten>> /\ ChangesMode
    BY <1>7 DEF SerialMode, SwitchToMaster, SwitchToMonitor, monitorVars
  <2> QED
    BY <2>1, HeardKept DEF ChangesMode
<1>8. ASSUME NEW a \in Devices, SerialCommand(a) \/ C2000MAsks(a) \/ DeviceAnswers(a)
      PROVE  HeardInv'
  <2>1. UNCHANGED <<lastRequest, heardAge, c2kAge, forgotten, mode, passiveAge>>
    BY <1>8 DEF SerialCommand, Command, C2000MAsks, DeviceAnswers, masterVars, modeVars,
       monitorVars, historyVars
  <2> QED
    BY <2>1, HeardKept
<1>9. CASE SerialAutoPolling \/ SerialDone \/ OperatorFlipsSwitch
  <2>1. UNCHANGED <<lastRequest, heardAge, c2kAge, forgotten, mode, passiveAge>>
    BY <1>9 DEF SerialAutoPolling, SetAutoPolling, SerialDone, OperatorFlipsSwitch, masterVars,
       modeVars, monitorVars, historyVars
  <2> QED
    BY <2>1, HeardKept
<1> QED
  BY <1>1, <1>2, <1>3, <1>4, <1>5, <1>6, <1>7, <1>8, <1>9 DEF Next, LoopStep

\* MASTER mode is entered only after the monitor has read no frame of a C2000M for the
\* detection timeout, up to the gap in which a request may pass for an answer, for every
\* timing (main.cpp:305-312, orion_master.cpp:40-58, orion_bus_monitor.cpp:153-167).
THEOREM MasterAfterBusSilence == Spec => EntersAfterBusSilence
<1>1. Spec => []MasterInv /\ EntersAfterSilence
  BY GatewayDrivesMaster, MasterInvariant, MasterAfterSilence, PTL
<1>2. Spec => []HeardInv
  BY <1>1, HeardInit, HeardStep, PTL DEF Spec
<1>3. /\ MasterInv /\ HeardInv
      /\ [mode = "MONITOR" /\ mode' = "MASTER" => heardAge > DetectTimeout]_masterVars
      => [mode = "MONITOR" /\ mode' = "MASTER"
            => forgotten \/ c2kAge > DetectTimeout - RespGap]_vars
  <2> SUFFICES ASSUME MasterInv, HeardInv, mode = "MONITOR", mode' = "MASTER", ~forgotten,
                      [mode = "MONITOR" /\ mode' = "MASTER"
                         => heardAge > DetectTimeout]_masterVars
               PROVE  c2kAge > DetectTimeout - RespGap
    OBVIOUS
  <2>1. heardAge > DetectTimeout /\ heardAge \in Nat
    BY MasterAssumption DEF masterVars, modeVars, MasterInv, MasterTypeOK
  <2> QED
    BY <2>1, Constants DEF HeardInv, AgesOK, Numbers
<1> QED
  BY <1>1, <1>2, <1>3, PTL DEF EntersAfterSilence, EntersAfterBusSilence
=============================================================================
