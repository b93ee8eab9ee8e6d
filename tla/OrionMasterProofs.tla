------------------------- MODULE OrionMasterProofs -------------------------
(* Proofs about OrionMaster, for every value of its constants. *)
EXTENDS OrionMaster, TLAPS

\* What the calls preserve.  The line is driven exactly while a frame leaves, and
\* only in MASTER mode.  As long as the traffic is recent, its age modulo the
\* clock's period is its real age; and the flag is down only when it is not.
MasterInv ==
    /\ MasterTypeOK
    /\ de = "HIGH" => txn.stage = "sending"
    /\ txn # Idle => mode = "MASTER"
    /\ heardAge <= DetectTimeout => trafficAge = heardAge
    /\ ~masterDetected => heardAge > DetectTimeout

-----------------------------------------------------------------------------

\* The clock's difference counts up and wraps to a value within its period.
LEMMA WrapStep ==
    ASSUME NEW P \in Nat \ {0}, NEW x \in 0..(P - 1)
    PROVE  /\ (x + 1) % P \in 0..(P - 1)
           /\ x + 1 < P => (x + 1) % P = x + 1
  OBVIOUS

LEMMA AgedBounds ==
    ASSUME NEW limit \in Nat, NEW age \in 0..limit
    PROVE  /\ Aged(age, limit) \in 0..limit
           /\ age < limit => Aged(age, limit) = age + 1
           /\ age = limit => Aged(age, limit) = limit
  BY DEF Aged

\* The commands auto-poll sends are commands of the class.
LEMMA AutoCommandType == \A p \in 0..3 : AutoCommand[p] \in Commands
  BY DEF AutoCommand, Commands

\* Wherever doAutoPoll moves to is a uint8_t address and one of the four phases.
LEMMA AdvanceType ==
    ASSUME MasterTypeOK, AdvancePoll
    PROVE  pollPhase' \in 0..3 /\ pollAddr' \in Bytes
<1>1. pollPhase' \in 0..3
  BY DEF AdvancePoll, MasterTypeOK
<1>2. (pollAddr + 1) % Byte \in Bytes
  BY WrapStep, MasterAssumption DEF MasterTypeOK, Bytes
<1> QED  BY <1>1, <1>2 DEF AdvancePoll, MasterTypeOK

\* Once updateMasterDetection lets the flag go, the traffic is really old.
LEMMA NotDetectedIsOld ==
    ASSUME MasterInv, ~StillDetected
    PROVE  heardAge > DetectTimeout
<1>1. CASE ~masterDetected
  BY <1>1 DEF MasterInv
<1>2. CASE masterDetected /\ trafficAge = Never
  BY <1>2, MasterAssumption DEF MasterInv, MasterTypeOK, Never
<1>3. CASE masterDetected /\ trafficAge # Never /\ ~(trafficAge <= DetectTimeout)
  BY <1>3, MasterAssumption DEF MasterInv, MasterTypeOK, Never
<1> QED  BY <1>1, <1>2, <1>3 DEF StillDetected

LEMMA InitInv == MasterInit => MasterInv
<1> SUFFICES ASSUME MasterInit PROVE MasterInv
  OBVIOUS
<1>1. 1 \in Bytes /\ MaxAddress \in Bytes
  BY MasterAssumption DEF Bytes
<1>2. pollMin \in Bytes /\ pollMax \in Bytes /\ pollAddr \in Bytes
  BY <1>1 DEF MasterInit
<1>3. /\ mode \in Modes /\ de \in Levels /\ de # "HIGH"
      /\ masterDetected \in BOOLEAN /\ autoPolling \in BOOLEAN
  BY DEF MasterInit, Modes, Levels
<1>4. /\ trafficAge \in {Never} \cup 0..(MillisPeriod - 1)
      /\ txn = Idle /\ txn \in Transactions \cup {Idle}
  BY DEF MasterInit
<1>5. /\ heardAge \in 0..(DetectTimeout + 1) /\ heardAge > DetectTimeout
      /\ pollPhase \in 0..3 /\ pollAge \in 0..PollInterval
  BY MasterAssumption DEF MasterInit
<1> QED  BY <1>2, <1>3, <1>4, <1>5, MasterAssumption DEF MasterInv, MasterTypeOK

LEMMA StepInv == MasterInv /\ [MasterNext]_masterVars => MasterInv'
<1> SUFFICES ASSUME MasterInv, [MasterNext]_masterVars PROVE MasterInv'
  OBVIOUS
<1> USE MasterAssumption
<1>1. CASE NotifyBusRequest
  BY <1>1 DEF NotifyBusRequest, pollVars, lineVars, MasterInv, MasterTypeOK,
     Never
<1>2. CASE SwitchToMaster
  BY <1>2 DEF SwitchToMaster, lineVars, MasterInv, MasterTypeOK, Modes, Blocked
<1>3. CASE SwitchToMonitor
  BY <1>3 DEF SwitchToMonitor, pollVars, MasterInv, MasterTypeOK, Modes, Levels,
     Blocked
<1>4. ASSUME NEW a \in Addresses, NEW c \in Commands, Command(a, c)
      PROVE  MasterInv'
  BY <1>4 DEF Command, MayTransmit, Transmit, modeVars, pollVars, MasterInv,
     MasterTypeOK, Transactions, Levels
<1>5. CASE TransmitDone
  <2>1. txn \in Transactions
    BY <1>5 DEF TransmitDone, MasterInv, MasterTypeOK, Idle
  <2>2. txn' \in Transactions
    BY <1>5, <2>1 DEF TransmitDone, Transactions
  <2>3. txn # Idle
    BY <1>5 DEF TransmitDone, Idle
  <2> QED  BY <1>5, <2>2, <2>3 DEF TransmitDone, modeVars, pollVars, MasterInv,
              MasterTypeOK, Levels
<1>6. CASE TransactionDone
  <2>1. pollPhase' \in 0..3 /\ pollAddr' \in Bytes
    BY <1>6, AdvanceType DEF TransactionDone, MasterInv, MasterTypeOK
  <2>2. de = "LOW"
    BY <1>6 DEF TransactionDone, MasterInv, MasterTypeOK, Levels
  <2> QED  BY <1>6, <2>1, <2>2 DEF TransactionDone, modeVars, MasterInv,
              MasterTypeOK, Idle
<1>7. CASE Poll
  <2>1. masterDetected' \in BOOLEAN /\ (~masterDetected' => heardAge > DetectTimeout)
    <3>1. masterDetected' = StillDetected
      BY <1>7 DEF Poll, PollFallback, PollNextDevice, PollQuiet
    <3> QED  BY <3>1, NotDetectedIsOld DEF StillDetected
  <2>2. CASE PollFallback
    BY <2>1, <2>2 DEF PollFallback, pollVars, MasterInv, MasterTypeOK, Modes,
       Levels, Blocked
  <2>3. CASE PollNextDevice
    <3>1. CASE MayTransmit(pollAddr)
      <4>1. AutoCommand[pollPhase] \in Commands
        BY AutoCommandType DEF MasterInv, MasterTypeOK
      <4>2. /\ de' = "HIGH"
            /\ txn' = [stage |-> "sending", addr |-> pollAddr,
                       cmd |-> AutoCommand[pollPhase], auto |-> TRUE]
        BY <2>3, <3>1 DEF PollNextDevice, Transmit
      <4>3. txn' \in Transactions /\ txn'.stage = "sending"
        BY <3>1, <4>1, <4>2 DEF MayTransmit, Transactions
      <4>4. mode' = "MASTER" /\ pollAge' \in 0..PollInterval
        BY <2>3 DEF PollNextDevice
      <4> QED  BY <2>1, <2>3, <3>1, <4>2, <4>3, <4>4 DEF PollNextDevice, MasterInv,
                  MasterTypeOK, Levels
    <3>2. CASE ~MayTransmit(pollAddr)
      <4>1. pollPhase' \in 0..3 /\ pollAddr' \in Bytes
        BY <2>3, <3>2, AdvanceType DEF PollNextDevice, MasterInv
      <4> QED  BY <2>1, <2>3, <3>2, <4>1 DEF PollNextDevice, lineVars, MasterInv,
                  MasterTypeOK
    <3> QED  BY <3>1, <3>2
  <2>4. CASE PollQuiet
    BY <2>1, <2>4 DEF PollQuiet, pollVars, lineVars, MasterInv, MasterTypeOK
  <2> QED  BY <1>7, <2>2, <2>3, <2>4 DEF Poll
<1>8. ASSUME NEW enable \in BOOLEAN, SetAutoPolling(enable)
      PROVE  MasterInv'
  BY <1>8 DEF SetAutoPolling, modeVars, lineVars, MasterInv, MasterTypeOK
<1>9. ASSUME NEW lo \in Bytes, NEW hi \in Bytes, SetPollRange(lo, hi)
      PROVE  MasterInv'
  <2>1. 1 \in Bytes /\ MaxAddress \in Bytes
    BY DEF Bytes
  <2>2. pollMin' \in Bytes /\ pollMax' \in Bytes /\ pollAddr' = pollMin'
    BY <1>9, <2>1 DEF SetPollRange
  <2> QED  BY <1>9, <2>2 DEF SetPollRange, modeVars, lineVars, MasterInv, MasterTypeOK
<1>10. CASE Reboot
  <2>1. 1 \in Bytes /\ MaxAddress \in Bytes
    BY DEF Bytes
  <2>2. pollMin' \in Bytes /\ pollMax' \in Bytes /\ pollAddr' \in Bytes
    BY <1>10, <2>1 DEF Reboot
  <2>3. /\ mode' \in Modes /\ de' \in Levels /\ de' # "HIGH"
        /\ masterDetected' \in BOOLEAN /\ autoPolling' \in BOOLEAN
    BY <1>10 DEF Reboot, Modes, Levels
  <2>4. trafficAge' = Never /\ txn' = Idle /\ pollPhase' = 0
    BY <1>10 DEF Reboot
  <2>5. /\ heardAge' \in 0..(DetectTimeout + 1) /\ heardAge' > DetectTimeout
        /\ pollAge' \in 0..PollInterval
    BY <1>10 DEF Reboot
  <2> QED  BY <2>2, <2>3, <2>4, <2>5 DEF MasterInv, MasterTypeOK
<1>11. CASE MasterTick
  <2>1. /\ heardAge' \in 0..(DetectTimeout + 1)
        /\ heardAge <= DetectTimeout => heardAge' = heardAge + 1
        /\ heardAge > DetectTimeout => heardAge' = heardAge
    BY <1>11 DEF MasterTick, MasterInv, MasterTypeOK, Aged
  <2>2. pollAge' \in 0..PollInterval
    BY <1>11, AgedBounds DEF MasterTick, MasterInv, MasterTypeOK
  <2>3. /\ trafficAge' \in {Never} \cup 0..(MillisPeriod - 1)
        /\ heardAge < DetectTimeout => trafficAge' = heardAge + 1
    <3>1. CASE trafficAge = Never
      BY <1>11, <3>1 DEF MasterTick, MasterInv, MasterTypeOK, Never
    <3>2. CASE trafficAge # Never
      <4>1. trafficAge \in 0..(MillisPeriod - 1) /\ MillisPeriod \in Nat \ {0}
        BY <3>2 DEF MasterInv, MasterTypeOK
      <4>2. trafficAge' = (trafficAge + 1) % MillisPeriod
        BY <1>11, <3>2 DEF MasterTick
      <4>3. /\ trafficAge' \in 0..(MillisPeriod - 1)
            /\ trafficAge + 1 < MillisPeriod => trafficAge' = trafficAge + 1
        BY <4>1, <4>2, WrapStep
      <4> QED  BY <4>1, <4>3 DEF MasterInv, MasterTypeOK
    <3> QED  BY <3>1, <3>2
  <2> QED  BY <1>11, <2>1, <2>2, <2>3 DEF MasterTick, lineVars, MasterInv,
              MasterTypeOK
<1>12. CASE UNCHANGED masterVars
  BY <1>12 DEF masterVars, modeVars, pollVars, lineVars, MasterInv, MasterTypeOK
<1> QED  BY <1>1, <1>2, <1>3, <1>4, <1>5, <1>6, <1>7, <1>8, <1>9, <1>10, <1>11,
            <1>12 DEF MasterNext

-----------------------------------------------------------------------------

\* The inductive invariant holds for every timeout, clock period and bus size.
THEOREM MasterInvariant == MasterSpec => []MasterInv
  BY InitInv, StepInv, PTL DEF MasterSpec

\* The variables keep their types; in particular the poll address stays a byte
\* whatever range setPollRange is given.
THEOREM MasterTypeCorrect == MasterSpec => []MasterTypeOK
<1>1. MasterInv => MasterTypeOK
  BY DEF MasterInv
<1> QED  BY <1>1, MasterInvariant, PTL

\* A passive gateway never drives the line.
THEOREM PassiveIsSilent == MasterSpec => []TransmitsOnlyAsMaster
<1>1. MasterInv => TransmitsOnlyAsMaster
  BY DEF MasterInv, TransmitsOnlyAsMaster, Idle
<1> QED  BY <1>1, MasterInvariant, PTL

\* MASTER mode is entered only after a whole detection timeout of silence, also
\* when the millisecond counter wraps in between.
THEOREM MasterAfterSilence == MasterSpec => EntersAfterSilence
<1>1. MasterInv /\ [MasterNext]_masterVars
        => [mode = "MONITOR" /\ mode' = "MASTER" => heardAge > DetectTimeout]_masterVars
  <2> SUFFICES ASSUME MasterInv, MasterNext, mode = "MONITOR", mode' = "MASTER"
               PROVE  heardAge > DetectTimeout
    OBVIOUS
  <2>1. SwitchToMaster
    BY DEF MasterNext, NotifyBusRequest, SwitchToMonitor, Command, TransmitDone,
       TransactionDone, Poll, PollFallback, PollNextDevice, PollQuiet,
       SetAutoPolling, SetPollRange, Reboot, MasterTick, modeVars
  <2>2. ~masterDetected
    BY <2>1 DEF SwitchToMaster, Refuses
  <2> QED  BY <2>2 DEF MasterInv
<1> QED  BY <1>1, MasterInvariant, PTL DEF MasterSpec, EntersAfterSilence

\* Auto-poll never begins an exchange while a notified master is recent.
THEOREM PollAfterSilence == MasterSpec => NoPollOverMaster
<1>1. MasterInv /\ [MasterNext]_masterVars
        => [txn = Idle /\ txn'.auto => heardAge > DetectTimeout]_masterVars
  <2> SUFFICES ASSUME MasterInv, MasterNext, txn = Idle, txn'.auto
               PROVE  heardAge > DetectTimeout
    OBVIOUS
  <2>1. PollNextDevice
    BY DEF MasterNext, NotifyBusRequest, SwitchToMaster, SwitchToMonitor, Command,
       Transmit, TransmitDone, TransactionDone, Poll, PollFallback, PollQuiet,
       SetAutoPolling, SetPollRange, Reboot, MasterTick, lineVars, Idle
  <2>2. ~StillDetected
    BY <2>1 DEF PollNextDevice
  <2> QED  BY <2>2, NotDetectedIsOld
<1> QED  BY <1>1, MasterInvariant, PTL DEF MasterSpec, NoPollOverMaster
=============================================================================
