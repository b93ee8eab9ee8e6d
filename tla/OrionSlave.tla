----------------------------- MODULE OrionSlave -----------------------------
(***************************************************************************)
(* The class OrionSlave: a bus device that keeps zones, an event queue and *)
(* the encryption keys, and answers one request frame at a time.           *)
(*                                                                         *)
(* A request is a record: whether it is encrypted, the KeyXor byte, the    *)
(* command byte and its argument as they stand on the wire.  The field     *)
(* "meant" is what the sender meant; no definition of the device reads it. *)
(* An answer names what it carries, the message key it is encrypted under  *)
(* and the event or byte in it.                                            *)
(***************************************************************************)
EXTENDS Cipher, EventQueue, FiniteSets

CONSTANTS
    Zones,        \* the zone bytes 1.._zone_count
    FactoryKey    \* the global key set before begin()

ASSUME SlaveAssumption ==
    /\ Zones \subseteq Byte \ {{}}
    /\ FactoryKey \in Byte

VARIABLES
    slaveKey,       \* _global_key
    slaveMessage,   \* _message_key
    zones,          \* _zones[].status
    outbox          \* the answers the device has sent and nobody has read

slaveVars == <<slaveKey, slaveMessage, zones, queueVars>>

\* Bytes of the protocol, by their 1 bits.
CMD_PING             == {0}                \* 0x01
CMD_READ_DEVICE_TYPE == {1, 2}             \* 0x06
CMD_READ_VERSION     == {0, 1, 2}          \* 0x07
CMD_SET_GLOBAL_KEY   == {0, 4}             \* 0x11
CMD_READ_EVENT       == {5}                \* 0x20
CMD_CONFIRM_EVENT    == {0, 5}             \* 0x21
CMD_READ_STATUS      == {0, 1, 2, 4, 6}    \* 0x57
CMD_DISARM_ZONE      == {0, 1, 5, 6}       \* 0x63
CMD_ARM_ZONE         == {2, 5, 6}          \* 0x64
CMD_RESET_ALARM      == {0, 2, 5, 6}       \* 0x65

Statuses == {"ARMED", "DISARMED", "ALARM"}

SlaveTypeOK ==
    /\ QueueTypeOK
    /\ slaveKey \in Byte /\ slaveMessage \in Byte
    /\ zones \in [Zones -> Statuses]

SlaveInit ==
    /\ QueueInit
    /\ slaveKey = FactoryKey /\ slaveMessage = FactoryKey
    /\ zones = [z \in Zones |-> "DISARMED"]
    /\ outbox = <<>>

-----------------------------------------------------------------------------
(* The frame as the device reads it.                                       *)

MessageKeyOf(r) == MessageKey(r.keyXor, slaveKey)
CommandOf(r)    == IF r.encrypted THEN Decrypt(r.cmd, MessageKeyOf(r)) ELSE r.cmd
ArgumentOf(r)   == IF r.encrypted THEN Decrypt(r.arg, MessageKeyOf(r)) ELSE r.arg

Plain(kind)           == [kind |-> kind, key |-> {}, event |-> Blank]
Encrypted(kind, r)    == [kind |-> kind, key |-> MessageKeyOf(r), event |-> Blank]
EventAnswer(r)        == [Encrypted("event", r) EXCEPT !.event = OldestEvent]

PlainAnswers ==
    {<<CMD_PING, Plain("ack")>>, <<CMD_READ_DEVICE_TYPE, Plain("type")>>,
     <<CMD_READ_VERSION, Plain("version")>>}

-----------------------------------------------------------------------------
(* The handlers.                                                           *)

SendResponse(answer) == outbox' = Append(outbox, answer)

HandlePlain(r) ==
    /\ ~r.encrypted
    /\ \E reply \in PlainAnswers :
           CommandOf(r) = reply[1] /\ SendResponse(reply[2])
    /\ UNCHANGED slaveVars

HandleSetMessageKeyOnly(r) ==                         \* faulty variant
    /\ ~r.encrypted /\ CommandOf(r) = CMD_SET_GLOBAL_KEY
    /\ slaveMessage' = ArgumentOf(r)
    /\ SendResponse(Plain("ack"))
    /\ UNCHANGED <<slaveKey, zones, queueVars>>

HandleSetGlobalKey(r) ==
    /\ ~r.encrypted /\ CommandOf(r) = CMD_SET_GLOBAL_KEY
    /\ slaveKey' = ArgumentOf(r) /\ slaveMessage' = ArgumentOf(r)
    /\ SendResponse(Plain("ack"))
    /\ UNCHANGED <<zones, queueVars>>

HandleReadStatus(r) ==
    /\ CommandOf(r) = CMD_READ_STATUS
    /\ SendResponse(Encrypted("status", r))
    /\ UNCHANGED <<zones, queueVars>>

\* handleArm and handleDisarm: the application may refuse; a zone the device does
\* not have is acknowledged and nothing happens.
Switches(r, status, event) ==
    \E accepted \in BOOLEAN :
        /\ SendResponse(Encrypted(IF accepted THEN "ack" ELSE "nack", r))
        /\ IF accepted /\ ArgumentOf(r) \in Zones
           THEN /\ zones' = [zones EXCEPT ![ArgumentOf(r)] = status]
                /\ PushEvent(event)
           ELSE UNCHANGED <<zones, queueVars>>

HandleArm(r, event) ==
    CommandOf(r) = CMD_ARM_ZONE /\ Switches(r, "ARMED", event)

HandleDisarm(r, event) ==
    CommandOf(r) = CMD_DISARM_ZONE /\ Switches(r, "DISARMED", event)

HandleResetAlarm(r) ==
    /\ CommandOf(r) = CMD_RESET_ALARM
    /\ zones' = [z \in Zones |-> IF z = ArgumentOf(r) THEN "DISARMED" ELSE zones[z]]
    /\ SendResponse(Encrypted("ack", r))
    /\ UNCHANGED queueVars

\* The event leaves the queue before the answer is on the wire.
HandleReadEvent(r) ==
    /\ CommandOf(r) = CMD_READ_EVENT
    /\ IF count > 0
       THEN SendResponse(EventAnswer(r)) /\ PopEvent
       ELSE SendResponse(Encrypted("none", r)) /\ UNCHANGED queueVars
    /\ UNCHANGED zones

HandleConfirmEvent(r) ==
    /\ CommandOf(r) = CMD_CONFIRM_EVENT
    /\ SendResponse(Plain("ack"))
    /\ UNCHANGED <<zones, queueVars>>

EncryptedCommands ==
    {CMD_READ_STATUS, CMD_ARM_ZONE, CMD_DISARM_ZONE, CMD_RESET_ALARM, CMD_READ_EVENT,
     CMD_CONFIRM_EVENT}

\* processPacket for a frame that is answered; "event" is the one the command
\* causes, if any.
Processes(r, event) ==
    \/ HandlePlain(r)
    \/ HandleSetGlobalKey(r)
    \/ /\ r.encrypted
       /\ slaveMessage' = MessageKeyOf(r)
       /\ UNCHANGED slaveKey
       /\ \/ HandleReadStatus(r)
          \/ HandleArm(r, event)
          \/ HandleDisarm(r, event)
          \/ HandleResetAlarm(r)
          \/ HandleReadEvent(r)
          \/ HandleConfirmEvent(r)

\* "Unknown encrypted cmd": the frame's message key is kept and nobody answers.
IgnoresUnknown(r) ==
    /\ r.encrypted /\ CommandOf(r) \notin EncryptedCommands
    /\ slaveMessage' = MessageKeyOf(r)
    /\ UNCHANGED <<slaveKey, zones, queueVars, outbox>>

\* The application of the device reports an alarm: setZoneStatus, pushEvent.
ReportAlarm(z, event) ==
    /\ zones' = [zones EXCEPT ![z] = "ALARM"]
    /\ PushEvent(event)
    /\ UNCHANGED <<slaveKey, slaveMessage, outbox>>
=============================================================================
