------------------------------ MODULE OrionLink ------------------------------
(***************************************************************************)
(* The PC library (orion_protocol.c, orion_commands.c) talking to one      *)
(* OrionSlave over a serial line that loses frames and delivers answers    *)
(* late.  The host sends one command, waits for any answer or gives up,    *)
(* and does not look at who answered what.                                 *)
(***************************************************************************)
EXTENDS OrionSlave

CONSTANTS
    Keys,         \* the keys the operator sets
    HostZones,    \* the zones the operator names
    MaxIds,       \* bound: events queued by the device
    MaxFrames     \* bound: requests and answers on their way

ASSUME LinkAssumption ==
    /\ Keys \subseteq Byte /\ FactoryKey \in Keys
    /\ HostZones \subseteq Byte
    /\ MaxIds \in Nat /\ 1..MaxIds \subseteq Events /\ Events \subseteq Nat
    /\ MaxFrames \in Nat \ {0}

VARIABLES
    hostKey,       \* ctx->global_key
    hostMessage,   \* ctx->message_key
    pending,       \* the command orion_transact waits for
    inbox,         \* requests on their way to the device
    \* History, read by no action.
    nextId,        \* the events queued so far
    got,           \* the events read_event returned
    misread,       \* read_event returned bytes that are no event
    failed         \* a command returned -1

lineVars    == <<inbox, outbox>>
hostVars    == <<hostKey, hostMessage, pending>>
historyVars == <<nextId, got, misread, failed>>
vars        == <<slaveVars, hostVars, lineVars, historyVars>>

ZoneCommands == {CMD_ARM_ZONE, CMD_DISARM_ZONE, CMD_RESET_ALARM}

Order(c, a) == [cmd |-> c, arg |-> a]

Nothing == Order({}, {})

\* The public functions of orion_commands.c, with the argument each puts in its frame.
Orders ==
    [cmd : {CMD_SET_GLOBAL_KEY}, arg : Keys]
        \cup [cmd : ZoneCommands, arg : HostZones]
        \cup [cmd : {CMD_READ_EVENT, CMD_CONFIRM_EVENT, CMD_READ_DEVICE_TYPE}, arg : {{}}]
        \cup {Order(CMD_READ_STATUS, {1})}

PlainOrders == {CMD_SET_GLOBAL_KEY, CMD_READ_DEVICE_TYPE}

\* orion_packet_build, orion_packet_build_encrypted
Frame(order) ==
    IF order.cmd \in PlainOrders
    THEN [encrypted |-> FALSE, keyXor |-> KeyXor(hostKey, hostMessage),
          cmd |-> order.cmd, arg |-> order.arg, meant |-> order]
    ELSE [encrypted |-> TRUE, keyXor |-> KeyXor(hostKey, hostMessage),
          cmd |-> Encrypt(order.cmd, hostMessage), arg |-> Encrypt(order.arg, hostMessage),
          meant |-> order]

Init ==
    /\ SlaveInit
    /\ hostKey = FactoryKey /\ hostMessage = FactoryKey
    /\ pending = Nothing
    /\ inbox = <<>>
    /\ nextId = 0 /\ got = <<>> /\ misread = FALSE /\ failed = FALSE

-----------------------------------------------------------------------------
(* The host.                                                               *)

\* orion_transact: flush what has arrived, then write the request.
HostSends(order) ==
    /\ pending = Nothing
    /\ \E n \in 0..Len(outbox) : outbox' = SubSeq(outbox, n + 1, Len(outbox))
    /\ Len(inbox) + Len(outbox') < MaxFrames
    /\ inbox' = Append(inbox, Frame(order))
    /\ pending' = order
    /\ UNCHANGED <<slaveVars, hostKey, hostMessage, historyVars>>

HostKeepsItsKey ==                                   \* faulty variant
    IF pending.cmd = CMD_SET_GLOBAL_KEY
    THEN hostMessage' = pending.arg /\ UNCHANGED hostKey
    ELSE UNCHANGED <<hostKey, hostMessage>>

\* orion_cmd_set_global_key: any answer is taken as the acknowledgement.
HostTakesKey ==
    IF pending.cmd = CMD_SET_GLOBAL_KEY
    THEN hostKey' = pending.arg /\ hostMessage' = pending.arg
    ELSE UNCHANGED <<hostKey, hostMessage>>

\* payload_len >= 4: an event or a status answer is returned as an event.
LooksLikeEvent(answer) == answer.kind \in {"event", "status"}

\* orion_cmd_read_event: the three bytes after the first are the event.
HostTakesEvent(answer) ==
    IF pending.cmd = CMD_READ_EVENT /\ LooksLikeEvent(answer)
    THEN IF answer.kind = "event" /\ answer.key = hostMessage
         THEN got' = Append(got, answer.event) /\ UNCHANGED misread
         ELSE misread' = TRUE /\ UNCHANGED got
    ELSE UNCHANGED <<got, misread>>

HostReceives ==
    /\ pending # Nothing /\ outbox # <<>>
    /\ HostTakesKey
    /\ HostTakesEvent(Head(outbox))
    /\ outbox' = Tail(outbox)
    /\ pending' = Nothing
    /\ UNCHANGED <<slaveVars, inbox, nextId, failed>>

\* Nothing arrived in time, or the CRC was wrong.
HostGivesUp ==
    /\ pending # Nothing
    /\ pending' = Nothing /\ failed' = TRUE
    /\ UNCHANGED <<slaveVars, hostKey, hostMessage, lineVars, nextId, got, misread>>

-----------------------------------------------------------------------------
(* The line and the device.                                                *)

LosesRequest ==
    /\ inbox # <<>> /\ inbox' = Tail(inbox)
    /\ UNCHANGED <<slaveVars, hostVars, outbox, historyVars>>

LosesAnswer ==
    /\ outbox # <<>> /\ outbox' = Tail(outbox)
    /\ UNCHANGED <<slaveVars, hostVars, inbox, historyVars>>

CountsEvent ==
    /\ nextId' = IF count' > count THEN nextId + 1 ELSE nextId
    /\ nextId' <= MaxIds

\* poll: a frame that arrived while the device was busy is in the same buffer and is
\* thrown away with the one it follows, unless the device read the first alone.
SlaveReads == inbox' \in {Tail(inbox), <<>>}

SlaveAnswers ==
    /\ inbox # <<>> /\ SlaveReads
    /\ Processes(Head(inbox), nextId + 1)
    /\ CountsEvent
    /\ UNCHANGED <<hostVars, got, misread, failed>>

SlaveIgnores ==
    /\ inbox # <<>> /\ SlaveReads
    /\ IgnoresUnknown(Head(inbox))
    /\ UNCHANGED <<hostVars, historyVars>>

SlaveAlarms(z) ==
    /\ ReportAlarm(z, nextId + 1)
    /\ CountsEvent
    /\ UNCHANGED <<hostVars, inbox, got, misread, failed>>

Next ==
    \/ \E order \in Orders : HostSends(order)
    \/ HostReceives
    \/ HostGivesUp
    \/ LosesRequest
    \/ LosesAnswer
    \/ SlaveAnswers
    \/ SlaveIgnores
    \/ \E z \in HostZones \cap Zones : SlaveAlarms(z)

Spec == Init /\ [][Next]_vars

Channel == INSTANCE EventChannel WITH happened <- nextId, reported <- got, faulty <- failed

-----------------------------------------------------------------------------
(* Properties.                                                             *)

\* Type invariant of the link.
LinkTypeOK ==
    /\ SlaveTypeOK
    /\ hostKey \in Keys /\ hostMessage \in Keys
    /\ pending \in Orders \cup {Nothing}
    /\ Len(inbox) + Len(outbox) <= MaxFrames
    /\ nextId \in 0..MaxIds

\* What read_event returns are events of the device, each once and in the order they
\* happened, however many requests and answers get lost or late; and until a command
\* fails none is skipped and nothing else is taken for an event
\* (orion_commands.c:158-187, orion_slave.cpp:428-447).
EventsInOrder ==
    /\ \A i, j \in DOMAIN got : i < j => got[i] < got[j]
    /\ ~failed => ~misread /\ \A i \in DOMAIN got : got[i] = i

\* Line, queue and late answers together are no worse than a channel that may skip
\* events, and skips none before a command fails: nothing is reported that did not
\* happen, nothing twice, nothing late (orion_slave.cpp:85-105, 428-447;
\* orion_commands.c:158-187).
ReportsLikeChannel == Channel!Spec

\* Until a command fails, every answer on its way is encrypted under the message key
\* the host will decrypt it with, also while keys change (orion_slave.cpp:203-211,
\* 474-497; orion_commands.c:30-31).
AnswersReadable ==
    ~failed => \A i \in DOMAIN outbox : outbox[i].key \in {{}, hostMessage}

SetBy(command) ==
    IF command = CMD_ARM_ZONE THEN "ARMED"
    ELSE IF command \in {CMD_DISARM_ZONE, CMD_RESET_ALARM} THEN "DISARMED"
    ELSE "ALARM"

\* Until a command fails, a frame changes the zone the operator named, and as the
\* operator asked, whatever keys were set before (orion_slave.cpp:184-235, 366-426).
ActsAsMeant ==
    [][~failed /\ inbox' # inbox =>
         \A z \in Zones : zones'[z] # zones[z] =>
             z = pending.arg /\ zones'[z] = SetBy(pending.cmd)]_vars

\* orion_commands.h:88 "Arm a zone/partition": the frame of orion_cmd_arm disarms nothing.
ArmNeverDisarms ==
    [][\A z \in Zones :
         zones[z] = "ARMED" /\ zones'[z] = "DISARMED" =>
             Head(inbox).meant.cmd # CMD_ARM_ZONE]_vars
=============================================================================
