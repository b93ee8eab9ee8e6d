--------------------------- MODULE OrionLinkProofs ---------------------------
(***************************************************************************)
(* What the link promises for any keys, zones, queue and line: the ring of *)
(* the device implements the bounded queue of EventFifo, the cipher reads  *)
(* what was sent exactly under the sender's key, the host sees the events  *)
(* of the device in order as EventChannel promises, until a command fails  *)
(* the two sides agree on the key and on what is on the line, and which    *)
(* keys never let a frame disarm what it was to arm.                       *)
(***************************************************************************)
EXTENDS OrionLink, SequenceTheorems, TLAPS

-----------------------------------------------------------------------------
(* The queue: the write index of the ring is the read index plus the       *)
(* count, around the ring.                                                 *)

\* The slot k places after slot a, without the modulus.
Around(a, k) == IF a + k < MaxEvents THEN a + k ELSE a + k - MaxEvents

RingInv ==
    /\ QueueTypeOK
    /\ head = Around(tail, count)

\* A place at most one lap ahead is reached by one subtraction.
LEMMA ModAround ==
    ASSUME NEW a \in Slots, NEW k \in 0..MaxEvents
    PROVE  /\ (a + k) % MaxEvents = Around(a, k)
           /\ Around(a, k) \in Slots
<1> MaxEvents \in Nat /\ MaxEvents > 0
    BY QueueAssumption
<1>1. Around(a, k) \in Slots
    BY DEF Around, Slots
<1>2. CASE a + k < MaxEvents
    <2>1. (a + k) % MaxEvents = a + k
        BY <1>2 DEF Slots
    <2> QED BY <1>1, <1>2, <2>1 DEF Around
<1>3. CASE a + k >= MaxEvents
    <2>1. (a + k) % MaxEvents = a + k - MaxEvents
        BY <1>3 DEF Slots
    <2> QED BY <1>1, <1>3, <2>1 DEF Around, Slots
<1> QED BY <1>2, <1>3 DEF Slots

\* The n events from slot t of the ring s on.
From(s, t, n) == [i \in 1..n |-> s[(t + i - 1) % MaxEvents]]

\* The ring as a sequence: its length and its elements without the modulus.
LEMMA FromIsSequence ==
    ASSUME NEW s \in [Slots -> Events \cup {Blank}], NEW t \in Slots, NEW n \in 0..MaxEvents
    PROVE  /\ From(s, t, n) \in Seq(Events \cup {Blank})
           /\ Len(From(s, t, n)) = n
           /\ \A i \in 1..n : From(s, t, n)[i] = s[Around(t, i - 1)]
<1>1. \A i \in 1..n : /\ (t + i - 1) % MaxEvents = Around(t, i - 1)
                      /\ Around(t, i - 1) \in Slots
    <2> TAKE i \in 1..n
    <2>1. i - 1 \in 0..MaxEvents
        BY QueueAssumption
    <2>2. t + (i - 1) = t + i - 1
        BY DEF Slots
    <2> QED BY <2>1, <2>2, ModAround
<1>2. From(s, t, n) \in [1..n -> Events \cup {Blank}]
    BY <1>1 DEF From
<1>3. n \in Nat
    BY QueueAssumption
<1> QED BY <1>1, <1>2, <1>3 DEF From

\* The invariant holds and every step of the ring keeps it.
LEMMA RingInit == QueueInit => RingInv
BY QueueAssumption DEF QueueInit, RingInv, QueueTypeOK, Around, Slots

LEMMA RingStep ==
    ASSUME RingInv, [QueueNext]_queueVars
    PROVE  RingInv'
<1> USE DEF RingInv, QueueTypeOK
<1>1. CASE UNCHANGED queueVars
    BY <1>1 DEF queueVars, Around
<1>2. ASSUME NEW e \in Events, PushEvent(e), ~Full
      PROVE  RingInv'
    <2>1. (head + 1) % MaxEvents = Around(head, 1) /\ Around(head, 1) \in Slots
        BY ModAround, QueueAssumption
    <2>2. Around(head, 1) = Around(tail, count + 1)
        BY <1>2, QueueAssumption DEF Around, Slots, Full
    <2> QED BY <1>2, <2>1, <2>2, QueueAssumption DEF PushEvent, Full, Around
<1>3. CASE PopEvent
    <2>1. (tail + 1) % MaxEvents = Around(tail, 1) /\ Around(tail, 1) \in Slots
        BY ModAround, QueueAssumption
    <2>2. Around(tail, count) = Around(Around(tail, 1), count - 1)
        BY <1>3, QueueAssumption DEF Around, Slots, PopEvent
    <2> QED BY <1>3, <2>1, <2>2, QueueAssumption DEF PopEvent, Slots
<1> QED BY <1>1, <1>2, <1>3 DEF QueueNext, PushEvent

\* A push that is not refused appends its event.
LEMMA PushAppends ==
    ASSUME RingInv, NEW e \in Events, PushEvent(e), ~Full
    PROVE  Contents' = Append(Contents, e)
<1> USE DEF RingInv, QueueTypeOK
<1> DEFINE new == [slots EXCEPT ![head] = e]
<1>1. Contents = From(slots, tail, count) /\ Contents' = From(new, tail, count + 1)
    BY DEF PushEvent, Contents, From
<1>2. new \in [Slots -> Events \cup {Blank}] /\ count + 1 \in 0..MaxEvents
    BY QueueAssumption DEF Full
<1>3. /\ Contents \in Seq(Events \cup {Blank}) /\ Len(Contents) = count
      /\ \A i \in 1..count : Contents[i] = slots[Around(tail, i - 1)]
    BY <1>1, FromIsSequence
<1>4. /\ Contents' \in Seq(Events \cup {Blank}) /\ Len(Contents') = count + 1
      /\ \A i \in 1..(count + 1) : Contents'[i] = new[Around(tail, i - 1)]
    <2> HIDE DEF new
    <2>1. /\ From(new, tail, count + 1) \in Seq(Events \cup {Blank})
          /\ Len(From(new, tail, count + 1)) = count + 1
          /\ \A i \in 1..(count + 1) : From(new, tail, count + 1)[i] = new[Around(tail, i - 1)]
        BY <1>2, FromIsSequence
    <2> QED BY <1>1, <2>1
<1>5. \A i \in 1..count : Around(tail, i - 1) # head /\ Around(tail, i - 1) \in Slots
    BY QueueAssumption DEF Around, Slots, Full
<1>6. \A i \in 1..count : Contents'[i] = Contents[i]
    BY <1>3, <1>4, <1>5, QueueAssumption
<1>7. Contents'[count + 1] = e
    <2>1. Contents'[count + 1] = new[Around(tail, count)]
        BY <1>4, QueueAssumption
    <2> QED BY <2>1, QueueAssumption
<1> QED BY <1>3, <1>4, <1>6, <1>7, QueueAssumption

\* A pop takes the first event.
LEMMA PopTakesFirst ==
    ASSUME RingInv, PopEvent
    PROVE  Contents # <<>> /\ Contents' = Tail(Contents)
<1> USE DEF RingInv, QueueTypeOK
<1>1. tail' = Around(tail, 1) /\ Around(tail, 1) \in Slots
    BY ModAround, QueueAssumption DEF PopEvent
<1>2. Contents = From(slots, tail, count) /\ Contents' = From(slots, Around(tail, 1), count - 1)
    BY <1>1 DEF PopEvent, Contents, From
<1>3. /\ Contents \in Seq(Events \cup {Blank}) /\ Len(Contents) = count
      /\ \A i \in 1..count : Contents[i] = slots[Around(tail, i - 1)]
    BY <1>2, FromIsSequence
<1>4. count - 1 \in 0..MaxEvents
    BY QueueAssumption DEF PopEvent
<1>5. /\ Contents' \in Seq(Events \cup {Blank}) /\ Len(Contents') = count - 1
      /\ \A i \in 1..(count - 1) : Contents'[i] = slots[Around(Around(tail, 1), i - 1)]
    BY <1>1, <1>2, <1>4, FromIsSequence
<1>6. \A i \in 1..(count - 1) : Around(Around(tail, 1), i - 1) = Around(tail, i)
    BY QueueAssumption DEF Around, Slots
<1>7. \A i \in 1..(count - 1) : Contents'[i] = Contents[i + 1]
    <2> TAKE i \in 1..(count - 1)
    <2>1. i + 1 \in 1..count /\ (i + 1) - 1 = i
        BY QueueAssumption
    <2> QED BY <1>3, <1>5, <1>6, <2>1
<1> QED BY <1>3, <1>5, <1>7, QueueAssumption DEF PopEvent

\* Every step of the ring is a step of the bounded queue, or none.
LEMMA StepIsFifoStep ==
    ASSUME RingInv, [QueueNext]_queueVars
    PROVE  [Fifo!Next]_Contents
<1> USE DEF Fifo!Next, Fifo!Push, Fifo!Pop
<1>1. CASE UNCHANGED queueVars
    BY <1>1 DEF queueVars, Contents
<1>2. ASSUME NEW e \in Events, PushEvent(e), ~Full
      PROVE  Fifo!Push(e)
    <2>1. Len(Contents) = count
        BY FromIsSequence DEF RingInv, QueueTypeOK, Contents, From
    <2>2. count < MaxEvents
        BY <1>2, QueueAssumption DEF RingInv, QueueTypeOK, Full
    <2> QED BY <1>2, <2>1, <2>2, PushAppends
<1>3. CASE PopEvent
    BY <1>3, PopTakesFirst
<1> QED BY <1>1, <1>2, <1>3 DEF QueueNext, PushEvent

\* Seen from outside, the ring of the device is a bounded first-in-first-out queue
\* that refuses an event when it is full, for every capacity (orion_slave.cpp:85-105).
THEOREM RingIsFifo == QueueSpec => QueueIsFifo
<1>1. QueueInit => Fifo!Init
    BY DEF QueueInit, Fifo!Init, Contents
<1> QED BY <1>1, RingInit, RingStep, StepIsFifoStep, PTL
        DEF QueueSpec, QueueIsFifo, Fifo!Spec

-----------------------------------------------------------------------------
(* The cipher.                                                             *)

\* With the same global key the receiver reads what was sent, whatever message
\* key the sender chose.
THEOREM SameKeyReads ==
    \A byte, global, message \in Byte :
        Received(byte, global, message, global) = byte
  BY DEF Received, Decrypt, Encrypt, MessageKey, KeyXor, Xor, Byte

\* With another global key every byte arrives shifted by the difference of the two
\* keys, whatever the message key: the frame is valid and says something else.
THEOREM OtherKeyShifts ==
    \A byte, global, message, mine \in Byte :
        Received(byte, global, message, mine) = Xor(byte, Xor(global, mine))
  BY DEF Received, Decrypt, Encrypt, MessageKey, KeyXor, Xor, Byte

\* So a command is read as itself exactly when the two keys agree.
THEOREM ReadsOnlyWithSameKey ==
    \A byte, global, message, mine \in Byte :
        Received(byte, global, message, mine) = byte <=> mine = global
<1> SUFFICES ASSUME NEW byte \in Byte, NEW global \in Byte, NEW message \in Byte,
                    NEW mine \in Byte
             PROVE  Received(byte, global, message, mine) = byte <=> mine = global
  OBVIOUS
<1>1. Received(byte, global, message, mine) = Xor(byte, Xor(global, mine))
  BY OtherKeyShifts
<1>2. Xor(byte, Xor(global, mine)) = byte <=> mine = global
  BY DEF Xor, Byte
<1> QED  BY <1>1, <1>2

\* A frame whose message key is the global key carries that key.
LEMMA KeyOfOwnFrame ==
    ASSUME NEW k \in Byte
    PROVE  MessageKey(KeyXor(k, k), k) = k
BY DEF MessageKey, KeyXor, Xor, Byte

LEMMA XorIsByte == \A a, b \in Byte : Xor(a, b) \in Byte
BY DEF Byte, Xor

-----------------------------------------------------------------------------
(* Types.                                                                  *)

Commands == {CMD_SET_GLOBAL_KEY, CMD_ARM_ZONE, CMD_DISARM_ZONE, CMD_RESET_ALARM,
             CMD_READ_EVENT, CMD_CONFIRM_EVENT, CMD_READ_DEVICE_TYPE, CMD_READ_STATUS}

LEMMA CommandsAreBytes ==
    Commands \subseteq Byte /\ {} \in Byte /\ {1} \in Byte
BY DEF Commands, Byte, Bits, CMD_SET_GLOBAL_KEY, CMD_ARM_ZONE, CMD_DISARM_ZONE,
   CMD_RESET_ALARM, CMD_READ_EVENT, CMD_CONFIRM_EVENT, CMD_READ_DEVICE_TYPE, CMD_READ_STATUS

LEMMA CommandsDiffer ==
    /\ CMD_SET_GLOBAL_KEY \notin {CMD_PING, CMD_READ_DEVICE_TYPE, CMD_READ_VERSION}
    /\ CMD_READ_EVENT \notin {CMD_READ_STATUS, CMD_ARM_ZONE, CMD_DISARM_ZONE, CMD_RESET_ALARM,
                              CMD_CONFIRM_EVENT, CMD_SET_GLOBAL_KEY, CMD_READ_DEVICE_TYPE}
    /\ CMD_READ_STATUS \notin {CMD_ARM_ZONE, CMD_DISARM_ZONE, CMD_RESET_ALARM,
                               CMD_CONFIRM_EVENT, CMD_SET_GLOBAL_KEY, CMD_READ_DEVICE_TYPE}
    /\ CMD_ARM_ZONE \notin {CMD_DISARM_ZONE, CMD_RESET_ALARM, CMD_CONFIRM_EVENT,
                            CMD_SET_GLOBAL_KEY, CMD_READ_DEVICE_TYPE}
    /\ CMD_DISARM_ZONE \notin {CMD_RESET_ALARM, CMD_CONFIRM_EVENT, CMD_SET_GLOBAL_KEY,
                               CMD_READ_DEVICE_TYPE}
    /\ CMD_RESET_ALARM \notin {CMD_CONFIRM_EVENT, CMD_SET_GLOBAL_KEY, CMD_READ_DEVICE_TYPE}
    /\ CMD_CONFIRM_EVENT \notin {CMD_SET_GLOBAL_KEY, CMD_READ_DEVICE_TYPE}
    /\ {} \notin Commands
BY DEF Commands, CMD_SET_GLOBAL_KEY, CMD_ARM_ZONE, CMD_DISARM_ZONE, CMD_RESET_ALARM,
   CMD_READ_EVENT, CMD_CONFIRM_EVENT, CMD_READ_DEVICE_TYPE, CMD_READ_STATUS, CMD_PING,
   CMD_READ_VERSION

Kinds    == {"ack", "nack", "type", "version", "status", "event", "none"}
Answers  == [kind : Kinds, key : Byte, event : Nat]
Requests == [encrypted : BOOLEAN, keyXor : Byte, cmd : Byte, arg : Byte, meant : Orders]

LEMMA OrdersTyped ==
    \A o \in Orders : o.cmd \in Commands /\ o.cmd \in Byte /\ o.arg \in Byte
<1> SUFFICES ASSUME NEW o \in Orders
             PROVE  o.cmd \in Commands /\ o.arg \in Byte
  BY CommandsAreBytes
<1>1. CASE o \in [cmd : {CMD_SET_GLOBAL_KEY}, arg : Keys]
  BY <1>1, LinkAssumption DEF Commands
<1>2. CASE o \in [cmd : ZoneCommands, arg : HostZones]
  BY <1>2, LinkAssumption DEF Commands, ZoneCommands
<1>3. CASE o \in [cmd : {CMD_READ_EVENT, CMD_CONFIRM_EVENT, CMD_READ_DEVICE_TYPE}, arg : {{}}]
  BY <1>3, CommandsAreBytes DEF Commands
<1>4. CASE o = Order(CMD_READ_STATUS, {1})
  BY <1>4, CommandsAreBytes DEF Commands, Order
<1> QED
  BY <1>1, <1>2, <1>3, <1>4 DEF Orders

TypeInv ==
    /\ RingInv
    /\ slaveKey \in Byte /\ hostKey \in Byte /\ hostMessage = hostKey
    /\ zones \in [Zones -> Statuses]
    /\ pending \in Orders \cup {Nothing}
    /\ inbox \in Seq(Requests) /\ outbox \in Seq(Answers)
    /\ nextId \in Nat /\ got \in Seq(Nat)

\* The queue as a sequence of numbers.
LEMMA QueueTyped ==
    ASSUME RingInv
    PROVE  /\ Contents \in Seq(Nat) /\ Len(Contents) = count /\ count \in Nat
           /\ OldestEvent \in Nat
           /\ count > 0 => Contents[1] = OldestEvent
<1>0. Events \cup {Blank} \subseteq Nat
  BY LinkAssumption DEF Blank
<1>1. slots \in [Slots -> Events \cup {Blank}] /\ tail \in Slots /\ count \in 0..MaxEvents
  BY DEF RingInv, QueueTypeOK
<1>2. /\ Contents \in Seq(Events \cup {Blank}) /\ Len(Contents) = count
      /\ \A i \in 1..count : Contents[i] = slots[Around(tail, i - 1)]
  BY FromIsSequence DEF RingInv, QueueTypeOK, Contents, From
<1>3. count > 0 => Contents[1] = slots[tail]
  <2>1. Around(tail, 1 - 1) = tail
    BY <1>1, QueueAssumption DEF Around, Slots
  <2> QED
    BY <1>1, <1>2, <2>1, QueueAssumption
<1>4. Contents \in Seq(Nat)
  BY <1>0, <1>2
<1>5. slots[tail] \in Nat
  BY <1>0, <1>1
<1> QED
  BY <1>1, <1>2, <1>3, <1>4, <1>5, QueueAssumption DEF OldestEvent
-----------------------------------------------------------------------------
(* What a request does to the device.                                      *)

\* The answer a to the request r.
Replies(r, a) ==
    /\ outbox' = Append(outbox, a)
    /\ a.key \in {{}, MessageKeyOf(r)}
    /\ a.kind = "event" =>
           r.encrypted /\ CommandOf(r) = CMD_READ_EVENT /\ a.key = MessageKeyOf(r)
    /\ r.encrypted /\ CommandOf(r) = CMD_READ_EVENT => a.kind \in {"event", "none"}

KeySet(r) ==
    slaveKey' = IF ~r.encrypted /\ CommandOf(r) = CMD_SET_GLOBAL_KEY
                THEN ArgumentOf(r) ELSE slaveKey

ZonesSet(r) ==
    /\ zones' \in [Zones -> Statuses]
    /\ \A z \in Zones : zones'[z] # zones[z] =>
           z = ArgumentOf(r) /\ zones'[z] = SetBy(CommandOf(r))

\* An answer with an event takes it from the queue; another answer may come with a push.
QueueMove(a, e) ==
    \/ a.kind # "event" /\ UNCHANGED queueVars
    \/ a.kind # "event" /\ PushEvent(e)
    \/ a.kind = "event" /\ a.event = OldestEvent /\ PopEvent

Answering(r, e) ==
    /\ KeySet(r) /\ ZonesSet(r)
    /\ \E a \in Answers : Replies(r, a) /\ QueueMove(a, e)

LEMMA ReadsBytes ==
    ASSUME NEW r \in Requests, slaveKey \in Byte
    PROVE  MessageKeyOf(r) \in Byte /\ CommandOf(r) \in Byte /\ ArgumentOf(r) \in Byte
<1>1. r.keyXor \in Byte /\ r.cmd \in Byte /\ r.arg \in Byte
  BY DEF Requests
<1>2. MessageKeyOf(r) \in Byte
  BY <1>1, XorIsByte DEF MessageKeyOf, MessageKey
<1> QED
  BY <1>1, <1>2, XorIsByte DEF CommandOf, ArgumentOf, Decrypt

LEMMA AnswersTyped ==
    ASSUME NEW kind \in Kinds
    PROVE  /\ Plain(kind) \in Answers /\ Plain(kind).kind = kind /\ Plain(kind).key = {}
           /\ \A r : MessageKeyOf(r) \in Byte =>
                /\ Encrypted(kind, r) \in Answers
                /\ Encrypted(kind, r).kind = kind
                /\ Encrypted(kind, r).key = MessageKeyOf(r)
BY CommandsAreBytes DEF Plain, Encrypted, Answers, Blank

LEMMA PlainEffect ==
    ASSUME TypeInv, NEW r \in Requests, NEW e, HandlePlain(r) \/ HandleSetGlobalKey(r)
    PROVE  Answering(r, e)
<1>1. ~r.encrypted
  BY DEF HandlePlain, HandleSetGlobalKey
<1>2. CASE HandlePlain(r)
  <2>1. /\ UNCHANGED <<slaveKey, zones>> /\ UNCHANGED queueVars
        /\ CommandOf(r) # CMD_SET_GLOBAL_KEY
    BY <1>2, CommandsDiffer DEF HandlePlain, PlainAnswers, slaveVars
  <2>2. PICK kind \in Kinds : outbox' = Append(outbox, Plain(kind)) /\ kind # "event"
    BY <1>2 DEF HandlePlain, PlainAnswers, SendResponse, Kinds
  <2>3. Replies(r, Plain(kind)) /\ QueueMove(Plain(kind), e) /\ Plain(kind) \in Answers
    BY <1>1, <2>1, <2>2, AnswersTyped DEF Replies, QueueMove
  <2>4. KeySet(r) /\ ZonesSet(r)
    BY <2>1 DEF KeySet, ZonesSet, TypeInv
  <2> QED
    BY <2>3, <2>4 DEF Answering
<1>3. CASE HandleSetGlobalKey(r)
  <2>1. /\ CommandOf(r) = CMD_SET_GLOBAL_KEY /\ slaveKey' = ArgumentOf(r)
        /\ zones' = zones /\ UNCHANGED queueVars /\ outbox' = Append(outbox, Plain("ack"))
    BY <1>3 DEF HandleSetGlobalKey, SendResponse
  <2>2. Replies(r, Plain("ack")) /\ QueueMove(Plain("ack"), e) /\ Plain("ack") \in Answers
    BY <1>1, <2>1, AnswersTyped DEF Replies, QueueMove, Kinds
  <2>3. KeySet(r) /\ ZonesSet(r)
    BY <1>1, <2>1 DEF KeySet, ZonesSet, TypeInv
  <2> QED
    BY <2>2, <2>3 DEF Answering
<1> QED
  BY <1>2, <1>3
\* An encrypted command that only answers, or answers and changes zones.
LEMMA EncryptedAnswer ==
    ASSUME TypeInv, NEW r \in Requests, NEW e, r.encrypted, UNCHANGED slaveKey, ZonesSet(r),
           NEW kind \in Kinds, kind \notin {"event", "none"}, CommandOf(r) # CMD_READ_EVENT,
           outbox' = Append(outbox, Encrypted(kind, r)) \/ outbox' = Append(outbox, Plain(kind)),
           UNCHANGED queueVars \/ PushEvent(e)
    PROVE  Answering(r, e)
<1>1. MessageKeyOf(r) \in Byte
  BY ReadsBytes DEF TypeInv
<1>2. PICK a \in Answers : /\ outbox' = Append(outbox, a) /\ a.kind = kind
                           /\ a.key \in {{}, MessageKeyOf(r)}
  BY <1>1, AnswersTyped
<1>3. Replies(r, a) /\ QueueMove(a, e) /\ KeySet(r)
  BY <1>2 DEF Replies, QueueMove, KeySet
<1> QED
  BY <1>3 DEF Answering

LEMMA ZonesKept ==
    ASSUME TypeInv, NEW r, UNCHANGED zones
    PROVE  ZonesSet(r)
BY DEF ZonesSet, TypeInv

LEMMA SwitchSets ==
    ASSUME TypeInv, NEW r, NEW status \in Statuses, NEW e, Switches(r, status, e),
           SetBy(CommandOf(r)) = status
    PROVE  /\ ZonesSet(r)
           /\ UNCHANGED queueVars \/ PushEvent(e)
           /\ \E kind \in {"ack", "nack"} : outbox' = Append(outbox, Encrypted(kind, r))
<1>1. /\ UNCHANGED queueVars \/ PushEvent(e)
      /\ \E kind \in {"ack", "nack"} : outbox' = Append(outbox, Encrypted(kind, r))
  BY DEF Switches, SendResponse
<1>2. \/ ArgumentOf(r) \in Zones /\ zones' = [zones EXCEPT ![ArgumentOf(r)] = status]
      \/ zones' = zones
  BY DEF Switches
<1>3. ZonesSet(r)
  BY <1>2 DEF ZonesSet, TypeInv
<1> QED
  BY <1>1, <1>3

LEMMA EventEffect ==
    ASSUME TypeInv, NEW r \in Requests, NEW e, r.encrypted, UNCHANGED slaveKey,
           HandleReadEvent(r)
    PROVE  Answering(r, e)
<1>1. CommandOf(r) = CMD_READ_EVENT /\ MessageKeyOf(r) \in Byte /\ OldestEvent \in Nat
  BY ReadsBytes, QueueTyped DEF TypeInv, HandleReadEvent
<1>2. KeySet(r) /\ ZonesSet(r)
  BY <1>1, ZonesKept DEF KeySet, HandleReadEvent
<1>3. CASE count > 0
  <2>1. outbox' = Append(outbox, EventAnswer(r)) /\ PopEvent
    BY <1>3 DEF HandleReadEvent, SendResponse
  <2>2. EventAnswer(r) = [kind |-> "event", key |-> MessageKeyOf(r), event |-> OldestEvent]
    BY DEF EventAnswer, Encrypted
  <2>3. PICK a \in Answers : /\ a = EventAnswer(r) /\ a.kind = "event"
                             /\ a.key = MessageKeyOf(r) /\ a.event = OldestEvent
    BY <1>1, <2>2 DEF Answers, Kinds
  <2>4. Replies(r, a) /\ QueueMove(a, e)
    BY <1>1, <2>1, <2>3 DEF Replies, QueueMove
  <2> QED
    BY <1>2, <2>4 DEF Answering
<1>4. CASE ~(count > 0)
  <2>1. outbox' = Append(outbox, Encrypted("none", r)) /\ UNCHANGED queueVars
    BY <1>4 DEF HandleReadEvent, SendResponse
  <2>2. PICK a \in Answers : a = Encrypted("none", r) /\ a.kind = "none"
                             /\ a.key = MessageKeyOf(r)
    BY <1>1, AnswersTyped DEF Kinds
  <2>3. Replies(r, a) /\ QueueMove(a, e)
    BY <1>1, <2>1, <2>2 DEF Replies, QueueMove
  <2> QED
    BY <1>2, <2>3 DEF Answering
<1> QED
  BY <1>3, <1>4

LEMMA SetByEach ==
    /\ SetBy(CMD_ARM_ZONE) = "ARMED" /\ SetBy(CMD_DISARM_ZONE) = "DISARMED"
    /\ SetBy(CMD_RESET_ALARM) = "DISARMED"
BY CommandsDiffer DEF SetBy

\* processPacket: the key, the zones and the queue change only as the command says, and
\* one answer leaves.
LEMMA SlaveEffect ==
    ASSUME TypeInv, NEW r \in Requests, NEW e, Processes(r, e)
    PROVE  Answering(r, e)
<1>1. CASE HandlePlain(r) \/ HandleSetGlobalKey(r)
  BY <1>1, PlainEffect
<1>2. ASSUME r.encrypted, UNCHANGED slaveKey,
             HandleReadStatus(r) \/ HandleConfirmEvent(r)
      PROVE  Answering(r, e)
  <2>1. CASE HandleReadStatus(r)
    <3>1. /\ ZonesSet(r) /\ UNCHANGED queueVars /\ CommandOf(r) # CMD_READ_EVENT
          /\ outbox' = Append(outbox, Encrypted("status", r))
      BY <2>1, ZonesKept, CommandsDiffer DEF HandleReadStatus, SendResponse
    <3> QED
      BY <1>2, <3>1, EncryptedAnswer DEF Kinds
  <2>2. CASE HandleConfirmEvent(r)
    <3>1. /\ ZonesSet(r) /\ UNCHANGED queueVars /\ CommandOf(r) # CMD_READ_EVENT
          /\ outbox' = Append(outbox, Plain("ack"))
      BY <2>2, ZonesKept, CommandsDiffer DEF HandleConfirmEvent, SendResponse
    <3> QED
      BY <1>2, <3>1, EncryptedAnswer DEF Kinds
  <2> QED
    BY <1>2, <2>1, <2>2
<1>3. ASSUME r.encrypted, UNCHANGED slaveKey, HandleArm(r, e) \/ HandleDisarm(r, e)
      PROVE  Answering(r, e)
  <2>1. CommandOf(r) # CMD_READ_EVENT
    BY <1>3, CommandsDiffer DEF HandleArm, HandleDisarm
  <2>2. \E status \in Statuses : Switches(r, status, e) /\ SetBy(CommandOf(r)) = status
    BY <1>3, SetByEach DEF HandleArm, HandleDisarm, Statuses
  <2>3. PICK kind \in {"ack", "nack"} :
            /\ ZonesSet(r)
            /\ UNCHANGED queueVars \/ PushEvent(e)
            /\ outbox' = Append(outbox, Encrypted(kind, r))
    BY <2>2, SwitchSets
  <2> QED
    BY <1>3, <2>1, <2>3, EncryptedAnswer DEF Kinds
<1>4. ASSUME r.encrypted, UNCHANGED slaveKey, HandleResetAlarm(r)
      PROVE  Answering(r, e)
  <2>1. /\ CommandOf(r) # CMD_READ_EVENT /\ UNCHANGED queueVars
        /\ outbox' = Append(outbox, Encrypted("ack", r))
    BY <1>4, CommandsDiffer DEF HandleResetAlarm, SendResponse
  <2>2. ZonesSet(r)
    BY <1>4, SetByEach DEF HandleResetAlarm, ZonesSet, TypeInv, Statuses
  <2> QED
    BY <1>4, <2>1, <2>2, EncryptedAnswer DEF Kinds
<1> QED
  BY <1>1, <1>2, <1>3, <1>4, EventEffect DEF Processes
-----------------------------------------------------------------------------
(* What becomes of the queue and of the count of events.                   *)

\* The event n + 1 was queued, or nothing was.
Queued ==
    \/ Contents' = Contents /\ nextId' = nextId
    \/ Contents' = Append(Contents, nextId + 1) /\ nextId' = nextId + 1

Taken(a) ==
    /\ a.kind = "event" /\ Contents # <<>> /\ a.event = Head(Contents)
    /\ Contents' = Tail(Contents) /\ nextId' = nextId

LEMMA NothingMoves ==
    ASSUME RingInv, UNCHANGED queueVars
    PROVE  RingInv' /\ Contents' = Contents /\ count' = count
BY DEF RingInv, QueueTypeOK, Contents, queueVars, Around

(* The number of an event that finds room is below the bound.               *)
LEMMA NextIdIsEvent ==
    ASSUME TypeInv, PushEvent(nextId + 1), CountsEvent, ~Full
    PROVE  nextId + 1 \in Events
<1>1. count' = count + 1 /\ count \in Nat /\ nextId \in Nat
  BY QueueTyped DEF PushEvent, TypeInv
<1>2. nextId + 1 <= MaxIds
  BY <1>1 DEF CountsEvent
<1> QED
  BY <1>1, <1>2, LinkAssumption

LEMMA PushQueues ==
    ASSUME TypeInv, PushEvent(nextId + 1), CountsEvent
    PROVE  RingInv' /\ Queued
<1>1. count \in Nat
  BY QueueTyped DEF TypeInv
<1>3. CASE Full
  <2>1. UNCHANGED queueVars
    BY <1>3 DEF PushEvent
  <2> QED
    BY <1>1, <2>1, NothingMoves DEF Queued, CountsEvent, TypeInv
<1>4. CASE ~Full
  <2>1. nextId + 1 \in Events
    BY <1>4, NextIdIsEvent
  <2>2. RingInv'
    BY <2>1, RingStep DEF TypeInv, QueueNext
  <2>3. Contents' = Append(Contents, nextId + 1)
    BY <1>4, <2>1, PushAppends DEF TypeInv
  <2>4. count' = count + 1
    BY <1>4 DEF PushEvent
  <2> QED
    BY <1>1, <2>2, <2>3, <2>4 DEF Queued, CountsEvent
<1> QED
  BY <1>3, <1>4

LEMMA MoveQueues ==
    ASSUME TypeInv, NEW a, QueueMove(a, nextId + 1), CountsEvent
    PROVE  /\ RingInv'
           /\ \/ a.kind # "event" /\ Queued
              \/ Taken(a)
<1>1. CASE a.kind # "event" /\ UNCHANGED queueVars
  BY <1>1, NothingMoves, QueueTyped DEF Queued, CountsEvent, TypeInv
<1>2. CASE a.kind # "event" /\ PushEvent(nextId + 1)
  BY <1>2, PushQueues
<1>3. CASE a.kind = "event" /\ a.event = OldestEvent /\ PopEvent
  <2>1. Contents # <<>> /\ Contents' = Tail(Contents)
    BY <1>3, PopTakesFirst DEF TypeInv
  <2>2. RingInv'
    BY <1>3, RingStep DEF TypeInv, QueueNext
  <2>3. Head(Contents) = OldestEvent /\ nextId' = nextId
    BY <1>3, <2>1, QueueTyped DEF TypeInv, CountsEvent, PopEvent
  <2> QED
    BY <1>3, <2>1, <2>2, <2>3 DEF Taken
<1> QED
  BY <1>1, <1>2, <1>3 DEF QueueMove

-----------------------------------------------------------------------------
(* The order of the events, from the host back to the device.              *)

Rising(s)     == \A i, j \in 1..Len(s) : i < j => s[i] < s[j]
UpTo(s, n)    == \A i \in 1..Len(s) : s[i] \in 1..n
Below(s, t)   == \A i \in 1..Len(s), j \in 1..Len(t) : s[i] < t[j]

\* The answers o carry events in order, later than those in g, earlier than those in q.
Between(g, o, q) ==
    \A i \in 1..Len(o) : o[i].kind = "event" =>
        /\ \A j \in 1..Len(o) : i < j /\ o[j].kind = "event" => o[i].event < o[j].event
        /\ \A j \in 1..Len(g) : g[j] < o[i].event
        /\ \A j \in 1..Len(q) : o[i].event < q[j]

Ordered(g, o, q, n) ==
    /\ Rising(g) /\ Rising(q) /\ Below(g, q) /\ Between(g, o, q)
    /\ UpTo(g, n) /\ UpTo(q, n)
    /\ \A i \in 1..Len(o) : o[i].kind = "event" => o[i].event \in 1..n

\* An event carried by o, and what o says of the events after it.
LEMMA Apart ==
    ASSUME NEW g, NEW o, NEW q, Between(g, o, q), NEW i \in 1..Len(o), o[i].kind = "event"
    PROVE  /\ \A j \in 1..Len(o) : i < j /\ o[j].kind = "event" => o[i].event < o[j].event
           /\ \A j \in 1..Len(g) : g[j] < o[i].event
           /\ \A j \in 1..Len(q) : o[i].event < q[j]
BY DEF Between

LEMMA OrderedDrop ==
    ASSUME NEW g \in Seq(Nat), NEW o \in Seq(Answers), NEW q \in Seq(Nat), NEW n \in Nat,
           NEW k \in 0..Len(o), Ordered(g, o, q, n)
    PROVE  Ordered(g, SubSeq(o, k + 1, Len(o)), q, n)
<1> DEFINE p == SubSeq(o, k + 1, Len(o))
<1>1. Len(o) \in Nat /\ k \in Nat /\ k <= Len(o)
  BY LenProperties
<1>2. Len(p) = Len(o) - k /\ \A i \in 1..(Len(o) - k) : p[i] = o[k + i]
  <2>1. \A i \in (k + 1)..Len(o) : o[i] \in Answers
    BY <1>1, ElementOfSeq
  <2>2. /\ Len(p) = IF k + 1 <= Len(o) THEN Len(o) - (k + 1) + 1 ELSE 0
        /\ \A i \in 1..(Len(o) - (k + 1) + 1) : p[i] = o[(k + 1) + i - 1]
    BY <1>1, <2>1, SubSeqProperties
  <2>3. Len(o) - (k + 1) + 1 = Len(o) - k /\ \A i \in Int : (k + 1) + i - 1 = k + i
    BY <1>1
  <2> HIDE DEF p
  <2>4. Len(p) = Len(o) - k
    BY <1>1, <2>2
  <2>5. ASSUME NEW i \in 1..(Len(o) - k)
        PROVE  p[i] = o[k + i]
    <3>1. i \in 1..(Len(o) - (k + 1) + 1) /\ (k + 1) + i - 1 = k + i
      BY <2>3
    <3> QED
      BY <2>2, <3>1
  <2> QED
    BY <2>4, <2>5
<1> HIDE DEF p
<1>3. \A i \in 1..Len(p) : k + i \in 1..Len(o) /\ p[i] = o[k + i]
  BY <1>1, <1>2
<1>4. Between(g, p, q)
  <2> SUFFICES ASSUME NEW i \in 1..Len(p), p[i].kind = "event"
               PROVE  /\ \A j \in 1..Len(p) :
                           i < j /\ p[j].kind = "event" => p[i].event < p[j].event
                      /\ \A j \in 1..Len(g) : g[j] < p[i].event
                      /\ \A j \in 1..Len(q) : p[i].event < q[j]
    BY DEF Between
  <2>1. /\ \A j \in 1..Len(o) : k + i < j /\ o[j].kind = "event" => p[i].event < o[j].event
        /\ \A j \in 1..Len(g) : g[j] < p[i].event
        /\ \A j \in 1..Len(q) : p[i].event < q[j]
    <3>1. k + i \in 1..Len(o) /\ p[i] = o[k + i] /\ Between(g, o, q)
      BY <1>3 DEF Ordered
    <3>2. o[k + i].kind = "event"
      BY <3>1
    <3> QED
      BY <3>1, <3>2, Apart
  <2>2. ASSUME NEW j \in 1..Len(p), i < j, p[j].kind = "event"
        PROVE  p[i].event < p[j].event
    <3>1. k + j \in 1..Len(o) /\ p[j] = o[k + j] /\ k + i < k + j
      BY <1>1, <1>3, <2>2
    <3> QED
      BY <2>1, <2>2, <3>1
  <2> QED
    BY <2>1, <2>2
<1>5. \A i \in 1..Len(p) : p[i].kind = "event" => p[i].event \in 1..n
  <2>1. \A i \in 1..Len(o) : o[i].kind = "event" => o[i].event \in 1..n
    BY DEF Ordered
  <2> QED
    BY <1>3, <2>1
<1>6. Ordered(g, p, q, n)
  BY <1>4, <1>5 DEF Ordered
<1> QED
  BY <1>6 DEF p

LEMMA OrderedTail ==
    ASSUME NEW g \in Seq(Nat), NEW o \in Seq(Answers), NEW q \in Seq(Nat), NEW n \in Nat,
           o # <<>>, Ordered(g, o, q, n)
    PROVE  Ordered(g, Tail(o), q, n)
<1>1. Tail(o) = SubSeq(o, 1 + 1, Len(o)) /\ 1 \in 0..Len(o)
  BY TailIsSubSeq
<1> QED
  BY <1>1, OrderedDrop

\* What is appended and what is left, by its places.
LEMMA AppendAt ==
    ASSUME NEW S, NEW s \in Seq(S), NEW e \in S
    PROVE  /\ Len(Append(s, e)) = Len(s) + 1 /\ Len(s) \in Nat
           /\ Append(s, e)[Len(s) + 1] = e
           /\ \A i \in 1..Len(s) : Append(s, e)[i] = s[i]
OBVIOUS

LEMMA TailAt ==
    ASSUME NEW S, NEW s \in Seq(S), s # <<>>
    PROVE  /\ Len(s) \in Nat /\ Len(s) >= 1 /\ Head(s) = s[1]
           /\ Len(Tail(s)) = Len(s) - 1
           /\ \A i \in 1..Len(Tail(s)) : i + 1 \in 1..Len(s) /\ Tail(s)[i] = s[i + 1]
BY HeadTailProperties, LenProperties

LEMMA RisingAppend ==
    ASSUME NEW s \in Seq(Nat), NEW e \in Nat, Rising(s), \A i \in 1..Len(s) : s[i] < e
    PROVE  Rising(Append(s, e))
<1> DEFINE h == Append(s, e)
<1>1. /\ Len(h) = Len(s) + 1 /\ Len(s) \in Nat /\ h[Len(s) + 1] = e
      /\ \A i \in 1..Len(s) : h[i] = s[i]
  BY AppendAt
<1> HIDE DEF h
<1>2. ASSUME NEW i \in 1..Len(h), NEW j \in 1..Len(h), i < j
      PROVE  h[i] < h[j]
  <2>1. i \in 1..Len(s) /\ h[i] = s[i]
    BY <1>1, <1>2
  <2>2. CASE j = Len(s) + 1
    BY <1>1, <2>1, <2>2
  <2>3. CASE j \in 1..Len(s)
    BY <1>1, <1>2, <2>1, <2>3 DEF Rising
  <2> QED
    BY <1>1, <2>2, <2>3
<1> QED
  BY <1>2 DEF Rising, h

LEMMA UpToAppend ==
    ASSUME NEW s \in Seq(Nat), NEW e \in Nat, NEW n, e \in 1..n, UpTo(s, n)
    PROVE  UpTo(Append(s, e), n)
<1> DEFINE h == Append(s, e)
<1>1. /\ Len(h) = Len(s) + 1 /\ Len(s) \in Nat /\ h[Len(s) + 1] = e
      /\ \A i \in 1..Len(s) : h[i] = s[i]
  BY AppendAt
<1> HIDE DEF h
<1>2. ASSUME NEW i \in 1..Len(h)
      PROVE  h[i] \in 1..n
  <2>1. CASE i = Len(s) + 1
    BY <1>1, <2>1
  <2>2. CASE i \in 1..Len(s)
    BY <1>1, <2>2 DEF UpTo
  <2> QED
    BY <1>1, <2>1, <2>2
<1> QED
  BY <1>2 DEF UpTo, h

LEMMA RisingTail ==
    ASSUME NEW q \in Seq(Nat), q # <<>>, Rising(q)
    PROVE  Rising(Tail(q)) /\ \A i \in 1..Len(Tail(q)) : Head(q) < Tail(q)[i]
<1> DEFINE t == Tail(q)
<1>1. /\ Len(q) \in Nat /\ Len(q) >= 1 /\ Head(q) = q[1]
      /\ \A i \in 1..Len(t) : i + 1 \in 1..Len(q) /\ t[i] = q[i + 1]
  BY TailAt
<1>2. Len(t) \in Nat
  BY TailAt
<1> HIDE DEF t
<1>3. ASSUME NEW i \in 1..Len(t), NEW j \in 1..Len(t), i < j
      PROVE  t[i] < t[j]
  <2>1. i + 1 < j + 1
    BY <1>3
  <2> QED
    BY <1>1, <2>1 DEF Rising
<1>4. ASSUME NEW i \in 1..Len(t)
      PROVE  Head(q) < t[i]
  <2>1. 1 < i + 1 /\ 1 \in 1..Len(q)
    BY <1>1, <1>2
  <2> QED
    BY <1>1, <2>1 DEF Rising
<1> QED
  BY <1>3, <1>4 DEF Rising, t

LEMMA OrderedGet ==
    ASSUME NEW g \in Seq(Nat), NEW o \in Seq(Answers), NEW q \in Seq(Nat), NEW n \in Nat,
           o # <<>>, Head(o).kind = "event", Ordered(g, o, q, n)
    PROVE  Ordered(Append(g, Head(o).event), Tail(o), q, n)
<1> DEFINE e == Head(o).event
           h == Append(g, e)
           p == Tail(o)
<1>1. Head(o) = o[1] /\ Head(o) \in Answers /\ 1 \in 1..Len(o) /\ Len(o) \in Nat
  BY TailAt, HeadTailProperties
<1>2. e \in Nat
  BY <1>1 DEF Answers
<1>3. /\ Len(h) = Len(g) + 1 /\ Len(g) \in Nat /\ h[Len(g) + 1] = e
      /\ \A i \in 1..Len(g) : h[i] = g[i]
  BY <1>2, AppendAt
<1>4. \A i \in 1..Len(p) : i + 1 \in 1..Len(o) /\ p[i] = o[i + 1]
  BY TailAt
<1>5. Ordered(g, p, q, n)
  BY OrderedTail
<1>6. /\ \A i \in 1..Len(o) : 1 < i /\ o[i].kind = "event" => e < o[i].event
      /\ \A i \in 1..Len(g) : g[i] < e
      /\ \A i \in 1..Len(q) : e < q[i]
  BY <1>1, Apart DEF Ordered
<1>7. \A i \in 1..Len(p) : p[i].kind = "event" => e < p[i].event
  <2>1. Len(p) \in Nat
    BY TailAt
  <2>2. \A i \in 1..Len(p) : 1 < i + 1
    BY <2>1
  <2> HIDE DEF p, e
  <2> QED
    BY <1>4, <1>6, <2>2
<1>8. e \in 1..n
  BY <1>1 DEF Ordered
<1>9. Rising(h) /\ UpTo(h, n)
  BY <1>2, <1>6, <1>8, RisingAppend, UpToAppend DEF Ordered
<1> HIDE DEF h, p, e
<1>10. \A i \in 1..Len(h) : i \in 1..Len(g) \/ i = Len(g) + 1
  BY <1>3
<1>11. Below(h, q)
  <2>1. Below(g, q)
    BY DEF Ordered
  <2> QED
    BY <1>3, <1>6, <1>10, <2>1 DEF Below
<1>12. Between(h, p, q)
  <2>1. Between(g, p, q)
    BY <1>5 DEF Ordered
  <2> SUFFICES ASSUME NEW i \in 1..Len(p), p[i].kind = "event"
               PROVE  \A j \in 1..Len(h) : h[j] < p[i].event
    BY <2>1 DEF Between
  <2>2. \A j \in 1..Len(g) : g[j] < p[i].event
    BY <2>1, Apart
  <2> QED
    BY <1>3, <1>7, <1>10, <2>2
<1>13. Ordered(h, p, q, n)
  BY <1>5, <1>9, <1>11, <1>12 DEF Ordered
<1> QED
  BY <1>13 DEF h, p, e

LEMMA OrderedAnswer ==
    ASSUME NEW g \in Seq(Nat), NEW o \in Seq(Answers), NEW q \in Seq(Nat), NEW n \in Nat,
           NEW a \in Answers, a.kind # "event", Ordered(g, o, q, n)
    PROVE  Ordered(g, Append(o, a), q, n)
<1> DEFINE p == Append(o, a)
<1>1. /\ Len(p) = Len(o) + 1 /\ Len(o) \in Nat /\ p[Len(o) + 1] = a
      /\ \A i \in 1..Len(o) : p[i] = o[i]
  BY AppendAt
<1> HIDE DEF p
<1>2. \A i \in 1..Len(p) : p[i].kind = "event" => i \in 1..Len(o) /\ p[i] = o[i]
  BY <1>1
<1>3. Between(g, o, q)
  BY DEF Ordered
<1>4. Between(g, p, q)
  BY <1>2, <1>3 DEF Between
<1>5. \A i \in 1..Len(p) : p[i].kind = "event" => p[i].event \in 1..n
  BY <1>2 DEF Ordered
<1> QED
  BY <1>4, <1>5 DEF Ordered, p

LEMMA OrderedTake ==
    ASSUME NEW g \in Seq(Nat), NEW o \in Seq(Answers), NEW q \in Seq(Nat), NEW n \in Nat,
           NEW a \in Answers, a.kind = "event", q # <<>>, a.event = Head(q),
           Ordered(g, o, q, n)
    PROVE  Ordered(g, Append(o, a), Tail(q), n)
<1> DEFINE p == Append(o, a)
           t == Tail(q)
<1>1. /\ Len(p) = Len(o) + 1 /\ Len(o) \in Nat /\ p[Len(o) + 1] = a
      /\ \A i \in 1..Len(o) : p[i] = o[i]
  BY AppendAt
<1>2. /\ 1 \in 1..Len(q) /\ a.event = q[1]
      /\ \A i \in 1..Len(t) : i + 1 \in 1..Len(q) /\ t[i] = q[i + 1]
  BY TailAt
<1>3. Rising(t) /\ \A i \in 1..Len(t) : a.event < t[i]
  BY RisingTail DEF Ordered
<1> HIDE DEF p, t
<1>4. Below(g, q) /\ UpTo(q, n) /\ Between(g, o, q)
  BY DEF Ordered
<1>5. Below(g, t) /\ UpTo(t, n)
  BY <1>2, <1>4 DEF Below, UpTo
<1>6. /\ \A i \in 1..Len(g) : g[i] < a.event
      /\ \A i \in 1..Len(o) : o[i].kind = "event" => o[i].event < a.event
      /\ a.event \in 1..n
  BY <1>2, <1>4 DEF Below, Between, UpTo
<1>7. \A i \in 1..Len(p) : i \in 1..Len(o) \/ i = Len(o) + 1
  BY <1>1
<1>8. Between(g, p, t)
  <2> SUFFICES ASSUME NEW i \in 1..Len(p), p[i].kind = "event"
               PROVE  /\ \A j \in 1..Len(p) :
                           i < j /\ p[j].kind = "event" => p[i].event < p[j].event
                      /\ \A j \in 1..Len(g) : g[j] < p[i].event
                      /\ \A j \in 1..Len(t) : p[i].event < t[j]
    BY DEF Between
  <2>1. CASE i \in 1..Len(o)
    <3>1. /\ \A j \in 1..Len(o) : i < j /\ o[j].kind = "event" => p[i].event < o[j].event
          /\ \A j \in 1..Len(g) : g[j] < p[i].event
          /\ \A j \in 1..Len(q) : p[i].event < q[j]
      <4>1. p[i] = o[i]
        BY <1>1, <2>1
      <4> QED
        BY <1>4, <2>1, <4>1, Apart
    <3>2. p[i].event < a.event
      BY <1>1, <1>6, <2>1
    <3> QED
      BY <1>1, <1>2, <1>7, <3>1, <3>2
  <2>2. CASE i = Len(o) + 1
    <3>1. p[i] = a /\ \A j \in 1..Len(p) : ~(i < j)
      BY <1>1, <2>2
    <3> QED
      BY <1>3, <1>6, <3>1
  <2> QED
    BY <1>7, <2>1, <2>2
<1>9. \A i \in 1..Len(p) : p[i].kind = "event" => p[i].event \in 1..n
  <2>1. \A i \in 1..Len(o) : o[i].kind = "event" => o[i].event \in 1..n
    BY DEF Ordered
  <2> QED
    BY <1>1, <1>6, <1>7, <2>1
<1>10. Ordered(g, p, t, n)
  BY <1>3, <1>5, <1>8, <1>9 DEF Ordered
<1> QED
  BY <1>10 DEF p, t

LEMMA OrderedPush ==
    ASSUME NEW g \in Seq(Nat), NEW o \in Seq(Answers), NEW q \in Seq(Nat), NEW n \in Nat,
           Ordered(g, o, q, n)
    PROVE  Ordered(g, o, Append(q, n + 1), n + 1)
<1> DEFINE p == Append(q, n + 1)
<1>1. n + 1 \in Nat
  OBVIOUS
<1>2. /\ Len(p) = Len(q) + 1 /\ Len(q) \in Nat /\ p[Len(q) + 1] = n + 1
      /\ \A i \in 1..Len(q) : p[i] = q[i]
  BY <1>1, AppendAt
<1>3. /\ \A i \in 1..Len(g) : g[i] \in 1..n
      /\ \A i \in 1..Len(q) : q[i] \in 1..n
  BY DEF Ordered, UpTo
<1>4. \A i \in 1..Len(o) : o[i].kind = "event" => o[i].event \in 1..n
  BY DEF Ordered
<1>5. Rising(p)
  <2>1. \A i \in 1..Len(q) : q[i] < n + 1
    BY <1>3
  <2> QED
    BY <1>1, <2>1, RisingAppend DEF Ordered
<1>6. UpTo(p, n + 1) /\ UpTo(g, n + 1)
  <2>1. UpTo(q, n + 1) /\ UpTo(g, n + 1)
    BY <1>3 DEF UpTo
  <2> QED
    BY <1>1, <2>1, UpToAppend
<1> HIDE DEF p
<1>7. \A i \in 1..Len(p) : i \in 1..Len(q) \/ i = Len(q) + 1
  BY <1>2
<1>8. Below(g, p)
  <2>1. Below(g, q) /\ \A i \in 1..Len(g) : g[i] < n + 1
    BY <1>3 DEF Ordered
  <2> QED
    BY <1>2, <1>7, <2>1 DEF Below
<1>9. Between(g, o, p) /\ \A i \in 1..Len(o) : o[i].kind = "event" => o[i].event \in 1..(n + 1)
  <2>1. Between(g, o, q) /\ \A i \in 1..Len(o) : o[i].kind = "event" => o[i].event < n + 1
    BY <1>4 DEF Ordered
  <2>2. \A i \in 1..Len(o) : o[i].kind = "event" => o[i].event \in 1..(n + 1)
    BY <1>4
  <2> QED
    BY <1>2, <1>7, <2>1, <2>2 DEF Between
<1>10. Ordered(g, o, p, n + 1)
  BY <1>5, <1>6, <1>8, <1>9 DEF Ordered
<1> QED
  BY <1>10 DEF p
-----------------------------------------------------------------------------
(* Types and order are kept.                                               *)

OrderInv == Ordered(got, outbox, Contents, nextId)

LEMMA FrameTyped ==
    ASSUME TypeInv, NEW o \in Orders
    PROVE  Frame(o) \in Requests
<1>1. o.cmd \in Byte /\ o.arg \in Byte /\ hostKey \in Byte /\ hostMessage \in Byte
  BY OrdersTyped DEF TypeInv
<1>2. /\ KeyXor(hostKey, hostMessage) \in Byte
      /\ Encrypt(o.cmd, hostMessage) \in Byte /\ Encrypt(o.arg, hostMessage) \in Byte
  BY <1>1, XorIsByte DEF KeyXor, Encrypt
<1> QED
  BY <1>1, <1>2 DEF Frame, Requests

LEMMA DropTyped ==
    ASSUME NEW S, NEW s \in Seq(S), NEW k \in 0..Len(s)
    PROVE  SubSeq(s, k + 1, Len(s)) \in Seq(S)
<1>1. Len(s) \in Nat /\ \A i \in (k + 1)..Len(s) : s[i] \in S
  BY LenProperties, ElementOfSeq
<1> QED
  BY <1>1, SubSeqProperties

LEMMA StateInit ==
    ASSUME Init
    PROVE  TypeInv /\ OrderInv
<1>1. RingInv /\ Len(Contents) = 0
  BY RingInit, QueueAssumption DEF Init, SlaveInit, QueueInit, Contents
<1>2. TypeInv
  BY <1>1, SlaveAssumption, LinkAssumption DEF Init, SlaveInit, TypeInv, Statuses
<1> QED
  BY <1>1, <1>2 DEF OrderInv, Ordered, Rising, Below, Between, UpTo, Init, SlaveInit

\* What a frame the device reads changes.
LEMMA AnswerEffect ==
    ASSUME TypeInv, SlaveAnswers
    PROVE  LET r == Head(inbox) IN
           /\ inbox # <<>> /\ r \in Requests
           /\ KeySet(r) /\ ZonesSet(r) /\ RingInv'
           /\ \E a \in Answers : /\ Replies(r, a)
                                 /\ \/ a.kind # "event" /\ Queued
                                    \/ Taken(a)
<1> DEFINE r == Head(inbox)
<1>1. inbox # <<>> /\ r \in Requests
  BY HeadTailProperties DEF SlaveAnswers, TypeInv
<1>2. Answering(r, nextId + 1) /\ CountsEvent
  BY <1>1, SlaveEffect DEF SlaveAnswers
<1>3. PICK a \in Answers : Replies(r, a) /\ QueueMove(a, nextId + 1)
  BY <1>2 DEF Answering
<1>4. RingInv' /\ ((a.kind # "event" /\ Queued) \/ Taken(a))
  BY <1>2, <1>3, MoveQueues
<1> QED
  BY <1>1, <1>2, <1>3, <1>4 DEF Answering

LEMMA InboxTyped ==
    ASSUME TypeInv, inbox # <<>>, SlaveReads
    PROVE  inbox' \in Seq(Requests)
<1>1. inbox \in Seq(Requests) /\ (inbox' = Tail(inbox) \/ inbox' = <<>>)
  BY DEF TypeInv, SlaveReads
<1>2. Tail(inbox) \in Seq(Requests) /\ <<>> \in Seq(Requests)
  BY <1>1, HeadTailProperties, EmptySeq
<1> QED
  BY <1>1, <1>2

LEMMA QueuedTyped ==
    ASSUME TypeInv, NEW a, Queued \/ Taken(a)
    PROVE  nextId' \in Nat
BY DEF TypeInv, Queued, Taken

LEMMA TypeStep ==
    ASSUME TypeInv, [Next]_vars
    PROVE  TypeInv'
<1>1. ASSUME NEW order \in Orders, HostSends(order)
      PROVE  TypeInv'
  <2>1. inbox' \in Seq(Requests)
    <3>1. Frame(order) \in Requests /\ inbox \in Seq(Requests)
      BY FrameTyped DEF TypeInv
    <3> QED
      BY <1>1, <3>1, AppendProperties DEF HostSends
  <2>2. outbox' \in Seq(Answers)
    BY <1>1, DropTyped DEF HostSends, TypeInv
  <2>3. UNCHANGED <<slaveKey, zones, hostKey, hostMessage, nextId, got>>
        /\ UNCHANGED queueVars /\ pending' \in Orders
    BY <1>1 DEF HostSends, slaveVars, historyVars
  <2> QED
    BY <2>1, <2>2, <2>3, NothingMoves DEF TypeInv
<1>2. CASE HostReceives
  <2>1. /\ outbox' \in Seq(Answers) /\ Head(outbox) \in Answers
    BY <1>2, HeadTailProperties DEF HostReceives, TypeInv
  <2>2. UNCHANGED <<slaveKey, zones, inbox, nextId>> /\ UNCHANGED queueVars
        /\ pending' = Nothing /\ pending \in Orders
    BY <1>2 DEF HostReceives, slaveVars, TypeInv
  <2>3. hostKey' \in Byte /\ hostMessage' = hostKey'
    BY <1>2, <2>2, OrdersTyped DEF HostReceives, HostTakesKey, TypeInv
  <2>4. got' \in Seq(Nat)
    <3>1. Head(outbox).event \in Nat
      BY <2>1 DEF Answers
    <3>2. got' = got \/ got' = Append(got, Head(outbox).event)
      BY <1>2 DEF HostReceives, HostTakesEvent
    <3>3. got \in Seq(Nat)
      BY DEF TypeInv
    <3>4. Append(got, Head(outbox).event) \in Seq(Nat)
      BY <3>1, <3>3, AppendProperties
    <3> QED
      BY <3>2, <3>3, <3>4
  <2> QED
    BY <2>1, <2>2, <2>3, <2>4, NothingMoves DEF TypeInv
<1>3. CASE HostGivesUp
  <2>1. UNCHANGED <<slaveKey, zones, hostKey, hostMessage, inbox, outbox, nextId, got>>
        /\ UNCHANGED queueVars /\ pending' = Nothing
    BY <1>3 DEF HostGivesUp, slaveVars, lineVars
  <2> QED
    BY <2>1, NothingMoves DEF TypeInv
<1>4. CASE LosesRequest
  <2>1. UNCHANGED <<slaveKey, zones, hostKey, hostMessage, pending, outbox, nextId, got>>
        /\ UNCHANGED queueVars /\ inbox' \in Seq(Requests)
    BY <1>4, HeadTailProperties DEF LosesRequest, slaveVars, hostVars, historyVars, TypeInv
  <2> QED
    BY <2>1, NothingMoves DEF TypeInv
<1>5. CASE LosesAnswer
  <2>1. UNCHANGED <<slaveKey, zones, hostKey, hostMessage, pending, inbox, nextId, got>>
        /\ UNCHANGED queueVars /\ outbox' \in Seq(Answers)
    BY <1>5, HeadTailProperties DEF LosesAnswer, slaveVars, hostVars, historyVars, TypeInv
  <2> QED
    BY <2>1, NothingMoves DEF TypeInv
<1>6. CASE SlaveAnswers
  <2> DEFINE r == Head(inbox)
  <2>1. /\ inbox # <<>> /\ r \in Requests /\ KeySet(r) /\ ZonesSet(r) /\ RingInv'
    BY <1>6, AnswerEffect
  <2>2. PICK a \in Answers : Replies(r, a) /\ ((a.kind # "event" /\ Queued) \/ Taken(a))
    BY <1>6, AnswerEffect
  <2>3. outbox' \in Seq(Answers)
    BY <2>2, AppendProperties DEF Replies, TypeInv
  <2>4. inbox' \in Seq(Requests) /\ nextId' \in Nat
    BY <1>6, <2>1, <2>2, InboxTyped, QueuedTyped DEF SlaveAnswers
  <2>5. slaveKey' \in Byte
    BY <2>1, ReadsBytes DEF KeySet, TypeInv
  <2>6. UNCHANGED <<hostKey, hostMessage, pending, got>>
    BY <1>6 DEF SlaveAnswers, hostVars
  <2> QED
    BY <2>1, <2>3, <2>4, <2>5, <2>6 DEF TypeInv, ZonesSet
<1>7. CASE SlaveIgnores
  <2>1. UNCHANGED <<slaveKey, zones, hostKey, hostMessage, pending, outbox, nextId, got>>
        /\ UNCHANGED queueVars /\ inbox # <<>> /\ SlaveReads
    BY <1>7 DEF SlaveIgnores, IgnoresUnknown, hostVars, historyVars
  <2> QED
    BY <2>1, NothingMoves, InboxTyped DEF TypeInv
<1>8. ASSUME NEW z \in HostZones \cap Zones, SlaveAlarms(z)
      PROVE  TypeInv'
  <2>1. /\ UNCHANGED <<slaveKey, hostKey, hostMessage, pending, inbox, outbox, got>>
        /\ zones' \in [Zones -> Statuses]
    BY <1>8 DEF SlaveAlarms, ReportAlarm, hostVars, TypeInv, Statuses
  <2>2. RingInv' /\ Queued
    BY <1>8, PushQueues DEF SlaveAlarms, ReportAlarm
  <2> QED
    BY <2>1, <2>2, QueuedTyped DEF TypeInv
<1>9. CASE UNCHANGED vars
  <2>1. UNCHANGED <<slaveKey, zones, hostKey, hostMessage, pending, inbox, outbox, nextId, got>>
        /\ UNCHANGED queueVars
    BY <1>9 DEF vars, slaveVars, hostVars, lineVars, historyVars
  <2> QED
    BY <2>1, NothingMoves DEF TypeInv
<1> QED
  BY <1>1, <1>2, <1>3, <1>4, <1>5, <1>6, <1>7, <1>8, <1>9 DEF Next
LEMMA OrderStep ==
    ASSUME TypeInv, OrderInv, [Next]_vars
    PROVE  OrderInv'
<1>0. /\ got \in Seq(Nat) /\ outbox \in Seq(Answers) /\ Contents \in Seq(Nat) /\ nextId \in Nat
      /\ Ordered(got, outbox, Contents, nextId)
  BY QueueTyped DEF TypeInv, OrderInv
<1> SUFFICES Ordered(got', outbox', Contents', nextId')
  BY DEF OrderInv
<1>1. ASSUME NEW order \in Orders, HostSends(order)
      PROVE  Ordered(got', outbox', Contents', nextId')
  <2>1. UNCHANGED <<got, nextId>> /\ Contents' = Contents
    BY <1>1, NothingMoves DEF HostSends, slaveVars, historyVars, TypeInv
  <2>2. PICK k \in 0..Len(outbox) : outbox' = SubSeq(outbox, k + 1, Len(outbox))
    BY <1>1 DEF HostSends
  <2> QED
    BY <1>0, <2>1, <2>2, OrderedDrop
<1>2. CASE HostReceives
  <2>1. /\ nextId' = nextId /\ Contents' = Contents
        /\ outbox # <<>> /\ outbox' = Tail(outbox)
    BY <1>2, NothingMoves DEF HostReceives, slaveVars, TypeInv
  <2>2. \/ got' = got
        \/ got' = Append(got, Head(outbox).event) /\ Head(outbox).kind = "event"
    BY <1>2 DEF HostReceives, HostTakesEvent
  <2> QED
    BY <1>0, <2>1, <2>2, OrderedTail, OrderedGet
<1>3. CASE SlaveAnswers
  <2>1. PICK a \in Answers : /\ Replies(Head(inbox), a)
                             /\ (a.kind # "event" /\ Queued) \/ Taken(a)
    BY <1>3, AnswerEffect
  <2>2. got' = got /\ outbox' = Append(outbox, a)
    BY <1>3, <2>1 DEF SlaveAnswers, Replies
  <2>3. Append(outbox, a) \in Seq(Answers)
    BY <1>0, AppendProperties
  <2>4. CASE a.kind # "event" /\ Queued
    BY <1>0, <2>2, <2>3, <2>4, OrderedAnswer, OrderedPush DEF Queued
  <2>5. CASE Taken(a)
    BY <1>0, <2>2, <2>5, OrderedTake DEF Taken
  <2> QED
    BY <2>1, <2>4, <2>5
<1>4. ASSUME NEW z \in HostZones \cap Zones, SlaveAlarms(z)
      PROVE  Ordered(got', outbox', Contents', nextId')
  <2>1. Queued /\ UNCHANGED <<got, outbox>>
    BY <1>4, PushQueues DEF SlaveAlarms, ReportAlarm
  <2> QED
    BY <1>0, <2>1, OrderedPush DEF Queued
<1>5. CASE LosesAnswer
  <2>1. UNCHANGED <<got, nextId>> /\ Contents' = Contents
        /\ outbox # <<>> /\ outbox' = Tail(outbox)
    BY <1>5, NothingMoves DEF LosesAnswer, slaveVars, historyVars, TypeInv
  <2> QED
    BY <1>0, <2>1, OrderedTail
<1>6. CASE HostGivesUp \/ LosesRequest \/ SlaveIgnores \/ UNCHANGED vars
  <2>1. UNCHANGED <<got, nextId, outbox>> /\ UNCHANGED queueVars
    BY <1>6 DEF HostGivesUp, LosesRequest, SlaveIgnores, IgnoresUnknown, vars, slaveVars,
                lineVars, historyVars
  <2> QED
    BY <1>0, <2>1, NothingMoves DEF TypeInv
<1> QED
  BY <1>1, <1>2, <1>3, <1>4, <1>5, <1>6 DEF Next

-----------------------------------------------------------------------------
(* Until a command fails, host and device agree.                           *)

\* The queue q goes on from the event m, and n is the last event.
GoesOn(m, q, n) == n = m + Len(q) /\ \A i \in 1..Len(q) : q[i] = m + i

LEMMA GoesOnPush ==
    ASSUME NEW m \in Nat, NEW q \in Seq(Nat), NEW n, GoesOn(m, q, n)
    PROVE  GoesOn(m, Append(q, n + 1), n + 1)
<1> DEFINE p == Append(q, n + 1)
<1>1. n \in Nat /\ n + 1 \in Nat /\ n = m + Len(q) /\ Len(q) \in Nat
  BY LenProperties DEF GoesOn
<1>2. /\ Len(p) = Len(q) + 1 /\ p[Len(q) + 1] = n + 1
      /\ \A i \in 1..Len(q) : p[i] = q[i]
  BY <1>1, AppendAt
<1> HIDE DEF p
<1>3. ASSUME NEW i \in 1..Len(p)
      PROVE  p[i] = m + i
  <2>1. CASE i = Len(q) + 1
    BY <1>1, <1>2, <2>1
  <2>2. CASE i \in 1..Len(q)
    BY <1>2, <2>2 DEF GoesOn
  <2> QED
    BY <1>1, <1>2, <2>1, <2>2
<1> QED
  BY <1>1, <1>2, <1>3 DEF GoesOn, p

LEMMA GoesOnPop ==
    ASSUME NEW m \in Nat, NEW q \in Seq(Nat), NEW n, GoesOn(m, q, n), q # <<>>
    PROVE  Head(q) = m + 1 /\ GoesOn(m + 1, Tail(q), n)
<1> DEFINE t == Tail(q)
<1>1. /\ Len(q) \in Nat /\ Len(q) >= 1 /\ Head(q) = q[1] /\ Len(t) = Len(q) - 1
      /\ \A i \in 1..Len(t) : i + 1 \in 1..Len(q) /\ t[i] = q[i + 1]
  BY TailAt
<1> HIDE DEF t
<1>2. Head(q) = m + 1
  BY <1>1 DEF GoesOn
<1>3. ASSUME NEW i \in 1..Len(t)
      PROVE  t[i] = (m + 1) + i
  <2>1. t[i] = m + (i + 1)
    BY <1>1 DEF GoesOn
  <2> QED
    BY <1>1, <2>1
<1>4. n = (m + 1) + Len(t)
  BY <1>1 DEF GoesOn
<1> QED
  BY <1>2, <1>3, <1>4 DEF GoesOn, t

\* k events are on their way to the host.
Counted(k) == GoesOn(Len(got) + k, Contents, nextId)

\* The answer a to the pending command.
Fits(a) ==
    /\ a.key \in {{}, hostMessage}
    /\ slaveKey = IF pending.cmd = CMD_SET_GLOBAL_KEY THEN pending.arg ELSE hostKey
    /\ pending.cmd = CMD_READ_EVENT => a.kind \in {"event", "none"}
    /\ a.kind = "event" =>
           /\ pending.cmd = CMD_READ_EVENT /\ a.key = hostMessage
           /\ a.event = Len(got) + 1 /\ Counted(1)
    /\ a.kind # "event" => Counted(0)

Quiet    == /\ pending = Nothing /\ inbox = <<>> /\ outbox = <<>>
            /\ slaveKey = hostKey /\ Counted(0)
Sent     == /\ pending # Nothing /\ inbox = <<Frame(pending)>> /\ outbox = <<>>
            /\ slaveKey = hostKey /\ Counted(0)
Answered == /\ pending # Nothing /\ inbox = <<>>
            /\ \E a \in Answers : outbox = <<a>> /\ Fits(a)
Lost     == pending # Nothing /\ inbox = <<>> /\ outbox = <<>>

Delivered == ~misread /\ \A i \in 1..Len(got) : got[i] = i

SyncInv == ~failed => Delivered /\ (Quiet \/ Sent \/ Answered \/ Lost)

LEMMA CountedQueued ==
    ASSUME TypeInv, NEW k \in Nat, Counted(k), Queued, got' = got
    PROVE  Counted(k)'
<1>1. Len(got) + k \in Nat /\ Contents \in Seq(Nat)
  BY LenProperties, QueueTyped DEF TypeInv
<1>2. GoesOn(Len(got) + k, Contents', nextId')
  BY <1>1, GoesOnPush DEF Counted, Queued
<1> QED
  BY <1>2 DEF Counted
LEMMA CountedTaken ==
    ASSUME TypeInv, NEW a, Counted(0), Taken(a), got' = got
    PROVE  a.event = Len(got') + 1 /\ Counted(1)'
<1>1. Len(got) \in Nat /\ Contents \in Seq(Nat) /\ Len(got) + 0 = Len(got)
  BY LenProperties, QueueTyped DEF TypeInv
<1>2. GoesOn(Len(got), Contents, nextId)
  BY <1>1 DEF Counted
<1>3. a.event = Len(got) + 1 /\ GoesOn(Len(got) + 1, Contents', nextId')
  BY <1>1, <1>2, GoesOnPop DEF Taken
<1> QED
  BY <1>3 DEF Counted

\* The device reads in the frame of the pending command what the host meant.
LEMMA OwnFrame ==
    ASSUME TypeInv, pending # Nothing, slaveKey = hostKey, NEW r, r = Frame(pending)
    PROVE  /\ CommandOf(r) = pending.cmd /\ ArgumentOf(r) = pending.arg
           /\ r.encrypted <=> pending.cmd \notin PlainOrders
           /\ r.encrypted => CommandOf(r) \in EncryptedCommands
           /\ MessageKeyOf(r) = hostMessage
<1>1. /\ pending \in Orders /\ pending.cmd \in Commands /\ pending.cmd \in Byte
      /\ pending.arg \in Byte /\ hostKey \in Byte /\ hostMessage = hostKey
  BY OrdersTyped DEF TypeInv
<1>2. r.keyXor = KeyXor(hostKey, hostMessage) /\ (r.encrypted <=> pending.cmd \notin PlainOrders)
  BY DEF Frame
<1>3. MessageKeyOf(r) = hostMessage
  BY <1>1, <1>2, KeyOfOwnFrame DEF MessageKeyOf
<1>4. CommandOf(r) = pending.cmd /\ ArgumentOf(r) = pending.arg
  <2>1. CASE r.encrypted
    <3>1. r.cmd = Encrypt(pending.cmd, hostMessage) /\ r.arg = Encrypt(pending.arg, hostMessage)
      BY <2>1 DEF Frame
    <3>2. \A x, k \in Byte : Decrypt(Encrypt(x, k), k) = x
      BY DEF Decrypt, Encrypt, Xor, Byte
    <3> QED
      BY <1>1, <1>3, <2>1, <3>1, <3>2 DEF CommandOf, ArgumentOf
  <2>2. CASE ~r.encrypted
    <3>1. r.cmd = pending.cmd /\ r.arg = pending.arg
      BY <2>2 DEF Frame
    <3> QED
      BY <2>2, <3>1 DEF CommandOf, ArgumentOf
  <2> QED
    BY <2>1, <2>2
<1>5. r.encrypted => pending.cmd \in EncryptedCommands
  BY <1>1, <1>2 DEF Commands, PlainOrders, EncryptedCommands
<1> QED
  BY <1>2, <1>3, <1>4, <1>5

LEMMA SyncSend ==
    ASSUME TypeInv, SyncInv, NEW order \in Orders, HostSends(order)
    PROVE  SyncInv'
<1> SUFFICES ASSUME ~failed
             PROVE  Delivered' /\ Sent'
  BY DEF SyncInv, HostSends, historyVars
<1>1. /\ pending = Nothing /\ pending' = order /\ inbox' = Append(inbox, Frame(order))
      /\ UNCHANGED <<slaveKey, hostKey, hostMessage, got, misread, nextId>>
      /\ UNCHANGED queueVars
  BY DEF HostSends, slaveVars, historyVars
<1>2. Quiet /\ Delivered
  BY <1>1 DEF SyncInv, Sent, Answered, Lost
<1>3. order # Nothing
  BY OrdersTyped, CommandsDiffer DEF Nothing, Order
<1>4. outbox' = <<>>
  <2>1. PICK n \in 0..Len(outbox) : outbox' = SubSeq(outbox, n + 1, Len(outbox))
    BY DEF HostSends
  <2>2. outbox = <<>> /\ Len(outbox) = 0
    BY <1>2 DEF Quiet
  <2> QED
    BY <2>1, <2>2, SubSeqEmpty
<1>5. inbox' = <<Frame(pending)>>'
  <2>1. inbox' = <<Frame(order)>>
    BY <1>1, <1>2 DEF Quiet
  <2> QED
    BY <1>1, <2>1 DEF Frame
<1>6. Counted(0)' /\ Delivered'
  BY <1>1, <1>2, NothingMoves DEF Quiet, Counted, Delivered, TypeInv
<1> QED
  BY <1>1, <1>2, <1>3, <1>4, <1>5, <1>6 DEF Sent, Quiet

LEMMA SyncReceive ==
    ASSUME TypeInv, SyncInv, HostReceives
    PROVE  SyncInv'
<1> SUFFICES ASSUME ~failed
             PROVE  Delivered' /\ Quiet'
  BY DEF SyncInv, HostReceives
<1>1. /\ pending # Nothing /\ outbox # <<>> /\ HostTakesKey /\ HostTakesEvent(Head(outbox))
      /\ outbox' = Tail(outbox) /\ pending' = Nothing
      /\ UNCHANGED <<slaveKey, inbox, nextId>> /\ UNCHANGED queueVars
  BY DEF HostReceives, slaveVars
<1>2. Answered /\ Delivered
  BY <1>1 DEF SyncInv, Quiet, Sent, Lost
<1>3. PICK a \in Answers : outbox = <<a>> /\ Fits(a)
  BY <1>2 DEF Answered
<1>4. Head(outbox) = a /\ outbox' = <<>> /\ inbox' = <<>>
  BY <1>1, <1>2, <1>3 DEF Answered
<1>5. slaveKey' = hostKey'
  BY <1>1, <1>3 DEF HostTakesKey, Fits
<1>6. Contents' = Contents /\ got \in Seq(Nat) /\ Len(got) \in Nat
  BY <1>1, NothingMoves, LenProperties DEF TypeInv
<1>7. CASE a.kind = "event"
  <2>1. got' = Append(got, a.event) /\ misread' = misread
    BY <1>1, <1>3, <1>4, <1>7 DEF HostTakesEvent, LooksLikeEvent, Fits
  <2>2. a.event = Len(got) + 1 /\ Counted(1)
    BY <1>3, <1>7 DEF Fits
  <2>3. a.event \in Nat
    BY <1>6, <2>2
  <2>4. /\ Len(got') = Len(got) + 1 /\ got'[Len(got) + 1] = a.event
        /\ \A i \in 1..Len(got) : got'[i] = got[i]
    BY <1>6, <2>1, <2>3, AppendAt
  <2>5. Delivered'
    <3>1. \A i \in 1..Len(got') : i \in 1..Len(got) \/ i = Len(got) + 1
      BY <1>6, <2>4
    <3> QED
      BY <1>2, <2>1, <2>2, <2>4, <3>1 DEF Delivered
  <2>6. Counted(0)'
    <3>1. Len(got') + 0 = Len(got) + 1
      BY <1>6, <2>4
    <3> QED
      BY <1>1, <1>6, <2>2, <3>1 DEF Counted
  <2> QED
    BY <1>1, <1>4, <1>5, <2>5, <2>6 DEF Quiet
<1>8. CASE a.kind # "event"
  <2>1. ~(pending.cmd = CMD_READ_EVENT /\ LooksLikeEvent(a))
    BY <1>3, <1>8 DEF Fits, LooksLikeEvent
  <2>2. UNCHANGED <<got, misread>>
    BY <1>1, <1>4, <2>1 DEF HostTakesEvent
  <2>3. Counted(0)' /\ Delivered'
    BY <1>1, <1>2, <1>3, <1>6, <1>8, <2>2 DEF Fits, Counted, Delivered
  <2> QED
    BY <1>1, <1>4, <1>5, <2>3 DEF Quiet
<1> QED
  BY <1>7, <1>8

LEMMA SyncAnswer ==
    ASSUME TypeInv, SyncInv, SlaveAnswers
    PROVE  SyncInv'
<1> SUFFICES ASSUME ~failed
             PROVE  Delivered' /\ Answered'
  BY DEF SyncInv, SlaveAnswers
<1> DEFINE r == Head(inbox)
<1>1. /\ inbox # <<>> /\ SlaveReads
      /\ UNCHANGED <<hostKey, hostMessage, pending, got, misread>>
  BY DEF SlaveAnswers, hostVars
<1>2. Sent /\ Delivered
  BY <1>1 DEF SyncInv, Quiet, Answered, Lost
<1>3. r = Frame(pending) /\ inbox' = <<>>
  BY <1>1, <1>2 DEF Sent, SlaveReads
<1>4. PICK a \in Answers : /\ Replies(r, a)
                           /\ (a.kind # "event" /\ Queued) \/ Taken(a)
  BY AnswerEffect
<1>5. KeySet(r)
  BY AnswerEffect
<1>6. /\ CommandOf(r) = pending.cmd /\ ArgumentOf(r) = pending.arg
      /\ r.encrypted <=> pending.cmd \notin PlainOrders
      /\ MessageKeyOf(r) = hostMessage
  BY <1>2, <1>3, OwnFrame DEF Sent
<1> HIDE DEF r
<1>7. outbox' = <<a>>
  BY <1>2, <1>4 DEF Sent, Replies
<1>8. slaveKey' = IF pending.cmd = CMD_SET_GLOBAL_KEY THEN pending.arg ELSE hostKey
  BY <1>2, <1>5, <1>6 DEF KeySet, Sent, PlainOrders
<1>9. /\ a.key \in {{}, hostMessage}
      /\ a.kind = "event" => pending.cmd = CMD_READ_EVENT /\ a.key = hostMessage
      /\ pending.cmd = CMD_READ_EVENT => a.kind \in {"event", "none"}
  <2>1. pending.cmd = CMD_READ_EVENT => r.encrypted
    BY <1>6, CommandsDiffer DEF PlainOrders
  <2> QED
    BY <1>4, <1>6, <2>1 DEF Replies
<1>10. /\ a.kind = "event" => a.event = Len(got') + 1 /\ Counted(1)'
       /\ a.kind # "event" => Counted(0)'
  BY <1>1, <1>2, <1>4, CountedQueued, CountedTaken DEF Sent, Taken
<1>11. Fits(a)'
  BY <1>1, <1>8, <1>9, <1>10 DEF Fits
<1>12. Delivered'
  BY <1>1, <1>2 DEF Delivered
<1> QED
  BY <1>1, <1>2, <1>3, <1>7, <1>11, <1>12 DEF Answered, Sent

LEMMA SyncAlarm ==
    ASSUME TypeInv, SyncInv, NEW z \in HostZones \cap Zones, SlaveAlarms(z)
    PROVE  SyncInv'
<1>1. UNCHANGED <<slaveKey, hostKey, hostMessage, pending, inbox, outbox, got, misread, failed>>
  BY DEF SlaveAlarms, ReportAlarm, hostVars
<1>2. Queued
  BY PushQueues DEF SlaveAlarms, ReportAlarm
<1>3. /\ Counted(0) => Counted(0)'
      /\ Counted(1) => Counted(1)'
  BY <1>1, <1>2, CountedQueued
<1>4. Frame(pending)' = Frame(pending)
  BY <1>1 DEF Frame
<1>5. Delivered => Delivered'
  BY <1>1 DEF Delivered
<1>6. \A a \in Answers : Fits(a) => Fits(a)'
  BY <1>1, <1>3 DEF Fits
<1>7. Answered => Answered'
  BY <1>1, <1>6 DEF Answered
<1>8. (Quiet => Quiet') /\ (Sent => Sent') /\ (Lost => Lost')
  BY <1>1, <1>3, <1>4 DEF Quiet, Sent, Lost
<1> QED
  BY <1>1, <1>5, <1>7, <1>8 DEF SyncInv
LEMMA SyncLoss ==
    ASSUME TypeInv, SyncInv, LosesRequest \/ LosesAnswer
    PROVE  SyncInv'
<1> SUFFICES ASSUME ~failed
             PROVE  Delivered' /\ Lost'
  BY DEF SyncInv, LosesRequest, LosesAnswer, historyVars
<1>1. UNCHANGED <<pending, got, misread>>
  BY DEF LosesRequest, LosesAnswer, hostVars, historyVars
<1>2. Delivered' /\ (Quiet \/ Sent \/ Answered \/ Lost)
  BY <1>1 DEF SyncInv, Delivered
<1>3. CASE LosesRequest
  <2>1. inbox # <<>> /\ inbox' = Tail(inbox) /\ outbox' = outbox
    BY <1>3 DEF LosesRequest
  <2>2. Sent
    BY <1>2, <2>1 DEF Quiet, Answered, Lost
  <2> QED
    BY <1>1, <1>2, <2>1, <2>2 DEF Sent, Lost
<1>4. CASE LosesAnswer
  <2>1. outbox # <<>> /\ outbox' = Tail(outbox) /\ inbox' = inbox
    BY <1>4 DEF LosesAnswer
  <2>2. Answered
    BY <1>2, <2>1 DEF Quiet, Sent, Lost
  <2> QED
    BY <1>1, <1>2, <2>1, <2>2 DEF Answered, Lost
<1> QED
  BY <1>3, <1>4

\* A frame under the right key is never an unknown command.
LEMMA SyncIgnore ==
    ASSUME TypeInv, SyncInv, SlaveIgnores
    PROVE  SyncInv'
<1> SUFFICES ASSUME ~failed
             PROVE  FALSE
  BY DEF SyncInv, SlaveIgnores, historyVars
<1>1. inbox # <<>> /\ IgnoresUnknown(Head(inbox))
  BY DEF SlaveIgnores
<1>2. Sent
  BY <1>1 DEF SyncInv, Quiet, Answered, Lost
<1>3. Head(inbox) = Frame(pending)
  BY <1>2 DEF Sent
<1> QED
  BY <1>1, <1>2, <1>3, OwnFrame DEF Sent, IgnoresUnknown

LEMMA SyncStutter ==
    ASSUME TypeInv, SyncInv, UNCHANGED vars
    PROVE  SyncInv'
<1>1. /\ UNCHANGED <<slaveKey, hostKey, hostMessage, pending, inbox, outbox, got, misread,
                     failed, nextId>>
      /\ Contents' = Contents
  BY NothingMoves DEF vars, slaveVars, hostVars, lineVars, historyVars, TypeInv
<1>2. /\ Frame(pending)' = Frame(pending) /\ (Delivered => Delivered')
      /\ (Counted(0) => Counted(0)') /\ (Counted(1) => Counted(1)')
  BY <1>1 DEF Frame, Counted, Delivered
<1>3. \A a \in Answers : Fits(a) => Fits(a)'
  BY <1>1, <1>2 DEF Fits
<1>4. Answered => Answered'
  BY <1>1, <1>3 DEF Answered
<1>5. (Quiet => Quiet') /\ (Sent => Sent') /\ (Lost => Lost')
  BY <1>1, <1>2 DEF Quiet, Sent, Lost
<1> QED
  BY <1>1, <1>2, <1>4, <1>5 DEF SyncInv

LEMMA SyncStep ==
    ASSUME TypeInv, SyncInv, [Next]_vars
    PROVE  SyncInv'
<1>1. CASE HostGivesUp
  BY <1>1 DEF HostGivesUp, SyncInv
<1> QED
  BY <1>1, SyncSend, SyncReceive, SyncAnswer, SyncLoss, SyncIgnore, SyncAlarm, SyncStutter
     DEF Next

LEMMA SyncInitial ==
    ASSUME Init
    PROVE  SyncInv
<1>1. Len(Contents) = 0
  BY QueueAssumption DEF Init, SlaveInit, QueueInit, Contents
<1>2. Counted(0)
  BY <1>1 DEF Init, Counted, GoesOn
<1> QED
  BY <1>2 DEF Init, SlaveInit, SyncInv, Delivered, Quiet

-----------------------------------------------------------------------------
(* What the link promises.                                                 *)

Inv == TypeInv /\ OrderInv /\ SyncInv

\* The inductive invariant holds: types, the order of the events, and what the two sides
\* agree on until a command fails (orion_protocol.c:153-190, orion_slave.cpp:184-235).
THEOREM InvHolds == Spec => []Inv
<1>1. Init => Inv
  BY StateInit, SyncInitial DEF Inv
<1>2. Inv /\ [Next]_vars => Inv'
  BY TypeStep, OrderStep, SyncStep DEF Inv
<1> QED
  BY <1>1, <1>2, PTL DEF Spec

(* Both sides keep keys the operator set or the line can carry, and neither *)
(* the frames on their way nor the events outgrow their bounds.             *)
BoundInv ==
    /\ hostKey \in Keys /\ slaveMessage \in Byte
    /\ Len(inbox) + Len(outbox) <= MaxFrames
    /\ nextId \in 0..MaxIds

LEMMA KeyOrders ==
    ASSUME NEW o \in Orders, o.cmd = CMD_SET_GLOBAL_KEY
    PROVE  o.arg \in Keys
BY CommandsDiffer DEF Orders, ZoneCommands, Order

(* A frame that is answered makes room for its answer. *)
LEMMA AnswerFits ==
    ASSUME TypeInv, BoundInv, SlaveAnswers
    PROVE  Len(inbox') + Len(outbox') <= MaxFrames
<1>1. PICK a \in Answers : outbox' = Append(outbox, a)
  BY AnswerEffect DEF Replies
<1>2. Len(outbox') = Len(outbox) + 1 /\ Len(outbox) \in Nat
  BY <1>1, AppendProperties, LenProperties DEF TypeInv
<1>3. Len(inbox') <= Len(inbox) - 1 /\ Len(inbox') \in Nat /\ Len(inbox) \in Nat
  BY HeadTailProperties, LenProperties, EmptySeq DEF SlaveAnswers, SlaveReads, TypeInv
<1> QED
  BY <1>2, <1>3, LinkAssumption DEF BoundInv

LEMMA FramesFit ==
    ASSUME TypeInv, TypeInv', BoundInv, [Next]_vars
    PROVE  Len(inbox') + Len(outbox') <= MaxFrames
<1>1. /\ Len(inbox) \in Nat /\ Len(outbox) \in Nat /\ Len(inbox') \in Nat /\ Len(outbox') \in Nat
      /\ Len(inbox) + Len(outbox) <= MaxFrames /\ MaxFrames \in Nat
  BY LenProperties, LinkAssumption DEF TypeInv, BoundInv
<1>2. /\ inbox # <<>> => Len(Tail(inbox)) = Len(inbox) - 1
      /\ outbox # <<>> => Len(Tail(outbox)) = Len(outbox) - 1
      /\ Len(<<>>) = 0
  BY HeadTailProperties, EmptySeq DEF TypeInv
<1>3. ASSUME NEW order \in Orders, HostSends(order)
      PROVE  Len(inbox') + Len(outbox') <= MaxFrames
  <2>1. Len(inbox') = Len(inbox) + 1 /\ Len(inbox) + Len(outbox') < MaxFrames
    BY <1>3, FrameTyped, AppendProperties DEF HostSends, TypeInv
  <2> QED
    BY <1>1, <2>1
<1>4. CASE HostReceives
  BY <1>1, <1>2, <1>4 DEF HostReceives
<1>5. CASE LosesRequest \/ LosesAnswer
  BY <1>1, <1>2, <1>5 DEF LosesRequest, LosesAnswer
<1>6. CASE SlaveIgnores
  BY <1>1, <1>2, <1>6 DEF SlaveIgnores, IgnoresUnknown, SlaveReads
<1>7. CASE UNCHANGED <<inbox, outbox>>
  BY <1>1, <1>7
<1> QED
  BY <1>3, <1>4, <1>5, <1>6, <1>7, AnswerFits
  DEF Next, HostGivesUp, SlaveAlarms, ReportAlarm, lineVars, vars, slaveVars

LEMMA BoundStep ==
    ASSUME TypeInv, TypeInv', BoundInv, [Next]_vars
    PROVE  BoundInv'
<1>1. hostKey' \in Keys
  <2>1. CASE HostReceives
    <3>1. pending \in Orders
      BY <2>1 DEF HostReceives, TypeInv
    <3> QED
      BY <2>1, <3>1, KeyOrders DEF HostReceives, HostTakesKey, BoundInv
  <2>2. CASE UNCHANGED hostKey
    BY <2>2 DEF BoundInv
  <2> QED
    BY <2>1, <2>2 DEF Next, HostSends, HostGivesUp, LosesRequest, LosesAnswer, SlaveAnswers,
       SlaveIgnores, SlaveAlarms, hostVars, vars
<1>2. slaveMessage' \in Byte
  <2>1. CASE SlaveAnswers \/ SlaveIgnores
    <3> DEFINE r == Head(inbox)
    <3>1. r \in Requests
      BY <2>1, HeadTailProperties DEF SlaveAnswers, SlaveIgnores, TypeInv
    <3>2. MessageKeyOf(r) \in Byte /\ ArgumentOf(r) \in Byte
      BY <3>1, ReadsBytes DEF TypeInv
    <3>3. slaveMessage' \in {slaveMessage, MessageKeyOf(r), ArgumentOf(r)}
      BY <2>1 DEF SlaveAnswers, SlaveIgnores, Processes, IgnoresUnknown, HandlePlain,
         HandleSetGlobalKey, slaveVars
    <3> QED
      BY <3>2, <3>3 DEF BoundInv
  <2>2. CASE UNCHANGED slaveMessage
    BY <2>2 DEF BoundInv
  <2> QED
    BY <2>1, <2>2 DEF Next, HostSends, HostReceives, HostGivesUp, LosesRequest, LosesAnswer,
       SlaveAlarms, ReportAlarm, slaveVars, vars
<1>3. nextId' \in 0..MaxIds
  <2>1. nextId' \in Nat /\ nextId \in 0..MaxIds
    BY DEF TypeInv, BoundInv
  <2>2. nextId' = nextId \/ nextId' <= MaxIds
    BY DEF Next, HostSends, HostReceives, HostGivesUp, LosesRequest, LosesAnswer, SlaveAnswers,
       SlaveIgnores, SlaveAlarms, CountsEvent, historyVars, vars
  <2> QED
    BY <2>1, <2>2, LinkAssumption
<1> QED
  BY <1>1, <1>2, <1>3, FramesFit DEF BoundInv

\* Keys, zones, ring, frames on their way and event numbers keep their types and bounds, for
\* any keys, zones, queue and line, also when keys differ and one command is read as another
\* (orion_slave.cpp:184-235).
THEOREM LinkTypeCorrect == Spec => []LinkTypeOK
<1>1. Init => BoundInv
  BY LinkAssumption, SlaveAssumption, EmptySeq DEF Init, SlaveInit, BoundInv
<1>2. Inv /\ Inv' /\ BoundInv /\ [Next]_vars => BoundInv'
  BY BoundStep DEF Inv
<1>3. Inv /\ BoundInv => LinkTypeOK
  BY DEF Inv, TypeInv, BoundInv, LinkTypeOK, SlaveTypeOK, RingInv
<1> QED
  BY <1>1, <1>2, <1>3, InvHolds, PTL DEF Spec

\* read_event returns the device's events in order and each once, whatever is lost or
\* late, for any keys, queue and line; until a command fails it skips none
\* (orion_commands.c:158-187, orion_slave.cpp:428-447).
THEOREM OrderCorrect == Spec => []EventsInOrder
<1>1. Inv => EventsInOrder
  <2> SUFFICES ASSUME Inv
               PROVE  EventsInOrder
    OBVIOUS
  <2>1. DOMAIN got = 1..Len(got)
    BY LenProperties DEF Inv, TypeInv
  <2>2. Rising(got) /\ (~failed => Delivered)
    BY DEF Inv, OrderInv, Ordered, SyncInv
  <2> QED
    BY <2>1, <2>2 DEF EventsInOrder, Rising, Delivered
<1> QED
  BY <1>1, InvHolds, PTL

\* Until a command fails every answer on its way is encrypted as the host will read it,
\* also while keys change (orion_slave.cpp:203-211, 474-497; orion_commands.c:30-31).
THEOREM ReadableCorrect == Spec => []AnswersReadable
<1>1. Inv => AnswersReadable
  <2> SUFFICES ASSUME Inv, ~failed, NEW i \in DOMAIN outbox
               PROVE  outbox[i].key \in {{}, hostMessage}
    BY DEF AnswersReadable
  <2>1. Answered
    BY DEF Inv, SyncInv, Quiet, Sent, Lost
  <2>2. PICK a \in Answers : outbox = <<a>> /\ Fits(a)
    BY <2>1 DEF Answered
  <2>3. outbox[i] = a
    BY <2>2
  <2> QED
    BY <2>2, <2>3 DEF Fits
<1> QED
  BY <1>1, InvHolds, PTL

\* Until a command fails a frame changes the zone the operator named, as the operator
\* asked, for any keys set before (orion_slave.cpp:184-235, 366-426).
THEOREM MeantCorrect == Spec => ActsAsMeant
<1> DEFINE A == ~failed /\ inbox' # inbox =>
                  \A z \in Zones : zones'[z] # zones[z] =>
                      z = pending.arg /\ zones'[z] = SetBy(pending.cmd)
<1>1. Inv /\ [Next]_vars => [A]_vars
  <2> SUFFICES ASSUME Inv, [Next]_vars, ~failed, inbox' # inbox, NEW z \in Zones,
                      zones'[z] # zones[z]
               PROVE  z = pending.arg /\ zones'[z] = SetBy(pending.cmd)
    OBVIOUS
  <2>1. SlaveAnswers
    BY DEF Next, HostSends, HostReceives, HostGivesUp, LosesRequest, LosesAnswer,
           SlaveIgnores, IgnoresUnknown, SlaveAlarms, slaveVars, hostVars, lineVars,
           historyVars, vars
  <2> DEFINE r == Head(inbox)
  <2>2. inbox # <<>> /\ ZonesSet(r)
    BY <2>1, AnswerEffect DEF Inv
  <2>3. Sent
    BY <2>2 DEF Inv, SyncInv, Quiet, Answered, Lost
  <2>4. r = Frame(pending)
    BY <2>3 DEF Sent
  <2>5. CommandOf(r) = pending.cmd /\ ArgumentOf(r) = pending.arg
    BY <2>3, <2>4, OwnFrame DEF Sent, Inv
  <2> QED
    BY <2>2, <2>5 DEF ZonesSet
<1> QED
  BY <1>1, InvHolds, PTL DEF Spec, ActsAsMeant

\* The queue inside the device that the host talks to is a bounded first-in-first-out
\* queue, for every capacity (orion_slave.cpp:85-105).
THEOREM DeviceQueueIsFifo == Spec => QueueIsFifo
<1>1. Inv /\ [Next]_vars => [QueueNext]_queueVars
  <2> SUFFICES ASSUME Inv, [Next]_vars
               PROVE  QueueNext \/ UNCHANGED queueVars
    OBVIOUS
  <2>1. PushEvent(nextId + 1) /\ CountsEvent => QueueNext \/ UNCHANGED queueVars
    BY NextIdIsEvent DEF Inv, PushEvent, QueueNext
  <2>2. CASE SlaveAnswers
    <3>1. PICK a \in Answers : QueueMove(a, nextId + 1)
      <4>1. Head(inbox) \in Requests
        BY <2>2, HeadTailProperties DEF SlaveAnswers, Inv, TypeInv
      <4> QED
        BY <2>2, <4>1, SlaveEffect DEF SlaveAnswers, Answering, Inv
    <3> QED
      BY <2>1, <2>2, <3>1 DEF QueueMove, QueueNext, SlaveAnswers
  <2>3. ASSUME NEW z \in HostZones \cap Zones, SlaveAlarms(z)
        PROVE  QueueNext \/ UNCHANGED queueVars
    BY <2>1, <2>3 DEF SlaveAlarms, ReportAlarm
  <2> QED
    BY <2>2, <2>3 DEF Next, HostSends, HostReceives, HostGivesUp, LosesRequest, LosesAnswer,
       SlaveIgnores, IgnoresUnknown, slaveVars, vars
<1>2. Spec => QueueSpec
  BY <1>1, InvHolds, PTL DEF Spec, QueueSpec, Init, SlaveInit
<1> QED
  BY <1>2, RingIsFifo

\* The device numbers its events one by one.
LEMMA HappensOrNot ==
    ASSUME CountsEvent, UNCHANGED <<got, failed>>
    PROVE  [Channel!Next]_(Channel!channelVars)
<1>1. nextId' = nextId \/ nextId' = nextId + 1
  BY DEF CountsEvent
<1> QED
  BY <1>1 DEF Channel!Next, Channel!Happens, Channel!channelVars

\* What the host takes for an event is one that happened, later than those before it,
\* and while nothing failed the next one.
LEMMA ReceiveReports ==
    ASSUME Inv, Inv', HostReceives
    PROVE  [Channel!Next]_(Channel!channelVars)
<1> DEFINE e == Head(outbox).event
<1>1. UNCHANGED <<nextId, failed>>
  BY DEF HostReceives
<1>2. CASE got' = got
  BY <1>1, <1>2 DEF Channel!channelVars
<1>3. CASE got' = Append(got, e) /\ Head(outbox).kind = "event"
  <2>1. /\ outbox # <<>> /\ outbox \in Seq(Answers) /\ got \in Seq(Nat)
        /\ Ordered(got, outbox, Contents, nextId)
    BY DEF HostReceives, Inv, TypeInv, OrderInv
  <2>2. Head(outbox) = outbox[1] /\ 1 \in 1..Len(outbox)
    BY <2>1, TailAt
  <2>3. e \in 1..nextId /\ \A i \in 1..Len(got) : got[i] < e
    BY <1>3, <2>1, <2>2, Apart DEF Ordered
  <2>4. ASSUME ~failed
        PROVE  e = Len(got) + 1
    <3>1. e \in Nat
      BY <2>3 DEF Inv, TypeInv
    <3>2. Len(got') = Len(got) + 1 /\ got'[Len(got) + 1] = e /\ Len(got) \in Nat
      BY <1>3, <2>1, <3>1, AppendAt
    <3>3. \A i \in 1..Len(got') : got'[i] = i
      BY <1>1, <2>4 DEF Inv, SyncInv, Delivered
    <3>4. Len(got) + 1 \in 1..Len(got')
      BY <3>2
    <3> QED
      BY <3>2, <3>3, <3>4
  <2>5. Channel!Reports
    BY <1>1, <1>3, <2>3, <2>4 DEF Channel!Reports
  <2> QED
    BY <2>5 DEF Channel!Next
<1> QED
  BY <1>2, <1>3 DEF HostReceives, HostTakesEvent

\* The link implements the channel: for any keys, zones, queue and line (orion_slave.cpp:
\* 85-105, 428-447; orion_commands.c:158-187).
THEOREM LinkIsChannel == Spec => ReportsLikeChannel
<1>1. Init => Channel!Init
  BY DEF Init, Channel!Init
<1>2. Inv /\ Inv' /\ [Next]_vars => [Channel!Next]_(Channel!channelVars)
  <2> SUFFICES ASSUME Inv, Inv', [Next]_vars
               PROVE  [Channel!Next]_(Channel!channelVars)
    OBVIOUS
  <2>1. CASE HostReceives
    BY <2>1, ReceiveReports
  <2>2. CASE HostGivesUp
    BY <2>2 DEF HostGivesUp, Channel!Next, Channel!Fails
  <2>3. CASE SlaveAnswers
    BY <2>3, HappensOrNot DEF SlaveAnswers
  <2>4. ASSUME NEW z \in HostZones \cap Zones, SlaveAlarms(z)
        PROVE  [Channel!Next]_(Channel!channelVars)
    BY <2>4, HappensOrNot DEF SlaveAlarms
  <2>5. CASE UNCHANGED <<nextId, got, failed>>
    BY <2>5 DEF Channel!channelVars
  <2> QED
    BY <2>1, <2>2, <2>3, <2>4, <2>5
       DEF Next, HostSends, LosesRequest, LosesAnswer, SlaveIgnores, historyVars, vars
<1> QED
  BY <1>1, <1>2, InvHolds, PTL DEF Spec, ReportsLikeChannel, Channel!Spec

-----------------------------------------------------------------------------
(* Which keys keep a frame from disarming what it was to arm.              *)

\* A frame of the host, under a key the operator set.
Keyed(r) ==
    /\ r.meant \in Orders /\ r.keyXor = {}
    /\ IF r.encrypted
       THEN \E k \in Keys : r.cmd = Encrypt(r.meant.cmd, k)
       ELSE r.cmd = r.meant.cmd /\ r.arg = r.meant.arg

KeyedInv ==
    /\ slaveKey \in Keys
    /\ \A i \in 1..Len(inbox) : Keyed(inbox[i])

LEMMA FrameIsKeyed ==
    ASSUME TypeInv, BoundInv, NEW o \in Orders
    PROVE  Keyed(Frame(o))
<1>1. hostMessage = hostKey /\ hostKey \in Keys
  BY DEF TypeInv, BoundInv
<1>2. KeyXor(hostKey, hostKey) = {}
  BY DEF KeyXor, Xor
<1> QED
  BY <1>1, <1>2 DEF Frame, Keyed

\* What a device with the key mine reads as d was sent as a under a key that differs
\* from it as a does from d.
LEMMA ReadAs ==
    \A a, k, mine : Xor(Xor(a, k), mine) = Xor(a, Xor(k, mine))
BY DEF Xor

LEMMA ArmReadAs ==
    ASSUME NEW x, Xor(CMD_ARM_ZONE, x) \in {CMD_DISARM_ZONE, CMD_RESET_ALARM}
    PROVE  x \in {{0}, {0, 1, 2}}
<1>1. x = Xor(CMD_ARM_ZONE, Xor(CMD_ARM_ZONE, x))
  BY DEF Xor
<1>2. /\ Xor(CMD_ARM_ZONE, CMD_DISARM_ZONE) = {0, 1, 2}
      /\ Xor(CMD_ARM_ZONE, CMD_RESET_ALARM) = {0}
  BY DEF Xor, CMD_ARM_ZONE, CMD_DISARM_ZONE, CMD_RESET_ALARM
<1> QED
  BY <1>1, <1>2

LEMMA KeyedRead ==
    ASSUME KeyedInv, NEW r, Keyed(r)
    PROVE  /\ r.encrypted => \E k \in Keys : CommandOf(r) = Xor(r.meant.cmd, Xor(k, slaveKey))
           /\ ~r.encrypted => CommandOf(r) = r.meant.cmd /\ ArgumentOf(r) = r.meant.arg
<1>1. MessageKeyOf(r) = slaveKey
  BY DEF Keyed, MessageKeyOf, MessageKey, Xor
<1>2. ASSUME r.encrypted
      PROVE  \E k \in Keys : CommandOf(r) = Xor(r.meant.cmd, Xor(k, slaveKey))
  <2>1. PICK k \in Keys : r.cmd = Encrypt(r.meant.cmd, k)
    BY <1>2 DEF Keyed
  <2>2. CommandOf(r) = Xor(Xor(r.meant.cmd, k), slaveKey)
    BY <1>1, <1>2, <2>1 DEF CommandOf, Decrypt, Encrypt
  <2> QED
    BY <2>2, ReadAs
<1> QED
  BY <1>2 DEF Keyed, CommandOf, ArgumentOf

LEMMA KeyedStep ==
    ASSUME TypeInv, TypeInv', BoundInv, KeyedInv, [Next]_vars
    PROVE  KeyedInv'
<1>1. ASSUME NEW s \in Seq(Requests), s = inbox \/ (s = Tail(inbox) /\ inbox # <<>>) \/ s = <<>>
      PROVE  \A i \in 1..Len(s) : Keyed(s[i])
  <2>1. inbox \in Seq(Requests) /\ \A i \in 1..Len(inbox) : Keyed(inbox[i])
    BY DEF TypeInv, KeyedInv
  <2>2. CASE s = Tail(inbox) /\ inbox # <<>>
    <3>1. Len(inbox) \in Nat /\ Len(s) = Len(inbox) - 1 /\ \A i \in 1..Len(s) : s[i] = inbox[i + 1]
      BY <2>1, <2>2, HeadTailProperties, LenProperties
    <3>2. \A i \in 1..Len(s) : i + 1 \in 1..Len(inbox)
      BY <3>1
    <3> QED
      BY <2>1, <3>1, <3>2
  <2> QED
    BY <1>1, <2>1, <2>2
<1>2. inbox' \in Seq(Requests) /\ inbox \in Seq(Requests)
  BY DEF TypeInv
<1>3. ASSUME NEW order \in Orders, HostSends(order)
      PROVE  KeyedInv'
  <2>1. inbox' = Append(inbox, Frame(order)) /\ Keyed(Frame(order)) /\ slaveKey' = slaveKey
    BY <1>3, FrameIsKeyed DEF HostSends, slaveVars
  <2>2. /\ Len(inbox') = Len(inbox) + 1 /\ Len(inbox) \in Nat
        /\ inbox'[Len(inbox) + 1] = Frame(order)
        /\ \A i \in 1..Len(inbox) : inbox'[i] = inbox[i]
    BY <1>2, <2>1, FrameTyped, AppendProperties, LenProperties
  <2>3. ASSUME NEW i \in 1..Len(inbox') PROVE Keyed(inbox'[i])
    <3>1. CASE i = Len(inbox) + 1
      BY <2>1, <2>2, <3>1
    <3>2. CASE i \in 1..Len(inbox)
      BY <2>2, <3>2 DEF KeyedInv
    <3> QED
      BY <2>2, <3>1, <3>2
  <2> QED
    BY <2>1, <2>3 DEF KeyedInv
<1>4. CASE SlaveAnswers
  <2> DEFINE r == Head(inbox)
  <2>1. inbox # <<>> /\ KeySet(r)
    BY <1>4, AnswerEffect
  <2>2. Keyed(r)
    <3>1. r = inbox[1] /\ 1 \in 1..Len(inbox)
      BY <1>2, <2>1, HeadTailProperties, LenProperties
    <3> QED
      BY <3>1 DEF KeyedInv
  <2>3. slaveKey' \in Keys
    <3>1. CASE ~r.encrypted /\ CommandOf(r) = CMD_SET_GLOBAL_KEY
      <4>1. r.meant \in Orders /\ r.meant.cmd = CMD_SET_GLOBAL_KEY
            /\ ArgumentOf(r) = r.meant.arg
        BY <2>2, <3>1, KeyedRead DEF Keyed
      <4> QED
        BY <2>1, <3>1, <4>1, KeyOrders DEF KeySet
    <3>2. CASE ~(~r.encrypted /\ CommandOf(r) = CMD_SET_GLOBAL_KEY)
      BY <2>1, <3>2 DEF KeySet, KeyedInv
    <3> QED
      BY <3>1, <3>2
  <2>4. inbox' = Tail(inbox) \/ inbox' = <<>>
    BY <1>4 DEF SlaveAnswers, SlaveReads
  <2> QED
    BY <1>1, <1>2, <2>1, <2>3, <2>4 DEF KeyedInv
<1>5. CASE ~SlaveAnswers /\ ~\E order \in Orders : HostSends(order)
  <2>1. slaveKey' = slaveKey /\ (inbox' = inbox \/ (inbox' = Tail(inbox) /\ inbox # <<>>)
                                 \/ inbox' = <<>>)
    BY <1>5 DEF Next, HostReceives, HostGivesUp, LosesRequest, LosesAnswer, SlaveIgnores,
       IgnoresUnknown, SlaveReads, SlaveAlarms, ReportAlarm, slaveVars, lineVars, vars
  <2> QED
    BY <1>1, <1>2, <2>1 DEF KeyedInv
<1> QED
  BY <1>3, <1>4, <1>5

\* The frame of orion_cmd_arm disarms no zone, whatever is lost or late and whichever key
\* each side holds, if no two keys of the operator differ in exactly bit 0 or in exactly
\* bits 0, 1 and 2: the XOR then never turns ARM (0x64) into RESET_ALARM (0x65) or DISARM
\* (0x63) (orion_commands.c:22-31, orion_slave.cpp:203-211).
THEOREM KeysThatArm ==
    ASSUME \A j, k \in Keys : Xor(j, k) \notin {{0}, {0, 1, 2}}
    PROVE  Spec => ArmNeverDisarms
<1>1. Init => BoundInv /\ KeyedInv
  BY LinkAssumption, SlaveAssumption, EmptySeq DEF Init, SlaveInit, BoundInv, KeyedInv
<1>2. Inv /\ Inv' /\ BoundInv /\ KeyedInv /\ [Next]_vars => BoundInv' /\ KeyedInv'
  BY BoundStep, KeyedStep DEF Inv
<1>3. Inv /\ KeyedInv /\ [Next]_vars
        => [\A z \in Zones : zones[z] = "ARMED" /\ zones'[z] = "DISARMED" =>
               Head(inbox).meant.cmd # CMD_ARM_ZONE]_vars
  <2> DEFINE r == Head(inbox)
  <2> SUFFICES ASSUME Inv, KeyedInv, [Next]_vars, NEW z \in Zones, zones[z] = "ARMED",
                      zones'[z] = "DISARMED", r.meant.cmd = CMD_ARM_ZONE
               PROVE  FALSE
    OBVIOUS
  <2>1. SlaveAnswers
    BY DEF Next, HostSends, HostReceives, HostGivesUp, LosesRequest, LosesAnswer, SlaveIgnores,
       IgnoresUnknown, SlaveAlarms, ReportAlarm, slaveVars, vars, Inv, TypeInv
  <2>2. inbox # <<>> /\ ZonesSet(r)
    BY <2>1, AnswerEffect DEF Inv
  <2>3. Keyed(r)
    <3>1. r = inbox[1] /\ 1 \in 1..Len(inbox)
      BY <2>2, HeadTailProperties, LenProperties DEF Inv, TypeInv
    <3> QED
      BY <3>1 DEF KeyedInv
  <2>4. CommandOf(r) \in {CMD_DISARM_ZONE, CMD_RESET_ALARM}
    BY <2>2 DEF ZonesSet, SetBy
  <2>5. CASE ~r.encrypted
    BY <2>3, <2>4, <2>5, KeyedRead, CommandsDiffer
  <2>6. CASE r.encrypted
    <3>1. PICK k \in Keys : CommandOf(r) = Xor(CMD_ARM_ZONE, Xor(k, slaveKey))
      BY <2>3, <2>6, KeyedRead
    <3>2. Xor(k, slaveKey) \in {{0}, {0, 1, 2}}
      BY <2>4, <3>1, ArmReadAs
    <3> QED
      BY <3>2 DEF KeyedInv
  <2> QED
    BY <2>5, <2>6
<1> QED
  BY <1>1, <1>2, <1>3, InvHolds, PTL DEF Spec, ArmNeverDisarms
=============================================================================
