------------------------------- MODULE Framing -------------------------------
(***************************************************************************)
(* How three receivers on one RS-485 line cut its bytes into packets:      *)
(*   the sniffer of the PC (orion_sniffer.c), by length alone;             *)
(*   OrionBusMonitor (orion_bus_monitor.cpp), by length and by silence;    *)
(*   OrionSlave (orion_slave.cpp), by silence alone.                       *)
(*                                                                         *)
(* Time is counted in byte times.  The sniffer blocks in read() and sees   *)
(* each byte as it comes; the two others find it in the buffer of their    *)
(* UART when poll() is called again.  A CRC is right exactly for the       *)
(* frames somebody sends.                                                  *)
(***************************************************************************)
EXTENDS Clock, Sequences

CONSTANTS
    Frames,     \* what masters and devices send, as sequences of bytes
    Noise,      \* bytes a disturbance puts on the line
    ByteSize,   \* 256
    Offset,     \* ORION_ENCRYPT_OFFSET
    MaxPayload, \* ORION_MAX_PAYLOAD
    MaxPacket,  \* ORION_MAX_PACKET
    Address,    \* the address of the device
    Gap,        \* INTER_BYTE_TIMEOUT
    MaxStall    \* longest time between two calls of poll()

Byte == 0..ByteSize-1

ASSUME FramingAssumption ==
    /\ ByteSize \in Nat /\ Offset \in Nat \ {0}
    /\ MaxPayload \in Nat /\ MaxPacket \in Nat
    /\ MaxPayload + 3 < MaxPacket /\ MaxPacket <= ByteSize
    /\ Noise \subseteq Byte
    /\ Frames \subseteq Seq(Byte)
    /\ \A f \in Frames : /\ Len(f) >= 3 /\ Len(f) = 2 + f[2]
                         /\ f[2] <= MaxPayload + 1
    /\ Gap \in Nat /\ MaxStall \in Nat \ {0}

VARIABLES
    poller,    \* the receiver with a poll() that is looked at
    frame,     \* the frame on its way, or <<>>
    sent,      \* how many of its bytes were sent
    quiet,     \* time since the last byte, saturated at QuietMax
    state,     \* of the sniffer: the SNIFF_STATE
    cand,      \* of the sniffer: ring_buf[0 .. pkt_pos)
    remaining, \* of the sniffer: expected_remaining
    buf,       \* of the poller: _rx_buf[0 .. _rx_pos)
    fifo,      \* what its UART received and it has not read
    age,       \* time since its _last_rx_time, saturated at Gap + 1
    stall,     \* time since it last called poll()
    polling,   \* it is in the read loop of poll()
    clean,     \* history: frame began after a silence no poller can miss
    aligned,   \* history: the sniffer was idle when frame began
    owed       \* history: the frame the poller has still to deliver, or <<>>

lineVars    == <<frame, sent, quiet, clean>>
snifferVars == <<state, cand, remaining, aligned>>
pollerVars  == <<buf, age, stall, polling>>
vars == <<poller, lineVars, snifferVars, pollerVars, fifo, owed>>

Pollers   == {"monitor", "device"}
Nothing   == <<>>
Separated == Gap + MaxStall
QuietMax  == Gap + 2 * MaxStall + 1

FramingInit ==
    /\ poller \in Pollers
    /\ frame = Nothing /\ sent = 0 /\ quiet = QuietMax
    /\ clean = FALSE /\ aligned = FALSE
    /\ state = "idle" /\ cand = <<>> /\ remaining = 0
    /\ buf = <<>> /\ fifo = <<>> /\ age = 0 /\ stall = 0 /\ polling = FALSE
    /\ owed = Nothing

-----------------------------------------------------------------------------
(* What a receiver makes of a run of bytes.                                *)

Total(bytes)  == 2 + bytes[2]
Valid(bytes)  == bytes \in Frames
Begins(bytes) == SubSeq(bytes, 1, Total(bytes))

Hears(bytes) ==
    /\ Len(bytes) >= 3
    /\ bytes[1] % Offset # 0
    /\ Len(bytes) >= Total(bytes)
    /\ Valid(Begins(bytes))

Serves(bytes) ==
    /\ Len(bytes) >= 3
    /\ bytes[1] \in {Address, Address + Offset}
    /\ Len(bytes) >= Total(bytes)
    /\ Valid(Begins(bytes))

Accepts(bytes) == IF poller = "monitor" THEN Hears(bytes) ELSE Serves(bytes)

(* The poller delivers a packet: it owes that frame no longer. *)
Delivers(bytes) ==
    owed' = IF Accepts(bytes) /\ owed = Begins(bytes) THEN Nothing ELSE owed

-----------------------------------------------------------------------------
(* The sniffer, for each byte it reads. *)

SnifferIdle(b) ==
    /\ state = "idle"
    /\ state' = "got_addr" /\ cand' = <<b>>
    /\ UNCHANGED remaining

(* Faulty variant: the length byte is not checked. *)
SnifferLengthUnchecked(b) ==
    /\ state = "got_addr"
    /\ cand' = Append(cand, b)
    /\ state' = "reading" /\ remaining' = b

SnifferLength(b) ==
    /\ state = "got_addr"
    /\ cand' = Append(cand, b)
    /\ IF b = 0 \/ b > MaxPayload + 1
       THEN state' = "idle" /\ UNCHANGED remaining
       ELSE state' = "reading" /\ remaining' = b

(* The last byte of a candidate, reported if the CRC is right. *)
SnifferCandidate(b) == state = "reading" /\ remaining = 1
SnifferReports(b)   == SnifferCandidate(b) /\ Valid(Append(cand, b))

(* Faulty variant: after a candidate the state is kept. *)
SnifferReadsOn(b) ==
    /\ state = "reading" /\ UNCHANGED state
    /\ remaining' = remaining - 1
    /\ cand' = IF SnifferCandidate(b) THEN <<>> ELSE Append(cand, b)

SnifferReads(b) ==
    /\ state = "reading"
    /\ remaining' = remaining - 1
    /\ IF \/ SnifferCandidate(b)
          \/ Len(cand) + 1 >= MaxPacket
       THEN state' = "idle" /\ cand' = <<>>
       ELSE state' = state /\ cand' = Append(cand, b)

SnifferByte(b) == SnifferIdle(b) \/ SnifferLength(b) \/ SnifferReads(b)

-----------------------------------------------------------------------------
(* The line.  Every step but those of the pollers takes one byte time.     *)

TimePasses ==
    /\ ~polling /\ stall < MaxStall
    /\ stall' = stall + 1
    /\ age' = Aged(age, Gap + 1)
    /\ UNCHANGED <<poller, buf, polling>>

ByteComes(b) ==
    /\ SnifferByte(b)
    /\ fifo' = Append(fifo, b)
    /\ quiet' = 0
    /\ TimePasses

(* Any further byte may spoil what the device has not yet seen to be whole. *)
StillOwed == IF poller = "device" THEN Nothing ELSE owed

StartFrame(f) ==
    /\ frame = Nothing
    /\ frame' = f /\ sent' = 1
    /\ clean' = (quiet > Separated)
    /\ aligned' = (state = "idle")
    /\ owed' = StillOwed
    /\ ByteComes(f[1])

LastByte == frame # Nothing /\ sent + 1 = Len(frame)

NextByte ==
    /\ frame # Nothing
    /\ ByteComes(frame[sent + 1])
    /\ IF LastByte
       THEN /\ frame' = Nothing /\ sent' = 0
            /\ clean' = FALSE /\ aligned' = FALSE
            /\ owed' = IF clean /\ Accepts(frame) THEN frame ELSE owed
       ELSE sent' = sent + 1 /\ UNCHANGED <<frame, clean, aligned, owed>>

(* A byte nobody sent; it spoils the frame on its way. *)
Disturbance(b) ==
    /\ frame' = Nothing /\ sent' = 0
    /\ clean' = FALSE /\ aligned' = FALSE
    /\ owed' = StillOwed
    /\ ByteComes(b)

Silence ==
    /\ frame = Nothing
    /\ quiet' = Aged(quiet, QuietMax)
    /\ TimePasses
    /\ UNCHANGED <<frame, sent, clean, snifferVars, fifo, owed>>

-----------------------------------------------------------------------------
(* poll() of the monitor and of the device. *)

(* Faulty variant: the candidate is not forgotten. *)
CheckSilenceKeepingBuf ==
    IF buf # <<>> /\ age > Gap
    THEN Delivers(buf) /\ UNCHANGED buf
    ELSE UNCHANGED <<buf, owed>>

(* The bytes before a silence are a packet candidate, and then forgotten. *)
CheckSilence ==
    IF buf # <<>> /\ age > Gap
    THEN Delivers(buf) /\ buf' = <<>>
    ELSE UNCHANGED <<buf, owed>>

PollBegins ==
    /\ ~polling
    /\ CheckSilence
    /\ polling' = TRUE /\ stall' = 0
    /\ UNCHANGED <<poller, lineVars, snifferVars, fifo, age>>

(* The buffer when one more byte is stored. *)
Stored == IF Len(buf) >= MaxPacket THEN <<Head(fifo)>>
          ELSE Append(buf, Head(fifo))

(* Faulty variant: the address is not counted. *)
ExpectedTotalShort(bytes) == (Total(bytes) - 1) % ByteSize

(* uint8_t expected_total = 2 + _rx_buf[1] *)
ExpectedTotal(bytes) == Total(bytes) % ByteSize

LengthReached(bytes) ==
    /\ Len(bytes) >= 2
    /\ Len(bytes) = ExpectedTotal(bytes) /\ ExpectedTotal(bytes) >= 3

ReadByte ==
    /\ polling /\ fifo # <<>>
    /\ fifo' = Tail(fifo)
    /\ age' = 0
    /\ UNCHANGED <<poller, lineVars, snifferVars, polling, stall>>

MonitorReads ==
    /\ poller = "monitor"
    /\ ReadByte
    /\ IF LengthReached(Stored)
       THEN Delivers(Stored) /\ buf' = <<>>
       ELSE buf' = Stored /\ UNCHANGED owed

DeviceReads ==
    /\ poller = "device"
    /\ ReadByte
    /\ buf' = Stored
    /\ UNCHANGED owed

PollEnds ==
    /\ polling /\ fifo = <<>>
    /\ polling' = FALSE
    /\ UNCHANGED <<poller, lineVars, snifferVars, buf, fifo, age, stall, owed>>

-----------------------------------------------------------------------------
Traffic ==
    \/ \E f \in Frames : StartFrame(f)
    \/ NextByte
    \/ Silence

Poll ==
    \/ PollBegins
    \/ MonitorReads
    \/ DeviceReads
    \/ PollEnds

Next ==
    \/ Traffic
    \/ \E b \in Noise : Disturbance(b)
    \/ Poll

Spec == FramingInit /\ [][Next]_vars

-----------------------------------------------------------------------------
\* Every variable keeps its type: ring_buf, _rx_buf and expected_remaining stay in their
\* bounds, and what the sniffer has and what it still expects make one packet.
FramingTypeOK ==
    /\ poller \in Pollers
    /\ frame \in Frames \cup {Nothing}
    /\ IF frame = Nothing THEN sent = 0 ELSE sent \in 1..Len(frame)-1
    /\ quiet \in 0..QuietMax
    /\ state \in {"idle", "got_addr", "reading"}
    /\ cand \in Seq(Byte) /\ remaining \in 0..MaxPayload+1
    /\ state = "got_addr" => Len(cand) = 1
    /\ state = "reading" => /\ Len(cand) >= 2 /\ Len(cand) + remaining = Total(cand)
                            /\ remaining > 0 /\ cand[2] <= MaxPayload + 1
    /\ buf \in Seq(Byte) /\ Len(buf) <= MaxPacket
    /\ fifo \in Seq(Byte)
    /\ age \in 0..Gap+1 /\ stall \in 0..MaxStall
    /\ polling \in BOOLEAN /\ clean \in BOOLEAN /\ aligned \in BOOLEAN
    /\ owed \in Frames \cup {Nothing}

\* A frame nobody disturbs and that begins while the sniffer waits for an address is
\* reported whole, with its last byte, and the sniffer is ready for the next one,
\* whatever came before (orion_sniffer.c:119-167).
SnifferReportsAligned ==
    [][LastByte /\ aligned /\ NextByte
         => /\ SnifferReports(frame[sent + 1]) /\ state' = "idle"
            /\ Append(cand, frame[sent + 1]) = frame]_vars

\* If poll() is called at least once per INTER_BYTE_TIMEOUT_US, the monitor hears every
\* frame that begins after a silence, with the last of its bytes and without waiting for
\* another silence, whatever noise or half packet it had buffered (orion_bus_monitor.cpp:77-112).
MonitorHearsSeparated ==
    poller = "monitor" /\ owed # Nothing => fifo # <<>>

\* The device has served a request that came alone before the master may use the line
\* again after a silence (orion_slave.cpp:136-180).
DeviceServesInTime ==
    poller = "device" /\ owed # Nothing => quiet < QuietMax
=============================================================================
