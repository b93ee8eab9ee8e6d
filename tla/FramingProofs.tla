---------------------------- MODULE FramingProofs ----------------------------
(***************************************************************************)
(* For any frames, noise and packet sizes: no index leaves its buffer, the *)
(* sniffer reports every frame that finds it idle, and, if the main loop   *)
(* is never late by more than the silence that ends a packet, the monitor  *)
(* hears every frame that begins after a silence and the device serves, in *)
(* time, every one that came alone.                                        *)
(***************************************************************************)
EXTENDS Framing, SequenceTheorems, TLAPS

LEMMA Limits ==
    /\ ByteSize \in Nat /\ Offset \in Nat \ {0} /\ MaxPayload \in Nat /\ MaxPacket \in Nat
    /\ MaxPayload + 3 < MaxPacket /\ MaxPacket <= ByteSize
    /\ Gap \in Nat /\ MaxStall \in Nat \ {0}
BY FramingAssumption

USE Limits DEF Nothing, Aged

SnifferTypeOK ==
    /\ state \in {"idle", "got_addr", "reading"}
    /\ cand \in Seq(Byte) /\ remaining \in 0..MaxPayload+1
    /\ state = "got_addr" => Len(cand) = 1
    /\ state = "reading" => /\ Len(cand) >= 2 /\ Len(cand) + remaining = Total(cand)
                            /\ remaining > 0 /\ cand[2] <= MaxPayload + 1

LineTypeOK ==
    /\ poller \in Pollers
    /\ frame \in Frames \cup {Nothing}
    /\ IF frame = Nothing THEN sent = 0 ELSE sent \in 1..Len(frame)-1
    /\ quiet \in 0..QuietMax
    /\ clean \in BOOLEAN /\ aligned \in BOOLEAN
    /\ owed \in Frames \cup {Nothing}

PollerTypeOK ==
    /\ buf \in Seq(Byte) /\ Len(buf) <= MaxPacket
    /\ fifo \in Seq(Byte)
    /\ age \in 0..Gap+1 /\ stall \in 0..MaxStall
    /\ polling \in BOOLEAN

LEMMA TypeParts == FramingTypeOK <=> SnifferTypeOK /\ LineTypeOK /\ PollerTypeOK
BY DEF FramingTypeOK, SnifferTypeOK, LineTypeOK, PollerTypeOK

LEMMA TypePartsPrimed == SnifferTypeOK' /\ LineTypeOK' /\ PollerTypeOK' => FramingTypeOK'
BY DEF FramingTypeOK, SnifferTypeOK, LineTypeOK, PollerTypeOK

LEMMA NoBytes == <<>> \in Seq(Byte) /\ Len(<<>>) <= MaxPacket
OBVIOUS

LEMMA ModSmall ==
    ASSUME NEW b \in Nat \ {0}, NEW a \in 0..b-1
    PROVE  a % b = a
OBVIOUS

LEMMA AppendAt ==
    ASSUME NEW s \in Seq(Byte), NEW b \in Byte
    PROVE  /\ Append(s, b) \in Seq(Byte) /\ Len(Append(s, b)) = Len(s) + 1
           /\ Append(s, b)[Len(s) + 1] = b
           /\ \A i \in 1..Len(s) : Append(s, b)[i] = s[i]
           /\ Len(s) \in Nat
BY AppendProperties, LenProperties

-----------------------------------------------------------------------------
LEMMA FrameBytes ==
    ASSUME NEW f \in Frames
    PROVE  /\ f \in Seq(Byte) /\ Len(f) \in Nat /\ Len(f) >= 3 /\ f # Nothing
           /\ Len(f) = 2 + f[2] /\ f[2] <= MaxPayload + 1
           /\ \A i \in 1..Len(f) : f[i] \in Byte
BY FramingAssumption DEF Byte

(* The bytes that can come, and that one comes in a step of the line.      *)
LEMMA LineStep ==
    ASSUME LineTypeOK, Next
    PROVE  \/ \E b \in Byte : ByteComes(b)
           \/ Silence
           \/ Poll
<1>1. CASE \E f \in Frames : StartFrame(f)
  BY <1>1, FrameBytes DEF StartFrame
<1>2. CASE NextByte
  <2>a. frame \in Frames
    BY <1>2 DEF NextByte, LineTypeOK
  <2>1. sent + 1 \in 1..Len(frame)
    BY <2>a, FrameBytes DEF LineTypeOK
  <2> QED
    BY <1>2, <2>a, <2>1, FrameBytes DEF NextByte
<1>3. CASE \E b \in Noise : Disturbance(b)
  BY <1>3, FramingAssumption DEF Disturbance
<1> QED
  BY <1>1, <1>2, <1>3 DEF Next, Traffic

LEMMA SnifferStep ==
    ASSUME SnifferTypeOK, NEW b \in Byte, SnifferByte(b)
    PROVE  SnifferTypeOK'
<1> USE DEF SnifferTypeOK, Total
<1>1. CASE SnifferIdle(b)
  BY <1>1 DEF SnifferIdle
<1>2. CASE SnifferLength(b)
  <2>a. cand' = Append(cand, b) /\ Len(cand) = 1 /\ cand \in Seq(Byte)
    BY <1>2 DEF SnifferLength
  <2>1. cand' \in Seq(Byte) /\ Len(cand') = 2 /\ cand'[2] = b
    <3>1. /\ Append(cand, b) \in Seq(Byte) /\ Len(Append(cand, b)) = Len(cand) + 1
          /\ Append(cand, b)[Len(cand) + 1] = b
      BY <2>a, AppendAt, Zenon
    <3>2. Len(cand) + 1 = 2
      BY <2>a
    <3> QED
      BY <2>a, <3>1, <3>2, Zenon
  <2>2. CASE state' = "idle" /\ remaining' = remaining
    BY <2>1, <2>2
  <2>3. CASE state' = "reading" /\ remaining' = b /\ b # 0 /\ ~(b > MaxPayload + 1)
    BY <2>1, <2>3 DEF Byte
  <2> QED
    BY <1>2, <2>2, <2>3 DEF SnifferLength
<1>3. CASE SnifferReads(b)
  <2>1. CASE state' = "idle" /\ cand' = <<>>
    BY <1>3, <2>1 DEF SnifferReads
  <2>2. CASE state' = state /\ cand' = Append(cand, b) /\ remaining # 1
    <3>1. cand' \in Seq(Byte) /\ Len(cand') = Len(cand) + 1 /\ cand'[2] = cand[2]
      BY <1>3, <2>2, AppendAt DEF SnifferReads
    <3> QED
      BY <1>3, <2>2, <3>1 DEF SnifferReads
  <2> QED
    BY <1>3, <2>1, <2>2 DEF SnifferReads, SnifferCandidate
<1> QED
  BY <1>1, <1>2, <1>3 DEF SnifferByte

LEMMA TypeStep ==
    ASSUME FramingTypeOK, [Next]_vars
    PROVE  FramingTypeOK'
<1> USE TypeParts
<1>1. CASE UNCHANGED vars
  BY <1>1 DEF vars, lineVars, snifferVars, pollerVars, FramingTypeOK, Total
<1>2. ASSUME Next PROVE SnifferTypeOK'
  <2>1. CASE \E b \in Byte : ByteComes(b)
    BY <2>1, SnifferStep DEF ByteComes
  <2>2. CASE Silence \/ Poll
    BY <2>2 DEF Silence, Poll, PollBegins, MonitorReads, DeviceReads, ReadByte, PollEnds,
       snifferVars, SnifferTypeOK, Total
  <2> QED
    BY <1>2, <2>1, <2>2, LineStep
<1>3. ASSUME Next PROVE PollerTypeOK'
  <2> USE DEF PollerTypeOK
  <2>1. CASE \E b \in Byte : ByteComes(b)
    BY <2>1 DEF ByteComes, TimePasses
  <2>2. CASE Silence
    BY <2>2 DEF Silence, TimePasses
  <2>3. CASE PollBegins
    <3>1. /\ buf' \in {buf, <<>>} /\ UNCHANGED <<fifo, age>> /\ polling' = TRUE /\ stall' = 0
      BY <2>3 DEF PollBegins, CheckSilence
    <3>2. buf' \in Seq(Byte) /\ Len(buf') <= MaxPacket
      BY <3>1, NoBytes, Zenon
    <3> QED
      BY <3>1, <3>2
  <2>4. CASE MonitorReads \/ DeviceReads
    <3>1. fifo # <<>> /\ fifo' = Tail(fifo) /\ age' = 0 /\ UNCHANGED <<polling, stall>>
      BY <2>4 DEF MonitorReads, DeviceReads, ReadByte
    <3>2. Stored \in Seq(Byte) /\ Len(Stored) <= MaxPacket
      <4>1. Head(fifo) \in Byte
        BY <3>1, HeadTailProperties
      <4>2. CASE Len(buf) >= MaxPacket
        <5>1. Stored = <<Head(fifo)>>
          BY <4>2 DEF Stored
        <5> QED
          BY <4>1, <5>1
      <4>3. CASE ~(Len(buf) >= MaxPacket)
        <5>1. Stored = Append(buf, Head(fifo))
          BY <4>3 DEF Stored
        <5> QED
          BY <4>1, <4>3, <5>1, AppendAt
      <4> QED
        BY <4>2, <4>3
    <3>3. buf' = <<>> \/ buf' = Stored
      BY <2>4 DEF MonitorReads, DeviceReads
    <3>4. buf' \in Seq(Byte) /\ Len(buf') <= MaxPacket
      BY <3>2, <3>3, NoBytes, Zenon
    <3>5. fifo' \in Seq(Byte)
      BY <3>1, HeadTailProperties
    <3> QED
      BY <3>1, <3>4, <3>5
  <2>5. CASE PollEnds
    BY <2>5 DEF PollEnds
  <2> QED
    BY <1>3, <2>1, <2>2, <2>3, <2>4, <2>5, LineStep DEF Poll
<1>4. ASSUME Next PROVE LineTypeOK'
  <2> USE DEF LineTypeOK
  <2>0. StillOwed \in Frames \cup {Nothing} /\ 0 \in 0..QuietMax
    BY DEF StillOwed, QuietMax
  <2>1. CASE \E f \in Frames : StartFrame(f)
    <3>1. PICK f \in Frames : StartFrame(f)
      BY <2>1
    <3>2. clean' \in BOOLEAN /\ aligned' \in BOOLEAN
      BY <3>1 DEF StartFrame
    <3> QED
      BY <3>1, <3>2, <2>0, FrameBytes DEF StartFrame, ByteComes, TimePasses
  <2>2. CASE NextByte
    <3>1. frame \in Frames /\ quiet' = 0 /\ poller' = poller
      BY <2>2 DEF NextByte, ByteComes, TimePasses
    <3>2. CASE LastByte
      BY <2>2, <3>1, <3>2, <2>0 DEF NextByte
    <3>3. CASE ~LastByte
      <4>1. sent + 1 \in 1..Len(frame)-1
        <5>1. sent \in 1..Len(frame)-1 /\ sent + 1 # Len(frame) /\ Len(frame) \in Nat
          BY <3>1, <3>3, FrameBytes DEF LastByte
        <5> QED
          BY <5>1
      <4> QED
        BY <2>2, <3>1, <3>3, <4>1, <2>0 DEF NextByte
    <3> QED
      BY <3>2, <3>3
  <2>3. CASE \E b \in Noise : Disturbance(b)
    BY <2>3, <2>0 DEF Disturbance, ByteComes, TimePasses
  <2>4. CASE Silence
    BY <2>4 DEF Silence, TimePasses, snifferVars, QuietMax
  <2>5. CASE PollBegins
    BY <2>5 DEF PollBegins, CheckSilence, Delivers, lineVars, snifferVars
  <2>6. CASE MonitorReads \/ DeviceReads \/ PollEnds
    BY <2>6 DEF MonitorReads, DeviceReads, ReadByte, PollEnds, Delivers, lineVars, snifferVars
  <2> QED
    BY <1>4, <2>1, <2>2, <2>3, <2>4, <2>5, <2>6 DEF Next, Traffic, Poll
<1> QED
  BY <1>1, <1>2, <1>3, <1>4, TypePartsPrimed

-----------------------------------------------------------------------------
(* What the sniffer has of a frame that found it idle.                     *)
AlignedInv ==
    aligned /\ frame # Nothing =>
        /\ Len(cand) = sent /\ \A i \in 1..sent : cand[i] = frame[i]
        /\ sent = 1 => state = "got_addr"
        /\ sent > 1 => state = "reading" /\ remaining = Len(frame) - sent

(* The byte after the first sent bytes of such a frame.                    *)
LEMMA AlignedByte ==
    ASSUME FramingTypeOK, AlignedInv, aligned, NextByte
    PROVE  /\ frame \in Frames /\ sent \in 1..Len(frame)-1 /\ Len(frame) \in Nat
           /\ frame[sent + 1] \in Byte
           /\ Append(cand, frame[sent + 1]) \in Seq(Byte)
           /\ Len(Append(cand, frame[sent + 1])) = sent + 1
           /\ \A i \in 1..sent + 1 : Append(cand, frame[sent + 1])[i] = frame[i]
<1>1. frame \in Frames /\ frame # Nothing
  BY DEF NextByte, FramingTypeOK
<1>2. sent \in 1..Len(frame)-1 /\ Len(frame) \in Nat
  BY <1>1, FrameBytes DEF FramingTypeOK
<1>3. frame[sent + 1] \in Byte /\ cand \in Seq(Byte) /\ Len(cand) = sent
  BY <1>1, <1>2, FrameBytes DEF FramingTypeOK, AlignedInv
<1>4. /\ Append(cand, frame[sent + 1]) \in Seq(Byte)
      /\ Len(Append(cand, frame[sent + 1])) = Len(cand) + 1
      /\ Append(cand, frame[sent + 1])[Len(cand) + 1] = frame[sent + 1]
      /\ \A i \in 1..Len(cand) : Append(cand, frame[sent + 1])[i] = cand[i]
  BY <1>3, AppendAt, Zenon
<1>5. \A i \in 1..sent : cand[i] = frame[i]
  BY <1>1 DEF AlignedInv
<1>6. ASSUME NEW i \in 1..sent + 1 PROVE Append(cand, frame[sent + 1])[i] = frame[i]
  <2>1. CASE i = sent + 1
    BY <1>3, <1>4, <2>1, Zenon
  <2>2. CASE i \in 1..sent
    BY <1>3, <1>4, <1>5, <2>2, Zenon
  <2>3. i = sent + 1 \/ i \in 1..sent
    BY <1>2
  <2> QED
    BY <2>1, <2>2, <2>3
<1> QED
  BY <1>1, <1>2, <1>3, <1>4, <1>6

LEMMA AlignedStep ==
    ASSUME FramingTypeOK, FramingTypeOK', AlignedInv, [Next]_vars
    PROVE  AlignedInv'
<1>a. ASSUME UNCHANGED <<frame, sent, aligned, state, cand, remaining>> PROVE AlignedInv'
  BY <1>a DEF AlignedInv
<1>1. CASE UNCHANGED vars
  BY <1>1, <1>a DEF vars, lineVars, snifferVars
<1>2. CASE \E f \in Frames : StartFrame(f)
  <2>1. PICK f \in Frames : StartFrame(f)
    BY <1>2
  <2>2. /\ frame' = f /\ sent' = 1 /\ aligned' = (state = "idle")
        /\ SnifferByte(f[1])
    BY <2>1 DEF StartFrame, ByteComes
  <2>3. state = "idle" => state' = "got_addr" /\ cand' = <<f[1]>>
    BY <2>2 DEF SnifferByte, SnifferIdle, SnifferLength, SnifferReads
  <2>4. Len(<<f[1]>>) = 1 /\ <<f[1]>>[1] = f[1]
    OBVIOUS
  <2>5. aligned' => Len(cand') = 1 /\ cand'[1] = f[1] /\ state' = "got_addr"
    BY <2>2, <2>3, <2>4
  <2>6. sent' = 1 /\ frame' = f
    BY <2>2
  <2> QED
    BY <2>5, <2>6 DEF AlignedInv
<1>3. CASE NextByte
  <2>1. CASE LastByte \/ ~aligned
    BY <1>3, <2>1 DEF NextByte, AlignedInv
  <2>2. CASE ~LastByte /\ aligned
    <3>1. /\ frame' = frame /\ sent' = sent + 1 /\ aligned' = aligned
          /\ SnifferByte(frame[sent + 1]) /\ sent + 1 # Len(frame)
      BY <1>3, <2>2 DEF NextByte, LastByte, ByteComes
    <3> DEFINE b == frame[sent + 1]
    <3>2. /\ frame \in Frames /\ sent \in 1..Len(frame)-1 /\ Len(frame) \in Nat /\ b \in Byte
          /\ Len(Append(cand, b)) = sent + 1
          /\ \A i \in 1..sent + 1 : Append(cand, b)[i] = frame[i]
      BY <1>3, <2>2, AlignedByte
    <3>3. Len(frame) = 2 + frame[2] /\ frame[2] <= MaxPayload + 1 /\ Len(frame) >= 3
      BY <3>2, FrameBytes
    <3>a. frame # Nothing
      BY <3>2, FrameBytes
    <3> HIDE DEF b
    <3>4. CASE sent = 1
      <4>1. state = "got_addr" /\ SnifferLength(b)
        BY <3>1, <3>4, <2>2, <3>a DEF AlignedInv, SnifferByte, SnifferIdle, SnifferReads, b
      <4>2. b = frame[2]
        BY <3>4 DEF b
      <4>3. cand' = Append(cand, b) /\ state' = "reading" /\ remaining' = b
        <5>1. b # 0 /\ ~(b > MaxPayload + 1)
          <6>1. b \in Int
            BY <3>2 DEF Byte
          <6>2. Len(frame) = 2 + b /\ b <= MaxPayload + 1 /\ Len(frame) >= 3
            BY <3>3, <4>2
          <6> QED
            BY <6>1, <6>2
        <5> QED
          BY <4>1, <5>1 DEF SnifferLength
      <4>4. remaining' = Len(frame) - 2
        BY <3>2, <3>3, <4>2, <4>3 DEF Byte
      <4> QED
        BY <3>1, <3>2, <3>4, <4>3, <4>4 DEF AlignedInv
    <3>5. CASE sent > 1
      <4>1. state = "reading" /\ remaining = Len(frame) - sent /\ SnifferReads(b)
        BY <3>1, <3>5, <2>2, <3>a DEF AlignedInv, SnifferByte, SnifferIdle, SnifferLength, b
      <4>2. remaining # 1 /\ Len(cand) + 1 < MaxPacket
        <5>1. Len(cand) = sent
          BY <3>a, <2>2 DEF AlignedInv
        <5>2. frame[2] \in Byte
          BY <3>2, <3>3, FrameBytes
        <5>3. frame[2] \in Int /\ sent \in Int /\ Len(frame) \in Int
          BY <3>2, <5>2 DEF Byte
        <5>4. Len(frame) <= MaxPayload + 3
          BY <3>3, <5>3
        <5>5. sent + 1 < Len(frame)
          BY <3>1, <3>2, <5>3
        <5>6. remaining # 1
          BY <4>1, <5>3, <5>5
        <5> QED
          BY <5>1, <5>3, <5>4, <5>5, <5>6
      <4>3. cand' = Append(cand, b) /\ state' = "reading" /\ remaining' = remaining - 1
        <5>1. ~SnifferCandidate(b) /\ ~(Len(cand) + 1 >= MaxPacket)
          BY <4>2, LenProperties DEF SnifferCandidate, FramingTypeOK
        <5> QED
          BY <4>1, <5>1 DEF SnifferReads
      <4>4. remaining' = Len(frame) - (sent + 1)
        BY <3>2, <4>1, <4>3
      <4> QED
        BY <3>1, <3>2, <3>5, <4>3, <4>4 DEF AlignedInv
    <3> QED
      BY <3>2, <3>4, <3>5
  <2> QED
    BY <2>1, <2>2
<1>4. CASE \E b \in Noise : Disturbance(b)
  BY <1>4 DEF Disturbance, AlignedInv
<1>5. CASE Silence \/ Poll
  BY <1>5, <1>a DEF Silence, Poll, PollBegins, MonitorReads, DeviceReads, ReadByte, PollEnds,
     snifferVars, lineVars
<1> QED
  BY <1>1, <1>2, <1>3, <1>4, <1>5 DEF Next, Traffic

LEMMA InitTypes == FramingInit => FramingTypeOK /\ AlignedInv
<1> SUFFICES ASSUME FramingInit PROVE FramingTypeOK /\ AlignedInv
  OBVIOUS
<1>a. QuietMax \in 0..QuietMax
  BY DEF QuietMax
<1>1. LineTypeOK /\ AlignedInv
  BY <1>a DEF FramingInit, LineTypeOK, AlignedInv
<1>2. SnifferTypeOK
  BY NoBytes DEF FramingInit, SnifferTypeOK
<1>3. buf \in Seq(Byte) /\ Len(buf) <= MaxPacket /\ fifo \in Seq(Byte)
  BY NoBytes, Zenon DEF FramingInit
<1>4. PollerTypeOK
  <2>1. polling \in BOOLEAN
    BY DEF FramingInit
  <2> QED
    BY <1>3, <2>1 DEF FramingInit, PollerTypeOK
<1> QED
  BY <1>1, <1>2, <1>4, TypeParts

LEMMA SnifferInductive == Spec => [](FramingTypeOK /\ AlignedInv)
<1>1. FramingTypeOK /\ AlignedInv /\ [Next]_vars => (FramingTypeOK /\ AlignedInv)'
  BY TypeStep, AlignedStep
<1> QED
  BY <1>1, InitTypes, PTL DEF Spec

\* Whatever comes over the line, the indices of the three receivers stay in their buffers:
\* the sniffer's guard against an overflow is never needed (orion_sniffer.c:162-166).
THEOREM FramingTypeCorrect == Spec => []FramingTypeOK
BY SnifferInductive, PTL

\* A frame nobody disturbs that finds the sniffer idle is reported whole, with its last
\* byte (orion_sniffer.c:119-167).
THEOREM SnifferReportsWhatItIsReadyFor == Spec => SnifferReportsAligned
<1>1. FramingTypeOK /\ AlignedInv /\ [Next]_vars
        => [LastByte /\ aligned /\ NextByte
              => /\ SnifferReports(frame[sent + 1]) /\ state' = "idle"
                 /\ Append(cand, frame[sent + 1]) = frame]_vars
  <2> SUFFICES ASSUME FramingTypeOK, AlignedInv, LastByte, aligned, NextByte
               PROVE  /\ SnifferReports(frame[sent + 1]) /\ state' = "idle"
                      /\ Append(cand, frame[sent + 1]) = frame
    OBVIOUS
  <2>1. /\ frame \in Frames /\ sent \in 1..Len(frame)-1 /\ Len(frame) \in Nat
        /\ Append(cand, frame[sent + 1]) \in Seq(Byte)
        /\ Len(Append(cand, frame[sent + 1])) = sent + 1
        /\ \A i \in 1..sent + 1 : Append(cand, frame[sent + 1])[i] = frame[i]
    BY AlignedByte
  <2>2. frame \in Seq(Byte) /\ Len(frame) = sent + 1 /\ Len(frame) >= 3
    BY <2>1, FrameBytes DEF LastByte
  <2>3. Append(cand, frame[sent + 1]) = frame
    BY <2>1, <2>2, SeqEqual
  <2>4. state = "reading" /\ remaining = 1 /\ SnifferByte(frame[sent + 1])
    BY <2>1, <2>2 DEF AlignedInv, NextByte, ByteComes
  <2>5. SnifferCandidate(frame[sent + 1]) /\ state' = "idle"
    BY <2>4 DEF SnifferByte, SnifferIdle, SnifferLength, SnifferReads, SnifferCandidate
  <2> QED
    BY <2>1, <2>3, <2>5 DEF SnifferReports, Valid
<1> QED
  BY <1>1, SnifferInductive, PTL DEF Spec, SnifferReportsAligned

-----------------------------------------------------------------------------
(* The monitor.  What it has not read came since the last poll() began, and  *)
(* what it has read came at most MaxStall before it was read.                *)
LagInv ==
    /\ fifo # <<>> => IF polling THEN quiet <= MaxStall ELSE quiet < stall
    /\ buf # <<>> /\ age <= Gap => quiet <= age + MaxStall

(* The first n bytes of t, and nothing came after them if t is not yet owed, *)
(* or owed by the device, which any further byte releases.                   *)
(* Waiting: in the UART, while _rx_buf is empty or old enough to be dropped. *)
(* Taken: in _rx_buf and the UART, and _rx_buf will not be dropped.          *)
Alone == owed = Nothing \/ poller = "device"

Waiting(t, n) ==
    /\ ~polling /\ (buf = <<>> \/ age > Gap)
    /\ Len(fifo) >= n /\ \A i \in 1..n : fifo[i] = t[i]
    /\ Alone => Len(fifo) = n

Taken(t, n) ==
    /\ Len(buf) < Len(t) /\ Len(buf) <= n /\ Len(buf) + Len(fifo) >= n
    /\ \A i \in 1..n : t[i] = IF i <= Len(buf) THEN buf[i] ELSE fifo[i - Len(buf)]
    /\ Alone => Len(buf) + Len(fifo) = n
    /\ buf # <<>> => age <= (IF fifo = <<>> THEN 0 ELSE IF polling THEN Gap ELSE stall)

Track(t, n) == Waiting(t, n) \/ Taken(t, n)

MonitorInv ==
    poller = "monitor" =>
        /\ owed # Nothing => /\ Accepts(owed) /\ ~(clean /\ frame # Nothing)
                             /\ Track(owed, Len(owed))
        /\ clean /\ frame # Nothing => Track(frame, sent)

(* The device has a whole frame in _rx_buf until the silence after it is     *)
(* long enough, and a poll() sees it.                                        *)
Whole(t) ==
    /\ buf = t /\ fifo = <<>>
    /\ quiet <= Gap + MaxStall + (IF polling THEN 0 ELSE stall)

DeviceInv ==
    poller = "device" =>
        /\ owed # Nothing => /\ Accepts(owed) /\ frame = Nothing
                             /\ (Track(owed, Len(owed)) \/ Whole(owed))
        /\ clean /\ frame # Nothing => owed = Nothing /\ Track(frame, sent)

LEMMA LagStep ==
    ASSUME FramingTypeOK, LagInv, [Next]_vars
    PROVE  LagInv'
<1> USE DEF FramingTypeOK, LagInv
<1>1. CASE UNCHANGED vars
  BY <1>1 DEF vars, lineVars, pollerVars
<1>2. CASE \E b \in Byte : ByteComes(b)
  <2>1. /\ quiet' = 0 /\ ~polling /\ ~polling' /\ stall' = stall + 1 /\ buf' = buf
        /\ age' = IF age < Gap + 1 THEN age + 1 ELSE age
    BY <1>2 DEF ByteComes, TimePasses
  <2> QED
    BY <2>1
<1>3. CASE Silence
  <2>1. /\ ~polling /\ ~polling' /\ stall' = stall + 1 /\ buf' = buf /\ fifo' = fifo
        /\ age' = IF age < Gap + 1 THEN age + 1 ELSE age
        /\ quiet' <= quiet + 1 /\ quiet' \in Int
    BY <1>3 DEF Silence, TimePasses
  <2> QED
    BY <2>1
<1>4. CASE PollBegins
  <2>1. /\ ~polling /\ polling' /\ UNCHANGED <<quiet, fifo, age>> /\ buf' \in {buf, <<>>}
    BY <1>4 DEF PollBegins, CheckSilence, lineVars
  <2> QED
    BY <2>1
<1>5. CASE MonitorReads \/ DeviceReads
  <2>1. /\ polling /\ polling' /\ fifo # <<>> /\ age' = 0 /\ quiet' = quiet
    BY <1>5 DEF MonitorReads, DeviceReads, ReadByte, lineVars
  <2> QED
    BY <2>1
<1>6. CASE PollEnds
  <2>1. fifo' = <<>> /\ UNCHANGED <<buf, age, quiet>>
    BY <1>6 DEF PollEnds, lineVars
  <2> QED
    BY <2>1
<1>7. LineTypeOK
  BY TypeParts
<1> QED
  BY <1>1, <1>2, <1>3, <1>4, <1>5, <1>6, <1>7, LineStep DEF Poll

-----------------------------------------------------------------------------
(* One byte time, with and without a byte.                                   *)
LEMMA TrackByte ==
    ASSUME FramingTypeOK, NEW t \in Frames, NEW n \in 1..Len(t), Track(t, n),
           NEW b \in Byte, ByteComes(b), owed' # Nothing, poller = "monitor"
    PROVE  Track(t, n)'
<1>t. PollerTypeOK
  BY TypeParts
<1> USE <1>t DEF PollerTypeOK
<1>1. /\ ~polling /\ ~polling' /\ stall' = stall + 1 /\ buf' = buf
      /\ fifo' = Append(fifo, b)
      /\ age' = IF age < Gap + 1 THEN age + 1 ELSE age
      /\ ~Alone'
  BY DEF ByteComes, TimePasses, Alone
<1>2. /\ Len(fifo) \in Nat /\ Len(fifo') = Len(fifo) + 1
      /\ \A i \in 1..Len(fifo) : fifo'[i] = fifo[i]
  BY <1>1, AppendAt, Zenon
<1>3. fifo' # <<>> /\ Len(buf) \in Nat /\ n \in Nat /\ n >= 1 /\ Len(t) \in Nat
  BY <1>2, FrameBytes
<1>4. CASE Waiting(t, n)
  <2>1. Len(fifo') >= n /\ \A i \in 1..n : fifo'[i] = t[i]
    BY <1>2, <1>3, <1>4 DEF Waiting
  <2> QED
    BY <1>1, <1>4, <2>1 DEF Track, Waiting
<1>5. CASE Taken(t, n)
  <2>1. ASSUME NEW i \in 1..n
        PROVE  t[i] = IF i <= Len(buf) THEN buf[i] ELSE fifo'[i - Len(buf)]
    <3>1. CASE i <= Len(buf)
      BY <1>5, <3>1 DEF Taken
    <3>2. CASE ~(i <= Len(buf))
      <4>1. i - Len(buf) \in 1..Len(fifo)
        BY <1>2, <1>3, <1>5, <3>2 DEF Taken
      <4>2. t[i] = fifo[i - Len(buf)]
        BY <1>5, <3>2 DEF Taken
      <4>3. fifo'[i - Len(buf)] = fifo[i - Len(buf)]
        BY <1>2, <4>1, Zenon
      <4> QED
        BY <3>2, <4>2, <4>3, Zenon
    <3> QED
      BY <3>1, <3>2, Zenon
  <2>2. buf # <<>> => age' <= stall'
    BY <1>1, <1>5 DEF Taken
  <2>3. Len(buf) < Len(t) /\ Len(buf) <= n /\ Len(buf) + Len(fifo') >= n
    BY <1>2, <1>3, <1>5 DEF Taken
  <2> QED
    BY <1>1, <1>3, <2>1, <2>2, <2>3 DEF Track, Taken
<1> QED
  BY <1>4, <1>5 DEF Track

LEMMA TrackNext ==
    ASSUME FramingTypeOK, NEW t \in Frames, NEW n \in 1..Len(t)-1, Track(t, n),
           owed = Nothing, ByteComes(t[n + 1])
    PROVE  Track(t, n + 1)'
<1>t. PollerTypeOK
  BY TypeParts
<1> USE <1>t DEF PollerTypeOK
<1> DEFINE b == t[n + 1]
<1>0. b \in Byte /\ Len(t) \in Nat /\ n \in Nat /\ n >= 1
  BY FrameBytes
<1>a. /\ ~polling /\ ~polling' /\ stall' = stall + 1 /\ buf' = buf
      /\ fifo' = Append(fifo, b)
      /\ age' = IF age < Gap + 1 THEN age + 1 ELSE age
  BY DEF ByteComes, TimePasses
<1> HIDE DEF b
<1>b. Alone
  BY DEF Alone
<1>2. /\ Len(fifo) \in Nat /\ Len(fifo') = Len(fifo) + 1
      /\ \A i \in 1..Len(fifo) : fifo'[i] = fifo[i]
      /\ fifo'[Len(fifo) + 1] = b
  BY <1>0, <1>a, AppendAt, Zenon
<1>3. fifo' # <<>> /\ Len(buf) \in Nat
  BY <1>2
<1>4. CASE Waiting(t, n)
  <2>1. Len(fifo) = n /\ \A i \in 1..n : fifo[i] = t[i]
    BY <1>b, <1>4 DEF Waiting
  <2>2. \A i \in 1..n+1 : i \in 1..n \/ i = n + 1
    BY <1>0
  <2>3. \A i \in 1..n+1 : fifo'[i] = t[i]
    BY <1>2, <2>1, <2>2, Zenon DEF b
  <2>4. Len(fifo') = n + 1
    BY <1>2, <2>1
  <2>5. ~polling' /\ (buf' = <<>> \/ age' > Gap)
    BY <1>a, <1>4 DEF Waiting
  <2>6. Len(fifo') >= n + 1
    BY <1>0, <2>4
  <2> QED
    BY <2>3, <2>4, <2>5, <2>6 DEF Track, Waiting
<1>5. CASE Taken(t, n)
  <2>0. Len(buf) + Len(fifo) = n /\ Len(buf) <= n
    BY <1>b, <1>5 DEF Taken
  <2>1. ASSUME NEW i \in 1..n+1
        PROVE  t[i] = IF i <= Len(buf) THEN buf[i] ELSE fifo'[i - Len(buf)]
    <3>1. CASE i <= Len(buf)
      <4>1. i \in 1..n
        BY <1>0, <1>3, <2>0, <3>1
      <4> QED
        BY <1>5, <3>1, <4>1 DEF Taken
    <3>2. CASE ~(i <= Len(buf)) /\ i # n + 1
      <4>1. i - Len(buf) \in 1..Len(fifo) /\ i \in 1..n
        BY <1>0, <1>2, <1>3, <2>0, <3>2
      <4>2. t[i] = fifo[i - Len(buf)]
        BY <1>5, <3>2, <4>1 DEF Taken
      <4> QED
        BY <1>2, <3>2, <4>1, <4>2
    <3>3. CASE i = n + 1
      <4>1. i - Len(buf) = Len(fifo) + 1 /\ ~(i <= Len(buf))
        BY <1>0, <1>2, <1>3, <2>0, <3>3
      <4> QED
        BY <1>2, <3>3, <4>1 DEF b
    <3> QED
      BY <3>1, <3>2, <3>3
  <2>2. buf # <<>> => age' <= stall'
    BY <1>a, <1>5 DEF Taken
  <2>3. /\ Len(buf) < Len(t) /\ Len(buf) <= n + 1 /\ Len(buf) + Len(fifo') = n + 1
        /\ Len(buf) + Len(fifo') >= n + 1
    BY <1>0, <1>2, <1>3, <1>5, <2>0 DEF Taken
  <2>4. buf # <<>> => age' <= (IF fifo' = <<>> THEN 0 ELSE IF polling' THEN Gap ELSE stall')
    BY <1>a, <1>3, <2>2
  <2>5. Taken(t, n + 1)'
    BY <1>a, <2>1, <2>3, <2>4, Zenon DEF Taken
  <2> QED
    BY <2>5 DEF Track
<1> QED
  BY <1>4, <1>5 DEF Track

LEMMA TrackSilence ==
    ASSUME FramingTypeOK, NEW t \in Frames, Track(t, Len(t)), Silence
    PROVE  Track(t, Len(t))'
<1>t. PollerTypeOK
  BY TypeParts
<1> USE <1>t DEF PollerTypeOK
<1>1. /\ ~polling /\ ~polling' /\ stall' = stall + 1 /\ UNCHANGED <<buf, fifo>>
      /\ age' = IF age < Gap + 1 THEN age + 1 ELSE age
      /\ Alone' = Alone
  BY DEF Silence, TimePasses, Alone
<1>2. CASE Waiting(t, Len(t))
  BY <1>1, <1>2 DEF Track, Waiting
<1>3. CASE Taken(t, Len(t))
  <2>1. fifo # <<>>
    BY <1>3, FrameBytes DEF Taken
  <2>2. buf' # <<>> => age' <= stall'
    BY <1>1, <1>3, <2>1 DEF Taken
  <2> QED
    BY <1>1, <1>3, <2>1, <2>2 DEF Track, Taken
<1> QED
  BY <1>2, <1>3 DEF Track

(* poll() drops nothing of a frame. *)
LEMMA TrackPoll ==
    ASSUME FramingTypeOK, MaxStall <= Gap, NEW t \in Frames, NEW n \in 1..Len(t),
           Track(t, n), PollBegins, owed' = owed
    PROVE  Track(t, n)'
<1>t. PollerTypeOK
  BY TypeParts
<1> USE <1>t DEF PollerTypeOK
<1>1. /\ ~polling /\ polling' /\ stall' = 0 /\ UNCHANGED <<fifo, age>>
      /\ buf' = IF buf # <<>> /\ age > Gap THEN <<>> ELSE buf
      /\ Alone' = Alone
  BY DEF PollBegins, CheckSilence, Alone
<1>2. CASE Waiting(t, n)
  <2>1. buf' = <<>> /\ Len(buf') = 0
    BY <1>1, <1>2 DEF Waiting
  <2>2. ASSUME NEW i \in 1..n
        PROVE  t[i] = IF i <= Len(buf') THEN buf'[i] ELSE fifo'[i - Len(buf')]
    <3>1. t[i] = fifo[i]
      BY <1>2, Zenon DEF Waiting
    <3>2. ~(i <= Len(buf')) /\ i - Len(buf') = i
      BY <2>1
    <3> QED
      BY <1>1, <3>1, <3>2, Zenon
  <2>3. Len(fifo) \in Nat /\ Len(t) \in Nat /\ 0 < Len(t) /\ n \in Nat /\ Len(fifo) >= n
        /\ (Alone => Len(fifo) = n)
    BY <1>2, FrameBytes DEF Waiting
  <2>4. /\ Len(buf') < Len(t) /\ Len(buf') <= n /\ Len(buf') + Len(fifo') >= n
        /\ Alone' => Len(buf') + Len(fifo') = n
    <3> HIDE <1>t DEF PollerTypeOK
    <3> QED
      BY <1>1, <2>1, <2>3
  <2> QED
    BY <2>1, <2>2, <2>4, Zenon DEF Track, Taken
<1>3. CASE Taken(t, n)
  <2>1. buf # <<>> => age <= Gap /\ (fifo = <<>> => age <= 0)
    BY <1>1, <1>3 DEF Taken
  <2>2. buf' = buf
    BY <1>1, <2>1
  <2> QED
    BY <1>1, <1>3, <2>1, <2>2 DEF Track, Taken
<1> QED
  BY <1>2, <1>3 DEF Track

LEMMA TrackPollEnds ==
    ASSUME FramingTypeOK, NEW t \in Frames, NEW n \in 1..Len(t), Track(t, n), PollEnds
    PROVE  Track(t, n)'
<1>t. PollerTypeOK
  BY TypeParts
<1> USE <1>t DEF PollerTypeOK
<1>1. polling /\ fifo = <<>> /\ ~polling' /\ UNCHANGED <<buf, fifo, age, stall, Alone>>
  BY DEF PollEnds, Alone
<1>2. Taken(t, n)
  BY <1>1 DEF Track, Waiting
<1> QED
  BY <1>1, <1>2 DEF Track, Taken

(* The poller stores the next byte of a frame; with its last byte it has    *)
(* the length of a packet.                                                  *)
LEMMA TrackStored ==
    ASSUME FramingTypeOK, NEW t \in Frames, NEW n \in 1..Len(t), Taken(t, n), fifo # <<>>,
           Alone \/ n = Len(t)
    PROVE  /\ Stored \in Seq(Byte) /\ Len(Stored) = Len(buf) + 1 /\ Len(Stored) <= n
           /\ \A i \in 1..Len(Stored) : Stored[i] = t[i]
           /\ LengthReached(Stored) => Stored = t
           /\ Len(Stored) = Len(t) => LengthReached(Stored)
<1>t. PollerTypeOK
  BY TypeParts
<1> USE <1>t DEF PollerTypeOK
<1>1. /\ Len(t) = 2 + t[2] /\ Len(t) \in Nat /\ Len(t) >= 3 /\ t[2] <= MaxPayload + 1
      /\ t[2] \in Nat /\ t \in Seq(Byte)
  <2>1. t \in Seq(Byte) /\ t[2] \in Byte
    BY FrameBytes
  <2> HIDE <1>t DEF PollerTypeOK
  <2> QED
    BY <2>1, FrameBytes DEF Byte
<1>2. /\ Len(buf) \in Nat /\ Len(fifo) \in Nat /\ Len(fifo) > 0 /\ Head(fifo) \in Byte
      /\ Head(fifo) = fifo[1]
  <2>1. buf \in Seq(Byte) /\ fifo \in Seq(Byte) /\ fifo # <<>>
    OBVIOUS
  <2> HIDE <1>t DEF PollerTypeOK
  <2> QED
    BY <2>1, HeadTailProperties, LenProperties
<1>3. Len(buf) < MaxPacket /\ Len(buf) + 1 <= n /\ n <= Len(t) /\ n \in Nat
  <2>1. /\ Len(buf) < Len(t) /\ Len(buf) <= n /\ Len(buf) + Len(fifo) >= n
        /\ Alone => Len(buf) + Len(fifo) = n
    BY DEF Taken
  <2>2. n \in Nat /\ n <= Len(t)
    BY <1>1
  <2>3. Len(t) <= MaxPacket
    BY <1>1
  <2> HIDE <1>t DEF PollerTypeOK
  <2> QED
    BY <1>1, <1>2, <2>1, <2>2, <2>3
<1>4. Stored = Append(buf, Head(fifo))
  BY <1>2, <1>3 DEF Stored
<1>5. /\ Stored \in Seq(Byte) /\ Len(Stored) = Len(buf) + 1
      /\ Stored[Len(buf) + 1] = Head(fifo)
      /\ \A i \in 1..Len(buf) : Stored[i] = buf[i]
  BY <1>2, <1>4, AppendAt, Zenon
<1>6. ASSUME NEW i \in 1..Len(Stored) PROVE Stored[i] = t[i]
  <2>1. i \in 1..n /\ (i \in 1..Len(buf) \/ i = Len(buf) + 1)
    BY <1>2, <1>3, <1>5
  <2>2. CASE i \in 1..Len(buf)
    <3>1. i <= Len(buf)
      BY <2>2
    <3> QED
      BY <1>5, <2>1, <2>2, <3>1 DEF Taken
  <2>3. CASE i = Len(buf) + 1
    <3>1. ~(i <= Len(buf)) /\ i - Len(buf) = 1
      BY <1>2, <2>3
    <3>2. t[i] = fifo[1]
      BY <2>1, <3>1 DEF Taken
    <3> QED
      BY <1>2, <1>5, <2>3, <3>2
  <2> QED
    BY <2>1, <2>2, <2>3
<1>7. ASSUME Len(Stored) >= 2
      PROVE  Total(Stored) = Len(t) /\ ExpectedTotal(Stored) = Len(t)
  <2>1. Stored[2] = t[2]
    BY <1>2, <1>5, <1>6, <1>7
  <2>2. Total(Stored) = Len(t)
    BY <1>1, <2>1 DEF Total
  <2>3. Len(t) \in 0..ByteSize-1
    BY <1>1
  <2>4. Len(t) % ByteSize = Len(t)
    BY <2>3, ModSmall
  <2> QED
    BY <2>2, <2>4 DEF ExpectedTotal
<1>8. Len(Stored) = Len(t) => LengthReached(Stored)
  BY <1>1, <1>7 DEF LengthReached
<1>9. ASSUME LengthReached(Stored) PROVE Stored = t
  <2>1. Len(Stored) = Len(t)
    BY <1>7, <1>9 DEF LengthReached
  <2> QED
    BY <1>1, <1>5, <1>6, <2>1, SeqEqual
<1>10. Len(Stored) <= n
  BY <1>3, <1>5
<1> QED
  BY <1>5, <1>6, <1>8, <1>9, <1>10

(* ... and is not done with it before that.                                 *)
LEMMA TrackRead ==
    ASSUME FramingTypeOK, NEW t \in Frames, NEW n \in 1..Len(t), Track(t, n),
           ReadByte, buf' = Stored, Alone \/ n = Len(t), Len(Stored) # Len(t), owed' = owed
    PROVE  Track(t, n)'
<1>t. PollerTypeOK
  BY TypeParts
<1> USE <1>t DEF PollerTypeOK
<1>1. /\ polling /\ polling' /\ fifo # <<>> /\ fifo' = Tail(fifo) /\ age' = 0 /\ buf' = Stored
      /\ Alone' = Alone
  BY DEF ReadByte, Alone
<1>2. Taken(t, n)
  BY <1>1 DEF Track, Waiting
<1>3. /\ Stored \in Seq(Byte) /\ Len(Stored) = Len(buf) + 1 /\ Len(Stored) <= n
      /\ \A i \in 1..Len(Stored) : Stored[i] = t[i]
      /\ Len(Stored) # Len(t)
  BY <1>1, <1>2, TrackStored
<1>4. /\ Len(buf) \in Nat /\ Len(fifo) \in Nat /\ n \in Nat /\ Len(t) \in Nat /\ n <= Len(t)
      /\ Len(fifo') = Len(fifo) - 1
      /\ \A i \in 1..Len(fifo') : fifo'[i] = fifo[i + 1]
  BY <1>1, FrameBytes, HeadTailProperties, LenProperties
<1>5. ASSUME NEW i \in 1..n
      PROVE  t[i] = IF i <= Len(Stored) THEN Stored[i] ELSE fifo'[i - Len(Stored)]
  <2>1. CASE i <= Len(Stored)
    BY <1>3, <1>4, <2>1
  <2>2. CASE ~(i <= Len(Stored))
    <3>1. ~(i <= Len(buf)) /\ (i - Len(Stored)) + 1 = i - Len(buf)
      BY <1>3, <1>4, <2>2
    <3>2. i - Len(Stored) \in 1..Len(fifo')
      BY <1>2, <1>3, <1>4, <2>2 DEF Taken
    <3>3. t[i] = fifo[i - Len(buf)]
      BY <1>2, <3>1 DEF Taken
    <3> QED
      BY <1>4, <2>2, <3>1, <3>2, <3>3
  <2> QED
    BY <2>1, <2>2
<1>6. /\ Len(Stored) < Len(t) /\ Len(Stored) + Len(fifo') = Len(buf) + Len(fifo)
  BY <1>3, <1>4
<1>7. Len(Stored) + Len(fifo') >= n /\ (Alone => Len(Stored) + Len(fifo') = n)
  BY <1>2, <1>6 DEF Taken
<1>8. buf' # <<>> => age' <= (IF fifo' = <<>> THEN 0 ELSE IF polling' THEN Gap ELSE stall')
  BY <1>1
<1>9. Taken(t, n)'
  BY <1>1, <1>3, <1>5, <1>6, <1>7, <1>8, Zenon DEF Taken
<1> QED
  BY <1>9 DEF Track

(* While a frame is tracked to its end, a byte of it is unread.             *)
LEMMA OwedInUart ==
    ASSUME PollerTypeOK, NEW t \in Frames, Track(t, Len(t))
    PROVE  fifo # <<>>
BY FrameBytes DEF Track, Waiting, Taken, PollerTypeOK

-----------------------------------------------------------------------------
LEMMA MonitorStep ==
    ASSUME FramingTypeOK, FramingTypeOK', LagInv, MaxStall <= Gap, MonitorInv, [Next]_vars
    PROVE  MonitorInv'
<1> SUFFICES ASSUME poller' = "monitor"
             PROVE  /\ owed' # Nothing => /\ Accepts(owed)' /\ ~(clean /\ frame # Nothing)'
                                          /\ Track(owed, Len(owed))'
                    /\ (clean /\ frame # Nothing)' => Track(frame, sent)'
  BY DEF MonitorInv
<1>0. poller = "monitor"
  BY DEF Next, Traffic, StartFrame, NextByte, Silence, Disturbance, ByteComes, TimePasses, Poll,
     PollBegins, MonitorReads, DeviceReads, ReadByte, PollEnds, vars
<1> USE <1>0
<1>t. LineTypeOK /\ PollerTypeOK
  BY TypeParts
<1>1. /\ owed # Nothing => /\ owed \in Frames /\ Len(owed) \in 1..Len(owed) /\ Accepts(owed)
                           /\ ~(clean /\ frame # Nothing) /\ Track(owed, Len(owed))
      /\ clean /\ frame # Nothing => /\ frame \in Frames /\ sent \in 1..Len(frame)
                                     /\ sent < Len(frame) /\ Track(frame, sent)
                                     /\ owed = Nothing
  <2>1. owed # Nothing => owed \in Frames /\ Len(owed) \in 1..Len(owed)
    BY <1>t, FrameBytes DEF LineTypeOK
  <2>2. frame # Nothing => /\ frame \in Frames /\ sent \in 1..Len(frame)
                           /\ sent < Len(frame)
    BY <1>t, FrameBytes DEF LineTypeOK
  <2> QED
    BY <2>1, <2>2 DEF MonitorInv
(* What is owed stays owed, when more bytes come. *)
<1>2. ASSUME NEW b \in Byte, ByteComes(b), owed' = owed, owed # Nothing
      PROVE  Accepts(owed)' /\ Track(owed, Len(owed))'
  <2>1. PICK t \in Frames : t = owed
    BY <1>1, <1>2
  <2>2. Track(t, Len(t))'
    BY <1>1, <1>2, <2>1, TrackByte
  <2>3. Accepts(owed)'
    BY <1>1, <1>2 DEF Accepts
  <2> QED
    BY <1>2, <2>1, <2>2, <2>3
<1>3. CASE UNCHANGED vars
  BY <1>1, <1>3 DEF vars, lineVars, pollerVars, Track, Waiting, Taken, Alone, Accepts
<1>4. CASE \E f \in Frames : StartFrame(f)
  <2>1. PICK f \in Frames : StartFrame(f)
    BY <1>4
  <2>2. /\ f[1] \in Byte /\ ByteComes(f[1]) /\ owed' = owed /\ clean' = (quiet > Separated)
        /\ frame' = f /\ sent' = 1
    BY <2>1, FrameBytes DEF StartFrame, StillOwed
  <2>3. ~polling
    BY <2>2 DEF ByteComes, TimePasses
  <2>4. ASSUME quiet > Separated
        PROVE  fifo = <<>> /\ (buf = <<>> \/ age > Gap)
    BY <2>3, <2>4 DEF LagInv, FramingTypeOK, Separated, QuietMax
  <2>5. owed # Nothing => fifo # <<>>
    BY <1>1, <1>t, OwedInUart
  <2>6. ASSUME clean' PROVE owed = Nothing /\ Track(f, 1)'
    <3>1. owed = Nothing /\ fifo = <<>> /\ (buf = <<>> \/ age > Gap)
      BY <2>2, <2>4, <2>5, <2>6
    <3>2. /\ ~polling' /\ fifo' = Append(<<>>, f[1]) /\ buf' = buf
          /\ age' = IF age < Gap + 1 THEN age + 1 ELSE age
      BY <2>2, <3>1 DEF ByteComes, TimePasses
    <3>3. Len(fifo') = 1 /\ fifo'[1] = f[1]
      BY <3>2
    <3>4. buf' = <<>> \/ age' > Gap
      BY <3>1, <3>2 DEF FramingTypeOK
    <3> QED
      BY <3>1, <3>2, <3>3, <3>4 DEF Track, Waiting
  <2> QED
    BY <1>2, <2>2, <2>6
<1>5. CASE NextByte
  <2>1. PICK t \in Frames : t = frame
    BY <1>5, <1>t DEF NextByte, LineTypeOK
  <2>2. /\ sent \in 1..Len(t)-1 /\ t[sent + 1] \in Byte /\ ByteComes(t[sent + 1])
        /\ Len(t) \in Nat /\ t # Nothing
    <3>1. sent \in 1..Len(t)-1 /\ ByteComes(t[sent + 1])
      BY <1>5, <1>t, <2>1 DEF NextByte, LineTypeOK
    <3> QED
      BY <3>1, FrameBytes
  <2>n. PICK n \in 1..Len(t)-1 : n = sent
    BY <2>2
  <2>3. clean => Track(t, n + 1)'
    BY <1>1, <2>1, <2>2, <2>n, TrackNext
  <2>4. CASE LastByte
    <3>1. /\ frame' = Nothing /\ n + 1 = Len(t)
          /\ owed' = IF clean /\ Accepts(frame) THEN frame ELSE owed
      BY <1>5, <2>1, <2>n, <2>4 DEF NextByte, LastByte
    <3>2. CASE clean /\ Accepts(frame)
      <4>1. owed' = t /\ Track(t, Len(t))' /\ Accepts(t)'
        BY <2>1, <2>3, <3>1, <3>2 DEF Accepts
      <4> QED
        BY <3>1, <4>1
    <3>3. CASE ~(clean /\ Accepts(frame))
      BY <1>2, <2>2, <3>1, <3>3
    <3> QED
      BY <3>2, <3>3
  <2>5. CASE ~LastByte
    <3>1. /\ frame' = t /\ sent' = sent + 1 /\ clean' = clean /\ owed' = owed
      BY <1>5, <2>1, <2>5 DEF NextByte
    <3>2. clean => Track(frame, sent)'
      BY <2>n, <2>3, <3>1
    <3> QED
      BY <1>1, <1>2, <2>1, <2>2, <3>1, <3>2
  <2> QED
    BY <2>4, <2>5
<1>6. CASE \E b \in Noise : Disturbance(b)
  <2>1. PICK b \in Byte : ByteComes(b) /\ frame' = Nothing /\ owed' = owed
    BY <1>6, FramingAssumption DEF Disturbance, StillOwed
  <2> QED
    BY <1>2, <2>1
<1>7. CASE Silence
  <2>1. frame = Nothing /\ UNCHANGED <<frame, owed, poller>>
    BY <1>7 DEF Silence, TimePasses
  <2>2. ASSUME owed # Nothing PROVE Track(owed, Len(owed))'
    <3>1. PICK t \in Frames : t = owed
      BY <1>1, <2>2
    <3> QED
      BY <1>1, <1>7, <2>1, <2>2, <3>1, TrackSilence
  <2> QED
    BY <1>1, <2>1, <2>2 DEF Accepts
<1>8. CASE PollBegins
  <2>1. UNCHANGED <<frame, sent, clean, poller>> /\ owed' \in {owed, Nothing}
    BY <1>8 DEF PollBegins, CheckSilence, Delivers, lineVars
  <2>2. ASSUME owed' # Nothing PROVE Track(owed, Len(owed))'
    <3>1. PICK t \in Frames : t = owed
      BY <1>1, <2>1, <2>2
    <3> QED
      BY <1>1, <1>8, <2>1, <2>2, <3>1, TrackPoll
  <2>3. ASSUME clean, frame # Nothing PROVE Track(frame, sent)'
    <3>1. PICK t \in Frames : t = frame
      BY <1>1, <2>3
    <3> QED
      BY <1>1, <1>8, <2>1, <2>3, <3>1, TrackPoll
  <2> QED
    BY <1>1, <2>1, <2>2, <2>3 DEF Accepts
<1>9. CASE MonitorReads
  <2>1. /\ UNCHANGED <<frame, sent, clean, poller>> /\ polling /\ fifo # <<>>
        /\ IF LengthReached(Stored)
           THEN owed' = IF Accepts(Stored) /\ owed = Begins(Stored) THEN Nothing ELSE owed
           ELSE owed' = owed
    BY <1>9 DEF MonitorReads, ReadByte, Delivers, lineVars
  <2>2. ASSUME owed' # Nothing PROVE Track(owed, Len(owed))' /\ owed' = owed
    <3>1. PICK t \in Frames : t = owed
      BY <1>1, <2>1, <2>2
    <3>2. Taken(t, Len(t)) /\ Len(t) \in 1..Len(t)
      BY <1>1, <2>1, <2>2, <3>1 DEF Track, Waiting
    <3>3. LengthReached(Stored) => Stored = t
      BY <2>1, <3>2, TrackStored
    <3>4. t = SubSeq(t, 1, Total(t))
      BY FrameBytes, SubSeqFull DEF Total
    <3>5. ~LengthReached(Stored)
      BY <1>1, <2>1, <2>2, <3>1, <3>3, <3>4 DEF Begins
    <3>6. Len(Stored) # Len(t) /\ ReadByte /\ buf' = Stored
      BY <1>9, <2>1, <3>2, <3>5, TrackStored DEF MonitorReads
    <3> QED
      BY <1>1, <2>1, <2>2, <3>1, <3>2, <3>5, <3>6, TrackRead
  <2>3. ASSUME clean, frame # Nothing PROVE Track(frame, sent)'
    <3>1. PICK t \in Frames : t = frame
      BY <1>1, <2>3
    <3>2. Taken(t, sent) /\ sent \in 1..Len(t) /\ sent < Len(t) /\ Alone
      BY <1>1, <2>1, <2>3, <3>1 DEF Track, Waiting, Alone
    <3>3. Len(Stored) # Len(t) /\ ~LengthReached(Stored)
      BY <2>1, <3>2, TrackStored, FrameBytes
    <3>4. ReadByte /\ buf' = Stored
      BY <1>9, <3>3 DEF MonitorReads
    <3>5. owed' = owed
      BY <2>1, <3>3
    <3> QED
      BY <1>1, <2>1, <2>3, <3>1, <3>2, <3>3, <3>4, <3>5, TrackRead
  <2> QED
    BY <1>1, <2>1, <2>2, <2>3 DEF Accepts
<1>10. CASE PollEnds
  <2>1. UNCHANGED <<frame, sent, clean, poller, owed>>
    BY <1>10 DEF PollEnds, lineVars
  <2>2. ASSUME owed # Nothing PROVE Track(owed, Len(owed))'
    <3>1. PICK t \in Frames : t = owed
      BY <1>1, <2>2
    <3> QED
      BY <1>1, <1>10, <2>1, <2>2, <3>1, TrackPollEnds
  <2>3. ASSUME clean, frame # Nothing PROVE Track(frame, sent)'
    <3>1. PICK t \in Frames : t = frame
      BY <1>1, <2>3
    <3> QED
      BY <1>1, <1>10, <2>1, <2>3, <3>1, TrackPollEnds
  <2> QED
    BY <1>1, <2>1, <2>2, <2>3 DEF Accepts
<1> QED
  BY <1>3, <1>4, <1>5, <1>6, <1>7, <1>8, <1>9, <1>10 DEF Next, Traffic, Poll, DeviceReads

\* If the main loop calls poll() at least once per INTER_BYTE_TIMEOUT_US, the monitor hears
\* every frame that begins after a silence, with the last of its bytes, whatever noise or
\* half packet it had buffered before (orion_bus_monitor.cpp:77-112).
THEOREM MonitorHears ==
    ASSUME MaxStall <= Gap
    PROVE  Spec => []MonitorHearsSeparated
<1> DEFINE Inv == FramingTypeOK /\ LagInv /\ MonitorInv
<1>1. FramingInit => Inv
  BY InitTypes DEF FramingInit, LagInv, MonitorInv
<1>2. Inv /\ [Next]_vars => Inv'
  BY TypeStep, LagStep, MonitorStep
<1>3. Inv => MonitorHearsSeparated
  BY TypeParts, FrameBytes, OwedInUart DEF MonitorHearsSeparated, MonitorInv, LineTypeOK
<1> QED
  BY <1>1, <1>2, <1>3, PTL DEF Spec

-----------------------------------------------------------------------------
(* The device has stored what Whole says once it has read the last byte.     *)
LEMMA WholeRead ==
    ASSUME FramingTypeOK, LagInv, NEW t \in Frames, Track(t, Len(t)), poller = "device",
           ReadByte, buf' = Stored, owed' = owed
    PROVE  Track(t, Len(t))' \/ Whole(t)'
<1>t. PollerTypeOK
  BY TypeParts
<1>1. /\ polling /\ polling' /\ fifo # <<>> /\ fifo' = Tail(fifo) /\ quiet' = quiet
      /\ quiet <= MaxStall /\ Alone
  BY DEF ReadByte, LagInv, lineVars, Alone
<1>2. Taken(t, Len(t)) /\ Len(t) \in 1..Len(t) /\ Len(t) \in Nat
  BY <1>1, FrameBytes DEF Track, Waiting
<1>3. /\ Stored \in Seq(Byte) /\ Len(Stored) = Len(buf) + 1
      /\ \A i \in 1..Len(Stored) : Stored[i] = t[i]
  BY <1>1, <1>2, TrackStored
<1>4. CASE Len(Stored) = Len(t)
  <2>1. Stored = t
    BY <1>3, <1>4, FrameBytes, SeqEqual
  <2>2. Len(buf) + Len(fifo) = Len(t) /\ Len(buf) \in Nat /\ fifo \in Seq(Byte)
    BY <1>t, <1>1, <1>2 DEF Taken, PollerTypeOK
  <2>3. Len(fifo') = 0 /\ fifo' \in Seq(Byte)
    <3>1. Len(Tail(fifo)) = Len(fifo) - 1 /\ Tail(fifo) \in Seq(Byte) /\ Len(fifo) \in Nat
      BY <1>1, <2>2, HeadTailProperties, LenProperties
    <3>2. Len(fifo) = 1
      BY <1>2, <1>3, <1>4, <2>2, <3>1
    <3> QED
      BY <1>1, <3>1, <3>2
  <2>4. fifo' = <<>>
    BY <2>3
  <2>5. quiet' <= Gap + MaxStall
    <3>1. quiet \in Int
      BY DEF FramingTypeOK
    <3> QED
      BY <1>1, <3>1
  <2> QED
    BY <1>1, <2>1, <2>4, <2>5 DEF Whole
<1>5. CASE Len(Stored) # Len(t)
  BY <1>2, <1>5, TrackRead
<1> QED
  BY <1>4, <1>5

(* poll() serves a whole frame after the silence, and else leaves it alone.  *)
LEMMA WholePoll ==
    ASSUME FramingTypeOK, LagInv, NEW t \in Frames, owed = t, Accepts(t), Whole(t), PollBegins,
           owed' # Nothing
    PROVE  Whole(t)' /\ owed' = t
<1>1. /\ polling' /\ buf = t /\ buf # <<>> /\ fifo' = <<>> /\ quiet' = quiet
      /\ IF age > Gap THEN Delivers(buf) ELSE UNCHANGED <<buf, owed>>
  BY FrameBytes DEF PollBegins, CheckSilence, Whole, lineVars
<1>2. t = SubSeq(t, 1, Total(t))
  BY FrameBytes, SubSeqFull DEF Total
<1>3. ~(age > Gap)
  BY <1>1, <1>2 DEF Delivers, Begins
<1>4. quiet <= Gap + MaxStall
  <2>1. age \in Int /\ quiet \in Int
    BY DEF FramingTypeOK
  <2> QED
    BY <1>1, <1>3, <2>1 DEF LagInv
<1> QED
  BY <1>1, <1>3, <1>4 DEF Whole

LEMMA DeviceStep ==
    ASSUME FramingTypeOK, FramingTypeOK', LagInv, MaxStall <= Gap, DeviceInv, [Next]_vars
    PROVE  DeviceInv'
<1> SUFFICES ASSUME poller' = "device"
             PROVE  /\ owed' # Nothing => /\ Accepts(owed)' /\ frame' = Nothing
                                          /\ (Track(owed, Len(owed)) \/ Whole(owed))'
                    /\ (clean /\ frame # Nothing)' => owed' = Nothing /\ Track(frame, sent)'
  BY DEF DeviceInv
<1>0. poller = "device"
  BY DEF Next, Traffic, StartFrame, NextByte, Silence, Disturbance, ByteComes, TimePasses, Poll,
     PollBegins, MonitorReads, DeviceReads, ReadByte, PollEnds, vars
<1> USE <1>0
<1>t. LineTypeOK /\ PollerTypeOK
  BY TypeParts
<1>1. /\ owed # Nothing => /\ owed \in Frames /\ Len(owed) \in 1..Len(owed) /\ Accepts(owed)
                           /\ frame = Nothing /\ (Track(owed, Len(owed)) \/ Whole(owed))
      /\ clean /\ frame # Nothing => /\ frame \in Frames /\ sent \in 1..Len(frame)
                                     /\ sent < Len(frame) /\ Track(frame, sent)
                                     /\ owed = Nothing
  <2>1. owed # Nothing => owed \in Frames /\ Len(owed) \in 1..Len(owed)
    BY <1>t, FrameBytes DEF LineTypeOK
  <2>2. frame # Nothing => /\ frame \in Frames /\ sent \in 1..Len(frame)
                           /\ sent < Len(frame)
    BY <1>t, FrameBytes DEF LineTypeOK
  <2> QED
    BY <2>1, <2>2 DEF DeviceInv
<1>3. CASE UNCHANGED vars
  BY <1>1, <1>3 DEF vars, lineVars, pollerVars, Track, Waiting, Taken, Alone, Whole, Accepts
<1>4. CASE \E f \in Frames : StartFrame(f)
  <2>1. PICK f \in Frames : StartFrame(f)
    BY <1>4
  <2>2. /\ ByteComes(f[1]) /\ owed' = Nothing /\ clean' = (quiet > Separated)
        /\ frame' = f /\ sent' = 1
    BY <2>1 DEF StartFrame, StillOwed
  <2>3. ASSUME clean' PROVE Track(f, 1)'
    <3>1. fifo = <<>> /\ (buf = <<>> \/ age > Gap)
      BY <2>2, <2>3 DEF LagInv, FramingTypeOK, Separated, QuietMax, ByteComes, TimePasses
    <3>2. /\ ~polling' /\ fifo' = Append(<<>>, f[1]) /\ buf' = buf
          /\ age' = IF age < Gap + 1 THEN age + 1 ELSE age
      BY <2>2, <3>1 DEF ByteComes, TimePasses
    <3>3. Len(fifo') = 1 /\ fifo'[1] = f[1]
      BY <3>2
    <3>4. buf' = <<>> \/ age' > Gap
      BY <3>1, <3>2 DEF FramingTypeOK
    <3> QED
      BY <3>2, <3>3, <3>4 DEF Track, Waiting
  <2> QED
    BY <2>2, <2>3
<1>5. CASE NextByte
  <2>1. PICK t \in Frames : t = frame
    BY <1>5, <1>t DEF NextByte, LineTypeOK
  <2>2. /\ sent \in 1..Len(t)-1 /\ ByteComes(t[sent + 1]) /\ Len(t) \in Nat /\ t # Nothing
        /\ owed = Nothing
    <3>1. sent \in 1..Len(t)-1 /\ ByteComes(t[sent + 1])
      BY <1>5, <1>t, <2>1 DEF NextByte, LineTypeOK
    <3> QED
      BY <1>1, <2>1, <3>1, FrameBytes
  <2>n. PICK n \in 1..Len(t)-1 : n = sent
    BY <2>2
  <2>3. clean => Track(t, n + 1)'
    BY <1>1, <2>1, <2>2, <2>n, TrackNext
  <2>4. CASE LastByte
    <3>1. /\ frame' = Nothing /\ n + 1 = Len(t)
          /\ owed' = IF clean /\ Accepts(frame) THEN frame ELSE owed
      BY <1>5, <2>1, <2>n, <2>4 DEF NextByte, LastByte
    <3>2. CASE clean /\ Accepts(frame)
      <4>1. owed' = t /\ Track(t, Len(t))' /\ Accepts(t)'
        BY <2>1, <2>3, <3>1, <3>2 DEF Accepts
      <4> QED
        BY <3>1, <4>1
    <3>3. CASE ~(clean /\ Accepts(frame))
      BY <2>2, <3>1, <3>3
    <3> QED
      BY <3>2, <3>3
  <2>5. CASE ~LastByte
    <3>1. /\ frame' = t /\ sent' = n + 1 /\ clean' = clean /\ owed' = Nothing
      BY <1>5, <2>1, <2>2, <2>n, <2>5 DEF NextByte
    <3> QED
      BY <2>3, <3>1
  <2> QED
    BY <2>4, <2>5
<1>6. CASE \E b \in Noise : Disturbance(b)
  BY <1>6 DEF Disturbance, StillOwed
<1>7. CASE Silence
  <2>1. frame' = Nothing /\ UNCHANGED <<frame, owed, poller>>
    BY <1>7 DEF Silence, TimePasses
  <2>2. ASSUME NEW t \in Frames, Track(t, Len(t)) PROVE Track(t, Len(t))'
    BY <1>7, <2>2, TrackSilence
  <2>3. ASSUME NEW t \in Frames, Whole(t) PROVE Whole(t)'
    <3>1. /\ ~polling /\ ~polling' /\ stall' = stall + 1 /\ UNCHANGED <<buf, fifo>>
          /\ quiet' = IF quiet < QuietMax THEN quiet + 1 ELSE quiet
      BY <1>7 DEF Silence, TimePasses
    <3>2. quiet \in Int /\ stall \in Int
      BY DEF FramingTypeOK
    <3> QED
      BY <2>3, <3>1, <3>2 DEF Whole
  <2> QED
    BY <1>1, <2>1, <2>2, <2>3 DEF Accepts
<1>8. CASE PollBegins
  <2>1. UNCHANGED <<frame, sent, clean, poller>> /\ owed' \in {owed, Nothing}
    BY <1>8 DEF PollBegins, CheckSilence, Delivers, lineVars
  <2>2. ASSUME owed' # Nothing PROVE Track(owed, Len(owed))' \/ Whole(owed)'
    <3>1. PICK t \in Frames : t = owed
      BY <1>1, <2>1, <2>2
    <3>2. CASE Track(t, Len(t))
      BY <1>1, <1>8, <2>1, <2>2, <3>1, <3>2, TrackPoll
    <3>3. CASE Whole(t)
      BY <1>1, <1>8, <2>1, <2>2, <3>1, <3>3, WholePoll
    <3> QED
      BY <1>1, <2>1, <2>2, <3>1, <3>2, <3>3
  <2>3. ASSUME clean, frame # Nothing PROVE Track(frame, sent)'
    <3>1. PICK t \in Frames : t = frame
      BY <1>1, <2>3
    <3> QED
      BY <1>1, <1>8, <2>1, <2>3, <3>1, TrackPoll
  <2> QED
    BY <1>1, <2>1, <2>2, <2>3 DEF Accepts
<1>9. CASE DeviceReads
  <2>1. UNCHANGED <<frame, sent, clean, poller, owed>> /\ ReadByte /\ buf' = Stored /\ fifo # <<>>
    BY <1>9 DEF DeviceReads, ReadByte, lineVars
  <2>2. ASSUME owed # Nothing PROVE Track(owed, Len(owed))' \/ Whole(owed)'
    <3>1. PICK t \in Frames : t = owed
      BY <1>1, <2>2
    <3>2. Track(t, Len(t))
      BY <1>1, <2>1, <2>2, <3>1 DEF Whole
    <3> QED
      BY <2>1, <3>1, <3>2, WholeRead
  <2>3. ASSUME clean, frame # Nothing PROVE Track(frame, sent)'
    <3>1. PICK t \in Frames : t = frame
      BY <1>1, <2>3
    <3>2. Taken(t, sent) /\ sent \in 1..Len(t) /\ sent < Len(t) /\ Alone /\ Len(t) \in Nat
      BY <1>1, <2>1, <2>3, <3>1, FrameBytes DEF Track, Waiting, Alone, ReadByte
    <3>3. Len(Stored) # Len(t)
      BY <2>1, <3>2, TrackStored
    <3> QED
      BY <1>1, <2>1, <2>3, <3>1, <3>2, <3>3, TrackRead
  <2> QED
    BY <1>1, <2>1, <2>2, <2>3 DEF Accepts
<1>10. CASE PollEnds
  <2>1. UNCHANGED <<frame, sent, clean, poller, owed>>
    BY <1>10 DEF PollEnds, lineVars
  <2>2. ASSUME NEW t \in Frames, Track(t, Len(t)) PROVE Track(t, Len(t))'
    BY <1>10, <2>2, FrameBytes, TrackPollEnds
  <2>3. ASSUME NEW t \in Frames, Whole(t) PROVE Whole(t)'
    <3>1. polling /\ ~polling' /\ UNCHANGED <<buf, fifo, quiet, stall>>
      BY <1>10 DEF PollEnds, lineVars
    <3>2. quiet \in Int /\ stall \in Nat
      BY DEF FramingTypeOK
    <3> QED
      BY <2>3, <3>1, <3>2 DEF Whole
  <2>4. ASSUME clean, frame # Nothing PROVE Track(frame, sent)'
    <3>1. PICK t \in Frames : t = frame
      BY <1>1, <2>4
    <3> QED
      BY <1>1, <1>10, <2>1, <2>4, <3>1, TrackPollEnds
  <2> QED
    BY <1>1, <2>1, <2>2, <2>3, <2>4 DEF Accepts
<1> QED
  BY <1>3, <1>4, <1>5, <1>6, <1>7, <1>8, <1>9, <1>10 DEF Next, Traffic, Poll, MonitorReads

\* If the main loop calls poll() at least once per INTER_BYTE_TIMEOUT_US, the device has served
\* a request that came alone, after a silence, before the line was still for one gap and two
\* calls of poll() (orion_slave.cpp:136-180).
THEOREM DeviceServes ==
    ASSUME MaxStall <= Gap
    PROVE  Spec => []DeviceServesInTime
<1> DEFINE Inv == FramingTypeOK /\ LagInv /\ DeviceInv
<1>1. FramingInit => Inv
  BY InitTypes DEF FramingInit, LagInv, DeviceInv
<1>2. Inv /\ [Next]_vars => Inv'
  BY TypeStep, LagStep, DeviceStep
<1>3. Inv => DeviceServesInTime
  <2> SUFFICES ASSUME Inv, poller = "device", owed # Nothing
               PROVE  quiet < QuietMax
    BY DEF DeviceServesInTime
  <2>1. /\ quiet \in Int /\ stall \in 0..MaxStall /\ owed \in Frames
        /\ (Track(owed, Len(owed)) \/ Whole(owed))
    BY DEF FramingTypeOK, DeviceInv
  <2>2. CASE Track(owed, Len(owed))
    <3>1. fifo # <<>>
      BY <2>1, <2>2, TypeParts, OwedInUart
    <3> QED
      BY <2>1, <3>1 DEF LagInv, QuietMax
  <2>3. CASE Whole(owed)
    BY <2>1, <2>3 DEF Whole, QuietMax
  <2> QED
    BY <2>1, <2>2, <2>3
<1> QED
  BY <1>1, <1>2, <1>3, PTL DEF Spec
=============================================================================
