------------------------- MODULE MonitoredBusProofs -------------------------
(***************************************************************************)
(* The bus monitor beside a C2000M and any number of devices.  Everything  *)
(* it says of them rests on one fact: while the C2000M is patient, that is *)
(* repeats no request within the monitor's gap, the monitor takes requests *)
(* for requests and answers for answers to the last of them (Linked).      *)
(***************************************************************************)
EXTENDS MonitoredBus, TLAPS

Patient == MinRepeat >= RespGap

\* Whether the C2000M asks for zone states; their answers are misread.
AsksStatus == CMD_READ_STATUS \in Queries

ByteVal == 0..255
Event   == [addr : Devices \cup {0}, code : ByteVal, zone : ByteVal]

Ages       == 0..SeenLimit
Versions   == ByteVal \X ByteVal
ZoneStates == [Zones -> ByteVal]
ZoneNumber == 0..MaxZones
Device     == [online : BOOLEAN, seenAge : Ages, type : ByteVal, version : Versions,
               zones : ZoneStates, zoneCount : ZoneNumber]

BusTypeOK ==
    /\ ask \in [addr : Devices \cup {0}, cmd : ByteVal, age : Nat, open : BOOLEAN]
    /\ ask.open => ask.addr \in Devices /\ ask.cmd \in Queries
    /\ spokeAge \in [Devices -> 0..SpokeLimit]
    /\ reported \in [Devices -> SUBSET (ByteVal \X ByteVal)]
    /\ sent \in Seq(Event) /\ Len(sent) <= LogSize

TypeInv == MonitorTypeOK /\ BusTypeOK

LEMMA Limits ==
    /\ MaxZones \in 1..255 /\ LogSize \in Nat \ {0} /\ RespGap \in Nat \ {0}
    /\ OfflineTimeout \in Nat \ {0} /\ CheckPeriod \in Nat
    /\ RespMax \in Nat /\ GiveUp \in Nat /\ MinRepeat \in Nat
    /\ RespMax < RespGap /\ RespMax < GiveUp
BY MonitorAssumption, BusAssumption

USE Limits

-----------------------------------------------------------------------------
(* Types.                                                                  *)

\* A frame that processPacket can work on.
Decodable(f) ==
    /\ f.addr \in Devices /\ f.encrypted \in BOOLEAN
    /\ f.body \in Seq(ByteVal) /\ Len(f.body) >= 1

LEMMA DevsType == MonitorTypeOK => devs \in [Devices -> Device]
BY DEF MonitorTypeOK, Device, ByteVal, Ages, Versions, ZoneStates, ZoneNumber

LEMMA TypeByParts ==
    ASSUME lastRequest \in [addr : Devices \cup {0}, cmd : ByteVal, age : 0..RespGap],
           devs \in [Devices -> Device], events \in [0..(LogSize - 1) -> Event],
           eventHead \in 0..(LogSize - 1), eventCount \in 0..LogSize,
           checkAge \in 0..(CheckPeriod + 1)
    PROVE  MonitorTypeOK
BY DEF MonitorTypeOK, Device, Event, ByteVal, Ages, Versions, ZoneStates, ZoneNumber

LEMMA TypeByPartsPrimed ==
    ASSUME lastRequest' \in [addr : Devices \cup {0}, cmd : ByteVal, age : 0..RespGap],
           devs' \in [Devices -> Device], events' \in [0..(LogSize - 1) -> Event],
           eventHead' \in 0..(LogSize - 1), eventCount' \in 0..LogSize,
           checkAge' \in 0..(CheckPeriod + 1)
    PROVE  MonitorTypeOK'
BY DEF MonitorTypeOK, Device, Event, ByteVal, Ages, Versions, ZoneStates, ZoneNumber

LEMMA PartsOfType ==
    ASSUME MonitorTypeOK
    PROVE  /\ lastRequest \in [addr : Devices \cup {0}, cmd : ByteVal, age : 0..RespGap]
           /\ devs \in [Devices -> Device] /\ events \in [0..(LogSize - 1) -> Event]
           /\ eventHead \in 0..(LogSize - 1) /\ eventCount \in 0..LogSize
           /\ checkAge \in 0..(CheckPeriod + 1)
BY DEF MonitorTypeOK, Device, Event, ByteVal, Ages, Versions, ZoneStates, ZoneNumber

\* updateDeviceStatus changes the status of the zone it is given, and of no other.
LEMMA StatusOfZone ==
    ASSUME NEW d \in Device, NEW zone \in ByteVal, NEW status \in ByteVal,
           NEW w, w = WithStatus(d, zone, status)
    PROVE  /\ w \in Device
           /\ w.online = d.online /\ w.seenAge = d.seenAge
           /\ w.type = d.type /\ w.version = d.version
           /\ \A z \in Zones : w.zones[z] = IF z = zone THEN status ELSE d.zones[z]
<1>1. CASE zone \in Zones /\ d.zones[zone] # status
  <2> DEFINE n == IF zone > d.zoneCount THEN zone ELSE d.zoneCount
             m == [d.zones EXCEPT ![zone] = status]
  <2>1. w = [d EXCEPT !.zones = m, !.zoneCount = n]
    BY <1>1 DEF WithStatus, Device
  <2>2. n \in ZoneNumber
    BY <1>1 DEF Zones, ByteVal, Device, ZoneNumber
  <2>3. /\ m \in ZoneStates
        /\ \A z \in Zones : m[z] = IF z = zone THEN status ELSE d.zones[z]
    BY <1>1 DEF Device, ZoneStates
  <2> HIDE DEF n, m
  <2>4. w.zones = m /\ w \in Device /\ w.online = d.online /\ w.seenAge = d.seenAge
        /\ w.type = d.type /\ w.version = d.version
    BY <2>1, <2>2, <2>3 DEF Device
  <2> QED
    BY <2>3, <2>4
<1>2. CASE ~(zone \in Zones /\ d.zones[zone] # status)
  <2>1. w = d
    BY <1>2 DEF WithStatus
  <2> QED
    BY <1>2, <2>1
<1> QED
  BY <1>1, <1>2

LEMMA StatusType ==
    ASSUME NEW d \in Device, NEW zone \in ByteVal, NEW status \in ByteVal
    PROVE  WithStatus(d, zone, status) \in Device
BY StatusOfZone

\* Row w is row d but for the status of a zone.
Restated(w, d, zone, status) ==
    /\ w.online = d.online /\ w.seenAge = d.seenAge
    /\ w.type = d.type /\ w.version = d.version
    /\ \A z \in Zones : w.zones[z] = IF z = zone THEN status ELSE d.zones[z]

LEMMA StatusRestates ==
    ASSUME NEW d \in Device, NEW zone \in ByteVal, NEW status \in ByteVal
    PROVE  Restated(WithStatus(d, zone, status), d, zone, status)
<1> DEFINE w == WithStatus(d, zone, status)
<1>1. w = WithStatus(d, zone, status)
  OBVIOUS
<1> HIDE DEF w
<1>2. Restated(w, d, zone, status)
  BY <1>1, StatusOfZone DEF Restated
<1> QED
  BY <1>2 DEF w

\* The row of a device from which an answer came.
Seen(a) == [devs[a] EXCEPT !.online = TRUE, !.seenAge = 0]

LEMMA SeenDevice ==
    ASSUME MonitorTypeOK, NEW a \in Devices
    PROVE  /\ Seen(a) \in Device /\ Seen(a).online /\ Seen(a).seenAge = 0
           /\ Seen(a).type = devs[a].type /\ Seen(a).version = devs[a].version
           /\ Seen(a).zones = devs[a].zones
<1>1. devs[a] \in Device /\ 0 \in Ages
  BY DevsType DEF Ages, SeenLimit
<1> QED
  BY <1>1 DEF Seen, Device

LEMMA DecodedType ==
    ASSUME MonitorTypeOK, NEW f, Decodable(f)
    PROVE  Decoded(f) \in Device
<1> DEFINE s == Seen(f.addr)
<1>1. s \in Device
  BY SeenDevice DEF Decodable
<1>2. /\ f.body[1] \in ByteVal
      /\ Len(f.body) >= 2 => f.body[2] \in ByteVal
      /\ Len(f.body) >= 3 => f.body[3] \in ByteVal
  BY DEF Decodable
<1> HIDE DEF s
<1>3. ASSUME Len(f.body) >= 3 PROVE WithStatus(s, f.body[2], f.body[3]) \in Device
  <2>1. f.body[2] \in ByteVal /\ f.body[3] \in ByteVal
    BY <1>2, <1>3 DEF Decodable
  <2> QED
    BY <1>1, <2>1, StatusType
<1>4. ASSUME Len(f.body) >= 2 PROVE WithStatus(s, f.body[2], f.body[1]) \in Device
  BY <1>1, <1>2, <1>4, StatusType
<1>5. [s EXCEPT !.type = f.body[1]] \in Device
  BY <1>1, <1>2 DEF Device
<1>6. ASSUME Len(f.body) >= 2
      PROVE  [s EXCEPT !.version = <<f.body[1], f.body[2]>>] \in Device
  <2>1. <<f.body[1], f.body[2]>> \in Versions
    BY <1>2, <1>6 DEF Versions
  <2> QED
    BY <1>1, <2>1 DEF Device
<1>7. CarriesEvent(f) => Len(f.body) >= 2
  BY DEF CarriesEvent
<1>8. Decoded(f) \in
        {IF Len(f.body) >= 3 THEN WithStatus(s, f.body[2], f.body[3]) ELSE s,
         IF Len(f.body) >= 2 THEN WithStatus(s, f.body[2], f.body[1]) ELSE s,
         [s EXCEPT !.type = f.body[1]],
         IF Len(f.body) >= 2 THEN [s EXCEPT !.version = <<f.body[1], f.body[2]>>] ELSE s,
         s}
  BY <1>7 DEF Decoded, Seen, s
<1> QED
  BY <1>1, <1>3, <1>4, <1>5, <1>6, <1>8

LEMMA LogEventType ==
    ASSUME MonitorTypeOK, NEW e \in Event, LogEvent(e)
    PROVE  /\ events' \in [0..(LogSize - 1) -> Event]
           /\ eventHead' \in 0..(LogSize - 1) /\ eventCount' \in 0..LogSize
<1> USE DEF MonitorTypeOK, LogEvent
<1>1. events \in [0..(LogSize - 1) -> Event]
  BY DEF Event, ByteVal
<1>2. (eventHead + 1) % LogSize \in 0..(LogSize - 1)
  OBVIOUS
<1> QED
  BY <1>1, <1>2

LEMMA ProcessType ==
    ASSUME MonitorTypeOK, NEW f, Decodable(f), ProcessPacket(f)
    PROVE  MonitorTypeOK'
<1>1. devs' \in [Devices -> Device]
  BY DecodedType, DevsType DEF ProcessPacket, DecodeRequest, DecodeResponse, Decodable
<1>2. lastRequest' \in [addr : Devices \cup {0}, cmd : ByteVal, age : 0..RespGap]
  <2>1. f.addr \in Devices \cup {0} /\ f.body[1] \in ByteVal /\ 0 \in 0..RespGap
    BY DEF Decodable
  <2>2. lastRequest \in [addr : Devices \cup {0}, cmd : ByteVal, age : 0..RespGap]
    BY DEF MonitorTypeOK, ByteVal
  <2>3. \/ lastRequest' = lastRequest
        \/ lastRequest' = [addr |-> f.addr, cmd |-> f.body[1], age |-> 0]
    BY DEF ProcessPacket, DecodeRequest, DecodeResponse
  <2> QED
    BY <2>1, <2>2, <2>3
<1>3. /\ events' \in [0..(LogSize - 1) -> Event]
      /\ eventHead' \in 0..(LogSize - 1) /\ eventCount' \in 0..LogSize
  <2>1. CASE UNCHANGED <<events, eventHead, eventCount>>
    BY <2>1 DEF MonitorTypeOK, Event, ByteVal
  <2>2. CASE CarriesEvent(f) /\ LogEvent(EventOf(f))
    <3>1. EventOf(f) \in Event
      BY <2>2 DEF EventOf, CarriesEvent, Event, Decodable
    <3> QED
      BY <2>2, <3>1, LogEventType
  <2> QED
    BY <2>1, <2>2 DEF ProcessPacket, DecodeRequest, DecodeResponse
<1>4. checkAge' = checkAge
  BY DEF ProcessPacket
<1> QED
  BY <1>1, <1>2, <1>3, <1>4 DEF MonitorTypeOK, Device, Event, ByteVal, Ages, Versions,
     ZoneStates, ZoneNumber

-----------------------------------------------------------------------------
(* The frames on the bus.                                                  *)

LEMMA RequestDecodable ==
    ASSUME NEW a \in Devices, NEW c \in Queries
    PROVE  Decodable(Request(a, c)) /\ Request(a, c).body[1] = c /\ Request(a, c).addr = a
<1> DEFINE f == Request(a, c)
           enc == c \in {CMD_READ_STATUS, CMD_READ_EVENT}
           body == CASE c = CMD_READ_STATUS -> <<c, 2, 0, 0, 0>>
                     [] c = CMD_READ_EVENT  -> <<c, 0, 0, 0>>
                     [] OTHER               -> <<c>>
<1>1. c \in ByteVal /\ 0 \in ByteVal /\ 2 \in ByteVal
  BY BusAssumption DEF ByteVal
<1>2. f = [from |-> "master", addr |-> a, encrypted |-> enc, body |-> body]
  BY DEF Request
<1>3. enc \in BOOLEAN
  OBVIOUS
<1>4. \/ body = <<c, 2, 0, 0, 0>>
      \/ body = <<c, 0, 0, 0>>
      \/ body = <<c>>
  <2>1. CMD_READ_STATUS # CMD_READ_EVENT
    BY DEF CMD_READ_STATUS, CMD_READ_EVENT
  <2>2. CASE c = CMD_READ_STATUS
    BY <2>1, <2>2
  <2>3. CASE c = CMD_READ_EVENT
    BY <2>1, <2>3
  <2>4. CASE c # CMD_READ_STATUS /\ c # CMD_READ_EVENT
    BY <2>4
  <2> QED
    BY <2>2, <2>3, <2>4
<1> HIDE DEF enc, body, f
<1>5. f.addr = a /\ f.encrypted = enc /\ f.body = body
  BY <1>2
<1>6. body \in Seq(ByteVal) /\ Len(body) >= 1 /\ body[1] = c
  <2>1. CASE body = <<c, 2, 0, 0, 0>>
    BY <1>1, <2>1
  <2>2. CASE body = <<c, 0, 0, 0>>
    BY <1>1, <2>2
  <2>3. CASE body = <<c>>
    BY <1>1, <2>3
  <2> QED
    BY <1>4, <2>1, <2>2, <2>3
<1>7. Decodable(f) /\ f.body[1] = c /\ f.addr = a
  BY <1>3, <1>5, <1>6 DEF Decodable
<1> QED
  BY <1>7 DEF f

\* What the answers of the devices are decoded from.
LEMMA AnswersDecodable ==
    ASSUME NEW a \in Devices, NEW n \in ByteVal, NEW v \in ByteVal
    PROVE  /\ Decodable(StatusAnswer(a, n, v)) /\ Decodable(EventAnswer(a, n, v))
           /\ Decodable(NoEventAnswer(a))
           /\ Decodable(Answer(a, FALSE, <<n>>)) /\ Decodable(Answer(a, FALSE, <<n, v>>))
BY DEF Decodable, StatusAnswer, EventAnswer, NoEventAnswer, Answer, ByteVal

LEMMA SpokenType ==
    ASSUME TypeInv, NEW f, NEW news \in SUBSET (ByteVal \X ByteVal), ask.open, Speaks(f, news)
    PROVE  /\ ask' \in [addr : Devices \cup {0}, cmd : ByteVal, age : Nat, open : BOOLEAN]
           /\ ask'.addr = ask.addr /\ ask'.cmd = ask.cmd /\ ask'.age = ask.age /\ ~ask'.open
           /\ spokeAge' \in [Devices -> 0..SpokeLimit]
           /\ reported' \in [Devices -> SUBSET (ByteVal \X ByteVal)]
<1> USE DEF TypeInv, BusTypeOK, Speaks
<1>1. 0 \in 0..SpokeLimit
  BY DEF SpokeLimit
<1>2. ask.addr \in Devices
  OBVIOUS
<1> DEFINE Pairs == ByteVal \X ByteVal
<1>3. reported \in [Devices -> SUBSET Pairs] /\ news \in SUBSET Pairs
  OBVIOUS
<1> HIDE DEF Pairs
<1>4. reported' \in [Devices -> SUBSET Pairs]
  <2>1. reported[ask.addr] \cup news \in SUBSET Pairs
    BY <1>2, <1>3
  <2> QED
    BY <1>2, <1>3, <2>1
<1> QED
  BY <1>1, <1>2, <1>4 DEF Pairs

\* Every byte a device sends is a byte.
LEMMA BusBytes ==
    /\ EventCodes \subseteq ByteVal /\ EventZones \subseteq ByteVal
    /\ ZoneCounts \subseteq ByteVal /\ Queries \subseteq ByteVal
    /\ 0 \in ByteVal /\ 2 \in ByteVal /\ 6 \in ByteVal /\ DeviceType \in ByteVal
BY BusAssumption DEF ByteVal, DeviceType

LEMMA RecentShifts ==
    ASSUME NEW s \in Seq(Event), Len(s) = LogSize, NEW e \in Event
    PROVE  LET t == Recent(Append(s, e)) IN
             /\ t \in Seq(Event) /\ Len(t) = LogSize /\ t[LogSize] = e
             /\ \A i \in 1..(LogSize - 1) : t[i] = s[i + 1]
<1> DEFINE u == Append(s, e)
           t == Recent(u)
<1>1. u \in Seq(Event) /\ Len(u) = LogSize + 1
  OBVIOUS
<1>2. /\ \A i \in 1..LogSize : u[i] = s[i]
      /\ u[LogSize + 1] = e
  OBVIOUS
<1> HIDE DEF u
<1>3. t = SubSeq(u, 2, LogSize + 1)
  BY <1>1 DEF Recent
<1> HIDE DEF t
<1>4. t \in Seq(Event) /\ Len(t) = LogSize /\ \A i \in 1..LogSize : t[i] = u[i + 1]
  BY <1>1, <1>3
<1>5. /\ t \in Seq(Event) /\ Len(t) = LogSize /\ t[LogSize] = e
      /\ \A i \in 1..(LogSize - 1) : t[i] = s[i + 1]
  BY <1>2, <1>4
<1> QED
  BY <1>5 DEF t, u

LEMMA RecentType ==
    ASSUME NEW s \in Seq(Event), Len(s) <= LogSize, NEW e \in Event
    PROVE  LET t == Recent(Append(s, e)) IN
             /\ t \in Seq(Event) /\ Len(t) <= LogSize
             /\ Len(s) < LogSize => t = Append(s, e)
<1>1. Append(s, e) \in Seq(Event) /\ Len(Append(s, e)) = Len(s) + 1
  OBVIOUS
<1>2. CASE Len(s) < LogSize
  BY <1>1, <1>2 DEF Recent
<1>3. CASE Len(s) = LogSize
  BY <1>3, RecentShifts
<1> QED
  BY <1>2, <1>3

LEMMA TypeInit == Init => TypeInv
<1> SUFFICES ASSUME Init PROVE TypeInv
  OBVIOUS
<1> USE DEF Init, MonitorInit
<1>1. UnknownDevice \in Device
  BY DEF UnknownDevice, Device, Ages, Versions, ZoneStates, ZoneNumber, ByteVal, SeenLimit
<1>2. devs \in [Devices -> Device]
  BY <1>1
<1>3. NoEvent \in Event
  BY DEF NoEvent, Event, ByteVal
<1>4. events \in [0..(LogSize - 1) -> Event]
  BY <1>3
<1>5. MonitorTypeOK
  <2>1. lastRequest \in [addr : Devices \cup {0}, cmd : ByteVal, age : 0..RespGap]
    BY DEF ByteVal
  <2>2. eventHead \in 0..(LogSize - 1) /\ eventCount \in 0..LogSize
        /\ checkAge \in 0..(CheckPeriod + 1)
    OBVIOUS
  <2> QED
    BY <1>2, <1>4, <2>1, <2>2, TypeByParts
<1>6. BusTypeOK
  <2>1. SpokeLimit \in 0..SpokeLimit
    BY DEF SpokeLimit
  <2>2. ask \in [addr : Devices \cup {0}, cmd : ByteVal, age : Nat, open : BOOLEAN]
    BY DEF ByteVal
  <2> QED
    BY <2>1, <2>2 DEF BusTypeOK
<1> QED
  BY <1>5, <1>6 DEF TypeInv

-----------------------------------------------------------------------------
(* One step for each action, in terms of the types.                        *)

LEMMA AsksType ==
    ASSUME TypeInv, NEW a \in Devices, NEW c \in Queries, MasterAsks(a, c)
    PROVE  TypeInv'
<1>1. MonitorTypeOK'
  BY RequestDecodable, ProcessType DEF MasterAsks, TypeInv
<1>2. ask' \in [addr : Devices \cup {0}, cmd : ByteVal, age : Nat, open : BOOLEAN]
      /\ ask'.addr = a /\ ask'.cmd = c
  BY BusBytes DEF MasterAsks
<1>3. UNCHANGED <<spokeAge, reported, sent>>
  BY DEF MasterAsks
<1> QED
  BY <1>1, <1>2, <1>3 DEF TypeInv, BusTypeOK

LEMMA SpeaksType ==
    ASSUME TypeInv, NEW f, Decodable(f), NEW news \in SUBSET (ByteVal \X ByteVal), ask.open,
           Speaks(f, news), sent' \in Seq(Event), Len(sent') <= LogSize
    PROVE  TypeInv'
<1>1. MonitorTypeOK'
  BY ProcessType DEF Speaks, TypeInv
<1> QED
  BY <1>1, SpokenType DEF TypeInv, BusTypeOK

LEMMA AnswersType ==
    ASSUME TypeInv, AnswersStatus \/ AnswersEvent \/ AnswersNoEvent \/ AnswersPlain
    PROVE  TypeInv'
<1>1. ask.open /\ ask.addr \in Devices
  BY DEF TypeInv, BusTypeOK, AnswersStatus, AnswersEvent, AnswersNoEvent, AnswersPlain,
     MayAnswer
<1>2. sent \in Seq(Event) /\ Len(sent) <= LogSize
  BY DEF TypeInv, BusTypeOK
<1>3. CASE AnswersStatus
  <2>1. PICK count \in ZoneCounts, status \in EventCodes :
          Speaks(StatusAnswer(ask.addr, count, status), {<<2, status>>}) /\ UNCHANGED sent
    BY <1>3 DEF AnswersStatus
  <2>2. {<<2, status>>} \in SUBSET (ByteVal \X ByteVal)
    BY BusBytes
  <2>3. Decodable(StatusAnswer(ask.addr, count, status))
    BY <1>1, BusBytes, AnswersDecodable
  <2> QED
    BY <1>1, <1>2, <2>1, <2>2, <2>3, SpeaksType
<1>4. CASE AnswersEvent
  <2>1. PICK code \in EventCodes, zone \in EventZones :
          /\ Speaks(EventAnswer(ask.addr, code, zone), {<<zone, code>>})
          /\ sent' = Recent(Append(sent, [addr |-> ask.addr, code |-> code, zone |-> zone]))
    BY <1>4 DEF AnswersEvent
  <2>2. {<<zone, code>>} \in SUBSET (ByteVal \X ByteVal)
    BY BusBytes
  <2>3. Decodable(EventAnswer(ask.addr, code, zone))
    BY <1>1, BusBytes, AnswersDecodable
  <2>4. [addr |-> ask.addr, code |-> code, zone |-> zone] \in Event
    BY <1>1, BusBytes DEF Event
  <2>5. sent' \in Seq(Event) /\ Len(sent') <= LogSize
    BY <1>2, <2>1, <2>4, RecentType
  <2> QED
    BY <1>1, <2>1, <2>2, <2>3, <2>5, SpeaksType
<1>5. CASE AnswersNoEvent
  <2>1. Decodable(NoEventAnswer(ask.addr))
    BY <1>1, BusBytes, AnswersDecodable
  <2>2. Speaks(NoEventAnswer(ask.addr), {}) /\ UNCHANGED sent
    BY <1>5 DEF AnswersNoEvent
  <2> QED
    BY <1>1, <1>2, <2>1, <2>2, SpeaksType
<1>6. CASE AnswersPlain
  <2>1. /\ Decodable(Answer(ask.addr, FALSE, << 6 >>))
        /\ Decodable(Answer(ask.addr, FALSE, <<DeviceType>>))
        /\ Decodable(Answer(ask.addr, FALSE, Version))
    BY <1>1, BusBytes, AnswersDecodable DEF Version
  <2>2. PICK f \in {Answer(ask.addr, FALSE, << 6 >>), Answer(ask.addr, FALSE, <<DeviceType>>),
                    Answer(ask.addr, FALSE, Version)} : Speaks(f, {}) /\ UNCHANGED sent
    BY <1>6 DEF AnswersPlain
  <2> QED
    BY <1>1, <1>2, <2>1, <2>2, SpeaksType
<1> QED
  BY <1>3, <1>4, <1>5, <1>6

\* The offline check and the clock change presence and ages only.
LEMMA CheckedDevs ==
    ASSUME MonitorTypeOK, CheckOfflineDevices
    PROVE  /\ devs' \in [Devices -> Device]
           /\ \A a \in Devices :
                /\ devs'[a].online <=> devs[a].online /\ devs[a].seenAge <= OfflineTimeout
                /\ devs'[a].seenAge = devs[a].seenAge /\ devs'[a].type = devs[a].type
                /\ devs'[a].version = devs[a].version /\ devs'[a].zones = devs[a].zones
<1>1. devs \in [Devices -> Device]
  BY DevsType
<1>2. ASSUME NEW a \in Devices
      PROVE  /\ devs'[a] \in Device
             /\ devs'[a].online <=> devs[a].online /\ devs[a].seenAge <= OfflineTimeout
             /\ devs'[a].seenAge = devs[a].seenAge /\ devs'[a].type = devs[a].type
             /\ devs'[a].version = devs[a].version /\ devs'[a].zones = devs[a].zones
  <2> DEFINE d == devs[a]
  <2>1. d \in Device /\ d.seenAge \in Nat
    BY <1>1, <1>2 DEF Device, Ages, SeenLimit
  <2>2. devs'[a] = IF d.online /\ d.seenAge > OfflineTimeout
                   THEN [d EXCEPT !.online = FALSE] ELSE d
    BY <1>2 DEF CheckOfflineDevices, Expired
  <2> HIDE DEF d
  <2>3. /\ devs'[a] \in Device
        /\ devs'[a].online <=> d.online /\ d.seenAge <= OfflineTimeout
        /\ devs'[a].seenAge = d.seenAge /\ devs'[a].type = d.type
        /\ devs'[a].version = d.version /\ devs'[a].zones = d.zones
    <3>1. CASE d.online /\ d.seenAge > OfflineTimeout
      <4> DEFINE o == [d EXCEPT !.online = FALSE]
      <4>1. o \in Device /\ ~o.online /\ o.seenAge = d.seenAge /\ o.type = d.type
            /\ o.version = d.version /\ o.zones = d.zones
        BY <2>1 DEF Device
      <4>2. devs'[a] = o /\ ~(d.seenAge <= OfflineTimeout)
        BY <2>1, <2>2, <3>1
      <4> HIDE DEF o
      <4> QED
        BY <4>1, <4>2
    <3>2. CASE ~(d.online /\ d.seenAge > OfflineTimeout)
      <4>1. devs'[a] = d /\ (d.online <=> d.online /\ d.seenAge <= OfflineTimeout)
        BY <2>1, <2>2, <3>2 DEF Device
      <4> QED
        BY <2>1, <4>1
    <3> QED
      BY <3>1, <3>2
  <2> QED
    BY <2>3 DEF d
<1>3. devs' = [a \in Devices |-> devs'[a]]
  BY DEF CheckOfflineDevices
<1> QED
  BY <1>2, <1>3

LEMMA TickedDevs ==
    ASSUME MonitorTypeOK, MonitorTick
    PROVE  /\ devs' \in [Devices -> Device]
           /\ \A a \in Devices :
                /\ devs'[a].seenAge = Aged(devs[a].seenAge, SeenLimit)
                /\ devs'[a].online <=> devs[a].online
                /\ devs'[a].type = devs[a].type
                /\ devs'[a].version = devs[a].version /\ devs'[a].zones = devs[a].zones
<1>1. devs \in [Devices -> Device]
  BY DevsType
<1>2. ASSUME NEW a \in Devices
      PROVE  /\ devs'[a] \in Device
             /\ devs'[a].seenAge = Aged(devs[a].seenAge, SeenLimit)
             /\ devs'[a].online <=> devs[a].online
             /\ devs'[a].type = devs[a].type
             /\ devs'[a].version = devs[a].version /\ devs'[a].zones = devs[a].zones
  <2> DEFINE d == devs[a]
             n == Aged(d.seenAge, SeenLimit)
  <2>1. d \in Device /\ n \in Ages
    BY <1>1, <1>2 DEF Device, Ages, SeenLimit, Aged
  <2>2. devs'[a] = [d EXCEPT !.seenAge = n]
    BY <1>2 DEF MonitorTick
  <2> HIDE DEF d, n
  <2>3. /\ devs'[a] \in Device /\ devs'[a].seenAge = n
        /\ devs'[a].online <=> d.online
        /\ devs'[a].type = d.type
        /\ devs'[a].version = d.version /\ devs'[a].zones = d.zones
    BY <2>1, <2>2 DEF Device
  <2> QED
    BY <2>3 DEF d, n
<1>3. devs' = [a \in Devices |-> devs'[a]]
  BY DEF MonitorTick
<1> QED
  BY <1>2, <1>3

LEMMA CheckType ==
    ASSUME TypeInv, PeriodicCheck
    PROVE  TypeInv'
<1>1. MonitorTypeOK'
  <2>1. devs' \in [Devices -> Device]
    BY CheckedDevs DEF TypeInv, PeriodicCheck
  <2>2. UNCHANGED <<lastRequest, events, eventHead, eventCount>> /\ checkAge' = 0
    BY DEF PeriodicCheck, CheckOfflineDevices
  <2>3. checkAge' \in 0..(CheckPeriod + 1)
    BY <2>2
  <2> QED
    BY <2>1, <2>2, <2>3, PartsOfType, TypeByPartsPrimed DEF TypeInv
<1>2. BusTypeOK'
  BY DEF TypeInv, PeriodicCheck, BusTypeOK, busVars
<1> QED
  BY <1>1, <1>2 DEF TypeInv

LEMMA TickType ==
    ASSUME TypeInv, Tick
    PROVE  TypeInv'
<1>1. MonitorTypeOK'
  <2>1. devs' \in [Devices -> Device]
    BY TickedDevs DEF TypeInv, Tick
  <2>2. lastRequest' \in [addr : Devices \cup {0}, cmd : ByteVal, age : 0..RespGap]
    <3> DEFINE n == Aged(lastRequest.age, RespGap)
    <3>1. lastRequest' = [lastRequest EXCEPT !.age = n]
      BY DEF Tick, MonitorTick
    <3>2. n \in 0..RespGap
      BY PartsOfType DEF TypeInv, Aged
    <3> HIDE DEF n
    <3> QED
      BY <3>1, <3>2, PartsOfType DEF TypeInv
  <2>3. checkAge' \in 0..(CheckPeriod + 1)
    <3>1. checkAge \in 0..(CheckPeriod + 1) /\ CheckPeriod \in Nat
      BY PartsOfType DEF TypeInv
    <3>2. checkAge' = Aged(checkAge, CheckPeriod + 1)
      BY DEF Tick, MonitorTick
    <3> QED
      BY <3>1, <3>2 DEF Aged
  <2>4. UNCHANGED <<events, eventHead, eventCount>>
    BY DEF Tick, MonitorTick
  <2> QED
    BY <2>1, <2>2, <2>3, <2>4, PartsOfType, TypeByPartsPrimed DEF TypeInv
<1>2. BusTypeOK'
  <2>1. ask' \in [addr : Devices \cup {0}, cmd : ByteVal, age : Nat, open : BOOLEAN]
        /\ ask'.addr = ask.addr /\ ask'.cmd = ask.cmd /\ ask'.open = ask.open
    <3> DEFINE n == Aged(ask.age, IF GiveUp > MinRepeat THEN GiveUp ELSE MinRepeat)
    <3>1. ask' = [ask EXCEPT !.age = n]
      BY DEF Tick
    <3>2. n \in Nat
      BY DEF TypeInv, BusTypeOK, Aged
    <3> HIDE DEF n
    <3> QED
      BY <3>1, <3>2 DEF TypeInv, BusTypeOK
  <2>2. spokeAge' \in [Devices -> 0..SpokeLimit]
    BY DEF TypeInv, BusTypeOK, Tick, Aged, SpokeLimit
  <2>3. UNCHANGED <<reported, sent>>
    BY DEF Tick
  <2> QED
    BY <2>1, <2>2, <2>3 DEF TypeInv, BusTypeOK
<1> QED
  BY <1>1, <1>2 DEF TypeInv

LEMMA StutterType ==
    ASSUME TypeInv, UNCHANGED vars
    PROVE  TypeInv'
BY DEF TypeInv, MonitorTypeOK, BusTypeOK, vars, monitorVars, busVars

\* The table, the ring and the last request keep their types whatever is on the bus: a
\* zone number out of range is dropped, the ring index stays in the ring and the count
\* stops at its size (orion_bus_monitor.cpp:153-316).
THEOREM MonitorTypeCorrect == Spec => []MonitorTypeOK
<1>1. TypeInv /\ [Next]_vars => TypeInv'
  BY AsksType, AnswersType, CheckType, TickType, StutterType DEF Next
<1> QED
  BY TypeInit, <1>1, PTL DEF Spec, TypeInv

-----------------------------------------------------------------------------
(* What the monitor takes each frame for, beside a patient C2000M.         *)

\* The last request the monitor heard is the last one the C2000M made, of the same age
\* up to the gap.
Linked ==
    /\ lastRequest.addr = ask.addr /\ lastRequest.cmd = ask.cmd
    /\ ask.addr \in Devices =>
         lastRequest.age = IF ask.age < RespGap THEN ask.age ELSE RespGap

\* A request changes nothing of the table and the log.
LEMMA RequestHeard ==
    ASSUME Patient, TypeInv, Linked, NEW a \in Devices, NEW c \in Queries, MasterAsks(a, c)
    PROVE  /\ lastRequest' = [addr |-> a, cmd |-> c, age |-> 0]
           /\ ask' = [addr |-> a, cmd |-> c, age |-> 0, open |-> TRUE]
           /\ UNCHANGED <<devs, events, eventHead, eventCount, checkAge, spokeAge, reported,
                          sent>>
<1> DEFINE f == Request(a, c)
<1>1. f.addr = a /\ f.body[1] = c
  BY RequestDecodable
<1> HIDE DEF f
<1>2. ~IsResponse(f)
  <2>1. CASE ask.addr = a
    <3>1. ask.age \in Nat /\ ~(ask.age < RespGap)
      BY <2>1 DEF MasterAsks, Patient, TypeInv, BusTypeOK
    <3>2. lastRequest.age = RespGap
      BY <2>1, <3>1 DEF Linked
    <3> QED
      BY <3>2 DEF IsResponse
  <2>2. CASE ask.addr # a
    BY <1>1, <2>2 DEF IsResponse, Linked
  <2> QED
    BY <2>1, <2>2
<1>3. ProcessPacket(f)
  BY DEF MasterAsks, f
<1> QED
  BY <1>1, <1>2, <1>3 DEF ProcessPacket, DecodeRequest, MasterAsks

\* An answer is decoded as an answer to the request it answers.
LEMMA AnswerTaken ==
    ASSUME TypeInv, Linked, NEW f, NEW news, NEW c, MayAnswer(c), f.addr = ask.addr,
           Speaks(f, news)
    PROVE  DecodeResponse(f) /\ lastRequest.cmd = c /\ UNCHANGED checkAge
<1>1. ask.addr \in Devices /\ ask.age \in Nat /\ ask.age < RespGap
  BY DEF TypeInv, BusTypeOK, MayAnswer
<1>2. IsResponse(f)
  BY <1>1 DEF Linked, IsResponse
<1> QED
  BY <1>2 DEF Speaks, ProcessPacket, Linked, MayAnswer

\* What an answer leaves in the row of its device.
Told(d) ==
    LET old == devs[ask.addr] IN
        /\ d.online /\ d.seenAge = 0
        /\ d.type \in {old.type, DeviceType} /\ d.version \in {old.version, Version}
        /\ \A z \in Zones : \/ d.zones[z] = old.zones[z]
                            \/ <<z, d.zones[z]>> \in reported'[ask.addr]
                            \/ AsksStatus

\* All an answer does: it refreshes the row of its device, and its event, if it has one,
\* is logged once.
AnswerHeard ==
    /\ ask.addr \in Devices
    /\ UNCHANGED <<lastRequest, checkAge>>
    /\ ask' = [ask EXCEPT !.open = FALSE]
    /\ spokeAge' = [spokeAge EXCEPT ![ask.addr] = 0]
    /\ \A b \in Devices : reported[b] \subseteq reported'[b]
    /\ \E d \in Device : Told(d) /\ devs' = [devs EXCEPT ![ask.addr] = d]
    /\ \/ UNCHANGED <<events, eventHead, eventCount, sent>>
       \/ \E e \in Event : LogEvent(e) /\ sent' = Recent(Append(sent, e))

\* The effects on the bus itself.
LEMMA SpokenOnBus ==
    ASSUME TypeInv, NEW f, NEW news, NEW c, MayAnswer(c), Speaks(f, news)
    PROVE  /\ ask.addr \in Devices
           /\ ask' = [ask EXCEPT !.open = FALSE]
           /\ spokeAge' = [spokeAge EXCEPT ![ask.addr] = 0]
           /\ \A b \in Devices : reported[b] \subseteq reported'[b]
           /\ news \subseteq reported'[ask.addr]
BY DEF TypeInv, BusTypeOK, Speaks, MayAnswer

\* The branches of decodeResponse.
LEMMA DecodedAs ==
    ASSUME NEW f
    PROVE  LET cmd == lastRequest.cmd
               s   == Seen(f.addr)
           IN  /\ f.encrypted /\ cmd = CMD_READ_STATUS /\ Len(f.body) >= 3
                    => Decoded(f) = WithStatus(s, f.body[2], f.body[3])
               /\ CarriesEvent(f) => Decoded(f) = WithStatus(s, f.body[2], f.body[1])
               /\ ~f.encrypted /\ cmd = CMD_READ_DEVICE_TYPE
                    => Decoded(f) = [s EXCEPT !.type = f.body[1]]
               /\ ~f.encrypted /\ cmd = CMD_READ_VERSION /\ Len(f.body) >= 2
                    => Decoded(f) = [s EXCEPT !.version = <<f.body[1], f.body[2]>>]
               /\ ~f.encrypted /\ cmd = CMD_PING => Decoded(f) = s
               /\ f.encrypted /\ cmd = CMD_READ_EVENT /\ ~CarriesEvent(f) => Decoded(f) = s
<1> DEFINE s == Seen(f.addr)
           two == <<f.body[1], f.body[2]>>
           one == f.body[1]
<1>1. Decoded(f) =
        CASE f.encrypted /\ lastRequest.cmd = CMD_READ_STATUS /\ Len(f.body) >= 3
               -> WithStatus(s, f.body[2], f.body[3])
          [] CarriesEvent(f)
               -> WithStatus(s, f.body[2], one)
          [] ~f.encrypted /\ lastRequest.cmd = CMD_READ_DEVICE_TYPE
               -> [s EXCEPT !.type = one]
          [] ~f.encrypted /\ lastRequest.cmd = CMD_READ_VERSION /\ Len(f.body) >= 2
               -> [s EXCEPT !.version = two]
          [] OTHER -> s
  BY Zenon DEF Decoded, Seen
<1>2. CarriesEvent(f) => f.encrypted /\ lastRequest.cmd = CMD_READ_EVENT
  BY DEF CarriesEvent
<1> HIDE DEF s, two, one
<1>3. /\ f.encrypted /\ lastRequest.cmd = CMD_READ_STATUS /\ Len(f.body) >= 3
           => Decoded(f) = WithStatus(s, f.body[2], f.body[3])
      /\ CarriesEvent(f) => Decoded(f) = WithStatus(s, f.body[2], one)
      /\ ~f.encrypted /\ lastRequest.cmd = CMD_READ_DEVICE_TYPE
           => Decoded(f) = [s EXCEPT !.type = one]
      /\ ~f.encrypted /\ lastRequest.cmd = CMD_READ_VERSION /\ Len(f.body) >= 2
           => Decoded(f) = [s EXCEPT !.version = two]
      /\ ~f.encrypted /\ lastRequest.cmd = CMD_PING => Decoded(f) = s
      /\ f.encrypted /\ lastRequest.cmd = CMD_READ_EVENT /\ ~CarriesEvent(f)
           => Decoded(f) = s
  BY <1>1, <1>2 DEF CMD_READ_STATUS, CMD_READ_EVENT, CMD_READ_DEVICE_TYPE, CMD_READ_VERSION,
     CMD_PING
<1> QED
  BY <1>3 DEF s, one, two

LEMMA StatusHeard ==
    ASSUME TypeInv, Linked, AnswersStatus
    PROVE  AnswerHeard
<1>1. PICK count \in ZoneCounts, status \in EventCodes :
        /\ MayAnswer(CMD_READ_STATUS)
        /\ Speaks(StatusAnswer(ask.addr, count, status), {<<2, status>>})
        /\ UNCHANGED sent
  BY DEF AnswersStatus
<1> DEFINE f == StatusAnswer(ask.addr, count, status)
           s == Seen(ask.addr)
           d == Decoded(f)
<1>2. f.addr = ask.addr /\ f.encrypted /\ Len(f.body) = 8 /\ f.body[2] = 2
      /\ f.body[3] = count
  BY DEF StatusAnswer, Answer
<1>3. Speaks(f, {<<2, status>>})
  BY <1>1
<1>4. /\ s \in Device /\ s.online /\ s.seenAge = 0 /\ s.type = devs[ask.addr].type
      /\ s.version = devs[ask.addr].version /\ s.zones = devs[ask.addr].zones
  BY <1>1, <1>3, SpokenOnBus, SeenDevice DEF TypeInv
<1> HIDE DEF f
<1>5. DecodeResponse(f) /\ lastRequest.cmd = CMD_READ_STATUS /\ UNCHANGED checkAge
  BY <1>1, <1>2, <1>3, AnswerTaken
<1>6. d = WithStatus(s, 2, count)
  BY <1>2, <1>5, DecodedAs
<1> HIDE DEF s, d
<1>7. d \in Device /\ Told(d)
  <2>1. d \in Device /\ Restated(d, s, 2, count)
    <3>1. s \in Device /\ 2 \in ByteVal /\ count \in ByteVal
      BY <1>1, <1>4, BusBytes
    <3> QED
      BY <1>6, <3>1, StatusType, StatusRestates
  <2>2. AsksStatus
    BY <1>1 DEF MayAnswer, AsksStatus, TypeInv, BusTypeOK
  <2> QED
    BY <1>4, <2>1, <2>2 DEF Told, Restated
<1>8. UNCHANGED <<events, eventHead, eventCount, lastRequest>>
      /\ devs' = [devs EXCEPT ![ask.addr] = d]
  <2>1. ~CarriesEvent(f)
    BY <1>5 DEF CarriesEvent, CMD_READ_STATUS, CMD_READ_EVENT
  <2> QED
    BY <1>2, <1>5, <2>1 DEF DecodeResponse, d
<1> QED
  BY <1>1, <1>3, <1>5, <1>7, <1>8, SpokenOnBus DEF AnswerHeard

LEMMA EventHeard ==
    ASSUME TypeInv, Linked, AnswersEvent
    PROVE  AnswerHeard
<1>1. PICK code \in EventCodes, zone \in EventZones :
        /\ MayAnswer(CMD_READ_EVENT)
        /\ Speaks(EventAnswer(ask.addr, code, zone), {<<zone, code>>})
        /\ sent' = Recent(Append(sent, [addr |-> ask.addr, code |-> code, zone |-> zone]))
  BY DEF AnswersEvent
<1> DEFINE f == EventAnswer(ask.addr, code, zone)
           s == Seen(ask.addr)
           d == Decoded(f)
           e == [addr |-> ask.addr, code |-> code, zone |-> zone]
<1>2. f.addr = ask.addr /\ f.encrypted /\ Len(f.body) = 4 /\ f.body[1] = code
      /\ f.body[2] = zone
  BY DEF EventAnswer, Answer
<1>3. Speaks(f, {<<zone, code>>}) /\ sent' = Recent(Append(sent, e))
  BY <1>1
<1>4. /\ s \in Device /\ s.online /\ s.seenAge = 0 /\ s.type = devs[ask.addr].type
      /\ s.version = devs[ask.addr].version /\ s.zones = devs[ask.addr].zones
  BY <1>1, <1>3, SpokenOnBus, SeenDevice DEF TypeInv
<1>5. e \in Event
  BY <1>1, <1>3, SpokenOnBus, BusBytes DEF Event
<1> HIDE DEF f
<1>6. DecodeResponse(f) /\ lastRequest.cmd = CMD_READ_EVENT /\ UNCHANGED checkAge
  BY <1>1, <1>2, <1>3, AnswerTaken
<1>7. CarriesEvent(f) /\ EventOf(f) = e
  <2>1. code # 0
    BY <1>1, BusAssumption
  <2> QED
    BY <1>2, <1>6, <2>1 DEF CarriesEvent, EventOf
<1>8. d = WithStatus(s, zone, code)
  BY <1>2, <1>7, DecodedAs
<1> HIDE DEF s, d, e
<1>9. d \in Device /\ Told(d)
  <2>1. d \in Device /\ Restated(d, s, zone, code)
    <3>1. s \in Device /\ zone \in ByteVal /\ code \in ByteVal
      BY <1>1, <1>4, BusBytes
    <3> QED
      BY <1>8, <3>1, StatusType, StatusRestates
  <2>2. <<zone, code>> \in reported'[ask.addr]
    BY <1>1, <1>3, SpokenOnBus
  <2> QED
    BY <1>4, <2>1, <2>2 DEF Told, Restated
<1>10. LogEvent(e) /\ UNCHANGED lastRequest /\ devs' = [devs EXCEPT ![ask.addr] = d]
  BY <1>2, <1>6, <1>7 DEF DecodeResponse, d
<1> QED
  BY <1>1, <1>3, <1>5, <1>6, <1>9, <1>10, SpokenOnBus DEF AnswerHeard

LEMMA NoEventHeard ==
    ASSUME TypeInv, Linked, AnswersNoEvent
    PROVE  AnswerHeard
<1> DEFINE f == NoEventAnswer(ask.addr)
           s == Seen(ask.addr)
<1>1. MayAnswer(CMD_READ_EVENT) /\ Speaks(f, {}) /\ UNCHANGED sent
  BY DEF AnswersNoEvent
<1>2. f.addr = ask.addr /\ f.encrypted /\ f.body[1] = 0
  BY DEF NoEventAnswer, Answer
<1>3. /\ s \in Device /\ s.online /\ s.seenAge = 0 /\ s.type = devs[ask.addr].type
      /\ s.version = devs[ask.addr].version /\ s.zones = devs[ask.addr].zones
  BY <1>1, SpokenOnBus, SeenDevice DEF TypeInv
<1> HIDE DEF f
<1>4. DecodeResponse(f) /\ lastRequest.cmd = CMD_READ_EVENT /\ UNCHANGED checkAge
  BY <1>1, <1>2, AnswerTaken
<1>5. ~CarriesEvent(f)
  BY <1>2 DEF CarriesEvent
<1>6. Decoded(f) = s
  BY <1>2, <1>4, <1>5, DecodedAs
<1>7. UNCHANGED <<events, eventHead, eventCount, lastRequest>>
      /\ devs' = [devs EXCEPT ![ask.addr] = s]
  BY <1>2, <1>4, <1>5, <1>6 DEF DecodeResponse
<1> HIDE DEF s
<1>8. Told(s)
  BY <1>3 DEF Told
<1> QED
  BY <1>1, <1>3, <1>4, <1>7, <1>8, SpokenOnBus DEF AnswerHeard

\* A plain answer to the command c, decoded as d.
LEMMA PlainTaken ==
    ASSUME TypeInv, Linked, NEW c, MayAnswer(c), NEW f, Speaks(f, {}), UNCHANGED sent,
           f.addr = ask.addr, ~f.encrypted, NEW d \in Device, Decoded(f) = d, Told(d)
    PROVE  AnswerHeard
<1>1. DecodeResponse(f) /\ lastRequest.cmd = c /\ UNCHANGED checkAge
  BY AnswerTaken
<1>2. ~CarriesEvent(f)
  BY DEF CarriesEvent
<1>3. UNCHANGED <<events, eventHead, eventCount, lastRequest>>
      /\ devs' = [devs EXCEPT ![ask.addr] = d]
  BY <1>1, <1>2 DEF DecodeResponse
<1> QED
  BY <1>1, <1>3, SpokenOnBus DEF AnswerHeard

LEMMA PlainHeard ==
    ASSUME TypeInv, Linked, AnswersPlain
    PROVE  AnswerHeard
<1> DEFINE s == Seen(ask.addr)
<1>1. ask.addr \in Devices /\ UNCHANGED sent
  BY DEF AnswersPlain, MayAnswer, TypeInv, BusTypeOK
<1>2. /\ s \in Device /\ s.online /\ s.seenAge = 0 /\ s.type = devs[ask.addr].type
      /\ s.version = devs[ask.addr].version /\ s.zones = devs[ask.addr].zones
  BY <1>1, SeenDevice DEF TypeInv
<1>3. ASSUME MayAnswer(CMD_PING), Speaks(Answer(ask.addr, FALSE, << 6 >>), {})
      PROVE  AnswerHeard
  <2> DEFINE f == Answer(ask.addr, FALSE, << 6 >>)
  <2>1. f.addr = ask.addr /\ ~f.encrypted /\ Speaks(f, {})
    BY <1>3 DEF Answer
  <2> HIDE DEF f
  <2>2. lastRequest.cmd = CMD_PING
    BY <1>3 DEF MayAnswer, Linked
  <2>3. Decoded(f) = s
    BY <2>1, <2>2, DecodedAs
  <2> HIDE DEF s
  <2>4. Told(s)
    BY <1>2 DEF Told
  <2> QED
    BY <1>1, <1>2, <1>3, <2>1, <2>3, <2>4, PlainTaken
<1>4. ASSUME MayAnswer(CMD_READ_DEVICE_TYPE),
             Speaks(Answer(ask.addr, FALSE, <<DeviceType>>), {})
      PROVE  AnswerHeard
  <2> DEFINE f == Answer(ask.addr, FALSE, <<DeviceType>>)
             d == [s EXCEPT !.type = DeviceType]
  <2>1. f.addr = ask.addr /\ ~f.encrypted /\ f.body[1] = DeviceType /\ Speaks(f, {})
    BY <1>4 DEF Answer
  <2> HIDE DEF f
  <2>2. lastRequest.cmd = CMD_READ_DEVICE_TYPE
    BY <1>4 DEF MayAnswer, Linked
  <2>3. Decoded(f) = d
    BY <2>1, <2>2, DecodedAs
  <2> HIDE DEF s
  <2>4. d \in Device /\ d.online /\ d.seenAge = s.seenAge /\ d.type = DeviceType
        /\ d.version = s.version /\ d.zones = s.zones
    BY <1>2, BusBytes DEF Device
  <2> HIDE DEF d
  <2>5. Told(d)
    BY <1>2, <2>4 DEF Told
  <2> QED
    BY <1>1, <1>4, <2>1, <2>3, <2>4, <2>5, PlainTaken
<1>5. ASSUME MayAnswer(CMD_READ_VERSION), Speaks(Answer(ask.addr, FALSE, Version), {})
      PROVE  AnswerHeard
  <2> DEFINE f == Answer(ask.addr, FALSE, Version)
             d == [s EXCEPT !.version = Version]
  <2>1. f.addr = ask.addr /\ ~f.encrypted /\ Speaks(f, {}) /\ Len(f.body) >= 2
        /\ <<f.body[1], f.body[2]>> = Version
    BY <1>5 DEF Answer, Version
  <2> HIDE DEF f
  <2>2. lastRequest.cmd = CMD_READ_VERSION
    BY <1>5 DEF MayAnswer, Linked
  <2>3. Decoded(f) = d
    BY <2>1, <2>2, DecodedAs
  <2> HIDE DEF s
  <2>4. Version \in Versions
    BY BusBytes DEF Version, Versions
  <2>5. d \in Device /\ d.online /\ d.seenAge = s.seenAge /\ d.type = s.type
        /\ d.version = Version /\ d.zones = s.zones
    BY <1>2, <2>4 DEF Device
  <2> HIDE DEF d
  <2>6. Told(d)
    BY <1>2, <2>5 DEF Told
  <2> QED
    BY <1>1, <1>5, <2>1, <2>3, <2>5, <2>6, PlainTaken
<1> QED
  BY <1>3, <1>4, <1>5 DEF AnswersPlain

\* Every step is a request, an answer, a check, a tick or none.
LEMMA StepHeard ==
    ASSUME TypeInv, Linked, [Next]_vars
    PROVE  \/ \E a \in Devices, c \in Queries : MasterAsks(a, c)
           \/ AnswerHeard
           \/ PeriodicCheck
           \/ Tick
           \/ UNCHANGED vars
BY StatusHeard, EventHeard, NoEventHeard, PlainHeard DEF Next

LEMMA LinkedStep ==
    ASSUME Patient, TypeInv, Linked, [Next]_vars
    PROVE  Linked'
<1>1. ASSUME NEW a \in Devices, NEW c \in Queries, MasterAsks(a, c)
      PROVE  Linked'
  BY <1>1, RequestHeard DEF Linked
<1>2. CASE AnswerHeard
  <2>1. ask'.addr = ask.addr /\ ask'.cmd = ask.cmd /\ ask'.age = ask.age
    BY <1>2 DEF AnswerHeard, TypeInv, BusTypeOK
  <2> QED
    BY <1>2, <2>1 DEF AnswerHeard, Linked
<1>3. CASE PeriodicCheck
  BY <1>3 DEF PeriodicCheck, CheckOfflineDevices, busVars, Linked
<1>4. CASE Tick
  <2> DEFINE limit == IF GiveUp > MinRepeat THEN GiveUp ELSE MinRepeat
  <2>1. /\ ask'.addr = ask.addr /\ ask'.cmd = ask.cmd /\ ask'.age = Aged(ask.age, limit)
    BY <1>4 DEF Tick, TypeInv, BusTypeOK
  <2>2. /\ lastRequest'.addr = lastRequest.addr /\ lastRequest'.cmd = lastRequest.cmd
        /\ lastRequest'.age = Aged(lastRequest.age, RespGap)
    BY <1>4 DEF Tick, MonitorTick, TypeInv, MonitorTypeOK
  <2>3. limit \in Nat /\ limit >= RespGap
    BY DEF Patient
  <2>4. ask.age \in Nat /\ lastRequest.age \in 0..RespGap
    BY DEF TypeInv, BusTypeOK, MonitorTypeOK
  <2> HIDE DEF limit
  <2> QED
    BY <2>1, <2>2, <2>3, <2>4 DEF Linked, Aged
<1>5. CASE UNCHANGED vars
  BY <1>5 DEF vars, monitorVars, busVars, Linked
<1> QED
  BY <1>1, <1>2, <1>3, <1>4, <1>5, StepHeard

LEMMA LinkedInit == Init => Linked
BY MonitorAssumption DEF Init, MonitorInit, Linked

-----------------------------------------------------------------------------
(* Presence.                                                               *)

\* The table's age of a device is the real one up to the limit, a device younger than the
\* timeout is online, and an online one is late by no more than the age of the check.
Present(a) ==
    /\ devs[a].seenAge = IF spokeAge[a] < SeenLimit THEN spokeAge[a] ELSE SeenLimit
    /\ spokeAge[a] <= OfflineTimeout => devs[a].online
    /\ devs[a].online => spokeAge[a] <= OfflineTimeout + checkAge

PresenceInv == \A a \in Devices : Present(a)

LEMMA PresenceInit == Init => PresenceInv
BY DEF Init, MonitorInit, PresenceInv, Present, UnknownDevice, SpokeLimit, SeenLimit

LEMMA Numbers ==
    ASSUME TypeInv, NEW a \in Devices
    PROVE  /\ devs[a].seenAge \in Nat /\ spokeAge[a] \in Nat /\ spokeAge[a] <= SpokeLimit
           /\ checkAge \in Nat /\ checkAge <= CheckPeriod + 1
           /\ devs[a] \in Device
<1>1. devs[a] \in Device
  BY DevsType DEF TypeInv
<1> QED
  BY <1>1 DEF TypeInv, BusTypeOK, MonitorTypeOK, Device, Ages, SeenLimit, SpokeLimit

LEMMA PresenceStep ==
    ASSUME Patient, TypeInv, Linked, PresenceInv, [Next]_vars
    PROVE  PresenceInv'
<1> SUFFICES ASSUME NEW a \in Devices PROVE Present(a)'
  BY DEF PresenceInv
<1>0. Present(a)
  BY DEF PresenceInv
<1>1. ASSUME NEW b \in Devices, NEW c \in Queries, MasterAsks(b, c)
      PROVE  Present(a)'
  BY <1>0, <1>1, RequestHeard DEF Present
<1>2. CASE AnswerHeard
  <2>1. PICK d \in Device : Told(d) /\ devs' = [devs EXCEPT ![ask.addr] = d]
    BY <1>2 DEF AnswerHeard
  <2>2. spokeAge' = [spokeAge EXCEPT ![ask.addr] = 0] /\ checkAge' = checkAge
    BY <1>2 DEF AnswerHeard
  <2>3. spokeAge \in [Devices -> 0..SpokeLimit] /\ devs \in [Devices -> Device]
    BY DevsType DEF TypeInv, BusTypeOK
  <2>4. CASE a = ask.addr
    <3>1. devs'[a] = d /\ spokeAge'[a] = 0 /\ d.online /\ d.seenAge = 0
      BY <2>1, <2>2, <2>3, <2>4 DEF Told
    <3> QED
      BY <2>2, <3>1, Numbers DEF Present, SeenLimit
  <2>5. CASE a # ask.addr
    <3>1. devs'[a] = devs[a] /\ spokeAge'[a] = spokeAge[a]
      BY <2>1, <2>2, <2>3, <2>5
    <3> QED
      BY <1>0, <2>2, <3>1 DEF Present
  <2> QED
    BY <2>4, <2>5
<1>3. CASE PeriodicCheck
  <2>1. /\ devs'[a].online <=> devs[a].online /\ devs[a].seenAge <= OfflineTimeout
        /\ devs'[a].seenAge = devs[a].seenAge
    BY <1>3, CheckedDevs DEF PeriodicCheck, TypeInv
  <2>2. spokeAge' = spokeAge /\ checkAge' = 0
    BY <1>3 DEF PeriodicCheck, CheckOfflineDevices, busVars
  <2> QED
    BY <1>0, <2>1, <2>2, Numbers DEF Present, SeenLimit
<1>4. CASE Tick
  <2>1. /\ devs'[a].seenAge = Aged(devs[a].seenAge, SeenLimit)
        /\ devs'[a].online <=> devs[a].online
    BY <1>4, TickedDevs DEF Tick, TypeInv
  <2>2. spokeAge'[a] = Aged(spokeAge[a], SpokeLimit)
    BY <1>4 DEF Tick
  <2>3. checkAge <= CheckPeriod /\ checkAge' = checkAge + 1
    BY <1>4 DEF Tick, MonitorTick, Aged, TypeInv, MonitorTypeOK
  <2> QED
    BY <1>0, <2>1, <2>2, <2>3, Numbers DEF Present, SeenLimit, SpokeLimit, Aged
<1>5. CASE UNCHANGED vars
  BY <1>0, <1>5 DEF Present, vars, monitorVars, busVars
<1> QED
  BY <1>1, <1>2, <1>3, <1>4, <1>5, StepHeard

\* With the table of the right type and requests told from answers, presence follows.
LEMMA PresenceFollows == TypeInv /\ PresenceInv => PresenceTracksAnswers
<1> SUFFICES ASSUME TypeInv, PresenceInv, NEW a \in Devices
             PROVE  /\ spokeAge[a] <= OfflineTimeout => devs[a].online
                    /\ devs[a].online => spokeAge[a] <= OfflineTimeout + CheckPeriod + 1
  BY DEF PresenceTracksAnswers
<1>1. Present(a)
  BY DEF PresenceInv
<1> QED
  BY <1>1, Numbers DEF Present

-----------------------------------------------------------------------------
(* Identity and zones.                                                     *)

TableInv == IdentityAsAnswered /\ (AsksStatus \/ ZonesAsReported)

LEMMA TableInit == Init => TableInv
BY DEF Init, MonitorInit, TableInv, IdentityAsAnswered, ZonesAsReported, UnknownDevice

\* What the identity fields and the zones of one row may be.
Backed(a) ==
    /\ devs[a].type \in {0, DeviceType} /\ devs[a].version \in {<<0, 0>>, Version}
    /\ \A z \in Zones : \/ devs[a].zones[z] = 0
                        \/ <<z, devs[a].zones[z]>> \in reported[a]
                        \/ AsksStatus

LEMMA TableByRows == TableInv <=> \A a \in Devices : Backed(a)
BY DEF TableInv, IdentityAsAnswered, ZonesAsReported, Backed

LEMMA TableStep ==
    ASSUME Patient, TypeInv, Linked, \A a \in Devices : Backed(a), [Next]_vars
    PROVE  \A a \in Devices : Backed(a)'
<1> SUFFICES ASSUME NEW a \in Devices PROVE Backed(a)'
  OBVIOUS
<1>0. Backed(a)
  OBVIOUS
<1>1. ASSUME NEW b \in Devices, NEW c \in Queries, MasterAsks(b, c)
      PROVE  Backed(a)'
  BY <1>0, <1>1, RequestHeard DEF Backed
<1>2. CASE AnswerHeard
  <2>1. PICK d \in Device : Told(d) /\ devs' = [devs EXCEPT ![ask.addr] = d]
    BY <1>2 DEF AnswerHeard
  <2>2. reported[a] \subseteq reported'[a]
    BY <1>2 DEF AnswerHeard
  <2>3. devs \in [Devices -> Device]
    BY DevsType DEF TypeInv
  <2>4. CASE a = ask.addr
    <3>1. devs'[a] = d
      BY <2>1, <2>3, <2>4
    <3>2. d.type \in {0, DeviceType} /\ d.version \in {<<0, 0>>, Version}
      BY <1>0, <2>1, <2>4 DEF Backed, Told
    <3>3. ASSUME NEW z \in Zones
          PROVE  d.zones[z] = 0 \/ <<z, d.zones[z]>> \in reported'[a] \/ AsksStatus
      <4> DEFINE w == d.zones[z]
                 v == devs[a].zones[z]
      <4>1. v = 0 \/ <<z, v>> \in reported[a] \/ AsksStatus
        BY <1>0, <3>3 DEF Backed
      <4>2. w = v \/ <<z, w>> \in reported'[a] \/ AsksStatus
        BY <2>1, <2>4, <3>3 DEF Told
      <4> HIDE DEF v, w
      <4>3. w = 0 \/ <<z, w>> \in reported'[a] \/ AsksStatus
        BY <2>2, <4>1, <4>2
      <4> QED
        BY <4>3 DEF w
    <3> QED
      BY <3>1, <3>2, <3>3 DEF Backed
  <2>5. CASE a # ask.addr
    <3>1. devs'[a] = devs[a]
      BY <2>1, <2>3, <2>5
    <3> QED
      BY <1>0, <2>2, <3>1 DEF Backed
  <2> QED
    BY <2>4, <2>5
<1>3. CASE PeriodicCheck
  <2>1. /\ devs'[a].type = devs[a].type /\ devs'[a].version = devs[a].version
        /\ devs'[a].zones = devs[a].zones
    BY <1>3, CheckedDevs DEF PeriodicCheck, TypeInv
  <2>2. reported' = reported
    BY <1>3 DEF PeriodicCheck, busVars
  <2> QED
    BY <1>0, <2>1, <2>2 DEF Backed
<1>4. CASE Tick
  <2>1. /\ devs'[a].type = devs[a].type /\ devs'[a].version = devs[a].version
        /\ devs'[a].zones = devs[a].zones
    BY <1>4, TickedDevs DEF Tick, TypeInv
  <2>2. reported' = reported
    BY <1>4 DEF Tick
  <2> QED
    BY <1>0, <2>1, <2>2 DEF Backed
<1>5. CASE UNCHANGED vars
  BY <1>0, <1>5 DEF Backed, vars, monitorVars, busVars
<1> QED
  BY <1>1, <1>2, <1>3, <1>4, <1>5, StepHeard

-----------------------------------------------------------------------------
(* The log.                                                                *)

Slots == 0..(LogSize - 1)

\* The slot k places after slot a, without the modulus.
Ahead(a, k) == IF a + k < LogSize THEN a + k ELSE a + k - LogSize

LEMMA AheadIsMod ==
    ASSUME NEW a \in Slots, NEW k \in 0..LogSize
    PROVE  (a + k) % LogSize = Ahead(a, k) /\ Ahead(a, k) \in Slots
<1>1. Ahead(a, k) \in Slots
  BY DEF Ahead, Slots
<1>2. CASE a + k < LogSize
  <2>1. (a + k) % LogSize = a + k
    BY <1>2 DEF Slots
  <2> QED
    BY <1>1, <1>2, <2>1 DEF Ahead
<1>3. CASE a + k >= LogSize
  <2>1. (a + k) % LogSize = a + k - LogSize
    BY <1>3 DEF Slots
  <2> QED
    BY <1>1, <1>3, <2>1 DEF Ahead, Slots
<1> QED
  BY <1>2, <1>3 DEF Slots

\* The oldest event is in slot 0 until the ring is full, and in the head slot from then on.
Oldest == IF eventCount < LogSize THEN 0 ELSE eventHead

RingTypeOK ==
    /\ events \in [Slots -> Event]
    /\ eventHead \in Slots /\ eventCount \in 0..LogSize

\* The ring holds what was sent, and the head is the slot after the newest event.
LogInv ==
    /\ eventHead = Ahead(Oldest, eventCount)
    /\ Len(sent) = eventCount
    /\ \A i \in 1..eventCount : sent[i] = events[Ahead(Oldest, i - 1)]

LEMMA RingTyped == TypeInv => RingTypeOK
BY DEF TypeInv, MonitorTypeOK, RingTypeOK, Slots, Event, ByteVal

LEMMA LogInit == Init => LogInv
BY DEF Init, MonitorInit, LogInv, Oldest, Ahead

LEMMA LogFollows ==
    ASSUME TypeInv, LogInv
    PROVE  LogListsLatestEvents
<1>1. RingTypeOK
  BY RingTyped
<1>2. sent \in Seq(Event)
  BY DEF TypeInv, BusTypeOK
<1>3. ASSUME NEW i \in 1..eventCount
      PROVE  EventLog[i] = sent[i]
  <2>1. i - 1 \in 0..LogSize /\ eventHead \in Slots /\ i - 1 < LogSize
    BY <1>1 DEF RingTypeOK
  <2>2. EventLog[i] = GetEvent(i - 1)
    BY DEF EventLog
  <2>3. sent[i] = events[Ahead(Oldest, i - 1)]
    BY DEF LogInv
  <2>4. CASE eventCount < LogSize
    <3>1. Ahead(Oldest, i - 1) = i - 1
      BY <2>1, <2>4 DEF Ahead, Oldest
    <3> QED
      BY <2>2, <2>3, <2>4, <3>1 DEF GetEvent
  <2>5. CASE ~(eventCount < LogSize)
    <3>1. (eventHead + (i - 1)) % LogSize = Ahead(Oldest, i - 1)
      BY <2>1, <2>5, AheadIsMod DEF Oldest
    <3> QED
      BY <2>2, <2>3, <2>5, <3>1 DEF GetEvent
  <2> QED
    BY <2>4, <2>5
<1>4. DOMAIN EventLog = 1..eventCount /\ EventLog = [i \in 1..eventCount |-> EventLog[i]]
  BY DEF EventLog
<1>5. Len(sent) = eventCount
  BY DEF LogInv
<1>6. sent = [i \in 1..eventCount |-> sent[i]]
  BY <1>2, <1>5
<1> QED
  BY <1>3, <1>4, <1>6 DEF LogListsLatestEvents

\* Logging an event appends it and drops the oldest one when the ring is full.
LEMMA LogAppends ==
    ASSUME TypeInv, LogInv, NEW e \in Event, LogEvent(e), sent' = Recent(Append(sent, e))
    PROVE  LogInv'
<1>1. events \in [Slots -> Event] /\ eventHead \in Slots /\ eventCount \in 0..LogSize
  BY RingTyped DEF RingTypeOK
<1>2. sent \in Seq(Event) /\ Len(sent) = eventCount /\ Len(sent) <= LogSize
  BY DEF TypeInv, BusTypeOK, LogInv
<1>3. /\ events' = [events EXCEPT ![eventHead] = e]
      /\ eventCount' = IF eventCount < LogSize THEN eventCount + 1 ELSE eventCount
  BY DEF LogEvent
<1>4. eventHead' = Ahead(eventHead, 1)
  BY <1>1, AheadIsMod DEF LogEvent
<1>5. CASE eventCount < LogSize
  <2>1. eventHead = eventCount /\ \A i \in 1..eventCount : sent[i] = events[i - 1]
    BY <1>1, <1>5 DEF LogInv, Oldest, Ahead
  <2>2. Oldest' = 0
    BY <1>1, <1>3, <1>4, <1>5, <2>1 DEF Oldest, Ahead
  <2>3. sent' = Append(sent, e)
    BY <1>2, <1>5, RecentType
  <2>4. Len(sent') = eventCount' /\ eventHead' = Ahead(0, eventCount')
    BY <1>1, <1>2, <1>3, <1>4, <1>5, <2>1, <2>3 DEF Ahead
  <2>5. ASSUME NEW i \in 1..eventCount'
        PROVE  sent'[i] = events'[Ahead(0, i - 1)]
    <3>1. Ahead(0, i - 1) = i - 1 /\ i - 1 \in Slots
      BY <1>1, <1>3, <1>5 DEF Ahead, Slots
    <3>2. CASE i = eventCount + 1
      <4>1. sent'[i] = e
        BY <1>2, <2>3, <3>2
      <4>2. events'[i - 1] = e
        BY <1>1, <1>3, <2>1, <3>2
      <4> QED
        BY <3>1, <4>1, <4>2
    <3>3. CASE i \in 1..eventCount
      <4>1. sent'[i] = sent[i]
        BY <1>2, <2>3, <3>3
      <4>2. events'[i - 1] = events[i - 1]
        BY <1>1, <1>3, <2>1, <3>1, <3>3
      <4> QED
        BY <2>1, <3>1, <3>3, <4>1, <4>2
    <3> QED
      BY <1>1, <1>3, <1>5, <3>2, <3>3
  <2> QED
    BY <2>2, <2>4, <2>5 DEF LogInv
<1>6. CASE eventCount = LogSize
  <2>1. Oldest = eventHead /\ Oldest' = eventHead' /\ eventCount' = LogSize
    BY <1>3, <1>6 DEF Oldest
  <2>2. eventHead' \in Slots /\ eventHead' = Ahead(eventHead', LogSize)
    BY <1>1, <1>4 DEF Ahead, Slots
  <2>3. /\ Len(sent') = LogSize /\ sent'[LogSize] = e
        /\ \A i \in 1..(LogSize - 1) : sent'[i] = sent[i + 1]
    BY <1>2, <1>6, RecentShifts
  <2>4. ASSUME NEW i \in 1..LogSize
        PROVE  sent'[i] = events'[Ahead(eventHead', i - 1)]
    <3>1. CASE i = LogSize
      <4>1. Ahead(eventHead', i - 1) = eventHead
        BY <1>1, <1>4, <3>1 DEF Ahead, Slots
      <4> QED
        BY <1>1, <1>3, <2>3, <3>1, <4>1
    <3>2. CASE i \in 1..(LogSize - 1)
      <4>1. /\ Ahead(eventHead', i - 1) = Ahead(eventHead, i)
            /\ Ahead(eventHead, i) \in Slots /\ Ahead(eventHead, i) # eventHead
        BY <1>1, <1>4, <3>2 DEF Ahead, Slots
      <4>2. events'[Ahead(eventHead, i)] = events[Ahead(eventHead, i)]
        BY <1>1, <1>3, <4>1
      <4>3. sent[i + 1] = events[Ahead(eventHead, i)]
        <5>1. i + 1 \in 1..eventCount /\ (i + 1) - 1 = i
          BY <1>6, <3>2
        <5> QED
          BY <2>1, <5>1 DEF LogInv
      <4> QED
        BY <2>3, <3>2, <4>1, <4>2, <4>3
    <3> QED
      BY <3>1, <3>2
  <2> QED
    BY <2>1, <2>2, <2>3, <2>4 DEF LogInv
<1> QED
  BY <1>1, <1>5, <1>6

LEMMA LogStep ==
    ASSUME Patient, TypeInv, Linked, LogInv, [Next]_vars
    PROVE  LogInv'
<1>1. ASSUME UNCHANGED <<events, eventHead, eventCount, sent>>
      PROVE  LogInv'
  BY <1>1 DEF LogInv, Oldest
<1>2. ASSUME NEW a \in Devices, NEW c \in Queries, MasterAsks(a, c)
      PROVE  LogInv'
  BY <1>1, <1>2, RequestHeard
<1>3. CASE AnswerHeard
  BY <1>1, <1>3, LogAppends DEF AnswerHeard
<1>4. CASE PeriodicCheck
  BY <1>1, <1>4 DEF PeriodicCheck, CheckOfflineDevices, busVars
<1>5. CASE Tick
  BY <1>1, <1>5 DEF Tick, MonitorTick
<1>6. CASE UNCHANGED vars
  BY <1>1, <1>6 DEF vars, monitorVars, busVars
<1> QED
  BY <1>2, <1>3, <1>4, <1>5, <1>6, StepHeard

-----------------------------------------------------------------------------
(* What the monitor may be relied on for, beside a patient C2000M.         *)

\* The inductive invariant: types, Linked, and what presence, table and log keep.
Inv == TypeInv /\ Linked /\ PresenceInv /\ TableInv /\ LogInv

LEMMA InvStep ==
    ASSUME Patient, Inv, [Next]_vars
    PROVE  Inv'
<1>1. TypeInv'
  BY AsksType, AnswersType, CheckType, TickType, StutterType DEF Next, Inv
<1>2. Linked' /\ PresenceInv' /\ LogInv'
  BY LinkedStep, PresenceStep, LogStep DEF Inv
<1>3. TableInv'
  <2>1. \A a \in Devices : Backed(a)'
    BY TableStep, TableByRows DEF Inv
  <2> QED
    BY <2>1 DEF TableInv, IdentityAsAnswered, ZonesAsReported, Backed
<1> QED
  BY <1>1, <1>2, <1>3 DEF Inv

\* The inductive invariant holds: as long as no request is repeated within the gap, the
\* monitor tells requests from answers (orion_bus_monitor.cpp:153-187).
THEOREM InvHolds ==
    ASSUME Patient
    PROVE  Spec => []Inv
<1>1. Init => Inv
  BY TypeInit, LinkedInit, PresenceInit, TableInit, LogInit DEF Inv
<1>2. Inv /\ [Next]_vars => Inv'
  BY InvStep
<1> QED
  BY <1>1, <1>2, PTL DEF Spec

\* Presence is what the devices do: a device that spoke within the timeout is online, and
\* one that fell silent is offline one check after the timeout, whatever the others answer
\* (orion_bus_monitor.cpp:235-241, 373-384).
THEOREM PresenceCorrect ==
    ASSUME Patient
    PROVE  Spec => []PresenceTracksAnswers
<1>1. Inv => PresenceTracksAnswers
  BY PresenceFollows DEF Inv
<1> QED
  BY InvHolds, <1>1, PTL

\* The ring lists the latest events the devices sent, each once, oldest first, for every
\* size of the ring and however often it has wrapped (orion_bus_monitor.cpp:289-316).
THEOREM LogCorrect ==
    ASSUME Patient
    PROVE  Spec => []LogListsLatestEvents
<1>1. Inv => LogListsLatestEvents
  BY LogFollows DEF Inv
<1> QED
  BY InvHolds, <1>1, PTL

\* The type and the version of a device are what identity queries returned, or unknown: no
\* byte of another answer ends there (orion_bus_monitor.cpp:230-314).
THEOREM IdentityCorrect ==
    ASSUME Patient
    PROVE  Spec => []IdentityAsAnswered
<1>1. Inv => IdentityAsAnswered
  BY DEF Inv, TableInv
<1> QED
  BY InvHolds, <1>1, PTL

\* Where the C2000M reads events only, the status of a zone is one its device reported for
\* it: the misreading of status answers is the only thing that puts a wrong status into the
\* table (orion_bus_monitor.cpp:267-276, 332-353).
THEOREM EventsKeepZones ==
    ASSUME Patient, ~AsksStatus
    PROVE  Spec => []ZonesAsReported
<1>1. Inv => ZonesAsReported
  BY DEF Inv, TableInv
<1> QED
  BY InvHolds, <1>1, PTL
=============================================================================
