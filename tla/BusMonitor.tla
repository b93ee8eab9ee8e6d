----------------------------- MODULE BusMonitor -----------------------------
(***************************************************************************)
(* The class OrionBusMonitor of the ESP32 gateway: it listens to the bus,  *)
(* guesses which frames are requests and which are answers, and keeps a    *)
(* table of devices and a ring of the events it has seen.                  *)
(*                                                                         *)
(* A frame is what processPacket works on after the CRC check and the      *)
(* decryption with the right key: an address and a body of bytes, the key  *)
(* byte of an encrypted frame left out.  The sender "from" is known to the *)
(* bus only: no definition of the monitor reads it.  Times are ages in     *)
(* ticks, saturated where the code stops telling them apart.               *)
(***************************************************************************)
EXTENDS Clock, Sequences

CONSTANTS
    Devices,          \* addresses on the bus, a subset of 1..127
    MaxZones,         \* ORION_MAX_ZONES_PER_DEV
    LogSize,          \* ORION_EVENT_LOG_SIZE
    RespGap,          \* REQUEST_RESPONSE_GAP_MS, in ticks
    OfflineTimeout,   \* DEFAULT_OFFLINE_MS, in ticks
    CheckPeriod       \* the 5 s between two offline checks, in ticks

ASSUME MonitorAssumption ==
    /\ Devices \subseteq 1..127
    /\ MaxZones \in 1..255
    /\ LogSize \in Nat \ {0}
    /\ RespGap \in Nat \ {0}
    /\ OfflineTimeout \in Nat \ {0}
    /\ CheckPeriod \in Nat

VARIABLES
    lastRequest,   \* _last_request_addr, _last_request_cmd and the age of
                   \* _last_request_time
    devs,          \* _devices
    events,        \* _events: slots 0..LogSize-1
    eventHead,     \* _event_head
    eventCount,    \* _event_count
    checkAge       \* age of the static last_offline_check

monitorVars == <<lastRequest, devs, events, eventHead, eventCount, checkAge>>

-----------------------------------------------------------------------------

CMD_PING             == 1      \* 0x01
CMD_READ_DEVICE_TYPE == 6      \* 0x06
CMD_READ_VERSION     == 7      \* 0x07
CMD_READ_EVENT       == 32     \* 0x20
CMD_READ_STATUS      == 87     \* 0x57

Zones     == 1..MaxZones
NoEvent   == [addr |-> 0, code |-> 0, zone |-> 0]
SeenLimit == OfflineTimeout + 1

UnknownDevice ==
    [online |-> FALSE, seenAge |-> SeenLimit, type |-> 0, version |-> <<0, 0>>,
     zones |-> [z \in Zones |-> 0], zoneCount |-> 0]

MonitorTypeOK ==
    /\ lastRequest \in [addr : Devices \cup {0}, cmd : 0..255, age : 0..RespGap]
    /\ devs \in [Devices -> [online : BOOLEAN, seenAge : 0..SeenLimit,
                             type : 0..255, version : (0..255) \X (0..255),
                             zones : [Zones -> 0..255], zoneCount : 0..MaxZones]]
    /\ events \in [0..(LogSize - 1) -> [addr : Devices \cup {0}, code : 0..255,
                                        zone : 0..255]]
    /\ eventHead \in 0..(LogSize - 1)
    /\ eventCount \in 0..LogSize
    /\ checkAge \in 0..(CheckPeriod + 1)

MonitorInit ==
    /\ lastRequest = [addr |-> 0, cmd |-> 0, age |-> RespGap]
    /\ devs = [a \in Devices |-> UnknownDevice]
    /\ events = [i \in 0..(LogSize - 1) |-> NoEvent]
    /\ eventHead = 0
    /\ eventCount = 0
    /\ checkAge = 0

-----------------------------------------------------------------------------
(* processPacket: request or answer?                                       *)

IsResponse(f) ==
    /\ lastRequest.addr = f.addr
    /\ lastRequest.age < RespGap

DecodeRequestForgetful(f) ==                                 \* faulty variant
    /\ lastRequest' = [addr |-> f.addr, age |-> 0,
                       cmd |-> IF f.addr = lastRequest.addr THEN lastRequest.cmd
                                                            ELSE f.body[1]]
    /\ UNCHANGED <<devs, events, eventHead, eventCount>>

\* decodeRequest: the command byte is the first one after decryption.
DecodeRequest(f) ==
    /\ lastRequest' = [addr |-> f.addr, cmd |-> f.body[1], age |-> 0]
    /\ UNCHANGED <<devs, events, eventHead, eventCount>>

\* updateDeviceStatus on one row of the table.
WithStatus(dev, zone, status) ==
    IF zone \in Zones /\ dev.zones[zone] # status
    THEN [dev EXCEPT !.zones[zone] = status,
                     !.zoneCount = IF zone > @ THEN zone ELSE @]
    ELSE dev

LogEventUncapped(e) ==                                       \* faulty variant
    /\ events' = [events EXCEPT ![eventHead] = e]
    /\ eventHead' = (eventHead + 1) % LogSize
    /\ eventCount' = eventCount + 1

LogEvent(e) ==
    /\ events' = [events EXCEPT ![eventHead] = e]
    /\ eventHead' = (eventHead + 1) % LogSize
    /\ eventCount' = IF eventCount < LogSize THEN eventCount + 1 ELSE eventCount

\* The body of an answer to READ_EVENT that carries an event.
CarriesEvent(f) ==
    /\ f.encrypted /\ lastRequest.cmd = CMD_READ_EVENT
    /\ Len(f.body) >= 2 /\ f.body[1] # 0

EventOf(f) == [addr |-> f.addr, code |-> f.body[1], zone |-> f.body[2]]

\* decodeResponse: what the answer tells of the device that is taken to have
\* sent it, by the command of the last request.
Decoded(f) ==
    LET seen == [devs[f.addr] EXCEPT !.online = TRUE, !.seenAge = 0]
        cmd  == lastRequest.cmd
        body == f.body
    IN  CASE f.encrypted /\ cmd = CMD_READ_STATUS /\ Len(body) >= 3
               -> WithStatus(seen, body[2], body[3])
          [] CarriesEvent(f)
               -> WithStatus(seen, body[2], body[1])
          [] ~f.encrypted /\ cmd = CMD_READ_DEVICE_TYPE
               -> [seen EXCEPT !.type = body[1]]
          [] ~f.encrypted /\ cmd = CMD_READ_VERSION /\ Len(body) >= 2
               -> [seen EXCEPT !.version = <<body[1], body[2]>>]
          [] OTHER -> seen

DecodeResponse(f) ==
    /\ devs' = [devs EXCEPT ![f.addr] = Decoded(f)]
    /\ IF CarriesEvent(f) THEN LogEvent(EventOf(f))
                          ELSE UNCHANGED <<events, eventHead, eventCount>>
    /\ UNCHANGED lastRequest

ProcessPacket(f) ==
    /\ IF IsResponse(f) THEN DecodeResponse(f) ELSE DecodeRequest(f)
    /\ UNCHANGED checkAge

-----------------------------------------------------------------------------
(* The periodic check, the clock and the queries.                          *)

ExpiredEarly(dev) == dev.online /\ dev.seenAge >= OfflineTimeout   \* faulty

Expired(dev) == dev.online /\ dev.seenAge > OfflineTimeout

CheckOfflineDevices ==
    /\ checkAge > CheckPeriod
    /\ checkAge' = 0
    /\ devs' = [a \in Devices |->
                  IF Expired(devs[a]) THEN [devs[a] EXCEPT !.online = FALSE]
                                      ELSE devs[a]]
    /\ UNCHANGED <<lastRequest, events, eventHead, eventCount>>

MonitorTick ==
    /\ lastRequest' = [lastRequest EXCEPT !.age = Aged(@, RespGap)]
    /\ devs' = [a \in Devices |->
                  [devs[a] EXCEPT !.seenAge = Aged(@, SeenLimit)]]
    /\ checkAge' = Aged(checkAge, CheckPeriod + 1)
    /\ UNCHANGED <<events, eventHead, eventCount>>

\* getEvent: the index-th oldest event the ring still holds.
GetEventFromSlot(index) == events[index]                     \* faulty variant

GetEvent(index) ==
    IF eventCount < LogSize THEN events[index]
    ELSE events[(eventHead + index) % LogSize]

EventLog == [i \in 1..eventCount |-> GetEvent(i - 1)]

OnlineDevices == {a \in Devices : devs[a].online}
=============================================================================
