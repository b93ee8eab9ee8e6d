---------------------------- MODULE MonitoredBus ----------------------------
(***************************************************************************)
(* The bus monitor listening to a C2000M and its devices.  The C2000M asks *)
(* one device at a time and waits for the answer or gives up; a device     *)
(* answers within RespMax ticks or not at all.  The monitor's poll() runs  *)
(* at least once per tick, so each frame is processed as it arrives.       *)
(***************************************************************************)
EXTENDS BusMonitor

CONSTANTS
    RespMax,      \* a device answers at most this many ticks after a request
    GiveUp,       \* the C2000M waits this long for an answer
    MinRepeat,    \* ticks between two requests to the same device
    Queries,      \* the commands the C2000M sends, by code
    EventCodes,   \* codes of the events devices report
    EventZones,   \* zones they report them of
    ZoneCounts    \* zone counts devices report in a status answer

ASSUME BusAssumption ==
    /\ RespMax \in Nat /\ GiveUp \in Nat /\ MinRepeat \in Nat
    /\ RespMax < RespGap /\ RespMax < GiveUp
    /\ Queries \subseteq 1..255
    /\ EventCodes \subseteq 1..255 /\ EventZones \subseteq 0..255
    /\ ZoneCounts \subseteq 0..255

VARIABLES
    ask,        \* the C2000M's last request: address, command, age, open
    spokeAge,   \* history: ticks since each device really spoke
    reported,   \* history: the <<zone, status>> pairs each device reported
    sent        \* history: the last LogSize events devices sent

busVars == <<ask, spokeAge, reported, sent>>
vars    == <<monitorVars, busVars>>

-----------------------------------------------------------------------------

\* Frames as orion_master.cpp and orion_slave.cpp build them.  Padding with the
\* message key reads as zeros once decrypted.
Request(a, c) ==
    [from |-> "master", addr |-> a,
     encrypted |-> c \in {CMD_READ_STATUS, CMD_READ_EVENT},
     body |-> CASE c = CMD_READ_STATUS -> <<c, 2, 0, 0, 0>>
                [] c = CMD_READ_EVENT  -> <<c, 0, 0, 0>>
                [] OTHER               -> <<c>>]

Answer(a, encrypted, body) ==
    [from |-> "device", addr |-> a, encrypted |-> encrypted, body |-> body]

\* handleReadStatus: 0x88, 0x02, zone count, zone, STATUS_1, STATUS_2, 0.
StatusAnswer(a, count, status) ==
    Answer(a, TRUE, <<136, 2, count, 2, status, 209, 0, 0>>)
EventAnswer(a, code, zone) == Answer(a, TRUE, <<code, zone, 0, 0>>)
NoEventAnswer(a)           == Answer(a, TRUE, <<0, 0>>)

SpokeLimit == OfflineTimeout + CheckPeriod + 2

Init ==
    /\ MonitorInit
    /\ ask = [addr |-> 0, cmd |-> 0, age |-> GiveUp, open |-> FALSE]
    /\ spokeAge = [a \in Devices |-> SpokeLimit]
    /\ reported = [a \in Devices |-> {}]
    /\ sent = <<>>

\* The C2000M asks device a, after the previous exchange is over.
MasterAsks(a, c) ==
    /\ ask.open => ask.age >= GiveUp
    /\ ask.addr = a => ask.age >= MinRepeat
    /\ ask' = [addr |-> a, cmd |-> c, age |-> 0, open |-> TRUE]
    /\ ProcessPacket(Request(a, c))
    /\ UNCHANGED <<spokeAge, reported, sent>>

\* Device ask.addr puts an answer on the bus.
Speaks(answer, news) ==
    /\ ask' = [ask EXCEPT !.open = FALSE]
    /\ spokeAge' = [spokeAge EXCEPT ![ask.addr] = 0]
    /\ reported' = [reported EXCEPT ![ask.addr] = @ \cup news]
    /\ ProcessPacket(answer)

MayAnswer(c) == ask.open /\ ask.cmd = c /\ ask.age <= RespMax

AnswersStatus ==
    \E count \in ZoneCounts, status \in EventCodes :
        /\ MayAnswer(CMD_READ_STATUS)
        /\ Speaks(StatusAnswer(ask.addr, count, status), {<<2, status>>})
        /\ UNCHANGED sent

\* The last LogSize elements of s.
Recent(s) == IF Len(s) > LogSize THEN SubSeq(s, Len(s) - LogSize + 1, Len(s)) ELSE s

AnswersEvent ==
    \E code \in EventCodes, zone \in EventZones :
        /\ MayAnswer(CMD_READ_EVENT)
        /\ Speaks(EventAnswer(ask.addr, code, zone), {<<zone, code>>})
        /\ sent' = Recent(Append(sent, [addr |-> ask.addr, code |-> code,
                                        zone |-> zone]))

AnswersNoEvent ==
    /\ MayAnswer(CMD_READ_EVENT)
    /\ Speaks(NoEventAnswer(ask.addr), {})
    /\ UNCHANGED sent

\* The plain answers: an ACK, the device type or the firmware version.
DeviceType == 52        \* 0x34
Version    == <<2, 0>>

AnswersPlain ==
    /\ \/ MayAnswer(CMD_PING)
          /\ Speaks(Answer(ask.addr, FALSE, <<6>>), {})
       \/ MayAnswer(CMD_READ_DEVICE_TYPE)
          /\ Speaks(Answer(ask.addr, FALSE, <<DeviceType>>), {})
       \/ MayAnswer(CMD_READ_VERSION)
          /\ Speaks(Answer(ask.addr, FALSE, Version), {})
    /\ UNCHANGED sent

\* The offline check that is due runs before the clock goes on.
Tick ==
    /\ checkAge <= CheckPeriod
    /\ MonitorTick
    /\ ask' = [ask EXCEPT !.age = Aged(@, IF GiveUp > MinRepeat THEN GiveUp
                                                                ELSE MinRepeat)]
    /\ spokeAge' = [a \in Devices |-> Aged(spokeAge[a], SpokeLimit)]
    /\ UNCHANGED <<reported, sent>>

PeriodicCheck == CheckOfflineDevices /\ UNCHANGED busVars

Next ==
    \/ \E a \in Devices, c \in Queries : MasterAsks(a, c)
    \/ AnswersStatus
    \/ AnswersEvent
    \/ AnswersNoEvent
    \/ AnswersPlain
    \/ PeriodicCheck
    \/ Tick

Spec == Init /\ [][Next]_vars

-----------------------------------------------------------------------------

\* The table's presence follows what devices really do: a device that spoke
\* within the offline timeout is online, and one that is online spoke at most
\* one check period before the timeout (orion_bus_monitor.cpp:235-241, 373-384).
PresenceTracksAnswers ==
    \A a \in Devices :
        /\ spokeAge[a] <= OfflineTimeout => devs[a].online
        /\ devs[a].online => spokeAge[a] <= OfflineTimeout + CheckPeriod + 1

\* getEvent(0 .. getEventCount()-1) lists the latest events devices sent, oldest
\* first, across every wrap of the ring and with nothing invented in between.
LogListsLatestEvents == EventLog = sent

\* An answer is decoded by the query it answers: the identity fields hold only
\* what identity queries returned, never a byte of another answer or a request.
IdentityAsAnswered ==
    \A a \in Devices : /\ devs[a].type \in {0, DeviceType}
                       /\ devs[a].version \in {<<0, 0>>, Version}

\* A zone status in the table is one the device reported for that zone: a status answer
\* is read by the layout that the comment at orion_bus_monitor.cpp:259-260 gives and that
\* orion_slave.cpp:352-359 sends.  The monitor reads zone and status one field early.
ZonesAsReported ==
    \A a \in Devices, z \in Zones :
        devs[a].zones[z] # 0 => <<z, devs[a].zones[z]>> \in reported[a]
=============================================================================
