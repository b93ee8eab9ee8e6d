---------------------------- MODULE DeviceTracker ----------------------------
(***************************************************************************)
(* The device table and event ring of the proxy (device_tracker.c) and its *)
(* three callers: the sniffer thread, the main loop with the TCP commands  *)
(* and the active scan, and the HTTP thread.  The tracker has one lock;    *)
(* the answers to scans are written without it.                            *)
(*                                                                         *)
(* An event in the ring is its id; which event a device had last is the    *)
(* history variable last.                                                  *)
(***************************************************************************)
EXTENDS Clock, Sequences, FiniteSetsExt

CONSTANTS
    Addresses,    \* addresses of devices on the bus
    OfflineAfter, \* TRACKER_OFFLINE_SEC, in ticks
    CheckPeriod,  \* TIMEOUT_CHECK_SEC, in ticks
    RingSize,     \* TRACKER_MAX_EVENTS
    BufEvents,    \* lines of GET_EVENTS that fit PROXY_BUF_SIZE
    Wants,        \* the counts clients give to GET_EVENTS
    Recursive,    \* the lock is a critical section (Windows), not a spin flag
    MaxEvents     \* bound: no device is heard after so many events

ASSUME TrackerAssumption ==
    /\ Addresses \subseteq 1..127
    /\ OfflineAfter \in Nat \ {0} /\ CheckPeriod \in Nat \ {0}
    /\ RingSize \in Nat \ {0} /\ BufEvents \in Nat \ {0}
    /\ Wants \subseteq Nat
    /\ Recursive \in BOOLEAN
    /\ MaxEvents \in Nat

VARIABLES
    owner,     \* who holds the lock, or Nobody
    depth,     \* how often
    at,        \* where each thread is
    op,        \* the operation it runs
    addr,      \* the address that operation is about, or 0
    stage,     \* the next thing the main loop does
    checkAge,  \* time(NULL) - last_timeout_check, saturated at CheckPeriod
    left,      \* addresses the main loop has still to look at
    overdue,   \* devices with now - last_seen > TRACKER_OFFLINE_SEC, for the
               \* now of the check that runs
    online,    \* devices[].online
    seen,      \* time(NULL) - devices[].last_seen, saturated; Never for 0
    ring,      \* events[]
    events,    \* event_count, always the same as event_write_pos
    listing,   \* of tracker_format_events: max_events, the positions it has still
               \* to print, the events it printed
    last,      \* history: the last event of each device
    found      \* history: devices that answered a scan since their last loss

lockVars    == <<owner, depth>>
threadVars  == <<at, op, addr>>
loopVars    == <<stage, checkAge, left, overdue>>
tableVars   == <<online, seen, last, found>>
ringVars    == <<ring, events>>
vars == <<lockVars, threadVars, loopVars, tableVars, ringVars, listing>>

Threads == {"main", "sniffer", "http"}
Nobody  == "nobody"
Places  == {"idle", "lock", "body", "record", "nested", "count", "list", "unlock",
            "ask", "wait", "seen"}
Stale   == OfflineAfter + 1
Never   == OfflineAfter + 2
NoEvent == -1
NoListing == [want |-> 0, next |-> 0, stop |-> 0, out |-> <<>>]

TrackerInit ==
    /\ owner = Nobody /\ depth = 0
    /\ at = [t \in Threads |-> "idle"] /\ op = [t \in Threads |-> "none"]
    /\ addr = [t \in Threads |-> 0]
    /\ stage = "poll" /\ checkAge = 0 /\ left = {} /\ overdue = {}
    /\ online = [a \in Addresses |-> FALSE]
    /\ seen = [a \in Addresses |-> Never]
    /\ ring = [i \in 0..(RingSize - 1) |-> NoEvent] /\ events = 0
    /\ listing = NoListing
    /\ last = [a \in Addresses |-> "none"] /\ found = {}

-----------------------------------------------------------------------------
(* The lock.                                                               *)

Goes(t, place) == at' = [at EXCEPT ![t] = place]

Begins(t, what, a, place) ==
    /\ Goes(t, place)
    /\ op' = [op EXCEPT ![t] = what]
    /\ addr' = [addr EXCEPT ![t] = a]

Ends(t) == Begins(t, "none", 0, "idle")

\* Faulty variant: the flag is tested and set in two steps.
FreeAlways(t) == TRUE

Free(t) == owner = Nobody \/ (Recursive /\ owner = t)

\* tracker_lock: "nested" is the call of tracker_online_count by
\* tracker_format_status, which holds the lock already.
Enter(t) ==
    /\ at[t] \in {"lock", "nested"} /\ Free(t)
    /\ owner' = t /\ depth' = depth + 1
    /\ Goes(t, IF at[t] = "lock" THEN "body" ELSE "count")
    /\ UNCHANGED <<op, addr, loopVars, tableVars, ringVars, listing>>

\* Faulty variant: the lock is never given back.
UnlockForgotten == UNCHANGED lockVars

\* tracker_unlock
Unlock == /\ depth' = depth - 1
          /\ owner' = IF depth = 1 THEN Nobody ELSE owner

\* The end of an operation that held the lock.
Leave(t) ==
    /\ at[t] = "unlock"
    /\ Unlock
    /\ Ends(t)
    /\ IF op[t] = "timeouts" THEN stage' = "stats" /\ checkAge' = 0 /\ overdue' = {}
                             ELSE UNCHANGED <<stage, checkAge, overdue>>
    /\ IF op[t] = "events" THEN listing' = NoListing ELSE UNCHANGED listing
    /\ UNCHANGED <<left, tableVars, ringVars>>

-----------------------------------------------------------------------------
(* The event ring and the table.                                           *)

\* The next event of the ring is one of device a.
Record(a, code) ==
    /\ ring' = [ring EXCEPT ![events % RingSize] = events]
    /\ events' = events + 1
    /\ last' = [last EXCEPT ![a] = code]

\* last_seen = time(NULL)
Refresh(a) == /\ seen' = [seen EXCEPT ![a] = 0]
              /\ overdue' = overdue \ {a}

\* bound: see MaxEvents
MayBeHeard == events < MaxEvents

-----------------------------------------------------------------------------
(* The sniffer thread: tracker_on_packet.                                  *)

PacketArrives(a) ==
    /\ at["sniffer"] = "idle" /\ MayBeHeard
    /\ Begins("sniffer", "packet", a, "lock")
    /\ UNCHANGED <<lockVars, loopVars, tableVars, ringVars, listing>>

TrackPacket ==
    LET a == addr["sniffer"] IN
    /\ at["sniffer"] = "body"
    /\ Refresh(a)
    /\ online' = [online EXCEPT ![a] = TRUE]
    /\ Goes("sniffer", IF online[a] THEN "unlock" ELSE "record")
    /\ UNCHANGED <<lockVars, op, addr, stage, checkAge, left, last, found,
                   ringVars, listing>>

RecordConnection ==
    /\ at["sniffer"] = "record"
    /\ Record(addr["sniffer"], "connected")
    /\ Goes("sniffer", "unlock")
    /\ UNCHANGED <<lockVars, op, addr, loopVars, online, seen, found, listing>>

-----------------------------------------------------------------------------
(* Queries: GET_STATUS and any unknown HTTP command (tracker_format_status), *)
(* GET_DEVICES, GET_DEVICE, the statistics and GET /api/status (one pass     *)
(* under the lock).                                                          *)

StatusCountsOnline(t) ==
    /\ at[t] = "body" /\ op[t] = "status"
    /\ Goes(t, "nested")
    /\ UNCHANGED <<lockVars, op, addr, loopVars, tableVars, ringVars, listing>>

CountReturns(t) ==
    /\ at[t] = "count"
    /\ Unlock
    /\ Goes(t, "unlock")
    /\ UNCHANGED <<op, addr, loopVars, tableVars, ringVars, listing>>

Read(t) ==
    /\ at[t] = "body" /\ op[t] = "query"
    /\ Goes(t, "unlock")
    /\ UNCHANGED <<lockVars, op, addr, loopVars, tableVars, ringVars, listing>>

\* GET_EVENTS: how many events, and from where on.
StartListing ==
    LET count == Min({events, RingSize, listing.want}) IN
    /\ at["main"] = "body" /\ op["main"] = "events"
    /\ listing' = [listing EXCEPT !.next = events - count, !.stop = events]
    /\ Goes("main", IF count = 0 THEN "unlock" ELSE "list")
    /\ UNCHANGED <<lockVars, op, addr, loopVars, tableVars, ringVars>>

ListEvent ==
    /\ at["main"] = "list"
    /\ IF listing.next = listing.stop \/ Len(listing.out) = BufEvents
       THEN Goes("main", "unlock") /\ UNCHANGED listing
       ELSE /\ listing' = [listing EXCEPT
                             !.out = Append(@, ring[listing.next % RingSize]),
                             !.next = @ + 1]
            /\ UNCHANGED at
    /\ UNCHANGED <<lockVars, op, addr, loopVars, tableVars, ringVars>>

-----------------------------------------------------------------------------
(* Scans.  The thread waits for orion_cmd_read_device_info with the lock    *)
(* free, and writes the answer without it.                                  *)

\* One address of run_active_scan has been dealt with; others have one.
ScanGoesOn(t) ==
    IF op[t] = "scan" THEN Begins(t, "scan", 0, "ask") /\ left' = left \ {addr[t]}
                      ELSE Ends(t) /\ UNCHANGED left

\* run_active_scan turns to the next address, in ascending order.
ScanNext(a) ==
    /\ at["main"] = "ask" /\ op["main"] = "scan"
    /\ a \in left /\ \A b \in left : a <= b
    /\ Begins("main", "scan", a, "wait")
    /\ UNCHANGED <<lockVars, loopVars, tableVars, ringVars, listing>>

ScanEnds ==
    /\ at["main"] = "ask" /\ left = {}
    /\ Ends("main")
    /\ UNCHANGED <<lockVars, loopVars, tableVars, ringVars, listing>>

\* No answer: an error to the client, or the next address.
ScanSilent(t) ==
    /\ at[t] = "wait"
    /\ ScanGoesOn(t)
    /\ UNCHANGED <<lockVars, stage, checkAge, overdue, tableVars,
                   ringVars, listing>>

\* device_type, fw_major, fw_minor and online are written; SCAN_DEVICE of the
\* TCP server ends with that.
ScanAnswered(t) ==
    LET a == addr[t] IN
    /\ at[t] = "wait" /\ MayBeHeard
    /\ online' = [online EXCEPT ![a] = TRUE]
    /\ found' = found \cup {a}
    /\ IF op[t] = "SCAN_DEVICE" THEN Ends(t) ELSE Goes(t, "seen") /\ UNCHANGED <<op, addr>>
    /\ UNCHANGED <<lockVars, loopVars, seen, last, ringVars, listing>>

\* The other two callers also write last_seen.
ScanSeen(t) ==
    /\ at[t] = "seen"
    /\ Refresh(addr[t])
    /\ ScanGoesOn(t)
    /\ UNCHANGED <<lockVars, stage, checkAge, online, last, found,
                   ringVars, listing>>

-----------------------------------------------------------------------------
(* The main loop: proxy_server_poll, the timeout check, the active scan.    *)

MainIdle(s) == at["main"] = "idle" /\ stage = s

\* A round of proxy_server_poll without a command that concerns the tracker.
PollNothing ==
    /\ MainIdle("poll")
    /\ stage' = "check"
    /\ UNCHANGED <<lockVars, threadVars, checkAge, left, overdue, tableVars,
                   ringVars, listing>>

\* GET_STATUS, or GET_DEVICES, or GET_DEVICE.
TcpQuery(what) ==
    /\ MainIdle("poll") /\ stage' = "check"
    /\ Begins("main", what, 0, "lock")
    /\ UNCHANGED <<lockVars, checkAge, left, overdue, tableVars, ringVars,
                   listing>>

TcpGetEvents(n) ==
    /\ MainIdle("poll") /\ stage' = "check"
    /\ Begins("main", "events", 0, "lock")
    /\ listing' = [NoListing EXCEPT !.want = n]
    /\ UNCHANGED <<lockVars, checkAge, left, overdue, tableVars, ringVars>>

TcpScanDevice(a) ==
    /\ MainIdle("poll") /\ stage' = "check"
    /\ Begins("main", "SCAN_DEVICE", a, "wait")
    /\ UNCHANGED <<lockVars, checkAge, left, overdue, tableVars, ringVars, listing>>

\* Faulty variant: last_timeout_check is set in every round.
CheckDueEveryRound ==
    /\ MainIdle("check")
    /\ IF checkAge = CheckPeriod
       THEN /\ Begins("main", "timeouts", 0, "lock")
            /\ left' = Addresses
            /\ overdue' = {a \in Addresses : seen[a] = Stale}
            /\ UNCHANGED <<stage, checkAge>>
       ELSE stage' = "scan" /\ checkAge' = 0 /\ UNCHANGED <<threadVars, left, overdue>>
    /\ UNCHANGED <<lockVars, tableVars, ringVars, listing>>

\* tracker_check_timeouts reads the clock before it takes the lock.
CheckDue ==
    /\ MainIdle("check")
    /\ IF checkAge = CheckPeriod
       THEN /\ Begins("main", "timeouts", 0, "lock")
            /\ left' = Addresses
            /\ overdue' = {a \in Addresses : seen[a] = Stale}
            /\ UNCHANGED stage
       ELSE stage' = "scan" /\ UNCHANGED <<threadVars, left, overdue>>
    /\ UNCHANGED <<lockVars, checkAge, tableVars, ringVars, listing>>

\* One device of the loop of tracker_check_timeouts, in ascending order.
CheckDevice(a) ==
    /\ at["main"] = "body" /\ op["main"] = "timeouts"
    /\ a \in left /\ \A b \in left : a <= b
    /\ left' = left \ {a}
    /\ IF online[a] /\ a \in overdue
       THEN /\ online' = [online EXCEPT ![a] = FALSE]
            /\ found' = found \ {a}
            /\ Record(a, "lost")
       ELSE UNCHANGED <<online, found, last, ringVars>>
    /\ UNCHANGED <<lockVars, threadVars, stage, checkAge, overdue, seen, listing>>

CheckEnds ==
    /\ at["main"] = "body" /\ op["main"] = "timeouts" /\ left = {}
    /\ Goes("main", "unlock")
    /\ UNCHANGED <<lockVars, op, addr, loopVars, tableVars, ringVars, listing>>

\* After a check the verbose statistics and the tray icon count devices.
Statistics ==
    /\ MainIdle("stats") /\ stage' = "scan"
    /\ \/ Begins("main", "query", 0, "lock")
       \/ UNCHANGED threadVars
    /\ UNCHANGED <<lockVars, checkAge, left, overdue, tableVars, ringVars, listing>>

\* The periodic scan, if it is configured and due.
ActiveScan ==
    /\ MainIdle("scan") /\ stage' = "poll"
    /\ \/ Begins("main", "scan", 0, "ask") /\ left' = Addresses
       \/ UNCHANGED <<threadVars, left>>
    /\ UNCHANGED <<lockVars, checkAge, overdue, tableVars, ringVars, listing>>

-----------------------------------------------------------------------------
(* The HTTP thread.                                                         *)

HttpQuery(what) ==
    /\ at["http"] = "idle"
    /\ Begins("http", what, 0, "lock")
    /\ UNCHANGED <<lockVars, loopVars, tableVars, ringVars, listing>>

HttpScanDevice(a) ==
    /\ at["http"] = "idle"
    /\ Begins("http", "http_scan", a, "wait")
    /\ UNCHANGED <<lockVars, loopVars, tableVars, ringVars, listing>>

-----------------------------------------------------------------------------

\* A second passes.
Tick ==
    /\ seen' = [a \in Addresses |-> IF seen[a] = Never THEN Never
                                    ELSE Aged(seen[a], Stale)]
    /\ checkAge' = Aged(checkAge, CheckPeriod)
    /\ UNCHANGED <<lockVars, threadVars, stage, left, overdue, online, last, found,
                   ringVars, listing>>

\* What a thread does once it has begun, but for taking the lock.
Proceeds(t) ==
    \/ Leave(t) \/ StatusCountsOnline(t) \/ CountReturns(t) \/ Read(t)
    \/ ScanSilent(t) \/ ScanAnswered(t) \/ ScanSeen(t)

SnifferProceeds == Proceeds("sniffer") \/ TrackPacket \/ RecordConnection

MainProceeds ==
    \/ Proceeds("main")
    \/ StartListing \/ ListEvent
    \/ \E a \in Addresses : ScanNext(a) \/ CheckDevice(a) \/ TcpScanDevice(a)
    \/ ScanEnds \/ CheckEnds
    \/ PollNothing \/ CheckDue \/ Statistics \/ ActiveScan
    \/ \E what \in {"status", "query"} : TcpQuery(what)
    \/ \E n \in Wants : TcpGetEvents(n)

HttpProceeds == Proceeds("http")

Next ==
    \/ \E t \in Threads : Enter(t)
    \/ SnifferProceeds \/ MainProceeds \/ HttpProceeds
    \/ \E a \in Addresses : PacketArrives(a) \/ HttpScanDevice(a)
    \/ \E what \in {"status", "query"} : HttpQuery(what)
    \/ Tick

Spec == TrackerInit /\ [][Next]_vars

\* The threads run, time passes, and a thread that waits for the lock gets it
\* sooner or later when it becomes free again and again: the bus is idle between
\* two packets, and the main loop sleeps in each round.
Fairness ==
    /\ WF_vars(SnifferProceeds) /\ WF_vars(MainProceeds) /\ WF_vars(HttpProceeds)
    /\ \A t \in Threads : SF_vars(Enter(t))
    /\ WF_vars(Tick)

FairSpec == Spec /\ Fairness

-----------------------------------------------------------------------------

TrackerTypeOK ==
    /\ owner \in Threads \cup {Nobody} /\ depth \in 0..2
    /\ at \in [Threads -> Places]
    /\ op \in [Threads -> {"none", "packet", "status", "query", "events", "timeouts",
                           "scan", "SCAN_DEVICE", "http_scan"}]
    /\ addr \in [Threads -> Addresses \cup {0}]
    /\ stage \in {"poll", "check", "stats", "scan"}
    /\ checkAge \in 0..CheckPeriod
    /\ left \subseteq Addresses /\ overdue \subseteq Addresses
    /\ online \in [Addresses -> BOOLEAN] /\ seen \in [Addresses -> 0..Never]
    /\ ring \in [0..(RingSize - 1) -> Nat \cup {NoEvent}] /\ events \in Nat
    /\ listing \in [want : Nat, next : Nat, stop : Nat, out : Seq(Nat \cup {NoEvent})]
    /\ last \in [Addresses -> {"none", "connected", "lost"}] /\ found \subseteq Addresses

\* The table and the event log tell the same story whenever the lock is free: a
\* device is online exactly if its last event says so or it answered a scan since
\* (device_tracker.c:82-95, 128-140), whatever the threads do in between.
LogMatchesTable ==
    owner = Nobody => \A a \in Addresses :
                          online[a] <=> last[a] = "connected" \/ a \in found

\* The log reports a connection only of a device it last reported lost, or not at all, and
\* a loss only of one it reported connected or a scan found: the sniffer decides before it
\* records (device_tracker.c:70-95, 128-140; main.c:231; proxy_server.c:196).
LogAlternates ==
    [][\A a \in Addresses :
         /\ RecordConnection /\ addr["sniffer"] = a => last[a] # "connected"
         /\ CheckDevice(a) /\ events' # events => last[a] = "connected" \/ a \in found]_vars

\* The answer to GET_EVENTS is the latest events, in order and without a gap, the
\* ring wrapped or not and the other threads recording as they like
\* (device_tracker.c:276-304); an answer too long for the buffer loses its end.
ListsLatestEvents ==
    at["main"] = "unlock" /\ op["main"] = "events" =>
        LET count == Min({events, RingSize, listing.want}) IN
        listing.out = [i \in 1..Min({count, BufEvents}) |-> events - count + i - 1]

\* A device that goes silent is marked offline, also while clients ask and scans
\* run (device_tracker.c:128-130), unless it is heard again.
SilentGoesOffline ==
    \A a \in Addresses :
        (online[a] /\ seen[a] = Stale) ~> (~online[a] \/ seen[a] < Stale)

\* No thread is stuck in the tracker: with a recursive lock every operation comes to
\* an end, those that take the lock twice (device_tracker.c:174-192) and the early
\* returns included.
OperationsEnd ==
    \A t \in Threads : (at[t] # "idle") ~> (at[t] = "idle")

\* GET_STATUS is answered (proxy_server.c:106-110), as
\* docs/TESTING_WITHOUT_HARDWARE.md:293 expects.  With the spin flag of POSIX it is
\* not: tracker_format_status waits for the lock it holds.
GetStatusAnswered ==
    (op["main"] = "status") ~> (op["main"] = "none")
=============================================================================
