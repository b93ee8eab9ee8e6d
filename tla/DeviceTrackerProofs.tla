------------------------- MODULE DeviceTrackerProofs -------------------------
(***************************************************************************)
(* The lock of the tracker excludes, the device table and the event log    *)
(* agree, the log alternates, and GET_EVENTS lists the latest events, for  *)
(* every set of devices, every size of the ring and of the buffer and both *)
(* kinds of lock; and what the nested call does to a lock that does not    *)
(* nest.                                                                   *)
(***************************************************************************)
EXTENDS DeviceTracker, TLAPS

\* Where a thread holds the lock once, and where it holds it at all.
Once     == {"body", "record", "nested", "list", "unlock"}
Critical == Once \cup {"count"}

\* The lock is held exactly by the thread that is between tracker_lock and
\* tracker_unlock, as often as that thread has taken it.
LockInv ==
    /\ at \in [Threads -> Places]
    /\ owner \in Threads \cup {Nobody} /\ depth \in 0..2
    /\ owner = Nobody => depth = 0
    /\ \A t \in Threads : at[t] \in Critical <=> owner = t
    /\ \A t \in Threads : at[t] \in Once => depth = 1
    /\ \A t \in Threads : at[t] = "count" => depth = 2
    /\ \A t \in Threads : at[t] = "record" => t = "sniffer"

\* A connection whose event is not recorded yet.
Recording(a) == at["sniffer"] = "record" /\ addr["sniffer"] = a

\* LogMatchesTable, at every moment; and what is about to be recorded is news.
LogInv ==
    /\ online \in [Addresses -> BOOLEAN] /\ DOMAIN last = Addresses
    /\ DOMAIN addr = Threads
    /\ \A a \in Addresses :
           /\ online[a] <=> last[a] = "connected" \/ a \in found \/ Recording(a)
           /\ Recording(a) => last[a] # "connected"

-----------------------------------------------------------------------------

LEMMA InitInv == TrackerInit => LockInv /\ LogInv
BY DEF TrackerInit, LockInv, LogInv, Recording, Places, Critical, Once, Threads, Nobody

\* A step that moves one thread and leaves the lock alone keeps LockInv if the
\* thread holds the lock after it as it did before.
LEMMA Moves ==
    ASSUME LockInv, NEW t \in Threads, NEW place \in Places,
           at' = [at EXCEPT ![t] = place],
           UNCHANGED lockVars,
           (at[t] \notin Critical /\ place \notin Critical)
               \/ (at[t] \in Once /\ place \in Once),
           place = "record" => t = "sniffer"
    PROVE  LockInv'
BY DEF LockInv, lockVars, Critical, Once

LEMMA LockStep == LockInv /\ [Next]_vars => LockInv'
<1> SUFFICES ASSUME LockInv, [Next]_vars PROVE LockInv'
  OBVIOUS
<1>a. ASSUME NEW t \in Threads, Enter(t) PROVE LockInv'
  BY <1>a DEF Enter, Free, LockInv, Goes, Places, Critical, Once, Threads, Nobody
<1>b. ASSUME NEW t \in Threads, Proceeds(t) PROVE LockInv'
  <2>1. CASE Leave(t)
    BY <2>1 DEF Leave, Unlock, Ends, Begins, LockInv, Goes, Places, Critical, Once, Threads,
       Nobody
  <2>2. CASE CountReturns(t)
    BY <2>2 DEF CountReturns, Unlock, LockInv, Goes, Places, Critical, Once, Threads, Nobody
  <2>3. CASE StatusCountsOnline(t) \/ Read(t)
    BY <2>3, Moves DEF Goes, Places, StatusCountsOnline, Read, Once, Critical
  <2>4. CASE ScanSilent(t) \/ ScanSeen(t)
    BY <2>4, Moves DEF Goes, Places, ScanSilent, ScanSeen, ScanGoesOn, Begins, Ends, Once, Critical
  <2>5. CASE ScanAnswered(t)
    BY <2>5, Moves DEF Goes, Places, ScanAnswered, Begins, Ends, Once, Critical
  <2> QED  BY <1>b, <2>1, <2>2, <2>3, <2>4, <2>5 DEF Proceeds
<1>c. "main" \in Threads /\ "sniffer" \in Threads /\ "http" \in Threads
  BY DEF Threads
<1>d. CASE TrackPacket \/ RecordConnection
  BY <1>c, <1>d, Moves DEF Goes, Places, TrackPacket, RecordConnection, Once, Critical
<1>e. CASE StartListing \/ CheckEnds
  BY <1>c, <1>e, Moves DEF Goes, Places, StartListing, CheckEnds, Once, Critical
<1>f. CASE ListEvent
  <2>1. CASE UNCHANGED at
    BY <1>f, <2>1 DEF ListEvent, LockInv, lockVars
  <2>2. CASE Goes("main", "unlock")
    BY <1>c, <1>f, <2>2, Moves DEF Goes, Places, ListEvent, Once, Critical
  <2> QED  BY <1>f, <2>1, <2>2 DEF ListEvent
<1>g. ASSUME NEW a \in Addresses, CheckDevice(a) PROVE LockInv'
  BY <1>g DEF CheckDevice, LockInv, lockVars, threadVars
<1>h. ASSUME NEW a \in Addresses,
             ScanNext(a) \/ TcpScanDevice(a) \/ PacketArrives(a) \/ HttpScanDevice(a)
      PROVE  LockInv'
  BY <1>c, <1>h, Moves DEF Goes, Places, ScanNext, TcpScanDevice, PacketArrives, HttpScanDevice,
     MainIdle, Begins, Once, Critical
<1>i. ASSUME NEW what, TcpQuery(what) \/ HttpQuery(what) PROVE LockInv'
  BY <1>c, <1>i, Moves DEF Goes, Places, TcpQuery, HttpQuery, MainIdle, Begins, Once, Critical
<1>j. ASSUME NEW n \in Wants, TcpGetEvents(n) PROVE LockInv'
  BY <1>c, <1>j, Moves DEF Goes, Places, TcpGetEvents, MainIdle, Begins, Once, Critical
<1>k. CASE CheckDue \/ Statistics \/ ActiveScan
  <2>1. CASE UNCHANGED at
    BY <1>k, <2>1 DEF CheckDue, Statistics, ActiveScan, LockInv, lockVars
  <2>2. CASE \E place \in {"lock", "ask"} : Goes("main", place)
    BY <1>c, <1>k, <2>2, Moves DEF Goes, Places, CheckDue, Statistics, ActiveScan, MainIdle, Once,
       Critical
  <2> QED  BY <1>k, <2>1, <2>2 DEF CheckDue, Statistics, ActiveScan, Begins, threadVars
<1>l. CASE ScanEnds
  BY <1>c, <1>l, Moves DEF Goes, Places, ScanEnds, Ends, Begins, Once, Critical
<1>m. CASE PollNothing \/ Tick \/ UNCHANGED vars
  BY <1>m DEF PollNothing, Tick, vars, LockInv, lockVars, threadVars
<1> QED
  BY <1>a, <1>b, <1>c, <1>d, <1>e, <1>f, <1>g, <1>h, <1>i, <1>j, <1>k, <1>l, <1>m
     DEF Next, SnifferProceeds, MainProceeds, HttpProceeds

\* The table and the log stay as they are, and the sniffer neither begins nor ends
\* a record.
LEMMA TableKept ==
    ASSUME LogInv, UNCHANGED <<online, last, found>>, DOMAIN addr' = Threads,
           \/ at'["sniffer"] = at["sniffer"] /\ addr'["sniffer"] = addr["sniffer"]
           \/ at["sniffer"] # "record" /\ at'["sniffer"] # "record"
    PROVE  LogInv'
BY DEF LogInv, Recording

\* A thread moves and its address may change, but not to or from a record.
LEMMA ThreadMoves ==
    ASSUME LockInv, LogInv, UNCHANGED <<online, last, found>>,
           NEW t \in Threads, NEW place \in Places,
           at' = [at EXCEPT ![t] = place],
           at[t] # "record", place # "record",
           addr' = addr \/ \E a : addr' = [addr EXCEPT ![t] = a]
    PROVE  LogInv'
<1>1. DOMAIN addr' = Threads
  BY DEF LogInv
<1>2. CASE t = "sniffer"
  <2>1. at["sniffer"] # "record" /\ at'["sniffer"] # "record"
    BY <1>2 DEF LockInv, Goes
  <2> QED  BY <1>1, <2>1, TableKept
<1>3. CASE t # "sniffer"
  <2>1. at'["sniffer"] = at["sniffer"] /\ addr'["sniffer"] = addr["sniffer"]
    BY <1>3 DEF LockInv, LogInv, Goes, Threads
  <2> QED  BY <1>1, <2>1, TableKept
<1> QED  BY <1>2, <1>3

LEMMA LogStep == LockInv /\ LogInv /\ [Next]_vars => LogInv'
<1> SUFFICES ASSUME LockInv, LogInv, [Next]_vars PROVE LogInv'
  OBVIOUS
<1>t. /\ "main" \in Threads /\ "sniffer" \in Threads /\ "http" \in Threads
      /\ "main" # "sniffer"
  BY DEF Threads
<1>a. ASSUME NEW t \in Threads, Enter(t) PROVE LogInv'
  BY <1>a, ThreadMoves DEF Goes, Places, Enter, tableVars
<1>b. ASSUME NEW t \in Threads, Proceeds(t) PROVE LogInv'
  <2>1. CASE Leave(t)
    BY <2>1, ThreadMoves DEF Goes, Places, Leave, Ends, Begins, tableVars
  <2>2. CASE CountReturns(t) \/ StatusCountsOnline(t) \/ Read(t)
    BY <2>2, ThreadMoves DEF Goes, Places, CountReturns, StatusCountsOnline, Read, tableVars
  <2>3. CASE ScanSilent(t) \/ ScanSeen(t)
    BY <2>3, ThreadMoves DEF Goes, Places, ScanSilent, ScanSeen, ScanGoesOn, Begins, Ends, tableVars
  <2>4. CASE ScanAnswered(t)
    <3>1. \A a \in Addresses : Recording(a)' <=> Recording(a)
      BY <2>4 DEF ScanAnswered, Recording, Ends, Begins, Goes, LockInv, LogInv, Threads
    <3>2. DOMAIN addr' = Threads
      BY <2>4 DEF ScanAnswered, Ends, Begins, LogInv
    <3> QED  BY <2>4, <3>1, <3>2 DEF ScanAnswered, LogInv
  <2> QED  BY <1>b, <2>1, <2>2, <2>3, <2>4 DEF Proceeds
<1>c. CASE TrackPacket
  <2>1. at["sniffer"] = "body" /\ at'["sniffer"] = IF online[addr["sniffer"]] THEN "unlock"
                                                                        ELSE "record"
    BY <1>c, <1>t DEF TrackPacket, Goes, LockInv
  <2> QED  BY <1>c, <2>1 DEF TrackPacket, LogInv, Recording
<1>d. CASE RecordConnection
  <2>1. at["sniffer"] = "record" /\ at'["sniffer"] = "unlock"
    BY <1>d, <1>t DEF RecordConnection, Goes, LockInv
  <2> QED  BY <1>d, <2>1 DEF RecordConnection, Record, LogInv, Recording
<1>e. CASE StartListing \/ CheckEnds \/ ScanEnds
  BY <1>e, <1>t, ThreadMoves DEF Goes, Places, StartListing, CheckEnds, ScanEnds, Ends, Begins, tableVars
<1>f. ASSUME NEW a \in Addresses, CheckDevice(a) PROVE LogInv'
  <2>1. at["sniffer"] # "record" /\ at' = at /\ addr' = addr
    BY <1>f, <1>t DEF CheckDevice, LockInv, Critical, Once, threadVars
  <2>2. CASE UNCHANGED <<online, found, last, ringVars>>
    BY <2>1, <2>2, TableKept DEF LogInv
  <2>3. CASE /\ online' = [online EXCEPT ![a] = FALSE]
             /\ found' = found \ {a}
             /\ Record(a, "lost")
    BY <2>1, <2>3 DEF Record, LogInv, Recording
  <2> QED  BY <1>f, <2>2, <2>3 DEF CheckDevice
<1>g. ASSUME NEW a \in Addresses,
             ScanNext(a) \/ TcpScanDevice(a) \/ PacketArrives(a) \/ HttpScanDevice(a)
      PROVE  LogInv'
  BY <1>t, <1>g, ThreadMoves DEF Goes, Places, ScanNext, TcpScanDevice, PacketArrives, HttpScanDevice,
     MainIdle, Begins, tableVars
<1>h. ASSUME NEW what, TcpQuery(what) \/ HttpQuery(what) PROVE LogInv'
  BY <1>t, <1>h, ThreadMoves DEF Goes, Places, TcpQuery, HttpQuery, MainIdle, Begins, tableVars
<1>i. ASSUME NEW n \in Wants, TcpGetEvents(n) PROVE LogInv'
  BY <1>t, <1>i, ThreadMoves DEF Goes, Places, TcpGetEvents, MainIdle, Begins, tableVars
<1>j. CASE CheckDue \/ Statistics \/ ActiveScan \/ ListEvent
  <2>1. CASE UNCHANGED <<at, addr>>
    BY <1>j, <2>1, TableKept DEF CheckDue, Statistics, ActiveScan, ListEvent, LogInv,
       tableVars
  <2>2. CASE ~UNCHANGED <<at, addr>>
    BY <1>j, <1>t, <2>2, ThreadMoves DEF Goes, Places, CheckDue, Statistics, ActiveScan, ListEvent,
       MainIdle, Begins, tableVars, threadVars
  <2> QED  BY <2>1, <2>2
<1>k. CASE PollNothing \/ Tick \/ UNCHANGED vars
  BY <1>k, TableKept DEF PollNothing, Tick, vars, LogInv, tableVars, threadVars
<1> QED
  BY <1>a, <1>b, <1>c, <1>d, <1>e, <1>f, <1>g, <1>h, <1>i, <1>j, <1>k, <1>t
     DEF Next, SnifferProceeds, MainProceeds, HttpProceeds

-----------------------------------------------------------------------------
(* Types.                                                                  *)

Operations == {"none", "packet", "status", "query", "events", "timeouts", "scan",
               "SCAN_DEVICE", "http_scan"}

\* A thread waits for the answer of a device.
TypeInv == TrackerTypeOK /\ \A t \in Threads : at[t] = "wait" => addr[t] \in Addresses

\* The part of the types that concerns the threads, and the rest.
ThreadTypes ==
    /\ at \in [Threads -> Places] /\ op \in [Threads -> Operations]
    /\ addr \in [Threads -> Addresses \cup {0}]
    /\ \A t \in Threads : at[t] = "wait" => addr[t] \in Addresses

LockTypes == owner \in Threads \cup {Nobody} /\ depth \in 0..2

TableTypes ==
    /\ stage \in {"poll", "check", "stats", "scan"} /\ checkAge \in 0..CheckPeriod
    /\ left \subseteq Addresses /\ overdue \subseteq Addresses
    /\ online \in [Addresses -> BOOLEAN] /\ seen \in [Addresses -> 0..Never]
    /\ last \in [Addresses -> {"none", "connected", "lost"}] /\ found \subseteq Addresses

Slots == 0..(RingSize - 1)

RingTypes ==
    /\ ring \in [Slots -> Nat \cup {NoEvent}] /\ events \in Nat
    /\ listing \in [want : Nat, next : Nat, stop : Nat, out : Seq(Nat \cup {NoEvent})]

LEMMA TypesByParts == TypeInv <=> ThreadTypes /\ LockTypes /\ TableTypes /\ RingTypes
BY DEF TypeInv, TrackerTypeOK, ThreadTypes, LockTypes, TableTypes, RingTypes, Operations, Slots

LEMMA TypesInit == TrackerInit => TypeInv
<1> SUFFICES ASSUME TrackerInit PROVE TypeInv
  OBVIOUS
<1>1. ThreadTypes /\ LockTypes /\ TableTypes
  BY TrackerAssumption DEF TrackerInit, ThreadTypes, LockTypes, TableTypes, Operations, Places,
     Threads, Nobody, Never
<1>2. RingTypes
  BY TrackerAssumption DEF TrackerInit, RingTypes, NoListing, NoEvent, Slots
<1> QED
  BY <1>1, <1>2, TypesByParts

\* Operations of a thread that begins or ends one, or goes on.
LEMMA BeginsTyped ==
    ASSUME ThreadTypes, NEW t \in Threads, NEW what \in Operations,
           NEW a \in Addresses \cup {0}, NEW place \in Places,
           Begins(t, what, a, place), place = "wait" => a \in Addresses
    PROVE  ThreadTypes'
BY DEF ThreadTypes, Begins, Goes

LEMMA GoesTyped ==
    ASSUME ThreadTypes, NEW t \in Threads, NEW place \in Places,
           Goes(t, place), UNCHANGED <<op, addr>>, place # "wait"
    PROVE  ThreadTypes'
BY DEF ThreadTypes, Goes

LEMMA ThreadTypesStep ==
    ASSUME ThreadTypes, [Next]_vars
    PROVE  ThreadTypes'
<1>0. /\ "main" \in Threads /\ "sniffer" \in Threads /\ "http" \in Threads
  BY DEF Threads
<1>1. ASSUME NEW t \in Threads, Enter(t) PROVE ThreadTypes'
  BY <1>1, GoesTyped DEF Enter, Places
<1>2. ASSUME NEW t \in Threads, Proceeds(t) PROVE ThreadTypes'
  <2>1. Ends(t) => ThreadTypes'
    BY BeginsTyped DEF Ends, Places, Operations
  <2>2. Begins(t, "scan", 0, "ask") => ThreadTypes'
    BY BeginsTyped DEF Places, Operations
  <2>3. CASE Leave(t)
    BY <2>1, <2>3 DEF Leave
  <2>4. CASE StatusCountsOnline(t) \/ CountReturns(t) \/ Read(t)
    BY <2>4, GoesTyped DEF StatusCountsOnline, CountReturns, Read, Places
  <2>5. CASE ScanSilent(t) \/ ScanSeen(t)
    BY <2>1, <2>2, <2>5 DEF ScanSilent, ScanSeen, ScanGoesOn
  <2>6. CASE ScanAnswered(t)
    BY <2>1, <2>6, GoesTyped DEF ScanAnswered, Places
  <2> QED
    BY <1>2, <2>3, <2>4, <2>5, <2>6 DEF Proceeds
<1>3. CASE TrackPacket \/ RecordConnection \/ StartListing \/ CheckEnds
  BY <1>0, <1>3, GoesTyped DEF TrackPacket, RecordConnection, StartListing, CheckEnds, Places
<1>4. CASE UNCHANGED threadVars
  BY <1>4 DEF threadVars, ThreadTypes
<1>5. CASE ListEvent
  BY <1>0, <1>4, <1>5, GoesTyped DEF ListEvent, Places, threadVars
<1>6. ASSUME NEW a \in Addresses,
             ScanNext(a) \/ TcpScanDevice(a) \/ PacketArrives(a) \/ HttpScanDevice(a)
      PROVE  ThreadTypes'
  <2>1. a \in Addresses \cup {0}
    OBVIOUS
  <2> QED
    BY <1>0, <1>6, <2>1, BeginsTyped DEF ScanNext, TcpScanDevice, PacketArrives,
       HttpScanDevice, Places, Operations
<1>7. ASSUME NEW what \in {"status", "query"}, TcpQuery(what) \/ HttpQuery(what)
      PROVE  ThreadTypes'
  BY <1>0, <1>7, BeginsTyped DEF TcpQuery, HttpQuery, Places, Operations
<1>8. ASSUME NEW n \in Wants, TcpGetEvents(n) PROVE ThreadTypes'
  BY <1>0, <1>8, BeginsTyped DEF TcpGetEvents, Places, Operations
<1>9. CASE CheckDue \/ Statistics \/ ActiveScan
  <2>1. \/ UNCHANGED threadVars
        \/ Begins("main", "timeouts", 0, "lock") \/ Begins("main", "query", 0, "lock")
        \/ Begins("main", "scan", 0, "ask")
    BY <1>9 DEF CheckDue, Statistics, ActiveScan
  <2> QED
    BY <1>0, <1>4, <2>1, BeginsTyped DEF Places, Operations
<1>10. CASE ScanEnds
  BY <1>0, <1>10, BeginsTyped DEF ScanEnds, Ends, Places, Operations
<1>11. ASSUME NEW a \in Addresses, CheckDevice(a) PROVE ThreadTypes'
  BY <1>4, <1>11 DEF CheckDevice
<1>12. CASE PollNothing \/ Tick \/ UNCHANGED vars
  BY <1>4, <1>12 DEF PollNothing, Tick, vars
<1> QED
  BY <1>0, <1>1, <1>2, <1>3, <1>5, <1>6, <1>7, <1>8, <1>9, <1>10, <1>11, <1>12
     DEF Next, SnifferProceeds, MainProceeds, HttpProceeds

LEMMA RefreshTyped ==
    ASSUME TableTypes, NEW a, Refresh(a)
    PROVE  seen' \in [Addresses -> 0..Never] /\ overdue' \subseteq Addresses
<1>1. 0 \in 0..Never
  BY TrackerAssumption DEF Never
<1> QED
  BY <1>1 DEF TableTypes, Refresh

LEMMA TableTypesStep ==
    ASSUME ThreadTypes, TableTypes, [Next]_vars
    PROVE  TableTypes'
<1> USE TrackerAssumption
<1>1. ASSUME UNCHANGED <<loopVars, tableVars>> PROVE TableTypes'
  BY <1>1 DEF TableTypes, loopVars, tableVars
<1>2. ASSUME NEW t \in Threads, Enter(t) PROVE TableTypes'
  BY <1>1, <1>2 DEF Enter
<1>3. ASSUME NEW t \in Threads, Proceeds(t) PROVE TableTypes'
  <2>1. CASE Leave(t)
    <3>1. UNCHANGED <<left, tableVars>>
      BY <2>1 DEF Leave
    <3>2. \/ UNCHANGED <<stage, checkAge, overdue>>
          \/ stage' = "stats" /\ checkAge' = 0 /\ overdue' = {}
      BY <2>1 DEF Leave
    <3>3. left' = left /\ online' = online /\ seen' = seen /\ last' = last /\ found' = found
      BY <3>1 DEF tableVars
    <3>4. /\ stage' \in {"poll", "check", "stats", "scan"} /\ checkAge' \in 0..CheckPeriod
          /\ overdue' \subseteq Addresses
      <4>1. 0 \in 0..CheckPeriod
        OBVIOUS
      <4>2. CASE UNCHANGED <<stage, checkAge, overdue>>
        BY <4>2 DEF TableTypes
      <4>3. CASE stage' = "stats" /\ checkAge' = 0 /\ overdue' = {}
        BY <4>1, <4>3
      <4> QED
        BY <3>2, <4>2, <4>3
    <3> QED
      BY <3>3, <3>4 DEF TableTypes
  <2>2. CASE StatusCountsOnline(t) \/ CountReturns(t) \/ Read(t)
    BY <1>1, <2>2 DEF StatusCountsOnline, CountReturns, Read
  <2>3. CASE ScanSilent(t)
    BY <2>3 DEF ScanSilent, ScanGoesOn, TableTypes, tableVars
  <2>4. CASE ScanSeen(t)
    <3>1. UNCHANGED <<stage, checkAge, online, last, found>> /\ Refresh(addr[t])
      BY <2>4 DEF ScanSeen
    <3>2. left' \subseteq Addresses
      BY <2>4 DEF ScanSeen, ScanGoesOn, TableTypes
    <3> QED
      BY <3>1, <3>2, RefreshTyped DEF TableTypes
  <2>5. CASE ScanAnswered(t)
    BY <2>5 DEF ScanAnswered, TableTypes, ThreadTypes, loopVars
  <2> QED
    BY <1>3, <2>1, <2>2, <2>3, <2>4, <2>5 DEF Proceeds
<1>4. CASE TrackPacket
  <2>1. /\ UNCHANGED <<stage, checkAge, left, last, found>> /\ Refresh(addr["sniffer"])
        /\ online' = [online EXCEPT ![addr["sniffer"]] = TRUE]
    BY <1>4 DEF TrackPacket
  <2> QED
    BY <2>1, RefreshTyped DEF TableTypes
<1>5. CASE RecordConnection
  BY <1>5 DEF RecordConnection, Record, TableTypes, loopVars
<1>6. CASE StartListing \/ ListEvent \/ CheckEnds \/ ScanEnds
  BY <1>1, <1>6 DEF StartListing, ListEvent, CheckEnds, ScanEnds
<1>7. ASSUME NEW a \in Addresses,
             ScanNext(a) \/ PacketArrives(a) \/ HttpScanDevice(a)
      PROVE  TableTypes'
  BY <1>1, <1>7 DEF ScanNext, PacketArrives, HttpScanDevice
<1>8. ASSUME NEW a \in Addresses, CheckDevice(a) PROVE TableTypes'
  BY <1>8 DEF CheckDevice, Record, TableTypes, ringVars
<1>9. ASSUME NEW a \in Addresses, TcpScanDevice(a) PROVE TableTypes'
  BY <1>9 DEF TcpScanDevice, TableTypes, tableVars
<1>10. ASSUME NEW what, TcpQuery(what) PROVE TableTypes'
  BY <1>10 DEF TcpQuery, TableTypes, tableVars
<1>11. ASSUME NEW what, HttpQuery(what) PROVE TableTypes'
  BY <1>1, <1>11 DEF HttpQuery
<1>12. ASSUME NEW n \in Wants, TcpGetEvents(n) PROVE TableTypes'
  BY <1>12 DEF TcpGetEvents, TableTypes, tableVars
<1>13. CASE PollNothing \/ CheckDue \/ Statistics \/ ActiveScan
  BY <1>13 DEF PollNothing, CheckDue, Statistics, ActiveScan, TableTypes, tableVars, threadVars
<1>14. CASE Tick
  BY <1>14 DEF Tick, TableTypes, Aged, Never, Stale
<1>15. CASE UNCHANGED vars
  BY <1>1, <1>15 DEF vars
<1>16. Threads = {"main", "sniffer", "http"}
  BY DEF Threads
<1> QED
  BY <1>2, <1>3, <1>4, <1>5, <1>6, <1>7, <1>8, <1>9, <1>10, <1>11, <1>12, <1>13, <1>14, <1>15,
     <1>16 DEF Next, SnifferProceeds, MainProceeds, HttpProceeds


-----------------------------------------------------------------------------
(* GET_EVENTS.                                                             *)

\* How many events tracker_format_events sets out to print.
Count == Min({events, RingSize, listing.want})

\* The listing so far: the Len(out) events from the first of the last Count on.
Partly ==
    /\ listing.out = [i \in 1..Len(listing.out) |-> events - Count + i - 1]
    /\ Len(listing.out) <= Count /\ Len(listing.out) <= BufEvents

Listed == listing.next = events - Count + Len(listing.out) /\ listing.stop = events

\* The ring holds the last RingSize events, each in the slot of its position; a listing is
\* part of them, and it is all of them, as far as they fit, when the lock is given back.
ListInv ==
    /\ \A p \in Nat : p < events /\ events - p <= RingSize => ring[p % RingSize] = p
    /\ \A t \in Threads : op[t] = "events" => t = "main"
    /\ at["main"] \in {"nested", "count"} => op["main"] = "status"
    /\ at["main"] = "list" => op["main"] = "events" /\ Partly /\ Listed
    /\ op["main"] = "events" => /\ at["main"] \in {"lock", "body", "list", "unlock"}
                                /\ at["main"] \in {"lock", "body"} => listing.out = <<>>
                                /\ at["main"] = "unlock" =>
                                     Partly /\ (Len(listing.out) = Count
                                                \/ Len(listing.out) = BufEvents)

LEMMA MinOfThree ==
    ASSUME NEW a \in Nat, NEW b \in Nat, NEW c \in Nat
    PROVE  Min({a, b, c}) = IF a <= b /\ a <= c THEN a ELSE IF b <= c THEN b ELSE c
<1> DEFINE m == IF a <= b /\ a <= c THEN a ELSE IF b <= c THEN b ELSE c
<1>1. m \in {a, b, c} /\ \A y \in {a, b, c} : m <= y
  OBVIOUS
<1>2. \A x \in {a, b, c} : (\A y \in {a, b, c} : x <= y) => x = m
  OBVIOUS
<1> HIDE DEF m
<1>3. (CHOOSE x \in {a, b, c} : \A y \in {a, b, c} : x <= y) = m
  BY <1>1, <1>2
<1> QED
  BY <1>3 DEF Min, m

LEMMA MinOfTwo ==
    ASSUME NEW a \in Nat, NEW b \in Nat
    PROVE  Min({a, b}) = IF a <= b THEN a ELSE b
<1>1. {a, b} = {a, b, b}
  OBVIOUS
<1> QED
  BY <1>1, MinOfThree

LEMMA ModSplit ==
    ASSUME NEW x \in Nat, NEW n \in Nat \ {0}
    PROVE  x = n * (x \div n) + (x % n) /\ x % n \in 0..(n - 1) /\ x \div n \in Nat
OBVIOUS

\* Positions less than a lap apart have different slots.
LEMMA SlotsDiffer ==
    ASSUME NEW p \in Nat, NEW e \in Nat, NEW n \in Nat \ {0}, p < e, e - p < n
    PROVE  p % n # e % n
<1> SUFFICES ASSUME p % n = e % n PROVE FALSE
  OBVIOUS
<1> DEFINE laps == (e \div n) - (p \div n)
<1>1. e - p = n * laps /\ laps \in Int
  BY ModSplit
<1> HIDE DEF laps
<1>2. CASE laps <= 0
  BY <1>1, <1>2
<1>3. CASE laps >= 1
  BY <1>1, <1>3
<1> QED
  BY <1>1, <1>2, <1>3

LEMMA CountBounds ==
    ASSUME RingTypes
    PROVE  Count \in Nat /\ Count <= events /\ Count <= RingSize
<1>1. listing.want \in Nat /\ events \in Nat /\ RingSize \in Nat
  BY TrackerAssumption DEF RingTypes
<1> QED
  BY <1>1, MinOfThree DEF Count

\* An event recorded while nobody lists keeps what the ring is for.
LEMMA RecordKeepsRing ==
    ASSUME RingTypes, ListInv, NEW a, NEW code, Record(a, code)
    PROVE  /\ ring' \in [Slots -> Nat \cup {NoEvent}] /\ events' \in Nat
           /\ \A p \in Nat : p < events' /\ events' - p <= RingSize => ring'[p % RingSize] = p
<1> USE TrackerAssumption
<1>1. ring \in [Slots -> Nat \cup {NoEvent}] /\ events \in Nat
  BY DEF RingTypes
<1>2. \A p \in Nat : p % RingSize \in Slots
  BY ModSplit DEF Slots
<1>3. ring' = [ring EXCEPT ![events % RingSize] = events] /\ events' = events + 1
  BY DEF Record
<1>4. ASSUME NEW p \in Nat, p < events', events' - p <= RingSize
      PROVE  ring'[p % RingSize] = p
  <2>1. CASE p = events
    BY <1>1, <1>2, <1>3, <2>1
  <2>2. CASE p < events
    <3>1. p % RingSize # events % RingSize
      <4>1. events - p < RingSize /\ RingSize \in Nat \ {0}
        BY <1>1, <1>3, <1>4
      <4> QED
        BY <1>1, <2>2, <4>1, SlotsDiffer
    <3>2. ring[p % RingSize] = p
      BY <1>1, <1>3, <1>4, <2>2 DEF ListInv
    <3> QED
      BY <1>1, <1>2, <1>3, <3>1, <3>2
  <2> QED
    BY <1>1, <1>3, <1>4, <2>1, <2>2
<1>5. ring' \in [Slots -> Nat \cup {NoEvent}] /\ events' \in Nat
  <2> DEFINE Entries == Nat \cup {NoEvent}
  <2>1. events \in Entries /\ ring \in [Slots -> Entries] /\ events' \in Nat
    BY <1>1, <1>3
  <2> HIDE DEF Entries
  <2>2. ring' \in [Slots -> Entries]
    BY <1>3, <2>1
  <2> QED
    BY <2>1, <2>2 DEF Entries
<1> QED
  BY <1>4, <1>5

\* A step of another thread, or of none, that records nothing.
LEMMA ListKept ==
    ASSUME ListInv, UNCHANGED <<ringVars, listing>>,
           at'["main"] = at["main"], op'["main"] = op["main"],
           \A t \in Threads : op'[t] = "events" => t = "main"
    PROVE  ListInv'
BY DEF ListInv, ringVars, Count, Partly, Listed

LEMMA ListInitial == TrackerInit => ListInv
BY DEF TrackerInit, ListInv, Threads

\* The steps of another thread t.
LEMMA OthersKeepList ==
    ASSUME ThreadTypes, ListInv, UNCHANGED <<ringVars, listing>>,
           NEW t \in Threads, t # "main", NEW place, Goes(t, place),
           op' = op \/ \E what : what # "events" /\ op' = [op EXCEPT ![t] = what]
    PROVE  ListInv'
<1>1. at'["main"] = at["main"] /\ op'["main"] = op["main"]
  BY DEF Goes, ThreadTypes, Threads
<1>2. \A s \in Threads : op'[s] = "events" => s = "main"
  BY DEF ListInv, ThreadTypes
<1> QED
  BY <1>1, <1>2, ListKept

\* The steps of the main loop that have nothing to do with a listing.
LEMMA MainKeepsList ==
    ASSUME ThreadTypes, ListInv, UNCHANGED <<ringVars, listing>>,
           NEW place, Goes("main", place), place # "list",
           op' = op \/ \E what : what # "events" /\ op' = [op EXCEPT !["main"] = what],
           op'["main"] # "events", place \in {"nested", "count"} => op'["main"] = "status"
    PROVE  ListInv'
<1>1. at'["main"] = place
  BY DEF Goes, ThreadTypes, Threads
<1>2. \A s \in Threads : op'[s] = "events" => s = "main"
  BY DEF ListInv, ThreadTypes
<1> QED
  BY <1>1, <1>2 DEF ListInv, ringVars

\* A record of another thread falls in no listing: the lock is taken.
LEMMA RecordKeepsList ==
    ASSUME ThreadTypes, RingTypes, ListInv, NEW a, NEW code, Record(a, code),
           at["main"] \notin {"list", "unlock"} \/ op["main"] # "events",
           at'["main"] = at["main"], op' = op, listing' = listing
    PROVE  ListInv'
<1>1. \A p \in Nat : p < events' /\ events' - p <= RingSize => ring'[p % RingSize] = p
  BY RecordKeepsRing
<1> QED
  BY <1>1 DEF ListInv

LEMMA ListingStarts ==
    ASSUME ThreadTypes, RingTypes, ListInv, StartListing
    PROVE  RingTypes' /\ ListInv'
<1> USE TrackerAssumption
<1>1. /\ at["main"] = "body" /\ op["main"] = "events" /\ listing.out = <<>>
  BY DEF StartListing, ListInv
<1>2. Count \in Nat /\ Count <= events /\ events \in Nat
  BY CountBounds DEF RingTypes
<1>3. /\ listing' = [listing EXCEPT !.next = events - Count, !.stop = events]
      /\ Goes("main", IF Count = 0 THEN "unlock" ELSE "list")
      /\ UNCHANGED <<op, ringVars>>
  BY DEF StartListing, Count
<1> DEFINE Entries == Nat \cup {NoEvent}
<1>4. listing \in [want : Nat, next : Nat, stop : Nat, out : Seq(Entries)]
  BY DEF RingTypes
<1>5. events - Count \in Nat
  BY <1>2
<1> HIDE DEF Entries
<1>6. /\ listing' \in [want : Nat, next : Nat, stop : Nat, out : Seq(Entries)]
      /\ listing'.want = listing.want /\ listing'.out = listing.out
      /\ listing'.next = events - Count /\ listing'.stop = events
  BY <1>2, <1>3, <1>4, <1>5
<1>7. RingTypes'
  BY <1>3, <1>6 DEF RingTypes, ringVars, Entries
<1>8. Count' = Count /\ events' = events /\ ring' = ring
  BY <1>3, <1>6 DEF Count, ringVars
<1>9. Len(listing'.out) = 0 /\ listing'.out = <<>>
  BY <1>1, <1>6
<1>10. Partly' /\ Listed'
  BY <1>2, <1>6, <1>8, <1>9 DEF Partly, Listed
<1>11. at'["main"] = IF Count = 0 THEN "unlock" ELSE "list"
  BY <1>3 DEF Goes, ThreadTypes, Threads
<1> QED
  BY <1>1, <1>3, <1>7, <1>8, <1>9, <1>10, <1>11 DEF ListInv

LEMMA ListingGoesOn ==
    ASSUME ThreadTypes, RingTypes, ListInv, ListEvent
    PROVE  RingTypes' /\ ListInv'
<1> USE TrackerAssumption
<1> DEFINE Entries == Nat \cup {NoEvent}
           out == listing.out
           n   == Len(out)
<1>1. /\ at["main"] = "list" /\ op["main"] = "events"
      /\ out = [i \in 1..n |-> events - Count + i - 1] /\ n <= Count /\ n <= BufEvents
      /\ listing.next = events - Count + n /\ listing.stop = events
  BY DEF ListEvent, ListInv, Partly, Listed
<1>2. Count \in Nat /\ Count <= events /\ Count <= RingSize /\ events \in Nat
  BY CountBounds DEF RingTypes
<1>3. /\ listing \in [want : Nat, next : Nat, stop : Nat, out : Seq(Entries)]
      /\ ring \in [Slots -> Entries] /\ n \in Nat
  BY DEF RingTypes
<1>4. UNCHANGED <<op, ringVars>>
  BY DEF ListEvent
<1>5. CASE listing.next = listing.stop \/ n = BufEvents
  <2>1. Goes("main", "unlock") /\ UNCHANGED listing
    BY <1>5 DEF ListEvent
  <2>2. n = Count \/ n = BufEvents
    BY <1>1, <1>2, <1>3, <1>5
  <2>3. RingTypes' /\ Partly' /\ Count' = Count
    BY <1>1, <1>4, <2>1 DEF RingTypes, ringVars, Count, Partly, ListInv
  <2>4. at'["main"] = "unlock"
    BY <2>1 DEF Goes, ThreadTypes, Threads
  <2> QED
    BY <1>1, <1>4, <2>1, <2>2, <2>3, <2>4 DEF ListInv, ringVars
<1>6. CASE ~(listing.next = listing.stop \/ n = BufEvents)
  <2> DEFINE p == listing.next
             m == Append(out, ring[p % RingSize])
  <2>1. /\ listing' = [listing EXCEPT !.out = m, !.next = p + 1]
        /\ UNCHANGED at
    BY <1>6 DEF ListEvent
  <2>2. p \in Nat /\ p < events /\ events - p <= RingSize /\ n < Count /\ n < BufEvents
    BY <1>1, <1>2, <1>3, <1>6
  <2>3. ring[p % RingSize] = p /\ p \in Entries
    BY <2>2 DEF ListInv
  <2>4. m = Append(out, p)
    BY <2>3
  <2>5. /\ m \in Seq(Entries) /\ Len(m) = n + 1
        /\ \A i \in 1..n : m[i] = out[i]
        /\ m[n + 1] = p
    <3> HIDE DEF Entries
    <3>1. out \in Seq(Entries)
      BY <1>3
    <3> HIDE DEF out, p, m
    <3> QED
      BY <2>3, <2>4, <3>1 DEF n
  <2>6. \A i \in 1..(n + 1) : m[i] = events - Count + i - 1
    <3>1. \A i \in 1..n : out[i] = events - Count + i - 1
      BY <1>1
    <3>2. p = events - Count + (n + 1) - 1
      BY <1>1, <1>2, <1>3
    <3> HIDE DEF m, p, out
    <3> QED
      BY <1>3, <2>5, <3>1, <3>2
  <2> HIDE DEF m, p, n, Entries
  <2>7. m = [i \in 1..(n + 1) |-> events - Count + i - 1]
    BY <2>5, <2>6
  <2>8. /\ listing' \in [want : Nat, next : Nat, stop : Nat, out : Seq(Entries)]
        /\ listing'.want = listing.want /\ listing'.out = m
        /\ listing'.next = p + 1 /\ listing'.stop = listing.stop
    <3> DEFINE Outs == Seq(Entries)
               q == p + 1
    <3>1. q \in Nat /\ m \in Outs /\ listing' = [listing EXCEPT !.out = m, !.next = q]
      BY <2>1, <2>2, <2>5
    <3>2. listing \in [want : Nat, next : Nat, stop : Nat, out : Outs]
      BY <1>3
    <3> HIDE DEF Outs, q
    <3>3. /\ listing' \in [want : Nat, next : Nat, stop : Nat, out : Outs]
          /\ listing'.want = listing.want /\ listing'.out = m
          /\ listing'.next = q /\ listing'.stop = listing.stop
      BY <3>1, <3>2
    <3> QED
      BY <3>3 DEF Outs, q
  <2>9. RingTypes'
    BY <1>4, <2>8 DEF RingTypes, ringVars, Entries
  <2>10. Count' = Count /\ events' = events /\ ring' = ring
    BY <1>4, <2>8 DEF Count, ringVars
  <2>11. Partly' /\ Listed'
    BY <1>1, <1>2, <1>3, <2>2, <2>5, <2>7, <2>8, <2>10 DEF Partly, Listed, p
  <2> QED
    BY <1>1, <1>4, <2>1, <2>9, <2>10, <2>11 DEF ListInv
<1> QED
  BY <1>5, <1>6

LEMMA RingTypesStep ==
    ASSUME ThreadTypes, RingTypes, ListInv, [Next]_vars
    PROVE  RingTypes'
<1>1. ASSUME UNCHANGED <<ringVars, listing>> PROVE RingTypes'
  BY <1>1 DEF RingTypes, ringVars
<1>2. ASSUME NEW a, NEW code, Record(a, code), UNCHANGED listing PROVE RingTypes'
  BY <1>2, RecordKeepsRing DEF RingTypes
<1>3. NoListing \in [want : Nat, next : Nat, stop : Nat, out : Seq(Nat \cup {NoEvent})]
  BY DEF NoListing
<1>4. ASSUME NEW t \in Threads, Proceeds(t) PROVE RingTypes'
  <2>1. CASE Leave(t)
    BY <1>3, <2>1 DEF Leave, RingTypes, ringVars
  <2>2. CASE ~Leave(t)
    BY <1>1, <1>4, <2>2 DEF Proceeds, StatusCountsOnline, CountReturns, Read, ScanSilent,
       ScanAnswered, ScanSeen
  <2> QED
    BY <2>1, <2>2
<1>5. ASSUME NEW n \in Wants, TcpGetEvents(n) PROVE RingTypes'
  <2>1. n \in Nat
    BY TrackerAssumption
  <2>2. listing' = [want |-> n, next |-> 0, stop |-> 0, out |-> <<>>] /\ UNCHANGED ringVars
    BY <1>5 DEF TcpGetEvents, NoListing
  <2> QED
    BY <2>1, <2>2 DEF RingTypes, ringVars
<1>6. CASE StartListing \/ ListEvent
  BY <1>6, ListingStarts, ListingGoesOn
<1>7. CASE RecordConnection
  BY <1>2, <1>7 DEF RecordConnection
<1>8. ASSUME NEW a \in Addresses, CheckDevice(a) PROVE RingTypes'
  BY <1>1, <1>2, <1>8 DEF CheckDevice
<1>9. ASSUME NEW t \in Threads, Enter(t) PROVE RingTypes'
  BY <1>1, <1>9 DEF Enter
<1>10. ASSUME NEW a \in Addresses,
              ScanNext(a) \/ TcpScanDevice(a) \/ PacketArrives(a) \/ HttpScanDevice(a)
       PROVE  RingTypes'
  BY <1>1, <1>10 DEF ScanNext, TcpScanDevice, PacketArrives, HttpScanDevice
<1>11. ASSUME NEW what, TcpQuery(what) \/ HttpQuery(what) PROVE RingTypes'
  BY <1>1, <1>11 DEF TcpQuery, HttpQuery
<1>12. CASE TrackPacket \/ ScanEnds \/ CheckEnds \/ PollNothing
  BY <1>1, <1>12 DEF TrackPacket, ScanEnds, CheckEnds, PollNothing
<1>13. CASE CheckDue \/ Statistics \/ ActiveScan \/ Tick \/ UNCHANGED vars
  BY <1>1, <1>13 DEF CheckDue, Statistics, ActiveScan, Tick, vars
<1>14. Threads = {"main", "sniffer", "http"}
  BY DEF Threads
<1> QED
  BY <1>4, <1>5, <1>6, <1>7, <1>8, <1>9, <1>10, <1>11, <1>12, <1>13, <1>14
     DEF Next, SnifferProceeds, MainProceeds, HttpProceeds

LEMMA TypeStep ==
    ASSUME LockInv, TypeInv, ListInv, [Next]_vars
    PROVE  TypeInv'
<1>1. ThreadTypes' /\ TableTypes' /\ RingTypes'
  BY TypesByParts, ThreadTypesStep, TableTypesStep, RingTypesStep
<1>2. LockTypes'
  BY LockStep DEF LockInv, LockTypes
<1> QED
  BY <1>1, <1>2 DEF TypeInv, TrackerTypeOK, ThreadTypes, LockTypes, TableTypes, RingTypes,
     Operations, Slots

\* Whoever records holds the lock, so the main loop is not at a listing.
LEMMA NoRecordInListing ==
    ASSUME LockInv, at["sniffer"] = "record"
    PROVE  at["main"] \notin {"list", "unlock"}
BY DEF LockInv, Critical, Once, Threads

LEMMA ProceedKeepsList ==
    ASSUME ThreadTypes, ListInv, NEW t \in Threads, Proceeds(t)
    PROVE  ListInv'
<1>1. CASE Leave(t)
  <2>1. Goes(t, "idle") /\ op' = [op EXCEPT ![t] = "none"] /\ UNCHANGED ringVars
    BY <1>1 DEF Leave, Ends, Begins
  <2>2. CASE t = "main"
    <3>1. at'["main"] = "idle" /\ op'["main"] = "none"
      BY <2>1, <2>2 DEF Goes, ThreadTypes, Threads
    <3>2. \A s \in Threads : op'[s] = "events" => s = "main"
      BY <2>1, <2>2 DEF ListInv, ThreadTypes
    <3> QED
      BY <2>1, <3>1, <3>2 DEF ListInv, ringVars
  <2>3. CASE t # "main"
    <3>1. UNCHANGED listing
      BY <1>1, <2>3 DEF Leave, ListInv
    <3> QED
      BY <2>1, <2>3, <3>1, OthersKeepList
  <2> QED
    BY <2>2, <2>3
<1>2. CASE StatusCountsOnline(t) \/ CountReturns(t) \/ Read(t)
  <2>1. PICK place \in {"nested", "unlock"} :
          /\ Goes(t, place) /\ op' = op /\ UNCHANGED <<ringVars, listing>>
          /\ place = "nested" => op[t] = "status"
          /\ at[t] = "count" \/ op[t] \in {"status", "query"}
    BY <1>2 DEF StatusCountsOnline, CountReturns, Read
  <2>2. CASE t = "main"
    <3>1. op["main"] # "events"
      BY <2>1, <2>2 DEF ListInv
    <3> QED
      BY <2>1, <2>2, <3>1, MainKeepsList
  <2>3. CASE t # "main"
    BY <2>1, <2>3, OthersKeepList
  <2> QED
    BY <2>2, <2>3
<1>3. CASE ScanSilent(t) \/ ScanAnswered(t) \/ ScanSeen(t)
  <2>1. PICK place \in {"idle", "ask", "seen"} :
          /\ Goes(t, place) /\ UNCHANGED <<ringVars, listing>>
          /\ op' = op \/ \E what \in {"none", "scan"} : op' = [op EXCEPT ![t] = what]
          /\ at[t] \in {"wait", "seen"}
    BY <1>3 DEF ScanSilent, ScanAnswered, ScanSeen, ScanGoesOn, Ends, Begins
  <2>2. op' = op \/ \E what : what # "events" /\ op' = [op EXCEPT ![t] = what]
    BY <2>1
  <2>3. CASE t = "main"
    <3>1. op["main"] # "events"
      BY <2>1, <2>3 DEF ListInv
    <3>2. op'["main"] # "events"
      BY <2>1, <2>3, <3>1 DEF ThreadTypes
    <3> QED
      BY <2>1, <2>2, <2>3, <3>2, MainKeepsList
  <2>4. CASE t # "main"
    BY <2>1, <2>2, <2>4, OthersKeepList
  <2> QED
    BY <2>3, <2>4
<1> QED
  BY <1>1, <1>2, <1>3 DEF Proceeds

LEMMA ListStep ==
    ASSUME LockInv, TypeInv, ListInv, [Next]_vars
    PROVE  ListInv'
<1>0. ThreadTypes /\ RingTypes
  BY TypesByParts
<1>1. Threads = {"main", "sniffer", "http"} /\ "main" # "sniffer" /\ "main" # "http"
  BY DEF Threads
<1>2. ASSUME NEW t \in Threads, Enter(t) PROVE ListInv'
  <2>1. PICK place \in {"body", "count"} :
          /\ Goes(t, place) /\ op' = op /\ UNCHANGED <<ringVars, listing>>
          /\ place = "body" => at[t] = "lock"
          /\ place = "count" => at[t] = "nested"
    BY <1>2 DEF Enter
  <2>2. CASE t = "main"
    <3>1. at'["main"] = place
      BY <1>0, <2>1, <2>2 DEF Goes, ThreadTypes
    <3> QED
      BY <2>1, <2>2, <3>1 DEF ListInv, ringVars
  <2>3. CASE t # "main"
    BY <1>0, <2>1, <2>3, OthersKeepList
  <2> QED
    BY <2>2, <2>3
<1>3. ASSUME NEW t \in Threads, Proceeds(t) PROVE ListInv'
  BY <1>0, <1>3, ProceedKeepsList
<1>4. CASE TrackPacket
  BY <1>0, <1>1, <1>4, OthersKeepList DEF TrackPacket
<1>5. CASE RecordConnection
  <2>1. Record(addr["sniffer"], "connected") /\ op' = op /\ listing' = listing
        /\ at'["main"] = at["main"]
    BY <1>0, <1>1, <1>5 DEF RecordConnection, Goes, ThreadTypes
  <2>2. at["main"] \notin {"list", "unlock"}
    BY <1>5, NoRecordInListing DEF RecordConnection
  <2> QED
    BY <1>0, <2>1, <2>2, RecordKeepsList
<1>6. CASE StartListing \/ ListEvent
  BY <1>0, <1>6, ListingStarts, ListingGoesOn
<1>7. ASSUME NEW a \in Addresses, CheckDevice(a) PROVE ListInv'
  <2>1. op["main"] # "events" /\ at' = at /\ op' = op /\ listing' = listing
    BY <1>7 DEF CheckDevice, threadVars
  <2>2. CASE UNCHANGED ringVars
    BY <2>1, <2>2, ListKept DEF ListInv
  <2>3. CASE Record(a, "lost")
    BY <1>0, <2>1, <2>3, RecordKeepsList
  <2> QED
    BY <1>7, <2>2, <2>3 DEF CheckDevice
<1>8. CASE CheckEnds
  BY <1>0, <1>8, MainKeepsList DEF CheckEnds
<1>9. ASSUME NEW a \in Addresses, PacketArrives(a) \/ HttpScanDevice(a) PROVE ListInv'
  <2>1. PICK t \in {"sniffer", "http"}, place \in {"lock", "wait"},
             what \in {"packet", "http_scan"} :
          /\ Goes(t, place) /\ op' = [op EXCEPT ![t] = what]
          /\ UNCHANGED <<ringVars, listing>>
    BY <1>9 DEF PacketArrives, HttpScanDevice, Begins
  <2> QED
    BY <1>0, <1>1, <2>1, OthersKeepList
<1>10. ASSUME NEW what \in {"status", "query"}, HttpQuery(what) PROVE ListInv'
  BY <1>0, <1>1, <1>10, OthersKeepList DEF HttpQuery, Begins
<1>11. ASSUME NEW n \in Wants, TcpGetEvents(n) PROVE ListInv'
  <2>1. /\ listing'.out = <<>> /\ UNCHANGED ringVars
        /\ Goes("main", "lock") /\ op' = [op EXCEPT !["main"] = "events"]
    BY <1>11 DEF TcpGetEvents, Begins, NoListing
  <2>2. at'["main"] = "lock" /\ op'["main"] = "events"
    BY <1>0, <1>1, <2>1 DEF ThreadTypes, Goes
  <2>3. \A s \in Threads : op'[s] = "events" => s = "main"
    BY <1>0, <2>1 DEF ThreadTypes, ListInv
  <2> QED
    BY <2>1, <2>2, <2>3 DEF ListInv, ringVars
<1>12. ASSUME UNCHANGED <<ringVars, listing>>, NEW place \in {"idle", "lock", "ask", "wait"},
              NEW what \in Operations \ {"events"},
              Goes("main", place), op' = [op EXCEPT !["main"] = what]
       PROVE  ListInv'
  <2>1. op'["main"] = what
    BY <1>0, <1>1, <1>12 DEF ThreadTypes
  <2> QED
    BY <1>0, <1>12, <2>1, MainKeepsList
<1>13. ASSUME UNCHANGED <<threadVars, ringVars, listing>> PROVE ListInv'
  BY <1>13, ListKept DEF threadVars, ListInv
<1>14. ASSUME NEW a \in Addresses, ScanNext(a) \/ TcpScanDevice(a) PROVE ListInv'
  BY <1>12, <1>14 DEF ScanNext, TcpScanDevice, Begins, Operations
<1>15. ASSUME NEW what \in {"status", "query"}, TcpQuery(what) PROVE ListInv'
  BY <1>12, <1>15 DEF TcpQuery, Begins, Operations
<1>16. CASE CheckDue \/ Statistics \/ ActiveScan \/ ScanEnds
  <2>1. /\ UNCHANGED <<ringVars, listing>>
        /\ \/ UNCHANGED threadVars
           \/ \E place \in {"idle", "lock", "ask"}, what \in {"none", "timeouts", "query", "scan"} :
                Goes("main", place) /\ op' = [op EXCEPT !["main"] = what]
    BY <1>16 DEF CheckDue, Statistics, ActiveScan, ScanEnds, Ends, Begins
  <2> QED
    BY <1>12, <1>13, <2>1 DEF Operations
<1>17. CASE PollNothing \/ Tick \/ UNCHANGED vars
  BY <1>13, <1>17 DEF PollNothing, Tick, vars
<1> QED
  BY <1>1, <1>2, <1>3, <1>4, <1>5, <1>6, <1>7, <1>8, <1>9, <1>10, <1>11, <1>14, <1>15, <1>16,
     <1>17 DEF Next, SnifferProceeds, MainProceeds, HttpProceeds

\* A listing that is over is the one GET_EVENTS promises.
LEMMA ListFollows ==
    ASSUME TypeInv, ListInv
    PROVE  ListsLatestEvents
<1> SUFFICES ASSUME at["main"] = "unlock", op["main"] = "events"
             PROVE  listing.out = [i \in 1..Min({Count, BufEvents}) |-> events - Count + i - 1]
  BY DEF ListsLatestEvents, Count
<1>1. Partly /\ (Len(listing.out) = Count \/ Len(listing.out) = BufEvents)
  BY DEF ListInv
<1>2. Count \in Nat /\ BufEvents \in Nat
  BY TypesByParts, CountBounds, TrackerAssumption
<1>3. Min({Count, BufEvents}) = Len(listing.out)
  BY <1>1, <1>2, MinOfTwo DEF Partly
<1> QED
  BY <1>1, <1>3 DEF Partly

-----------------------------------------------------------------------------

\* One thread at a time is between tracker_lock and tracker_unlock
\* (device_tracker.c:9-25), the nested call of GET_STATUS included.
THEOREM MutualExclusion ==
    Spec => [](\A s, t \in Threads : at[s] \in Critical /\ at[t] \in Critical => s = t)
<1>1. TrackerInit => LockInv
  BY InitInv
<1>2. LockInv => \A s, t \in Threads : at[s] \in Critical /\ at[t] \in Critical => s = t
  BY DEF LockInv
<1> QED  BY <1>1, <1>2, LockStep, PTL DEF Spec

\* The table and the event log agree whenever the lock is free, for any number of
\* devices and both kinds of lock, although answers to scans are written without it.
THEOREM LogMatches == Spec => []LogMatchesTable
<1>1. TrackerInit => LockInv /\ LogInv
  BY InitInv
<1>2. LockInv /\ LogInv => LogMatchesTable
  BY DEF LockInv, LogInv, LogMatchesTable, Recording, Critical, Once, Threads, Nobody
<1> QED  BY <1>1, <1>2, LockStep, LogStep, PTL DEF Spec

\* The log reports of each device connections and losses in turn, but for those that only a
\* scan found, whatever the threads do between the test of online and the record of it
\* (device_tracker.c:70-95, 128-140).
THEOREM LogTellsNews == Spec => LogAlternates
<1>1. TrackerInit => LockInv /\ LogInv
  BY InitInv
<1>2. ASSUME LockInv, LogInv, NEW a \in Addresses
      PROVE  /\ RecordConnection /\ addr["sniffer"] = a => last[a] # "connected"
             /\ CheckDevice(a) /\ events' # events => last[a] = "connected" \/ a \in found
  <2>1. ASSUME RecordConnection, addr["sniffer"] = a
        PROVE  last[a] # "connected"
    BY <1>2, <2>1 DEF RecordConnection, LogInv, Recording
  <2>2. ASSUME CheckDevice(a), events' # events
        PROVE  last[a] = "connected" \/ a \in found
    <3>1. online[a] /\ at["main"] = "body"
      BY <2>2 DEF CheckDevice, ringVars
    <3>2. at["sniffer"] # "record"
      BY <1>2, <3>1 DEF LockInv, Critical, Once, Threads
    <3> QED
      BY <1>2, <3>1, <3>2 DEF LogInv, Recording
  <2> QED
    BY <2>1, <2>2
<1>3. LockInv /\ LogInv =>
          \A a \in Addresses :
              /\ RecordConnection /\ addr["sniffer"] = a => last[a] # "connected"
              /\ CheckDevice(a) /\ events' # events => last[a] = "connected" \/ a \in found
  BY <1>2
<1> QED
  BY <1>1, <1>3, LockStep, LogStep, PTL DEF Spec, LogAlternates

LEMMA TypeAndList ==
    Spec => [](LockInv /\ TypeInv /\ ListInv)
<1>1. TrackerInit => LockInv /\ TypeInv /\ ListInv
  BY InitInv, TypesInit, ListInitial
<1>2. LockInv /\ TypeInv /\ ListInv /\ [Next]_vars => (LockInv /\ TypeInv /\ ListInv)'
  BY LockStep, TypeStep, ListStep
<1> QED
  BY <1>1, <1>2, PTL DEF Spec

\* The table, the ring, the places of the threads and the listing keep their types, for any
\* devices, ring and buffer and both kinds of lock (device_tracker.h:17-60).
THEOREM TrackerTypeCorrect == Spec => []TrackerTypeOK
BY TypeAndList, PTL DEF TypeInv

\* GET_EVENTS answers with the latest events, in order and without a gap, for every size of
\* the ring and of the buffer, however often the ring has wrapped and whatever the other
\* threads record while it waits for the lock (device_tracker.c:276-304).
THEOREM ListsLatest == Spec => []ListsLatestEvents
<1>1. TypeInv /\ ListInv => ListsLatestEvents
  BY ListFollows
<1> QED
  BY TypeAndList, <1>1, PTL

-----------------------------------------------------------------------------
(* The nested call of GET_STATUS, and who holds the lock during it.        *)
Hangs(t) == at[t] = "nested" /\ owner = t

LEMMA HangsOn ==
    ASSUME LockInv, ~Recursive, NEW t \in Threads, Hangs(t), [Next]_vars
    PROVE  Hangs(t)'
<1>0. owner = t /\ owner # Nobody /\ at[t] = "nested" /\ at \in [Threads -> Places]
      /\ \A s \in Threads : at[s] \in Critical => s = t
  BY DEF Hangs, LockInv, Threads, Nobody
<1>x. ASSUME NEW s \in Threads
      PROVE  at[s] \notin {"body", "record", "list", "unlock", "count"}
  BY <1>0 DEF Critical, Once
<1> DEFINE Still == owner' = owner /\ at'[t] = at[t]
<1> SUFFICES Still
  BY <1>0 DEF Hangs
<1>a. ASSUME NEW s \in Threads, Enter(s) PROVE Still
  BY <1>0, <1>a DEF Enter, Free
<1>b. ASSUME NEW s \in Threads, NEW place, s # t, Goes(s, place), UNCHANGED lockVars
      PROVE  Still
  BY <1>0, <1>b DEF Goes, lockVars
<1>c. ASSUME NEW s \in Threads, Proceeds(s) PROVE Still
  <2>1. ScanSilent(s) \/ ScanAnswered(s) \/ ScanSeen(s)
    BY <1>c, <1>x DEF Proceeds, Leave, StatusCountsOnline, CountReturns, Read
  <2>2. s # t
    BY <1>0, <2>1 DEF ScanSilent, ScanAnswered, ScanSeen
  <2>3. \E place : Goes(s, place) /\ UNCHANGED lockVars
    BY <2>1 DEF ScanSilent, ScanAnswered, ScanSeen, ScanGoesOn, Begins, Ends
  <2> QED
    BY <1>b, <2>2, <2>3
<1>d. "main" \in Threads /\ "sniffer" \in Threads /\ "http" \in Threads
  BY DEF Threads
<1>e. CASE TrackPacket \/ RecordConnection
  BY <1>x, <1>d, <1>e DEF TrackPacket, RecordConnection
<1>f. CASE StartListing \/ ListEvent \/ CheckEnds \/ \E a \in Addresses : CheckDevice(a)
  BY <1>x, <1>d, <1>f DEF StartListing, ListEvent, CheckEnds, CheckDevice
<1>g. ASSUME NEW a \in Addresses,
             ScanNext(a) \/ TcpScanDevice(a) \/ PacketArrives(a) \/ HttpScanDevice(a)
      PROVE  Still
  BY <1>0, <1>b, <1>d, <1>g DEF ScanNext, TcpScanDevice, PacketArrives, HttpScanDevice, MainIdle,
     Begins
<1>h. ASSUME NEW what, TcpQuery(what) \/ HttpQuery(what) PROVE Still
  BY <1>0, <1>b, <1>d, <1>h DEF TcpQuery, HttpQuery, MainIdle, Begins
<1>i. ASSUME NEW n \in Wants, TcpGetEvents(n) PROVE Still
  BY <1>0, <1>b, <1>d, <1>i DEF TcpGetEvents, MainIdle, Begins
<1>j. CASE CheckDue \/ Statistics \/ ActiveScan \/ ScanEnds
  <2>1. CASE UNCHANGED at
    BY <1>j, <2>1 DEF CheckDue, Statistics, ActiveScan, ScanEnds, lockVars
  <2>2. CASE "main" # t /\ \E place : Goes("main", place)
    BY <1>b, <1>d, <1>j, <2>2 DEF CheckDue, Statistics, ActiveScan, ScanEnds
  <2> QED
    BY <1>0, <1>j, <2>1, <2>2 DEF CheckDue, Statistics, ActiveScan, ScanEnds, MainIdle, Ends,
       Begins, threadVars
<1>k. CASE PollNothing \/ Tick \/ UNCHANGED vars
  BY <1>k DEF PollNothing, Tick, vars, lockVars, threadVars
<1> QED
  BY <1>a, <1>c, <1>d, <1>e, <1>f, <1>g, <1>h, <1>i, <1>j, <1>k
     DEF Next, SnifferProceeds, MainProceeds, HttpProceeds

\* Where the lock is the spin flag of POSIX, a thread that counts the online devices for
\* GET_STATUS never comes back, and holds the lock for ever: no other thread enters the
\* tracker again (device_tracker.c:9-16, 174-177).
THEOREM StatusHangs ==
    ASSUME ~Recursive, NEW t \in Threads
    PROVE  Spec => [](at[t] = "nested"
                        => [](at[t] = "nested" /\ \A s \in Threads : s # t => at[s] \notin Critical))
<1> DEFINE Alone == \A s \in Threads : s # t => at[s] \notin Critical
<1>1. TrackerInit => LockInv
  BY InitInv
<1>2. LockInv /\ at[t] = "nested" => Hangs(t)
  BY DEF LockInv, Hangs, Critical, Once
<1>3. LockInv /\ Hangs(t) /\ [Next]_vars => Hangs(t)'
  BY HangsOn
<1>4. LockInv /\ Hangs(t) => at[t] = "nested" /\ Alone
  BY DEF LockInv, Hangs
<1> HIDE DEF Alone
<1>5. Spec => [](at[t] = "nested" => [](at[t] = "nested" /\ Alone))
  BY <1>1, <1>2, <1>3, <1>4, LockStep, PTL DEF Spec
<1> QED
  BY <1>5 DEF Alone
=============================================================================
