----------------------------- MODULE ProxyServer -----------------------------
(***************************************************************************)
(* The TCP server of the proxy (proxy_server.c) and the two threads in it: *)
(* the main loop accepts clients and serves them in their slots, the       *)
(* sniffer broadcasts each packet to the slots (main.c).                   *)
(*                                                                         *)
(* This is the build for POSIX, where srv_lock does nothing and send() to  *)
(* a connection that was reset kills the process; the critical section of  *)
(* Windows only removes interleavings.  The kernel gives a new connection  *)
(* the lowest descriptor that is free.                                     *)
(***************************************************************************)
EXTENDS Naturals, FiniteSets

CONSTANTS
    Clients,     \* who may connect
    Slots,       \* PROXY_MAX_CLIENTS
    Descriptors, \* what accept() may return
    MaxQuits     \* bound on the QUITs of a run

Nobody == "nobody"
Http   == "http"
NoSock == 0
Slot   == 1..Slots

ASSUME ProxyAssumption ==
    /\ Slots \in Nat \ {0} /\ MaxQuits \in Nat
    /\ Descriptors \subseteq Nat \ {NoSock}
    /\ Nobody \notin Clients /\ Http \notin Clients

VARIABLES
    peer,        \* the connection of each client, as the kernel knows it
    owner,       \* the client behind each descriptor
    sock,        \* of each slot: the descriptor
    events,      \* of each slot: subscribed_events
    raw,         \* of each slot: subscribed_raw
    clientCount, \* client_count
    main,        \* where the main loop is, its slot i and its new_sock
    sniffer,     \* where the sniffer is, its slot i and the descriptor it read there
    killed,      \* by SIGPIPE
    quits,       \* history: QUITs so far
    asked,       \* history: clients whose last word on raw packets was SUBSCRIBE_RAW
    due,         \* history: clients that are to get the event of this packet
    got          \* history: clients that were sent it

kernel   == <<peer, owner, killed>>
slotVars == <<sock, events, raw, clientCount>>
history  == <<quits, asked, due, got>>
vars == <<kernel, slotVars, main, sniffer, history>>

ProxyInit ==
    /\ peer = [c \in Clients |-> "away"]
    /\ owner = [f \in Descriptors |-> Nobody]
    /\ killed = FALSE
    /\ sock = [s \in Slot |-> NoSock]
    /\ events = [s \in Slot |-> FALSE]
    /\ raw = [s \in Slot |-> FALSE]
    /\ clientCount = 0
    /\ main = [at |-> "accept", slot |-> 1, sock |-> NoSock]
    /\ sniffer = [at |-> "read", slot |-> 1, sock |-> NoSock]
    /\ quits = 0 /\ asked = {} /\ due = {} /\ got = {}

-----------------------------------------------------------------------------
(* The kernel and the clients. *)

LowestFree(f) ==
    /\ f \in Descriptors /\ owner[f] = Nobody
    /\ \A g \in Descriptors : owner[g] = Nobody => f <= g

(* Who is at the other end of a descriptor, if it is open. *)
AtEnd(f) == {c \in Clients : f \in Descriptors /\ owner[f] = c}

(* The first send() to a client that has left is answered by a reset. *)
Answered(f) == [c \in Clients |-> IF c \in AtEnd(f) /\ peer[c] = "closed"
                                  THEN "reset" ELSE peer[c]]

BrokenPipe(f) == killed' = (\E c \in AtEnd(f) : peer[c] = "reset")

Send(f) ==
    /\ peer' \in {peer, Answered(f)}
    /\ BrokenPipe(f)
    /\ UNCHANGED owner

Close(f) ==
    /\ owner' = [owner EXCEPT ![f] = Nobody]
    /\ peer' = [c \in Clients |-> IF c \in AtEnd(f) THEN "away" ELSE peer[c]]

Leaves(c) ==
    /\ peer[c] = "open"
    /\ peer' = [peer EXCEPT ![c] = "closed"]
    /\ UNCHANGED <<owner, killed, slotVars, main, sniffer, history>>

(* The HTTP thread takes descriptors, and gives them back. *)
HttpTakes(f) ==
    /\ LowestFree(f) /\ \A g \in Descriptors : owner[g] # Http
    /\ owner' = [owner EXCEPT ![f] = Http]
    /\ UNCHANGED <<peer, killed, slotVars, main, sniffer, history>>

HttpReturns(f) ==
    /\ owner[f] = Http
    /\ owner' = [owner EXCEPT ![f] = Nobody]
    /\ UNCHANGED <<peer, killed, slotVars, main, sniffer, history>>

-----------------------------------------------------------------------------
(* proxy_server_poll: a new client. *)

At(place) == main' = [main EXCEPT !.at = place]
ToSlot(s) == main' = [at   |-> IF s > Slots THEN "accept" ELSE "serve",
                      slot |-> IF s > Slots THEN 1 ELSE s,
                      sock |-> NoSock]

Accept(c) ==
    /\ main.at = "accept" /\ peer[c] = "away"
    /\ peer' = [peer EXCEPT ![c] = "open"]
    /\ got' = got \ {c}
    /\ \E f \in Descriptors :
        /\ LowestFree(f)
        /\ owner' = [owner EXCEPT ![f] = c]
        /\ main' = [main EXCEPT !.at = "slot", !.sock = f]
    /\ UNCHANGED <<killed, slotVars, sniffer, quits, asked, due>>

AcceptNobody ==
    /\ main.at = "accept"
    /\ ToSlot(1)
    /\ UNCHANGED <<kernel, slotVars, sniffer, history>>

FreeSlot(s) == sock[s] = NoSock /\ \A t \in 1..s-1 : sock[t] # NoSock

TakeSlot(s) ==
    /\ main.at = "slot" /\ FreeSlot(s)
    /\ sock' = [sock EXCEPT ![s] = main.sock]
    /\ main' = [main EXCEPT !.at = "fill", !.slot = s]
    /\ UNCHANGED <<kernel, events, raw, clientCount, sniffer, history>>

(* Faulty variant: the raw subscription of the client before is kept. *)
FillSlotKeepingRaw ==
    /\ main.at = "fill"
    /\ events' = [events EXCEPT ![main.slot] = TRUE]
    /\ clientCount' = clientCount + 1
    /\ Send(main.sock)
    /\ ToSlot(1)
    /\ UNCHANGED <<raw, sock, sniffer, history>>

(* Faulty variant: the client is not counted. *)
FillSlotUncounted ==
    /\ main.at = "fill"
    /\ events' = [events EXCEPT ![main.slot] = TRUE]
    /\ raw' = [raw EXCEPT ![main.slot] = FALSE]
    /\ Send(main.sock)
    /\ ToSlot(1)
    /\ UNCHANGED <<clientCount, sock, sniffer, history>>

(* The rest of the slot, and the welcome. *)
FillSlot ==
    /\ main.at = "fill"
    /\ events' = [events EXCEPT ![main.slot] = TRUE]
    /\ raw' = [raw EXCEPT ![main.slot] = FALSE]
    /\ clientCount' = clientCount + 1
    /\ Send(main.sock)
    /\ ToSlot(1)
    /\ UNCHANGED <<sock, sniffer, history>>

RejectClient ==
    /\ main.at = "slot"
    /\ \A s \in Slot : sock[s] # NoSock
    /\ Close(main.sock)
    /\ ToSlot(1)
    /\ UNCHANGED <<killed, slotVars, sniffer, history>>

-----------------------------------------------------------------------------
(* proxy_server_poll: the clients in their slots. *)

Client == AtEnd(sock[main.slot])
Finds(states) == main.at = "serve" /\ \E c \in Client : peer[c] \in states

NothingToRead ==
    /\ main.at = "serve"
    /\ sock[main.slot] = NoSock \/ Finds({"open"})
    /\ ToSlot(main.slot + 1)
    /\ UNCHANGED <<kernel, slotVars, sniffer, history>>

(* recv() may return several lines; the client may leave before the last. *)
Receive ==
    /\ Finds({"open"})
    /\ At("lines")
    /\ UNCHANGED <<kernel, sock, events, raw, clientCount, sniffer, history>>

Line ==
    /\ main.at = "lines"
    /\ UNCHANGED <<sock, clientCount, sniffer, got>>

SubscribeEvents(on) ==
    /\ Line
    /\ events' = [events EXCEPT ![main.slot] = on]
    /\ due' = IF on THEN due ELSE due \ Client
    /\ Send(sock[main.slot])
    /\ UNCHANGED <<main, raw, quits, asked>>

SubscribeRaw(on) ==
    /\ Line
    /\ raw' = [raw EXCEPT ![main.slot] = on]
    /\ asked' = IF on THEN asked \cup Client ELSE asked \ Client
    /\ Send(sock[main.slot])
    /\ UNCHANGED <<main, events, quits, due>>

(* Any other command answers and changes no slot. *)
Query ==
    /\ Line
    /\ Send(sock[main.slot])
    /\ UNCHANGED <<main, events, raw, quits, asked, due>>

(* A client is gone: nothing is due to it, and it has asked for nothing. *)
Gone == due' = due \ Client /\ asked' = asked \ Client

(* BYE and close(); then the slot is marked as free. *)
Quit ==
    /\ Line /\ quits < MaxQuits
    /\ BrokenPipe(sock[main.slot])
    /\ Close(sock[main.slot])
    /\ Gone
    /\ quits' = quits + 1
    /\ At("forget")
    /\ UNCHANGED <<events, raw>>

Forget ==
    /\ main.at = "forget"
    /\ sock' = [sock EXCEPT ![main.slot] = NoSock]
    /\ ToSlot(main.slot + 1)
    /\ UNCHANGED <<kernel, events, raw, clientCount, sniffer, history>>

LinesEnd ==
    /\ main.at = "lines"
    /\ ToSlot(main.slot + 1)
    /\ UNCHANGED <<kernel, slotVars, sniffer, history>>

(* recv() returned 0 or an error. *)
CloseDeparted ==
    /\ Finds({"closed", "reset"})
    /\ Close(sock[main.slot])
    /\ Gone
    /\ At("drop")
    /\ UNCHANGED <<killed, slotVars, sniffer, quits, got>>

(* Faulty variant: as after QUIT, the count is left alone. *)
DropDepartedUncounted ==
    /\ main.at = "drop"
    /\ sock' = [sock EXCEPT ![main.slot] = NoSock]
    /\ ToSlot(main.slot + 1)
    /\ UNCHANGED <<kernel, events, raw, clientCount, sniffer, history>>

(* Faulty variant: the slot keeps the descriptor that was closed. *)
DropDepartedKeepingSock ==
    /\ main.at = "drop"
    /\ clientCount' = clientCount - 1
    /\ ToSlot(main.slot + 1)
    /\ UNCHANGED <<kernel, sock, events, raw, sniffer, history>>

DropDeparted ==
    /\ main.at = "drop"
    /\ sock' = [sock EXCEPT ![main.slot] = NoSock]
    /\ clientCount' = clientCount - 1
    /\ ToSlot(main.slot + 1)
    /\ UNCHANGED <<kernel, events, raw, sniffer, history>>

-----------------------------------------------------------------------------
(* sniffer_on_packet: the event to its subscribers, then the raw bytes. *)

SnifferAt(place, s, f) == sniffer' = [at |-> place, slot |-> s, sock |-> f]

(* Who has a slot that is filled in and subscribed to events. *)
Subscribers ==
    {c \in Clients : \E s \in Slot :
        c \in AtEnd(sock[s]) /\ events[s] /\ ~(main.at = "fill" /\ main.slot = s)}

PacketArrives ==
    /\ sniffer.at = "read"
    /\ SnifferAt("event", 1, NoSock)
    /\ due' = Subscribers /\ got' = {}
    /\ UNCHANGED <<kernel, slotVars, main, quits, asked>>

Walking(place) == sniffer.at = place /\ sniffer.slot \in Slot

(* Faulty variant: the last slot is left out. *)
WalkedShort(place) == sniffer.at = place /\ sniffer.slot >= Slots

Walked(place) == sniffer.at = place /\ sniffer.slot > Slots

(* The test of a slot; send() follows, unless it is free or not subscribed. *)
Test(flag, place, sending) ==
    /\ Walking(place)
    /\ IF sock[sniffer.slot] # NoSock /\ flag[sniffer.slot]
       THEN SnifferAt(sending, sniffer.slot, sock[sniffer.slot])
       ELSE SnifferAt(place, sniffer.slot + 1, NoSock)
    /\ UNCHANGED <<kernel, slotVars, main, history>>

(* The compiler may read sock once for both, or again for send(). *)
SendTo == {sniffer.sock, sock[sniffer.slot]}

EventTest == Test(events, "event", "sendEvent")

(* Faulty variant: the slot is tried again after it was served. *)
EventSendAgain(f) ==
    /\ sniffer.at = "sendEvent" /\ f \in SendTo
    /\ Send(f)
    /\ got' = got \cup AtEnd(f)
    /\ SnifferAt("event", sniffer.slot, NoSock)
    /\ UNCHANGED <<slotVars, main, quits, asked, due>>

EventSend(f) ==
    /\ sniffer.at = "sendEvent" /\ f \in SendTo
    /\ Send(f)
    /\ got' = got \cup AtEnd(f)
    /\ SnifferAt("event", sniffer.slot + 1, NoSock)
    /\ UNCHANGED <<slotVars, main, quits, asked, due>>

(* The packet is pushed to the live events in between. *)
EventSent ==
    /\ Walked("event")
    /\ SnifferAt("raw", 1, NoSock)
    /\ due' = {} /\ got' = {}
    /\ UNCHANGED <<kernel, slotVars, main, quits, asked>>

RawTest == Test(raw, "raw", "sendRaw")

RawSend(f) ==
    /\ sniffer.at = "sendRaw" /\ f \in SendTo
    /\ Send(f)
    /\ SnifferAt("raw", sniffer.slot + 1, NoSock)
    /\ UNCHANGED <<slotVars, main, history>>

RawSent ==
    /\ Walked("raw")
    /\ SnifferAt("read", 1, NoSock)
    /\ UNCHANGED <<kernel, slotVars, main, history>>

-----------------------------------------------------------------------------
Poll ==
    \/ \E c \in Clients : Accept(c)
    \/ AcceptNobody
    \/ \E s \in Slot : TakeSlot(s)
    \/ FillSlot
    \/ RejectClient
    \/ NothingToRead
    \/ Receive
    \/ \E on \in BOOLEAN : SubscribeEvents(on) \/ SubscribeRaw(on)
    \/ Query
    \/ Quit
    \/ Forget
    \/ LinesEnd
    \/ CloseDeparted
    \/ DropDeparted

Broadcast ==
    \/ PacketArrives
    \/ EventTest
    \/ \E f \in Descriptors \cup {NoSock} : EventSend(f) \/ RawSend(f)
    \/ EventSent
    \/ RawTest
    \/ RawSent

Next ==
    /\ ~killed
    /\ \/ Poll
       \/ Broadcast
       \/ \E c \in Clients : Leaves(c)
       \/ \E f \in Descriptors : HttpTakes(f) \/ HttpReturns(f)

Spec == ProxyInit /\ [][Next]_vars

-----------------------------------------------------------------------------
MainStates ==
    [at : {"accept", "slot", "fill", "serve", "lines", "forget", "drop"},
     slot : Slot, sock : Descriptors \cup {NoSock}]

SnifferStates ==
    [at : {"read", "event", "sendEvent", "raw", "sendRaw"},
     slot : 1..Slots+1, sock : Descriptors \cup {NoSock}]

\* Every variable keeps its type: client_count is never negative, and the sniffer
\* sends to no slot past the last.
ProxyTypeOK ==
    /\ peer \in [Clients -> {"away", "open", "closed", "reset"}]
    /\ owner \in [Descriptors -> Clients \cup {Nobody, Http}]
    /\ killed \in BOOLEAN
    /\ sock \in [Slot -> Descriptors \cup {NoSock}]
    /\ events \in [Slot -> BOOLEAN] /\ raw \in [Slot -> BOOLEAN]
    /\ clientCount \in Nat
    /\ main \in MainStates /\ sniffer \in SnifferStates
    /\ sniffer.at \in {"sendEvent", "sendRaw"} => sniffer.slot \in Slot
    /\ quits \in 0..MaxQuits
    /\ asked \subseteq Clients /\ due \subseteq Clients /\ got \subseteq Clients

Occupied == {s \in Slot : sock[s] # NoSock}

\* Between two of its steps with a slot, the main loop counts every client that has one,
\* and every one that ever sent QUIT, which nothing takes back (proxy_server.c:431-437
\* against :628-647).
CountTracksClients ==
    main.at \in {"accept", "slot", "serve", "lines"}
        => clientCount = Cardinality(Occupied) + quits

\* While the main loop closes, reuses and fills slots, two of them never hold the same
\* descriptor, so nobody reads what another client sent (proxy_server.c:544-649).
NoSharedDescriptor ==
    \A s, t \in Occupied : s # t => sock[s] # sock[t]

\* A slot that is subscribed to raw packets belongs to a client that asked for them,
\* whoever had the slot before; only between the two steps of an accept the old
\* subscription is still there (proxy_server.c:557-560, 158-170).
NoStaleSubscription ==
    \A s \in Occupied :
        raw[s] /\ ~(main.at = "fill" /\ main.slot = s) => AtEnd(sock[s]) \subseteq asked

\* A client that is subscribed when a packet arrives, and stays, is sent its event
\* although slots are closed and reused during the broadcast (proxy_server.c:667-682).
SubscribersHearPackets == [][EventSent => due \subseteq got]_vars

\* ... and is sent it once, although another slot's descriptor may be closed and given
\* to somebody else between the test and send().
NoPacketTwice ==
    [][\A f \in Descriptors : EventSend(f) => AtEnd(f) \cap got \cap due = {}]_vars

\* Clients that come and go do not end the proxy (docs/TESTING_WITHOUT_HARDWARE.md:425,
\* "No crashes" when clients disconnect under traffic).
NoCrash == ~killed
=============================================================================
