-------------------------- MODULE ProxyServerProofs --------------------------
(***************************************************************************)
(* For any number of clients and slots: no two slots share a descriptor,   *)
(* no subscription is inherited, client_count is what QUIT makes of it,    *)
(* a client that subscribes and stays gets every packet once, and clients  *)
(* that leave by QUIT do not end the proxy.                                *)
(***************************************************************************)
EXTENDS ProxyServer, FiniteSetTheorems, TLAPS

Closing(s) == main.at \in {"forget", "drop"} /\ main.slot = s
Filling(s) == main.at = "fill" /\ main.slot = s

(* Who owns the descriptors of the slots, and of a client not yet in one. *)
OwnInv ==
    /\ \A s \in Occupied : owner[sock[s]] \in Clients <=> ~Closing(s)
    /\ NoSharedDescriptor
    /\ main.at = "slot" => /\ main.sock \in Descriptors
                           /\ owner[main.sock] \in Clients
                           /\ \A s \in Slot : sock[s] # main.sock
    /\ main.at \in {"fill", "lines", "forget", "drop"} => main.slot \in Occupied
    /\ \A f, g \in Descriptors : owner[f] \in Clients /\ owner[f] = owner[g] => f = g
    /\ \A f \in Descriptors : owner[f] \in Clients => peer[owner[f]] # "away"

(* The count, while a slot is taken and not yet counted, or counted as a     *)
(* QUIT and not yet free.                                                    *)
CountInv ==
    clientCount = Cardinality(Occupied) + quits
                    - (IF main.at \in {"fill", "forget"} THEN 1 ELSE 0)

(* A client that is due sits in a slot, and has the packet if the sniffer    *)
(* has passed that slot; only there does the sniffer hold its descriptor.    *)
HearsIn(c, s) ==
    /\ c \in AtEnd(sock[s]) /\ events[s] /\ ~Filling(s)
    /\ c \in got <=> s < sniffer.slot
    /\ sniffer.at = "sendEvent" => (sniffer.sock = sock[s] <=> s = sniffer.slot)

HearInv ==
    /\ sniffer.at \notin {"event", "sendEvent"} => due = {}
    /\ \A c \in due : \E s \in Slot : HearsIn(c, s)

USE ProxyAssumption DEF ProxyAssumption, NoSock, Slot

-----------------------------------------------------------------------------
LEMMA OccupiedIsFinite == IsFiniteSet(Occupied)
<1>1. IsFiniteSet(1..Slots)
  BY FS_Interval
<1> QED
  BY <1>1, FS_Subset DEF Occupied

LEMMA ToSlotType ==
    ASSUME NEW s \in 1..Slots+1, ToSlot(s)
    PROVE  main' \in MainStates /\ main'.at \in {"accept", "serve"} /\ main'.sock = NoSock
BY DEF ToSlot, MainStates

LEMMA AtType ==
    ASSUME main \in MainStates, NEW place \in {"lines", "forget", "drop"}, At(place)
    PROVE  /\ main' \in MainStates
           /\ main'.at = place /\ main'.slot = main.slot /\ main'.sock = main.sock
BY DEF At, MainStates

LEMMA NextSlot ==
    ASSUME main \in MainStates
    PROVE  1 \in 1..Slots+1 /\ main.slot + 1 \in 1..Slots+1 /\ main.slot \in Slot
BY DEF MainStates

LEMMA TypeStep ==
    ASSUME ProxyTypeOK, OwnInv, CountInv, [Next]_vars
    PROVE  ProxyTypeOK'
<1> USE DEF ProxyTypeOK, kernel, slotVars, history, Line, Send, Close, BrokenPipe, Answered
<1>1. CASE UNCHANGED vars
  BY <1>1 DEF vars
<1>2. CASE \E c \in Clients : Accept(c)
  <2>1. PICK c \in Clients, f \in Descriptors :
            /\ Accept(c)
            /\ owner' = [owner EXCEPT ![f] = c]
            /\ main' = [main EXCEPT !.at = "slot", !.sock = f]
    BY <1>2 DEF Accept
  <2>2. main' \in MainStates
    BY <2>1 DEF MainStates
  <2>3. peer' = [peer EXCEPT ![c] = "open"] /\ got' = got \ {c}
    BY <2>1 DEF Accept
  <2>4. UNCHANGED <<killed, slotVars, sniffer, quits, asked, due>>
    BY <2>1 DEF Accept
  <2>5. owner' \in [Descriptors -> Clients \cup {Nobody, Http}]
    BY <2>1
  <2>6. peer' \in [Clients -> {"away", "open", "closed", "reset"}] /\ got' \subseteq Clients
    BY <2>3
  <2> QED
    BY <2>2, <2>4, <2>5, <2>6
<1>3. CASE AcceptNobody \/ NothingToRead \/ Receive \/ LinesEnd
  <2>1. UNCHANGED <<kernel, slotVars, sniffer, history>>
    BY <1>3 DEF AcceptNobody, NothingToRead, Receive, LinesEnd
  <2>2. At("lines") \/ ToSlot(1) \/ ToSlot(main.slot + 1)
    BY <1>3 DEF AcceptNobody, NothingToRead, Receive, LinesEnd
  <2>3. main' \in MainStates
    BY <2>2, ToSlotType, AtType, NextSlot
  <2> QED
    BY <2>1, <2>3
<1>4. CASE \E s \in Slot : TakeSlot(s)
  BY <1>4 DEF TakeSlot, MainStates
<1>5. CASE FillSlot
  BY <1>5, ToSlotType, NextSlot DEF FillSlot
<1>6. CASE RejectClient
  <2>1. /\ Close(main.sock) /\ ToSlot(1)
        /\ UNCHANGED <<killed, slotVars, sniffer, history>>
    BY <1>6 DEF RejectClient
  <2>2. main' \in MainStates
    BY <2>1, ToSlotType, NextSlot
  <2> QED
    BY <2>1, <2>2
<1>7. CASE \E on \in BOOLEAN : SubscribeEvents(on) \/ SubscribeRaw(on)
  <2>1. PICK on \in BOOLEAN : SubscribeEvents(on) \/ SubscribeRaw(on)
    BY <1>7
  <2>2. Send(sock[main.slot]) /\ UNCHANGED <<main, sock, clientCount, sniffer, got, quits>>
    BY <2>1 DEF SubscribeEvents, SubscribeRaw
  <2>3. events' \in [Slot -> BOOLEAN] /\ raw' \in [Slot -> BOOLEAN]
    BY <2>1 DEF SubscribeEvents, SubscribeRaw
  <2>4. asked' \subseteq Clients /\ due' \subseteq Clients
    BY <2>1 DEF SubscribeEvents, SubscribeRaw, Client, AtEnd
  <2> QED
    BY <2>2, <2>3, <2>4
<1>8. CASE Query
  BY <1>8 DEF Query
<1>9. CASE Quit
  <2>1. main' \in MainStates
    BY <1>9, AtType DEF Quit
  <2>2. quits' \in 0..MaxQuits
    BY <1>9 DEF Quit
  <2> QED
    BY <1>9, <2>1, <2>2 DEF Quit, Gone
<1>10. CASE Forget
  BY <1>10, ToSlotType, NextSlot DEF Forget
<1>11. CASE CloseDeparted
  BY <1>11, AtType DEF CloseDeparted, Gone
<1>12. CASE DropDeparted
  <2>1. Occupied # {} /\ clientCount = Cardinality(Occupied) + quits
    BY <1>12 DEF DropDeparted, OwnInv, CountInv
  <2>2. Cardinality(Occupied) \in Nat \ {0}
    BY <2>1, OccupiedIsFinite, FS_CardinalityType, FS_EmptySet
  <2>3. clientCount' \in Nat
    BY <1>12, <2>1, <2>2 DEF DropDeparted
  <2>4. sock' \in [Slot -> Descriptors \cup {NoSock}]
    BY <1>12 DEF DropDeparted
  <2>5. main' \in MainStates /\ UNCHANGED <<kernel, events, raw, sniffer, history>>
    BY <1>12, ToSlotType, NextSlot DEF DropDeparted
  <2> QED
    BY <2>3, <2>4, <2>5
<1>13. CASE PacketArrives
  BY <1>13 DEF PacketArrives, Subscribers, SnifferAt, SnifferStates
<1>14. CASE EventTest \/ RawTest
  BY <1>14 DEF EventTest, RawTest, Test, Walking, SnifferAt, SnifferStates
<1>15. CASE \E f \in Descriptors \cup {NoSock} : EventSend(f) \/ RawSend(f)
  <2>1. PICK f \in Descriptors \cup {NoSock} : EventSend(f) \/ RawSend(f)
    BY <1>15
  <2>2. /\ sniffer.at \in {"sendEvent", "sendRaw"}
        /\ \E place \in {"event", "raw"} : SnifferAt(place, sniffer.slot + 1, NoSock)
    BY <2>1 DEF EventSend, RawSend
  <2>a. sniffer' \in SnifferStates /\ sniffer'.at \in {"event", "raw"}
    BY <2>2 DEF SnifferAt, SnifferStates
  <2>3. Send(f) /\ got' \in SUBSET Clients
    BY <2>1 DEF EventSend, RawSend, AtEnd
  <2> QED
    BY <2>1, <2>a, <2>3 DEF EventSend, RawSend
<1>16. CASE EventSent \/ RawSent
  BY <1>16 DEF EventSent, RawSent, Walked, SnifferAt, SnifferStates
<1>17. CASE \E c \in Clients : Leaves(c)
  BY <1>17 DEF Leaves
<1>18. CASE \E f \in Descriptors : HttpTakes(f) \/ HttpReturns(f)
  BY <1>18 DEF HttpTakes, HttpReturns
<1> QED
  BY <1>1, <1>2, <1>3, <1>4, <1>5, <1>6, <1>7, <1>8, <1>9, <1>10, <1>11, <1>12,
     <1>13, <1>14, <1>15, <1>16, <1>17, <1>18 DEF Next, Poll, Broadcast

-----------------------------------------------------------------------------
(* A closed descriptor has no client; of the others nothing changes.         *)
LEMMA CloseKeeps ==
    ASSUME ProxyTypeOK, OwnInv, NEW f \in Descriptors, Close(f)
    PROVE  /\ owner'[f] \notin Clients
           /\ \A g \in Descriptors : g # f => owner'[g] = owner[g]
           /\ \A g \in Descriptors : owner'[g] \in Clients => peer'[owner'[g]] # "away"
           /\ \A g, h \in Descriptors : owner'[g] \in Clients /\ owner'[g] = owner'[h] => g = h
<1>1. owner' = [owner EXCEPT ![f] = Nobody]
      /\ peer' = [c \in Clients |-> IF c \in AtEnd(f) THEN "away" ELSE peer[c]]
  BY DEF Close
<1>2. owner'[f] = Nobody /\ \A g \in Descriptors : g # f => owner'[g] = owner[g]
  BY <1>1 DEF ProxyTypeOK
<1>3. ASSUME NEW g \in Descriptors, owner'[g] \in Clients
      PROVE  g # f /\ owner[g] = owner'[g] /\ peer'[owner'[g]] # "away"
  <2>1. g # f /\ owner[g] = owner'[g]
    BY <1>2, <1>3
  <2>2. owner[g] \notin AtEnd(f) /\ peer[owner[g]] # "away"
    BY <1>3, <2>1 DEF OwnInv, AtEnd
  <2> QED
    BY <1>1, <1>3, <2>1, <2>2
<1>4. ASSUME NEW g \in Descriptors, NEW h \in Descriptors, owner'[g] \in Clients,
             owner'[g] = owner'[h]
      PROVE  g = h
  <2>1. owner[g] = owner'[g] /\ owner[h] = owner'[h]
    BY <1>3, <1>4
  <2> QED
    BY <1>4, <2>1 DEF OwnInv
<1> QED
  BY <1>2, <1>3, <1>4

LEMMA OwnStep ==
    ASSUME ProxyTypeOK, ProxyTypeOK', OwnInv, [Next]_vars
    PROVE  OwnInv'
<1> USE ToSlotType, AtType, NextSlot
    DEF ProxyTypeOK, OwnInv, NoSharedDescriptor, Occupied, Closing, kernel, slotVars,
        Line, AtEnd
<1>a. ASSUME UNCHANGED <<peer, owner, sock, main>> PROVE OwnInv'
  BY <1>a
<1>b. ASSUME UNCHANGED <<peer, owner, sock>>, main'.at \in {"accept", "serve"},
             main.at \notin {"forget", "drop"}
      PROVE  OwnInv'
  BY <1>b
<1>c. ASSUME NEW f, peer' \in {peer, Answered(f)}, UNCHANGED <<owner, sock>>,
             \/ main' = main
             \/ main'.at \in {"accept", "serve"} /\ main.at \notin {"forget", "drop"}
      PROVE  OwnInv'
  <2>1. \A c \in Clients : peer[c] # "away" => peer'[c] # "away"
    BY <1>c DEF Answered
  <2>2. \A g \in Descriptors : owner[g] \in Clients => peer'[owner[g]] # "away"
    BY <2>1
  <2> QED
    BY <1>c, <2>2
<1>1. CASE UNCHANGED vars
  BY <1>1, <1>a DEF vars
<1>2. CASE \E c \in Clients : Accept(c)
  <2>a. PICK c \in Clients : Accept(c)
    BY <1>2
  <2>1. PICK f \in Descriptors :
            /\ Accept(c) /\ LowestFree(f)
            /\ owner' = [owner EXCEPT ![f] = c]
            /\ main' = [main EXCEPT !.at = "slot", !.sock = f]
    BY <2>a DEF Accept
  <2>2. /\ main'.at = "slot" /\ main'.sock = f /\ main.at = "accept" /\ sock' = sock
        /\ peer' = [peer EXCEPT ![c] = "open"] /\ peer[c] = "away" /\ owner[f] = Nobody
    BY <2>1 DEF Accept, MainStates, LowestFree
  <2>3. \A g \in Descriptors : owner[g] # c
    BY <2>2
  <2>4. \A s \in Slot : sock[s] # f
    BY <2>2
  <2> QED
    BY <2>1, <2>2, <2>3, <2>4
<1>3. CASE AcceptNobody \/ NothingToRead \/ LinesEnd
  BY <1>3, <1>b DEF AcceptNobody, NothingToRead, LinesEnd, Finds
<1>4. CASE Receive
  BY <1>4 DEF Receive, Finds, Client
<1>5. CASE \E s \in Slot : TakeSlot(s)
  <2>1. PICK s \in Slot : TakeSlot(s)
    BY <1>5
  <2>2. /\ main'.at = "fill" /\ main'.slot = s /\ main.at = "slot" /\ sock[s] = NoSock
        /\ sock' = [sock EXCEPT ![s] = main.sock] /\ UNCHANGED <<peer, owner>>
    BY <2>1 DEF TakeSlot, MainStates, FreeSlot
  <2> QED
    BY <2>2
<1>6. CASE FillSlot
  <2>1. /\ main.at = "fill" /\ main'.at \in {"accept", "serve"} /\ UNCHANGED <<sock, owner>>
        /\ peer' \in {peer, Answered(main.sock)}
    BY <1>6 DEF FillSlot, Send
  <2> QED
    BY <2>1, <1>c
<1>7. CASE RejectClient
  <2>1. /\ main.at = "slot" /\ main'.at \in {"accept", "serve"} /\ sock' = sock
        /\ Close(main.sock)
    BY <1>7 DEF RejectClient
  <2>2. main.sock \in Descriptors /\ \A s \in Slot : sock[s] # main.sock
    BY <2>1
  <2>k. /\ owner'[main.sock] \notin Clients
        /\ \A g \in Descriptors : g # main.sock => owner'[g] = owner[g]
        /\ \A g \in Descriptors : owner'[g] \in Clients => peer'[owner'[g]] # "away"
        /\ \A g, h \in Descriptors : owner'[g] \in Clients /\ owner'[g] = owner'[h] => g = h
    <3> HIDE DEF ProxyTypeOK, OwnInv
    <3> QED
      BY <2>1, <2>2, CloseKeeps
  <2>3. ASSUME NEW s \in Occupied
        PROVE  sock[s] \in Descriptors /\ owner'[sock[s]] = owner[sock[s]]
    <3>1. sock[s] \in Descriptors /\ sock[s] # main.sock
      BY <2>2, <2>3
    <3> HIDE DEF ProxyTypeOK, OwnInv
    <3> QED
      BY <2>k, <3>1, Zenon
  <2> QED
    BY <2>1, <2>2, <2>3, <2>k
<1>8. CASE Query \/ \E on \in BOOLEAN : SubscribeEvents(on) \/ SubscribeRaw(on)
  <2>1. /\ UNCHANGED <<sock, owner, main>> /\ peer' \in {peer, Answered(sock[main.slot])}
    BY <1>8 DEF Query, SubscribeEvents, SubscribeRaw, Send
  <2> QED
    BY <2>1, <1>c
<1>9. CASE Quit \/ CloseDeparted
  <2>1. /\ main.at \in {"lines", "serve"} /\ main'.at \in {"forget", "drop"}
        /\ main'.slot = main.slot /\ sock' = sock /\ Close(sock[main.slot])
        /\ sock[main.slot] # NoSock
    BY <1>9 DEF Quit, CloseDeparted, Finds, Client
  <2>2. main.slot \in Occupied /\ sock[main.slot] \in Descriptors
    BY <2>1
  <2>k. /\ owner'[sock[main.slot]] \notin Clients
        /\ \A g \in Descriptors : g # sock[main.slot] => owner'[g] = owner[g]
        /\ \A g \in Descriptors : owner'[g] \in Clients => peer'[owner'[g]] # "away"
        /\ \A g, h \in Descriptors : owner'[g] \in Clients /\ owner'[g] = owner'[h] => g = h
    <3> HIDE DEF ProxyTypeOK, OwnInv
    <3> QED
      BY <2>1, <2>2, CloseKeeps
  <2>3. ASSUME NEW s \in Occupied, s # main.slot
        PROVE  sock[s] \in Descriptors /\ owner'[sock[s]] = owner[sock[s]]
    <3>1. sock[s] \in Descriptors /\ sock[s] # sock[main.slot]
      BY <2>2, <2>3
    <3> HIDE DEF ProxyTypeOK, OwnInv
    <3> QED
      BY <2>k, <3>1, Zenon
  <2>4. \A s \in Occupied : owner'[sock[s]] \in Clients <=> s # main.slot
    BY <2>1, <2>3, <2>k
  <2> QED
    BY <2>1, <2>2, <2>4, <2>k
<1>10. CASE Forget \/ DropDeparted
  <2>1. /\ main.at \in {"forget", "drop"} /\ main'.at \in {"accept", "serve"}
        /\ sock' = [sock EXCEPT ![main.slot] = NoSock] /\ UNCHANGED <<peer, owner>>
    BY <1>10 DEF Forget, DropDeparted
  <2> QED
    BY <2>1
<1>11. CASE PacketArrives \/ EventTest \/ RawTest \/ EventSent \/ RawSent
  BY <1>11, <1>a DEF PacketArrives, EventTest, RawTest, Test, EventSent, RawSent
<1>12. CASE \E f \in Descriptors \cup {NoSock} : EventSend(f) \/ RawSend(f)
  <2>1. PICK f \in Descriptors \cup {NoSock} : /\ UNCHANGED <<sock, owner, main>>
                                              /\ peer' \in {peer, Answered(f)}
    BY <1>12 DEF EventSend, RawSend, Send
  <2> QED
    BY <2>1, <1>c
<1>13. CASE \E c \in Clients : Leaves(c)
  BY <1>13 DEF Leaves
<1>14. CASE \E f \in Descriptors : HttpTakes(f) \/ HttpReturns(f)
  <2>1. PICK f \in Descriptors, p \in {Nobody, Http} :
            /\ owner[f] \in {Nobody, Http} /\ owner' = [owner EXCEPT ![f] = p]
            /\ UNCHANGED <<peer, sock, main>>
    BY <1>14 DEF HttpTakes, HttpReturns, LowestFree
  <2>2. \A g \in Descriptors : owner'[g] \in Clients <=> owner[g] \in Clients
    BY <2>1
  <2>3. \A g \in Descriptors : owner[g] \in Clients => owner'[g] = owner[g]
    BY <2>1
  <2> QED
    BY <2>1, <2>2, <2>3
<1> QED
  BY <1>1, <1>2, <1>3, <1>4, <1>5, <1>6, <1>7, <1>8, <1>9, <1>10, <1>11, <1>12,
     <1>13, <1>14 DEF Next, Poll, Broadcast

-----------------------------------------------------------------------------
LEMMA CountStep ==
    ASSUME ProxyTypeOK, ProxyTypeOK', OwnInv, CountInv, [Next]_vars
    PROVE  CountInv'
<1> USE ToSlotType, AtType, NextSlot
    DEF ProxyTypeOK, CountInv, kernel, slotVars, history, Line
<1>0. Cardinality(Occupied) \in Nat
  BY OccupiedIsFinite, FS_CardinalityType
<1>a. ASSUME UNCHANGED <<sock, clientCount, quits>>,
             main.at \notin {"fill", "forget"}, main'.at \notin {"fill", "forget"}
      PROVE  CountInv'
  BY <1>a DEF Occupied
<1>b. ASSUME UNCHANGED <<sock, clientCount, quits, main>> PROVE CountInv'
  BY <1>b DEF Occupied
<1>1. CASE UNCHANGED vars
  BY <1>1, <1>b DEF vars
<1>2. CASE \E c \in Clients : Accept(c)
  <2>1. main'.at = "slot"
    BY <1>2 DEF Accept, MainStates
  <2> QED
    BY <1>2, <2>1, <1>a DEF Accept
<1>3. CASE AcceptNobody \/ NothingToRead \/ LinesEnd
  BY <1>3, <1>a DEF AcceptNobody, NothingToRead, LinesEnd, Finds
<1>4. CASE Receive
  BY <1>4, <1>a DEF Receive, Finds
<1>5. CASE \E s \in Slot : TakeSlot(s)
  <2>1. PICK s \in Slot : TakeSlot(s)
    BY <1>5
  <2>2. /\ main'.at = "fill" /\ main.at = "slot" /\ sock[s] = NoSock
        /\ sock' = [sock EXCEPT ![s] = main.sock] /\ UNCHANGED <<clientCount, quits>>
    BY <2>1 DEF TakeSlot, MainStates, FreeSlot
  <2>3. Occupied' = Occupied \cup {s} /\ s \notin Occupied
    BY <2>2 DEF Occupied, OwnInv
  <2>4. Cardinality(Occupied') = Cardinality(Occupied) + 1
    BY <2>3, OccupiedIsFinite, FS_AddElement
  <2> QED
    BY <1>0, <2>2, <2>4
<1>6. CASE FillSlot
  <2>1. /\ main.at = "fill" /\ main'.at \in {"accept", "serve"} /\ UNCHANGED <<sock, quits>>
        /\ clientCount' = clientCount + 1
    BY <1>6 DEF FillSlot
  <2> QED
    BY <1>0, <2>1 DEF Occupied
<1>7. CASE RejectClient
  BY <1>7, <1>a DEF RejectClient
<1>8. CASE Query \/ \E on \in BOOLEAN : SubscribeEvents(on) \/ SubscribeRaw(on)
  BY <1>8, <1>b DEF Query, SubscribeEvents, SubscribeRaw
<1>9. CASE Quit
  <2>1. /\ main.at = "lines" /\ main'.at = "forget" /\ UNCHANGED <<sock, clientCount>>
        /\ quits' = quits + 1
    BY <1>9 DEF Quit
  <2> QED
    BY <1>0, <2>1 DEF Occupied
<1>10. CASE CloseDeparted
  BY <1>10, <1>a DEF CloseDeparted, Finds
<1>11. CASE Forget \/ DropDeparted
  <2>1. /\ main.at \in {"forget", "drop"} /\ main'.at \in {"accept", "serve"} /\ quits' = quits
        /\ sock' = [sock EXCEPT ![main.slot] = NoSock]
        /\ clientCount' = IF main.at = "drop" THEN clientCount - 1 ELSE clientCount
    BY <1>11 DEF Forget, DropDeparted
  <2>2. Occupied' = Occupied \ {main.slot} /\ main.slot \in Occupied
    BY <2>1 DEF Occupied, OwnInv
  <2>3. Cardinality(Occupied') = Cardinality(Occupied) - 1
    BY <2>2, OccupiedIsFinite, FS_RemoveElement
  <2>4. clientCount' = Cardinality(Occupied') + quits'
    <3>1. CASE main.at = "drop"
      BY <1>0, <2>1, <2>3, <3>1
    <3>2. CASE main.at = "forget"
      BY <1>0, <2>1, <2>3, <3>2
    <3> QED
      BY <2>1, <3>1, <3>2
  <2> QED
    BY <1>0, <2>1, <2>3, <2>4
<1>12. CASE \/ PacketArrives \/ EventTest \/ RawTest \/ EventSent \/ RawSent
            \/ \E f \in Descriptors \cup {NoSock} : EventSend(f) \/ RawSend(f)
  BY <1>12, <1>b DEF PacketArrives, EventTest, RawTest, Test, EventSent, RawSent,
     EventSend, RawSend
<1>13. CASE \/ \E c \in Clients : Leaves(c)
            \/ \E f \in Descriptors : HttpTakes(f) \/ HttpReturns(f)
  BY <1>13, <1>b DEF Leaves, HttpTakes, HttpReturns
<1> QED
  BY <1>1, <1>2, <1>3, <1>4, <1>5, <1>6, <1>7, <1>8, <1>9, <1>10, <1>11, <1>12,
     <1>13 DEF Next, Poll, Broadcast

-----------------------------------------------------------------------------
(* Two slots never have the same client. *)
LEMMA OneSlotEach ==
    ASSUME ProxyTypeOK, OwnInv, NEW s \in Slot, NEW t \in Slot, s # t
    PROVE  AtEnd(sock[s]) \cap AtEnd(sock[t]) = {}
<1> SUFFICES ASSUME NEW c \in Clients, c \in AtEnd(sock[s]), c \in AtEnd(sock[t])
             PROVE  FALSE
  BY DEF AtEnd
<1>1. /\ sock[s] \in Descriptors /\ sock[t] \in Descriptors
      /\ owner[sock[s]] = c /\ owner[sock[t]] = c
  BY DEF AtEnd
<1>2. sock[s] = sock[t]
  BY <1>1 DEF OwnInv
<1> QED
  BY <1>1, <1>2 DEF OwnInv, NoSharedDescriptor, Occupied

LEMMA SubscriptionStep ==
    ASSUME ProxyTypeOK, ProxyTypeOK', OwnInv, OwnInv', NoStaleSubscription, [Next]_vars
    PROVE  NoStaleSubscription'
<1> USE ToSlotType, AtType, NextSlot
    DEF ProxyTypeOK, OwnInv, NoSharedDescriptor, NoStaleSubscription, Occupied, Closing,
        kernel, slotVars, history, Line, AtEnd
<1>a. ASSUME UNCHANGED <<owner, sock, raw, asked>>, main.at # "fill" PROVE NoStaleSubscription'
  BY <1>a
<1>b. ASSUME UNCHANGED <<owner, sock, raw, asked, main>> PROVE NoStaleSubscription'
  BY <1>b
<1>1. CASE UNCHANGED vars
  BY <1>1, <1>b DEF vars
<1>2. CASE \E c \in Clients : Accept(c)
  <2>1. PICK c \in Clients : Accept(c)
    BY <1>2
  <2>2. PICK f \in Descriptors : owner[f] = Nobody /\ owner' = [owner EXCEPT ![f] = c]
    BY <2>1 DEF Accept, LowestFree
  <2>3. main.at = "accept" /\ UNCHANGED <<sock, raw, asked>>
    BY <2>1 DEF Accept
  <2>4. \A s \in Occupied : sock[s] # f
    BY <2>2, <2>3
  <2> QED
    BY <2>2, <2>3, <2>4
<1>3. CASE AcceptNobody \/ NothingToRead \/ LinesEnd \/ Receive
  BY <1>3, <1>a DEF AcceptNobody, NothingToRead, LinesEnd, Receive, Finds
<1>4. CASE \E s \in Slot : TakeSlot(s)
  <2>1. PICK s \in Slot : TakeSlot(s)
    BY <1>4
  <2>2. /\ main'.at = "fill" /\ main'.slot = s /\ main.at = "slot"
        /\ sock' = [sock EXCEPT ![s] = main.sock] /\ UNCHANGED <<owner, raw, asked>>
    BY <2>1 DEF TakeSlot, MainStates
  <2> QED
    BY <2>2
<1>5. CASE FillSlot
  <2>1. /\ main.at = "fill" /\ raw' = [raw EXCEPT ![main.slot] = FALSE]
        /\ UNCHANGED <<owner, sock, asked>>
    BY <1>5 DEF FillSlot, Send
  <2> QED
    BY <2>1
<1>6. CASE RejectClient
  <2>1. main.at = "slot" /\ Close(main.sock) /\ UNCHANGED <<sock, raw, asked>>
    BY <1>6 DEF RejectClient
  <2> QED
    BY <2>1 DEF Close
<1>7. CASE Query \/ \E on \in BOOLEAN : SubscribeEvents(on)
  BY <1>7, <1>b DEF Query, SubscribeEvents, Send
<1>8. CASE \E on \in BOOLEAN : SubscribeRaw(on)
  <2>1. PICK on \in BOOLEAN :
            /\ raw' = [raw EXCEPT ![main.slot] = on]
            /\ asked' = IF on THEN asked \cup Client ELSE asked \ Client
            /\ main.at = "lines" /\ UNCHANGED <<owner, sock, main>>
    BY <1>8 DEF SubscribeRaw, Send
  <2>2. \A s \in Slot : s # main.slot => AtEnd(sock[s]) \cap Client = {}
    BY OneSlotEach DEF Client
  <2>3. SUFFICES ASSUME NEW s \in Occupied, raw'[s]
                 PROVE  AtEnd(sock[s]) \subseteq asked'
    BY <2>1
  <2>4. CASE s = main.slot
    BY <2>1, <2>4, <2>3 DEF Client
  <2>5. CASE s # main.slot
    <3>1. AtEnd(sock[s]) \subseteq asked /\ AtEnd(sock[s]) \cap Client = {}
      BY <2>1, <2>2, <2>3, <2>5
    <3> QED
      BY <3>1, <2>1
  <2> QED
    BY <2>4, <2>5
<1>9. CASE Quit \/ CloseDeparted
  <2>1. /\ main.at \in {"lines", "serve"} /\ UNCHANGED <<sock, raw>>
        /\ Close(sock[main.slot]) /\ asked' = asked \ Client
        /\ main.slot \in Occupied /\ sock[main.slot] \in Descriptors
    <3>1. \/ main.at = "lines"
          \/ main.at = "serve" /\ Client # {}
      BY <1>9 DEF Quit, CloseDeparted, Finds
    <3>2. main.slot \in Occupied /\ sock[main.slot] \in Descriptors
      BY <3>1 DEF Client
    <3> QED
      BY <1>9, <3>1, <3>2 DEF Quit, CloseDeparted, Gone
  <2>2. owner' = [owner EXCEPT ![sock[main.slot]] = Nobody]
    BY <2>1 DEF Close
  <2>3. \A s \in Slot : s # main.slot => AtEnd(sock[s]) \cap Client = {}
    BY OneSlotEach DEF Client
  <2>4. SUFFICES ASSUME NEW s \in Occupied, raw[s], ~(main.at = "fill" /\ main.slot = s)
                 PROVE  AtEnd(sock[s])' \subseteq asked'
    BY <2>1
  <2>5. AtEnd(sock[s])' \subseteq AtEnd(sock[s]) \ Client
    BY <2>1, <2>2, <2>3, <2>4 DEF Client
  <2> QED
    BY <2>1, <2>4, <2>5
<1>10. CASE Forget \/ DropDeparted
  <2>1. main.at # "fill" /\ sock' = [sock EXCEPT ![main.slot] = NoSock]
        /\ UNCHANGED <<owner, raw, asked>>
    BY <1>10 DEF Forget, DropDeparted
  <2> QED
    BY <2>1
<1>11. CASE \/ PacketArrives \/ EventTest \/ RawTest \/ EventSent \/ RawSent
            \/ \E f \in Descriptors \cup {NoSock} : EventSend(f) \/ RawSend(f)
            \/ \E c \in Clients : Leaves(c)
  BY <1>11, <1>b DEF PacketArrives, EventTest, RawTest, Test, EventSent, RawSent,
     EventSend, RawSend, Send, Leaves
<1>12. CASE \E f \in Descriptors : HttpTakes(f) \/ HttpReturns(f)
  <2>1. PICK f \in Descriptors, p \in {Nobody, Http} :
            /\ owner' = [owner EXCEPT ![f] = p] /\ UNCHANGED <<sock, raw, asked, main>>
    BY <1>12 DEF HttpTakes, HttpReturns
  <2> QED
    BY <2>1
<1> QED
  BY <1>1, <1>2, <1>3, <1>4, <1>5, <1>6, <1>7, <1>8, <1>9, <1>10, <1>11, <1>12
     DEF Next, Poll, Broadcast

-----------------------------------------------------------------------------
(* What may happen to the slot of a client that is due: nothing the step     *)
(* does to other slots matters to it.                                        *)
LEMMA HearsKept ==
    ASSUME ProxyTypeOK, OwnInv, NEW c \in Clients, NEW s \in Slot, HearsIn(c, s),
           UNCHANGED sniffer,
           sock'[s] = sock[s], owner'[sock[s]] = owner[sock[s]],
           events'[s] = events[s], ~Filling(s)', c \in got' <=> c \in got
    PROVE  HearsIn(c, s)'
BY DEF HearsIn, AtEnd

LEMMA HearStep ==
    ASSUME ProxyTypeOK, ProxyTypeOK', OwnInv, OwnInv', HearInv, [Next]_vars
    PROVE  HearInv'
<1> USE ToSlotType, AtType, NextSlot
    DEF ProxyTypeOK, kernel, slotVars, history, Line
<1>0. \A c \in due : c \in Clients /\ \E s \in Slot : HearsIn(c, s)
  BY DEF HearInv
<1>a. ASSUME UNCHANGED sniffer, due' \subseteq due,
             \A c \in due', s \in Slot : HearsIn(c, s) => HearsIn(c, s)'
      PROVE  HearInv'
  <2>1. \A c \in due' : \E s \in Slot : HearsIn(c, s)'
    BY <1>0, <1>a
  <2> QED
    BY <1>a, <2>1 DEF HearInv
<1>b. ASSUME UNCHANGED <<owner, sock, events, sniffer, due, got>>,
             main'.at \in {"accept", "serve", "lines"} \/ main' = main
      PROVE  HearInv'
  BY <1>a, <1>b DEF HearsIn, AtEnd, Filling
<1>1. CASE UNCHANGED vars
  BY <1>1, <1>b DEF vars
<1>2. CASE \E c \in Clients : Accept(c)
  <2>1. PICK d \in Clients : Accept(d)
    BY <1>2
  <2>2. PICK f \in Descriptors : owner[f] = Nobody /\ owner' = [owner EXCEPT ![f] = d]
    BY <2>1 DEF Accept, LowestFree
  <2>3. /\ peer[d] = "away" /\ main'.at = "slot" /\ UNCHANGED <<sock, events, sniffer, due>>
        /\ got' = got \ {d}
    BY <2>1 DEF Accept, MainStates
  <2>4. \A g \in Descriptors : owner[g] # d
    BY <2>3 DEF OwnInv
  <2>5. ASSUME NEW c \in due', NEW s \in Slot, HearsIn(c, s) PROVE HearsIn(c, s)'
    <3>1. c \in Clients /\ sock[s] \in Descriptors /\ owner[sock[s]] = c
      BY <2>3, <2>5 DEF HearsIn, AtEnd
    <3>2. c # d /\ sock[s] # f
      BY <2>2, <2>4, <3>1
    <3> QED
      BY <2>2, <2>3, <2>5, <3>1, <3>2, HearsKept DEF Filling
  <2> QED
    BY <2>3, <2>5, <1>a
<1>3. CASE AcceptNobody \/ NothingToRead \/ LinesEnd \/ Receive
  BY <1>3, <1>b DEF AcceptNobody, NothingToRead, LinesEnd, Receive
<1>4. CASE \E s \in Slot : TakeSlot(s)
  <2>1. PICK t \in Slot : TakeSlot(t)
    BY <1>4
  <2>2. /\ main'.at = "fill" /\ main'.slot = t /\ sock[t] = NoSock
        /\ sock' = [sock EXCEPT ![t] = main.sock]
        /\ UNCHANGED <<owner, events, sniffer, due, got>>
    BY <2>1 DEF TakeSlot, MainStates, FreeSlot
  <2>3. ASSUME NEW c \in due', NEW s \in Slot, HearsIn(c, s) PROVE HearsIn(c, s)'
    <3>1. c \in Clients /\ s # t
      BY <2>2, <2>3 DEF HearsIn, AtEnd
    <3> QED
      BY <2>2, <2>3, <3>1, HearsKept DEF Filling
  <2> QED
    BY <2>2, <2>3, <1>a
<1>5. CASE FillSlot
  <2>1. /\ main.at = "fill" /\ main'.at \in {"accept", "serve"}
        /\ events' = [events EXCEPT ![main.slot] = TRUE]
        /\ UNCHANGED <<owner, sock, sniffer, due, got>>
    BY <1>5 DEF FillSlot, Send
  <2>2. ASSUME NEW c \in due', NEW s \in Slot, HearsIn(c, s) PROVE HearsIn(c, s)'
    <3>1. c \in Clients /\ s # main.slot
      BY <2>1, <2>2 DEF HearsIn, Filling
    <3> QED
      BY <2>1, <2>2, <3>1, HearsKept DEF Filling
  <2> QED
    BY <2>1, <2>2, <1>a
<1>6. CASE RejectClient
  <2>1. /\ main.at = "slot" /\ main'.at \in {"accept", "serve"}
        /\ owner' = [owner EXCEPT ![main.sock] = Nobody]
        /\ UNCHANGED <<sock, events, sniffer, due, got>>
    BY <1>6 DEF RejectClient, Close
  <2>2. ASSUME NEW c \in due', NEW s \in Slot, HearsIn(c, s) PROVE HearsIn(c, s)'
    <3>1. c \in Clients /\ sock[s] \in Descriptors /\ sock[s] # main.sock
      BY <2>1, <2>2 DEF HearsIn, AtEnd, OwnInv
    <3> QED
      BY <2>1, <2>2, <3>1, HearsKept DEF Filling
  <2> QED
    BY <2>1, <2>2, <1>a
<1>7. CASE Query \/ \E on \in BOOLEAN : SubscribeRaw(on)
  BY <1>7, <1>b DEF Query, SubscribeRaw, Send
<1>8. CASE \E on \in BOOLEAN : SubscribeEvents(on)
  <2>1. PICK on \in BOOLEAN :
            /\ events' = [events EXCEPT ![main.slot] = on]
            /\ due' = IF on THEN due ELSE due \ Client
            /\ UNCHANGED <<owner, sock, main, sniffer, got>>
    BY <1>8 DEF SubscribeEvents, Send
  <2>2. ASSUME NEW c \in due', NEW s \in Slot, HearsIn(c, s) PROVE HearsIn(c, s)'
    <3>1. c \in Clients /\ ~Filling(s)'
      BY <2>1, <2>2 DEF HearsIn, Filling
    <3>2. s = main.slot => on
      BY <2>1, <2>2 DEF HearsIn, Client
    <3>3. events'[s] = events[s]
      BY <2>1, <2>2, <3>2 DEF HearsIn
    <3> QED
      BY <2>1, <2>2, <3>1, <3>3, HearsKept
  <2>3. due' \subseteq due
    BY <2>1
  <2> QED
    BY <2>1, <2>2, <2>3, <1>a
<1>9. CASE Quit \/ CloseDeparted
  <2>1. /\ UNCHANGED <<sock, events, sniffer, got>>
        /\ owner' = [owner EXCEPT ![sock[main.slot]] = Nobody]
        /\ due' = due \ Client /\ main'.at \in {"forget", "drop"}
    BY <1>9 DEF Quit, CloseDeparted, Close, Gone
  <2>2. ASSUME NEW c \in due', NEW s \in Slot, HearsIn(c, s) PROVE HearsIn(c, s)'
    <3>1. c \in Clients /\ sock[s] \in Descriptors /\ owner[sock[s]] = c
      BY <2>1, <2>2 DEF HearsIn, AtEnd
    <3>2. sock[s] # sock[main.slot]
      BY <2>1, <2>2, <3>1 DEF Client, AtEnd
    <3> QED
      BY <2>1, <2>2, <3>1, <3>2, HearsKept DEF Filling
  <2> QED
    BY <2>1, <2>2, <1>a
<1>10. CASE Forget \/ DropDeparted
  <2>1. /\ main.at \in {"forget", "drop"} /\ main'.at \in {"accept", "serve"}
        /\ sock' = [sock EXCEPT ![main.slot] = NoSock]
        /\ UNCHANGED <<owner, events, sniffer, due, got>>
    BY <1>10 DEF Forget, DropDeparted
  <2>2. ASSUME NEW c \in due', NEW s \in Slot, HearsIn(c, s) PROVE HearsIn(c, s)'
    <3>1. c \in Clients /\ sock[s] \in Descriptors /\ owner[sock[s]] = c
      BY <2>1, <2>2 DEF HearsIn, AtEnd
    <3>2. s # main.slot
      BY <2>1, <3>1 DEF OwnInv, Closing, Occupied
    <3> QED
      BY <2>1, <2>2, <3>1, <3>2, HearsKept DEF Filling
  <2> QED
    BY <2>1, <2>2, <1>a
<1>11. CASE PacketArrives
  <2>1. /\ sniffer' = [at |-> "event", slot |-> 1, sock |-> NoSock]
        /\ due' = Subscribers /\ got' = {} /\ UNCHANGED <<owner, sock, events, main>>
    BY <1>11 DEF PacketArrives, SnifferAt
  <2>2. ASSUME NEW c \in due' PROVE \E s \in Slot : HearsIn(c, s)'
    <3>1. PICK s \in Slot : c \in AtEnd(sock[s]) /\ events[s] /\ ~Filling(s)
      BY <2>1, <2>2 DEF Subscribers, Filling
    <3>2. HearsIn(c, s)'
      BY <2>1, <3>1 DEF HearsIn, AtEnd, Filling
    <3> QED
      BY <3>2
  <2> QED
    BY <2>1, <2>2 DEF HearInv
<1>12. CASE EventTest
  <2>1. /\ sniffer.at = "event" /\ sniffer.slot \in Slot
        /\ UNCHANGED <<owner, sock, events, main, due, got>>
        /\ sniffer' = IF sock[sniffer.slot] # NoSock /\ events[sniffer.slot]
                      THEN [at |-> "sendEvent", slot |-> sniffer.slot, sock |-> sock[sniffer.slot]]
                      ELSE [at |-> "event", slot |-> sniffer.slot + 1, sock |-> NoSock]
    BY <1>12 DEF EventTest, Test, Walking, SnifferAt
  <2>2. ASSUME NEW c \in due, NEW s \in Slot, HearsIn(c, s) PROVE HearsIn(c, s)'
    <3>1. /\ c \in Clients /\ sock[s] \in Descriptors /\ events[s]
          /\ owner[sock[s]] = c
      BY <2>2 DEF HearsIn, AtEnd
    <3>2. CASE sock[sniffer.slot] # NoSock /\ events[sniffer.slot]
      <4>1. sock[sniffer.slot] = sock[s] <=> s = sniffer.slot
        BY <2>1, <3>1, <3>2 DEF OwnInv, NoSharedDescriptor, Occupied
      <4>2. /\ sniffer'.at = "sendEvent" /\ sniffer'.slot = sniffer.slot
            /\ sniffer'.sock = sock[sniffer.slot]
        BY <2>1, <3>2
      <4> QED
        BY <2>1, <2>2, <4>1, <4>2 DEF HearsIn, AtEnd, Filling
    <3>3. CASE ~(sock[sniffer.slot] # NoSock /\ events[sniffer.slot])
      <4>1. s # sniffer.slot
        BY <3>1, <3>3
      <4>2. sniffer'.at = "event" /\ sniffer'.slot = sniffer.slot + 1
        BY <2>1, <3>3
      <4>3. s < sniffer.slot <=> s < sniffer.slot + 1
        BY <2>1, <4>1
      <4> QED
        BY <2>1, <2>2, <4>2, <4>3 DEF HearsIn, AtEnd, Filling
    <3> QED
      BY <3>2, <3>3
  <2>3. sniffer'.at \in {"event", "sendEvent"}
    BY <2>1
  <2>4. \A c \in due : \E s \in Slot : HearsIn(c, s)'
    BY <1>0, <2>2
  <2> QED
    BY <2>1, <2>3, <2>4 DEF HearInv
<1>13. CASE \E f \in Descriptors \cup {NoSock} : EventSend(f)
  <2>1. PICK f \in Descriptors \cup {NoSock} : EventSend(f)
    BY <1>13
  <2>2. /\ sniffer.at = "sendEvent" /\ sniffer.slot \in Slot
        /\ f \in {sniffer.sock, sock[sniffer.slot]}
        /\ sniffer' = [at |-> "event", slot |-> sniffer.slot + 1, sock |-> NoSock]
        /\ got' = got \cup AtEnd(f) /\ UNCHANGED <<owner, sock, events, main, due>>
    BY <2>1 DEF EventSend, Send, SendTo, SnifferAt
  <2>3. ASSUME NEW c \in due, NEW s \in Slot, HearsIn(c, s) PROVE HearsIn(c, s)'
    <3>1. /\ c \in Clients /\ sock[s] \in Descriptors /\ owner[sock[s]] = c
          /\ sniffer.sock = sock[s] <=> s = sniffer.slot
      BY <2>2, <2>3 DEF HearsIn, AtEnd
    <3>2. f = sock[s] <=> s = sniffer.slot
      <4>1. s # sniffer.slot => sock[s] # sock[sniffer.slot]
        BY <2>2, <3>1 DEF OwnInv, NoSharedDescriptor, Occupied
      <4> QED
        BY <2>2, <3>1, <4>1
    <3>3. c \in AtEnd(f) <=> s = sniffer.slot
      <4>1. c \in AtEnd(f) => f \in Descriptors /\ owner[f] = owner[sock[s]]
        BY <3>1 DEF AtEnd
      <4>2. c \in AtEnd(f) => f = sock[s]
        BY <3>1, <4>1 DEF OwnInv
      <4>3. f = sock[s] => c \in AtEnd(f)
        BY <3>1 DEF AtEnd
      <4> QED
        BY <3>2, <4>2, <4>3
    <3>4. c \in got' <=> s < sniffer.slot + 1
      BY <2>2, <2>3, <3>3 DEF HearsIn
    <3> QED
      BY <2>2, <2>3, <3>4 DEF HearsIn, AtEnd, Filling
  <2>4. \A c \in due : \E s \in Slot : HearsIn(c, s)'
    BY <1>0, <2>3
  <2> QED
    BY <2>2, <2>4 DEF HearInv
<1>14. CASE EventSent
  BY <1>14 DEF EventSent, HearInv
<1>15. CASE RawTest \/ RawSent \/ \E f \in Descriptors \cup {NoSock} : RawSend(f)
  <2>1. /\ sniffer.at \in {"raw", "sendRaw"} /\ due' = due
    BY <1>15 DEF RawTest, Test, Walking, RawSent, Walked, RawSend
  <2>2. due = {}
    BY <2>1 DEF HearInv
  <2> QED
    BY <2>1, <2>2 DEF HearInv
<1>16. CASE \E c \in Clients : Leaves(c)
  BY <1>16, <1>b DEF Leaves
<1>17. CASE \E f \in Descriptors : HttpTakes(f) \/ HttpReturns(f)
  <2>1. PICK f \in Descriptors, p \in {Nobody, Http} :
            /\ owner[f] \in {Nobody, Http} /\ owner' = [owner EXCEPT ![f] = p]
            /\ UNCHANGED <<sock, events, main, sniffer, due, got>>
    BY <1>17 DEF HttpTakes, HttpReturns, LowestFree
  <2>2. ASSUME NEW c \in due', NEW s \in Slot, HearsIn(c, s) PROVE HearsIn(c, s)'
    <3>1. /\ c \in Clients /\ sock[s] \in Descriptors /\ owner[sock[s]] = c
      BY <2>1, <2>2 DEF HearsIn, AtEnd
    <3>2. sock[s] # f
      BY <2>1, <3>1
    <3> QED
      BY <2>1, <2>2, <3>1, <3>2, HearsKept DEF HearsIn, Filling
  <2> QED
    BY <2>1, <2>2, <1>a
<1> QED
  BY <1>1, <1>2, <1>3, <1>4, <1>5, <1>6, <1>7, <1>8, <1>9, <1>10, <1>11, <1>12,
     <1>13, <1>14, <1>15, <1>16, <1>17 DEF Next, Poll, Broadcast

-----------------------------------------------------------------------------
IInv == ProxyTypeOK /\ OwnInv /\ CountInv /\ NoStaleSubscription /\ HearInv

LEMMA InitIInv == ProxyInit => IInv
<1> SUFFICES ASSUME ProxyInit PROVE IInv
  OBVIOUS
<1>a. main \in MainStates /\ sniffer \in SnifferStates /\ sniffer.at = "read"
  BY DEF ProxyInit, MainStates, SnifferStates
<1>b. Occupied = {}
  BY DEF ProxyInit, Occupied
<1>c. /\ peer \in [Clients -> {"away", "open", "closed", "reset"}]
      /\ owner \in [Descriptors -> Clients \cup {Nobody, Http}]
  BY DEF ProxyInit
<1>d. /\ sock \in [Slot -> Descriptors \cup {NoSock}]
      /\ events \in [Slot -> BOOLEAN] /\ raw \in [Slot -> BOOLEAN]
  BY DEF ProxyInit
<1>e. killed \in BOOLEAN
  BY DEF ProxyInit
<1>g. clientCount \in Nat /\ quits \in 0..MaxQuits
  BY DEF ProxyInit
<1>f. asked \subseteq Clients /\ due \subseteq Clients /\ got \subseteq Clients
  BY DEF ProxyInit
<1>1. ProxyTypeOK
  BY <1>a, <1>c, <1>d, <1>e, <1>f, <1>g DEF ProxyTypeOK
<1>2. OwnInv /\ NoStaleSubscription /\ HearInv
  BY <1>b DEF ProxyInit, OwnInv, NoSharedDescriptor, NoStaleSubscription, HearInv, Nobody
<1>3. CountInv
  BY <1>b, FS_EmptySet DEF ProxyInit, CountInv
<1> QED
  BY <1>1, <1>2, <1>3 DEF IInv

LEMMA StepIInv == IInv /\ [Next]_vars => IInv'
BY TypeStep, OwnStep, CountStep, SubscriptionStep, HearStep DEF IInv

LEMMA Inductive == Spec => []IInv
BY InitIInv, StepIInv, PTL DEF Spec

\* In every behaviour of the server all variables keep their types: the number of
\* clients does not underflow, however clients come, go and send QUIT.
THEOREM ProxyTypeCorrect == Spec => []ProxyTypeOK
<1>1. IInv => ProxyTypeOK
  BY DEF IInv
<1> QED
  BY <1>1, Inductive, PTL

\* Whatever the order in which slots are closed, reused and filled, no two of them hold
\* the same descriptor (proxy_server.c:544-649).
THEOREM DescriptorsAreSeparate == Spec => []NoSharedDescriptor
<1>1. IInv => NoSharedDescriptor
  BY DEF IInv, OwnInv
<1> QED
  BY <1>1, Inductive, PTL

\* client_count is the number of slots in use plus the number of QUITs so far
\* (proxy_server.c:431-437, 628-647).
THEOREM CountIsOffByQuits == Spec => []CountTracksClients
<1>1. ProxyTypeOK => Cardinality(Occupied) \in Nat /\ quits \in Nat
  BY OccupiedIsFinite, FS_CardinalityType DEF ProxyTypeOK
<1>2. IInv => CountTracksClients
  BY <1>1 DEF IInv, CountInv, CountTracksClients
<1> QED
  BY <1>2, Inductive, PTL

\* Outside the two steps of an accept, a slot is subscribed to raw packets only for a
\* client that asked for them (proxy_server.c:557-560, 158-170).
THEOREM SubscriptionsAreNotInherited == Spec => []NoStaleSubscription
<1>1. IInv => NoStaleSubscription
  BY DEF IInv
<1> QED
  BY <1>1, Inductive, PTL

\* A client that is subscribed when a packet arrives, and stays, is sent the event of
\* that packet, although slots change during the broadcast (proxy_server.c:667-682).
THEOREM PacketsAreHeard == Spec => SubscribersHearPackets
<1>1. IInv /\ [Next]_vars => [EventSent => due \subseteq got]_vars
  <2> SUFFICES ASSUME IInv, EventSent, NEW c \in due PROVE c \in got
    OBVIOUS
  <2>1. PICK s \in Slot : HearsIn(c, s)
    BY DEF IInv, HearInv
  <2>2. s < sniffer.slot
    BY DEF IInv, ProxyTypeOK, SnifferStates, EventSent, Walked
  <2> QED
    BY <2>1, <2>2 DEF HearsIn
<1> QED
  BY <1>1, Inductive, PTL DEF Spec, SubscribersHearPackets

\* ... and is sent it once, whichever of the two reads of sock the compiler keeps
\* (proxy_server.c:676-678).
THEOREM PacketsAreHeardOnce == Spec => NoPacketTwice
<1>1. IInv /\ [Next]_vars
        => [\A f \in Descriptors : EventSend(f) => AtEnd(f) \cap got \cap due = {}]_vars
  <2> SUFFICES ASSUME IInv, NEW f \in Descriptors, EventSend(f),
                      NEW c \in due, c \in AtEnd(f), c \in got
               PROVE  FALSE
    OBVIOUS
  <2>1. PICK s \in Slot : HearsIn(c, s)
    BY DEF IInv, HearInv
  <2>2. /\ sniffer.at = "sendEvent" /\ sniffer.slot \in Slot
        /\ f \in {sniffer.sock, sock[sniffer.slot]}
    BY DEF IInv, ProxyTypeOK, EventSend, SendTo
  <2>3. /\ sock[s] \in Descriptors /\ owner[sock[s]] = c /\ owner[f] = c /\ c \in Clients
        /\ s < sniffer.slot /\ sniffer.sock # sock[s]
    BY <2>1, <2>2 DEF HearsIn, AtEnd
  <2>4. sock[s] = f
    BY <2>3 DEF IInv, OwnInv
  <2>5. sock[sniffer.slot] = sock[s] /\ s # sniffer.slot
    BY <2>2, <2>3, <2>4
  <2> QED
    BY <2>2, <2>3, <2>5 DEF IInv, OwnInv, NoSharedDescriptor, Occupied
<1> QED
  BY <1>1, Inductive, PTL DEF Spec, NoPacketTwice
-----------------------------------------------------------------------------
(* What QUIT is good for: only a client that leaves without it can end the  *)
(* proxy.                                                                   *)

\* Nobody has left, and nothing was sent to anybody who had.
StayInv ==
    /\ killed = FALSE
    /\ peer \in [Clients -> {"away", "open"}]

LEMMA PipeHolds ==
    ASSUME StayInv, NEW f, BrokenPipe(f)
    PROVE  killed' = FALSE
<1>1. ~ \E c \in AtEnd(f) : peer[c] = "reset"
  BY DEF StayInv, AtEnd
<1> QED
  BY <1>1 DEF BrokenPipe

LEMMA SendStays ==
    ASSUME StayInv, NEW f, Send(f)
    PROVE  StayInv'
<1>1. Answered(f) = peer
  BY DEF Answered, StayInv
<1>2. peer' = peer /\ killed' = FALSE
  BY <1>1, PipeHolds DEF Send
<1> QED
  BY <1>2 DEF StayInv

LEMMA CloseStays ==
    ASSUME StayInv, NEW f, Close(f), killed' = killed \/ BrokenPipe(f)
    PROVE  StayInv'
<1>1. killed' = FALSE
  BY PipeHolds DEF StayInv
<1>2. peer' \in [Clients -> {"away", "open"}]
  BY DEF Close, StayInv
<1> QED
  BY <1>1, <1>2 DEF StayInv

LEMMA StayStep ==
    ASSUME StayInv, [Next]_vars, [\A c \in Clients : ~Leaves(c)]_vars
    PROVE  StayInv'
<1>1. CASE FillSlot \/ Query \/ \E on \in BOOLEAN : SubscribeEvents(on) \/ SubscribeRaw(on)
  BY <1>1, SendStays DEF FillSlot, Query, SubscribeEvents, SubscribeRaw
<1>2. CASE \E f \in Descriptors \cup {NoSock} : EventSend(f) \/ RawSend(f)
  BY <1>2, SendStays DEF EventSend, RawSend
<1>3. CASE RejectClient \/ Quit \/ CloseDeparted
  BY <1>3, CloseStays DEF RejectClient, Quit, CloseDeparted
<1>4. ASSUME NEW c \in Clients, Accept(c)
      PROVE  StayInv'
  BY <1>4 DEF Accept, StayInv
<1>5. CASE UNCHANGED <<peer, killed>>
  BY <1>5 DEF StayInv
<1>6. ASSUME NEW c \in Clients, Leaves(c)
      PROVE  FALSE
  <2>1. UNCHANGED vars
    BY <1>6
  <2> QED
    BY <1>6, <2>1 DEF Leaves, StayInv, vars, kernel
<1> QED
  BY <1>1, <1>2, <1>3, <1>4, <1>5, <1>6
     DEF Next, Poll, Broadcast, AcceptNobody, TakeSlot, NothingToRead, Receive, Forget, LinesEnd,
         DropDeparted, PacketArrives, EventTest, RawTest, Test, EventSent, RawSent, HttpTakes,
         HttpReturns, vars, kernel

\* As long as clients leave by QUIT only, nothing that the main loop and the sniffer do to
\* the slots at once ends the proxy: SIGPIPE takes a client that closes its end first
\* (proxy_server.c:430-437, 678, 712).
THEOREM QuitsDoNotCrash ==
    Spec /\ [][\A c \in Clients : ~Leaves(c)]_vars => []NoCrash
<1>1. ProxyInit => StayInv
  BY DEF ProxyInit, StayInv
<1>2. StayInv => NoCrash
  BY DEF StayInv, NoCrash
<1> QED
  BY <1>1, <1>2, StayStep, PTL DEF Spec
=============================================================================
