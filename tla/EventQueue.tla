----------------------------- MODULE EventQueue -----------------------------
(* The event queue of OrionSlave: a ring of slots with the two indices and the *)
(* count the code keeps.                                                       *)
EXTENDS Integers, Sequences

CONSTANTS
    Events,      \* what a slot may hold
    MaxEvents    \* ORION_MAX_EVENTS

ASSUME QueueAssumption == MaxEvents \in Nat \ {0}

VARIABLES
    slots,   \* _events
    head,    \* _event_head
    tail,    \* _event_tail
    count    \* _event_count

queueVars == <<slots, head, tail, count>>

Slots == 0..(MaxEvents - 1)

\* A slot that was never written reads as zero bytes.
Blank == 0

QueueTypeOK ==
    /\ slots \in [Slots -> Events \cup {Blank}]
    /\ head \in Slots /\ tail \in Slots
    /\ count \in 0..MaxEvents

QueueInit ==
    /\ slots = [i \in Slots |-> Blank]
    /\ head = 0 /\ tail = 0 /\ count = 0

Full == count >= MaxEvents

PushEventOverwrites(e) ==                                    \* faulty variant
    /\ slots' = [slots EXCEPT ![head] = e]
    /\ head' = (head + 1) % MaxEvents
    /\ count' = count + 1
    /\ UNCHANGED tail

PushEventAhead(e) ==                                         \* faulty variant
    IF Full THEN UNCHANGED queueVars
    ELSE /\ head' = (head + 1) % MaxEvents
         /\ slots' = [slots EXCEPT ![head'] = e]
         /\ count' = count + 1
         /\ UNCHANGED tail

\* pushEvent: "Queue full" drops the event, and the callers do not look.
PushEvent(e) ==
    IF Full THEN UNCHANGED queueVars
    ELSE /\ slots' = [slots EXCEPT ![head] = e]
         /\ head' = (head + 1) % MaxEvents
         /\ count' = count + 1
         /\ UNCHANGED tail

OldestEvent == slots[tail]

PopKeepsTail ==                                              \* faulty variant
    count > 0 /\ count' = count - 1 /\ UNCHANGED <<slots, head, tail>>

\* popEvent when there is an event.
PopEvent ==
    /\ count > 0
    /\ tail' = (tail + 1) % MaxEvents
    /\ count' = count - 1
    /\ UNCHANGED <<slots, head>>

QueueNext == PopEvent \/ \E e \in Events : PushEvent(e)

QueueSpec == QueueInit /\ [][QueueNext]_queueVars

-----------------------------------------------------------------------------

\* The events in the queue, oldest first.
Contents == [i \in 1..count |-> slots[(tail + i - 1) % MaxEvents]]

Fifo == INSTANCE EventFifo WITH queue <- Contents, Capacity <- MaxEvents

\* Seen from outside the ring is a bounded first-in-first-out queue, also after
\* its indices have wrapped (orion_slave.cpp:85-105).
QueueIsFifo == Fifo!Spec
=============================================================================
