---------------------------- MODULE EventChannel ----------------------------
(* What the operator of a bus device may rely on: the events of the device are  *)
(* numbered as they happen, and what is reported of them comes in that order,   *)
(* each at most once.  While nothing has failed every one is reported in turn;  *)
(* afterwards some may be skipped.                                              *)
EXTENDS Integers, Sequences

VARIABLES
    happened,    \* the number of events so far
    reported,    \* the events the operator was told of
    faulty       \* something has failed

channelVars == <<happened, reported, faulty>>

Init == happened = 0 /\ reported = <<>> /\ faulty = FALSE

Happens == happened' = happened + 1 /\ UNCHANGED <<reported, faulty>>

Reports ==
    /\ \E e \in 1..happened :
           /\ \A i \in 1..Len(reported) : reported[i] < e
           /\ ~faulty => e = Len(reported) + 1
           /\ reported' = Append(reported, e)
    /\ UNCHANGED <<happened, faulty>>

Fails == faulty' = TRUE /\ UNCHANGED <<happened, reported>>

Next == Happens \/ Reports \/ Fails

Spec == Init /\ [][Next]_channelVars
=============================================================================
