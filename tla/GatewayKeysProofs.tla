-------------------------- MODULE GatewayKeysProofs --------------------------
(* Proofs about GatewayKeys, for every set of keys and any number of boots. *)
EXTENDS GatewayKeys, TLAPS

\* Where each copy of the key stands at each place of setup() and loop().
KeyCopies ==
    /\ flashKey \in {acked} \cup requested
    /\ masterKey = messageKey
    /\ pc \in {"count", "keys"} => newKey = flashKey
    /\ pc \in {"announce", "loop"} =>
          monitorKey = flashKey /\ (masterKey = flashKey \/ serialSet)
    /\ pc \in {"store", "reply"} =>
          /\ monitorKey = newKey /\ newKey \in requested
          /\ masterKey = newKey \/ serialSet
    /\ pc = "reply" => flashKey = newKey

\* The flash is never behind what was announced, and ahead of it in between.
BootCounts ==
    /\ announced <= flashBoots
    /\ pc = "count" => bootCount = flashBoots + 1
    /\ pc \in {"keys", "announce"} => bootCount = flashBoots /\ announced < flashBoots

KeysInv == TypeOK /\ KeyCopies /\ BootCounts

LEMMA InitKeysInv == Init => KeysInv
<1> SUFFICES ASSUME Init PROVE KeysInv
  OBVIOUS
<1>1. TypeOK
  BY KeysAssumption DEF Init, TypeOK, Places
<1>2. KeyCopies
  BY DEF Init, KeyCopies
<1>3. BootCounts
  BY DEF Init, BootCounts
<1> QED  BY <1>1, <1>2, <1>3 DEF KeysInv

LEMMA StepKeysInv == KeysInv /\ [Next]_vars => KeysInv'
<1> SUFFICES ASSUME KeysInv, [Next]_vars PROVE KeysInv'
  OBVIOUS
<1> USE KeysAssumption DEF KeysInv, TypeOK, Places, flashVars, ramVars, historyVars
<1>1. CASE LoadConfig
  BY <1>1 DEF LoadConfig, Goes, KeyCopies, BootCounts
<1>2. CASE SaveBootCount
  BY <1>2 DEF SaveBootCount, Goes, KeyCopies, BootCounts
<1>3. CASE ConfigureKeys
  BY <1>3 DEF ConfigureKeys, HoldsKey, Goes, KeyCopies, BootCounts
<1>4. CASE AnnounceBoot
  BY <1>4 DEF AnnounceBoot, Goes, KeyCopies, BootCounts
<1>5. ASSUME NEW k \in Keys, SerialSetKey(k) PROVE KeysInv'
  BY <1>5 DEF SerialSetKey, Goes, KeyCopies, BootCounts
<1>6. ASSUME NEW k \in Keys, HttpSetKey(k) PROVE KeysInv'
  BY <1>6 DEF HttpSetKey, HoldsKey, Goes, KeyCopies, BootCounts
<1>7. CASE StoreKey
  BY <1>7 DEF StoreKey, Goes, KeyCopies, BootCounts
<1>8. CASE ReplyOk
  BY <1>8 DEF ReplyOk, Goes, KeyCopies, BootCounts
<1>9. CASE PowerCycle
  BY <1>9 DEF PowerCycle, KeyCopies, BootCounts
<1>10. CASE UNCHANGED vars
  BY <1>10 DEF vars, KeyCopies, BootCounts
<1> QED  BY <1>1, <1>2, <1>3, <1>4, <1>5, <1>6, <1>7, <1>8, <1>9, <1>10 DEF Next

-----------------------------------------------------------------------------

\* The inductive invariant of the key copies and the boot counter.
THEOREM KeysInvariant == Spec => []KeysInv
  BY InitKeysInv, StepKeysInv, PTL DEF Spec

\* The copies of the key, the boot counter and the places of setup() and loop() keep their
\* types over every power loss (main.cpp:748-800).
THEOREM KeysTypeCorrect == Spec => []TypeOK
<1>1. KeysInv => TypeOK
  BY DEF KeysInv
<1> QED  BY <1>1, KeysInvariant, PTL

\* A key confirmed to the operator survives every power loss: in operation the
\* monitor uses it or one asked for later.
THEOREM ConfirmedKeySurvives == Spec => []RunsWithConfirmedKey
<1>1. KeysInv => RunsWithConfirmedKey
  BY DEF KeysInv, KeyCopies, RunsWithConfirmedKey
<1> QED  BY <1>1, KeysInvariant, PTL

\* Monitor and master agree with the flash but for a key set by serial cable.
THEOREM KeysAgree == Spec => []KeysAgreeUnlessSerial
<1>1. KeysInv => KeysAgreeUnlessSerial
  BY DEF KeysInv, KeyCopies, KeysAgreeUnlessSerial
<1> QED  BY <1>1, KeysInvariant, PTL

\* No two boots announce the same count.
THEOREM BootsAreDistinct == Spec => BootCountsIncrease
<1>1. KeysInv /\ [Next]_vars => [Goes("announce", "loop") => announced' > announced]_vars
  <2> SUFFICES ASSUME KeysInv, Next, Goes("announce", "loop")
               PROVE  announced' > announced
    OBVIOUS
  <2>1. AnnounceBoot
    BY DEF Next, Goes, LoadConfig, SaveBootCount, ConfigureKeys, SerialSetKey,
       HttpSetKey, StoreKey, ReplyOk, PowerCycle
  <2> QED  BY <2>1 DEF AnnounceBoot, Goes, KeysInv, TypeOK, BootCounts
<1> QED  BY <1>1, KeysInvariant, PTL DEF Spec, BootCountsIncrease
=============================================================================
