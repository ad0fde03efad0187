-------------------------- MODULE AdvertisingProofs --------------------------
(* Theorems about Advertising, for all values of its constants.            *)
EXTENDS Advertising, TLAPS, FiniteSetTheorems

\* Successors of the field's values are its values, and 1 comes after 0.
LEMMA AfterIndex ==
    /\ 0 \in Index /\ 1 \in Index
    /\ \A i \in Index : After(i) \in Index
    /\ After(0) = 1
BY ConstantsAssumption DEF Index, After

\* The flags of the advertising entity's thread may be given any truth value.
LEMMA EntityFlags ==
    ASSUME NEW e \in EntityStates
    PROVE  /\ [e EXCEPT !.needsAdvertise = TRUE] \in EntityStates
           /\ [e EXCEPT !.event = TRUE] \in EntityStates
           /\ [e EXCEPT !.doTerminate = TRUE] \in EntityStates
           /\ [e EXCEPT !.needsAdvertise = FALSE, !.pc = "test"] \in EntityStates
           /\ [e EXCEPT !.event = FALSE, !.pc = "advertise"] \in EntityStates
           /\ [e EXCEPT !.event = FALSE, !.pc = "delay"] \in EntityStates
<1>1. ASSUME NEW b \in BOOLEAN
      PROVE  /\ [e EXCEPT !.needsAdvertise = b] \in EntityStates
             /\ [e EXCEPT !.event = b] \in EntityStates
             /\ [e EXCEPT !.doTerminate = b] \in EntityStates
             /\ [e EXCEPT !.needsAdvertise = b, !.pc = "test"] \in EntityStates
             /\ [e EXCEPT !.event = b, !.pc = "advertise"] \in EntityStates
             /\ [e EXCEPT !.event = b, !.pc = "delay"] \in EntityStates
  BY DEF EntityStates
<1> QED  BY Zenon, <1>1

LEMMA TypeInit == Init => TypeOK
<1> SUFFICES ASSUME Init PROVE TypeOK
  OBVIOUS
<1>1. 0 \in Index  BY AfterIndex
<1>2. FlagTypes  BY Zenon DEF Init, FlagTypes
<1>3. DataTypes  BY <1>1 DEF Init, DataTypes, EntityStates, NoMessage
<1> QED  BY <1>2, <1>3 DEF TypeOK

\* The flags are only ever set, reset or copied.
LEMMA FlagStep == FlagTypes /\ [Next]_vars => FlagTypes'
<1> SUFFICES ASSUME FlagTypes, [Next]_vars PROVE FlagTypes'
  OBVIOUS
<1> USE DEF FlagTypes, queue, machine, index, others
<1>1. CASE adp_cb  BY Zenon, <1>1 DEF adp_cb
<1>2. CASE InterfaceStep
  <2>1. CASE CheckEmpty  BY Zenon, <2>1 DEF CheckEmpty
  <2>2. CASE WaitReturns  BY Zenon, <2>2 DEF WaitReturns
  <2>3. CASE ClearEvent  BY Zenon, <2>3 DEF ClearEvent
  <2>4. CASE CheckTerminate  BY Zenon, <2>4 DEF CheckTerminate
  <2>5. CASE CheckAdvertise  BY Zenon, <2>5 DEF CheckAdvertise
  <2>6. CASE SendAvailable  BY Zenon, <2>6 DEF SendAvailable
  <2>7. CASE LoadIndex  BY Zenon, <2>7 DEF LoadIndex
  <2>8. CASE StoreIndex  BY Zenon, <2>8 DEF StoreIndex
  <2>9. CASE ResetAdvertise  BY Zenon, <2>9 DEF ResetAdvertise
  <2>10. CASE GetDiscover  BY Zenon, <2>10 DEF GetDiscover, performAdvertise
  <2>11. CASE UpdateGrandmaster  BY Zenon, <2>11 DEF UpdateGrandmaster, Compare, Adopt, performAdvertise
  <2>12. CASE UpdateConfiguration  BY Zenon, <2>12 DEF UpdateConfiguration, Compare, Adopt, performAdvertise
  <2>13. CASE CompareLink  BY Zenon, <2>13 DEF CompareLink
  <2>14. CASE AdoptLink  BY Zenon, <2>14 DEF AdoptLink
  <2>15. CASE AdvertiseLink  BY Zenon, <2>15 DEF AdvertiseLink, performAdvertise
  <2>16. CASE SendDeparting  BY Zenon, <2>16 DEF SendDeparting
  <2>17. CASE EndInterface  BY Zenon, <2>17 DEF EndInterface
  <2> QED  BY <1>2, <2>1, <2>2, <2>3, <2>4, <2>5, <2>6, <2>7, <2>8, <2>9, <2>10, <2>11,
             <2>12, <2>13, <2>14, <2>15, <2>16, <2>17 DEF InterfaceStep
<1>3. CASE EntityStep
  <2>1. CASE EntityInitialise  BY Zenon, <2>1 DEF EntityInitialise
  <2>2. CASE EntityWaitReturns  BY Zenon, <2>2 DEF EntityWaitReturns
  <2>3. CASE EntityCheckTerminate  BY Zenon, <2>3 DEF EntityCheckTerminate
  <2>4. CASE EntityClearEvent  BY Zenon, <2>4 DEF EntityClearEvent
  <2>5. CASE EntityAdvertise  BY Zenon, <2>5 DEF EntityAdvertise
  <2>6. CASE EntityNotify  BY Zenon, <2>6 DEF EntityNotify
  <2>7. CASE EntityForget  BY Zenon, <2>7 DEF EntityForget
  <2>8. CASE EntityTest  BY Zenon, <2>8 DEF EntityTest
  <2> QED  BY <1>3, <2>1, <2>2, <2>3, <2>4, <2>5, <2>6, <2>7, <2>8 DEF EntityStep
<1>4. CASE MainStep
  <2>1. CASE RequestAdvertise  BY Zenon, <2>1 DEF RequestAdvertise, MainGoto, Request
  <2>2. CASE Change  BY Zenon, <2>2, ConstantsAssumption DEF Change, Request
  <2>3. CASE EndMachines  BY Zenon, <2>3 DEF EndMachines, MainGoto
  <2> QED  BY <1>4, <2>1, <2>2, <2>3 DEF MainStep
<1>5. CASE UNCHANGED vars  BY Zenon, <1>5 DEF vars
<1> QED  BY <1>1, <1>2, <1>3, <1>4, <1>5 DEF Next

\* Of each action only what it assigns matters.
LEMMA DataStep == TypeOK /\ [Next]_vars => DataTypes'
<1> SUFFICES ASSUME TypeOK, [Next]_vars PROVE DataTypes'
  OBVIOUS
<1> USE DEF TypeOK, DataTypes, queue, machine, index, others, Goto
<1>1. CASE adp_cb  BY <1>1 DEF adp_cb
<1>2. CASE InterfaceStep
  <2>1. CASE CheckEmpty  BY <2>1 DEF CheckEmpty
  <2>2. CASE WaitReturns  BY <2>2 DEF WaitReturns
  <2>3. CASE ClearEvent  BY <2>3 DEF ClearEvent
  <2>4. CASE CheckTerminate  BY <2>4 DEF CheckTerminate
  <2>5. CASE CheckAdvertise  BY <2>5 DEF CheckAdvertise
  <2>6. CASE SendAvailable  BY <2>6 DEF SendAvailable
  <2>7. CASE LoadIndex  BY <2>7 DEF LoadIndex
  <2>8. CASE StoreIndex  BY <2>8, AfterIndex DEF StoreIndex
  <2>9. CASE ResetAdvertise  BY <2>9 DEF ResetAdvertise
  <2>10. CASE GetDiscover  BY <2>10 DEF GetDiscover, performAdvertise
  <2>11. CASE UpdateGrandmaster  BY <2>11 DEF UpdateGrandmaster, Compare, Adopt, performAdvertise
  <2>12. CASE UpdateConfiguration  BY <2>12 DEF UpdateConfiguration, Compare, Adopt, performAdvertise
  <2>13. CASE CompareLink  BY <2>13 DEF CompareLink
  <2>14. CASE AdoptLink  BY <2>14 DEF AdoptLink
  <2>15. CASE AdvertiseLink  BY <2>15 DEF AdvertiseLink, performAdvertise
  <2>16. CASE SendDeparting  BY <2>16 DEF SendDeparting
  <2>17. CASE EndInterface  BY <2>17, AfterIndex DEF EndInterface
  <2> QED  BY <1>2, <2>1, <2>2, <2>3, <2>4, <2>5, <2>6, <2>7, <2>8, <2>9, <2>10, <2>11,
             <2>12, <2>13, <2>14, <2>15, <2>16, <2>17 DEF InterfaceStep
<1>3. CASE EntityStep
  <2>1. CASE EntityInitialise  BY <2>1, AfterIndex DEF EntityInitialise, EntityStates
  <2>2. CASE EntityWaitReturns  BY <2>2 DEF EntityWaitReturns, EntityStates
  <2>3. CASE EntityCheckTerminate  BY <2>3 DEF EntityCheckTerminate, EntityStates
  <2>4. CASE EntityClearEvent
    <3>1. entity' \in EntityStates  BY Zenon, <2>4, EntityFlags DEF EntityClearEvent
    <3> QED  BY <2>4, <3>1 DEF EntityClearEvent
  <2>5. CASE EntityAdvertise  BY <2>5 DEF EntityAdvertise, EntityStates
  <2>6. CASE EntityNotify  BY <2>6 DEF EntityNotify, EntityStates
  <2>7. CASE EntityForget
    <3>1. entity' \in EntityStates  BY Zenon, <2>7, EntityFlags DEF EntityForget
    <3> QED  BY <2>7, <3>1 DEF EntityForget
  <2>8. CASE EntityTest  BY <2>8 DEF EntityTest, EntityStates
  <2> QED  BY <1>3, <2>1, <2>2, <2>3, <2>4, <2>5, <2>6, <2>7, <2>8 DEF EntityStep
<1>4. CASE MainStep
  <2>1. CASE RequestAdvertise
    <3>1. entity' \in EntityStates  BY Zenon, <2>1, EntityFlags DEF RequestAdvertise, MainGoto, Request
    <3> QED  BY <2>1, <3>1 DEF RequestAdvertise, MainGoto, Request
  <2>2. CASE Change  BY <2>2, ConstantsAssumption DEF Change, Request
  <2>3. CASE EndMachines
    <3>1. entity' \in EntityStates  BY Zenon, <2>3, EntityFlags DEF EndMachines, MainGoto
    <3> QED  BY <2>3, <3>1 DEF EndMachines, MainGoto
  <2> QED  BY <1>4, <2>1, <2>2, <2>3 DEF MainStep
<1>5. CASE UNCHANGED vars  BY <1>5 DEF vars
<1> QED  BY <1>1, <1>2, <1>3, <1>4, <1>5 DEF Next

\* Every variable keeps its type, whatever the threads do.
THEOREM TypeCorrect == Spec => []TypeOK
<1>1. TypeOK /\ [Next]_vars => TypeOK'
  BY FlagStep, DataStep DEF TypeOK
<1> QED  BY TypeInit, <1>1, PTL DEF Spec

-----------------------------------------------------------------------------
(* DiscoverKept.  Between sending and ResetAdvertise the queue alone must   *)
(* hold the discovers that came since; that makes the invariant inductive.  *)

Waiting(q) == \E i \in DOMAIN q : Asked(q[i])

KeptInv ==
    /\ pending => doAdvertise \/ Waiting(rcvdDiscover)
    /\ pc \in {"load", "store", "reset"} => (pending => Waiting(rcvdDiscover))

\* What is appended, or is not the head, stays in the queue.
LEMMA QueueKeeps ==
    ASSUME NEW q \in Seq(DiscoverIds)
    PROVE  /\ \A id \in DiscoverIds : Waiting(Append(q, id)) <=> Waiting(q) \/ Asked(id)
           /\ q # << >> => (Waiting(q) <=> Waiting(Tail(q)) \/ Asked(Head(q)))
           /\ q = << >> => ~Waiting(q)
<1>1. \A id \in DiscoverIds : Waiting(Append(q, id)) <=> Waiting(q) \/ Asked(id)
  BY DEF Waiting
<1>2. ASSUME q # << >> PROVE Waiting(q) <=> Waiting(Tail(q)) \/ Asked(Head(q))
  <2>1. /\ Len(q) \in Nat \ {0} /\ DOMAIN q = 1 .. Len(q)
        /\ DOMAIN Tail(q) = 1 .. Len(q) - 1
        /\ \A i \in 1 .. Len(q) - 1 : Tail(q)[i] = q[i + 1]
        /\ Head(q) = q[1]
    BY <1>2
  <2>2. ASSUME Waiting(q) PROVE Waiting(Tail(q)) \/ Asked(Head(q))
    <3>1. PICK i \in 1 .. Len(q) : Asked(q[i])  BY <2>1, <2>2 DEF Waiting
    <3>2. CASE i = 1  BY <2>1, <3>1, <3>2
    <3>3. CASE i # 1
      <4>1. i - 1 \in 1 .. Len(q) - 1 /\ Tail(q)[i - 1] = q[i]  BY <2>1, <3>3
      <4> QED  BY <2>1, <3>1, <4>1 DEF Waiting
    <3> QED  BY <3>2, <3>3
  <2>3. ASSUME Waiting(Tail(q)) PROVE Waiting(q)
    <3>1. PICK i \in 1 .. Len(q) - 1 : Asked(Tail(q)[i])  BY <2>1, <2>3 DEF Waiting
    <3>2. i + 1 \in 1 .. Len(q) /\ Tail(q)[i] = q[i + 1]  BY <2>1
    <3> QED  BY <2>1, <3>1, <3>2 DEF Waiting
  <2>4. ASSUME Asked(Head(q)) PROVE Waiting(q)
    BY <2>1, <2>4 DEF Waiting
  <2> QED  BY <2>2, <2>3, <2>4
<1>3. q = << >> => ~Waiting(q)
  BY DEF Waiting
<1> QED  BY <1>1, <1>2, <1>3

LEMMA KeptStep == TypeOK /\ KeptInv /\ [Next]_vars => KeptInv'
<1> SUFFICES ASSUME TypeOK, KeptInv, [Next]_vars PROVE KeptInv'
  OBVIOUS
<1> USE DEF KeptInv, queue, machine, index, others, Goto
<1>q. rcvdDiscover \in Seq(DiscoverIds)
  BY DEF TypeOK, DataTypes
<1>1. CASE adp_cb
  BY <1>q, <1>1, QueueKeeps, ZenonT(30) DEF adp_cb
<1>2. CASE InterfaceStep
  <2>1. CASE CheckEmpty  BY <2>1 DEF CheckEmpty
  <2>2. CASE WaitReturns  BY <2>2 DEF WaitReturns
  <2>3. CASE ClearEvent  BY <2>3 DEF ClearEvent
  <2>4. CASE CheckTerminate  BY <2>4 DEF CheckTerminate
  <2>5. CASE CheckAdvertise  BY <2>5 DEF CheckAdvertise
  <2>6. CASE SendAvailable  BY <2>6 DEF SendAvailable
  <2>7. CASE LoadIndex  BY <2>7 DEF LoadIndex
  <2>8. CASE StoreIndex  BY <2>8 DEF StoreIndex
  <2>9. CASE ResetAdvertise  BY <2>9 DEF ResetAdvertise
  <2>10. CASE GetDiscover  BY <2>10, <1>q, QueueKeeps DEF GetDiscover, performAdvertise
  <2>11. CASE UpdateGrandmaster  BY <2>11 DEF UpdateGrandmaster, Compare, Adopt, performAdvertise
  <2>12. CASE UpdateConfiguration  BY <2>12 DEF UpdateConfiguration, Compare, Adopt, performAdvertise
  <2>13. CASE CompareLink  BY <2>13 DEF CompareLink
  <2>14. CASE AdoptLink  BY <2>14 DEF AdoptLink
  <2>15. CASE AdvertiseLink  BY <2>15 DEF AdvertiseLink, performAdvertise
  <2>16. CASE SendDeparting  BY <2>16 DEF SendDeparting
  <2>17. CASE EndInterface  BY <2>17 DEF EndInterface
  <2> QED  BY <1>2, <2>1, <2>2, <2>3, <2>4, <2>5, <2>6, <2>7, <2>8, <2>9, <2>10, <2>11,
             <2>12, <2>13, <2>14, <2>15, <2>16, <2>17 DEF InterfaceStep
<1>3. CASE EntityStep
  BY <1>3 DEF EntityStep, EntityInitialise, EntityWaitReturns, EntityCheckTerminate,
              EntityClearEvent, EntityAdvertise, EntityNotify, EntityForget, EntityTest
<1>4. CASE MainStep
  BY <1>4 DEF MainStep, RequestAdvertise, Change, EndMachines
<1>5. CASE UNCHANGED vars
  BY <1>5 DEF vars
<1> QED  BY <1>1, <1>2, <1>3, <1>4, <1>5 DEF Next

LEMMA KeptInvariant == Spec => []KeptInv
<1>1. Init => KeptInv
  BY DEF Init, KeptInv
<1> QED  BY TypeCorrect, KeptStep, <1>1, PTL DEF Spec

\* No discover for this entity is forgotten: whatever the two threads, adp_cb and the main
\* thread do, it waits in the queue or doAdvertise is set until an ENTITY_AVAILABLE follows.
THEOREM DiscoverIsKept == Spec => []DiscoverKept
<1>1. KeptInv => DiscoverKept
  BY DEF KeptInv, DiscoverKept, Waiting
<1> QED  BY KeptInvariant, <1>1, PTL

-----------------------------------------------------------------------------
(* IndexRises.  i is what the next index is reckoned from.  It is the last  *)
(* one sent or, if that was before EntityInitialise, perhaps 0.             *)

From(i) == \/ i = last.index
           \/ ~last.initialised /\ i = 0

IndexInv ==
    /\ last.initialised => entity.pc # "init"
    /\ pc \in {"load", "store"} => last.type = "ENTITY_AVAILABLE"
    /\ last.type = "ENTITY_AVAILABLE" =>
         /\ pc = "load" => From(available_index)
         /\ pc = "store" => From(loaded)
         /\ pc \notin {"load", "store", "departed", "stopped"} =>
              \/ \E i \in Index : From(i) /\ available_index = After(i)
              \/ ~last.initialised /\ available_index = 0

LEMMA IndexStep == TypeOK /\ IndexInv /\ [Next]_vars => IndexInv'
<1> SUFFICES ASSUME TypeOK, IndexInv, [Next]_vars PROVE IndexInv'
  OBVIOUS
<1>t. /\ loaded \in Index /\ available_index \in Index /\ entity \in EntityStates
      /\ last \in [ type : {"NONE", "ENTITY_AVAILABLE", "ENTITY_DEPARTING"}, index : Index,
                    initialised : BOOLEAN ]
  BY DEF TypeOK, DataTypes
<1> USE <1>t, AfterIndex DEF IndexInv, From, EntityStates, queue, machine, index, others, Goto
<1>1. CASE adp_cb
  BY <1>1 DEF adp_cb
<1>2. CASE InterfaceStep
  <2>1. CASE CheckEmpty  BY <2>1 DEF CheckEmpty
  <2>2. CASE WaitReturns  BY <2>2 DEF WaitReturns
  <2>3. CASE ClearEvent  BY <2>3 DEF ClearEvent
  <2>4. CASE CheckTerminate  BY <2>4 DEF CheckTerminate
  <2>5. CASE CheckAdvertise  BY <2>5 DEF CheckAdvertise
  <2>6. CASE SendAvailable
    <3>1. /\ last'.type = "ENTITY_AVAILABLE" /\ last'.index = available_index
          /\ available_index' = available_index /\ pc' = "load" /\ entity' = entity
      BY <2>6 DEF SendAvailable
    <3>2. last'.initialised => entity.pc # "init"
      BY Zenon, <2>6 DEF SendAvailable
    <3>3. From(available_index)'  BY <3>1
    <3>4. last'.initialised => entity'.pc # "init"  BY Zenon, <3>1, <3>2
    <3> QED  BY Zenon, <3>1, <3>3, <3>4
  <2>7. CASE LoadIndex  BY <2>7 DEF LoadIndex
  <2>8. CASE StoreIndex  BY <2>8 DEF StoreIndex
  <2>9. CASE ResetAdvertise  BY <2>9 DEF ResetAdvertise
  <2>10. CASE GetDiscover  BY <2>10 DEF GetDiscover, performAdvertise
  <2>11. CASE UpdateGrandmaster  BY <2>11 DEF UpdateGrandmaster, Compare, Adopt, performAdvertise
  <2>12. CASE UpdateConfiguration  BY <2>12 DEF UpdateConfiguration, Compare, Adopt, performAdvertise
  <2>13. CASE CompareLink  BY <2>13 DEF CompareLink
  <2>14. CASE AdoptLink  BY <2>14 DEF AdoptLink
  <2>15. CASE AdvertiseLink  BY <2>15 DEF AdvertiseLink, performAdvertise
  <2>16. CASE SendDeparting  BY <2>16 DEF SendDeparting
  <2>17. CASE EndInterface  BY <2>17 DEF EndInterface
  <2> QED  BY <1>2, <2>1, <2>2, <2>3, <2>4, <2>5, <2>6, <2>7, <2>8, <2>9, <2>10, <2>11,
             <2>12, <2>13, <2>14, <2>15, <2>16, <2>17 DEF InterfaceStep
<1>3. CASE EntityStep
  <2>1. CASE EntityInitialise  BY <2>1 DEF EntityInitialise
  <2>2. CASE EntityWaitReturns  BY <2>2 DEF EntityWaitReturns
  <2>3. CASE EntityCheckTerminate  BY <2>3 DEF EntityCheckTerminate
  <2>4. CASE EntityClearEvent  BY <2>4 DEF EntityClearEvent
  <2>5. CASE EntityAdvertise  BY <2>5 DEF EntityAdvertise
  <2>6. CASE EntityNotify  BY <2>6 DEF EntityNotify
  <2>7. CASE EntityForget  BY <2>7 DEF EntityForget
  <2>8. CASE EntityTest  BY <2>8 DEF EntityTest
  <2> QED  BY <1>3, <2>1, <2>2, <2>3, <2>4, <2>5, <2>6, <2>7, <2>8 DEF EntityStep
<1>4. CASE MainStep
  <2>1. CASE RequestAdvertise  BY <2>1 DEF RequestAdvertise, MainGoto, Request
  <2>2. CASE Change  BY <2>2 DEF Change, Request
  <2>3. CASE EndMachines  BY <2>3 DEF EndMachines, MainGoto
  <2> QED  BY <1>4, <2>1, <2>2, <2>3 DEF MainStep
<1>5. CASE UNCHANGED vars
  BY <1>5 DEF vars
<1> QED  BY <1>1, <1>2, <1>3, <1>4, <1>5 DEF Next

\* Consecutive ENTITY_AVAILABLE messages carry consecutive indices, up to the one restart
\* when the advertising entity's thread begins after an ENTITY_AVAILABLE was sent.
THEOREM IndicesRise == Spec => IndexRises
<1>1. Init => IndexInv
  BY DEF Init, IndexInv, NoMessage
<1>2. TypeOK /\ IndexInv /\ [Next]_vars =>
        [ pc = "send" /\ pc' = "load" /\ last.type = "ENTITY_AVAILABLE" =>
            \/ last'.index = After(last.index)
            \/ ~last.initialised /\ last'.index \in {0, 1} ]_vars
  <2> SUFFICES ASSUME TypeOK, IndexInv, Next, pc = "send", pc' = "load",
                      last.type = "ENTITY_AVAILABLE"
               PROVE  \/ last'.index = After(last.index)
                      \/ ~last.initialised /\ last'.index \in {0, 1}
    OBVIOUS
  <2>1. SendAvailable
    BY DEF Next, adp_cb, InterfaceStep, EntityStep, MainStep, CheckEmpty, WaitReturns,
           ClearEvent, CheckTerminate, CheckAdvertise, LoadIndex, StoreIndex, ResetAdvertise,
           GetDiscover, UpdateGrandmaster, UpdateConfiguration, Compare, Adopt, CompareLink,
           AdoptLink, AdvertiseLink, SendDeparting, EndInterface, EntityInitialise,
           EntityWaitReturns, EntityCheckTerminate, EntityClearEvent, EntityAdvertise,
           EntityNotify, EntityForget, EntityTest, RequestAdvertise, Change, EndMachines,
           others, Goto
  <2>2. last'.index = available_index
    BY <2>1 DEF SendAvailable
  <2> QED  BY <2>2, AfterIndex DEF IndexInv, From
<1> QED  BY TypeCorrect, IndexStep, <1>1, <1>2, PTL DEF Spec, IndexRises

-----------------------------------------------------------------------------
(* Liveness.  The provers know neither ENABLED, which WF is defined with,   *)
(* nor induction on temporal formulas.  What a theorem needs of them it     *)
(* takes as a hypothesis that is always true: CanStep of every behaviour of *)
(* the specification, Descent(f) of every behaviour at all.                 *)

\* Each of the threads that FairSpec and EntityKeepsRunning are about can take a step in
\* every state but those named here, so this is what their WF says.
CanStep ==
    /\ WF_vars(InterfaceStep) => []<>(pc = "stopped") \/ []<><<InterfaceStep>>_vars
    /\ WF_vars(EntityStep) => []<>(entity.pc = "stopped") \/ []<><<EntityStep>>_vars
    /\ WF_vars(EndMachines /\ main # "running") =>
         \/ []<>(main \in {"running", "requested", "joining"})
         \/ []<><<EndMachines /\ main # "running">>_vars

\* What falls again and again, and is always a natural number, rises again and again.
Descent(f) == [](f \in Nat) /\ []<><<f' < f>>_f => []<><<f' > f>>_f

\* Where each step of the interface's thread leads
InterfaceMove ==
    \/ pc = "empty" /\ pc' \in {"wait", "terminate"}
    \/ pc = "wait" /\ pc' = "clear"
    \/ pc = "clear" /\ pc' = "terminate"
    \/ pc = "terminate" /\ pc' = (IF doTerminate THEN "depart" ELSE "advertise")
    \/ pc = "advertise" /\ pc' = (IF doAdvertise THEN "send" ELSE "discover")
    \/ pc = "send" /\ pc' = "load"
    \/ pc = "load" /\ pc' = "store"
    \/ pc = "store" /\ pc' = "reset"
    \/ pc = "reset" /\ pc' = "discover"
    \/ pc = "discover" /\ pc' = "gm"
    \/ pc = "gm" /\ pc' \in {"gmchanged", "link"}
    \/ pc = "gmchanged" /\ pc' = "link"
    \/ pc = "link" /\ pc' \in {"linkchanged", "config"}
    \/ pc = "linkchanged" /\ pc' = "linktest"
    \/ pc = "linktest" /\ pc' = "config"
    \/ pc = "config" /\ pc' \in {"configchanged", "empty"}
    \/ pc = "configchanged" /\ pc' = "empty"
    \/ pc = "depart" /\ pc' = "departed"
    \/ pc = "departed" /\ pc' = "stopped"

LEMMA InterfaceMoves ==
    ASSUME InterfaceStep
    PROVE  /\ InterfaceMove
           /\ doTerminate' = doTerminate
           /\ entity' = entity /\ main' = main
           /\ pc # "reset" /\ doAdvertise => doAdvertise'
<1> USE DEF InterfaceMove, queue, machine, index, Goto
<1>1. CASE CheckEmpty  BY Zenon, <1>1 DEF CheckEmpty
<1>2. CASE WaitReturns  BY Zenon, <1>2 DEF WaitReturns
<1>3. CASE ClearEvent  BY Zenon, <1>3 DEF ClearEvent
<1>4. CASE CheckTerminate  BY Zenon, <1>4 DEF CheckTerminate
<1>5. CASE CheckAdvertise  BY Zenon, <1>5 DEF CheckAdvertise
<1>6. CASE SendAvailable  BY Zenon, <1>6 DEF SendAvailable
<1>7. CASE LoadIndex  BY Zenon, <1>7 DEF LoadIndex
<1>8. CASE StoreIndex  BY Zenon, <1>8 DEF StoreIndex
<1>9. CASE ResetAdvertise  BY Zenon, <1>9 DEF ResetAdvertise
<1>10. CASE GetDiscover  BY Zenon, <1>10 DEF GetDiscover, performAdvertise
<1>11. CASE UpdateGrandmaster  BY <1>11 DEF UpdateGrandmaster, Compare, Adopt, performAdvertise
<1>12. CASE UpdateConfiguration  BY <1>12 DEF UpdateConfiguration, Compare, Adopt, performAdvertise
<1>13. CASE CompareLink  BY Zenon, <1>13 DEF CompareLink
<1>14. CASE AdoptLink  BY Zenon, <1>14 DEF AdoptLink
<1>15. CASE AdvertiseLink  BY Zenon, <1>15 DEF AdvertiseLink, performAdvertise
<1>16. CASE SendDeparting  BY Zenon, <1>16 DEF SendDeparting
<1>17. CASE EndInterface  BY Zenon, <1>17 DEF EndInterface
<1> QED  BY <1>1, <1>2, <1>3, <1>4, <1>5, <1>6, <1>7, <1>8, <1>9, <1>10, <1>11, <1>12, <1>13, <1>14,
            <1>15, <1>16, <1>17 DEF InterfaceStep

\* Where each step of the advertising entity's thread leads
EntityMove ==
    \/ entity.pc = "init" /\ entity'.pc = "delay"
    \/ entity.pc = "delay" /\ entity'.pc = "delayed"
    \/ entity.pc = "delayed" /\ entity'.pc = (IF entity.doTerminate THEN "stopped" ELSE "toadvertise")
    \/ entity.pc = "toadvertise" /\ entity'.pc = "advertise"
    \/ entity.pc = "advertise" /\ entity'.pc = "notify"
    \/ entity.pc = "notify" /\ entity'.pc = "forget"
    \/ entity.pc = "forget" /\ entity'.pc = "test"
    \/ entity.pc = "test" /\ entity'.pc \in {"waited", "waiting"}
    \/ entity.pc = "waiting" /\ entity'.pc = "waited"
    \/ entity.pc = "waited" /\ entity'.pc = (IF entity.doTerminate THEN "stopped" ELSE "todelay")
    \/ entity.pc = "todelay" /\ entity'.pc = "delay"

LEMMA EntityMoves ==
    ASSUME entity \in EntityStates, EntityStep
    PROVE  /\ EntityMove
           /\ entity'.doTerminate = entity.doTerminate
           /\ doTerminate' = doTerminate /\ main' = main /\ pc' = pc
           /\ doAdvertise \/ entity.pc = "advertise" => doAdvertise'
<1> USE DEF EntityMove, others, EntityStates
<1>1. CASE EntityInitialise  BY <1>1 DEF EntityInitialise
<1>2. CASE EntityWaitReturns  BY <1>2 DEF EntityWaitReturns
<1>3. CASE EntityCheckTerminate  BY <1>3 DEF EntityCheckTerminate
<1>4. CASE EntityClearEvent  BY <1>4 DEF EntityClearEvent
<1>5. CASE EntityAdvertise  BY <1>5 DEF EntityAdvertise
<1>6. CASE EntityNotify  BY <1>6 DEF EntityNotify
<1>7. CASE EntityForget  BY <1>7 DEF EntityForget
<1>8. CASE EntityTest  BY <1>8 DEF EntityTest
<1> QED  BY <1>1, <1>2, <1>3, <1>4, <1>5, <1>6, <1>7, <1>8 DEF EntityStep

Ending == {"flagged", "notified", "entityflagged", "joining"}

\* The main thread begins the end only once, and moves neither of the two threads.
LEMMA MainMoves ==
    ASSUME entity \in EntityStates, MainStep
    PROVE  /\ pc' = pc /\ entity'.pc = entity.pc /\ doAdvertise' = doAdvertise
           /\ \/ /\ main \in {"running", "requested"} /\ main' \in {"running", "requested"}
                 /\ doTerminate' = doTerminate /\ entity'.doTerminate = entity.doTerminate
              \/ /\ main = "running" /\ main' = "flagged"
                 /\ doTerminate' /\ entity'.doTerminate = entity.doTerminate
              \/ /\ main = "flagged" /\ main' = "notified"
                 /\ doTerminate' = doTerminate /\ entity'.doTerminate = entity.doTerminate
              \/ /\ main = "notified" /\ main' = "entityflagged"
                 /\ doTerminate' = doTerminate /\ entity'.doTerminate
              \/ /\ main = "entityflagged" /\ main' = "joining"
                 /\ doTerminate' = doTerminate /\ entity'.doTerminate = entity.doTerminate
<1> USE DEF queue, machine, index, EntityStates, MainGoto, Request
<1>1. CASE RequestAdvertise  BY <1>1 DEF RequestAdvertise
<1>2. CASE Change  BY <1>2 DEF Change
<1>3. CASE EndMachines  BY <1>3 DEF EndMachines
<1> QED  BY <1>1, <1>2, <1>3 DEF MainStep

\* adp_cb moves nothing.
LEMMA CallbackMoves ==
    ASSUME adp_cb \/ UNCHANGED vars
    PROVE  /\ pc' = pc /\ entity' = entity /\ doAdvertise' = doAdvertise
           /\ main' = main /\ doTerminate' = doTerminate
BY Zenon DEF adp_cb, vars, machine, index

\* Where the main thread is tells what it has told the other two; neither stops before.
EndInv ==
    /\ doTerminate <=> main \in Ending
    /\ entity.doTerminate <=> main \in {"entityflagged", "joining"}
    /\ pc \in {"depart", "departed", "stopped"} => doTerminate
    /\ entity.pc = "stopped" => entity.doTerminate

LEMMA EndStep == TypeOK /\ EndInv /\ [Next]_vars => EndInv'
<1> SUFFICES ASSUME TypeOK, EndInv, [Next]_vars PROVE EndInv'
  OBVIOUS
<1>t. doTerminate \in BOOLEAN /\ entity \in EntityStates
  BY DEF TypeOK, FlagTypes, DataTypes
<1>1. CASE adp_cb \/ UNCHANGED vars  BY <1>1, CallbackMoves DEF EndInv
<1>2. CASE InterfaceStep  BY <1>2, InterfaceMoves DEF EndInv, InterfaceMove
<1>3. CASE EntityStep  BY <1>3, <1>t, EntityMoves DEF EndInv, EntityMove
<1>4. CASE MainStep  BY <1>4, <1>t, MainMoves DEF EndInv, Ending
<1> QED  BY <1>1, <1>2, <1>3, <1>4 DEF Next

LEMMA EndInvariant == Spec => [](TypeOK /\ EndInv)
<1>1. Init => EndInv
  BY DEF Init, EndInv, Ending
<1> QED  BY <1>1, EndStep, TypeCorrect, PTL DEF Spec

-----------------------------------------------------------------------------
(* Terminates.                                                              *)

\* The steps to the end, at most, of a thread that is told to end
Distance ==
    CASE pc = "stopped" -> 0 [] pc = "departed" -> 1 [] pc = "depart" -> 2 [] pc = "terminate" -> 3
      [] pc = "clear" -> 4 [] pc = "wait" -> 5 [] pc = "empty" -> 6 [] pc = "configchanged" -> 7
      [] pc = "config" -> 8 [] pc = "linktest" -> 9 [] pc = "linkchanged" -> 10 [] pc = "link" -> 11
      [] pc = "gmchanged" -> 12 [] pc = "gm" -> 13 [] pc = "discover" -> 14 [] pc = "reset" -> 15
      [] pc = "store" -> 16 [] pc = "load" -> 17 [] pc = "send" -> 18 [] OTHER -> 19

EntityDistance ==
    CASE entity.pc = "stopped" -> 0 [] entity.pc \in {"delayed", "waited"} -> 1
      [] entity.pc \in {"delay", "waiting"} -> 2 [] entity.pc \in {"init", "todelay", "test"} -> 3
      [] entity.pc = "forget" -> 4 [] entity.pc = "notify" -> 5 [] entity.pc = "advertise" -> 6
      [] OTHER -> 7

Within(n) == doTerminate /\ Distance <= n

EntityWithin(n) == entity.doTerminate /\ EntityDistance <= n

\* What the steps of n are worth: they are not taken back, and one of the thread leaves m.
Approaches(m, n) ==
    /\ TypeOK /\ Within(n) /\ [Next]_vars => Within(n)'
    /\ TypeOK /\ Within(n) /\ <<InterfaceStep>>_vars => Within(m)'

EntityApproaches(m, n) ==
    /\ TypeOK /\ EntityWithin(n) /\ [Next]_vars => EntityWithin(n)'
    /\ TypeOK /\ EntityWithin(n) /\ <<EntityStep>>_vars => EntityWithin(m)'

LEMMA StillEnding == TypeOK /\ doTerminate /\ [Next]_vars => doTerminate'
<1> SUFFICES ASSUME TypeOK, doTerminate, [Next]_vars PROVE doTerminate'
  OBVIOUS
<1>1. entity \in EntityStates  BY DEF TypeOK, DataTypes
<1> QED  BY Zenon, <1>1, CallbackMoves, InterfaceMoves, EntityMoves, MainMoves DEF Next

LEMMA Approach == \A n \in Nat : Approaches(n, n) /\ Approaches(n, n + 1)
<1> SUFFICES ASSUME NEW n \in Nat, TypeOK, doTerminate, [Next]_vars
             PROVE  /\ doTerminate' /\ Distance' <= Distance
                    /\ InterfaceStep => Distance' < Distance
  <2>1. Distance \in Nat /\ Distance' \in Nat  BY DEF Distance
  <2> QED  BY <2>1 DEF Approaches, Within, Next
<1>1. ASSUME InterfaceStep PROVE doTerminate' /\ Distance' < Distance
  <2>1. doTerminate' /\ InterfaceMove  BY <1>1, InterfaceMoves
  <2> QED  BY <2>1 DEF InterfaceMove, Distance
<1>2. ASSUME adp_cb \/ EntityStep \/ MainStep \/ UNCHANGED vars PROVE doTerminate' /\ pc' = pc
  <2>1. entity \in EntityStates  BY DEF TypeOK, DataTypes
  <2> QED  BY <1>2, <2>1, CallbackMoves, EntityMoves, MainMoves
<1>3. Distance \in Nat /\ Distance' \in Nat /\ (pc' = pc => Distance' = Distance)
  BY DEF Distance
<1> QED  BY <1>1, <1>2, <1>3 DEF Next

LEMMA EntityApproach == \A n \in Nat : EntityApproaches(n, n) /\ EntityApproaches(n, n + 1)
<1> SUFFICES ASSUME NEW n \in Nat, TypeOK, entity.doTerminate, [Next]_vars
             PROVE  /\ entity'.doTerminate /\ EntityDistance' <= EntityDistance
                    /\ EntityStep => EntityDistance' < EntityDistance
  <2>1. EntityDistance \in Nat /\ EntityDistance' \in Nat  BY DEF EntityDistance
  <2> QED  BY <2>1 DEF EntityApproaches, EntityWithin, Next
<1>1. entity \in EntityStates  BY DEF TypeOK, DataTypes
<1>2. ASSUME EntityStep PROVE entity'.doTerminate /\ EntityDistance' < EntityDistance
  <2>1. entity'.doTerminate /\ EntityMove  BY <1>1, <1>2, EntityMoves
  <2> QED  BY <2>1 DEF EntityMove, EntityDistance
<1>3. ASSUME adp_cb \/ InterfaceStep \/ MainStep \/ UNCHANGED vars
      PROVE  entity'.doTerminate /\ entity'.pc = entity.pc
  BY <1>1, <1>3, CallbackMoves, InterfaceMoves, MainMoves
<1>4. /\ EntityDistance \in Nat /\ EntityDistance' \in Nat
      /\ entity'.pc = entity.pc => EntityDistance' = EntityDistance
  BY DEF EntityDistance
<1> QED  BY <1>2, <1>3, <1>4 DEF Next

\* The steps of the main thread until it waits for the two
MainDistance ==
    CASE main = "joining" -> 0 [] main = "entityflagged" -> 1 [] main = "notified" -> 2 [] OTHER -> 3

MainWithin(n) == doTerminate /\ MainDistance <= n

MainApproaches(m, n) ==
    /\ TypeOK /\ EndInv /\ MainWithin(n) /\ [Next]_vars => MainWithin(n)'
    /\ TypeOK /\ EndInv /\ MainWithin(n) /\ <<EndMachines /\ main # "running">>_vars => MainWithin(m)'

LEMMA MainApproach == \A n \in Nat : MainApproaches(n, n + 1)
<1> SUFFICES ASSUME NEW n \in Nat, TypeOK, EndInv, doTerminate, [Next]_vars
             PROVE  /\ doTerminate' /\ MainDistance' <= MainDistance
                    /\ EndMachines => MainDistance' < MainDistance
  <2>1. MainDistance \in Nat /\ MainDistance' \in Nat  BY DEF MainDistance
  <2> QED  BY <2>1 DEF MainApproaches, MainWithin, Next, MainStep
<1>1. entity \in EntityStates /\ main \in Ending  BY DEF TypeOK, DataTypes, EndInv
<1>2. EndMachines => MainStep
  BY DEF MainStep
<1>3. ASSUME MainStep PROVE doTerminate' /\ MainDistance' < MainDistance
  <2>1. doTerminate' /\ main # "joining" /\ main' # main /\ main' \in Ending
    BY Zenon, <1>1, <1>3, MainMoves DEF Ending
  <2>2. \/ main = "flagged" /\ main' = "notified"
        \/ main = "notified" /\ main' = "entityflagged"
        \/ main = "entityflagged" /\ main' = "joining"
    BY <1>1, <1>3, MainMoves DEF Ending
  <2> QED  BY <2>1, <2>2 DEF MainDistance
<1>4. ASSUME adp_cb \/ InterfaceStep \/ EntityStep \/ UNCHANGED vars PROVE doTerminate' /\ main' = main
  BY <1>1, <1>4, CallbackMoves, InterfaceMoves, EntityMoves
<1>5. MainDistance \in Nat /\ MainDistance' \in Nat /\ (main' = main => MainDistance' = MainDistance)
  BY DEF MainDistance
<1> QED  BY <1>2, <1>3, <1>4, <1>5 DEF Next

\* The main thread tells both threads to end, once it has begun.
LEMMA MainEnds == FairSpec /\ CanStep => (doTerminate ~> main = "joining")
<1>1. MainApproaches(0, 1) /\ MainApproaches(1, 2) /\ MainApproaches(2, 3)
  BY MainApproach
<1>2. EndInv /\ doTerminate => MainWithin(3)
  BY DEF EndInv, MainWithin, MainDistance
<1>3. MainWithin(0) => main = "joining"
  BY DEF MainWithin, MainDistance
<1>4. EndInv /\ MainWithin(3) /\ main \in {"running", "requested", "joining"} => main = "joining"
  BY DEF EndInv, MainWithin, Ending
<1> QED  BY <1>1, <1>2, <1>3, <1>4, EndInvariant, PTL DEF MainApproaches, FairSpec, Spec, CanStep

\* AVDECC.__exit__ gets both threads to end, from wherever they are.
THEOREM BothEnd == FairSpec /\ CanStep => Terminates
<1>1. /\ Approaches(0, 0) /\ Approaches(0, 1) /\ Approaches(1, 2) /\ Approaches(2, 3) /\ Approaches(3, 4)
      /\ Approaches(4, 5) /\ Approaches(5, 6) /\ Approaches(6, 7) /\ Approaches(7, 8)
      /\ Approaches(8, 9) /\ Approaches(9, 10) /\ Approaches(10, 11) /\ Approaches(11, 12)
      /\ Approaches(12, 13) /\ Approaches(13, 14) /\ Approaches(14, 15) /\ Approaches(15, 16)
      /\ Approaches(16, 17) /\ Approaches(17, 18) /\ Approaches(18, 19)
  BY Approach
<1>2. /\ EntityApproaches(0, 0) /\ EntityApproaches(0, 1) /\ EntityApproaches(1, 2) /\ EntityApproaches(2, 3)
      /\ EntityApproaches(3, 4) /\ EntityApproaches(4, 5) /\ EntityApproaches(5, 6)
      /\ EntityApproaches(6, 7)
  BY EntityApproach
<1>3. doTerminate => Within(19)
  BY DEF Within, Distance
<1>4. EndInv /\ main = "joining" => EntityWithin(7)
  BY DEF EndInv, EntityWithin, EntityDistance
<1>5. (Within(0) => pc = "stopped") /\ (Within(19) /\ pc = "stopped" => Within(0))
  BY DEF Within, Distance
<1>6. /\ EntityWithin(0) => entity.pc = "stopped"
      /\ EntityWithin(7) /\ entity.pc = "stopped" => EntityWithin(0)
  BY DEF EntityWithin, EntityDistance
<1> QED
  BY <1>1, <1>2, <1>3, <1>4, <1>5, <1>6, MainEnds, EndInvariant, PTL
     DEF Approaches, EntityApproaches, FairSpec, Spec, CanStep, Terminates, EntityKeepsRunning

-----------------------------------------------------------------------------
(* KeepsAdvertising.                                                        *)

\* The steps until an ENTITY_AVAILABLE is sent, at most, if doAdvertise is set before it is
\* looked at
ToSend == CASE pc = "send" -> 1 [] pc = "advertise" -> 2 [] OTHER -> Distance

Due(n) == doAdvertise /\ ToSend <= n /\ n <= 14

Sent == doTerminate \/ (pc = "load" /\ ~pending)

Dues(m, n) ==
    /\ TypeOK /\ EndInv /\ Due(n) /\ [Next]_vars => Due(n)' \/ Sent'
    /\ TypeOK /\ EndInv /\ Due(n) /\ <<InterfaceStep>>_vars => Due(m)' \/ Sent'

LEMMA DueSteps == \A n \in 0 .. 13 : Dues(n, n + 1)
<1> SUFFICES ASSUME NEW n \in 0 .. 13, TypeOK, EndInv, doAdvertise, ToSend <= 14, ~doTerminate, [Next]_vars
             PROVE  /\ Sent' \/ (doAdvertise' /\ ToSend' <= ToSend)
                    /\ InterfaceStep => Sent' \/ (doAdvertise' /\ ToSend' < ToSend)
  <2>1. ToSend \in Nat /\ ToSend' \in Nat  BY DEF ToSend, Distance
  <2>2. TypeOK /\ doTerminate /\ [Next]_vars => Sent'  BY StillEnding DEF Sent
  <2> QED  BY <2>1, <2>2 DEF Dues, Due, Next
<1>1. ASSUME InterfaceStep PROVE Sent' \/ (doAdvertise' /\ ToSend' < ToSend)
  <2>1. InterfaceMove /\ pc # "reset" /\ doAdvertise'
    BY <1>1, InterfaceMoves DEF ToSend, Distance
  <2>2. CASE pc = "send"
    <3>1. SendAvailable
      BY <1>1, <2>2 DEF InterfaceStep, CheckEmpty, WaitReturns,
           ClearEvent, CheckTerminate, CheckAdvertise, LoadIndex, StoreIndex, ResetAdvertise,
           GetDiscover, UpdateGrandmaster, UpdateConfiguration, Compare, Adopt, CompareLink,
           AdoptLink, AdvertiseLink, SendDeparting, EndInterface
    <3> QED  BY <3>1 DEF SendAvailable, Sent, Goto
  <2>3. CASE pc # "send"
    BY <2>1, <2>3 DEF InterfaceMove, ToSend, Distance
  <2> QED  BY <2>2, <2>3
<1>2. ASSUME adp_cb \/ EntityStep \/ MainStep \/ UNCHANGED vars PROVE doAdvertise' /\ pc' = pc
  <2>1. entity \in EntityStates  BY DEF TypeOK, DataTypes
  <2> QED  BY <1>2, <2>1, CallbackMoves, EntityMoves, MainMoves
<1>3. ToSend \in Nat /\ ToSend' \in Nat /\ (pc' = pc => ToSend' = ToSend)
  BY DEF ToSend, Distance
<1> QED  BY <1>1, <1>2, <1>3 DEF Next

\* The steps of the advertising entity's thread until it sets doAdvertise
ToAsk ==
    CASE entity.pc = "advertise" -> 1 [] entity.pc = "toadvertise" -> 2 [] entity.pc = "delayed" -> 3
      [] entity.pc = "delay" -> 4 [] entity.pc \in {"init", "todelay"} -> 5 [] entity.pc = "waited" -> 6
      [] entity.pc = "waiting" -> 7 [] entity.pc = "test" -> 8 [] entity.pc = "forget" -> 9 [] OTHER -> 10

Turn(n) == ToAsk <= n

Told == doAdvertise \/ doTerminate

Turns(m, n) ==
    /\ TypeOK /\ EndInv /\ Turn(n) /\ [Next]_vars => Turn(n)' \/ Told'
    /\ TypeOK /\ EndInv /\ Turn(n) /\ <<EntityStep>>_vars => Turn(m)' \/ Told'

LEMMA TurnSteps == \A n \in Nat : Turns(n, n + 1)
<1> SUFFICES ASSUME NEW n \in Nat, TypeOK, EndInv, [Next]_vars
             PROVE  /\ Told' \/ ToAsk' <= ToAsk
                    /\ EntityStep => Told' \/ ToAsk' < ToAsk
  <2>1. ToAsk \in Nat /\ ToAsk' \in Nat  BY DEF ToAsk
  <2> QED  BY <2>1 DEF Turns, Turn, Next
<1>1. entity \in EntityStates  BY DEF TypeOK, DataTypes
<1>2. ASSUME EntityStep PROVE Told' \/ ToAsk' < ToAsk
  <2>1. EntityMove /\ (entity.pc = "advertise" => doAdvertise')  BY <1>1, <1>2, EntityMoves
  <2>2. entity.doTerminate => doTerminate'  BY StillEnding DEF EndInv, Ending
  <2> QED  BY <2>1, <2>2 DEF EntityMove, ToAsk, Told
<1>3. ASSUME adp_cb \/ InterfaceStep \/ MainStep \/ UNCHANGED vars PROVE entity'.pc = entity.pc
  BY <1>1, <1>3, CallbackMoves, InterfaceMoves, MainMoves
<1>4. ToAsk \in Nat /\ ToAsk' \in Nat /\ (entity'.pc = entity.pc => ToAsk' = ToAsk)
  BY DEF ToAsk
<1> QED  BY <1>2, <1>3, <1>4 DEF Next

LEMMA AsksAgain == FairSpec /\ CanStep /\ EntityKeepsRunning => []<>Told
<1>1. /\ Turns(0, 1) /\ Turns(1, 2) /\ Turns(2, 3) /\ Turns(3, 4) /\ Turns(4, 5)
      /\ Turns(5, 6) /\ Turns(6, 7) /\ Turns(7, 8) /\ Turns(8, 9) /\ Turns(9, 10)
  BY TurnSteps
<1>2. Turn(10) /\ ~Turn(0)
  BY DEF Turn, ToAsk
<1>3. EndInv /\ entity.pc = "stopped" => Told
  BY DEF EndInv, Told, Ending
<1> QED  BY <1>1, <1>2, <1>3, EndInvariant, PTL DEF Turns, FairSpec, Spec, CanStep, EntityKeepsRunning

\* A doAdvertise that is set here is forgotten.
Blind == pc \in {"store", "reset"}

LEMMA BlindSteps ==
    ASSUME TypeOK, [Next]_vars
    PROVE  /\ ~Blind => ~Blind' \/ pc = "load"
           /\ pc = "reset" => (pc = "reset")' \/ ~Blind'
           /\ InterfaceStep => ~Blind' \/ pc = "load" \/ (pc = "reset")'
           /\ InterfaceStep /\ pc = "reset" => ~Blind'
<1>1. entity \in EntityStates  BY DEF TypeOK, DataTypes
<1>2. CASE InterfaceStep  BY <1>2, InterfaceMoves DEF InterfaceMove, Blind
<1>3. CASE adp_cb \/ EntityStep \/ MainStep \/ UNCHANGED vars
  BY <1>1, <1>2, <1>3, CallbackMoves, EntityMoves, MainMoves DEF Blind
<1> QED  BY <1>2, <1>3 DEF Next

LEMMA SeesAgain == FairSpec /\ CanStep => []<>(pc = "load" \/ doTerminate) \/ <>[]~Blind
<1> DEFINE Reset == pc = "reset"
<1>1. /\ TypeOK /\ [Next]_vars /\ ~Blind => ~Blind' \/ pc = "load"
      /\ TypeOK /\ [Next]_vars /\ Reset => Reset' \/ ~Blind'
      /\ TypeOK /\ <<InterfaceStep>>_vars => ~Blind' \/ pc = "load" \/ Reset'
      /\ TypeOK /\ <<InterfaceStep>>_vars /\ Reset => ~Blind'
  BY BlindSteps DEF Next
<1>2. pc = "stopped" => ~Blind
  BY DEF Blind
<1> HIDE DEF Reset
<1> QED  BY <1>1, <1>2, EndInvariant, PTL DEF FairSpec, Spec, CanStep

\* The entity is advertised again and again.
THEOREM Advertises == FairSpec /\ CanStep => KeepsAdvertising
<1>1. /\ Dues(0, 1) /\ Dues(1, 2) /\ Dues(2, 3) /\ Dues(3, 4) /\ Dues(4, 5) /\ Dues(5, 6)
      /\ Dues(6, 7) /\ Dues(7, 8) /\ Dues(8, 9) /\ Dues(9, 10) /\ Dues(10, 11)
      /\ Dues(11, 12) /\ Dues(12, 13) /\ Dues(13, 14)
  BY DueSteps
<1>2. TypeOK /\ EndInv /\ Told /\ ~Blind => Due(14) \/ doTerminate \/ pc = "load"
  BY DEF TypeOK, DataTypes, EndInv, Told, Due, ToSend, Distance, Blind
<1>3. EndInv /\ Due(0) => doTerminate
  BY DEF Due, ToSend, Distance, EndInv
<1>4. EndInv /\ pc = "stopped" => doTerminate
  BY DEF EndInv
<1>5. Sent => doTerminate \/ pc = "load"
  BY DEF Sent
<1> QED
  BY <1>1, <1>2, <1>3, <1>4, <1>5, AsksAgain, SeesAgain, EndInvariant, PTL
     DEF Dues, FairSpec, Spec, CanStep, KeepsAdvertising

-----------------------------------------------------------------------------
(* DiscoverAnswered.                                                        *)

\* The places in the queue before the first message for this entity
Before(q) == { i \in DOMAIN q : \A j \in 1 .. i : ~Asked(q[j]) }

Ahead == Cardinality(Before(rcvdDiscover))

LEMMA BeforeFinite ==
    ASSUME NEW q \in Seq(DiscoverIds)
    PROVE  IsFiniteSet(Before(q)) /\ Cardinality(Before(q)) \in Nat
<1>1. IsFiniteSet(1 .. Len(q)) /\ Before(q) \in SUBSET (1 .. Len(q))
  BY FS_Interval DEF Before
<1> QED  BY <1>1, FS_Subset, FS_CardinalityType

\* What is appended comes after a message that is waiting; what is taken out comes before.
LEMMA AheadSteps ==
    ASSUME NEW q \in Seq(DiscoverIds), Waiting(q)
    PROVE  /\ \A id \in DiscoverIds : Before(Append(q, id)) = Before(q)
           /\ ~Asked(Head(q)) => Cardinality(Before(Tail(q))) < Cardinality(Before(q))
<1>1. ASSUME NEW id \in DiscoverIds PROVE Before(Append(q, id)) = Before(q)
  <2>1. /\ DOMAIN q = 1 .. Len(q) /\ DOMAIN Append(q, id) = 1 .. Len(q) + 1
        /\ \A i \in 1 .. Len(q) : Append(q, id)[i] = q[i]
    OBVIOUS
  <2>2. PICK k \in 1 .. Len(q) : Asked(q[k])  BY <2>1 DEF Waiting
  <2> QED  BY <2>1, <2>2 DEF Before
<1>2. ASSUME ~Asked(Head(q)) PROVE Cardinality(Before(Tail(q))) < Cardinality(Before(q))
  <2>1. q # << >>  BY DEF Waiting
  <2>2. /\ Len(q) \in Nat \ {0} /\ DOMAIN q = 1 .. Len(q)
        /\ DOMAIN Tail(q) = 1 .. Len(q) - 1
        /\ \A i \in 1 .. Len(q) - 1 : Tail(q)[i] = q[i + 1]
        /\ Head(q) = q[1]
    BY <2>1
  <2>3. 1 \in Before(q)  BY <1>2, <2>2 DEF Before
  <2> DEFINE moved == [ i \in Before(Tail(q)) |-> i + 1 ]
  <2>4. ASSUME NEW i \in Before(Tail(q)) PROVE i + 1 \in Before(q) \ {1}
    <3>1. i \in 1 .. Len(q) - 1 /\ \A j \in 1 .. i : ~Asked(Tail(q)[j])
      BY <2>2 DEF Before
    <3>2. ASSUME NEW j \in 1 .. i + 1 PROVE ~Asked(q[j])
      <4>1. CASE j = 1  BY <1>2, <2>2, <4>1
      <4>2. CASE j # 1
        <5>1. j - 1 \in 1 .. i /\ q[j] = Tail(q)[j - 1]  BY <2>2, <3>1, <4>2
        <5> QED  BY <3>1, <5>1
      <4> QED  BY <4>1, <4>2
    <3> QED  BY <2>2, <3>1, <3>2 DEF Before
  <2>5. moved \in Injection(Before(Tail(q)), Before(q) \ {1})
    <3>1. Before(Tail(q)) \subseteq Nat  BY <2>2 DEF Before
    <3>2. moved \in [Before(Tail(q)) -> Before(q) \ {1}]  BY <2>4
    <3>3. \A i, j \in Before(Tail(q)) : moved[i] = moved[j] => i = j
      <4> SUFFICES ASSUME NEW i \in Before(Tail(q)), NEW j \in Before(Tail(q)), moved[i] = moved[j]
                   PROVE  i = j
        OBVIOUS
      <4>1. i \in Nat /\ j \in Nat /\ i + 1 = j + 1  BY <3>1
      <4> QED  BY <4>1
    <3> QED  BY <3>2, <3>3 DEF Injection, IsInjective
  <2>6. IsFiniteSet(Before(q) \ {1}) /\ Cardinality(Before(q) \ {1}) = Cardinality(Before(q)) - 1
    BY <2>3, BeforeFinite, FS_RemoveElement
  <2>7. Tail(q) \in Seq(DiscoverIds)  BY <2>1
  <2>8. Cardinality(Before(Tail(q))) <= Cardinality(Before(q) \ {1})
    BY <2>5, <2>6, FS_Injection
  <2>9. Cardinality(Before(Tail(q))) \in Nat /\ Cardinality(Before(q)) \in Nat
    BY <2>7, BeforeFinite
  <2> QED  BY <2>6, <2>8, <2>9
<1> QED  BY <1>1, <1>2

\* The flag is set where the thread will look at it before it forgets it.
Ready == doAdvertise /\ pc \notin {"load", "store", "reset"}

\* The steps until the next message is taken out of the queue, at most
ToDiscover == IF Distance >= 14 THEN Distance - 13 ELSE Distance + 4

Round(n) == ToDiscover <= n

Moved == <<Ahead' < Ahead>>_Ahead \/ Ready' \/ doTerminate'

Rounds(m, n) ==
    /\ TypeOK /\ EndInv /\ Waiting(rcvdDiscover) /\ Round(n) /\ [Next]_vars => Round(n)' \/ Moved
    /\ TypeOK /\ EndInv /\ Waiting(rcvdDiscover) /\ Round(n) /\ <<InterfaceStep>>_vars => Round(m)' \/ Moved

\* A message that is waiting comes nearer or stays where it is, until the flag is set for it.
LEMMA AheadFalls ==
    ASSUME TypeOK, Waiting(rcvdDiscover), [Next]_vars
    PROVE  /\ Waiting(rcvdDiscover') \/ Ready'
           /\ Ahead' <= Ahead \/ Ready'
           /\ InterfaceStep /\ pc = "discover" => Ahead' < Ahead \/ Ready'
<1>1. rcvdDiscover \in Seq(DiscoverIds) /\ Ahead \in Nat
  BY BeforeFinite DEF TypeOK, DataTypes, Ahead
<1>2. ASSUME adp_cb PROVE Waiting(rcvdDiscover') /\ Ahead' = Ahead
  <2>1. PICK id \in DiscoverIds : rcvdDiscover' = Append(rcvdDiscover, id)
    BY <1>2 DEF adp_cb
  <2> QED  BY <1>1, <2>1, AheadSteps, QueueKeeps DEF Ahead
<1>3. ASSUME GetDiscover PROVE (Waiting(rcvdDiscover') /\ Ahead' < Ahead) \/ Ready'
  <2>1. rcvdDiscover # << >> /\ rcvdDiscover' = Tail(rcvdDiscover) /\ pc' = "gm"
    BY <1>3 DEF GetDiscover, Waiting, Goto
  <2>2. CASE Asked(Head(rcvdDiscover))
    <3>1. doAdvertise'  BY <1>3, <2>1, <2>2 DEF GetDiscover, performAdvertise
    <3> QED  BY <2>1, <3>1 DEF Ready
  <2>3. CASE ~Asked(Head(rcvdDiscover))
    BY <1>1, <2>1, <2>3, AheadSteps, QueueKeeps DEF Ahead
  <2> QED  BY <2>2, <2>3
<1>4. ASSUME ~GetDiscover, ~adp_cb PROVE rcvdDiscover' = rcvdDiscover
  BY <1>4 DEF Next, vars, queue, InterfaceStep, EntityStep, MainStep, CheckEmpty, WaitReturns,
     ClearEvent, CheckTerminate, CheckAdvertise, SendAvailable, LoadIndex, StoreIndex, ResetAdvertise,
     UpdateGrandmaster, UpdateConfiguration, Compare, Adopt, CompareLink, AdoptLink,
     AdvertiseLink, SendDeparting, EndInterface, EntityInitialise, EntityWaitReturns,
     EntityCheckTerminate, EntityClearEvent, EntityAdvertise, EntityNotify, EntityForget,
     EntityTest, RequestAdvertise, Change, EndMachines, others
<1>5. InterfaceStep /\ pc = "discover" => GetDiscover
  BY DEF InterfaceStep, CheckEmpty, WaitReturns,
     ClearEvent, CheckTerminate, CheckAdvertise, SendAvailable, LoadIndex, StoreIndex, ResetAdvertise,
     UpdateGrandmaster, UpdateConfiguration, Compare, Adopt, CompareLink, AdoptLink,
     AdvertiseLink, SendDeparting, EndInterface
<1>6. ASSUME ~GetDiscover, ~adp_cb PROVE Waiting(rcvdDiscover') /\ Ahead' = Ahead
  BY Zenon, <1>4, <1>6 DEF Ahead
<1>7. Ahead' = Ahead => Ahead' <= Ahead
  BY <1>1
<1>8. Ahead' < Ahead => Ahead' <= Ahead
  <2>1. rcvdDiscover' \in Seq(DiscoverIds)  BY DataStep DEF DataTypes
  <2>2. Ahead' \in Nat  BY Zenon, <2>1, BeforeFinite DEF Ahead
  <2> QED  BY <1>1, <2>2
<1> QED  BY Zenon, <1>2, <1>3, <1>5, <1>6, <1>7, <1>8

LEMMA RoundSteps == \A n \in Nat : Rounds(n, n + 1)
<1> SUFFICES ASSUME NEW n \in Nat, TypeOK, EndInv, Waiting(rcvdDiscover), [Next]_vars
             PROVE  /\ ToDiscover' <= ToDiscover \/ Moved
                    /\ InterfaceStep => ToDiscover' < ToDiscover \/ Moved
  <2>1. ToDiscover \in Nat /\ ToDiscover' \in Nat  BY DEF ToDiscover, Distance
  <2> QED  BY <2>1 DEF Rounds, Round, Next
<1>1. entity \in EntityStates /\ Ahead \in Nat
  BY BeforeFinite DEF TypeOK, DataTypes, Ahead
<1>2. ASSUME InterfaceStep PROVE ToDiscover' < ToDiscover \/ Moved
  <2>1. CASE pc = "discover"
    BY <1>1, <1>2, <2>1, AheadFalls DEF Moved
  <2>2. CASE pc # "discover" /\ ~doTerminate
    <3>1. InterfaceMove  BY <1>2, InterfaceMoves
    <3>2. pc \notin {"depart", "departed", "stopped"}  BY <2>2 DEF EndInv
    <3> QED  BY <2>2, <3>1, <3>2 DEF InterfaceMove, ToDiscover, Distance
  <2>3. CASE doTerminate  BY <2>3, StillEnding DEF Moved
  <2> QED  BY <2>1, <2>2, <2>3
<1>3. ASSUME adp_cb \/ EntityStep \/ MainStep \/ UNCHANGED vars PROVE pc' = pc
  BY <1>1, <1>3, CallbackMoves, EntityMoves, MainMoves
<1>4. ToDiscover \in Nat /\ ToDiscover' \in Nat /\ (pc' = pc => ToDiscover' = ToDiscover)
  BY DEF ToDiscover, Distance
<1> QED  BY <1>2, <1>3, <1>4 DEF Next

\* Every discover for this entity is answered.
THEOREM Answers == FairSpec /\ CanStep /\ Descent(Ahead) => DiscoverAnswered
<1>1. /\ Dues(0, 1) /\ Dues(1, 2) /\ Dues(2, 3) /\ Dues(3, 4) /\ Dues(4, 5) /\ Dues(5, 6)
      /\ Dues(6, 7) /\ Dues(7, 8) /\ Dues(8, 9) /\ Dues(9, 10) /\ Dues(10, 11)
      /\ Dues(11, 12) /\ Dues(12, 13) /\ Dues(13, 14)
  BY DueSteps
<1>2. /\ Rounds(0, 1) /\ Rounds(1, 2) /\ Rounds(2, 3) /\ Rounds(3, 4) /\ Rounds(4, 5)
      /\ Rounds(5, 6) /\ Rounds(6, 7) /\ Rounds(7, 8) /\ Rounds(8, 9) /\ Rounds(9, 10)
      /\ Rounds(10, 11) /\ Rounds(11, 12) /\ Rounds(12, 13) /\ Rounds(13, 14)
      /\ Rounds(14, 15) /\ Rounds(15, 16) /\ Rounds(16, 17)
  BY RoundSteps
<1>3. Round(17) /\ ~Round(0)
  BY DEF Round, ToDiscover, Distance
<1>4. TypeOK /\ EndInv /\ Ready => Due(14) \/ doTerminate
  BY DEF TypeOK, DataTypes, EndInv, Ready, Due, ToSend, Distance
<1>5. EndInv /\ (Due(0) \/ pc = "stopped") => doTerminate
  BY DEF Due, ToSend, Distance, EndInv
<1>6. Sent => ~pending \/ doTerminate
  BY DEF Sent
<1>7. KeptInv /\ pending => Ready \/ Waiting(rcvdDiscover)
  BY DEF KeptInv, Ready
<1>8. TypeOK => Ahead \in Nat
  BY BeforeFinite DEF TypeOK, DataTypes, Ahead
<1>9. TypeOK /\ TypeOK' /\ Waiting(rcvdDiscover) /\ [Next]_vars => ~<<Ahead' > Ahead>>_Ahead \/ Ready'
  <2>1. TypeOK' => Ahead' \in Nat  BY BeforeFinite DEF TypeOK, DataTypes, Ahead
  <2> QED  BY <1>8, <2>1, AheadFalls
<1> QED
  BY <1>1, <1>2, <1>3, <1>4, <1>5, <1>6, <1>7, <1>8, <1>9, KeptInvariant, EndInvariant, PTL
     DEF Dues, Rounds, Moved, FairSpec, Spec, CanStep, Descent, DiscoverAnswered
=============================================================================
