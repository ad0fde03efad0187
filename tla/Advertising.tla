---------------------------- MODULE Advertising ----------------------------
(***************************************************************************)
(* The advertising of an entity in src/src/atdecc/adp.py: the thread of     *)
(* InterfaceStateMachine, the thread of AdvertisingEntityStateMachine that *)
(* asks it for an ENTITY_AVAILABLE from time to time, the callback adp_cb   *)
(* that the interface's worker thread calls, and the main thread, which     *)
(* starts both machines, may ask for an advertisement or change what is     *)
(* advertised, and ends both machines in AVDECC.__exit__.                   *)
(*                                                                          *)
(* One interface, as AVDECC has.  event.wait(t) may return at any time, as  *)
(* t passes or the event is set; the lengths of the delays are left out, as *)
(* are the other fields of the ADPDU.  available_index is kept as the field *)
(* of the ADPDU shows it, modulo IndexRange (2^32).                         *)
(***************************************************************************)
EXTENDS Naturals, Sequences

CONSTANTS
    MyId,            \* entity_info.entity_id
    DiscoverIds,     \* entity ids in the ENTITY_DISCOVER messages on the network
    Changes,         \* values current[f] may be given, for each f
    LinkChanges,     \* values linkIsUp may be given
    IndexRange,      \* available_index is a field of 32 bits
    MaxQueue,        \* bound on rcvdDiscover
    MaxRequests,     \* bound on requests
    Unset            \* None

ASSUME ConstantsAssumption ==
    /\ MyId \in Nat \ {0}
    /\ DiscoverIds \subseteq Nat
    /\ Changes \in [{"gm", "config"} -> SUBSET Nat]
    /\ LinkChanges \subseteq BOOLEAN
    /\ IndexRange \in Nat /\ IndexRange > 1
    /\ MaxQueue \in Nat
    /\ MaxRequests \in Nat
    /\ Unset \notin Nat

VARIABLES
    rcvdDiscover,    \* InterfaceStateMachine's queue of entity ids
    doAdvertise,     \* InterfaceStateMachine.doAdvertise
    event,           \* InterfaceStateMachine.event
    doTerminate,     \* InterfaceStateMachine.doTerminate
    current,         \* currentGrandmasterID and currentConfigurationIndex
    advertised,      \* advertisedGrandmasterID and advertisedConfigurationIndex
    linkIsUp,        \* InterfaceStateMachine.linkIsUp
    lastLinkIsUp,    \* InterfaceStateMachine.lastLinkIsUp
    requests,        \* how often the embedding program has used the machines
    pc,              \* where InterfaceStateMachine.run is
    loaded,          \* the value available_index += 1 has read
    available_index, \* entity_info.available_index, shared by both threads
    entity,          \* AdvertisingEntityStateMachine: where run is, and its flags
    main,            \* where the main thread is
    last,            \* history: the last ADPDU sent
    pending          \* history: an ENTITY_DISCOVER for this entity arrived since

queue    == << rcvdDiscover, pending >>
machine  == << current, advertised, linkIsUp, lastLinkIsUp, requests >>
index    == << loaded, available_index >>
vars     == << queue, doAdvertise, event, doTerminate, machine, pc, index, entity, main, last >>

NoMessage == [type |-> "NONE", index |-> 0, initialised |-> FALSE]

Init ==
    /\ rcvdDiscover = << >>
    /\ doAdvertise = FALSE
    /\ event = FALSE
    /\ doTerminate = FALSE
    /\ current = [gm |-> Unset, config |-> 0]
    /\ advertised = [gm |-> Unset, config |-> Unset]
    /\ linkIsUp = TRUE
    /\ lastLinkIsUp = FALSE
    /\ requests = 0
    /\ pc = "empty"
    /\ loaded = 0
    /\ available_index = 0
    /\ entity = [pc |-> "init", needsAdvertise |-> FALSE, event |-> FALSE,
                 doTerminate |-> FALSE]
    /\ main = "running"
    /\ last = NoMessage
    /\ pending = FALSE

-----------------------------------------------------------------------------
(* adp_cb, in the interface's worker thread; other ADPDUs are ignored.  It  *)
(* does not set the event.                                                  *)

\* 0 asks every entity to answer.
Asked(id) == id = 0 \/ id = MyId

adp_cb ==
    /\ pc # "stopped"
    /\ Len(rcvdDiscover) < MaxQueue
    /\ \E id \in DiscoverIds :
         /\ rcvdDiscover' = Append(rcvdDiscover, id)
         /\ pending' = (pending \/ Asked(id))
    /\ UNCHANGED << doAdvertise, event, doTerminate, machine, pc, index, entity, main, last >>

-----------------------------------------------------------------------------
(* InterfaceStateMachine.run                                                *)

Goto(l) == pc' = l

CheckEmpty ==
    /\ pc = "empty"
    /\ Goto(IF rcvdDiscover = << >> THEN "wait" ELSE "terminate")
    /\ UNCHANGED << queue, doAdvertise, event, doTerminate, machine, index, entity, main, last >>

\* Mutant of WaitReturns: event.wait() without a timeout
WaitReturnsWhenSet ==
    /\ pc = "wait"
    /\ event
    /\ Goto("clear")
    /\ UNCHANGED << queue, doAdvertise, event, doTerminate, machine, index, entity, main, last >>

\* event.wait(1)
WaitReturns ==
    /\ pc = "wait"
    /\ Goto("clear")
    /\ UNCHANGED << queue, doAdvertise, event, doTerminate, machine, index, entity, main, last >>

ClearEvent ==
    /\ pc = "clear"
    /\ event' = FALSE
    /\ Goto("terminate")
    /\ UNCHANGED << queue, doAdvertise, doTerminate, machine, index, entity, main, last >>

CheckTerminate ==
    /\ pc = "terminate"
    /\ Goto(IF doTerminate THEN "depart" ELSE "advertise")
    /\ UNCHANGED << queue, doAdvertise, event, doTerminate, machine, index, entity, main, last >>

CheckAdvertise ==
    /\ pc = "advertise"
    /\ Goto(IF doAdvertise THEN "send" ELSE "discover")
    /\ UNCHANGED << queue, doAdvertise, event, doTerminate, machine, index, entity, main, last >>

\* txEntityAvailable: send, then read and write available_index
SendAvailable ==
    /\ pc = "send"
    /\ last' = [type |-> "ENTITY_AVAILABLE", index |-> available_index,
                initialised |-> entity.pc # "init"]
    /\ pending' = FALSE
    /\ Goto("load")
    /\ UNCHANGED << rcvdDiscover, doAdvertise, event, doTerminate, machine, index, entity, main >>

LoadIndex ==
    /\ pc = "load"
    /\ loaded' = available_index
    /\ Goto("store")
    /\ UNCHANGED << queue, doAdvertise, event, doTerminate, machine, available_index, entity,
                    main, last >>

\* The field's value after i
After(i) == IF i + 1 = IndexRange THEN 0 ELSE i + 1

\* Mutant of StoreIndex: an index past the width of the field
StoreIndexWider ==
    /\ pc = "store"
    /\ available_index' = loaded + 1
    /\ loaded' = 0
    /\ Goto("reset")
    /\ UNCHANGED << queue, doAdvertise, event, doTerminate, machine, entity, main, last >>

StoreIndex ==
    /\ pc = "store"
    /\ available_index' = After(loaded)
    /\ loaded' = 0
    /\ Goto("reset")
    /\ UNCHANGED << queue, doAdvertise, event, doTerminate, machine, entity, main, last >>

\* A performAdvertise since CheckAdvertise is forgotten.
ResetAdvertise ==
    /\ pc = "reset"
    /\ doAdvertise' = FALSE
    /\ Goto("discover")
    /\ UNCHANGED << queue, event, doTerminate, machine, index, entity, main, last >>

\* self.performAdvertise(), in its own thread; nobody else resets doAdvertise
performAdvertise == doAdvertise' = TRUE /\ event' = TRUE

\* Mutant of GetDiscover: only a message with the entity's own id is answered.
GetDiscoverOwnOnly ==
    /\ pc = "discover"
    /\ IF rcvdDiscover # << >>
         THEN /\ rcvdDiscover' = Tail(rcvdDiscover)
              /\ IF Head(rcvdDiscover) = MyId THEN performAdvertise
                                              ELSE UNCHANGED << doAdvertise, event >>
         ELSE UNCHANGED << rcvdDiscover, doAdvertise, event >>
    /\ Goto("gm")
    /\ UNCHANGED << pending, doTerminate, machine, index, entity, main, last >>

GetDiscover ==
    /\ pc = "discover"
    /\ IF rcvdDiscover # << >>
         THEN /\ rcvdDiscover' = Tail(rcvdDiscover)
              /\ IF Asked(Head(rcvdDiscover)) THEN performAdvertise
                                              ELSE UNCHANGED << doAdvertise, event >>
         ELSE UNCHANGED << rcvdDiscover, doAdvertise, event >>
    /\ Goto("gm")
    /\ UNCHANGED << pending, doTerminate, machine, index, entity, main, last >>

\* Is f (the grandmaster or the configuration) what was advertised last?
Compare(f, here, update, next) ==
    /\ pc = here
    /\ Goto(IF current[f] # advertised[f] THEN update ELSE next)
    /\ UNCHANGED << queue, doAdvertise, event, doTerminate, machine, index, entity, main, last >>

\* It is read again, and may have changed since.
Adopt(f, here, next) ==
    /\ pc = here
    /\ advertised' = [advertised EXCEPT ![f] = current[f]]
    /\ performAdvertise
    /\ Goto(next)
    /\ UNCHANGED << queue, doTerminate, current, linkIsUp, lastLinkIsUp, requests, index, entity,
                    main, last >>

UpdateGrandmaster == Compare("gm", "gm", "gmchanged", "link") \/ Adopt("gm", "gmchanged", "link")

UpdateConfiguration ==
    Compare("config", "config", "configchanged", "empty") \/ Adopt("config", "configchanged", "empty")

\* linkIsUp is read three times.
CompareLink ==
    /\ pc = "link"
    /\ Goto(IF lastLinkIsUp # linkIsUp THEN "linkchanged" ELSE "config")
    /\ UNCHANGED << queue, doAdvertise, event, doTerminate, machine, index, entity, main, last >>

AdoptLink ==
    /\ pc = "linkchanged"
    /\ lastLinkIsUp' = linkIsUp
    /\ Goto("linktest")
    /\ UNCHANGED << queue, doAdvertise, event, doTerminate, current, advertised, linkIsUp,
                    requests, index, entity, main, last >>

AdvertiseLink ==
    /\ pc = "linktest"
    /\ IF linkIsUp THEN performAdvertise ELSE UNCHANGED << doAdvertise, event >>
    /\ Goto("config")
    /\ UNCHANGED << queue, doTerminate, machine, index, entity, main, last >>

\* txEntityDeparting; the callback is then unregistered.
SendDeparting ==
    /\ pc = "depart"
    /\ last' = [type |-> "ENTITY_DEPARTING", index |-> available_index,
                initialised |-> entity.pc # "init"]
    /\ Goto("departed")
    /\ UNCHANGED << queue, doAdvertise, event, doTerminate, machine, index, entity, main >>

EndInterface ==
    /\ pc = "departed"
    /\ available_index' = 0
    /\ Goto("stopped")
    /\ UNCHANGED << queue, doAdvertise, event, doTerminate, machine, loaded, entity, main, last >>

InterfaceStep ==
    \/ CheckEmpty \/ WaitReturns \/ ClearEvent \/ CheckTerminate
    \/ CheckAdvertise \/ SendAvailable \/ LoadIndex \/ StoreIndex \/ ResetAdvertise
    \/ GetDiscover \/ UpdateGrandmaster \/ UpdateConfiguration
    \/ CompareLink \/ AdoptLink \/ AdvertiseLink
    \/ SendDeparting \/ EndInterface

-----------------------------------------------------------------------------
(* AdvertisingEntityStateMachine.run                                        *)

others == << queue, doTerminate, machine, pc, loaded, main, last >>

EntityInitialise ==
    /\ entity.pc = "init"
    /\ available_index' = 0
    /\ entity' = [entity EXCEPT !.pc = "delay"]
    /\ UNCHANGED << others, doAdvertise, event >>

\* Mutant of EntityWaitReturns: both waits without a timeout
EntityWaitReturnsWhenSet ==
    /\ entity.event
    /\ \/ entity.pc = "delay" /\ entity' = [entity EXCEPT !.pc = "delayed"]
       \/ entity.pc = "waiting" /\ entity' = [entity EXCEPT !.pc = "waited"]
    /\ UNCHANGED << others, doAdvertise, event, available_index >>

\* event.wait(randomDeviceDelay() / 1000.) and event.wait(max(1, valid_time / 2))
EntityWaitReturns ==
    /\ \/ entity.pc = "delay" /\ entity' = [entity EXCEPT !.pc = "delayed"]
       \/ entity.pc = "waiting" /\ entity' = [entity EXCEPT !.pc = "waited"]
    /\ UNCHANGED << others, doAdvertise, event, available_index >>

EntityCheckTerminate ==
    /\ entity.pc \in {"delayed", "waited"}
    /\ entity' = [entity EXCEPT !.pc = IF entity.doTerminate THEN "stopped"
                                       ELSE IF entity.pc = "delayed" THEN "toadvertise"
                                       ELSE "todelay"]
    /\ UNCHANGED << others, doAdvertise, event, available_index >>

EntityClearEvent ==
    /\ entity.pc \in {"toadvertise", "todelay"}
    /\ entity' = [entity EXCEPT !.event = FALSE,
                                !.pc = IF entity.pc = "toadvertise" THEN "advertise" ELSE "delay"]
    /\ UNCHANGED << others, doAdvertise, event, available_index >>

\* Mutant of EntityAdvertise: INITIALIZE is part of the loop.
EntityAdvertiseAnew ==
    /\ entity.pc = "advertise"
    /\ doAdvertise' = TRUE
    /\ available_index' = 0
    /\ entity' = [entity EXCEPT !.pc = "notify"]
    /\ UNCHANGED << others, event >>

\* sendAvailable, which calls performAdvertise of the interface's machine
EntityAdvertise ==
    /\ entity.pc = "advertise"
    /\ doAdvertise' = TRUE
    /\ entity' = [entity EXCEPT !.pc = "notify"]
    /\ UNCHANGED << others, event, available_index >>

EntityNotify ==
    /\ entity.pc = "notify"
    /\ event' = TRUE
    /\ entity' = [entity EXCEPT !.pc = "forget"]
    /\ UNCHANGED << others, doAdvertise, available_index >>

\* needsAdvertise is reset after sendAvailable, and then tested.
EntityForget ==
    /\ entity.pc = "forget"
    /\ entity' = [entity EXCEPT !.needsAdvertise = FALSE, !.pc = "test"]
    /\ UNCHANGED << others, doAdvertise, event, available_index >>

EntityTest ==
    /\ entity.pc = "test"
    /\ entity' = [entity EXCEPT !.pc = IF entity.needsAdvertise THEN "waited" ELSE "waiting"]
    /\ UNCHANGED << others, doAdvertise, event, available_index >>

EntityStep ==
    \/ EntityInitialise \/ EntityWaitReturns \/ EntityCheckTerminate \/ EntityClearEvent
    \/ EntityAdvertise \/ EntityNotify \/ EntityForget \/ EntityTest

-----------------------------------------------------------------------------
(* The main thread.                                                         *)

MainGoto(from, to) == main = from /\ main' = to

Request == requests < MaxRequests /\ requests' = requests + 1

\* AdvertisingEntityStateMachine.performAdvertise
RequestAdvertise ==
    /\ \/ /\ MainGoto("running", "requested")
          /\ Request
          /\ entity' = [entity EXCEPT !.needsAdvertise = TRUE]
       \/ /\ MainGoto("requested", "running")
          /\ entity' = [entity EXCEPT !.event = TRUE]
          /\ UNCHANGED requests
    /\ UNCHANGED << queue, doAdvertise, event, doTerminate, current, advertised, linkIsUp,
                    lastLinkIsUp, pc, index, last >>

\* Assignments to the attributes of the interface's machine
Change ==
    /\ main = "running"
    /\ Request
    /\ \/ /\ \E f \in DOMAIN Changes : \E v \in Changes[f] : current' = [current EXCEPT ![f] = v]
          /\ UNCHANGED linkIsUp
       \/ linkIsUp' \in LinkChanges /\ UNCHANGED current
    /\ UNCHANGED << queue, doAdvertise, event, doTerminate, advertised, lastLinkIsUp, pc, index,
                    entity, main, last >>

\* AVDECC.__exit__ calls performTerminate of the interface's machine, then of the other.
EndMachines ==
    /\ \/ /\ MainGoto("running", "flagged")
          /\ doTerminate' = TRUE
          /\ UNCHANGED << event, entity >>
       \/ /\ MainGoto("flagged", "notified")
          /\ event' = TRUE
          /\ UNCHANGED << doTerminate, entity >>
       \/ /\ MainGoto("notified", "entityflagged")
          /\ entity' = [entity EXCEPT !.doTerminate = TRUE]
          /\ UNCHANGED << doTerminate, event >>
       \/ /\ MainGoto("entityflagged", "joining")
          /\ entity' = [entity EXCEPT !.event = TRUE]
          /\ UNCHANGED << doTerminate, event >>
    /\ UNCHANGED << queue, doAdvertise, machine, pc, index, last >>

MainStep == RequestAdvertise \/ Change \/ EndMachines

-----------------------------------------------------------------------------
Next == adp_cb \/ InterfaceStep \/ EntityStep \/ MainStep

Spec == Init /\ [][Next]_vars

\* Every wait of the two threads has a timeout, so both keep running; __exit__ runs to its
\* end once it has begun.
FairSpec ==
    /\ Spec
    /\ WF_vars(InterfaceStep)
    /\ WF_vars(EndMachines /\ main # "running")

EntityKeepsRunning == WF_vars(EntityStep)

-----------------------------------------------------------------------------
(* Safety.                                                                  *)

Index == 0 .. IndexRange - 1

EntityStates ==
    [ pc : { "init", "delay", "delayed", "toadvertise", "advertise", "notify", "forget", "test",
             "waiting", "waited", "todelay", "stopped" },
      needsAdvertise : BOOLEAN, event : BOOLEAN, doTerminate : BOOLEAN ]

FlagTypes ==
    /\ doAdvertise \in BOOLEAN
    /\ event \in BOOLEAN
    /\ doTerminate \in BOOLEAN
    /\ linkIsUp \in BOOLEAN
    /\ lastLinkIsUp \in BOOLEAN
    /\ pending \in BOOLEAN

DataTypes ==
    /\ rcvdDiscover \in Seq(DiscoverIds)
    /\ current \in [gm : Nat \cup {Unset}, config : Nat]
    /\ advertised \in [gm : Nat \cup {Unset}, config : Nat \cup {Unset}]
    /\ requests \in Nat
    /\ pc \in { "empty", "wait", "clear", "terminate", "advertise", "send", "load", "store",
                "reset", "discover", "gm", "gmchanged", "link", "linkchanged", "linktest",
                "config", "configchanged", "depart", "departed", "stopped" }
    /\ loaded \in Index
    /\ available_index \in Index
    /\ entity \in EntityStates
    /\ main \in { "running", "requested", "flagged", "notified", "entityflagged", "joining" }
    /\ last \in [ type : {"NONE", "ENTITY_AVAILABLE", "ENTITY_DEPARTING"}, index : Index,
                  initialised : BOOLEAN ]

\* Every variable has the type the code gives it.
TypeOK == FlagTypes /\ DataTypes

\* The flag doAdvertise is set by two threads and reset by one after it has sent: a discover
\* that no ENTITY_AVAILABLE has followed is still in the queue or has the flag set.
DiscoverKept ==
    pending => doAdvertise \/ \E i \in DOMAIN rcvdDiscover : Asked(rcvdDiscover[i])

\* The available_index of consecutive ENTITY_AVAILABLE messages rises by one, although two
\* threads write it; only when the advertising entity's thread begins after the first of the
\* two was sent may it start over, with 0 or, if that was between the two steps of += 1, with 1.
IndexRises ==
    [][ pc = "send" /\ pc' = "load" /\ last.type = "ENTITY_AVAILABLE" =>
          \/ last'.index = After(last.index)
          \/ ~last.initialised /\ last'.index \in {0, 1} ]_vars

-----------------------------------------------------------------------------
(* Liveness.                                                                *)

\* A discover for this entity is answered even if the advertising entity's thread, which
\* would advertise sooner or later anyway, does not run.
DiscoverAnswered == pending ~> (~pending \/ doTerminate)

\* The entity is advertised again and again, although a request that comes between sending
\* and ResetAdvertise is forgotten.
KeepsAdvertising ==
    EntityKeepsRunning => []<>(doTerminate \/ pc = "load")

\* AVDECC.__exit__ waits for both threads, and gets there.
Terminates == EntityKeepsRunning => (doTerminate ~> pc = "stopped" /\ entity.pc = "stopped")
=============================================================================
