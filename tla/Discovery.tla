----------------------------- MODULE Discovery -----------------------------
(***************************************************************************)
(* DiscoveryStateMachine in src/src/atdecc/adp.py: the thread that keeps    *)
(* the table of entities, and the thread of its user, which hands it an     *)
(* ENTITY_AVAILABLE or ENTITY_DEPARTING (by rcvdEntityInfo, then a flag,    *)
(* then the event), asks it to discover, and ends it.  No code under        *)
(* src/src uses the machine; the user is as in                              *)
(* src/tests/adp/test_discovery_state_machine.py.                           *)
(*                                                                          *)
(* event.wait(1) may return at any time, as a second passes or the event is *)
(* set.  Time is in whole seconds and does not go back.  Only the thread    *)
(* uses the table, so a pass over it is one step; the order of a dict       *)
(* decides which of several expired entries is met first, and is left out.  *)
(***************************************************************************)
EXTENDS Naturals, Sequences

CONSTANTS
    Infos,        \* the EntityInfos handed over, as [id, valid]
    Calls,        \* what the user does: "available", "departing", "discover"
    IdRange,      \* an EUI-64 holds 2^64 ids
    MaxCalls,     \* bound on calls
    MaxTime,      \* bound on now
    Unset         \* None

ASSUME ConstantsAssumption ==
    /\ IdRange \in Nat \ {0}
    /\ Infos \subseteq [id : 0 .. IdRange - 1, valid : Nat]
    /\ Calls \subseteq {"available", "departing", "discover"}
    /\ MaxCalls \in Nat
    /\ MaxTime \in Nat
    /\ Unset \notin Infos

VARIABLES
    rcvdEntityInfo,
    flags,           \* which of rcvdAvailable, rcvdDeparting and doDiscover are set
    event,
    doTerminate,
    entities,        \* entity id -> the second half of its pair, the timeout
    pc,              \* where run is
    ct,              \* run's local variable
    now,             \* GlobalStateMachine.currentTime
    user,            \* what the user's thread does next
    calls,           \* how often it has called the machine
    heard,           \* history: the notices it gave, in order, as [kind, info]
    raised,          \* history: kind -> the notice whose flag was set last
    acted            \* history: kind -> the notice whose flag was acted on last

given == << user, calls, heard, raised >>
vars  == << rcvdEntityInfo, flags, event, doTerminate, entities, pc, ct, now, acted, given >>

Kinds == {"available", "departing"}

Init ==
    /\ rcvdEntityInfo = Unset
    /\ flags = {}
    /\ event = FALSE
    /\ doTerminate = FALSE
    /\ entities = << >>
    /\ pc = "resetAvailable"
    /\ ct = 0
    /\ now = 0
    /\ user = "idle"
    /\ calls = 0
    /\ heard = << >>
    /\ raised = [kind \in Kinds |-> 0]
    /\ acted = [kind \in Kinds |-> 0]

-----------------------------------------------------------------------------
(* The user's thread.                                                       *)

Call ==
    /\ user = "idle"
    /\ calls < MaxCalls
    /\ calls' = calls + 1

Notice ==
    /\ Call
    /\ \E kind \in Calls \ {"discover"}, info \in Infos :
         /\ rcvdEntityInfo' = info
         /\ heard' = Append(heard, [kind |-> kind, info |-> info])
         /\ user' = kind
    /\ UNCHANGED << flags, event, doTerminate, entities, pc, ct, now, raised, acted >>

RaiseFlag ==
    /\ user \in Kinds
    /\ flags' = flags \cup {user}
    /\ raised' = [raised EXCEPT ![user] = Len(heard)]
    /\ user' = "notify"
    /\ UNCHANGED << rcvdEntityInfo, event, doTerminate, entities, pc, ct, now, acted, calls,
                    heard >>

performDiscover ==
    /\ "discover" \in Calls
    /\ Call
    /\ flags' = flags \cup {"discover"}
    /\ user' = "notify"
    /\ UNCHANGED << rcvdEntityInfo, event, doTerminate, entities, pc, ct, now, acted, heard,
                    raised >>

performTerminate ==
    /\ user = "idle"
    /\ doTerminate' = TRUE
    /\ user' = "notifyend"
    /\ UNCHANGED << rcvdEntityInfo, flags, event, entities, pc, ct, now, acted, calls, heard,
                    raised >>

SetEvent ==
    /\ user \in {"notify", "notifyend"}
    /\ event' = TRUE
    /\ user' = IF user = "notify" THEN "idle" ELSE "ended"
    /\ UNCHANGED << rcvdEntityInfo, flags, doTerminate, entities, pc, ct, now, acted, calls,
                    heard, raised >>

UserStep == Notice \/ RaiseFlag \/ performDiscover \/ performTerminate \/ SetEvent

Tick ==
    /\ now < MaxTime
    /\ now' = now + 1
    /\ UNCHANGED << rcvdEntityInfo, flags, event, doTerminate, entities, pc, ct, acted, given >>

-----------------------------------------------------------------------------
(* DiscoveryStateMachine.run                                                *)

Goto(here, next) == pc = here /\ pc' = next

beyond == << rcvdEntityInfo, doTerminate, now, given >>
others == << beyond, acted >>

\* Mutant of ResetFlags: rcvdAvailable is not reset.
ResetOtherFlags ==
    /\ \/ Goto("resetAvailable", "resetDeparting") /\ UNCHANGED flags
       \/ Goto("resetDeparting", "resetDiscover") /\ flags' = flags \ {"departing"}
       \/ Goto("resetDiscover", "wait") /\ flags' = flags \ {"discover"}
    /\ UNCHANGED << others, event, entities, ct >>

\* WAITING: what is set while the thread is elsewhere is forgotten here.
ResetFlags ==
    /\ \/ Goto("resetAvailable", "resetDeparting") /\ flags' = flags \ {"available"}
       \/ Goto("resetDeparting", "resetDiscover") /\ flags' = flags \ {"departing"}
       \/ Goto("resetDiscover", "wait") /\ flags' = flags \ {"discover"}
    /\ UNCHANGED << others, event, entities, ct >>

\* Mutant of WaitReturns: event.wait() without a timeout
WaitReturnsWhenSet ==
    /\ event
    /\ Goto("wait", "terminate")
    /\ UNCHANGED << others, flags, event, entities, ct >>

\* event.wait(1)
WaitReturns ==
    /\ Goto("wait", "terminate")
    /\ UNCHANGED << others, flags, event, entities, ct >>

CheckTerminate ==
    /\ Goto("terminate", IF doTerminate THEN "stopped" ELSE "clear")
    /\ UNCHANGED << others, flags, event, entities, ct >>

\* Mutant of ClearEvent: the flags are reset together with the event.
ClearEventAndFlags ==
    /\ Goto("clear", "discover")
    /\ event' = FALSE
    /\ flags' = {}
    /\ UNCHANGED << others, entities, ct >>

ClearEvent ==
    /\ Goto("clear", "discover")
    /\ event' = FALSE
    /\ UNCHANGED << others, flags, entities, ct >>

\* txDiscover is not implemented: its exception ends the thread.
Discover ==
    /\ Goto("discover", IF "discover" \in flags THEN "failed" ELSE "time")
    /\ UNCHANGED << others, flags, event, entities, ct >>

ReadTime ==
    /\ Goto("time", "available")
    /\ ct' = now
    /\ UNCHANGED << others, flags, event, entities >>

CheckAvailable ==
    /\ Goto("available", IF "available" \in flags THEN "update" ELSE "departing")
    /\ UNCHANGED << others, flags, event, entities, ct >>

ActsOn(kind) == acted' = [acted EXCEPT ![kind] = raised[kind]]

Recorded(info) ==
    [ id \in DOMAIN entities \cup {info.id} |->
        IF id = info.id THEN ct + info.valid ELSE entities[id] ]

\* Mutant of updateEntity: an id of zero is recorded like any other.
updateAnyEntity ==
    /\ Goto("update", "departing")
    /\ entities' = Recorded(rcvdEntityInfo)
    /\ ActsOn("available")
    /\ UNCHANGED << beyond, flags, event, ct >>

\* haveEntity decides between updateEntity and addEntity, which are the same.
updateEntity ==
    /\ Goto("update", "departing")
    /\ entities' = IF rcvdEntityInfo.id # 0 THEN Recorded(rcvdEntityInfo) ELSE entities
    /\ ActsOn("available")
    /\ UNCHANGED << beyond, flags, event, ct >>

CheckDeparting ==
    /\ Goto("departing", IF "departing" \in flags THEN "remove" ELSE "timeout")
    /\ UNCHANGED << others, flags, event, entities, ct >>

\* An id goes through an EUI-64 and back.
Key(id) == id % IdRange

\* The KeyError of an unknown id is caught.
removeEntity(id) == entities' = [ k \in DOMAIN entities \ {Key(id)} |-> entities[k] ]

RemoveDeparting ==
    /\ Goto("remove", "timeout")
    /\ removeEntity(rcvdEntityInfo.id)
    /\ ActsOn("departing")
    /\ UNCHANGED << beyond, flags, event, ct >>

\* Mutant of Expired: an entry is kept for the second in which its time is up.
ExpiredLater == { id \in DOMAIN entities : ct > entities[id] }

Expired == { id \in DOMAIN entities : ct >= entities[id] }

\* TIMEOUT: the entry is deleted from the dictionary that is iterated over; the next step
\* of the iteration raises a RuntimeError, which ends the thread.
Timeout ==
    /\ \/ /\ Expired = {}
          /\ Goto("timeout", "resetAvailable")
          /\ UNCHANGED entities
       \/ /\ \E id \in Expired : removeEntity(id)
          /\ Goto("timeout", "failed")
    /\ UNCHANGED << others, flags, event, ct >>

ThreadStep ==
    \/ ResetFlags \/ WaitReturns \/ CheckTerminate \/ ClearEvent \/ Discover \/ ReadTime
    \/ CheckAvailable \/ updateEntity \/ CheckDeparting \/ RemoveDeparting \/ Timeout

-----------------------------------------------------------------------------
Next == UserStep \/ Tick \/ ThreadStep

Spec == Init /\ [][Next]_vars

\* The wait has a timeout, so the thread keeps running.
FairSpec == Spec /\ WF_vars(ThreadStep)

-----------------------------------------------------------------------------
(* Safety.                                                                  *)

Ids == { i.id : i \in Infos }

Notices == [kind : Kinds, info : Infos]

FlagTypes == event \in BOOLEAN /\ doTerminate \in BOOLEAN

DataTypes ==
    /\ rcvdEntityInfo \in Infos \cup {Unset}
    /\ flags \subseteq {"available", "departing", "discover"}
    /\ DOMAIN entities \subseteq Ids \ {0}
    /\ entities \in [DOMAIN entities -> Nat]
    /\ pc \in { "resetAvailable", "resetDeparting", "resetDiscover", "wait", "terminate", "clear",
                "discover", "time", "available", "update", "departing", "remove", "timeout",
                "stopped", "failed" }
    /\ ct \in Nat
    /\ now \in Nat
    /\ user \in {"idle", "available", "departing", "notify", "notifyend", "ended"}
    /\ calls \in Nat
    /\ heard \in Seq(Notices)
    /\ raised \in [Kinds -> Nat]
    /\ acted \in [Kinds -> Nat]

\* Every variable has the type the code gives it; the table never holds the id zero, which
\* stands for every entity in an ENTITY_DISCOVER.
TypeOK == FlagTypes /\ DataTypes

\* Where the table is still as the pass before has left it
BetweenPasses == {"resetAvailable", "resetDeparting", "resetDiscover", "wait", "terminate", "clear",
                  "discover", "time"}

Notified(kind) == \E i \in DOMAIN heard : heard[i].kind = kind

\* What the thread is about to act on has been handed over, although the flags, the event and
\* rcvdEntityInfo are shared without a lock: the EntityInfo it will read is there and is that
\* of the last notice, and a flag it has seen stands for a notice of that kind.  Between two
\* passes, no entry is left whose time was up in the first.
PassInv ==
    /\ heard # << >> => rcvdEntityInfo = heard[Len(heard)].info
    /\ user = "available" \/ "available" \in flags \/ pc = "update" => Notified("available")
    /\ user = "departing" \/ "departing" \in flags \/ pc = "remove" => Notified("departing")
    /\ ct <= now
    /\ pc \in BetweenPasses => \A id \in DOMAIN entities : entities[id] > ct

Promise == INSTANCE EntityTable WITH table <- entities, asof <- ct

\* The flags, the event and rcvdEntityInfo are shared without a lock, and yet the table is
\* what EntityTable promises: no announcement or departure is acted on twice, what it makes
\* the thread record or remove is the entity of that notice or of one given after it, and no
\* pass begins on a table that still holds an entity that had expired by the pass before
\* (which holds only because the thread fails).
ImplementsTable == Promise!Spec

-----------------------------------------------------------------------------
(* Liveness.                                                                *)

Over == doTerminate \/ pc = "failed"

\* An announcement that is complete while the thread waits is acted on, although the thread
\* resets the flags it has not looked at: the entity is recorded, unless the user hands over
\* another before.
NoticeTaken ==
    \A i \in Infos :
        rcvdEntityInfo = i /\ "available" \in flags /\ pc = "wait" /\ i.id # 0
          ~> i.id \in DOMAIN entities \/ rcvdEntityInfo # i \/ Over

Outlived(id) == id \in DOMAIN entities /\ entities[id] <= now

\* An entity that says no more is forgotten even if no event is ever set again, or the thread
\* has ended.
Forgotten == \A id \in Ids : Outlived(id) ~> ~Outlived(id) \/ Over

\* performTerminate ends the thread, whenever it comes, unless an exception has done so.
Terminates == doTerminate ~> pc \in {"stopped", "failed"}

\* src/tests/adp/test_discovery_state_machine.py, test_timeout: an entity whose time is up is
\* removed, as long as the machine is not told to end.
ExpiredRemoved == \A id \in Ids : Outlived(id) ~> ~Outlived(id) \/ doTerminate
=============================================================================
