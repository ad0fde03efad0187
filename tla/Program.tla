------------------------------ MODULE Program ------------------------------
(***************************************************************************)
(* The life of the program: AVDECC and jdksInterface in                     *)
(* src/src/atdecc/atdecc.py and the worker thread and send queue of         *)
(* src/src/atdecc/interface.cpp and queue.hpp.                              *)
(*                                                                          *)
(* The main thread creates the interface, whose worker thread then runs,    *)
(* starts the four state machines one by one, serves, and leaves the with   *)
(* block.  A machine registers its callback, sends frames, sees that it is  *)
(* told to end, unregisters and is dead.  The worker takes frames and       *)
(* finally JOIN from the queue and calls back the machines.  The            *)
(* interpreter waits for the machines' threads, which are not daemons, and  *)
(* at its end runs jdksInterface.__del__, as the class holds a reference to *)
(* the instance in handles until then.                                      *)
(*                                                                          *)
(* What the machines do with a message, and when they see that they are     *)
(* told to end, is in the modules of the machines, which show that they do. *)
(* Frames are numbers, in the order of ATDECC_send; what raw_send returns   *)
(* is ignored by the code, so a frame handed to it counts as sent.          *)
(***************************************************************************)
EXTENDS Integers, Sequences

CONSTANTS
    Endings,      \* how the with block may end: "interrupt", "normal", "early"
    MaxFrames     \* bound on frames, the last ENTITY_DEPARTING excepted

ASSUME ConstantsAssumption ==
    /\ Endings \subseteq {"interrupt", "normal", "early"}
    /\ MaxFrames \in Nat

\* The state machines in the order of AVDECC.state_machines, with the list each registers in
\* (AdvertisingEntityStateMachine has no callback)
Order == << "interface", "advertising", "acmp", "aem" >>
Machines == { "interface", "advertising", "acmp", "aem" }
Lists == {"adp", "acmp", "aecp"}
ListOf == [interface |-> "adp", advertising |-> "none", acmp |-> "acmp", aem |-> "aecp"]

JOIN == 0   \* ATDECC_THREAD_JOIN, among the frames 1, 2, ...

VARIABLES
    main,          \* where the main thread is
    index,         \* which of the machines it starts or ends next
    handles,       \* is the instance registered in jdksInterface.handles?
    machine,       \* machine -> where its run is
    doTerminate,   \* the machines told to end
    cbs,           \* adp_cbs, acmp_cbs and aecp_aem_cbs
    queue,         \* atdecc_t.send
    worker,        \* where the worker is
    list,          \* the list of callbacks for the frame received
    position,      \* of the iteration over it
    called,        \* the machine whose callback is called
    frames,        \* history: how many frames ATDECC_send was given
    sent,          \* history: the frames handed to raw_send
    emptied,       \* history: the frames the destructor took from the queue
    expected,      \* history: machines that were there when the frame was received, not called yet
    late           \* history: machine -> calls after its death

history == << frames, sent, emptied, expected, late >>
receipt == << list, position, called, expected, late >>
vars    == << main, index, handles, machine, doTerminate, cbs, queue, worker, list, position,
              called, history >>

Init ==
    /\ main = "register"      \* ATDECC_create has just started the worker
    /\ index = 1
    /\ handles = {}
    /\ machine = [m \in Machines |-> "new"]
    /\ doTerminate = {}
    /\ cbs = [l \in Lists |-> << >>]
    /\ queue = << >>
    /\ worker = "open"
    /\ list = "none"
    /\ position = 1
    /\ called = "none"
    /\ frames = 0
    /\ sent = << >>
    /\ emptied = {}
    /\ expected = {}
    /\ late = [m \in Machines |-> 0]

-----------------------------------------------------------------------------
(* The main thread.                                                         *)

Goto(here, next) == main = here /\ main' = next

Here == Order[index]

aside == << cbs, worker, receipt, frames, sent >>

\* jdksInterface.__init__
RegisterHandle ==
    /\ Goto("register", "start")
    /\ handles' = {"this"}
    /\ UNCHANGED << index, machine, doTerminate, queue, emptied, aside >>

\* AVDECC.__enter__
Start ==
    /\ Goto("start", IF index = Len(Order) THEN "serving" ELSE "start")
    /\ machine' = [machine EXCEPT ![Here] = "started"]
    /\ index' = IF index = Len(Order) THEN 1 ELSE index + 1
    /\ UNCHANGED << handles, doTerminate, queue, emptied, aside >>

\* The with block ends.  An exception before that does not reach __exit__; without any,
\* __exit__ raises a TypeError before it does anything.
Leave ==
    /\ \/ "early" \in Endings /\ main \in {"register", "start"} /\ main' = "waiting"
       \/ "normal" \in Endings /\ Goto("serving", "waiting")
       \/ "interrupt" \in Endings /\ Goto("serving", "terminate")
    /\ UNCHANGED << index, handles, machine, doTerminate, queue, emptied, aside >>

\* AVDECC.__exit__: performTerminate of each machine, ...
performTerminate ==
    /\ Goto("terminate", IF index = Len(Order) THEN "joining" ELSE "terminate")
    /\ doTerminate' = doTerminate \cup {Here}
    /\ index' = IF index = Len(Order) THEN 1 ELSE index + 1
    /\ UNCHANGED << handles, machine, queue, emptied, aside >>

is_alive(m) == machine[m] \notin {"new", "dead"}

\* ... until no machine is alive
Join ==
    /\ \A m \in Machines : ~is_alive(m)
    /\ Goto("joining", "waiting")
    /\ UNCHANGED << index, handles, machine, doTerminate, queue, emptied, aside >>

\* The interpreter waits for the threads, then destroys what is left: ATDECC_destroy.
Finalise ==
    /\ \A m \in Machines : ~is_alive(m)
    /\ Goto("waiting", "emptying")
    /\ UNCHANGED << index, handles, machine, doTerminate, queue, emptied, aside >>

\* ~atdecc_t
EmptyQueue ==
    /\ \/ /\ queue # << >>
          /\ Goto("emptying", "emptying")
          /\ queue' = Tail(queue)
          /\ emptied' = emptied \cup {Head(queue)}
       \/ /\ queue = << >>
          /\ Goto("emptying", "pushjoin")
          /\ UNCHANGED << queue, emptied >>
    /\ UNCHANGED << index, handles, machine, doTerminate, aside >>

\* Mutant of PushJoin: the worker is joined without being told.
PushNothing ==
    /\ Goto("pushjoin", "joinworker")
    /\ UNCHANGED << index, handles, machine, doTerminate, queue, emptied, aside >>

PushJoin ==
    /\ Goto("pushjoin", "joinworker")
    /\ queue' = Append(queue, JOIN)
    /\ UNCHANGED << index, handles, machine, doTerminate, emptied, aside >>

JoinWorker ==
    /\ worker \in {"returned", "ended"}
    /\ Goto("joinworker", "gone")
    /\ handles' = {}
    /\ UNCHANGED << index, machine, doTerminate, queue, emptied, aside >>

Closing == performTerminate \/ Join \/ Finalise \/ EmptyQueue \/ PushJoin \/ JoinWorker

MainStep == RegisterHandle \/ Start \/ Leave \/ Closing

-----------------------------------------------------------------------------
(* The run of a state machine m.                                            *)

Advance(m, here, next) == machine[m] = here /\ machine' = [machine EXCEPT ![m] = next]

bystanders == << main, index, handles, doTerminate, worker, receipt, emptied, sent >>

\* Mutant of Register: everyone registers with register_adp_cb.
RegisterAsADP(m) ==
    /\ Advance(m, "started", "running")
    /\ cbs' = [cbs EXCEPT !["adp"] = Append(@, m)]
    /\ UNCHANGED << bystanders, queue, frames >>

\* register_adp_cb, register_acmp_cb, register_aecp_aem_cb
Register(m) ==
    /\ Advance(m, "started", "running")
    /\ cbs' = [l \in Lists |-> IF l = ListOf[m] THEN Append(cbs[l], m) ELSE cbs[l]]
    /\ UNCHANGED << bystanders, queue, frames >>

\* ATDECC_send pushes a copy of the frame.
Push == frames' = frames + 1 /\ queue' = Append(queue, frames + 1)

\* send_adp, send_acmp, send_aecp
Send(m) ==
    /\ m # "advertising"
    /\ machine[m] = "running"
    /\ frames < MaxFrames
    /\ Push
    /\ UNCHANGED << bystanders, machine, cbs >>

SeeTermination(m) ==
    /\ m \in doTerminate
    /\ Advance(m, "running", IF m = "interface" THEN "departing" ELSE "unregister")
    /\ UNCHANGED << bystanders, cbs, queue, frames >>

\* txEntityDeparting
Depart(m) ==
    /\ Advance(m, "departing", "unregister")
    /\ Push
    /\ UNCHANGED << bystanders, cbs >>

\* Mutant of Unregister: the callback stays in the list.
EndRegistered(m) ==
    /\ Advance(m, "unregister", "dead")
    /\ UNCHANGED << bystanders, cbs, queue, frames >>

\* list.remove(m)
Removed(s, m) ==
    LET i == CHOOSE i \in DOMAIN s : s[i] = m /\ \A j \in 1 .. i - 1 : s[j] # m
    IN  [j \in 1 .. Len(s) - 1 |-> IF j < i THEN s[j] ELSE s[j + 1]]

\* unregister_adp_cb, unregister_acmp_cb, unregister_aecp_aem_cb
Unregister(m) ==
    /\ Advance(m, "unregister", "dead")
    /\ cbs' = [l \in Lists |-> IF l = ListOf[m] THEN Removed(cbs[l], m) ELSE cbs[l]]
    /\ UNCHANGED << bystanders, queue, frames >>

Ending(m) == Register(m) \/ SeeTermination(m) \/ Depart(m) \/ Unregister(m)

MachineStep(m) == Ending(m) \/ Send(m)

-----------------------------------------------------------------------------
(* The worker thread.                                                       *)

At(here, next) == worker = here /\ worker' = next

others == << main, index, handles, machine, doTerminate, cbs, frames, emptied >>

\* Without the socket the worker returns, and frames are queued for nobody.
Open ==
    /\ At("open", "pop") \/ At("open", "returned")
    /\ UNCHANGED << others, queue, sent, receipt >>

\* What is left to do for the frame before is over.
Popped == expected' = {} /\ UNCHANGED << list, position, called, late >>

\* Mutant of PopFrame: the front is read and not popped.
PeekFrame ==
    /\ queue # << >> /\ Head(queue) # JOIN
    /\ At("pop", "receive")
    /\ sent' = Append(sent, Head(queue))
    /\ Popped
    /\ UNCHANGED << others, queue >>

PopFrame ==
    /\ queue # << >> /\ Head(queue) # JOIN
    /\ At("pop", "receive")
    /\ sent' = Append(sent, Head(queue))
    /\ queue' = Tail(queue)
    /\ Popped
    /\ UNCHANGED others

PopJoin ==
    /\ queue # << >> /\ Head(queue) = JOIN
    /\ At("pop", "ended")
    /\ queue' = Tail(queue)
    /\ Popped
    /\ UNCHANGED << others, sent >>

\* Mutant of PopNothing: the worker ends when there is nothing to send.
PopNothingEnds ==
    /\ queue = << >>
    /\ At("pop", "ended")
    /\ Popped
    /\ UNCHANGED << others, queue, sent >>

PopNothing ==
    /\ queue = << >>
    /\ At("pop", "receive")
    /\ Popped
    /\ UNCHANGED << others, queue, sent >>

\* No frame, or one that is none of the three protocols or not for this destination
ReceiveNothing ==
    /\ At("receive", "pop")
    /\ UNCHANGED << others, queue, sent, receipt >>

\* atdecc_t.process tells the protocols apart and calls _adp_cb, _acmp_cb or _aecp_aem_cb.
Receive ==
    /\ At("receive", "lookup")
    /\ list' \in Lists
    /\ expected' = { m \in Machines : \E i \in DOMAIN cbs[list'] : cbs[list'][i] = m }
    /\ UNCHANGED << others, queue, sent, position, called, late >>

Return(here) ==
    /\ At(here, "pop")
    /\ list' = "none" /\ position' = 1 /\ called' = "none"
    /\ UNCHANGED << others, queue, sent, expected, late >>

\* A KeyError in a callback is printed by ctypes, and the frame is lost.
LookUp ==
    \/ handles = {} /\ Return("lookup")
    \/ /\ handles # {}
       /\ At("lookup", "test")
       /\ UNCHANGED << others, queue, sent, receipt >>

\* Mutant of TestCallbacks: a list with one callback counts as empty.
TestSeveralCallbacks ==
    \/ worker = "test" /\ Len(cbs[list]) <= 1 /\ Return("test")
    \/ /\ worker = "test" /\ Len(cbs[list]) > 1
       /\ At("test", "iterate")
       /\ UNCHANGED << others, queue, sent, receipt >>

TestCallbacks ==
    \/ worker = "test" /\ Len(cbs[list]) = 0 /\ Return("test")
    \/ /\ worker = "test" /\ Len(cbs[list]) # 0
       /\ At("test", "iterate")
       /\ UNCHANGED << others, queue, sent, receipt >>

\* The list may be changed while it is iterated over.
Iterate ==
    /\ worker = "iterate"
    /\ \/ position > Len(cbs[list]) /\ Return("iterate")
       \/ /\ position <= Len(cbs[list])
          /\ At("iterate", "call")
          /\ called' = cbs[list][position]
          /\ position' = position + 1
          /\ UNCHANGED << others, queue, sent, list, expected, late >>

\* cb(du), which may come after the machine has unregistered it
CallBack ==
    /\ At("call", "iterate")
    /\ expected' = expected \ {called}
    /\ late' = [late EXCEPT ![called] = IF is_alive(called) THEN @ ELSE @ + 1]
    /\ UNCHANGED << others, queue, sent, list, position, called >>

WorkerStep ==
    \/ Open \/ PopFrame \/ PopJoin \/ PopNothing \/ ReceiveNothing \/ Receive
    \/ LookUp \/ TestCallbacks \/ Iterate \/ CallBack

-----------------------------------------------------------------------------
Next == MainStep \/ (\E m \in Machines : MachineStep(m)) \/ WorkerStep

Spec == Init /\ [][Next]_vars

\* The worker never waits; __exit__ and the interpreter run to their ends; a machine that is
\* started or told to end does as the modules of the machines show.
MachineFair(m) == WF_vars(Ending(m))
MachinesFair == \A m \in Machines : MachineFair(m)

FairSpec ==
    /\ Spec
    /\ WF_vars(WorkerStep)
    /\ WF_vars(Closing)
    /\ MachinesFair

-----------------------------------------------------------------------------
(* Safety.                                                                  *)

Frames == 1 .. frames

\* The machine that registers in l
OwnerOf == [adp |-> "interface", acmp |-> "acmp", aecp |-> "aem"]

\* Every variable has the type the code gives it; a list of callbacks holds that of the one
\* machine it is for, once, or none.
TypeOK ==
    /\ main \in { "register", "start", "serving", "terminate", "joining", "waiting", "emptying",
                  "pushjoin", "joinworker", "gone" }
    /\ index \in 1 .. 4
    /\ handles \in SUBSET {"this"}
    /\ machine \in [Machines -> {"new", "started", "running", "departing", "unregister", "dead"}]
    /\ doTerminate \subseteq Machines
    /\ cbs \in [Lists -> Seq(Machines)]
    /\ \A l \in Lists : cbs[l] \in { << >>, << OwnerOf[l] >> }
    /\ queue \in Seq(Nat)
    /\ worker \in { "open", "returned", "pop", "receive", "lookup", "test", "iterate", "call",
                    "ended" }
    /\ list \in Lists \cup {"none"}
    /\ position \in Nat \ {0}
    /\ called \in Machines \cup {"none"}
    /\ frames \in Nat
    /\ sent \in Seq(Nat)
    /\ emptied \subseteq Nat
    /\ expected \subseteq Machines
    /\ late \in [Machines -> Nat]

Destroyed == {"emptying", "pushjoin", "joinworker", "gone"}

Elements(s) == { s[i] : i \in DOMAIN s }

\* Every frame given to ATDECC_send is in exactly one place, sent, queued or thrown away by
\* the destructor, and frames are sent in the order they were given, by whatever machine.
Accounted ==
    /\ Elements(sent) \cup Elements(queue) \cup emptied \subseteq Frames \cup {JOIN}
    /\ Frames \subseteq Elements(sent) \cup Elements(queue) \cup emptied
    /\ Elements(sent) \cap Elements(queue) = {} /\ emptied \cap Elements(sent \o queue) = {}
    /\ \A i, j \in DOMAIN sent : i < j => sent[i] < sent[j]

\* The worker looks up the instance, tests the list and iterates over it while machines come
\* and go: when it is done with a frame, every machine that had a callback when the frame was
\* received was called, or had been told to end.
HandedOver == worker = "pop" => expected \subseteq doTerminate

\* A callback may still be called after its machine has ended, but only the one call that had
\* begun.
CalledOnceMore == \A m \in Machines : late[m] <= 1

-----------------------------------------------------------------------------
(* Liveness.                                                                *)

\* A frame in the queue is sent, unless there is no socket or the destructor comes first:
\* ENTITY_DEPARTING is not certain to go out.
FramesGoOut ==
    \A n \in 1 .. MaxFrames + 1 :
        n \in Elements(queue) ~> n \in Elements(sent) \/ worker = "returned" \/ main \in Destroyed

\* When the with block is left by an interrupt, the process ends, whatever the network does.
ExitCompletes == main = "terminate" ~> main = "gone"
=============================================================================
