---------------------------- MODULE ProgramProofs ----------------------------
(* Theorems about Program, for all values of its constants.                *)
EXTENDS Program, SequenceTheorems, TLAPS

Present == {"running", "departing", "unregister"}

\* A machine's callback is in its list exactly while its run is between registering and
\* unregistering.
CallbackInv ==
    \A l \in Lists : cbs[l] = IF machine[OwnerOf[l]] \in Present THEN << OwnerOf[l] >> ELSE << >>

\* The destructor runs on a program without machines, and ends after the worker; a machine
\* that was started is started on a registered instance.
LifeInv ==
    /\ main \in Destroyed => \A m \in Machines : machine[m] \in {"new", "dead"}
    /\ main = "gone" => worker \in {"returned", "ended"}
    /\ main = "register" => index = 1 /\ \A m \in Machines : machine[m] = "new"
    /\ main = "start" => handles # {} /\ \A i \in index .. 4 : machine[Order[i]] = "new"
    /\ handles = {} => main = "gone" \/ \A m \in Machines : machine[m] = "new"
    /\ \A m \in Machines : machine[m] \in {"departing", "unregister", "dead"} => m \in doTerminate

Busy == {"lookup", "test", "iterate", "call"}

\* The frame the worker is busy with is for one machine at most, which is still there unless
\* it was called or told to end.
ReceiptInv ==
    /\ worker \in Busy => list \in Lists
    /\ worker \in Busy => expected \subseteq {OwnerOf[list]}
    /\ worker \in Busy => \A m \in expected \ doTerminate : machine[m] = "running"
    /\ worker \in Busy \ {"call"} => position \in {1, 2}
    /\ worker \in {"lookup", "test"} => position = 1
    /\ worker = "iterate" /\ position = 2 => expected = {}
    /\ worker = "call" => position = 2 /\ called = OwnerOf[list]
    /\ worker \in {"open", "pop"} => position = 1 /\ expected \subseteq doTerminate
    /\ worker = "receive" => position = 1 /\ expected = {}

\* A call after death is the one that had begun.
LateInv ==
    /\ worker = "call" => machine[called] \in Present \cup {"dead"}
    /\ \A m \in Machines :
         /\ late[m] \in {0, 1}
         /\ late[m] = 1 => machine[m] = "dead" /\ ~(worker = "call" /\ called = m)

LifecycleInv == TypeOK /\ CallbackInv /\ LifeInv /\ ReceiptInv /\ LateInv

LEMMA MachineNames ==
    /\ Order \in Seq(Machines) /\ Len(Order) = 4
    /\ \A i \in 1 .. 4 : Order[i] \in Machines
    /\ \A l \in Lists : OwnerOf[l] \in Machines /\ ListOf[OwnerOf[l]] = l
    /\ \A m \in Machines, l \in Lists : ListOf[m] = l => m = OwnerOf[l]
BY DEF Order, Machines, Lists, ListOf, OwnerOf

LEMMA LifecycleInit == Init => LifecycleInv
<1> SUFFICES ASSUME Init PROVE LifecycleInv
  OBVIOUS
<1>1. TypeOK
  BY DEF Init, TypeOK, Machines, Lists
<1>2. CallbackInv
  BY MachineNames DEF Init, CallbackInv, Present
<1>3. LifeInv
  BY DEF Init, LifeInv, Destroyed
<1>4. ReceiptInv
  BY DEF Init, ReceiptInv, Busy
<1>5. LateInv
  BY DEF Init, LateInv
<1> QED  BY <1>1, <1>2, <1>3, <1>4, <1>5 DEF LifecycleInv

\* The main thread does not touch the callbacks or the worker.

\* A machine's step moves it along its run, and out of "running" only when it was told to end.
LEMMA MachineMoves ==
    ASSUME TypeOK, NEW m \in Machines, MachineStep(m)
    PROVE  /\ \A k \in Machines \ {m} : machine'[k] = machine[k]
           /\ \/ machine[m] = "started" /\ machine'[m] = "running"
              \/ machine[m] = "running" /\ machine'[m] = "running"
              \/ /\ machine[m] = "running" /\ machine'[m] \in {"departing", "unregister"}
                 /\ m \in doTerminate
              \/ machine[m] = "departing" /\ machine'[m] = "unregister"
              \/ machine[m] = "unregister" /\ machine'[m] = "dead"
           /\ machine' \in [Machines -> {"new", "started", "running", "departing", "unregister",
                                        "dead"}]
           /\ UNCHANGED bystanders
<1>1. CASE Register(m)  BY <1>1 DEF Register, Advance, TypeOK
<1>2. CASE SeeTermination(m)  BY <1>2 DEF SeeTermination, Advance, TypeOK
<1>3. CASE Depart(m)  BY <1>3 DEF Depart, Advance, TypeOK
<1>4. CASE Unregister(m)  BY <1>4 DEF Unregister, Advance, TypeOK
<1>5. CASE Send(m)  BY <1>5 DEF Send, TypeOK
<1> QED  BY <1>1, <1>2, <1>3, <1>4, <1>5 DEF MachineStep, Ending

\* Removing the callback of a list leaves the empty list.
LEMMA RemovedLast == ASSUME NEW m PROVE Removed(<< m >>, m) = << >>
<1>1. Len(<< m >>) - 1 = 0  OBVIOUS
<1>2. 1 .. 0 = {}  OBVIOUS
<1> QED  BY <1>1, <1>2 DEF Removed

-----------------------------------------------------------------------------
(* Callbacks.                                                              *)

\* A list holds one callback or none.
LEMMA OneCallback ==
    ASSUME CallbackInv, NEW l \in Lists
    PROVE  /\ machine[OwnerOf[l]] \in Present => Len(cbs[l]) = 1 /\ cbs[l][1] = OwnerOf[l]
           /\ machine[OwnerOf[l]] \notin Present => Len(cbs[l]) = 0
           /\ Len(cbs[l]) \in {0, 1}
<1>1. CASE machine[OwnerOf[l]] \in Present
  <2>1. cbs[l] = << OwnerOf[l] >>  BY <1>1 DEF CallbackInv
  <2> QED  BY <1>1, <2>1
<1>2. CASE machine[OwnerOf[l]] \notin Present
  <2>1. cbs[l] = << >>  BY <1>2 DEF CallbackInv
  <2> QED  BY <1>2, <2>1
<1> QED  BY <1>1, <1>2

LEMMA CallbackStep == TypeOK /\ CallbackInv /\ LifeInv /\ [Next]_vars => CallbackInv'
<1> SUFFICES ASSUME TypeOK, CallbackInv, LifeInv, [Next]_vars PROVE CallbackInv'
  OBVIOUS
<1>1. CASE MainStep /\ ~Start
  BY <1>1 DEF MainStep, Closing, RegisterHandle, Leave, performTerminate, Join, Finalise,
     EmptyQueue, PushJoin, JoinWorker, aside, CallbackInv
<1>2. CASE Start
  <2>1. Here \in Machines /\ machine[Here] = "new"
    BY <1>2, MachineNames DEF Start, Goto, Here, LifeInv, TypeOK
  <2>2. \A m \in Machines : machine'[m] \in Present <=> machine[m] \in Present
    BY <1>2, <2>1 DEF Start, TypeOK, Present
  <2> QED  BY <1>2, <2>2, MachineNames DEF Start, aside, CallbackInv
<1>3. ASSUME NEW m \in Machines, MachineStep(m) PROVE CallbackInv'
  <2>1. CASE Register(m)
    <3>1. machine[m] = "started" /\ machine'[m] = "running"
      BY <2>1 DEF Register, Advance, TypeOK
    <3> SUFFICES ASSUME NEW l \in Lists
                 PROVE  cbs'[l] = IF machine'[OwnerOf[l]] \in Present THEN << OwnerOf[l] >> ELSE << >>
      BY DEF CallbackInv
    <3>2. CASE l = ListOf[m]
      <4>1. m = OwnerOf[l] /\ cbs[l] = << >>
        BY <3>1, <3>2, MachineNames DEF CallbackInv, Present
      <4>2. cbs'[l] = Append(<< >>, m)
        BY <2>1, <3>2, <4>1 DEF Register
      <4>3. Append(<< >>, m) = << m >>  OBVIOUS
      <4> QED  BY <3>1, <4>1, <4>2, <4>3 DEF Present
    <3>3. CASE l # ListOf[m]
      <4>1. OwnerOf[l] \in Machines \ {m}
        BY <3>3, MachineNames
      <4> QED  BY <1>3, <2>1, <3>3, <4>1, MachineMoves DEF Register, CallbackInv
    <3> QED  BY <3>2, <3>3
  <2>2. CASE Unregister(m)
    <3>1. machine[m] = "unregister" /\ machine'[m] = "dead"
      BY <2>2 DEF Unregister, Advance, TypeOK
    <3> SUFFICES ASSUME NEW l \in Lists
                 PROVE  cbs'[l] = IF machine'[OwnerOf[l]] \in Present THEN << OwnerOf[l] >> ELSE << >>
      BY DEF CallbackInv
    <3>2. CASE l = ListOf[m]
      <4>1. m = OwnerOf[l] /\ cbs[l] = << m >>
        BY <3>1, <3>2, MachineNames DEF CallbackInv, Present
      <4>2. cbs'[l] = Removed(<< m >>, m)
        BY <2>2, <3>2, <4>1 DEF Unregister
      <4> QED  BY <3>1, <4>1, <4>2, RemovedLast DEF Present
    <3>3. CASE l # ListOf[m]
      <4>1. OwnerOf[l] \in Machines \ {m}
        BY <3>3, MachineNames
      <4> QED  BY <1>3, <2>2, <3>3, <4>1, MachineMoves DEF Unregister, CallbackInv
    <3> QED  BY <3>2, <3>3
  <2>3. CASE ~Register(m) /\ ~Unregister(m)
    <3>1. UNCHANGED cbs
      BY <1>3, <2>3 DEF MachineStep, Ending, SeeTermination, Depart, Send
    <3>2. \A k \in Machines : machine'[k] \in Present <=> machine[k] \in Present
      <4>1. CASE SeeTermination(m)
        BY <4>1 DEF SeeTermination, Advance, TypeOK, Present
      <4>2. CASE Depart(m)
        BY <4>2 DEF Depart, Advance, TypeOK, Present
      <4>3. CASE Send(m)
        BY <4>3 DEF Send
      <4> QED  BY <1>3, <2>3, <4>1, <4>2, <4>3 DEF MachineStep, Ending
    <3> QED  BY <3>1, <3>2, MachineNames DEF CallbackInv
  <2> QED  BY <2>1, <2>2, <2>3
<1>4. CASE WorkerStep
  <2>1. UNCHANGED << machine, cbs >>
    BY <1>4 DEF WorkerStep, Open, PopFrame, PopJoin, PopNothing, ReceiveNothing, Receive, LookUp,
       TestCallbacks, Iterate, CallBack, Return, others
  <2> QED  BY <2>1 DEF CallbackInv
<1>5. CASE UNCHANGED vars  BY <1>5 DEF vars, CallbackInv
<1> QED  BY <1>1, <1>2, <1>3, <1>4, <1>5 DEF Next, MainStep

-----------------------------------------------------------------------------
(* Types.                                                                  *)

\* The destructor and the worker take from the queue, the machines and the destructor append.
LEMMA QueueType ==
    ASSUME NEW q \in Seq(Nat)
    PROVE  /\ q # << >> => Head(q) \in Nat /\ Tail(q) \in Seq(Nat)
           /\ \A n \in Nat : Append(q, n) \in Seq(Nat)
BY HeadTailProperties, AppendProperties

\* The lists of callbacks stay a function on the three lists.
LEMMA CallbackType ==
    TypeOK /\ [Next]_vars /\ CallbackInv' =>
      /\ cbs' \in [Lists -> Seq(Machines)]
      /\ \A l \in Lists : cbs'[l] \in { << >>, << OwnerOf[l] >> }
<1> SUFFICES ASSUME TypeOK, [Next]_vars, CallbackInv'
             PROVE  /\ cbs' \in [Lists -> Seq(Machines)]
                    /\ \A l \in Lists : cbs'[l] \in { << >>, << OwnerOf[l] >> }
  OBVIOUS
<1>1. \A l \in Lists : cbs'[l] \in { << >>, << OwnerOf[l] >> }
  BY DEF CallbackInv
<1>2. \A l \in Lists : cbs'[l] \in Seq(Machines)
  <2>1. << >> \in Seq(Machines) /\ \A m \in Machines : << m >> \in Seq(Machines)
    OBVIOUS
  <2>2. ASSUME NEW l \in Lists PROVE cbs'[l] \in Seq(Machines)
    <3>1. OwnerOf[l] \in Machines  BY MachineNames
    <3>2. << OwnerOf[l] >> \in Seq(Machines)  BY <2>1, <3>1
    <3> QED  BY <1>1, <2>1, <3>2
  <2> QED  BY <2>2
<1>3. cbs' = [l \in Lists |-> cbs'[l]]
  <2>1. CASE UNCHANGED cbs  BY <2>1 DEF TypeOK
  <2>2. ASSUME NEW m \in Machines, Register(m) \/ Unregister(m)
        PROVE  cbs' = [l \in Lists |-> cbs'[l]]
    <3>1. CASE Register(m)  BY <3>1 DEF Register
    <3>2. CASE Unregister(m)  BY <3>2 DEF Unregister
    <3> QED  BY <2>2, <3>1, <3>2
  <2>3. (\E m \in Machines : Register(m) \/ Unregister(m)) \/ UNCHANGED cbs
    <3>1. CASE MainStep
      BY <3>1 DEF MainStep, Closing, RegisterHandle, Start, Leave, performTerminate, Join,
         Finalise, EmptyQueue, PushJoin, JoinWorker, aside
    <3>2. ASSUME NEW m \in Machines, MachineStep(m)
          PROVE  Register(m) \/ Unregister(m) \/ UNCHANGED cbs
      BY <3>2 DEF MachineStep, Ending, SeeTermination, Depart, Send
    <3>3. CASE WorkerStep
      BY <3>3 DEF WorkerStep, Open, PopFrame, PopJoin, PopNothing, ReceiveNothing, Receive,
         LookUp, TestCallbacks, Iterate, CallBack, Return, others
    <3> QED  BY <3>1, <3>2, <3>3 DEF Next, vars
  <2> QED  BY <2>1, <2>2, <2>3
<1> QED  BY <1>1, <1>2, <1>3

LEMMA TypeStep == TypeOK /\ ReceiptInv /\ [Next]_vars /\ CallbackInv' => TypeOK'
<1> SUFFICES ASSUME TypeOK, ReceiptInv, [Next]_vars, CallbackInv' PROVE TypeOK'
  OBVIOUS
<1>0. /\ cbs' \in [Lists -> Seq(Machines)]
      /\ \A l \in Lists : cbs'[l] \in { << >>, << OwnerOf[l] >> }
  BY CallbackType
<1>1. CASE MainStep
  <2> USE <1>0 DEF TypeOK, aside, receipt, Goto
  <2>1. CASE RegisterHandle  BY <2>1 DEF RegisterHandle
  <2>2. CASE Start
    <3>1. Here \in Machines /\ index + 1 \in Nat
      BY MachineNames DEF Here
    <3>2. index' \in 1 .. 4
      BY <2>2, MachineNames DEF Start
    <3>3. main' \in {"start", "serving"}
      BY <2>2 DEF Start
    <3> QED  BY <2>2, <3>1, <3>2, <3>3 DEF Start
  <2>3. CASE Leave  BY <2>3 DEF Leave
  <2>4. CASE performTerminate
    <3>1. Here \in Machines
      BY MachineNames DEF Here
    <3>2. index' \in 1 .. 4
      BY <2>4, MachineNames DEF performTerminate
    <3> QED  BY <2>4, <3>1, <3>2 DEF performTerminate
  <2>5. CASE Join  BY <2>5 DEF Join
  <2>6. CASE Finalise  BY <2>6 DEF Finalise
  <2>7. CASE EmptyQueue  BY <2>7, QueueType DEF EmptyQueue
  <2>8. CASE PushJoin  BY <2>8, QueueType DEF PushJoin, JOIN
  <2>9. CASE JoinWorker  BY <2>9 DEF JoinWorker
  <2> QED  BY <1>1, <2>1, <2>2, <2>3, <2>4, <2>5, <2>6, <2>7, <2>8, <2>9 DEF MainStep, Closing
<1>2. ASSUME NEW m \in Machines, MachineStep(m) PROVE TypeOK'
  <2>1. frames' \in Nat /\ queue' \in Seq(Nat)
    <3>1. frames + 1 \in Nat /\ Append(queue, frames + 1) \in Seq(Nat)
      BY QueueType DEF TypeOK
    <3> QED  BY <1>2, <3>1 DEF MachineStep, Ending, Register, SeeTermination, Depart, Unregister,
                Send, Push, TypeOK
  <2> QED  BY <1>0, <1>2, <2>1, MachineMoves, ZenonT(30) DEF TypeOK, bystanders, receipt
<1>3. CASE WorkerStep
  <2> USE <1>0 DEF TypeOK, others, receipt, At, Popped, Return
  <2>1. CASE Open  BY <2>1 DEF Open
  <2>2. CASE PopFrame
    <3>1. Tail(queue) \in Seq(Nat) /\ Append(sent, Head(queue)) \in Seq(Nat)
      BY <2>2, QueueType DEF PopFrame
    <3> QED  BY <2>2, <3>1 DEF PopFrame
  <2>3. CASE PopJoin
    <3>1. Tail(queue) \in Seq(Nat)
      BY <2>3, QueueType DEF PopJoin
    <3> QED  BY <2>3, <3>1 DEF PopJoin
  <2>4. CASE PopNothing  BY <2>4 DEF PopNothing
  <2>5. CASE ReceiveNothing  BY <2>5 DEF ReceiveNothing
  <2>6. CASE Receive  BY <2>6 DEF Receive
  <2>0. ASSUME NEW here, Return(here) PROVE TypeOK'
    <3>1. 1 \in Nat \ {0} /\ list' = "none" /\ called' = "none" /\ position' = 1
      BY <2>0
    <3> QED  BY <2>0, <3>1
  <2>7. CASE LookUp
    <3>1. CASE At("lookup", "test")  BY <2>7, <3>1 DEF LookUp
    <3> QED  BY <2>0, <2>7, <3>1 DEF LookUp
  <2>8. CASE TestCallbacks
    <3>1. CASE At("test", "iterate")  BY <2>8, <3>1 DEF TestCallbacks
    <3> QED  BY <2>0, <2>8, <3>1 DEF TestCallbacks
  <2>9. CASE Iterate
    <3>1. CASE Return("iterate")  BY <2>0, <3>1
    <3>2. CASE ~Return("iterate")
      <4>1. /\ At("iterate", "call")
            /\ called' = cbs[list][position]
            /\ position' = position + 1
            /\ position <= Len(cbs[list])
            /\ UNCHANGED << others, queue, sent, list, expected, late >>
        BY <2>9, <3>2 DEF Iterate
      <4>2. list \in Lists /\ position \in Nat \ {0}
        BY <4>1 DEF ReceiptInv, Busy
      <4>3. called' \in Machines
        <5>1. cbs[list] \in Seq(Machines) /\ position \in 1 .. Len(cbs[list])
          BY <4>1, <4>2
        <5> QED  BY <4>1, <5>1
      <4>4. position' \in Nat \ {0}
        BY <4>1, <4>2
      <4> QED  BY <4>1, <4>3, <4>4
    <3> QED  BY <3>1, <3>2
  <2>10. CASE CallBack
    <3>1. called \in Machines
      BY <2>10, MachineNames DEF CallBack, ReceiptInv, Busy
    <3>2. late' \in [Machines -> Nat]
      BY <2>10, <3>1 DEF CallBack
    <3> QED  BY <2>10, <3>2 DEF CallBack
  <2> QED  BY <1>3, <2>1, <2>2, <2>3, <2>4, <2>5, <2>6, <2>7, <2>8, <2>9, <2>10 DEF WorkerStep
<1>4. CASE UNCHANGED vars  BY <1>4 DEF vars, history, TypeOK
<1> QED  BY <1>1, <1>2, <1>3, <1>4 DEF Next

-----------------------------------------------------------------------------
(* Starting and ending.                                                    *)

LEMMA LifeStep == TypeOK /\ LifeInv /\ [Next]_vars => LifeInv'
<1> SUFFICES ASSUME TypeOK, LifeInv, [Next]_vars PROVE LifeInv'
  OBVIOUS
<1>1. CASE MainStep
  <2> USE DEF LifeInv, Destroyed, aside, Goto
  <2>1. CASE RegisterHandle  BY <2>1, MachineNames DEF RegisterHandle
  <2>2. CASE Start
    <3>1. Here \in Machines /\ index \in 1 .. 4 /\ handles # {}
      BY <2>2, MachineNames DEF Start, Here, TypeOK
    <3>0. \A m \in Machines : machine'[m] \in {"departing", "unregister", "dead"} => m \in doTerminate
      BY <2>2, <3>1 DEF Start, TypeOK
    <3>2. main' = "start" => index' = index + 1 /\ index # 4
      BY <2>2, MachineNames DEF Start
    <3>3. \A i \in 1 .. 4 : i > index => Order[i] # Here
      BY <3>1 DEF Here, Order
    <3>4. main' = "start" => \A i \in index' .. 4 : machine'[Order[i]] = "new"
      BY <2>2, <3>1, <3>2, <3>3, MachineNames DEF Start, TypeOK
    <3>5. main' \in {"start", "serving"} /\ UNCHANGED << handles, doTerminate >>
      BY <2>2 DEF Start
    <3> QED  BY <3>0, <3>1, <3>4, <3>5
  <2>3. CASE Leave  BY <2>3 DEF Leave
  <2>4. CASE performTerminate  BY <2>4 DEF performTerminate
  <2>5. CASE Join  BY <2>5 DEF Join
  <2>6. CASE Finalise
    <3>1. \A m \in Machines : machine[m] \in {"new", "dead"}
      BY <2>6 DEF Finalise, is_alive
    <3> QED  BY <2>6, <3>1 DEF Finalise
  <2>7. CASE EmptyQueue  BY <2>7 DEF EmptyQueue
  <2>8. CASE PushJoin  BY <2>8 DEF PushJoin
  <2>9. CASE JoinWorker  BY <2>9 DEF JoinWorker
  <2> QED  BY <1>1, <2>1, <2>2, <2>3, <2>4, <2>5, <2>6, <2>7, <2>8, <2>9 DEF MainStep, Closing
<1>2. ASSUME NEW m \in Machines, MachineStep(m) PROVE LifeInv'
  <2>1. machine[m] \notin {"new", "dead"}
    BY <1>2, MachineMoves
  <2>2. UNCHANGED << main, index, handles, worker, doTerminate >>
    BY <1>2, MachineMoves DEF bystanders
  <2>7. \A k \in Machines : machine'[k] \in {"departing", "unregister", "dead"} => k \in doTerminate
    BY <1>2, MachineMoves DEF LifeInv
  <2>3. \A k \in Machines \ {m} : machine'[k] = machine[k]
    BY <1>2, MachineMoves
  <2>4. main # "register" /\ main \notin Destroyed
    BY <2>1 DEF LifeInv
  <2>5. handles # {}
    BY <2>1, <2>4 DEF LifeInv, Destroyed
  <2>6. main = "start" => \A i \in index .. 4 : Order[i] \in Machines /\ Order[i] # m
    BY <2>1, MachineNames DEF LifeInv, TypeOK
  <2> QED  BY <2>2, <2>3, <2>4, <2>5, <2>6, <2>7 DEF LifeInv, Destroyed
<1>3. CASE WorkerStep
  <2>1. UNCHANGED << main, index, handles, machine, doTerminate >>
    BY <1>3 DEF WorkerStep, Open, PopFrame, PopJoin, PopNothing, ReceiveNothing, Receive, LookUp,
       TestCallbacks, Iterate, CallBack, Return, others
  <2>2. worker \notin {"returned", "ended"}
    BY <1>3 DEF WorkerStep, Open, PopFrame, PopJoin, PopNothing, ReceiveNothing, Receive, LookUp,
       TestCallbacks, Iterate, CallBack, Return, At
  <2> QED  BY <2>1, <2>2 DEF LifeInv, Destroyed
<1>4. CASE UNCHANGED vars  BY <1>4 DEF vars, LifeInv, Destroyed
<1> QED  BY <1>1, <1>2, <1>3, <1>4 DEF Next

-----------------------------------------------------------------------------
(* The frame the worker is busy with.                                      *)

LEMMA ReceiptStep ==
    TypeOK /\ CallbackInv /\ LifeInv /\ ReceiptInv /\ [Next]_vars => ReceiptInv'
<1> SUFFICES ASSUME TypeOK, CallbackInv, LifeInv, ReceiptInv, [Next]_vars PROVE ReceiptInv'
  OBVIOUS
<1>1. CASE MainStep
  <2>1. UNCHANGED << worker, receipt >> /\ doTerminate \subseteq doTerminate'
    BY <1>1 DEF MainStep, Closing, RegisterHandle, Start, Leave, performTerminate, Join,
       Finalise, EmptyQueue, PushJoin, JoinWorker, aside
  <2>2. \A m \in Machines : machine[m] = "running" => machine'[m] = "running"
    <3>1. CASE Start
      <4>1. Here \in Machines /\ machine[Here] = "new"
        BY <3>1, MachineNames DEF Start, Goto, Here, LifeInv, TypeOK
      <4> QED  BY <3>1, <4>1 DEF Start, TypeOK
    <3>2. CASE ~Start
      BY <1>1, <3>2 DEF MainStep, Closing, RegisterHandle, Leave, performTerminate, Join,
         Finalise, EmptyQueue, PushJoin, JoinWorker
    <3> QED  BY <3>1, <3>2
  <2> QED  BY <2>1, <2>2 DEF ReceiptInv, receipt, Busy, TypeOK
<1>2. ASSUME NEW m \in Machines, MachineStep(m) PROVE ReceiptInv'
  <2>1. UNCHANGED << worker, receipt, doTerminate >>
    BY <1>2, MachineMoves DEF bystanders
  <2>2. \A k \in Machines \ doTerminate : machine[k] = "running" => machine'[k] = "running"
    BY <1>2, MachineMoves
  <2> QED  BY <2>1, <2>2 DEF ReceiptInv, receipt, Busy, TypeOK
<1>3. CASE WorkerStep
  <2> USE DEF others, receipt, At, Popped, Busy
  <2>1. UNCHANGED << machine, doTerminate, cbs >>
    BY <1>3 DEF WorkerStep, Open, PopFrame, PopJoin, PopNothing, ReceiveNothing, Receive, LookUp,
       TestCallbacks, Iterate, CallBack, Return
  <2>2. CASE Open  BY <2>2 DEF Open, ReceiptInv
  <2>3. CASE PopFrame  BY <2>3 DEF PopFrame, ReceiptInv
  <2>4. CASE PopJoin  BY <2>4 DEF PopJoin, ReceiptInv
  <2>5. CASE PopNothing  BY <2>5 DEF PopNothing, ReceiptInv
  <2>6. CASE ReceiveNothing  BY <2>6 DEF ReceiveNothing, ReceiptInv
  <2>7. CASE Receive
    <3>1. list' \in Lists /\ worker' = "lookup" /\ position' = 1
      BY <2>7 DEF Receive, ReceiptInv
    <3>2. \A m \in expected' : m = OwnerOf[list'] /\ machine[m] \in Present
      <4>1. ASSUME NEW m \in expected' PROVE m = OwnerOf[list'] /\ machine[m] \in Present
        <5>1. PICK i \in DOMAIN cbs[list'] : cbs[list'][i] = m
          BY <2>7, <4>1 DEF Receive
        <5>0. cbs[list'] # << >>
          BY <5>1
        <5>2. cbs[list'] = << OwnerOf[list'] >> /\ machine[OwnerOf[list']] \in Present
          BY <3>1, <5>0 DEF CallbackInv
        <5> QED  BY <5>1, <5>2
      <4> QED  BY <4>1
    <3>3. \A m \in expected' \ doTerminate : machine[m] = "running"
      <4>1. OwnerOf[list'] \in Machines  BY <3>1, MachineNames
      <4> QED  BY <3>2, <4>1 DEF Present, LifeInv
    <3> QED  BY <2>1, <3>1, <3>2, <3>3 DEF ReceiptInv
  \* Nobody is left who should have been called when the list is empty or was gone through.
  <2>8. ASSUME worker \in {"lookup", "test", "iterate"}, NEW here, Return(here),
               expected \subseteq doTerminate
        PROVE  ReceiptInv'
    BY <2>1, <2>8 DEF Return, ReceiptInv
  <2>9. CASE LookUp
    <3>1. CASE At("lookup", "test")
      BY <2>1, <2>9, <3>1 DEF LookUp, ReceiptInv, Return
    <3>2. CASE handles = {} /\ Return("lookup")
      <4>1. \A m \in Machines : machine[m] = "new"
        BY <3>2 DEF LifeInv, Return
      <4>2. expected \subseteq doTerminate
        BY <3>2, <4>1 DEF ReceiptInv, Return, TypeOK
      <4> QED  BY <2>8, <3>2, <4>2 DEF Return
    <3> QED  BY <2>9, <3>1, <3>2 DEF LookUp
  <2>10. ASSUME worker \in {"test", "iterate"}, position = 1, Len(cbs[list]) = 0
         PROVE  expected \subseteq doTerminate
    <3>0. list \in Lists
      BY <2>10 DEF ReceiptInv
    <3>1. machine[OwnerOf[list]] \notin Present
      BY <2>10, <3>0, OneCallback
    <3> QED  BY <2>10, <3>1 DEF ReceiptInv, Present
  <2>11. CASE TestCallbacks
    <3>1. CASE At("test", "iterate")
      BY <2>1, <2>11, <3>1 DEF TestCallbacks, ReceiptInv, Return
    <3>2. CASE Len(cbs[list]) = 0 /\ Return("test")
      <4>1. worker = "test" /\ position = 1
        BY <2>11, <3>2 DEF TestCallbacks, ReceiptInv
      <4> QED  BY <2>8, <2>10, <3>2, <4>1
    <3> QED  BY <2>11, <3>1, <3>2 DEF TestCallbacks
  <2>12. CASE Iterate
    <3>1. worker = "iterate" /\ list \in Lists /\ position \in {1, 2}
      BY <2>12 DEF Iterate, ReceiptInv
    <3>2. Len(cbs[list]) \in {0, 1}
      BY <3>1, OneCallback
    <3>3. CASE position > Len(cbs[list]) /\ Return("iterate")
      <4>1. expected \subseteq doTerminate
        <5>1. CASE position = 2  BY <3>1, <5>1 DEF ReceiptInv
        <5>2. CASE position = 1
          <6>1. Len(cbs[list]) = 0  BY <3>2, <3>3, <5>2
          <6> QED  BY <2>10, <3>1, <5>2, <6>1
        <5> QED  BY <3>1, <5>1, <5>2
      <4> QED  BY <2>8, <3>1, <3>3, <4>1
    <3>4. CASE ~(position > Len(cbs[list]))
      <4>1. position = 1 /\ Len(cbs[list]) = 1 /\ cbs[list][1] = OwnerOf[list]
        <5>1. ASSUME NEW p \in {1, 2}, NEW n \in {0, 1}, ~(p > n) PROVE p = 1 /\ n = 1
          BY <5>1
        <5>2. position = 1 /\ Len(cbs[list]) = 1
          BY <3>1, <3>2, <3>4, <5>1
        <5> QED  BY <3>1, <5>2, OneCallback
      <4>2. called' = OwnerOf[list] /\ position' = 2 /\ worker' = "call"
        BY <2>12, <4>1 DEF Iterate
      <4>3. UNCHANGED << list, expected >>
        BY <2>12, <4>1 DEF Iterate
      <4> QED  BY <2>1, <3>1, <4>2, <4>3 DEF ReceiptInv
    <3> QED  BY <2>12, <3>1, <3>2, <3>3, <3>4 DEF Iterate
  <2>13. CASE CallBack
    <3>1. called = OwnerOf[list] /\ position = 2 /\ list \in Lists
      BY <2>13 DEF CallBack, ReceiptInv
    <3>2. expected' = {}
      BY <2>13, <3>1 DEF CallBack, ReceiptInv
    <3> QED  BY <2>1, <2>13, <3>1, <3>2 DEF CallBack, ReceiptInv
  <2> QED  BY <1>3, <2>2, <2>3, <2>4, <2>5, <2>6, <2>7, <2>9, <2>11, <2>12, <2>13 DEF WorkerStep
<1>4. CASE UNCHANGED vars  BY <1>4 DEF vars, history, ReceiptInv, Busy
<1> QED  BY <1>1, <1>2, <1>3, <1>4 DEF Next

-----------------------------------------------------------------------------
(* Late calls.                                                             *)

LEMMA LateStep ==
    TypeOK /\ CallbackInv /\ LifeInv /\ ReceiptInv /\ LateInv /\ [Next]_vars => LateInv'
<1> SUFFICES ASSUME TypeOK, CallbackInv, LifeInv, ReceiptInv, LateInv, [Next]_vars
             PROVE  LateInv'
  OBVIOUS
\* A step that leaves the worker alone keeps the dead dead.
<1>0. ASSUME UNCHANGED << worker, called, late >>,
             \A m \in Machines : machine[m] = "dead" => machine'[m] = "dead",
             \A m \in Machines : machine[m] \in Present => machine'[m] \in Present \cup {"dead"}
      PROVE  LateInv'
  <2>1. worker = "call" => called \in Machines
    BY MachineNames DEF ReceiptInv, Busy
  <2> QED  BY <1>0, <2>1 DEF LateInv
<1>1. CASE MainStep
  <2>1. UNCHANGED << worker, called, late >>
    BY <1>1 DEF MainStep, Closing, RegisterHandle, Start, Leave, performTerminate, Join,
       Finalise, EmptyQueue, PushJoin, JoinWorker, aside, receipt
  <2>2. \A m \in Machines : machine'[m] = machine[m] \/ machine[m] = "new"
    <3>1. CASE Start
      <4>1. Here \in Machines /\ machine[Here] = "new"
        BY <3>1, MachineNames DEF Start, Goto, Here, LifeInv, TypeOK
      <4> QED  BY <3>1, <4>1 DEF Start, TypeOK
    <3>2. CASE ~Start
      BY <1>1, <3>2 DEF MainStep, Closing, RegisterHandle, Leave, performTerminate, Join,
         Finalise, EmptyQueue, PushJoin, JoinWorker
    <3> QED  BY <3>1, <3>2
  <2> QED  BY <1>0, <2>1, <2>2 DEF Present
<1>2. ASSUME NEW m \in Machines, MachineStep(m) PROVE LateInv'
  <2>1. UNCHANGED << worker, called, late >>
    BY <1>2, MachineMoves DEF bystanders, receipt
  <2>2. \A k \in Machines : /\ machine[k] = "dead" => machine'[k] = "dead"
                            /\ machine[k] \in Present => machine'[k] \in Present \cup {"dead"}
    BY <1>2, MachineMoves DEF Present
  <2> QED  BY <1>0, <2>1, <2>2
<1>3. CASE WorkerStep
  <2> USE DEF others, receipt, At, Popped
  <2>1. UNCHANGED machine
    BY <1>3 DEF WorkerStep, Open, PopFrame, PopJoin, PopNothing, ReceiveNothing, Receive, LookUp,
       TestCallbacks, Iterate, CallBack, Return
  <2>2. CASE Iterate
    <3>1. CASE Return("iterate")
      BY <2>1, <3>1 DEF Return, LateInv
    <3>2. CASE ~Return("iterate")
      <4>1. /\ worker = "iterate" /\ list \in Lists /\ position = 1
            /\ position <= Len(cbs[list]) /\ called' = cbs[list][position] /\ UNCHANGED late
        <5>1. worker = "iterate" /\ list \in Lists /\ position \in {1, 2}
          BY <2>2 DEF Iterate, ReceiptInv, Busy
        <5>2. Len(cbs[list]) \in {0, 1}  BY <5>1, OneCallback
        <5>3. position <= Len(cbs[list]) /\ called' = cbs[list][position] /\ UNCHANGED late
          BY <2>2, <3>2 DEF Iterate
        <5> QED  BY <5>1, <5>2, <5>3
      <4>2. machine[OwnerOf[list]] \in Present /\ called' = OwnerOf[list]
        BY <4>1, OneCallback
      <4> QED  BY <2>1, <4>1, <4>2 DEF LateInv, Present
    <3> QED  BY <3>1, <3>2
  <2>3. CASE CallBack
    <3>1. worker = "call" /\ worker' = "iterate" /\ called \in Machines
      BY <2>3, MachineNames DEF CallBack, ReceiptInv, Busy
    <3>2. CASE is_alive(called)
      <4>1. late'[called] = late[called] /\ \A m \in Machines : late'[m] = late[m]
        BY <2>3, <3>1, <3>2 DEF CallBack, TypeOK
      <4> QED  BY <2>1, <3>1, <4>1 DEF LateInv
    <3>3. CASE ~is_alive(called)
      <4>1. machine[called] = "dead" /\ late[called] = 0
        BY <3>1, <3>3 DEF LateInv, is_alive, Present
      <4>2. late'[called] = 1 /\ \A m \in Machines \ {called} : late'[m] = late[m]
        BY <2>3, <3>1, <3>3, <4>1 DEF CallBack, TypeOK
      <4> QED  BY <2>1, <3>1, <4>1, <4>2 DEF LateInv
    <3> QED  BY <3>2, <3>3
  <2>4. CASE ~Iterate /\ ~CallBack
    <3>1. worker' # "call" /\ UNCHANGED late
      BY <1>3, <2>4 DEF WorkerStep, Open, PopFrame, PopJoin, PopNothing, ReceiveNothing, Receive,
         LookUp, TestCallbacks, Return
    <3> QED  BY <2>1, <3>1 DEF LateInv
  <2> QED  BY <2>2, <2>3, <2>4
<1>4. CASE UNCHANGED vars  BY <1>4 DEF vars, history, LateInv
<1> QED  BY <1>1, <1>2, <1>3, <1>4 DEF Next

LEMMA LifecycleStep == LifecycleInv /\ [Next]_vars => LifecycleInv'
BY TypeStep, CallbackStep, LifeStep, ReceiptStep, LateStep DEF LifecycleInv

LEMMA Lifecycle == Spec => []LifecycleInv
BY LifecycleInit, LifecycleStep, PTL DEF Spec

\* Every variable has its type; each list of callbacks only ever holds that of its machine.
THEOREM TypeCorrect == Spec => []TypeOK
BY Lifecycle, PTL DEF LifecycleInv

\* Every machine that had a callback when a frame was received is called for it, or was told
\* to end, in every interleaving of the worker with machines that come and go.
THEOREM FramesHandedOver == Spec => []HandedOver
<1>1. LifecycleInv => HandedOver
  BY DEF LifecycleInv, ReceiptInv, HandedOver
<1> QED  BY Lifecycle, <1>1, PTL

\* After its death a machine is called once more at most.
THEOREM LateCallsBounded == Spec => []CalledOnceMore
<1>1. LifecycleInv => CalledOnceMore
  BY DEF LifecycleInv, LateInv, CalledOnceMore
<1> QED  BY Lifecycle, <1>1, PTL

-----------------------------------------------------------------------------
(* Frames.  JOIN is pushed on an empty queue when nobody sends any more;   *)
(* before that the queue holds the frames given last, in order.            *)

Joined == main \in {"joinworker", "gone"}

\* How many frames have left the queue
Taken == IF Joined THEN frames ELSE frames - Len(queue)

QueueInv ==
    /\ Taken \in Nat
    /\ main = "pushjoin" => queue = << >>
    /\ Joined => queue \in {<< >>, << JOIN >>}
    /\ ~Joined => \A i \in DOMAIN queue : queue[i] = Taken + i
    /\ Elements(sent) \cup emptied = 1 .. Taken
    /\ Elements(sent) \cap emptied = {}
    /\ \A i, j \in DOMAIN sent : i < j => sent[i] < sent[j]

LEMMA QueueInit == Init => QueueInv
BY DEF Init, QueueInv, Taken, Joined, Elements

\* A history that does not change, with the queue and the destructor
LEMMA QueueStays ==
    ASSUME QueueInv, UNCHANGED << queue, frames, sent, emptied >>, Joined' <=> Joined,
           main' = "pushjoin" => queue = << >>
    PROVE  QueueInv'
BY DEF QueueInv, Taken, Joined, Elements

\* Taking the front of the queue: the frame after those taken before
LEMMA FrontIsNext ==
    ASSUME TypeOK, QueueInv, ~Joined, queue # << >>
    PROVE  /\ Head(queue) = Taken + 1 /\ Head(queue) # JOIN
           /\ Tail(queue) \in Seq(Nat) /\ Len(Tail(queue)) = Len(queue) - 1
           /\ \A i \in DOMAIN Tail(queue) : Tail(queue)[i] = Taken + 1 + i
<1>1. queue \in Seq(Nat) /\ Len(queue) \in Nat /\ Len(queue) >= 1 /\ DOMAIN queue = 1 .. Len(queue)
  <2>1. queue \in Seq(Nat)  BY DEF TypeOK
  <2> QED  BY <2>1, EmptySeq, LenProperties
<1>2. Head(queue) = queue[1] /\ Len(Tail(queue)) = Len(queue) - 1 /\ Tail(queue) \in Seq(Nat)
  BY <1>1, HeadTailProperties
<1>3. \A i \in 1 .. Len(Tail(queue)) : Tail(queue)[i] = queue[i + 1]
  BY <1>1, HeadTailProperties
<1>4. Taken \in Nat /\ \A i \in DOMAIN queue : queue[i] = Taken + i
  BY DEF QueueInv
<1>5. Head(queue) = Taken + 1 /\ Taken + 1 # JOIN
  BY <1>1, <1>2, <1>4 DEF JOIN
<1>6. ASSUME NEW i \in DOMAIN Tail(queue) PROVE Tail(queue)[i] = Taken + 1 + i
  <2>1. i \in 1 .. Len(Tail(queue))  BY <1>2, <1>6, LenProperties
  <2>2. i + 1 \in 1 .. Len(queue) /\ i \in Nat  BY <1>1, <1>2, <2>1
  <2>3. queue[i + 1] = Taken + (i + 1)  BY <1>1, <1>4, <2>2
  <2> QED  BY <1>3, <1>4, <2>1, <2>2, <2>3
<1> QED  BY <1>2, <1>5, <1>6

LEMMA ElementsOfAppend ==
    ASSUME NEW s \in Seq(Nat), NEW n \in Nat
    PROVE  /\ Elements(Append(s, n)) = Elements(s) \cup {n}
           /\ (\A i, j \in DOMAIN s : i < j => s[i] < s[j]) /\ (\A k \in Elements(s) : k < n)
                => \A i, j \in DOMAIN Append(s, n) : i < j => Append(s, n)[i] < Append(s, n)[j]
<1> DEFINE t == Append(s, n)
<1>1. /\ Len(s) \in Nat /\ DOMAIN s = 1 .. Len(s) /\ DOMAIN t = 1 .. Len(s) + 1
      /\ \A i \in 1 .. Len(s) : t[i] = s[i]
      /\ t[Len(s) + 1] = n
  BY AppendProperties, LenProperties
<1> HIDE DEF t
<1>2. Elements(t) = Elements(s) \cup {n}
  <2>1. \A i \in DOMAIN t : i \in DOMAIN s \/ i = Len(s) + 1
    BY <1>1
  <2>2. DOMAIN s \subseteq DOMAIN t /\ Len(s) + 1 \in DOMAIN t
    BY <1>1
  <2> QED  BY <1>1, <2>1, <2>2 DEF Elements
<1>3. ASSUME \A i, j \in DOMAIN s : i < j => s[i] < s[j], \A k \in Elements(s) : k < n,
             NEW i \in DOMAIN t, NEW j \in DOMAIN t, i < j
      PROVE  t[i] < t[j]
  <2>1. i \in DOMAIN s /\ t[i] = s[i] /\ s[i] \in Elements(s)
    BY <1>1, <1>3 DEF Elements
  <2>2. CASE j = Len(s) + 1  BY <1>1, <1>3, <2>1, <2>2
  <2>3. CASE j # Len(s) + 1
    <3>1. j \in DOMAIN s  BY <1>1, <2>3
    <3> QED  BY <1>1, <1>3, <2>1, <3>1
  <2> QED  BY <2>2, <2>3
<1> QED  BY <1>2, <1>3 DEF t

LEMMA QueueStep == TypeOK /\ LifeInv /\ QueueInv /\ [Next]_vars => QueueInv'
<1> SUFFICES ASSUME TypeOK, LifeInv, QueueInv, [Next]_vars PROVE QueueInv'
  OBVIOUS
<1>0. Len(queue) \in Nat /\ Len(<< >>) = 0 /\ frames \in Nat
  BY LenProperties DEF TypeOK
<1>1. CASE MainStep
  <2> USE DEF Goto, aside
  <2>1. CASE RegisterHandle \/ Start \/ Leave \/ performTerminate \/ Join \/ Finalise
    <3>1. /\ UNCHANGED << queue, frames, sent, emptied >>
          /\ main \notin {"pushjoin", "joinworker", "gone"}
          /\ main' \notin {"pushjoin", "joinworker", "gone"}
      BY <2>1 DEF RegisterHandle, Start, Leave, performTerminate, Join, Finalise
    <3> QED  BY <3>1, QueueStays DEF Joined
  <2>2. CASE EmptyQueue
    <3>1. CASE queue # << >>
      <4>1. /\ ~Joined /\ ~Joined' /\ main' # "pushjoin"
            /\ queue' = Tail(queue) /\ emptied' = emptied \cup {Head(queue)}
            /\ UNCHANGED << frames, sent >>
        BY <2>2, <3>1 DEF EmptyQueue, Joined
      <4>2. Len(queue') = Len(queue) - 1 /\ Taken' = Taken + 1 /\ Taken \in Nat
        BY <1>0, <3>1, <4>1, FrontIsNext DEF Taken, QueueInv
      <4>3. \A i \in DOMAIN queue' : queue'[i] = Taken' + i
        BY <3>1, <4>1, <4>2, FrontIsNext
      <4>4. Head(queue) = Taken + 1
        BY <3>1, <4>1, FrontIsNext
      <4>5. Taken + 1 \notin 1 .. Taken /\ 1 .. Taken' = 1 .. Taken \cup {Taken + 1}
        BY <4>2
      <4> QED  BY <4>1, <4>2, <4>3, <4>4, <4>5 DEF QueueInv, Elements
    <3>2. CASE queue = << >>
      <4>1. UNCHANGED << queue, frames, sent, emptied >> /\ ~Joined /\ ~Joined'
        BY <2>2, <3>2 DEF EmptyQueue, Joined
      <4> QED  BY <3>2, <4>1, QueueStays
    <3> QED  BY <3>1, <3>2
  <2>3. CASE PushJoin
    <3>1. /\ queue = << >> /\ queue' = << JOIN >> /\ ~Joined /\ Joined' /\ main' # "pushjoin"
          /\ UNCHANGED << frames, sent, emptied >>
      BY <2>3 DEF PushJoin, Joined, QueueInv
    <3>2. Taken = frames /\ Taken' = frames
      BY <1>0, <3>1 DEF Taken
    <3> QED  BY <1>0, <3>1, <3>2 DEF QueueInv, Elements
  <2>4. CASE JoinWorker
    <3>1. UNCHANGED << queue, frames, sent, emptied >> /\ Joined /\ Joined' /\ main' # "pushjoin"
      BY <2>4 DEF JoinWorker, Joined
    <3> QED  BY <3>1, QueueStays
  <2> QED  BY <1>1, <2>1, <2>2, <2>3, <2>4 DEF MainStep, Closing
<1>2. ASSUME NEW m \in Machines, MachineStep(m) PROVE QueueInv'
  <2>1. UNCHANGED << main, sent, emptied >> /\ machine[m] \notin {"new", "dead"}
    BY <1>2, MachineMoves DEF bystanders
  <2>2. ~Joined /\ ~Joined' /\ main' # "pushjoin"
    BY <2>1 DEF Joined, LifeInv, Destroyed
  <2>3. CASE Push
    <3>1. frames' = frames + 1 /\ queue' = Append(queue, frames + 1)
      BY <2>3 DEF Push
    <3>2. /\ Len(queue') = Len(queue) + 1 /\ DOMAIN queue = 1 .. Len(queue)
          /\ DOMAIN queue' = 1 .. Len(queue) + 1
          /\ \A i \in 1 .. Len(queue) : queue'[i] = queue[i]
          /\ queue'[Len(queue) + 1] = frames + 1
      BY <3>1, AppendProperties, LenProperties DEF TypeOK
    <3>3. Taken' = Taken /\ Taken = frames - Len(queue) /\ Taken \in Nat
      BY <1>0, <2>2, <3>1, <3>2 DEF Taken, QueueInv
    <3>4. ASSUME NEW i \in DOMAIN queue' PROVE queue'[i] = Taken' + i
      <4>1. CASE i = Len(queue) + 1
        BY <1>0, <3>2, <3>3, <4>1
      <4>2. CASE i # Len(queue) + 1
        <5>1. i \in DOMAIN queue  BY <1>0, <3>2, <3>4, <4>2
        <5> QED  BY <2>2, <3>2, <3>3, <5>1 DEF QueueInv
      <4> QED  BY <4>1, <4>2
    <3> QED  BY <2>1, <2>2, <3>3, <3>4 DEF QueueInv, Elements
  <2>4. CASE ~Push
    <3>1. UNCHANGED << queue, frames >>
      BY <1>2, <2>4 DEF MachineStep, Ending, Register, SeeTermination, Depart, Unregister, Send
    <3> QED  BY <2>1, <2>2, <3>1, QueueStays
  <2> QED  BY <2>3, <2>4
<1>3. CASE WorkerStep
  <2> USE DEF others, receipt, At
  <2>1. UNCHANGED << main, frames, emptied >>
    BY <1>3 DEF WorkerStep, Open, PopFrame, PopJoin, PopNothing, ReceiveNothing, Receive, LookUp,
       TestCallbacks, Iterate, CallBack, Return
  <2>2. CASE PopFrame
    <3>1. queue # << >> /\ queue' = Tail(queue) /\ sent' = Append(sent, Head(queue))
      BY <2>2 DEF PopFrame
    <3>2. ~Joined
      BY <2>2, <3>1 DEF PopFrame, QueueInv
    <3>3. ~Joined' /\ main' # "pushjoin"
      BY <2>1, <3>1, <3>2 DEF Joined, QueueInv
    <3>4. Len(queue') = Len(queue) - 1 /\ Taken' = Taken + 1 /\ Taken \in Nat
      BY <1>0, <2>1, <3>1, <3>2, <3>3, FrontIsNext DEF Taken, QueueInv
    <3>5. Head(queue) = Taken + 1 /\ \A i \in DOMAIN queue' : queue'[i] = Taken' + i
      BY <3>1, <3>2, <3>4, FrontIsNext
    <3>6. \A k \in Elements(sent) : k < Taken + 1
      BY <3>4 DEF QueueInv
    <3>7. /\ Elements(sent') = Elements(sent) \cup {Taken + 1}
          /\ \A i, j \in DOMAIN sent' : i < j => sent'[i] < sent'[j]
      <4>1. sent \in Seq(Nat) /\ Taken + 1 \in Nat  BY <3>4 DEF TypeOK
      <4> QED  BY <3>1, <3>5, <3>6, <4>1, ElementsOfAppend DEF QueueInv
    <3>8. Taken + 1 \notin 1 .. Taken /\ 1 .. Taken' = 1 .. Taken \cup {Taken + 1}
      BY <3>4
    <3>9. Elements(sent)' = Elements(sent')
      BY DEF Elements
    <3> QED  BY <2>1, <3>3, <3>4, <3>5, <3>7, <3>8, <3>9 DEF QueueInv
  <2>3. CASE PopJoin
    <3>1. queue # << >> /\ queue' = Tail(queue) /\ Head(queue) = JOIN /\ UNCHANGED sent
      BY <2>3 DEF PopJoin
    <3>2. Joined
      BY <3>1, FrontIsNext
    <3>3. queue = << JOIN >> /\ queue' = << >>
      <4>1. queue = << JOIN >>  BY <3>1, <3>2 DEF QueueInv
      <4>2. Tail(<< JOIN >>) = << >>  OBVIOUS
      <4> QED  BY <3>1, <4>1, <4>2
    <3>4. Joined' /\ Taken' = Taken
      BY <2>1, <3>2 DEF Joined, Taken
    <3> QED  BY <2>1, <3>1, <3>3, <3>4 DEF QueueInv, Elements, Joined
  <2>4. CASE ~PopFrame /\ ~PopJoin
    <3>1. UNCHANGED << queue, sent >>
      BY <1>3, <2>4 DEF WorkerStep, Open, PopNothing, ReceiveNothing, Receive, LookUp,
         TestCallbacks, Iterate, CallBack, Return
    <3> QED  BY <2>1, <3>1, QueueStays DEF Joined, QueueInv
  <2> QED  BY <2>2, <2>3, <2>4
<1>4. CASE UNCHANGED vars
  BY <1>4, QueueStays DEF vars, history, Joined, QueueInv
<1> QED  BY <1>1, <1>2, <1>3, <1>4 DEF Next

\* Where a frame is follows from what has left the queue.
LEMMA QueueAccounts == TypeOK /\ QueueInv => Accounted
<1> SUFFICES ASSUME TypeOK, QueueInv PROVE Accounted
  OBVIOUS
<1>1. frames \in Nat /\ Len(queue) \in Nat /\ DOMAIN queue = 1 .. Len(queue) /\ Taken \in Nat
  BY LenProperties DEF TypeOK, QueueInv
<1>2. \A i, j \in DOMAIN sent : i < j => sent[i] < sent[j]
  BY DEF QueueInv
<1>3. Elements(sent \o queue) = Elements(sent) \cup Elements(queue)
  <2>1. sent \in Seq(Nat) /\ queue \in Seq(Nat)  BY DEF TypeOK
  <2>2. Len(sent) \in Nat /\ DOMAIN sent = 1 .. Len(sent)  BY <2>1, LenProperties
  <2>3. /\ DOMAIN (sent \o queue) = 1 .. Len(sent) + Len(queue)
        /\ \A i \in DOMAIN (sent \o queue) :
             (sent \o queue)[i] = IF i <= Len(sent) THEN sent[i] ELSE queue[i - Len(sent)]
    BY <2>1, ConcatProperties, LenProperties
  <2>4. \A i \in DOMAIN queue : /\ i + Len(sent) \in DOMAIN (sent \o queue)
                                /\ (sent \o queue)[i + Len(sent)] = queue[i]
    BY <1>1, <2>2, <2>3
  <2>5. \A i \in DOMAIN sent : i \in DOMAIN (sent \o queue) /\ (sent \o queue)[i] = sent[i]
    BY <1>1, <2>2, <2>3
  <2>6. \A i \in DOMAIN (sent \o queue) :
          \/ i \in DOMAIN sent /\ (sent \o queue)[i] = sent[i]
          \/ i - Len(sent) \in DOMAIN queue /\ (sent \o queue)[i] = queue[i - Len(sent)]
    BY <1>1, <2>2, <2>3
  <2> QED  BY <2>4, <2>5, <2>6 DEF Elements
<1>4. CASE Joined
  <2>1. Elements(queue) \subseteq {JOIN} /\ Taken = frames
    BY <1>4 DEF QueueInv, Elements, Taken
  <2>2. JOIN \notin 1 .. Taken  BY <1>1 DEF JOIN
  <2> QED  BY <1>1, <1>2, <1>3, <2>1, <2>2 DEF QueueInv, Accounted, Frames
<1>5. CASE ~Joined
  <2>1. frames = Taken + Len(queue)
    BY <1>1, <1>5 DEF Taken
  <2>2. Elements(queue) = (Taken + 1) .. frames
    <3>1. ASSUME NEW k \in (Taken + 1) .. frames PROVE k \in Elements(queue)
      <4>1. k - Taken \in DOMAIN queue  BY <1>1, <2>1, <3>1
      <4>2. queue[k - Taken] = Taken + (k - Taken)  BY <1>5, <4>1 DEF QueueInv
      <4>3. Taken + (k - Taken) = k  BY <1>1, <3>1
      <4> QED  BY <4>1, <4>2, <4>3 DEF Elements
    <3>2. ASSUME NEW i \in DOMAIN queue PROVE queue[i] \in (Taken + 1) .. frames
      <4>1. queue[i] = Taken + i  BY <1>5 DEF QueueInv
      <4> QED  BY <1>1, <2>1, <4>1
    <3> QED  BY <3>1, <3>2 DEF Elements
  <2>3. /\ (1 .. Taken) \cap ((Taken + 1) .. frames) = {}
        /\ (1 .. Taken) \cup ((Taken + 1) .. frames) = 1 .. frames
    BY <1>1, <2>1
  <2> QED  BY <1>2, <1>3, <2>2, <2>3 DEF QueueInv, Accounted, Frames
<1> QED  BY <1>4, <1>5

\* Every frame is sent in its turn, still queued, or was thrown away by the destructor, for
\* any number of frames from any of the machines.
THEOREM FramesAccounted == Spec => []Accounted
<1>1. LifecycleInv /\ QueueInv /\ [Next]_vars => QueueInv'
  BY QueueStep DEF LifecycleInv
<1>2. LifecycleInv /\ QueueInv => Accounted
  BY QueueAccounts DEF LifecycleInv
<1> QED  BY Lifecycle, QueueInit, <1>1, <1>2, PTL DEF Spec

------------------------------------------
(* Liveness.  The provers know neither ENABLED, which WF is defined with,   *)
(* nor induction on temporal formulas.  What a theorem needs of them it     *)
(* takes as a hypothesis that is always true: CanStep of every behaviour of *)
(* the specification, Descent(f) of every behaviour at all.                 *)

Rest == \A m \in Machines : ~is_alive(m)

WorkerOver == worker \in {"returned", "ended"}

\* Where the main thread has nothing to do, or waits for the machines or the worker
MainWaits ==
    \/ main \in {"register", "start", "serving", "gone"}
    \/ main \in {"joining", "waiting"} /\ ~Rest
    \/ main = "joinworker" /\ ~WorkerOver

\* Where a machine is not running, or runs on as nobody told it to end
MachineWaits(m) ==
    machine[m] \in {"new", "dead"} \/ (machine[m] = "running" /\ m \notin doTerminate)

MachineCanStep(m) ==
    MachineFair(m) => []<>MachineWaits(m) \/ []<><<Ending(m)>>_vars
MachinesCanStep == \A m \in Machines : MachineCanStep(m)

\* A step is possible in every other state, so this is what the WF of FairSpec say.
CanStep ==
    /\ WF_vars(WorkerStep) => []<>WorkerOver \/ []<><<WorkerStep>>_vars
    /\ WF_vars(Closing) => []<>MainWaits \/ []<><<Closing>>_vars
    /\ MachinesCanStep

\* What falls again and again, and is always a natural number, rises again and again.
Descent(f) == [](f \in Nat) /\ []<><<f' < f>>_f => []<><<f' > f>>_f

-----------------------------------------------------------------------------
(* Who moves what.                                                         *)

\* The steps of the worker to the next frame, at most; none once it is over
ToPop ==
    CASE worker = "pop" -> 1 [] worker = "iterate" -> IF position = 2 THEN 2 ELSE 4
      [] worker = "call" -> 3 [] worker = "test" -> 5 [] worker = "lookup" -> 6
      [] worker = "receive" -> 7 [] worker = "open" -> 8 [] OTHER -> 0

\* A step of the worker that takes nothing from the queue is one fewer.
LEMMA WorkerMoves ==
    ASSUME LifecycleInv, WorkerStep
    PROVE  /\ UNCHANGED others
           /\ \/ worker # "pop" /\ ToPop' < ToPop /\ worker' # "ended" /\ UNCHANGED << queue, sent >>
              \/ PopFrame \/ PopJoin \/ PopNothing
<1> USE DEF At, Return, ToPop
<1>1. UNCHANGED others
  BY DEF WorkerStep, Open, PopFrame, PopJoin, PopNothing, ReceiveNothing, Receive, LookUp,
     TestCallbacks, Iterate, CallBack
<1>2. CASE Open  BY <1>1, <1>2 DEF Open
<1>3. CASE ReceiveNothing  BY <1>1, <1>3 DEF ReceiveNothing
<1>4. CASE Receive  BY <1>1, <1>4 DEF Receive
<1>5. CASE LookUp  BY <1>1, <1>5 DEF LookUp
<1>6. CASE TestCallbacks  BY <1>1, <1>6 DEF TestCallbacks
<1>7. CASE Iterate
  <2>1. CASE Return("iterate")  BY <1>1, <2>1
  <2>2. CASE ~Return("iterate")
    <3>1. position <= Len(cbs[list]) /\ worker' = "call" /\ UNCHANGED << queue, sent >>
      BY <1>7, <2>2 DEF Iterate
    <3>2. list \in Lists /\ position \in {1, 2}
      BY <1>7 DEF Iterate, LifecycleInv, ReceiptInv, Busy
    <3>3. Len(cbs[list]) \in {0, 1}
      BY <3>2, OneCallback DEF LifecycleInv
    <3>4. position = 1
      <4>1. ASSUME NEW p \in {1, 2}, NEW n \in {0, 1}, p <= n PROVE p = 1
        BY <4>1
      <4> QED  BY <3>1, <3>2, <3>3, <4>1
    <3> QED  BY <1>1, <1>7, <3>1, <3>4 DEF Iterate
  <2> QED  BY <2>1, <2>2
<1>8. CASE CallBack
  <2>1. position' = 2  BY <1>8 DEF CallBack, LifecycleInv, ReceiptInv
  <2> QED  BY <1>1, <1>8, <2>1 DEF CallBack
<1> QED  BY <1>1, <1>2, <1>3, <1>4, <1>5, <1>6, <1>7, <1>8 DEF WorkerStep

\* Nobody else moves the worker.
LEMMA OthersKeepWorker ==
    ASSUME [Next]_vars, ~WorkerStep
    PROVE  UNCHANGED << worker, position, sent >>
<1>1. CASE MainStep
  BY <1>1 DEF MainStep, Closing, RegisterHandle, Start, Leave, performTerminate, Join, Finalise,
     EmptyQueue, PushJoin, JoinWorker, aside, receipt
<1>2. ASSUME NEW m \in Machines, MachineStep(m) PROVE UNCHANGED << worker, position, sent >>
  BY <1>2 DEF MachineStep, Ending, Register, SeeTermination, Depart, Unregister, Send, bystanders, receipt
<1>3. CASE UNCHANGED vars  BY <1>3 DEF vars, history
<1> QED  BY <1>1, <1>2, <1>3 DEF Next

\* Only the main thread moves itself.
LEMMA OnlyMain ==
    ASSUME [Next]_vars, ~MainStep
    PROVE  UNCHANGED << main, index, doTerminate >>
<1>1. CASE WorkerStep
  BY <1>1 DEF WorkerStep, Open, PopFrame, PopJoin, PopNothing, ReceiveNothing, Receive, LookUp,
     TestCallbacks, Iterate, CallBack, Return, others
<1>2. ASSUME NEW m \in Machines, MachineStep(m) PROVE UNCHANGED << main, index, doTerminate >>
  BY <1>2 DEF MachineStep, Ending, Register, SeeTermination, Depart, Unregister, Send, bystanders
<1>3. CASE UNCHANGED vars  BY <1>3 DEF vars
<1> QED  BY <1>1, <1>2, <1>3 DEF Next

-----------------------------------------------------------------------------
(* What the ways to the end go along.                                      *)

\* __exit__ tells the machines to end one by one; only JOIN, the last in the queue, ends the
\* worker.
ExitInv ==
    /\ main = "serving" => index = 1
    /\ main = "terminate" => \A i \in 1 .. 4 : i < index => Order[i] \in doTerminate
    /\ main = "joining" => doTerminate = Machines
    /\ worker = "ended" => Joined
    /\ main = "joinworker" => queue = << JOIN >> \/ WorkerOver

LiveInv == LifecycleInv /\ QueueInv /\ ExitInv

LEMMA ExitStep == LifecycleInv /\ QueueInv /\ ExitInv /\ [Next]_vars => ExitInv'
<1> SUFFICES ASSUME LifecycleInv, QueueInv, ExitInv, [Next]_vars PROVE ExitInv'
  OBVIOUS
<1> USE DEF ExitInv, Joined, WorkerOver
<1>0. TypeOK  BY DEF LifecycleInv
<1>1. CASE MainStep
  <2> USE DEF Goto, aside
  <2>1. CASE RegisterHandle  BY <2>1 DEF RegisterHandle
  <2>2. CASE Start
    <3>1. main' = "serving" => index' = 1  BY <2>2 DEF Start
    <3> QED  BY <2>2, <3>1 DEF Start
  <2>3. CASE Leave
    <3>1. main' = "terminate" => index' = 1  BY <2>3 DEF Leave
    <3> QED  BY <2>3, <3>1 DEF Leave
  <2>4. CASE performTerminate
    <3>1. doTerminate' = doTerminate \cup {Order[index]} /\ worker' = worker
      BY <2>4 DEF performTerminate, Here
    <3>2. /\ main = "terminate" /\ index \in 1 .. 4
          /\ \A i \in 1 .. 4 : i < index => Order[i] \in doTerminate
      BY <1>0, <2>4 DEF performTerminate, TypeOK
    <3>3. CASE index = 4
      <4>1. main' = "joining"  BY <2>4, <3>3, MachineNames DEF performTerminate
      <4>2. \A i \in 1 .. 4 : Order[i] \in doTerminate'  BY <3>1, <3>2, <3>3
      <4>3. Machines \subseteq doTerminate'
        BY <4>2 DEF Order, Machines
      <4>4. doTerminate' \subseteq Machines
        BY <1>0, <3>1, <3>2, MachineNames DEF TypeOK
      <4>5. doTerminate' = Machines  BY <4>3, <4>4
      <4> QED  BY <3>1, <3>2, <4>1, <4>5
    <3>4. CASE index # 4
      <4>1. main' = "terminate" /\ index' = index + 1
        BY <2>4, <3>4, MachineNames DEF performTerminate
      <4> QED  BY <2>4, <3>1, <3>2, <4>1
    <3> QED  BY <3>3, <3>4
  <2>5. CASE Join  BY <2>5 DEF Join
  <2>6. CASE Finalise  BY <2>6 DEF Finalise
  <2>7. CASE EmptyQueue  BY <2>7 DEF EmptyQueue
  <2>8. CASE PushJoin
    <3>1. queue' = Append(<< >>, JOIN)  BY <2>8 DEF PushJoin, QueueInv
    <3>2. queue' = << JOIN >>  BY <3>1
    <3> QED  BY <2>8, <3>2 DEF PushJoin
  <2>9. CASE JoinWorker  BY <2>9 DEF JoinWorker
  <2> QED  BY <1>1, <2>1, <2>2, <2>3, <2>4, <2>5, <2>6, <2>7, <2>8, <2>9 DEF MainStep, Closing
<1>2. ASSUME NEW m \in Machines, MachineStep(m) PROVE ExitInv'
  <2>1. UNCHANGED << main, index, doTerminate, worker >> /\ main \notin Destroyed
    BY <1>0, <1>2, MachineMoves DEF bystanders, LifecycleInv, LifeInv
  <2> QED  BY <2>1 DEF Destroyed
<1>3. CASE WorkerStep
  <2>1. UNCHANGED << main, index, doTerminate >>  BY <1>3, WorkerMoves DEF others
  <2>2. CASE PopFrame
    <3>1. ~Joined  BY <2>2 DEF PopFrame, QueueInv
    <3> QED  BY <2>1, <2>2, <3>1 DEF PopFrame, At
  <2>3. CASE PopJoin
    <3>1. Joined  BY <1>0, <2>3, FrontIsNext DEF PopJoin
    <3> QED  BY <2>1, <2>3, <3>1 DEF PopJoin, At
  <2>4. CASE PopNothing
    <3>1. << >> # << JOIN >>  OBVIOUS
    <3> QED  BY <2>1, <2>4, <3>1 DEF PopNothing, At
  <2>5. CASE worker' # "ended" /\ UNCHANGED queue /\ worker # "pop" /\ ToPop' < ToPop
    <3>1. WorkerOver => ~(ToPop' < ToPop)
      BY <1>0 DEF ToPop, TypeOK
    <3> QED  BY <2>1, <2>5, <3>1
  <2> QED  BY <1>3, <2>2, <2>3, <2>4, <2>5, WorkerMoves
<1>4. CASE UNCHANGED vars  BY <1>4 DEF vars
<1> QED  BY <1>1, <1>2, <1>3, <1>4 DEF Next

\* The invariants together, for every behaviour.
LEMMA LiveInvariant == Spec => []LiveInv
<1>1. Init => ExitInv
  BY DEF Init, ExitInv
<1>2. LifecycleInv /\ QueueInv /\ [Next]_vars => QueueInv'
  BY QueueStep DEF LifecycleInv
<1> QED  BY Lifecycle, QueueInit, ExitStep, <1>1, <1>2, PTL DEF Spec, LiveInv

-----------------------------------------------------------------------------
(* The exit.                                                               *)

InQueue == Len(queue)
Fewer == <<InQueue' < InQueue>>_InQueue
More == <<InQueue' > InQueue>>_InQueue

\* The steps of the main thread to its end, from __exit__ on, but for the frames it takes from
\* the queue
ToGone ==
    CASE main = "gone" -> 0 [] main = "joinworker" -> 1 [] main = "pushjoin" -> 2
      [] main = "emptying" -> 3 [] main = "waiting" -> 4 [] main = "joining" -> 5
      [] OTHER -> 10 - index

Leaving(n) ==
    /\ main \notin {"register", "start", "serving"}
    /\ main # "terminate" => doTerminate = Machines
    /\ ToGone <= n

\* The steps of m to its end, at most, once it is told to end
ToDead(m) ==
    CASE machine[m] = "started" -> 4 [] machine[m] = "running" -> 3 [] machine[m] = "departing" -> 2
      [] machine[m] = "unregister" -> 1 [] OTHER -> 0

Dying(m, n) == ToDead(m) <= n

LEMMA MainMoves ==
    ASSUME LiveInv, NEW n \in Nat, Leaving(n), MainStep
    PROVE  /\ Leaving(n)'
           /\ \/ ToGone' < ToGone
              \/ main = "emptying" /\ main' = main /\ Len(queue') < Len(queue)
           /\ machine' = machine
           /\ Len(queue') > Len(queue) => ToGone' < ToGone
<1>0. TypeOK /\ index \in 1 .. 4 /\ InQueue \in Nat /\ main \notin {"register", "start", "serving"}
  BY LenProperties DEF LiveInv, LifecycleInv, TypeOK, InQueue, Leaving
<1> USE DEF Leaving, ToGone, Goto
<1>1. CASE performTerminate
  <2>1. main = "terminate" /\ UNCHANGED << machine, queue >>
    BY <1>1 DEF performTerminate, aside
  <2>2. \/ index = 4 /\ main' = "joining"
        \/ index # 4 /\ main' = main /\ index' = index + 1
    BY <1>1, MachineNames DEF performTerminate
  <2>3. main' = "joining" => doTerminate' = Machines
    <3>1. [Next]_vars  BY <1>1 DEF Next, MainStep, Closing
    <3>2. ExitInv'  BY <3>1, ExitStep DEF LiveInv
    <3> QED  BY <3>2 DEF ExitInv
  <2> QED  BY <1>0, <2>1, <2>2, <2>3
<1>2. CASE Join  BY <1>0, <1>2 DEF Join, aside
<1>3. CASE Finalise  BY <1>0, <1>3 DEF Finalise, aside
<1>4. CASE EmptyQueue
  <2>1. UNCHANGED << machine, doTerminate >>  BY <1>4 DEF EmptyQueue, aside
  <2>2. CASE queue # << >>
    <3>1. main = "emptying" /\ main' = main /\ queue' = Tail(queue)
      BY <1>4, <2>2 DEF EmptyQueue
    <3>2. Len(queue') = Len(queue) - 1
      BY <2>2, <3>1, FrontIsNext DEF LiveInv, LifecycleInv, Joined
    <3>3. Len(queue') < Len(queue) /\ ~(Len(queue') > Len(queue))
      BY <1>0, <3>2 DEF InQueue
    <3> QED  BY <2>1, <3>1, <3>3
  <2>3. CASE queue = << >>
    <3>1. main = "emptying" /\ main' = "pushjoin" /\ queue' = queue
      BY <1>4, <2>3 DEF EmptyQueue
    <3> QED  BY <1>0, <2>1, <3>1 DEF InQueue
  <2> QED  BY <2>2, <2>3
<1>5. CASE PushJoin  BY <1>0, <1>5 DEF PushJoin, aside
<1>6. CASE JoinWorker  BY <1>0, <1>6 DEF JoinWorker, aside
<1>7. ~RegisterHandle /\ ~Start /\ ~Leave
  BY <1>0 DEF RegisterHandle, Start, Leave
<1> QED  BY <1>1, <1>2, <1>3, <1>4, <1>5, <1>6, <1>7 DEF MainStep, Closing

\* Once there is no machine left the queue only grows by JOIN.
LEMMA QueueFalls ==
    ASSUME LiveInv, main \in Destroyed, [Next]_vars, ~MainStep
    PROVE  ~(Len(queue') > Len(queue))
<1>0. TypeOK /\ Len(queue) \in Nat
  BY LenProperties DEF LiveInv, LifecycleInv, TypeOK
<1>1. ASSUME NEW m \in Machines, MachineStep(m) PROVE FALSE
  BY <1>0, <1>1, MachineMoves DEF LiveInv, LifecycleInv, LifeInv
<1>2. CASE WorkerStep
  <2>1. queue # << >> => Len(Tail(queue)) = Len(queue) - 1
    BY <1>0, HeadTailProperties DEF TypeOK
  <2>2. UNCHANGED queue \/ (queue # << >> /\ queue' = Tail(queue))
    BY <1>2, WorkerMoves DEF LiveInv, PopFrame, PopJoin, PopNothing
  <2>3. CASE UNCHANGED queue  BY <1>0, <2>3
  <2>4. CASE queue # << >> /\ queue' = Tail(queue)  BY <1>0, <2>1, <2>4
  <2> QED  BY <2>2, <2>3, <2>4
<1>3. CASE UNCHANGED vars  BY <1>0, <1>3 DEF vars
<1> QED  BY <1>1, <1>2, <1>3 DEF Next

\* What the steps of n are worth: they are not taken back, and one of the main thread leaves m
\* or takes a frame from the queue, to which nothing more is added.
Leaves(m, n) ==
    /\ LiveInv /\ Leaving(n) /\ [Next]_vars => Leaving(n)'
    /\ LiveInv /\ Leaving(n) /\ main \in Destroyed /\ [Next]_vars => ~More \/ Leaving(m)'
    /\ LiveInv /\ Leaving(n) /\ <<Closing>>_vars => Leaving(m)' \/ (main = "emptying" /\ Fewer)

LEMMA LeaveSteps == \A n \in Nat : Leaves(n, n + 1)
<1> SUFFICES ASSUME NEW n \in Nat, LiveInv, Leaving(n + 1), [Next]_vars
             PROVE  /\ Leaving(n + 1)'
                    /\ main \in Destroyed => ~More \/ Leaving(n)'
                    /\ Closing => Leaving(n)' \/ (main = "emptying" /\ Fewer)
  <2>1. Closing => Next  BY DEF Next, MainStep
  <2> QED  BY Zenon, <2>1 DEF Leaves
<1>1. TypeOK /\ TypeOK'
  <2>1. LifecycleInv'  BY LifecycleStep DEF LiveInv
  <2> QED  BY <2>1 DEF LiveInv, LifecycleInv
<1>2. ToGone \in Nat /\ ToGone' \in Nat /\ ToGone <= n + 1
  <2>1. index \in 1 .. 4 /\ index' \in 1 .. 4  BY <1>1 DEF TypeOK
  <2>2. ToGone \in Nat /\ ToGone' \in Nat  BY <2>1 DEF ToGone
  <2> QED  BY <2>2 DEF Leaving
<1>3. InQueue \in Nat /\ InQueue' \in Nat
  BY <1>1, LenProperties DEF TypeOK, InQueue
<1>4. CASE MainStep
  <2>1. /\ Leaving(n + 1)'
        /\ \/ ToGone' < ToGone
           \/ main = "emptying" /\ main' = main /\ Len(queue') < Len(queue)
        /\ Len(queue') > Len(queue) => ToGone' < ToGone
    BY <1>4, MainMoves
  <2>2. ToGone' < ToGone => Leaving(n)'
    BY <1>2, <2>1 DEF Leaving
  <2>3. Len(queue') < Len(queue) => Fewer
    BY <1>3 DEF InQueue, Fewer
  <2>4. More => Len(queue') > Len(queue)
    BY DEF InQueue, More
  <2> QED  BY Zenon, <2>1, <2>2, <2>3, <2>4
<1>5. CASE ~MainStep
  <2>1. UNCHANGED << main, index, doTerminate >>  BY <1>5, OnlyMain
  <2>2. Leaving(n + 1)'  BY <2>1 DEF Leaving, ToGone
  <2>3. main \in Destroyed => ~More  BY <1>5, QueueFalls DEF More, InQueue
  <2> QED  BY <1>5, <2>2, <2>3 DEF MainStep
<1> QED  BY <1>4, <1>5

\* What the steps of b are worth: none are taken back, and one of m leaves a.
Dies(m, a, b) ==
    /\ LiveInv /\ Leaving(5) /\ Dying(m, a) /\ [Next]_vars => Dying(m, a)'
    /\ LiveInv /\ Leaving(5) /\ Dying(m, b) /\ <<Ending(m)>>_vars => Dying(m, a)'

LEMMA DieSteps == \A m \in Machines : \A n \in Nat : Dies(m, n, n + 1)
<1> SUFFICES ASSUME NEW m \in Machines, NEW n \in Nat, LiveInv, Leaving(5), [Next]_vars
             PROVE  /\ Dying(m, n) => Dying(m, n)'
                    /\ Ending(m) /\ Dying(m, n + 1) => Dying(m, n)'
  <2>1. \A k \in Machines : Ending(k) => Next  BY DEF Next, MachineStep
  <2> QED  BY Zenon, <2>1 DEF Dies
<1>1. TypeOK /\ LifeInv  BY DEF LiveInv, LifecycleInv
<1>2. ToDead(m) \in Nat /\ ToDead(m)' \in Nat  BY DEF ToDead
<1>3. Ending(m) => ToDead(m)' < ToDead(m)
  <2>1. ASSUME Register(m) PROVE ToDead(m)' < ToDead(m)
    BY <1>1, <2>1 DEF Register, Advance, TypeOK, ToDead
  <2>2. ASSUME SeeTermination(m) PROVE ToDead(m)' < ToDead(m)
    BY <1>1, <2>2 DEF SeeTermination, Advance, TypeOK, ToDead
  <2>3. ASSUME Depart(m) PROVE ToDead(m)' < ToDead(m)
    BY <1>1, <2>3 DEF Depart, Advance, TypeOK, ToDead
  <2>4. ASSUME Unregister(m) PROVE ToDead(m)' < ToDead(m)
    BY <1>1, <2>4 DEF Unregister, Advance, TypeOK, ToDead
  <2> QED  BY <2>1, <2>2, <2>3, <2>4 DEF Ending
<1>4. ~Ending(m) => machine'[m] = machine[m]
  <2>1. CASE MainStep  BY <2>1, MainMoves
  <2>2. CASE WorkerStep  BY <2>2, WorkerMoves DEF others, LiveInv
  <2>3. ASSUME NEW k \in Machines \ {m}, MachineStep(k) PROVE machine'[m] = machine[m]
    BY <1>1, <2>3, MachineMoves
  <2>4. CASE Send(m)  BY <2>4 DEF Send
  <2>5. CASE UNCHANGED vars  BY <2>5 DEF vars
  <2> QED  BY <2>1, <2>2, <2>3, <2>4, <2>5 DEF Next, MachineStep
<1>5. machine'[m] = machine[m] => ToDead(m)' = ToDead(m)  BY DEF ToDead
<1> QED  BY <1>2, <1>3, <1>4, <1>5 DEF Dying

Perishes(m) == [](Leaving(5) => <>[]~is_alive(m))

\* A machine that is told to end is dead some time.
LEMMA DiesOut ==
    ASSUME NEW m \in Machines
    PROVE  FairSpec /\ CanStep => Perishes(m)
<1>1. Dies(m, 0, 1) /\ Dies(m, 1, 2) /\ Dies(m, 2, 3) /\ Dies(m, 3, 4)
  BY DieSteps
<1>2. Dying(m, 4)
  BY DEF Dying, ToDead
<1>3. LiveInv /\ Dying(m, 0) => ~is_alive(m)
  BY DEF LiveInv, LifecycleInv, TypeOK, Dying, ToDead, is_alive
<1>4. LiveInv /\ Leaving(5) /\ MachineWaits(m) => Dying(m, 0)
  <2>1. LiveInv /\ Leaving(5) => doTerminate = Machines
    BY DEF Leaving, ToGone, LiveInv, LifecycleInv, TypeOK
  <2> QED  BY <2>1 DEF MachineWaits, Dying, ToDead
<1>5. LiveInv /\ Leaving(5) /\ [Next]_vars => Leaving(5)'
  BY LeaveSteps DEF Leaves
<1>6. MachinesFair => MachineFair(m)
  BY DEF MachinesFair
<1>7. MachinesCanStep => MachineCanStep(m)
  BY DEF MachinesCanStep
<1> QED
  BY <1>1, <1>2, <1>3, <1>4, <1>5, <1>6, <1>7, LiveInvariant, PTL
     DEF Dies, FairSpec, Spec, CanStep, MachineCanStep, Perishes

\* All four are, and stay so.
LEMMA AllDie == FairSpec /\ CanStep => [](Leaving(5) => <>[]Rest)
<1>0. /\ "interface" \in Machines /\ "advertising" \in Machines /\ "acmp" \in Machines
      /\ "aem" \in Machines
  BY DEF Machines
<1>1. FairSpec /\ CanStep => Perishes("interface")  BY <1>0, DiesOut
<1>2. FairSpec /\ CanStep => Perishes("advertising")  BY <1>0, DiesOut
<1>3. FairSpec /\ CanStep => Perishes("acmp")  BY <1>0, DiesOut
<1>4. FairSpec /\ CanStep => Perishes("aem")  BY <1>0, DiesOut
<1>5. ~is_alive("interface") /\ ~is_alive("advertising") /\ ~is_alive("acmp") /\ ~is_alive("aem") => Rest
  BY DEF Rest, Machines
<1> QED  BY <1>1, <1>2, <1>3, <1>4, <1>5, PTL DEF Perishes

Near(n) == ToPop <= n

\* JOIN is in the queue: no step of the worker leads away from its end.
Nears(a, b) ==
    /\ LiveInv /\ main = "joinworker" /\ Near(a) /\ [Next]_vars => Near(a)'
    /\ LiveInv /\ main = "joinworker" /\ Near(b) /\ <<WorkerStep>>_vars => Near(a)'

LEMMA NearSteps == \A n \in Nat : Nears(n, n + 1)
<1> SUFFICES ASSUME NEW n \in Nat, LiveInv, main = "joinworker", [Next]_vars
             PROVE  /\ Near(n) => Near(n)'
                    /\ WorkerStep /\ Near(n + 1) => Near(n)'
  <2>1. WorkerStep => Next  BY DEF Next
  <2> QED  BY Zenon, <2>1 DEF Nears
<1>1. ToPop \in Nat /\ ToPop' \in Nat  BY DEF ToPop
<1>2. WorkerStep => ToPop' < ToPop
  <2> SUFFICES ASSUME WorkerStep PROVE ToPop' < ToPop
    OBVIOUS
  <2>1. worker = "pop" => queue # << >> /\ Head(queue) = JOIN
    <3>1. worker = "pop" => queue = << JOIN >>
      BY DEF LiveInv, ExitInv, WorkerOver
    <3>2. << JOIN >> # << >> /\ Head(<< JOIN >>) = JOIN  OBVIOUS
    <3> QED  BY <3>1, <3>2
  <2>2. CASE PopJoin  BY <2>2 DEF PopJoin, At, ToPop
  <2> QED  BY <2>1, <2>2, WorkerMoves DEF LiveInv, PopFrame, PopNothing, At
<1>3. ~WorkerStep => ToPop' = ToPop
  BY OthersKeepWorker DEF ToPop
<1> QED  BY <1>1, <1>2, <1>3 DEF Near

\* When the with block is left by an interrupt the process ends, with any number of frames in
\* the queue, and however the four machines, the worker and the destructor take turns.
THEOREM Exits == FairSpec /\ CanStep /\ Descent(InQueue) => ExitCompletes
<1>1. /\ Leaves(0, 1) /\ Leaves(1, 2) /\ Leaves(2, 3) /\ Leaves(3, 4) /\ Leaves(4, 5)
      /\ Leaves(5, 6) /\ Leaves(6, 7) /\ Leaves(7, 8) /\ Leaves(8, 9)
  BY LeaveSteps
<1>2. /\ Nears(0, 1) /\ Nears(1, 2) /\ Nears(2, 3) /\ Nears(3, 4) /\ Nears(4, 5)
      /\ Nears(5, 6) /\ Nears(6, 7) /\ Nears(7, 8)
  BY NearSteps
<1>3. LiveInv => index \in 1 .. 4 /\ InQueue \in Nat
  BY LenProperties DEF LiveInv, LifecycleInv, TypeOK, InQueue
<1>4. LiveInv /\ main = "terminate" => Leaving(9)
  BY <1>3 DEF Leaving, ToGone
<1>5. LiveInv /\ Leaving(0) => main = "gone"
  BY <1>3 DEF Leaving, ToGone
<1>6. LiveInv /\ Leaving(1) => main = "joinworker" \/ main = "gone"
  BY <1>3 DEF Leaving, ToGone
<1>7. LiveInv /\ Leaving(3) => main \in Destroyed
  BY <1>3 DEF Leaving, ToGone, Destroyed
<1>8. LiveInv /\ main = "emptying" => ~Leaving(2)
  BY DEF Leaving, ToGone
<1>9. LiveInv /\ Leaving(9) /\ MainWaits =>
        main = "gone" \/ (Leaving(5) /\ ~Rest) \/ (main = "joinworker" /\ ~WorkerOver)
  BY DEF Leaving, ToGone, MainWaits
<1>10. LiveInv /\ main = "joinworker" => ~Leaving(0)
  BY DEF Leaving, ToGone
<1>11. Near(8) /\ (LiveInv => (Near(0) <=> WorkerOver))
  BY DEF Near, ToPop, LiveInv, LifecycleInv, TypeOK, WorkerOver
<1>12. LiveInv /\ Leaving(1) => Leaving(2)
  <2>1. LiveInv => ToGone \in Nat  BY <1>3 DEF ToGone
  <2> QED  BY <2>1 DEF Leaving
<1>13. LiveInv /\ Leaving(9) /\ main = "emptying" => Leaving(3)
  BY DEF Leaving, ToGone
<1>14. LiveInv /\ Leaving(9) /\ main = "joinworker" => Leaving(1) /\ Leaving(5)
  BY DEF Leaving, ToGone
<1> QED
  BY <1>1, <1>2, <1>3, <1>4, <1>5, <1>6, <1>7, <1>8, <1>9, <1>10, <1>11, <1>12, <1>13, <1>14,
     AllDie, LiveInvariant, PTL
     DEF Leaves, Nears, Fewer, More, FairSpec, Spec, CanStep, Descent, ExitCompletes

-----------------------------------------------------------------------------
(* The frames.                                                             *)

\* The frames before n, and n, that have not left the queue
Behind(n) == IF Taken <= n THEN n - Taken ELSE 0
Nearer(n) == <<Behind(n)' < Behind(n)>>_(Behind(n))
Farther(n) == <<Behind(n)' > Behind(n)>>_(Behind(n))

Descends(n) == Descent(Behind(n))
FramesDescend == \A n \in 1 .. MaxFrames + 1 : Descends(n)

\* What has left the queue has been sent or thrown away for good.
LEMMA TakenRises ==
    ASSUME LiveInv, [Next]_vars
    PROVE  /\ Taken \in Nat /\ Taken' \in Nat /\ Taken <= Taken'
           /\ PopFrame => Taken < Taken'
           /\ main \notin Destroyed => emptied' = emptied
           /\ frames <= frames' /\ frames \in Nat /\ frames' \in Nat
<1>1. TypeOK /\ QueueInv /\ QueueInv' /\ TypeOK'
  <2>1. LifecycleInv'  BY LifecycleStep DEF LiveInv
  <2> QED  BY <2>1, QueueStep DEF LiveInv, LifecycleInv
<1>2. \A k \in Nat : /\ Elements(sent) \subseteq Elements(Append(sent, k))
                     /\ k \in Elements(Append(sent, k))
  <2>1. sent \in Seq(Nat)  BY <1>1 DEF TypeOK
  <2> QED  BY <2>1, ElementsOfAppend
<1>3. queue # << >> => Head(queue) \in Nat
  BY <1>1, QueueType DEF TypeOK
<1>4. /\ emptied \subseteq emptied'
      /\ main \notin Destroyed => emptied' = emptied
      /\ Elements(sent) \subseteq Elements(sent')
      /\ frames' = frames \/ frames' = frames + 1
  <2>1. CASE MainStep
    BY <2>1 DEF MainStep, Closing, RegisterHandle, Start, Leave, performTerminate, Join, Finalise,
       EmptyQueue, PushJoin, JoinWorker, aside, Goto, Destroyed
  <2>2. ASSUME NEW m \in Machines, MachineStep(m)
        PROVE  UNCHANGED << emptied, sent >> /\ (frames' = frames \/ frames' = frames + 1)
    BY <2>2 DEF MachineStep, Ending, Register, SeeTermination, Depart, Unregister, Send, bystanders, Push
  <2>3. CASE WorkerStep
    <3>1. UNCHANGED others /\ (PopFrame \/ UNCHANGED sent)
      BY <2>3, WorkerMoves DEF LiveInv, PopJoin, PopNothing
    <3>2. Elements(sent) \subseteq Elements(sent')
      BY <1>2, <1>3, <3>1 DEF PopFrame
    <3> QED  BY <3>1, <3>2 DEF others
  <2>4. CASE UNCHANGED vars  BY <2>4 DEF vars, history
  <2> QED  BY <2>1, <2>2, <2>3, <2>4 DEF Next
<1>5. Taken \in Nat /\ Taken' \in Nat /\ 1 .. Taken \subseteq 1 .. Taken'
  <2>1. Elements(sent)' = Elements(sent')  BY DEF Elements
  <2> QED  BY <1>1, <1>4, <2>1 DEF QueueInv
<1>6. Taken <= Taken'
  <2>1. CASE Taken = 0  BY <1>5, <2>1
  <2>2. CASE Taken # 0
    <3>1. Taken \in 1 .. Taken  BY <1>5, <2>2
    <3> QED  BY <1>5, <3>1
  <2> QED  BY <2>1, <2>2
<1>7. ASSUME PopFrame PROVE Taken < Taken'
  <2>1. ~Joined  BY <1>1, <1>7 DEF PopFrame, QueueInv
  <2>2. queue # << >> /\ sent' = Append(sent, Head(queue))  BY <1>7 DEF PopFrame
  <2>3. Head(queue) = Taken + 1  BY <1>1, <2>1, <2>2, FrontIsNext
  <2>4. Taken + 1 \in Elements(sent')  BY <1>2, <1>3, <2>2, <2>3
  <2>5. Elements(sent)' = Elements(sent')  BY DEF Elements
  <2>6. Taken + 1 \in 1 .. Taken'  BY <1>1, <2>4, <2>5 DEF QueueInv
  <2> QED  BY <1>5, <2>6
<1>8. frames \in Nat /\ frames' \in Nat  BY <1>1 DEF TypeOK
<1> QED  BY <1>4, <1>5, <1>6, <1>7, <1>8

Awaits(n) == n \in Elements(queue) /\ worker # "returned" /\ main \notin Destroyed
Out(n) == n \in Elements(sent) \/ worker = "returned" \/ main \in Destroyed

\* A frame that waits is one of those that have not left the queue.
LEMMA AwaitsWhere ==
    ASSUME LiveInv, NEW n \in Nat \ {0}, Awaits(n)
    PROVE  n \in 1 .. frames /\ n > Taken /\ n \notin emptied /\ ~Joined /\ queue # << >> /\ ~WorkerOver
<1>1. TypeOK /\ QueueInv /\ ~Joined /\ Taken \in Nat /\ Len(queue) \in Nat /\ frames \in Nat
  BY LenProperties DEF LiveInv, LifecycleInv, TypeOK, Awaits, Joined, Destroyed, QueueInv
<1>2. PICK i \in DOMAIN queue : n = queue[i]
  BY DEF Awaits, Elements
<1>3. DOMAIN queue = 1 .. Len(queue)
  BY <1>1, LenProperties DEF TypeOK
<1>4. n = Taken + i /\ i \in 1 .. Len(queue) /\ frames = Taken + Len(queue)
  <2>1. Taken = frames - Len(queue)  BY <1>1 DEF Taken
  <2> QED  BY <1>1, <1>2, <1>3, <2>1 DEF QueueInv
<1>5. n \in 1 .. frames /\ n > Taken
  BY <1>1, <1>4
<1>6. n \notin emptied
  <2>1. emptied \subseteq 1 .. Taken  BY <1>1 DEF QueueInv
  <2> QED  BY <1>1, <1>5, <2>1
<1>7. queue # << >>
  BY <1>2
<1>8. ~WorkerOver
  BY <1>1 DEF LiveInv, ExitInv, Awaits, WorkerOver
<1> QED  BY <1>1, <1>5, <1>6, <1>7, <1>8

AwaitsIn(n, d) == Awaits(n) /\ ToPop <= d

\* What the steps of b are worth for the frame n: it goes on waiting or goes out, and a step of
\* the worker leaves a or takes a frame before n.
Goes(n, a, b) ==
    /\ LiveInv /\ Awaits(n) /\ [Next]_vars => Awaits(n)' \/ Out(n)'
    /\ LiveInv /\ AwaitsIn(n, b) /\ [Next]_vars => AwaitsIn(n, b)' \/ Nearer(n) \/ Out(n)'
    /\ LiveInv /\ AwaitsIn(n, b) /\ <<WorkerStep>>_vars => AwaitsIn(n, a)' \/ Nearer(n) \/ Out(n)'

LEMMA GoSteps == \A n \in Nat \ {0} : \A d \in Nat : Goes(n, d, d + 1)
<1> SUFFICES ASSUME NEW n \in Nat \ {0}, NEW d \in Nat, LiveInv, Awaits(n), [Next]_vars
             PROVE  /\ Awaits(n)' \/ Out(n)'
                    /\ AwaitsIn(n, d + 1) => AwaitsIn(n, d + 1)' \/ Nearer(n) \/ Out(n)'
                    /\ WorkerStep /\ AwaitsIn(n, d + 1) => AwaitsIn(n, d)' \/ Nearer(n) \/ Out(n)'
  <2>1. WorkerStep => Next  BY DEF Next
  <2> QED  BY Zenon, <2>1 DEF Goes, AwaitsIn
<1>1. n \in 1 .. frames /\ n > Taken /\ n \notin emptied /\ ~Joined /\ queue # << >> /\ ~WorkerOver
  BY AwaitsWhere
<1>2. ToPop \in Nat /\ ToPop' \in Nat
  BY DEF ToPop
<1>3. Awaits(n)' \/ Out(n)'
  <2>1. Accounted'
    <3>1. LifecycleInv'  BY LifecycleStep DEF LiveInv
    <3>2. QueueInv'  BY QueueStep DEF LiveInv, LifecycleInv
    <3>3. TypeOK' /\ QueueInv' => Accounted'  BY QueueAccounts, PTL
    <3> QED  BY <3>1, <3>2, <3>3 DEF LifecycleInv
  <2>2. emptied' = emptied /\ n \in 1 .. frames'
    BY <1>1, TakenRises DEF Awaits
  <2>3. n \in Elements(sent)' \cup Elements(queue)' \cup emptied'
    BY <2>1, <2>2 DEF Accounted, Frames
  <2>4. n \in Elements(sent)' \/ n \in Elements(queue)'
    BY <1>1, <2>2, <2>3
  <2> QED  BY <2>4 DEF Awaits, Out
<1>4. WorkerStep => ToPop' < ToPop \/ Nearer(n)
  <2>1. PopFrame => Nearer(n)
    <3>1. \A i, j \in Nat : i < j /\ i < n =>
            (IF j <= n THEN n - j ELSE 0) < (IF i <= n THEN n - i ELSE 0)
      OBVIOUS
    <3>2. Behind(n) \in Nat  BY TakenRises DEF Behind
    <3>3. Behind(n)' < Behind(n) => Behind(n)' # Behind(n)
      BY <3>2
    <3>4. PopFrame => Taken \in Nat /\ Taken' \in Nat /\ Taken < Taken' /\ Taken < n
      BY <1>1, TakenRises
    <3>5. PopFrame => Behind(n)' < Behind(n)
      BY <3>1, <3>4 DEF Behind
    <3> QED  BY <3>3, <3>5 DEF Nearer
  <2>2. ~PopJoin
    BY <1>1, FrontIsNext DEF PopJoin, LiveInv, LifecycleInv
  <2> QED  BY <1>1, <2>1, <2>2, WorkerMoves DEF LiveInv, PopNothing
<1>5. ~WorkerStep => ToPop' = ToPop
  BY OthersKeepWorker DEF ToPop
<1> QED  BY <1>2, <1>3, <1>4, <1>5 DEF AwaitsIn

LEMMA NotFarther == \A n \in Nat : LiveInv /\ [Next]_vars => ~Farther(n)
<1> SUFFICES ASSUME NEW n \in Nat, LiveInv, [Next]_vars PROVE ~(Behind(n)' > Behind(n))
  BY DEF Farther
<1>1. Taken \in Nat /\ Taken' \in Nat /\ Taken <= Taken'
  BY TakenRises
<1>2. \A i, j \in Nat : i <= j =>
        ~((IF j <= n THEN n - j ELSE 0) > (IF i <= n THEN n - i ELSE 0))
  OBVIOUS
<1> QED  BY <1>1, <1>2 DEF Behind

\* A frame in the queue goes out, behind any number of frames, unless there is no socket or the
\* destructor comes first.
THEOREM FramesLeave == FairSpec /\ CanStep /\ FramesDescend => FramesGoOut
<1> SUFFICES ASSUME NEW n \in 1 .. MaxFrames + 1
             PROVE  FairSpec /\ CanStep /\ FramesDescend =>
                      (n \in Elements(queue)
                        ~> n \in Elements(sent) \/ worker = "returned" \/ main \in Destroyed)
  BY DEF FramesGoOut
<1>0. n \in Nat \ {0}
  BY ConstantsAssumption
<1>1. /\ Goes(n, 0, 1) /\ Goes(n, 1, 2) /\ Goes(n, 2, 3) /\ Goes(n, 3, 4) /\ Goes(n, 4, 5)
      /\ Goes(n, 5, 6) /\ Goes(n, 6, 7) /\ Goes(n, 7, 8)
  BY <1>0, GoSteps
<1>2. Awaits(n) => AwaitsIn(n, 8)
  BY DEF AwaitsIn, ToPop
<1>3. LiveInv /\ Awaits(n) => ~AwaitsIn(n, 0) /\ ~WorkerOver
  <2>1. LiveInv /\ Awaits(n) => ~WorkerOver  BY <1>0, AwaitsWhere
  <2>2. LiveInv /\ ToPop <= 0 => WorkerOver
    BY DEF ToPop, LiveInv, LifecycleInv, TypeOK, WorkerOver
  <2> QED  BY <2>1, <2>2 DEF AwaitsIn
<1>4. LiveInv /\ [Next]_vars => ~Farther(n)
  BY <1>0, NotFarther
<1>5. LiveInv => Behind(n) \in Nat
  <2>1. LiveInv => Taken \in Nat  BY DEF LiveInv, QueueInv
  <2> QED  BY <1>0, <2>1 DEF Behind
<1>6. FramesDescend => Descends(n)
  BY DEF FramesDescend
<1>7. /\ n \in Elements(queue) => Awaits(n) \/ Out(n)
      /\ Out(n) <=> n \in Elements(sent) \/ worker = "returned" \/ main \in Destroyed
      /\ AwaitsIn(n, 0) => Awaits(n)
  BY DEF Awaits, Out, AwaitsIn
<1> QED
  BY <1>1, <1>2, <1>3, <1>4, <1>5, <1>6, <1>7, LiveInvariant, PTL
     DEF Goes, Nearer, Farther, Descends, Descent, FairSpec, Spec, CanStep
=============================================================================
