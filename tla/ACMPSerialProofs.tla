-------------------------- MODULE ACMPSerialProofs --------------------------
(***************************************************************************)
(* The listener under SerialSpec implements ACMPSequential, for any number *)
(* of messages and whatever the clock is.                                  *)
(***************************************************************************)
EXTENDS ACMPListenerSerial, ACMPListenerProofs

Newest == arrived[Len(arrived)]

FlagsClear == \A t \in FlagTypes : ~flags[t]

\* While the thread is between two messages: the one message that may be queued is
\* the newest, and only its flag may be set, which it is once acmp_cb has set it.
WaitingInv ==
    /\ queue = << >> => cb = "idle" /\ FlagsClear
    /\ queue # << >> =>
         /\ Len(queue) = 1 /\ arrived # << >> /\ queue[1] = Newest
         /\ \A t \in FlagTypes : flags[t] => t = Newest.type
         /\ cb # "idle" => pc = "wait" /\ cbType = Newest.type
         /\ cb = "flag" => cbType \in FlagTypes
         /\ cb # "flag" /\ Newest.type \in FlagTypes => flags[Newest.type]

\* While it handles one: cmd is the newest message, as it was received, as long as its
\* flag is set, and the check of that flag is still to come.
ServingInv ==
    /\ queue = << >> /\ cb = "idle"
    /\ \A t \in FlagTypes : flags[t] =>
         /\ cmd # NoCmd /\ arrived # << >> /\ cmd = Newest /\ cmd.type = t
         /\ pc = "check" => \E i \in k .. 5 : CheckOrder[i] = t

\* No entry in flight has a message type that a timeout handler takes: it has that of
\* the command it was made for.
Harmless(list) ==
    \A i \in 1 .. Len(list) :
        list[i].command.type \notin {CONNECT_TX_COMMAND, DISCONNECT_TX_COMMAND}

SerialInv ==
    /\ TypeOK
    /\ retried = << >>
    /\ Harmless(inflight)
    /\ pc \notin {"reset", "check"} => k = 1
    /\ pc = "reset" => queue = << >> /\ cb = "idle"
                       /\ \A i \in 1 .. k - 1 : ~flags[ResetOrder[i]]
    /\ pc = "empty" => queue = << >> /\ cb = "idle" /\ FlagsClear
    /\ pc \in {"wait", "clear", "terminate", "get", "stopped"} => WaitingInv
    /\ pc \in {"expire", "check"} => ServingInv

-----------------------------------------------------------------------------
(* Facts used by several steps.                                            *)

LEMMA Orders ==
    /\ \A t \in FlagTypes : \E i \in 1 .. 5 : ResetOrder[i] = t
    /\ \A i, j \in 1 .. 5 : CheckOrder[i] = CheckOrder[j] => i = j
    /\ CheckOrder[5] = DISCONNECT_TX_RESPONSE
  BY DEF CheckOrder, ResetOrder, FlagTypes, CONNECT_RX_COMMAND, CONNECT_TX_RESPONSE,
         GET_RX_STATE_COMMAND, DISCONNECT_RX_COMMAND, DISCONNECT_TX_RESPONSE

LEMMA SerialIsNext == SerialNext => Next
  BY DEF SerialNext, Next

LEMMA SerialType == SerialInv /\ [SerialNext]_vars => TypeOK'
  BY SerialIsNext, TypeNext DEF SerialInv

LEMMA HarmlessTail ==
    ASSUME NEW list \in Seq(Inflight), list # << >>, Harmless(list)
    PROVE  /\ Harmless(Tail(list))
           /\ Head(list).command.type \notin {CONNECT_TX_COMMAND, DISCONNECT_TX_COMMAND}
  <1>1. Len(list) \in Nat \ {0} /\ Head(list) = list[1]
    BY EmptySeq
  <1>2. /\ Len(Tail(list)) = Len(list) - 1
        /\ \A i \in 1 .. Len(Tail(list)) : Tail(list)[i] = list[i + 1]
    BY HeadTailProperties
  <1> QED
    BY <1>1, <1>2 DEF Harmless

LEMMA HarmlessCancel ==
    ASSUME NEW list \in Seq(Inflight), Harmless(list), NEW c
    PROVE  Harmless(cancelAndRemove(list, c))
  <1> DEFINE i == findMatchingInflightIndex(list, c)
  <1>1. CASE i = 0
    BY <1>1 DEF cancelAndRemove
  <1>2. CASE i # 0
    <2>1. i \in 1 .. Len(list)
      BY <1>2, FindRange
    <2>2. cancelAndRemove(list, c) = RemoveAt(list, i)
      BY <1>2 DEF cancelAndRemove
    <2> HIDE DEF i
    <2>3. /\ Len(RemoveAt(list, i)) = Len(list) - 1
          /\ \A j \in 1 .. Len(list) - 1 :
               RemoveAt(list, i)[j] = list[j] \/ RemoveAt(list, i)[j] = list[j + 1]
      BY <2>1, RemoveAtShape
    <2> QED
      BY <2>2, <2>3 DEF Harmless
  <1> QED
    BY <1>1, <1>2

\* The entry of a command the listener serves has the type of that command.
LEMMA HarmlessCommand ==
    ASSUME SerialInv, cmd # NoCmd, cmd.type \in {CONNECT_RX_COMMAND, DISCONNECT_RX_COMMAND},
           NEW type \in MessageTypes, NEW ms \in Nat, txNewCommand(type, ms)
    PROVE  Harmless(inflight')
  <1> DEFINE e == [timeout |-> Expiry(ms), retried |-> FALSE, command |-> cmd,
                   original_sequence_id |-> cmd.seq]
  <1>1. cmd \in Message /\ cmd.seq \in Nat
    BY DEF SerialInv, TypeOK, OwnMessage, Message
  <1>2. e \in Inflight /\ e.command = cmd
    BY <1>1, ExpiryRange DEF SerialInv, TypeOK, Inflight
  <1>3. inflight' = Append(inflight, e)
    BY DEF txNewCommand
  <1>4. cmd.type \notin {CONNECT_TX_COMMAND, DISCONNECT_TX_COMMAND}
    BY DEF CONNECT_RX_COMMAND, DISCONNECT_RX_COMMAND, CONNECT_TX_COMMAND,
           DISCONNECT_TX_COMMAND
  <1> HIDE DEF e
  <1>5. /\ inflight \in Seq(Inflight) /\ Len(inflight') = Len(inflight) + 1
        /\ \A i \in 1 .. Len(inflight) + 1 :
             inflight'[i] = IF i <= Len(inflight) THEN inflight[i] ELSE e
    BY <1>2, <1>3 DEF SerialInv, TypeOK
  <1> QED
    BY <1>2, <1>4, <1>5 DEF SerialInv, Harmless

-----------------------------------------------------------------------------
(* Steps that serve nothing.                                               *)

ServiceVars == << arrived, Served, infos, wire >>

\* A message arrives while the thread waits with an empty queue.
LEMMA ArrivalStep ==
    ASSUME SerialInv, pc = "wait", queue = << >>, Len(arrived) < Len(Arrivals),
           NEW m \in Incoming(Len(arrived) + 1), PutMessage(m), TypeOK'
    PROVE  SerialInv' /\ Promise!Next
  <1>1. /\ arrived \in Seq(Message) /\ m \in Message /\ m.lid = MyId
        /\ arrived' = Append(arrived, m) /\ queue' = << m >>
    <2>1. Len(arrived) + 1 \in 1 .. Len(Arrivals)
      BY ConstantsAssumption DEF SerialInv, TypeOK
    <2>2. m \in Message
      BY <2>1, IncomingMessage
    <2>3. Append(queue, m) = << m >>
      OBVIOUS
    <2> QED
      BY <2>2, <2>3 DEF PutMessage, SerialInv, TypeOK
  <1>2. /\ Len(arrived') = Len(arrived) + 1 /\ arrived'[Len(arrived')] = m
        /\ arrived' # << >> /\ arrived = SubSeq(arrived', 1, Len(arrived))
    BY <1>1, AppendProperties
  <1>3. Len(queue) = 0 /\ Len(queue') = 1 /\ queue'[1] = m /\ queue' # << >>
    BY <1>1
  <1>4. /\ UNCHANGED << flags, pc, k, infos, inflight, retried, wire >>
        /\ cbType' = m.type /\ cb' = IF m.type \in FlagTypes THEN "flag" ELSE "signal"
    BY DEF PutMessage, local
  <1>5. FlagsClear
    BY DEF SerialInv, WaitingInv
  <1>6. WaitingInv'
    BY <1>2, <1>3, <1>4, <1>5 DEF WaitingInv, Newest, FlagsClear
  <1>7. SerialInv'
    BY <1>4, <1>6 DEF SerialInv, Harmless
  <1>8. Served' = Served
    BY <1>2, <1>3, <1>4 DEF Served, InService, SerialInv, TypeOK
  <1>9. Promise!Receive
    BY <1>1, <1>2, <1>4, <1>8 DEF Promise!Receive
  <1> QED
    BY <1>7, <1>9 DEF Promise!Next

\* acmp_cb sets the flag and the event, the main thread asks for the end, time passes.
LEMMA OutsideStep ==
    ASSUME SerialInv, TypeOK',
           SetFlag \/ SignalEvent \/ performTerminate \/ \E d \in TimeSteps : Tick(d)
    PROVE  SerialInv' /\ UNCHANGED ServiceVars
  <1> USE DEF shared, local, network
  <1>1. ASSUME UNCHANGED << queue, flags, infos, inflight, retried, cmd, pc, k, cb, cbType,
                            arrived, wire >>
        PROVE  SerialInv' /\ UNCHANGED ServiceVars
    BY <1>1 DEF SerialInv, WaitingInv, ServingInv, FlagsClear, Newest, Harmless,
                ServiceVars, Served, InService
  <1>2. CASE performTerminate \/ \E d \in TimeSteps : Tick(d)
    BY <1>1, <1>2 DEF performTerminate, PerformTerminate, SignalTerminate, Tick
  <1>3. CASE SetFlag \/ SignalEvent
    <2>1. /\ cb # "idle" /\ UNCHANGED << queue, infos, inflight, retried, cmd, pc, k, cbType,
                                         arrived, wire >>
          /\ \/ cb = "flag" /\ flags' = [flags EXCEPT ![cbType] = TRUE] /\ cb' = "signal"
             \/ cb = "signal" /\ flags' = flags /\ cb' = "idle"
      BY <1>3 DEF SetFlag, SignalEvent
    <2>2. pc = "wait" /\ queue # << >> /\ cbType = Newest.type /\ k = 1
      BY <2>1 DEF SerialInv, WaitingInv, ServingInv, TypeOK
    <2>3. flags \in [FlagTypes -> BOOLEAN] /\ Newest' = Newest
      BY <2>1 DEF SerialInv, TypeOK, Newest
    <2>4. WaitingInv'
      BY <2>1, <2>2, <2>3 DEF SerialInv, WaitingInv
    <2>5. SerialInv'
      BY <2>1, <2>2, <2>4 DEF SerialInv, Harmless
    <2> QED
      BY <2>1, <2>2, <2>5 DEF ServiceVars, Served, InService
  <1> QED
    BY <1>2, <1>3

\* The top of the loop, up to get_nowait.
LEMMA LoopStep ==
    ASSUME SerialInv, TypeOK', cb = "idle",
           ResetFlag \/ CheckEmpty \/ WaitReturns \/ ClearEvent \/ CheckTerminate
    PROVE  SerialInv' /\ UNCHANGED ServiceVars
  <1> USE DEF shared, local, network
  <1>1. CASE ResetFlag
    <2>1. /\ pc = "reset" /\ flags' = [flags EXCEPT ![ResetOrder[k]] = FALSE]
          /\ UNCHANGED << queue, infos, inflight, retried, cmd, cb, arrived, wire >>
          /\ IF k < 5 THEN k' = k + 1 /\ pc' = pc ELSE k' = 1 /\ pc' = "empty"
      BY <1>1 DEF ResetFlag
    <2>2. /\ flags \in [FlagTypes -> BOOLEAN] /\ k \in 1 .. 5 /\ queue = << >>
          /\ \A i \in 1 .. k - 1 : ~flags[ResetOrder[i]]
          /\ \A i \in 1 .. 5 : ResetOrder[i] \in FlagTypes
      BY <2>1, CheckOrderFlags DEF SerialInv, TypeOK
    <2>3. \A i \in 1 .. k : ~flags'[ResetOrder[i]]
      BY <2>1, <2>2
    <2>4. k = 5 => FlagsClear'
      BY <2>3, Orders DEF FlagsClear
    <2>5. SerialInv'
      BY <2>1, <2>2, <2>3, <2>4 DEF SerialInv, Harmless
    <2>6. ~InService /\ ~InService'
      BY <2>1 DEF InService
    <2> QED
      BY <2>1, <2>5, <2>6 DEF ServiceVars, Served
  <1>2. CASE CheckEmpty \/ WaitReturns \/ ClearEvent \/ CheckTerminate
    <2>1. /\ pc \in {"empty", "wait", "clear", "terminate"}
          /\ pc' \in {"wait", "clear", "terminate", "get", "stopped"}
          /\ UNCHANGED << queue, flags, infos, inflight, retried, cmd, k, cb, cbType,
                          arrived, wire >>
      BY <1>2 DEF CheckEmpty, WaitReturns, ClearEvent, CheckTerminate
    <2>2. k = 1 /\ WaitingInv
      BY <2>1 DEF SerialInv, WaitingInv
    <2>3. WaitingInv'
      BY <2>1, <2>2 DEF WaitingInv, FlagsClear, Newest
    <2>4. SerialInv'
      BY <2>1, <2>2, <2>3 DEF SerialInv, Harmless
    <2> QED
      BY <2>1, <2>4 DEF ServiceVars, Served, InService
  <1> QED
    BY <1>1, <1>2

\* The expired entries go without a word, there is nothing to put back, and a check
\* whose flag is not set is skipped.
LEMMA PassStep ==
    ASSUME SerialInv, TypeOK',
           DropExpired \/ ReinsertRetried \/ SkipCheck
    PROVE  SerialInv' /\ UNCHANGED ServiceVars
  <1> USE DEF shared, local, network
  <1>1. CASE DropExpired
    <2>1. /\ pc = "expire" /\ inflight # << >> /\ inflight' = Tail(inflight)
          /\ UNCHANGED << queue, flags, infos, retried, cmd, pc, k, cb, arrived, wire >>
      BY <1>1 DEF DropExpired, ExpireNext, HeadExpired
    <2>2. Harmless(inflight')
      BY <2>1, HarmlessTail DEF SerialInv, TypeOK
    <2>3. SerialInv'
      BY <2>1, <2>2 DEF SerialInv, ServingInv, Newest
    <2> QED
      BY <2>1, <2>3 DEF ServiceVars, Served, InService
  <1>2. CASE ReinsertRetried
    <2>1. /\ pc = "expire" /\ pc' = "check" /\ inflight' = retried \o inflight
          /\ UNCHANGED << queue, flags, infos, retried, cmd, k, cb, arrived, wire >>
      BY <1>2 DEF ReinsertRetried
    <2>2. inflight' = inflight
      BY <2>1 DEF SerialInv, TypeOK
    <2>3. k = 1 /\ ServingInv
      BY <2>1 DEF SerialInv
    <2>4. ServingInv'
      <3>1. \A t \in FlagTypes : \E i \in 1 .. 5 : CheckOrder[i] = t
        BY DEF CheckOrder, FlagTypes
      <3> QED
        BY <2>1, <2>3, <3>1 DEF ServingInv, Newest
    <2>5. SerialInv'
      BY <2>1, <2>2, <2>3, <2>4 DEF SerialInv
    <2> QED
      BY <2>1, <2>5 DEF ServiceVars, Served, InService
  <1>3. CASE SkipCheck
    <2>1. /\ pc = "check"
          /\ ~flags[CheckOrder[k]] \/ (cmd # NoCmd /\ cmd.lid # MyId)
          /\ IF k < 5 THEN k' = k + 1 /\ pc' = pc ELSE k' = 1 /\ pc' = "reset"
          /\ UNCHANGED << queue, flags, infos, inflight, retried, cmd, cb, arrived, wire >>
      BY <1>3 DEF SkipCheck, Advance
    <2>2. ServingInv /\ k \in 1 .. 5 /\ (cmd # NoCmd => cmd.lid = MyId)
      BY <2>1 DEF SerialInv, TypeOK, OwnMessage
    <2>3. ~flags[CheckOrder[k]]
      BY <2>1, <2>2
    <2>4. \A t \in FlagTypes : flags[t] => \E i \in k + 1 .. 5 : CheckOrder[i] = t
      <3> SUFFICES ASSUME NEW t \in FlagTypes, flags[t]
                   PROVE  \E i \in k + 1 .. 5 : CheckOrder[i] = t
        OBVIOUS
      <3>1. PICK i \in k .. 5 : CheckOrder[i] = t
        BY <2>1, <2>2 DEF ServingInv
      <3>2. i # k
        BY <2>3, <3>1
      <3> QED
        BY <2>2, <3>1, <3>2
    <2>5. k = 5 => FlagsClear
      BY <2>2, <2>4 DEF FlagsClear
    <2>6. pc' = "check" => ServingInv'
      BY <2>1, <2>2, <2>4 DEF ServingInv, Newest
    <2>7. pc' = "reset" => queue' = << >> /\ cb' = "idle" /\ k' = 1
      BY <2>1, <2>2 DEF ServingInv
    <2>8. SerialInv'
      BY <2>1, <2>6, <2>7 DEF SerialInv, Harmless
    <2>9. InService' <=> InService
      BY <2>1, <2>2, <2>5 DEF InService, FlagsClear
    <2> QED
      BY <2>1, <2>8, <2>9 DEF ServiceVars, Served
  <1> QED
    BY <1>1, <1>2, <1>3

\* Neither timeout handler runs, and no flag is set before a message was taken.
LEMMA NeverHappens ==
    SerialInv => ~(handleConnectTxTimeout \/ handleDisconnectTxTimeout \/ UnboundCmd)
  <1> SUFFICES ASSUME SerialInv PROVE ~(handleConnectTxTimeout
                                        \/ handleDisconnectTxTimeout \/ UnboundCmd)
    OBVIOUS
  <1>1. ~(handleConnectTxTimeout \/ handleDisconnectTxTimeout)
    <2>1. HeadExpired => Head(inflight).command.type
                           \notin {CONNECT_TX_COMMAND, DISCONNECT_TX_COMMAND}
      BY HarmlessTail DEF SerialInv, TypeOK, HeadExpired
    <2> QED
      BY <2>1 DEF handleConnectTxTimeout, handleDisconnectTxTimeout, ExpireNext
  <1>2. ~UnboundCmd
    <2>1. pc = "check" => CheckOrder[k] \in FlagTypes
      BY CheckOrderFlags DEF SerialInv, TypeOK
    <2> QED
      BY <2>1 DEF UnboundCmd, SerialInv, ServingInv
  <1> QED
    BY <1>1, <1>2

\* get_nowait: a message without a handler has been served when it is taken; any other
\* is in service, unless the queue was empty.
LEMMA GetStep ==
    ASSUME SerialInv, TypeOK', cb = "idle", GetMessage
    PROVE  SerialInv' /\ (Promise!Next \/ UNCHANGED ServiceVars)
  <1>1. /\ pc = "get" /\ pc' = "expire" /\ retried' = << >>
        /\ UNCHANGED << flags, infos, inflight, k, cb, arrived, wire >>
        /\ \/ queue # << >> /\ cmd' = Head(queue) /\ queue' = Tail(queue)
           \/ queue = << >> /\ cmd' = cmd /\ queue' = queue
    BY DEF GetMessage, network
  <1>2. WaitingInv /\ k = 1 /\ flags \in [FlagTypes -> BOOLEAN] /\ queue \in Seq(OwnMessage)
        /\ arrived \in Seq(Message)
    BY <1>1 DEF SerialInv, TypeOK
  <1>3. CASE queue = << >>
    <2>1. FlagsClear /\ FlagsClear'
      BY <1>1, <1>2, <1>3 DEF WaitingInv, FlagsClear
    <2>2. ServingInv'
      BY <1>1, <1>3, <2>1 DEF ServingInv, FlagsClear
    <2>3. SerialInv'
      BY <1>1, <1>2, <2>2 DEF SerialInv, Harmless
    <2> QED
      BY <1>1, <1>3, <2>1, <2>3 DEF ServiceVars, Served, InService, FlagsClear
  <1>4. CASE queue # << >>
    <2>1. /\ Len(queue) = 1 /\ arrived # << >> /\ Head(queue) = Newest
          /\ \A t \in FlagTypes : flags[t] => t = Newest.type
          /\ Newest.type \in FlagTypes => flags[Newest.type]
      BY <1>2, <1>4 DEF WaitingInv
    <2>2. queue' = << >> /\ cmd' = Newest /\ Newest' = Newest
      BY <1>1, <1>2, <1>4, <2>1 DEF Newest
    <2>3. cmd' # NoCmd
      <3>1. Newest \in OwnMessage
        BY <1>2, <1>4, <2>1, HeadTailProperties
      <3> QED
        BY <2>2, <3>1, ConstantsAssumption DEF OwnMessage
    <2>4. ServingInv'
      BY <1>1, <2>1, <2>2, <2>3 DEF ServingInv
    <2>5. SerialInv'
      BY <1>1, <1>2, <2>4 DEF SerialInv, Harmless
    <2>6. ~InService /\ (InService' <=> Newest.type \in FlagTypes)
      BY <1>1, <1>2, <2>1 DEF InService
    <2>7. Len(arrived) \in Nat \ {0} /\ Len(queue') = 0
      BY <1>2, <2>1, <2>2, EmptySeq
    <2>8. CASE Newest.type \in FlagTypes
      <3>1. Served' = Served
        BY <1>1, <2>1, <2>6, <2>7, <2>8 DEF Served
      <3> QED
        BY <1>1, <2>5, <3>1 DEF ServiceVars
    <2>9. CASE Newest.type \notin FlagTypes
      <3>1. Served = Len(arrived) - 1 /\ Served' = Len(arrived)
        BY <1>1, <2>1, <2>6, <2>7, <2>9 DEF Served
      <3>2. arrived[Served + 1] = Newest /\ Served < Len(arrived) /\ Served' = Served + 1
        BY <2>7, <3>1 DEF Newest
      <3>3. Promise!Outcome(Newest)
        BY <1>1, <2>9 DEF Promise!Outcome, Promise!Silent, FlagTypes, Promise!FlagTypes,
           CONNECT_RX_COMMAND, CONNECT_TX_RESPONSE, GET_RX_STATE_COMMAND,
           DISCONNECT_RX_COMMAND, DISCONNECT_TX_RESPONSE,
           Promise!CONNECT_RX_COMMAND, Promise!CONNECT_TX_RESPONSE,
           Promise!GET_RX_STATE_COMMAND, Promise!DISCONNECT_RX_COMMAND,
           Promise!DISCONNECT_TX_RESPONSE
      <3> QED
        BY <1>1, <2>5, <3>2, <3>3 DEF Promise!Next, Promise!Serve
    <2> QED
      BY <2>8, <2>9
  <1> QED
    BY <1>3, <1>4

-----------------------------------------------------------------------------
(* The handlers: each is the step that serves the newest message.          *)

\* What the handler of a message type does apart from its outcome
LEMMA HandlerStep ==
    ASSUME SerialInv, TypeOK', NEW type \in FlagTypes, Handle(type),
           Done(type) \/ Abort \/ (Advance /\ UNCHANGED flags /\ type = DISCONNECT_TX_RESPONSE),
           Harmless(inflight')
    PROVE  /\ SerialInv' /\ UNCHANGED arrived
           /\ Served < Len(arrived) /\ Served' = Served + 1
           /\ cmd = arrived[Served + 1] /\ cmd.type = type
  <1>1. /\ pc = "check" /\ CheckOrder[k] = type /\ flags[type] /\ k \in 1 .. 5
        /\ flags \in [FlagTypes -> BOOLEAN] /\ arrived \in Seq(Message)
        /\ UNCHANGED << queue, retried, cb, arrived >>
    BY DEF Handle, SerialInv, TypeOK, network
  <1>2. ServingInv
    BY <1>1 DEF SerialInv
  <1>3. /\ cmd = Newest /\ cmd.type = type /\ arrived # << >> /\ queue = << >> /\ cb = "idle"
        /\ \A t \in FlagTypes : flags[t] => t = type
    BY <1>1, <1>2 DEF ServingInv
  <1>4. \/ /\ \A t \in FlagTypes : ~flags'[t]
           /\ pc' \in {"check", "reset"} /\ (pc' = "reset" => k' = 1)
        \/ pc' = "reset" /\ k' = 1
    <2>1. CASE Done(type)
      BY <1>1, <1>3, <2>1 DEF Done, Advance
    <2>2. CASE Abort
      BY <2>2 DEF Abort
    <2>3. CASE Advance /\ type = DISCONNECT_TX_RESPONSE
      <3>1. k = 5
        BY <1>1, <2>3, Orders
      <3> QED
        BY <2>3, <3>1 DEF Advance
    <2> QED
      BY <2>1, <2>2, <2>3
  <1>5. pc' = "check" => ServingInv'
    BY <1>1, <1>3, <1>4 DEF ServingInv
  <1>6. SerialInv'
    BY <1>1, <1>3, <1>4, <1>5 DEF SerialInv
  <1>7. InService /\ ~InService'
    BY <1>1, <1>4 DEF InService
  <1>8. Len(arrived) \in Nat \ {0} /\ Len(queue) = 0
    BY <1>1, <1>3, EmptySeq
  <1>9. Served = Len(arrived) - 1 /\ Served' = Len(arrived)
    BY <1>1, <1>7, <1>8 DEF Served
  <1> QED
    BY <1>1, <1>3, <1>6, <1>8, <1>9 DEF Newest

\* The sequential promise speaks of the same codes and of the same form of a frame.
LEMMA SameForm ==
    ASSUME NEW m, NEW type, NEW error, tx(m, type, error)
    PROVE  Promise!Send(m, type, error)
  <1>1. wire' = Append(wire, [pdu |-> [m EXCEPT !.type = type, !.status = Promise!SUCCESS],
                              error |-> error])
    BY DEF tx, Formed, SUCCESS, Promise!SUCCESS
  <1> QED
    BY <1>1 DEF Promise!Send

\* The refusal of a command for a sink the listener does not have
LEMMA Refused ==
    ASSUME cmd.type \in {CONNECT_RX_COMMAND, GET_RX_STATE_COMMAND, DISCONNECT_RX_COMMAND},
           UnknownListener(cmd.type + 1)
    PROVE  Promise!Outcome(cmd)
  <1>1. Promise!Send(cmd, cmd.type + 1, LISTENER_UNKNOWN_ID) /\ UNCHANGED infos
        /\ cmd.luid # MyId
    BY SameForm DEF UnknownListener, txResponse, validListenerUnique
  <1> QED
    BY <1>1 DEF Promise!Outcome, Promise!NoSuchSink, LISTENER_UNKNOWN_ID,
       Promise!LISTENER_UNKNOWN_ID, CONNECT_RX_COMMAND, GET_RX_STATE_COMMAND,
       DISCONNECT_RX_COMMAND, Promise!CONNECT_RX_COMMAND, Promise!GET_RX_STATE_COMMAND,
       Promise!DISCONNECT_RX_COMMAND

LEMMA ConnectRxStep ==
    ASSUME SerialInv, TypeOK', handleConnectRxCommand
    PROVE  SerialInv' /\ Promise!Next
  <1>1. /\ Handle(CONNECT_RX_COMMAND)
        /\ Done(CONNECT_RX_COMMAND) \/ Abort
        /\ cmd # NoCmd /\ Harmless(inflight)
    BY DEF handleConnectRxCommand, Handle, SerialInv
  <1>2. CONNECT_RX_COMMAND \in FlagTypes
    BY DEF FlagTypes
  <1>3. cmd.type = CONNECT_RX_COMMAND
    BY <1>1, <1>2 DEF Handle, SerialInv, ServingInv
  <1>4. Harmless(inflight')
    <2>1. ASSUME txNewCommand(CONNECT_TX_COMMAND, CONNECT_TX_TIMEOUT_MS)
          PROVE  Harmless(inflight')
      BY <1>1, <1>3, <2>1, HarmlessCommand, CodesType
    <2> QED
      BY <1>1, <2>1 DEF handleConnectRxCommand, UnknownListener
  <1>5. Promise!Outcome(cmd)
    <2>1. CASE UnknownListener(CONNECT_RX_RESPONSE)
      <3>1. CONNECT_RX_RESPONSE = cmd.type + 1
        BY <1>3 DEF CONNECT_RX_RESPONSE, CONNECT_RX_COMMAND
      <3> QED
        BY <1>3, <2>1, <3>1, Refused
    <2>2. CASE /\ validListenerUnique(cmd.luid) /\ listenerIsConnected(cmd)
               /\ txResponse(CONNECT_RX_RESPONSE, LISTENER_EXCLUSIVE) /\ UNCHANGED infos
      <3>1. Promise!Send(cmd, CONNECT_RX_RESPONSE, LISTENER_EXCLUSIVE)
        BY <2>2, SameForm DEF txResponse
      <3>2. Promise!Connect(cmd)
        BY <2>2, <3>1 DEF Promise!Connect, Promise!MayRefuse, Promise!Known, Promise!Occupied,
           Promise!SameSource, listenerIsConnected, LISTENER_EXCLUSIVE, Promise!LISTENER_EXCLUSIVE, CONNECT_RX_RESPONSE,
           Promise!CONNECT_RX_RESPONSE
      <3> QED
        BY <1>3, <2>2, <3>2 DEF Promise!Outcome, validListenerUnique, CONNECT_RX_COMMAND,
           Promise!CONNECT_RX_COMMAND
    <2>3. CASE /\ validListenerUnique(cmd.luid) /\ ~listenerIsConnected(cmd)
               /\ txNewCommand(CONNECT_TX_COMMAND, CONNECT_TX_TIMEOUT_MS)
               /\ \/ infos[cmd.luid] = NoInfo /\ UNCHANGED infos
                  \/ /\ infos[cmd.luid] # NoInfo
                     /\ infos' = [infos EXCEPT ![cmd.luid].tid = cmd.tid,
                                               ![cmd.luid].tuid = cmd.tuid,
                                               ![cmd.luid].pending = TRUE]
      <3>1. Promise!Send(cmd, CONNECT_TX_COMMAND, SUCCESS)
        BY <2>3, SameForm DEF txNewCommand
      <3>2. Promise!Attempt(cmd)
        BY <2>3 DEF Promise!Attempt, Promise!Known
      <3>3. Promise!Connect(cmd)
        BY <2>3, <3>1, <3>2 DEF Promise!Connect, Promise!MustRefuse, Promise!Known,
           Promise!Occupied, listenerIsConnected, SUCCESS, Promise!SUCCESS, CONNECT_TX_COMMAND, Promise!CONNECT_TX_COMMAND
      <3> QED
        BY <1>3, <2>3, <3>3 DEF Promise!Outcome, validListenerUnique, CONNECT_RX_COMMAND,
           Promise!CONNECT_RX_COMMAND
    <2> QED
      BY <2>1, <2>2, <2>3 DEF handleConnectRxCommand
  <1> QED
    BY <1>1, <1>2, <1>4, <1>5, HandlerStep DEF Promise!Next, Promise!Serve

LEMMA ConnectTxStep ==
    ASSUME SerialInv, TypeOK', handleConnectTxResponse
    PROVE  SerialInv' /\ Promise!Next
  <1>1. /\ Handle(CONNECT_TX_RESPONSE)
        /\ Done(CONNECT_TX_RESPONSE) \/ Abort
        /\ cmd # NoCmd /\ Harmless(inflight)
    BY DEF handleConnectTxResponse, Handle, SerialInv
  <1>2. CONNECT_TX_RESPONSE \in FlagTypes
    BY DEF FlagTypes
  <1>3. cmd.type = CONNECT_TX_RESPONSE
    BY <1>1, <1>2 DEF Handle, SerialInv, ServingInv
  <1>4. Harmless(inflight')
    <2>1. Harmless(cancelAndRemove(inflight, cmd))
      BY <1>1, HarmlessCancel DEF SerialInv, TypeOK
    <2> QED
      BY <1>1, <2>1 DEF handleConnectTxResponse
  <1>5. Promise!Outcome(cmd)
    <2> USE DEF CONNECT_TX_RESPONSE, Promise!CONNECT_TX_RESPONSE, SUCCESS, Promise!SUCCESS
    <2>1. CASE ~validListenerUnique(cmd.luid) /\ UNCHANGED << infos, wire >>
      BY <1>3, <2>1 DEF Promise!Outcome, Promise!NoSuchSink, Promise!Silent,
         validListenerUnique
    <2>2. CASE /\ validListenerUnique(cmd.luid) /\ cmd.status # SUCCESS
               /\ infos[cmd.luid] = NoInfo /\ UNCHANGED << infos, wire >>
      BY <1>3, <2>2 DEF Promise!Outcome, Promise!TalkerConnected, Promise!Silent,
         Promise!Known, validListenerUnique
    <2>3. CASE /\ validListenerUnique(cmd.luid)
               /\ cmd.status = SUCCESS \/ infos[cmd.luid] # NoInfo
               /\ infos' = IF cmd.status = SUCCESS
                             THEN [infos EXCEPT ![cmd.luid] = ConnectedInfo(cmd)]
                             ELSE [infos EXCEPT ![cmd.luid].pending = FALSE]
               /\ txResponse(CONNECT_RX_RESPONSE, cmd.status)
      <3>1. Promise!Send(cmd, Promise!CONNECT_RX_RESPONSE, cmd.status)
        BY <2>3, SameForm DEF txResponse, CONNECT_RX_RESPONSE, Promise!CONNECT_RX_RESPONSE
      <3>2. ConnectedInfo(cmd) = Promise!ConnectedInfo(cmd)
        BY DEF ConnectedInfo, Promise!ConnectedInfo
      <3>3. Promise!TalkerConnected(cmd)
        BY <2>3, <3>1, <3>2 DEF Promise!TalkerConnected, Promise!Known
      <3> QED
        BY <1>3, <2>3, <3>3 DEF Promise!Outcome, validListenerUnique
    <2> QED
      BY <2>1, <2>2, <2>3 DEF handleConnectTxResponse
  <1> QED
    BY <1>1, <1>2, <1>4, <1>5, HandlerStep DEF Promise!Next, Promise!Serve

LEMMA GetRxStep ==
    ASSUME SerialInv, TypeOK', handleGetRxState
    PROVE  SerialInv' /\ Promise!Next
  <1>1. /\ Handle(GET_RX_STATE_COMMAND)
        /\ Done(GET_RX_STATE_COMMAND) \/ Abort
        /\ cmd # NoCmd /\ Harmless(inflight) /\ UNCHANGED << infos, inflight >>
    BY DEF handleGetRxState, Handle, SerialInv, UnknownListener
  <1>2. GET_RX_STATE_COMMAND \in FlagTypes
    BY DEF FlagTypes
  <1>3. cmd.type = GET_RX_STATE_COMMAND
    BY <1>1, <1>2 DEF Handle, SerialInv, ServingInv
  <1>4. Harmless(inflight')
    BY <1>1
  <1>5. Promise!Outcome(cmd)
    <2>1. CASE UnknownListener(GET_RX_STATE_RESPONSE)
      <3>1. GET_RX_STATE_RESPONSE = cmd.type + 1
        BY <1>3 DEF GET_RX_STATE_RESPONSE, GET_RX_STATE_COMMAND
      <3> QED
        BY <1>3, <2>1, <3>1, Refused
    <2>2. CASE /\ validListenerUnique(cmd.luid) /\ infos[cmd.luid] = NoInfo
               /\ UNCHANGED wire
      BY <1>1, <1>3, <2>2 DEF Promise!Outcome, Promise!GetState, Promise!Silent,
         Promise!Known, validListenerUnique, GET_RX_STATE_COMMAND, Promise!GET_RX_STATE_COMMAND
    <2>3. CASE /\ validListenerUnique(cmd.luid) /\ infos[cmd.luid] # NoInfo
               /\ tx(StateResponse(infos[cmd.luid]), GET_RX_STATE_RESPONSE, SUCCESS)
      <3>1. /\ StateResponse(infos[cmd.luid]) = Promise!StateResponse(infos[cmd.luid])
            /\ GET_RX_STATE_RESPONSE = Promise!GET_RX_STATE_RESPONSE
            /\ SUCCESS = Promise!SUCCESS
        BY DEF StateResponse, Promise!StateResponse, GET_RX_STATE_RESPONSE,
               Promise!GET_RX_STATE_RESPONSE, SUCCESS, Promise!SUCCESS
      <3>2. Promise!Send(Promise!StateResponse(infos[cmd.luid]),
                         Promise!GET_RX_STATE_RESPONSE, Promise!SUCCESS)
        BY <2>3, <3>1, SameForm
      <3> QED
        BY <1>1, <1>3, <2>3, <3>2 DEF Promise!Outcome, Promise!GetState, Promise!Known,
           validListenerUnique, GET_RX_STATE_COMMAND, Promise!GET_RX_STATE_COMMAND
    <2> QED
      BY <2>1, <2>2, <2>3 DEF handleGetRxState
  <1> QED
    BY <1>1, <1>2, <1>4, <1>5, HandlerStep DEF Promise!Next, Promise!Serve

LEMMA DisconnectRxStep ==
    ASSUME SerialInv, TypeOK', handleDisconnectRxCommand
    PROVE  SerialInv' /\ Promise!Next
  <1>1. /\ Handle(DISCONNECT_RX_COMMAND) /\ Done(DISCONNECT_RX_COMMAND)
        /\ cmd # NoCmd /\ Harmless(inflight)
    BY DEF handleDisconnectRxCommand, Handle, SerialInv
  <1>2. DISCONNECT_RX_COMMAND \in FlagTypes
    BY DEF FlagTypes
  <1>3. cmd.type = DISCONNECT_RX_COMMAND
    BY <1>1, <1>2 DEF Handle, SerialInv, ServingInv
  <1>4. Harmless(inflight')
    <2>1. ASSUME txNewCommand(DISCONNECT_TX_COMMAND, DISCONNECT_TX_TIMEOUT_MS)
          PROVE  Harmless(inflight')
      BY <1>1, <1>3, <2>1, HarmlessCommand, CodesType
    <2> QED
      BY <1>1, <2>1 DEF handleDisconnectRxCommand, UnknownListener
  <1>5. Promise!Outcome(cmd)
    <2>1. CASE UnknownListener(DISCONNECT_RX_RESPONSE)
      <3>1. DISCONNECT_RX_RESPONSE = cmd.type + 1
        BY <1>3 DEF DISCONNECT_RX_RESPONSE, DISCONNECT_RX_COMMAND
      <3> QED
        BY <1>3, <2>1, <3>1, Refused
    <2>2. listenerIsConnectedTo(cmd) <=> Promise!MayDisconnect(cmd)
      BY DEF listenerIsConnectedTo, SameSource, Promise!MayDisconnect, Promise!Known,
         Promise!SameSource
    <2>3. ASSUME validListenerUnique(cmd.luid), Promise!Disconnect(cmd)
          PROVE  Promise!Outcome(cmd)
      BY <1>3, <2>3 DEF Promise!Outcome, validListenerUnique, DISCONNECT_RX_COMMAND,
         Promise!DISCONNECT_RX_COMMAND
    <2>4. CASE /\ validListenerUnique(cmd.luid) /\ listenerIsConnectedTo(cmd)
               /\ infos' = [infos EXCEPT ![cmd.luid] = ZeroInfo]
               /\ txNewCommand(DISCONNECT_TX_COMMAND, DISCONNECT_TX_TIMEOUT_MS)
      <3>1. /\ ZeroInfo = Promise!ZeroInfo /\ SUCCESS = Promise!SUCCESS
            /\ DISCONNECT_TX_COMMAND = Promise!DISCONNECT_TX_COMMAND
        BY DEF ZeroInfo, Promise!ZeroInfo, SUCCESS, Promise!SUCCESS, DISCONNECT_TX_COMMAND,
               Promise!DISCONNECT_TX_COMMAND
      <3>2. Promise!Send(cmd, Promise!DISCONNECT_TX_COMMAND, Promise!SUCCESS)
        BY <2>4, <3>1, SameForm DEF txNewCommand
      <3> QED
        BY <2>2, <2>3, <2>4, <3>1, <3>2 DEF Promise!Disconnect
    <2>5. CASE /\ validListenerUnique(cmd.luid) /\ ~listenerIsConnectedTo(cmd)
               /\ txResponse(DISCONNECT_RX_RESPONSE, NOT_CONNECTED) /\ UNCHANGED infos
      <3>1. /\ DISCONNECT_RX_RESPONSE = Promise!DISCONNECT_RX_RESPONSE
            /\ NOT_CONNECTED = Promise!NOT_CONNECTED
        BY DEF DISCONNECT_RX_RESPONSE, Promise!DISCONNECT_RX_RESPONSE, NOT_CONNECTED,
               Promise!NOT_CONNECTED
      <3>2. Promise!Send(cmd, Promise!DISCONNECT_RX_RESPONSE, Promise!NOT_CONNECTED)
        BY <2>5, <3>1, SameForm DEF txResponse
      <3> QED
        BY <2>2, <2>3, <2>5, <3>2 DEF Promise!Disconnect, Promise!MustDisconnect
    <2> QED
      BY <2>1, <2>4, <2>5 DEF handleDisconnectRxCommand
  <1> QED
    BY <1>1, <1>2, <1>4, <1>5, HandlerStep DEF Promise!Next, Promise!Serve

LEMMA DisconnectTxStep ==
    ASSUME SerialInv, TypeOK', handleDisconnectTxResponse
    PROVE  SerialInv' /\ Promise!Next
  <1>1. /\ Handle(DISCONNECT_TX_RESPONSE)
        /\ Done(DISCONNECT_TX_RESPONSE) \/ (Advance /\ UNCHANGED flags)
        /\ cmd # NoCmd /\ Harmless(inflight)
    BY DEF handleDisconnectTxResponse, Handle, SerialInv
  <1>2. DISCONNECT_TX_RESPONSE \in FlagTypes
    BY DEF FlagTypes
  <1>3. cmd.type = DISCONNECT_TX_RESPONSE
    BY <1>1, <1>2 DEF Handle, SerialInv, ServingInv
  <1>4. Harmless(inflight') /\ UNCHANGED infos
    <2>1. Harmless(cancelAndRemove(inflight, cmd))
      BY <1>1, HarmlessCancel DEF SerialInv, TypeOK
    <2> QED
      BY <1>1, <2>1 DEF handleDisconnectTxResponse
  <1>5. Promise!Outcome(cmd)
    <2>1. CASE ~validListenerUnique(cmd.luid) /\ UNCHANGED wire
      BY <1>3, <1>4, <2>1 DEF Promise!Outcome, Promise!NoSuchSink, Promise!Silent,
         validListenerUnique, DISCONNECT_TX_RESPONSE, Promise!DISCONNECT_TX_RESPONSE
    <2>2. CASE validListenerUnique(cmd.luid) /\ txResponse(DISCONNECT_RX_RESPONSE, cmd.status)
      <3>1. Promise!Send(cmd, Promise!DISCONNECT_RX_RESPONSE, cmd.status)
        BY <2>2, SameForm DEF txResponse, DISCONNECT_RX_RESPONSE,
           Promise!DISCONNECT_RX_RESPONSE
      <3> QED
        BY <1>3, <1>4, <2>2, <3>1 DEF Promise!Outcome, Promise!TalkerDisconnected,
           validListenerUnique, DISCONNECT_TX_RESPONSE, Promise!DISCONNECT_TX_RESPONSE
    <2> QED
      BY <2>1, <2>2 DEF handleDisconnectTxResponse
  <1> QED
    BY <1>1, <1>2, <1>4, <1>5, HandlerStep DEF Promise!Next, Promise!Serve

-----------------------------------------------------------------------------
(* Put together.                                                           *)

LEMMA SerialInit == Init => SerialInv /\ Promise!Init
  <1> SUFFICES ASSUME Init PROVE SerialInv /\ Promise!Init
    OBVIOUS
  <1>1. SerialInv
    BY TypeInit DEF Init, SerialInv, Harmless
  <1>2. Promise!Init
    <2>1. ~InService /\ Len(arrived) = 0 /\ Len(queue) = 0
      BY DEF Init, InService
    <2>2. Served = 0 - 0 - 0
      BY <2>1 DEF Served
    <2> QED
      BY <2>2 DEF Init, Promise!Init
  <1> QED
    BY <1>1, <1>2

LEMMA SerialStep ==
    ASSUME SerialInv, [SerialNext]_vars
    PROVE  SerialInv' /\ [Promise!Next]_ServiceVars
  <1>1. TypeOK'
    BY SerialType
  <1>2. CASE UNCHANGED vars
    BY <1>1, <1>2 DEF vars, shared, local, network, SerialInv, WaitingInv, ServingInv,
       FlagsClear, Newest, Harmless, ServiceVars, Served, InService
  <1>3. CASE cb = "idle" /\ ThreadStep
    BY <1>1, <1>3, LoopStep, GetStep, PassStep, NeverHappens, ConnectRxStep, ConnectTxStep,
       GetRxStep, DisconnectRxStep, DisconnectTxStep DEF ThreadStep
  <1>4. CASE acmp_cb /\ ((pc = "wait" /\ queue = << >>) \/ cb # "idle")
    <2>1. ASSUME Len(arrived) < Len(Arrivals),
                 NEW m \in Incoming(Len(arrived) + 1), PutMessage(m)
          PROVE  SerialInv' /\ Promise!Next
      <3>1. pc = "wait" /\ queue = << >>
        BY <1>4, <2>1 DEF PutMessage
      <3> QED
        BY <1>1, <2>1, <3>1, ArrivalStep
    <2> QED
      BY <1>1, <1>4, <2>1, OutsideStep DEF acmp_cb
  <1>5. CASE performTerminate \/ \E d \in TimeSteps : Tick(d)
    BY <1>1, <1>5, OutsideStep
  <1> QED
    BY <1>2, <1>3, <1>4, <1>5 DEF SerialNext

\* On a network that leaves it time, the listener with its queue, flags, in-flight
\* entries and timeouts handles every message exactly once, in order, by the handler of
\* its type, and sends nothing else; for any number of messages and any clock.
THEOREM Implements == SerialSpec => ImplementsSequential
  <1>1. SerialInv /\ [SerialNext]_vars => SerialInv' /\ [Promise!Next]_(Promise!vars)
    BY SerialStep DEF ServiceVars, Promise!vars
  <1> QED
    BY SerialInit, <1>1, PTL DEF SerialSpec, ImplementsSequential, Promise!Spec

-----------------------------------------------------------------------------
(* Liveness, with hypotheses of the same kind as in ACMPListenerProofs.     *)

\* The thread can take a step until it has stopped if acmp_cb has returned, and acmp_cb can
\* until then, so this is what the WF of FairSerialSpec say.
SerialCanStep ==
    /\ WF_vars(cb = "idle" /\ ThreadStep) =>
         []<>(pc = "stopped" \/ cb # "idle") \/ []<><<cb = "idle" /\ ThreadStep>>_vars
    /\ WF_vars(SetFlag \/ SignalEvent) =>
         []<>(cb = "idle") \/ []<><<SetFlag \/ SignalEvent>>_vars

LEMMA SerialInvariant == SerialSpec => []SerialInv
<1>1. Init => SerialInv
  BY SerialInit
<1>2. SerialInv /\ [SerialNext]_vars => SerialInv'
  BY SerialStep
<1> QED  BY <1>1, <1>2, PTL DEF SerialSpec

\* The thread stops only when it is told to.
StoppedInv == pc = "stopped" => doTerminate

LEMMA StoppedInvariant == SerialSpec => []StoppedInv
<1>1. Init => StoppedInv
  BY DEF Init, StoppedInv
<1>2. SerialInv /\ StoppedInv /\ [SerialNext]_vars => StoppedInv'
  <2> SUFFICES ASSUME TypeOK, StoppedInv, [SerialNext]_vars PROVE StoppedInv'
    BY DEF SerialInv
  <2>1. CASE ThreadStep  BY <2>1, ThreadMoves DEF ThreadMove, StoppedInv
  <2>2. CASE ~ThreadStep  BY <2>2, OtherMoves DEF SerialNext, StoppedInv
  <2> QED  BY <2>1, <2>2
<1> QED  BY <1>1, <1>2, SerialInvariant, PTL DEF SerialSpec

\* A message is queued or being handled.
Owing == queue # << >> \/ InService

\* The steps until it has been handled, at most, but for the rounds of the loop over the
\* expired entries
ToServe ==
    CASE pc = "check" -> 6 - k [] pc = "expire" -> 6 [] pc = "get" -> 7 [] pc = "terminate" -> 8
      [] pc = "clear" -> 9
      [] OTHER -> IF cb = "idle" THEN 10 ELSE IF cb = "signal" THEN 11 ELSE 12

Unserved(n) == Owing /\ ToServe <= n

Rested == ~Owing \/ doTerminate

\* What the steps of n are worth: they are not taken back, and one of the thread or of
\* acmp_cb leaves m or takes an entry out, until nothing is owed.
Serves(m, n) ==
    /\ SerialInv /\ Unserved(n) /\ [SerialNext]_vars => Unserved(n)' \/ Rested'
    /\ SerialInv /\ Unserved(n) /\ [SerialNext]_vars => ~More \/ Unserved(m)' \/ Rested'
    /\ SerialInv /\ Unserved(n) /\ <<cb = "idle" /\ ThreadStep>>_vars =>
         Fewer \/ Unserved(m)' \/ Rested'
    /\ SerialInv /\ Unserved(n) /\ <<SetFlag \/ SignalEvent>>_vars => Unserved(m)' \/ Rested'

\* While something is owed the thread is between wait() and the handler, and acmp_cb is at
\* work only while the thread waits.
LEMMA OwingWhere ==
    ASSUME SerialInv, Owing
    PROVE  /\ pc \in {"wait", "clear", "terminate", "get", "expire", "check", "stopped"}
           /\ pc \in {"expire", "check"} => InService
           /\ pc = "wait" => queue # << >>
           /\ cb # "idle" => pc = "wait"
           /\ k \in 1 .. 5 /\ cb \in {"idle", "flag", "signal"}
BY DEF SerialInv, TypeOK, WaitingInv, ServingInv, Owing, InService, FlagsClear

LEMMA ServeSteps == \A n \in Nat : Serves(n, n + 1)
<1> SUFFICES ASSUME NEW n \in Nat, SerialInv, Unserved(n + 1), [SerialNext]_vars, SerialInv'
             PROVE  /\ Unserved(n + 1)' \/ Rested'
                    /\ ~More \/ Unserved(n)' \/ Rested'
                    /\ cb = "idle" /\ ThreadStep => Fewer \/ Unserved(n)' \/ Rested'
                    /\ SetFlag \/ SignalEvent => Unserved(n)' \/ Rested'
  <2>1. /\ cb = "idle" /\ ThreadStep => SerialNext
        /\ SerialInv /\ (SetFlag \/ SignalEvent) => SerialNext
    BY DEF SerialNext, acmp_cb, SetFlag, SignalEvent
  <2>2. SerialInv /\ [SerialNext]_vars => SerialInv'  BY SerialStep
  <2> QED  BY Zenon, <2>1, <2>2 DEF Serves
<1>1. /\ TypeOK /\ Owing /\ ToServe <= n + 1 /\ k \in 1 .. 5
      /\ Pops \in Nat /\ Pops' \in Nat /\ k' \in 1 .. 5
  BY OwingWhere DEF SerialInv, TypeOK, Pops, Unserved
<1>2. ToServe \in Nat /\ ToServe' \in Nat
  <2>1. ASSUME k \in 1 .. 5 PROVE ToServe \in Nat  BY <2>1 DEF ToServe
  <2>2. ASSUME k' \in 1 .. 5 PROVE ToServe' \in Nat  BY <2>2 DEF ToServe
  <2> QED  BY <1>1, <2>1, <2>2
<1>3. /\ ToServe' <= ToServe => Unserved(n + 1)' \/ Rested'
      /\ ToServe' < ToServe => Unserved(n)' \/ Rested'
      /\ Pops' < Pops => Fewer /\ ~More
      /\ Pops' = Pops => ~More
  BY <1>1, <1>2 DEF Unserved, Rested, Fewer, More
<1>4. ASSUME cb = "idle", ThreadStep
      PROVE  /\ Unserved(n + 1)' \/ Rested'
             /\ ~More \/ Unserved(n)' \/ Rested'
             /\ Fewer \/ Unserved(n)' \/ Rested'
  <2>1. /\ ThreadMove
        /\ pc = "expire" /\ pc' = "expire" => Pops' < Pops
        /\ doTerminate' = doTerminate
    BY <1>1, <1>4, ThreadMoves DEF Pops
  <2>2. CASE pc' \in {"reset", "stopped"}
    <3>1. pc' = "reset" => ~Owing'
      BY DEF SerialInv, Owing, InService
    <3>2. pc' = "stopped" => doTerminate
      BY <2>1 DEF ThreadMove
    <3> QED  BY Zenon, <2>1, <2>2, <3>1, <3>2 DEF Rested
  <2>3. CASE pc' \notin {"reset", "stopped"}
    <3>1. /\ pc \in {"wait", "clear", "terminate", "get", "expire", "check"}
          /\ pc = "wait" => cb = "idle"
      BY <1>1, <1>4, <2>1, OwingWhere DEF ThreadMove
    <3>2. \/ ToServe' < ToServe
          \/ pc = "expire" /\ pc' = "expire" /\ ToServe' = ToServe
      BY <1>1, <2>1, <2>3, <3>1 DEF ThreadMove, ToServe
    <3> QED  BY <1>2, <1>3, <2>1, <3>2
  <2> QED  BY <2>2, <2>3
<1>5. ASSUME SetFlag \/ SignalEvent PROVE Unserved(n)' \/ Rested'
  <2>1. /\ pc = "wait" /\ pc' = pc
        /\ \/ cb = "flag" /\ cb' = "signal"
           \/ cb = "signal" /\ cb' = "idle"
    BY <1>1, <1>5, OwingWhere DEF SetFlag, SignalEvent
  <2>2. ToServe' < ToServe  BY <2>1 DEF ToServe
  <2> QED  BY <1>3, <2>2
<1>6. ASSUME performTerminate \/ (\E d \in TimeSteps : Tick(d)) \/ UNCHANGED vars
      PROVE  (Unserved(n + 1)' \/ Rested') /\ ~More
  <2>1. pc' = pc /\ k' = k /\ inflight' = inflight  BY <1>6, OtherMoves
  <2>2. cb' = cb
    BY <1>6 DEF performTerminate, PerformTerminate, SignalTerminate, Tick, vars, network
  <2>3. ToServe' = ToServe /\ Pops' = Pops  BY <2>1, <2>2 DEF ToServe, Pops
  <2> QED  BY <1>2, <1>3, <2>3
<1>7. acmp_cb /\ ((pc = "wait" /\ queue = << >>) \/ cb # "idle") => SetFlag \/ SignalEvent
  BY <1>1, OwingWhere DEF acmp_cb, PutMessage
<1>8. SetFlag \/ SignalEvent => ~More
  BY <1>1, <1>3 DEF SetFlag, SignalEvent, local, Pops
<1>9. Unserved(n)' => Unserved(n + 1)'
  BY <1>2 DEF Unserved
<1> QED  BY Zenon, <1>4, <1>5, <1>6, <1>7, <1>8, <1>9 DEF SerialNext

\* Every message is handled, unless the thread is told to end first.
THEOREM ServesAll == FairSerialSpec /\ SerialCanStep /\ Descent(Pops) => AllServed
<1>1. /\ Serves(0, 1) /\ Serves(1, 2) /\ Serves(2, 3) /\ Serves(3, 4) /\ Serves(4, 5)
      /\ Serves(5, 6) /\ Serves(6, 7) /\ Serves(7, 8) /\ Serves(8, 9) /\ Serves(9, 10)
      /\ Serves(10, 11) /\ Serves(11, 12)
  BY ServeSteps
<1>2. SerialInv /\ Owing => Unserved(12) /\ ~Unserved(0)
  <2>1. ASSUME k \in 1 .. 5 PROVE ToServe <= 12 /\ ~(ToServe <= 0)  BY <2>1 DEF ToServe
  <2> QED  BY <2>1, OwingWhere DEF Unserved
<1>3. SerialInv /\ Owing /\ cb = "idle" => Unserved(10)
  <2>1. ASSUME k \in 1 .. 5, cb = "idle" PROVE ToServe <= 10  BY <2>1 DEF ToServe
  <2> QED  BY <2>1, OwingWhere DEF Unserved
<1>4. SerialInv /\ Unserved(10) => cb = "idle"
  <2>1. pc = "wait" /\ cb # "idle" => ~(ToServe <= 10)  BY DEF ToServe
  <2> QED  BY <2>1, OwingWhere DEF Unserved
<1>5. SerialInv /\ Rested => Served = Len(arrived) \/ doTerminate
  <2>1. SerialInv => Len(arrived) \in Nat  BY LenProperties DEF SerialInv, TypeOK
  <2>2. Len(<< >>) = 0  OBVIOUS
  <2> QED  BY <2>1, <2>2 DEF Rested, Owing, Served
<1>6. StoppedInv /\ pc = "stopped" => Rested
  BY DEF StoppedInv, Rested
<1>7. SerialInv => Pops \in Nat
  BY DEF SerialInv, TypeOK, Pops
<1>8. (pc = "stopped" \/ cb # "idle") => pc = "stopped" \/ ~(cb = "idle")
  OBVIOUS
<1>9. Unserved(10) \/ ~Rested => Owing
  BY DEF Rested, Unserved
<1> QED
  BY <1>1, <1>2, <1>3, <1>4, <1>5, <1>6, <1>7, <1>8, <1>9, SerialInvariant, StoppedInvariant, PTL
     DEF Serves, Fewer, More, FairSerialSpec, SerialSpec, SerialCanStep, Descent, AllServed
=============================================================================
