------------------------- MODULE ACMPListenerProofs -------------------------
EXTENDS ACMPListener, SequenceTheorems, FiniteSetTheorems, WellFoundedInduction, TLAPS

LEMMA NatSetHasMin ==
    ASSUME NEW I \in SUBSET Nat, I # {}
    PROVE  \E x \in I : \A y \in I : x <= y
<1>1. IsWellFoundedOn(OpToRel(<, Nat), Nat)
  BY NatLessThanWellFounded
<1>2. PICK x \in I : \A y \in I : ~(<< y, x >> \in OpToRel(<, Nat))
  BY <1>1, WFMin
<1>3. \A y \in I : ~(y < x)
  BY <1>2 DEF OpToRel
<1> QED
  BY <1>3

LEMMA FindRange ==
    ASSUME NEW list \in Seq(Inflight), NEW c
    PROVE  findMatchingInflightIndex(list, c) \in 0 .. Len(list)
<1> DEFINE I == {i \in 1 .. Len(list) : SameCommand(list[i], c)}
<1>1. CASE I = {}
  BY <1>1 DEF findMatchingInflightIndex, SelectInSeq
<1>2. CASE I # {}
  <2>1. \E x \in I : \A y \in I : x <= y
    <3>1. I \in SUBSET Nat
      OBVIOUS
    <3> QED
      BY <1>2, <3>1, NatSetHasMin
  <2>2. Min(I) \in I
    <3> HIDE DEF I
    <3> QED
      BY <2>1, Zenon DEF Min
  <2> QED
    BY <1>2, <2>2 DEF findMatchingInflightIndex, SelectInSeq
<1> QED
  BY <1>1, <1>2

LEMMA RemoveAtShape ==
    ASSUME NEW S, NEW s \in Seq(S), NEW i \in 1 .. Len(s)
    PROVE  /\ RemoveAt(s, i) \in Seq(S)
           /\ Len(RemoveAt(s, i)) = Len(s) - 1
           /\ \A j \in 1 .. Len(s) - 1 :
                RemoveAt(s, i)[j] = IF j < i THEN s[j] ELSE s[j + 1]
<1> DEFINE a == SubSeq(s, 1, i - 1)
           b == SubSeq(s, i + 1, Len(s))
<1>1. a \in Seq(S) /\ Len(a) = i - 1 /\ \A j \in 1 .. i - 1 : a[j] = s[j]
  OBVIOUS
<1>2. b \in Seq(S) /\ Len(b) = Len(s) - i /\ \A j \in 1 .. Len(s) - i : b[j] = s[i + j]
  OBVIOUS
<1>3. RemoveAt(s, i) = a \o b
  BY DEF RemoveAt
<1> HIDE DEF a, b
<1>4. a \o b \in Seq(S) /\ Len(a \o b) = Len(s) - 1
  <2>1. a \o b \in Seq(S) /\ Len(a \o b) = Len(a) + Len(b)
    BY <1>1, <1>2, ConcatProperties
  <2> QED
    BY <1>1, <1>2, <2>1
<1>5. ASSUME NEW j \in 1 .. Len(s) - 1
      PROVE  (a \o b)[j] = IF j < i THEN s[j] ELSE s[j + 1]
  <2>1. CASE j < i
    <3>1. (a \o b)[j] = a[j]
      BY <1>1, <1>2, <2>1
    <3> QED
      BY <1>1, <2>1, <3>1
  <2>2. CASE ~(j < i)
    <3>1. (a \o b)[j] = b[j - (i - 1)]
      BY <1>1, <1>2, <2>2
    <3>2. b[j - (i - 1)] = s[i + (j - (i - 1))]
      BY <1>2, <2>2
    <3>3. i + (j - (i - 1)) = j + 1
      OBVIOUS
    <3> QED
      BY <2>2, <3>1, <3>2, <3>3
  <2> QED
    BY <2>1, <2>2
<1> QED
  BY <1>3, <1>4, <1>5

-----------------------------------------------------------------------------
(* Type correctness.                                                       *)

LEMMA FormedMessage ==
    ASSUME NEW m \in Message, NEW type \in MessageTypes
    PROVE  /\ Formed(m, type) \in Message
           /\ Formed(m, type).type = type
           /\ Formed(m, type).status = SUCCESS
           /\ Formed(m, type).ctl = m.ctl
           /\ Formed(m, type).seq = m.seq
           /\ SameSource(Formed(m, type), m)
           /\ Formed(m, type).lid = m.lid
           /\ Formed(m, type).luid = m.luid
  BY DEF Formed, Message, SUCCESS, SameSource

LEMMA FormedOwn ==
    ASSUME NEW m \in OwnMessage, NEW type \in MessageTypes
    PROVE  Formed(m, type) \in OwnMessage
  BY FormedMessage DEF OwnMessage

LEMMA ExpiryRange ==
    ASSUME now \in Nat, NEW ms \in Nat
    PROVE  Expiry(ms) \in 0 .. TimeoutRange - 1
  BY ConstantsAssumption DEF Expiry

LEMMA IncomingMessage ==
    ASSUME NEW n \in 1 .. Len(Arrivals), NEW m \in Incoming(n)
    PROVE  m \in Message /\ m.luid \in ListenerUids /\ m.seq = n
  <1>1. /\ {a[1] : a \in Arrivals[n]} \subseteq MessageTypes
        /\ {a[2] : a \in Arrivals[n]} \subseteq ListenerUids
    <2>1. Arrivals[n] \in SUBSET (MessageTypes \X ListenerUids)
      BY ConstantsAssumption
    <2> QED
      BY <2>1
  <1>2. {SUCCESS} \cup ErrorStatuses \subseteq Nat
    BY ConstantsAssumption DEF SUCCESS
  <1>3. {src[1] : src \in Sources} \subseteq Nat /\ {src[2] : src \in Sources} \subseteq Nat
    BY ConstantsAssumption
  <1>4. Controllers \subseteq Nat /\ ListenerIds \subseteq Nat /\ ListenerUids \subseteq Nat
    BY ConstantsAssumption
  <1> QED
    BY <1>1, <1>2, <1>3, <1>4 DEF Incoming, Message

LEMMA CheckOrderFlags ==
    /\ \A i \in 1 .. 5 : CheckOrder[i] \in FlagTypes
    /\ \A i \in 1 .. 5 : ResetOrder[i] \in FlagTypes
    /\ FlagTypes \subseteq MessageTypes
  BY DEF CheckOrder, ResetOrder, FlagTypes, MessageTypes, CONNECT_RX_COMMAND,
         CONNECT_TX_RESPONSE, GET_RX_STATE_COMMAND, DISCONNECT_RX_COMMAND,
         DISCONNECT_TX_RESPONSE

LEMMA TxType ==
    ASSUME wire \in Seq(Frame), NEW m \in Message, NEW type \in MessageTypes,
           NEW error \in Nat, tx(m, type, error)
    PROVE  wire' \in Seq(Frame)
  <1>1. [pdu |-> Formed(m, type), error |-> error] \in Frame
    BY FormedMessage DEF Frame
  <1> QED
    BY <1>1 DEF tx

LEMMA TypeInit == Init => TypeOK
  <1> SUFFICES ASSUME Init PROVE TypeOK
    OBVIOUS
  <1>1. now \in Nat /\ ct \in Nat
    BY ConstantsAssumption DEF Init
  <1>2. cbType \in MessageTypes
    BY DEF Init, MessageTypes, CONNECT_RX_COMMAND
  <1>3. flags \in [FlagTypes -> BOOLEAN] /\ infos \in [ListenerUids -> StreamInfo \cup {NoInfo}]
    BY DEF Init
  <1>4. /\ queue \in Seq(OwnMessage) /\ inflight \in Seq(Inflight)
        /\ retried \in Seq(Inflight) /\ arrived \in Seq(Message) /\ wire \in Seq(Frame)
    BY EmptySeq DEF Init
  <1>5. event \in BOOLEAN /\ doTerminate \in BOOLEAN /\ cmd \in OwnMessage \cup {NoCmd}
    BY Zenon DEF Init
  <1>6. /\ pc \in {"reset", "empty", "wait", "clear", "terminate", "get", "expire",
                   "check", "stopped"}
        /\ k \in 1 .. 5
        /\ cb \in {"idle", "flag", "signal"}
        /\ owner \in {"running", "signal", "waiting"}
    BY DEF Init
  <1> QED
    BY <1>1, <1>2, <1>3, <1>4, <1>5, <1>6 DEF TypeOK

\* The steps of acmp_cb, the main thread and the clock
LEMMA TypeOutside ==
    TypeOK /\ (acmp_cb \/ performTerminate \/ \E d \in TimeSteps : Tick(d)) => TypeOK'
  <1> SUFFICES ASSUME TypeOK PROVE (acmp_cb \/ performTerminate
                                     \/ \E d \in TimeSteps : Tick(d)) => TypeOK'
    OBVIOUS
  <1> USE DEF shared, local, network
  <1>1. ASSUME Len(arrived) < Len(Arrivals),
               NEW m \in Incoming(Len(arrived) + 1), PutMessage(m)
        PROVE  TypeOK'
    <2>1. m \in Message /\ m.luid \in ListenerUids
      <3>1. Len(arrived) + 1 \in 1 .. Len(Arrivals)
        BY <1>1, ConstantsAssumption DEF TypeOK
      <3> QED
        BY <3>1, IncomingMessage
    <2>2. m \in OwnMessage /\ m.type \in MessageTypes
      BY <1>1, <2>1 DEF OwnMessage, PutMessage, Message
    <2> QED
      BY <1>1, <2>1, <2>2 DEF TypeOK, PutMessage
  <1>2. CASE SetFlag
    BY <1>2 DEF TypeOK, SetFlag
  <1>3. CASE SignalEvent
    BY <1>3 DEF TypeOK, SignalEvent
  <1>4. CASE PerformTerminate
    BY <1>4 DEF TypeOK, PerformTerminate
  <1>5. CASE SignalTerminate
    BY <1>5 DEF TypeOK, SignalTerminate
  <1>6. ASSUME NEW d \in TimeSteps, Tick(d) PROVE TypeOK'
    BY <1>6, ConstantsAssumption DEF TypeOK, Tick
  <1> QED
    BY <1>1, <1>2, <1>3, <1>4, <1>5, <1>6 DEF acmp_cb, performTerminate

\* run() up to the handlers
LEMMA TypeLoop ==
    ASSUME TypeOK,
           ResetFlag \/ CheckEmpty \/ WaitReturns \/ ClearEvent \/ CheckTerminate
             \/ GetMessage \/ ReinsertRetried \/ SkipCheck \/ UnboundCmd
    PROVE  TypeOK'
  <1> USE DEF shared, local, network
  <1>1. CASE ResetFlag
    <2>1. flags' \in [FlagTypes -> BOOLEAN]
      BY <1>1, CheckOrderFlags DEF TypeOK, ResetFlag
    <2>2. k' \in 1 .. 5 /\ pc' \in {"reset", "empty"}
      BY <1>1 DEF TypeOK, ResetFlag
    <2> QED
      BY <1>1, <2>1, <2>2 DEF TypeOK, ResetFlag
  <1>2. CASE CheckEmpty
    BY <1>2 DEF TypeOK, CheckEmpty
  <1>3. CASE WaitReturns
    BY <1>3 DEF TypeOK, WaitReturns
  <1>4. CASE ClearEvent
    BY <1>4 DEF TypeOK, ClearEvent
  <1>5. CASE CheckTerminate
    BY <1>5 DEF TypeOK, CheckTerminate
  <1>6. CASE GetMessage
    <2>1. cmd' \in OwnMessage \cup {NoCmd} /\ queue' \in Seq(OwnMessage)
      <3>1. queue # << >> => Head(queue) \in OwnMessage /\ Tail(queue) \in Seq(OwnMessage)
        BY HeadTailProperties DEF TypeOK
      <3> QED
        BY <1>6, <3>1 DEF TypeOK, GetMessage
    <2> QED
      BY <1>6, <2>1, EmptySeq DEF TypeOK, GetMessage
  <1>7. CASE ReinsertRetried
    <2>1. retried \o inflight \in Seq(Inflight)
      BY ConcatProperties DEF TypeOK
    <2> QED
      BY <1>7, <2>1 DEF TypeOK, ReinsertRetried
  <1>8. CASE SkipCheck
    BY <1>8 DEF TypeOK, SkipCheck, Advance
  <1>9. CASE UnboundCmd
    BY <1>9 DEF TypeOK, UnboundCmd, Abort
  <1> QED
    BY <1>1, <1>2, <1>3, <1>4, <1>5, <1>6, <1>7, <1>8, <1>9

\* The timeouts
LEMMA RetryType ==
    ASSUME TypeOK, HeadExpired, NEW type \in {CONNECT_TX_COMMAND, DISCONNECT_TX_COMMAND},
           NEW ms \in Nat, Retry(type, ms)
    PROVE  inflight' \in Seq(Inflight) /\ retried' \in Seq(Inflight) /\ wire' \in Seq(Frame)
  <1> DEFINE infl  == Head(inflight)
             rest  == Tail(inflight)
             i     == findMatchingInflightIndex(rest, infl.command)
             sent  == IF i = 0 THEN type + 1 ELSE type
             error == IF i = 0 THEN COULD_NOT_SEND_MESSAGE ELSE SUCCESS
  <1>1. infl \in Inflight /\ rest \in Seq(Inflight)
    BY HeadTailProperties DEF TypeOK, HeadExpired
  <1>2. i \in 0 .. Len(rest)
    BY <1>1, FindRange
  <1>3. sent \in MessageTypes /\ error \in Nat
    BY DEF MessageTypes, CONNECT_TX_COMMAND, DISCONNECT_TX_COMMAND,
           COULD_NOT_SEND_MESSAGE, SUCCESS
  <1>4. infl.command \in Message
    BY <1>1 DEF Inflight
  <1> HIDE DEF infl, rest, i, sent, error
  <1>5. inflight' \in Seq(Inflight)
    <2>1. inflight' = IF i = 0 THEN rest
                      ELSE [rest EXCEPT ![i] = [@ EXCEPT !.retried = TRUE,
                                                         !.timeout = Expiry(ms)]]
      BY DEF Retry, infl, rest, i
    <2>2. CASE i = 0
      BY <1>1, <2>1, <2>2
    <2>3. CASE i # 0
      <3>1. i \in 1 .. Len(rest)
        BY <1>1, <1>2, <2>3
      <3>2. rest[i] \in Inflight
        BY <1>1, <3>1, ElementOfSeq
      <3>3. Expiry(ms) \in 0 .. TimeoutRange - 1
        BY ExpiryRange DEF TypeOK
      <3>4. [rest[i] EXCEPT !.retried = TRUE, !.timeout = Expiry(ms)] \in Inflight
        BY <3>2, <3>3 DEF Inflight
      <3> QED
        BY <1>1, <2>1, <2>3, <3>1, <3>4, ExceptSeq
    <2> QED
      BY <2>2, <2>3
  <1>6. retried' \in Seq(Inflight)
    <2>1. Formed(infl.command, sent) \in Message
      BY <1>3, <1>4, FormedMessage
    <2>2. [infl EXCEPT !.retried = TRUE, !.command = Formed(@, sent)] \in Inflight
      BY <1>1, <2>1 DEF Inflight
    <2>3. retried' = Append(retried, [infl EXCEPT !.retried = TRUE,
                                                  !.command = Formed(@, sent)])
      BY DEF Retry, infl, rest, i, sent
    <2> QED
      BY <2>2, <2>3 DEF TypeOK
  <1>7. wire' \in Seq(Frame)
    <2>1. tx(infl.command, sent, error)
      BY DEF Retry, infl, rest, i, sent, error
    <2> QED
      BY <1>3, <1>4, <2>1, TxType DEF TypeOK
  <1> QED
    BY <1>5, <1>6, <1>7

LEMMA TypeTimeouts ==
    ASSUME TypeOK, DropExpired \/ handleConnectTxTimeout \/ handleDisconnectTxTimeout
    PROVE  TypeOK'
  <1>1. /\ inflight' \in Seq(Inflight) /\ retried' \in Seq(Inflight)
        /\ wire' \in Seq(Frame)
        /\ cmd' = cmd
        /\ pc' \in {"reset", "expire"}
    <2>1. HeadExpired /\ pc = "expire"
      BY DEF DropExpired, handleConnectTxTimeout, handleDisconnectTxTimeout, ExpireNext
    <2>2. Head(inflight) \in Inflight /\ Tail(inflight) \in Seq(Inflight)
      BY <2>1, HeadTailProperties DEF TypeOK, HeadExpired
    <2>3. CASE DropExpired
      BY <2>1, <2>2, <2>3 DEF DropExpired, TypeOK
    <2>4. ASSUME NEW type \in {CONNECT_TX_COMMAND, DISCONNECT_TX_COMMAND},
                 NEW ms \in Nat, Retry(type, ms)
          PROVE  <1>1!1 /\ <1>1!2 /\ cmd' = cmd /\ pc' = pc
      BY <2>1, <2>4, RetryType DEF Retry
    <2>5. CASE AbortOnRetried
      BY <2>2, <2>5 DEF AbortOnRetried, TypeOK
    <2>6. CASE handleConnectTxTimeout
      BY <2>1, <2>4, <2>5, <2>6 DEF handleConnectTxTimeout, CONNECT_TX_TIMEOUT_MS
    <2>7. CASE handleDisconnectTxTimeout
      <3>1. CASE Retry(DISCONNECT_TX_COMMAND, DISCONNECT_TX_TIMEOUT_MS)
        BY <2>1, <2>4, <3>1 DEF DISCONNECT_TX_TIMEOUT_MS
      <3>2. CASE ~Retry(DISCONNECT_TX_COMMAND, DISCONNECT_TX_TIMEOUT_MS)
        <4> DEFINE m == [Head(inflight).command EXCEPT
                           !.seq = Head(inflight).original_sequence_id]
        <4>1. m \in Message
          BY <2>2 DEF Inflight, Message
        <4>2. tx(m, DISCONNECT_RX_RESPONSE, LISTENER_TALKER_TIMEOUT)
              /\ inflight' = Tail(inflight) /\ UNCHANGED << retried, cmd, pc >>
          BY <2>7, <3>2 DEF handleDisconnectTxTimeout
        <4>3. DISCONNECT_RX_RESPONSE \in MessageTypes /\ LISTENER_TALKER_TIMEOUT \in Nat
          BY DEF DISCONNECT_RX_RESPONSE, MessageTypes, LISTENER_TALKER_TIMEOUT
        <4> HIDE DEF m
        <4>4. wire' \in Seq(Frame)
          BY <4>1, <4>2, <4>3, TxType DEF TypeOK
        <4> QED
          BY <2>1, <2>2, <4>2, <4>4 DEF TypeOK
      <3> QED
        BY <3>1, <3>2
    <2> QED
      BY <2>3, <2>6, <2>7
  <1>2. UNCHANGED << shared, infos, ct, k, network, owner, now >>
    BY DEF DropExpired, handleConnectTxTimeout, handleDisconnectTxTimeout, ExpireNext
  <1> QED
    BY <1>1, <1>2 DEF TypeOK, shared, network

\* The handlers
LEMMA TxResponseType ==
    ASSUME TypeOK, cmd # NoCmd, NEW type \in MessageTypes, NEW error \in Nat,
           txResponse(type, error)
    PROVE  wire' \in Seq(Frame) /\ cmd' \in OwnMessage
  <1>1. cmd \in OwnMessage /\ cmd \in Message
    BY DEF TypeOK, OwnMessage
  <1> QED
    BY <1>1, TxType, FormedOwn DEF txResponse, TypeOK

LEMMA NewCommandType ==
    ASSUME TypeOK, cmd # NoCmd, NEW type \in MessageTypes, NEW ms \in Nat,
           txNewCommand(type, ms)
    PROVE  wire' \in Seq(Frame) /\ cmd' \in OwnMessage /\ inflight' \in Seq(Inflight)
  <1>1. cmd \in OwnMessage /\ cmd \in Message
    BY DEF TypeOK, OwnMessage
  <1>2. SUCCESS \in Nat
    BY DEF SUCCESS
  <1>3. wire' \in Seq(Frame) /\ cmd' \in OwnMessage
    BY <1>1, <1>2, TxType, FormedOwn DEF txNewCommand, TypeOK
  <1>4. [timeout |-> Expiry(ms), retried |-> FALSE, command |-> cmd,
         original_sequence_id |-> cmd.seq] \in Inflight
    <2>1. Expiry(ms) \in 0 .. TimeoutRange - 1
      BY ExpiryRange DEF TypeOK
    <2>2. cmd.seq \in Nat
      BY <1>1 DEF Message
    <2> QED
      BY <1>1, <2>1, <2>2 DEF Inflight
  <1> QED
    BY <1>3, <1>4 DEF txNewCommand, TypeOK

LEMMA CancelType ==
    ASSUME NEW list \in Seq(Inflight), NEW c
    PROVE  cancelAndRemove(list, c) \in Seq(Inflight)
  <1> DEFINE i == findMatchingInflightIndex(list, c)
  <1>1. i \in 0 .. Len(list)
    BY FindRange
  <1>2. CASE i = 0
    BY <1>2 DEF cancelAndRemove
  <1>3. CASE i # 0
    <2>1. i \in 1 .. Len(list)
      BY <1>1, <1>3
    <2> HIDE DEF i
    <2>2. RemoveAt(list, i) \in Seq(Inflight)
      BY <2>1, RemoveAtShape
    <2> QED
      BY <1>3, <2>2 DEF cancelAndRemove, i
  <1> QED
    BY <1>2, <1>3

LEMMA InfoTypes ==
    /\ \A m \in Message : ConnectedInfo(m) \in StreamInfo
    /\ ZeroInfo \in StreamInfo
    /\ \A info \in StreamInfo : StateResponse(info) \in Message
  BY DEF ConnectedInfo, ZeroInfo, StateResponse, StreamInfo, Message, MessageTypes,
         GET_RX_STATE_RESPONSE, SUCCESS

\* The message types and statuses the handlers send
LEMMA CodesType ==
    /\ {CONNECT_TX_COMMAND, DISCONNECT_TX_COMMAND, CONNECT_RX_RESPONSE,
        DISCONNECT_RX_RESPONSE, GET_RX_STATE_RESPONSE} \subseteq MessageTypes
    /\ {SUCCESS, LISTENER_UNKNOWN_ID, LISTENER_EXCLUSIVE, NOT_CONNECTED,
        CONNECT_TX_TIMEOUT_MS, DISCONNECT_TX_TIMEOUT_MS} \subseteq Nat
  BY DEF MessageTypes, CONNECT_TX_COMMAND, DISCONNECT_TX_COMMAND, CONNECT_RX_RESPONSE,
         DISCONNECT_RX_RESPONSE, GET_RX_STATE_RESPONSE, SUCCESS, LISTENER_UNKNOWN_ID,
         LISTENER_EXCLUSIVE, NOT_CONNECTED, CONNECT_TX_TIMEOUT_MS, DISCONNECT_TX_TIMEOUT_MS

\* What a handler leaves well typed is enough for TypeOK
LEMMA HandlerFrame ==
    ASSUME TypeOK, NEW type \in FlagTypes, Handle(type),
           Done(type) \/ Abort \/ (Advance /\ UNCHANGED flags),
           infos' \in [ListenerUids -> StreamInfo \cup {NoInfo}],
           inflight' \in Seq(Inflight), cmd' \in OwnMessage, wire' \in Seq(Frame)
    PROVE  TypeOK'
  <1>1. flags' \in [FlagTypes -> BOOLEAN]
    BY DEF TypeOK, Done, Abort
  <1>2. k' \in 1 .. 5 /\ pc' \in {"check", "reset"}
    BY DEF TypeOK, Done, Advance, Abort, Handle
  <1> QED
    BY <1>1, <1>2 DEF TypeOK, Handle, network

LEMMA UnknownType ==
    ASSUME TypeOK, cmd # NoCmd, NEW type \in MessageTypes, UnknownListener(type)
    PROVE  /\ wire' \in Seq(Frame) /\ cmd' \in OwnMessage
           /\ infos' \in [ListenerUids -> StreamInfo \cup {NoInfo}]
           /\ inflight' \in Seq(Inflight)
  BY TxResponseType, CodesType DEF UnknownListener, TypeOK

LEMMA TypeHandlers ==
    ASSUME TypeOK,
           handleConnectRxCommand \/ handleConnectTxResponse \/ handleGetRxState
             \/ handleDisconnectRxCommand \/ handleDisconnectTxResponse
    PROVE  TypeOK'
  <1> DEFINE Typed == /\ infos' \in [ListenerUids -> StreamInfo \cup {NoInfo}]
                      /\ inflight' \in Seq(Inflight)
                      /\ cmd' \in OwnMessage
                      /\ wire' \in Seq(Frame)
  <1>0. /\ cmd # NoCmd /\ cmd \in OwnMessage /\ cmd \in Message
        /\ cmd.luid \in ListenerUids /\ cmd.status \in Nat
    BY DEF handleConnectRxCommand, handleConnectTxResponse, handleGetRxState,
           handleDisconnectRxCommand, handleDisconnectTxResponse, Handle, TypeOK,
           OwnMessage, Message
  <1>a. infos \in [ListenerUids -> StreamInfo \cup {NoInfo}]
        /\ inflight \in Seq(Inflight) /\ wire \in Seq(Frame)
    BY DEF TypeOK
  <1>b. cancelAndRemove(inflight, cmd) \in Seq(Inflight)
    BY <1>a, CancelType
  <1>1. CASE handleConnectRxCommand
    <2>1. ASSUME UnknownListener(CONNECT_RX_RESPONSE)
          PROVE  Typed
      BY <1>0, <2>1, UnknownType, CodesType
    <2>2. ASSUME txResponse(CONNECT_RX_RESPONSE, LISTENER_EXCLUSIVE)
                   /\ UNCHANGED << infos, inflight >>
          PROVE  Typed
      BY <1>0, <1>a, <2>2, TxResponseType, CodesType
    <2>3. ASSUME txNewCommand(CONNECT_TX_COMMAND, CONNECT_TX_TIMEOUT_MS)
                   /\ infos[cmd.luid] = NoInfo /\ UNCHANGED infos
          PROVE  Typed
      BY <1>0, <1>a, <2>3, NewCommandType, CodesType
    <2>4. ASSUME txNewCommand(CONNECT_TX_COMMAND, CONNECT_TX_TIMEOUT_MS)
                   /\ infos[cmd.luid] # NoInfo
                   /\ infos' = [infos EXCEPT ![cmd.luid].tid = cmd.tid,
                                             ![cmd.luid].tuid = cmd.tuid,
                                             ![cmd.luid].pending = TRUE]
          PROVE  Typed
      <3>1. infos' \in [ListenerUids -> StreamInfo \cup {NoInfo}]
        BY <1>0, <1>a, <2>4 DEF StreamInfo, Message
      <3> QED
        BY <1>0, <2>4, <3>1, NewCommandType, CodesType
    <2>5. Typed
      BY <1>1, <2>1, <2>2, <2>3, <2>4 DEF handleConnectRxCommand
    <2>6. /\ Handle(CONNECT_RX_COMMAND) /\ CONNECT_RX_COMMAND \in FlagTypes
          /\ Done(CONNECT_RX_COMMAND) \/ Abort
      BY <1>1 DEF handleConnectRxCommand, FlagTypes
    <2> QED
      BY <2>5, <2>6, HandlerFrame
  <1>2. CASE handleConnectTxResponse
    <2>1. ASSUME UNCHANGED << infos, inflight, cmd, wire >>
          PROVE  Typed
      BY <1>0, <1>a, <2>1
    <2>2. ASSUME /\ cmd.status = SUCCESS \/ infos[cmd.luid] # NoInfo
                 /\ infos' = IF cmd.status = SUCCESS
                               THEN [infos EXCEPT ![cmd.luid] = ConnectedInfo(cmd)]
                               ELSE [infos EXCEPT ![cmd.luid].pending = FALSE]
                 /\ inflight' = cancelAndRemove(inflight, cmd)
                 /\ txResponse(CONNECT_RX_RESPONSE, cmd.status)
          PROVE  Typed
      <3>1. wire' \in Seq(Frame) /\ cmd' \in OwnMessage
        BY <1>0, <2>2, TxResponseType, CodesType
      <3>2. infos' \in [ListenerUids -> StreamInfo \cup {NoInfo}]
        <4>1. CASE cmd.status = SUCCESS
          BY <1>0, <1>a, <2>2, <4>1, InfoTypes
        <4>2. CASE cmd.status # SUCCESS
          BY <1>0, <1>a, <2>2, <4>2 DEF StreamInfo
        <4> QED
          BY <4>1, <4>2
      <3> QED
        BY <1>b, <2>2, <3>1, <3>2
    <2>3. Typed
      BY <1>2, <2>1, <2>2 DEF handleConnectTxResponse
    <2>4. /\ Handle(CONNECT_TX_RESPONSE) /\ CONNECT_TX_RESPONSE \in FlagTypes
          /\ Done(CONNECT_TX_RESPONSE) \/ Abort
      BY <1>2 DEF handleConnectTxResponse, FlagTypes
    <2> QED
      BY <2>3, <2>4, HandlerFrame
  <1>3. CASE handleGetRxState
    <2>1. ASSUME UnknownListener(GET_RX_STATE_RESPONSE)
          PROVE  Typed
      BY <1>0, <2>1, UnknownType, CodesType
    <2>2. ASSUME UNCHANGED << infos, inflight, cmd, wire >>
          PROVE  Typed
      BY <1>0, <1>a, <2>2
    <2>3. ASSUME /\ infos[cmd.luid] # NoInfo
                 /\ tx(StateResponse(infos[cmd.luid]), GET_RX_STATE_RESPONSE, SUCCESS)
                 /\ UNCHANGED << infos, inflight, cmd >>
          PROVE  Typed
      <3>1. StateResponse(infos[cmd.luid]) \in Message
        BY <1>0, <1>a, <2>3, InfoTypes
      <3>2. wire' \in Seq(Frame)
        BY <1>a, <2>3, <3>1, TxType, CodesType
      <3> QED
        BY <1>0, <1>a, <2>3, <3>2
    <2>4. Typed
      BY <1>3, <2>1, <2>2, <2>3 DEF handleGetRxState
    <2>5. /\ Handle(GET_RX_STATE_COMMAND) /\ GET_RX_STATE_COMMAND \in FlagTypes
          /\ Done(GET_RX_STATE_COMMAND) \/ Abort
      BY <1>3 DEF handleGetRxState, FlagTypes
    <2> QED
      BY <2>4, <2>5, HandlerFrame
  <1>4. CASE handleDisconnectRxCommand
    <2>1. ASSUME UnknownListener(DISCONNECT_RX_RESPONSE)
          PROVE  Typed
      BY <1>0, <2>1, UnknownType, CodesType
    <2>2. ASSUME /\ infos' = [infos EXCEPT ![cmd.luid] = ZeroInfo]
                 /\ txNewCommand(DISCONNECT_TX_COMMAND, DISCONNECT_TX_TIMEOUT_MS)
          PROVE  Typed
      BY <1>0, <1>a, <2>2, NewCommandType, CodesType, InfoTypes
    <2>3. ASSUME txResponse(DISCONNECT_RX_RESPONSE, NOT_CONNECTED)
                   /\ UNCHANGED << infos, inflight >>
          PROVE  Typed
      BY <1>0, <1>a, <2>3, TxResponseType, CodesType
    <2>4. Typed
      BY <1>4, <2>1, <2>2, <2>3 DEF handleDisconnectRxCommand
    <2>5. /\ Handle(DISCONNECT_RX_COMMAND) /\ DISCONNECT_RX_COMMAND \in FlagTypes
          /\ Done(DISCONNECT_RX_COMMAND)
      BY <1>4 DEF handleDisconnectRxCommand, FlagTypes
    <2> QED
      BY <2>4, <2>5, HandlerFrame
  <1>5. CASE handleDisconnectTxResponse
    <2>1. ASSUME UNCHANGED << infos, inflight, cmd, wire >>
          PROVE  Typed
      BY <1>0, <1>a, <2>1
    <2>2. ASSUME /\ inflight' = cancelAndRemove(inflight, cmd)
                 /\ txResponse(DISCONNECT_RX_RESPONSE, cmd.status)
                 /\ UNCHANGED infos
          PROVE  Typed
      BY <1>0, <1>a, <1>b, <2>2, TxResponseType, CodesType
    <2>3. Typed
      BY <1>5, <2>1, <2>2 DEF handleDisconnectTxResponse
    <2>4. /\ Handle(DISCONNECT_TX_RESPONSE) /\ DISCONNECT_TX_RESPONSE \in FlagTypes
          /\ Done(DISCONNECT_TX_RESPONSE) \/ (Advance /\ UNCHANGED flags)
      BY <1>5 DEF handleDisconnectTxResponse, FlagTypes
    <2> QED
      BY <2>3, <2>4, HandlerFrame
  <1> QED
    BY <1>1, <1>2, <1>3, <1>4, <1>5

LEMMA TypeNext == TypeOK /\ [Next]_vars => TypeOK'
  <1> SUFFICES ASSUME TypeOK, [Next]_vars PROVE TypeOK'
    OBVIOUS
  <1>1. CASE UNCHANGED vars
    BY <1>1 DEF TypeOK, vars, shared, local, network
  <1>2. CASE Next
    BY <1>2, TypeOutside, TypeLoop, TypeTimeouts, TypeHandlers DEF Next, ThreadStep
  <1> QED
    BY <1>1, <1>2

\* Every state of every interleaving is well typed: in particular the queue and cmd
\* hold only messages addressed to this entity, and no handler leaves an ill-formed
\* stream info or in-flight entry behind, whatever exception ends it.
THEOREM TypeCorrect == Spec => []TypeOK
  BY TypeInit, TypeNext, PTL DEF Spec

-----------------------------------------------------------------------------
(* Frames and stream infos of unknown sinks.                               *)

OwnInv == TypeOK /\ OnlyOwnSink /\ AllOwn(retried)

LEMMA OwnTail ==
    ASSUME NEW list \in Seq(Inflight), list # << >>, AllOwn(list)
    PROVE  AllOwn(Tail(list)) /\ validListenerUnique(Head(list).command.luid)
  <1>1. Len(list) \in Nat \ {0} /\ Head(list) = list[1]
    BY EmptySeq
  <1>2. /\ Tail(list) \in Seq(Inflight) /\ Len(Tail(list)) = Len(list) - 1
        /\ \A i \in 1 .. Len(Tail(list)) : Tail(list)[i] = list[i + 1]
    BY HeadTailProperties
  <1>3. DOMAIN list = 1 .. Len(list) /\ DOMAIN Tail(list) = 1 .. Len(Tail(list))
    BY <1>2, LenProperties
  <1>4. \A i \in 1 .. Len(list) : validListenerUnique(list[i].command.luid)
    BY <1>3 DEF AllOwn
  <1>5. \A i \in 1 .. Len(Tail(list)) : validListenerUnique(Tail(list)[i].command.luid)
    BY <1>1, <1>2, <1>4
  <1> QED
    BY <1>1, <1>3, <1>4, <1>5 DEF AllOwn

LEMMA OwnAppend ==
    ASSUME NEW list \in Seq(Inflight), AllOwn(list), NEW e \in Inflight,
           validListenerUnique(e.command.luid)
    PROVE  AllOwn(Append(list, e))
  BY DEF AllOwn

LEMMA OwnConcat ==
    ASSUME NEW s \in Seq(Inflight), NEW t \in Seq(Inflight), AllOwn(s), AllOwn(t)
    PROVE  AllOwn(s \o t)
  <1>1. /\ s \o t \in Seq(Inflight) /\ Len(s \o t) = Len(s) + Len(t)
        /\ \A i \in 1 .. Len(s) + Len(t) :
             (s \o t)[i] = IF i <= Len(s) THEN s[i] ELSE t[i - Len(s)]
    BY ConcatProperties
  <1>2. DOMAIN (s \o t) = 1 .. Len(s) + Len(t)
    BY <1>1, LenProperties
  <1> QED
    BY <1>1, <1>2 DEF AllOwn

LEMMA OwnCancel ==
    ASSUME NEW list \in Seq(Inflight), AllOwn(list), NEW c
    PROVE  AllOwn(cancelAndRemove(list, c))
  <1> DEFINE i == findMatchingInflightIndex(list, c)
  <1>1. CASE i = 0
    BY <1>1 DEF cancelAndRemove
  <1>2. CASE i # 0
    <2>1. i \in 1 .. Len(list)
      BY <1>2, FindRange
    <2>2. cancelAndRemove(list, c) = RemoveAt(list, i)
      BY <1>2 DEF cancelAndRemove
    <2> HIDE DEF i
    <2>3. /\ RemoveAt(list, i) \in Seq(Inflight) /\ Len(RemoveAt(list, i)) = Len(list) - 1
          /\ \A j \in 1 .. Len(list) - 1 :
               RemoveAt(list, i)[j] = list[j] \/ RemoveAt(list, i)[j] = list[j + 1]
      BY <2>1, RemoveAtShape
    <2> QED
      BY <2>2, <2>3 DEF AllOwn
  <1> QED
    BY <1>1, <1>2

LEMMA OwnFrame ==
    ASSUME wire \in Seq(Frame), FramesOwn, NEW m \in Message, NEW type \in MessageTypes,
           NEW error \in Nat, tx(m, type, error),
           m.lid = MyId /\ ~validListenerUnique(m.luid) =>
              /\ error = LISTENER_UNKNOWN_ID
              /\ type \in {CONNECT_RX_RESPONSE, DISCONNECT_RX_RESPONSE, GET_RX_STATE_RESPONSE}
    PROVE  FramesOwn'
  <1> DEFINE f == [pdu |-> Formed(m, type), error |-> error]
  <1>1. f \in Frame /\ f.error = error /\ f.pdu = Formed(m, type)
    BY FormedMessage DEF Frame
  <1>2. f.pdu.lid = m.lid /\ f.pdu.luid = m.luid /\ f.pdu.type = type
    BY <1>1, FormedMessage
  <1>3. f.pdu.lid = MyId /\ ~validListenerUnique(f.pdu.luid) => Refusal(f)
    BY <1>1, <1>2 DEF Refusal
  <1>4. wire' = Append(wire, f)
    BY DEF tx
  <1> HIDE DEF f
  <1>5. /\ DOMAIN wire' = 1 .. Len(wire) + 1 /\ DOMAIN wire = 1 .. Len(wire)
        /\ \A i \in 1 .. Len(wire) + 1 : wire'[i] = IF i <= Len(wire) THEN wire[i] ELSE f
    BY <1>1, <1>4
  <1> QED
    BY <1>3, <1>5 DEF FramesOwn, Refusal

LEMMA OwnRetry ==
    ASSUME OwnInv, HeadExpired, NEW type \in {CONNECT_TX_COMMAND, DISCONNECT_TX_COMMAND},
           NEW ms \in Nat, Retry(type, ms)
    PROVE  AllOwn(inflight') /\ AllOwn(retried') /\ FramesOwn'
  <1> DEFINE infl  == Head(inflight)
             rest  == Tail(inflight)
             i     == findMatchingInflightIndex(rest, infl.command)
             sent  == IF i = 0 THEN type + 1 ELSE type
             error == IF i = 0 THEN COULD_NOT_SEND_MESSAGE ELSE SUCCESS
  <1>1. infl \in Inflight /\ rest \in Seq(Inflight) /\ inflight # << >>
    BY HeadTailProperties DEF OwnInv, TypeOK, HeadExpired
  <1>2. AllOwn(rest) /\ validListenerUnique(infl.command.luid)
    BY <1>1, OwnTail DEF OwnInv, OnlyOwnSink, TypeOK
  <1>3. i \in 0 .. Len(rest)
    BY <1>1, FindRange
  <1>4. sent \in MessageTypes /\ error \in Nat
    BY DEF MessageTypes, CONNECT_TX_COMMAND, DISCONNECT_TX_COMMAND,
           COULD_NOT_SEND_MESSAGE, SUCCESS
  <1>5. infl.command \in Message
    BY <1>1 DEF Inflight
  <1>6. /\ inflight' = IF i = 0 THEN rest
                       ELSE [rest EXCEPT ![i] = [@ EXCEPT !.retried = TRUE,
                                                          !.timeout = Expiry(ms)]]
        /\ retried' = Append(retried, [infl EXCEPT !.retried = TRUE,
                                                   !.command = Formed(@, sent)])
        /\ tx(infl.command, sent, error)
    BY DEF Retry
  <1> HIDE DEF infl, rest, i, sent, error
  <1>7. AllOwn(inflight')
    BY <1>1, <1>2, <1>3, <1>6 DEF AllOwn, Inflight
  <1>8. AllOwn(retried')
    <2>1. Formed(infl.command, sent) \in Message
          /\ Formed(infl.command, sent).luid = infl.command.luid
      BY <1>4, <1>5, FormedMessage
    <2> DEFINE e == [infl EXCEPT !.retried = TRUE, !.command = Formed(@, sent)]
    <2>2. e \in Inflight /\ e.command = Formed(infl.command, sent)
      BY <1>1, <2>1 DEF Inflight
    <2>3. retried \in Seq(Inflight) /\ AllOwn(retried) /\ retried' = Append(retried, e)
      BY <1>6 DEF OwnInv, TypeOK
    <2> HIDE DEF e
    <2> QED
      BY <1>2, <2>1, <2>2, <2>3, OwnAppend
  <1>9. FramesOwn'
    BY <1>2, <1>4, <1>5, <1>6, OwnFrame DEF OwnInv, OnlyOwnSink, TypeOK
  <1> QED
    BY <1>7, <1>8, <1>9

\* Steps that touch neither the stream infos, the lists nor the wire
LEMMA QuietSteps ==
    ASSUME \/ acmp_cb \/ performTerminate \/ \E d \in TimeSteps : Tick(d)
           \/ ResetFlag \/ CheckEmpty \/ WaitReturns \/ ClearEvent \/ CheckTerminate
           \/ SkipCheck \/ UnboundCmd \/ UNCHANGED vars
    PROVE  UNCHANGED << infos, inflight, retried, wire >>
  BY DEF acmp_cb, PutMessage, SetFlag, SignalEvent, performTerminate, PerformTerminate,
         SignalTerminate, Tick, ResetFlag, CheckEmpty, WaitReturns, ClearEvent,
         CheckTerminate, SkipCheck, UnboundCmd, vars, local

LEMMA OwnTimeouts ==
    ASSUME OwnInv, DropExpired \/ handleConnectTxTimeout \/ handleDisconnectTxTimeout
    PROVE  AllOwn(inflight') /\ AllOwn(retried') /\ FramesOwn' /\ UNCHANGED infos
  <1>1. HeadExpired /\ UNCHANGED infos
    BY DEF DropExpired, handleConnectTxTimeout, handleDisconnectTxTimeout, ExpireNext
  <1>2. inflight \in Seq(Inflight) /\ inflight # << >> /\ AllOwn(inflight)
        /\ AllOwn(retried) /\ FramesOwn /\ wire \in Seq(Frame)
    BY <1>1 DEF HeadExpired, OwnInv, OnlyOwnSink, TypeOK
  <1>3. Head(inflight) \in Inflight /\ AllOwn(Tail(inflight))
        /\ validListenerUnique(Head(inflight).command.luid)
    BY <1>2, OwnTail, HeadTailProperties
  <1>4. ASSUME inflight' = Tail(inflight), UNCHANGED << retried, wire >>
        PROVE  AllOwn(inflight') /\ AllOwn(retried') /\ FramesOwn'
    BY <1>2, <1>3, <1>4 DEF FramesOwn, Refusal
  <1>5. ASSUME NEW type \in {CONNECT_TX_COMMAND, DISCONNECT_TX_COMMAND},
               NEW ms \in Nat, Retry(type, ms)
        PROVE  AllOwn(inflight') /\ AllOwn(retried') /\ FramesOwn'
    BY <1>1, <1>5, OwnRetry
  <1>6. CASE DropExpired
    BY <1>1, <1>4, <1>6 DEF DropExpired
  <1>7. CASE handleConnectTxTimeout
    BY <1>1, <1>4, <1>5, <1>7 DEF handleConnectTxTimeout, AbortOnRetried,
                                   CONNECT_TX_TIMEOUT_MS
  <1>8. CASE handleDisconnectTxTimeout
    <2>1. CASE Retry(DISCONNECT_TX_COMMAND, DISCONNECT_TX_TIMEOUT_MS)
      BY <1>1, <1>5, <2>1 DEF DISCONNECT_TX_TIMEOUT_MS
    <2>2. CASE ~Retry(DISCONNECT_TX_COMMAND, DISCONNECT_TX_TIMEOUT_MS)
      <3> DEFINE m == [Head(inflight).command EXCEPT
                         !.seq = Head(inflight).original_sequence_id]
      <3>1. m \in Message /\ m.luid = Head(inflight).command.luid
        BY <1>3 DEF Inflight, Message
      <3>2. /\ tx(m, DISCONNECT_RX_RESPONSE, LISTENER_TALKER_TIMEOUT)
            /\ inflight' = Tail(inflight) /\ UNCHANGED retried
        BY <1>8, <2>2 DEF handleDisconnectTxTimeout
      <3>3. DISCONNECT_RX_RESPONSE \in MessageTypes /\ LISTENER_TALKER_TIMEOUT \in Nat
        BY DEF DISCONNECT_RX_RESPONSE, MessageTypes, LISTENER_TALKER_TIMEOUT
      <3> HIDE DEF m
      <3>4. FramesOwn'
        BY <1>2, <1>3, <3>1, <3>2, <3>3, OwnFrame
      <3> QED
        BY <1>1, <1>2, <1>3, <3>2, <3>4
    <2> QED
      BY <2>1, <2>2
  <1> QED
    BY <1>6, <1>7, <1>8

\* A handler's valid branch adds entries and frames for the entity's own sink, its
\* other branch only a refusal.
LEMMA OwnHandlers ==
    ASSUME OwnInv,
           handleConnectRxCommand \/ handleConnectTxResponse \/ handleGetRxState
             \/ handleDisconnectRxCommand \/ handleDisconnectTxResponse
    PROVE  AllOwn(inflight') /\ AllOwn(retried') /\ FramesOwn' /\ InfosOwn'
  <1> DEFINE Kept == InfosOwn' /\ AllOwn(inflight') /\ FramesOwn'
  <1>0. /\ cmd # NoCmd /\ cmd \in Message /\ cmd.luid \in ListenerUids
        /\ cmd.status \in Nat /\ cmd.seq \in Nat
        /\ UNCHANGED retried
    BY DEF handleConnectRxCommand, handleConnectTxResponse, handleGetRxState,
           handleDisconnectRxCommand, handleDisconnectTxResponse, Handle, OwnInv, TypeOK,
           OwnMessage, Message
  <1>1. /\ InfosOwn /\ AllOwn(inflight) /\ FramesOwn /\ AllOwn(retried)
        /\ infos \in [ListenerUids -> StreamInfo \cup {NoInfo}]
        /\ inflight \in Seq(Inflight) /\ wire \in Seq(Frame) /\ now \in Nat
    BY DEF OwnInv, OnlyOwnSink, TypeOK
  <1>2. AllOwn(cancelAndRemove(inflight, cmd))
    BY <1>1, OwnCancel
  <1>3. ASSUME NEW type \in MessageTypes, NEW error \in Nat, validListenerUnique(cmd.luid),
               tx(cmd, type, error)
        PROVE  FramesOwn'
    BY <1>0, <1>1, <1>3, OwnFrame
  <1>4. ASSUME NEW type \in {CONNECT_TX_COMMAND, DISCONNECT_TX_COMMAND}, NEW ms \in Nat,
               validListenerUnique(cmd.luid), txNewCommand(type, ms)
        PROVE  AllOwn(inflight') /\ FramesOwn'
    <2> DEFINE e == [timeout |-> Expiry(ms), retried |-> FALSE, command |-> cmd,
                     original_sequence_id |-> cmd.seq]
    <2>1. e \in Inflight /\ e.command = cmd
      BY <1>0, <1>1, ExpiryRange DEF Inflight
    <2>2. inflight' = Append(inflight, e) /\ tx(cmd, type, SUCCESS)
      BY <1>4 DEF txNewCommand
    <2> HIDE DEF e
    <2> QED
      BY <1>1, <1>3, <1>4, <2>1, <2>2, OwnAppend, CodesType
  <1>5. ASSUME NEW type \in {CONNECT_RX_RESPONSE, DISCONNECT_RX_RESPONSE,
                             GET_RX_STATE_RESPONSE}, UnknownListener(type)
        PROVE  Kept
    <2>1. tx(cmd, type, LISTENER_UNKNOWN_ID) /\ UNCHANGED << infos, inflight >>
      BY <1>5 DEF UnknownListener, txResponse
    <2>2. FramesOwn'
      BY <1>0, <1>1, <1>5, <2>1, OwnFrame, CodesType
    <2> QED
      BY <1>1, <2>1, <2>2 DEF InfosOwn
  <1>6. ASSUME validListenerUnique(cmd.luid), NEW info,
               infos' = [infos EXCEPT ![cmd.luid] = info]
        PROVE  InfosOwn'
    BY <1>1, <1>6 DEF InfosOwn, validListenerUnique
  <1>7. ASSUME UNCHANGED << infos, inflight, wire >>
        PROVE  Kept
    BY <1>1, <1>7 DEF InfosOwn, FramesOwn, Refusal
  <1>8. CASE handleConnectRxCommand
    <2>1. CASE ~validListenerUnique(cmd.luid)
      BY <1>0, <1>1, <1>5, <1>8, <2>1 DEF handleConnectRxCommand
    <2>2. CASE validListenerUnique(cmd.luid)
      <3>1. ASSUME txResponse(CONNECT_RX_RESPONSE, LISTENER_EXCLUSIVE),
                   UNCHANGED << infos, inflight >>
            PROVE  Kept
        BY <1>1, <1>3, <2>2, <3>1, CodesType DEF txResponse, InfosOwn
      <3>2. ASSUME txNewCommand(CONNECT_TX_COMMAND, CONNECT_TX_TIMEOUT_MS), UNCHANGED infos
            PROVE  Kept
        BY <1>1, <1>4, <2>2, <3>2, CodesType DEF InfosOwn
      <3>3. ASSUME txNewCommand(CONNECT_TX_COMMAND, CONNECT_TX_TIMEOUT_MS),
                   infos' = [infos EXCEPT ![cmd.luid].tid = cmd.tid,
                                          ![cmd.luid].tuid = cmd.tuid,
                                          ![cmd.luid].pending = TRUE]
            PROVE  Kept
        <4>1. InfosOwn'
          BY <1>0, <1>1, <2>2, <3>3 DEF InfosOwn, validListenerUnique
        <4> QED
          BY <1>4, <2>2, <3>3, <4>1, CodesType
      <3> QED
        BY <1>0, <1>1, <1>8, <2>2, <3>1, <3>2, <3>3
           DEF handleConnectRxCommand, UnknownListener
    <2> QED
      BY <2>1, <2>2
  <1>9. CASE handleConnectTxResponse
    <2>1. ASSUME validListenerUnique(cmd.luid),
                 infos' = IF cmd.status = SUCCESS
                            THEN [infos EXCEPT ![cmd.luid] = ConnectedInfo(cmd)]
                            ELSE [infos EXCEPT ![cmd.luid].pending = FALSE],
                 inflight' = cancelAndRemove(inflight, cmd),
                 txResponse(CONNECT_RX_RESPONSE, cmd.status)
          PROVE  Kept
      <3>1. InfosOwn'
        <4>1. CASE cmd.status = SUCCESS
          BY <1>6, <2>1, <4>1
        <4>2. CASE cmd.status # SUCCESS
          BY <1>0, <1>1, <2>1, <4>2 DEF InfosOwn, validListenerUnique
        <4> QED
          BY <4>1, <4>2
      <3>2. FramesOwn'
        BY <1>0, <1>3, <2>1, CodesType DEF txResponse
      <3> QED
        BY <1>2, <2>1, <3>1, <3>2
    <2> QED
      BY <1>0, <1>1, <1>7, <1>9, <2>1 DEF handleConnectTxResponse
  <1>10. CASE handleGetRxState
    <2>1. ASSUME infos[cmd.luid] # NoInfo,
                 tx(StateResponse(infos[cmd.luid]), GET_RX_STATE_RESPONSE, SUCCESS),
                 UNCHANGED << infos, inflight >>
          PROVE  Kept
      <3>1. infos[cmd.luid] \in StreamInfo
        BY <1>0, <1>1, <2>1
      <3>2. StateResponse(infos[cmd.luid]) \in Message /\ StateResponse(infos[cmd.luid]).lid = 0
        BY <3>1, InfoTypes DEF StateResponse
      <3>3. FramesOwn'
        BY <1>1, <2>1, <3>2, OwnFrame, CodesType, ConstantsAssumption
      <3> QED
        BY <1>1, <2>1, <3>3 DEF InfosOwn
    <2> QED
      BY <1>0, <1>1, <1>5, <1>7, <1>10, <2>1 DEF handleGetRxState
  <1>11. CASE handleDisconnectRxCommand
    <2>1. CASE UnknownListener(DISCONNECT_RX_RESPONSE)
      BY <1>0, <1>1, <1>5, <2>1
    <2>2. ASSUME validListenerUnique(cmd.luid),
                 infos' = [infos EXCEPT ![cmd.luid] = ZeroInfo],
                 txNewCommand(DISCONNECT_TX_COMMAND, DISCONNECT_TX_TIMEOUT_MS)
          PROVE  Kept
      BY <1>4, <1>6, <2>2, CodesType
    <2>3. ASSUME validListenerUnique(cmd.luid),
                 txResponse(DISCONNECT_RX_RESPONSE, NOT_CONNECTED),
                 UNCHANGED << infos, inflight >>
          PROVE  Kept
      BY <1>1, <1>3, <2>3, CodesType DEF txResponse, InfosOwn
    <2> QED
      BY <1>0, <1>1, <1>11, <2>1, <2>2, <2>3 DEF handleDisconnectRxCommand
  <1>12. CASE handleDisconnectTxResponse
    <2>1. ASSUME validListenerUnique(cmd.luid),
                 inflight' = cancelAndRemove(inflight, cmd),
                 txResponse(DISCONNECT_RX_RESPONSE, cmd.status), UNCHANGED infos
          PROVE  Kept
      BY <1>0, <1>1, <1>2, <1>3, <2>1, CodesType DEF txResponse, InfosOwn
    <2> QED
      BY <1>0, <1>1, <1>7, <1>12, <2>1 DEF handleDisconnectTxResponse
  <1> QED
    BY <1>8, <1>9, <1>10, <1>11, <1>12

LEMMA OwnNext == OwnInv /\ [Next]_vars => OwnInv'
  <1> SUFFICES ASSUME OwnInv, [Next]_vars PROVE OwnInv'
    OBVIOUS
  <1>1. TypeOK'
    BY TypeNext DEF OwnInv
  <1>2. ASSUME UNCHANGED << infos, inflight, retried, wire >> PROVE OwnInv'
    BY <1>1, <1>2 DEF OwnInv, OnlyOwnSink, InfosOwn, AllOwn, FramesOwn, Refusal
  <1>3. CASE GetMessage
    <2>1. AllOwn(<< >>)
      BY DEF AllOwn
    <2> QED
      BY <1>1, <1>3, <2>1 DEF GetMessage, OwnInv, OnlyOwnSink, InfosOwn, AllOwn, FramesOwn,
                              Refusal
  <1>4. CASE ReinsertRetried
    <2>1. AllOwn(retried \o inflight)
      BY OwnConcat DEF OwnInv, OnlyOwnSink, TypeOK
    <2> QED
      BY <1>1, <1>4, <2>1 DEF ReinsertRetried, OwnInv, OnlyOwnSink, InfosOwn, AllOwn,
                              FramesOwn, Refusal
  <1>5. CASE DropExpired \/ handleConnectTxTimeout \/ handleDisconnectTxTimeout
    BY <1>1, <1>5, OwnTimeouts DEF OwnInv, OnlyOwnSink, InfosOwn, AllOwn
  <1>6. CASE handleConnectRxCommand \/ handleConnectTxResponse \/ handleGetRxState
               \/ handleDisconnectRxCommand \/ handleDisconnectTxResponse
    BY <1>1, <1>6, OwnHandlers DEF OwnInv, OnlyOwnSink, AllOwn
  <1> QED
    BY <1>2, <1>3, <1>4, <1>5, <1>6, QuietSteps DEF Next, ThreadStep

LEMMA OwnInit == Init => OwnInv
  BY TypeInit DEF Init, OwnInv, OnlyOwnSink, InfosOwn, AllOwn, FramesOwn

\* A message for a sink the entity does not have changes no stream info, starts nothing
\* in flight and is answered, if at all, by LISTENER_UNKNOWN_ID, in every interleaving.
THEOREM UnknownSinksRefused == Spec => []OnlyOwnSink
  <1>1. OwnInv => OnlyOwnSink
    BY DEF OwnInv
  <1> QED
    BY <1>1, OwnInit, OwnNext, PTL DEF Spec

-----------------------------------------------------------------------------
(* What a message costs.                                                   *)

\* The entries in flight that may still be retried
Unretried(list) == { i \in DOMAIN list : ~list[i].retried }
Fresh(list)     == Cardinality(Unretried(list))

\* A flag that is set and that run() is not about to reset leads to one more handler: two
\* frames at most (one is a retry) and an entry.
Live(t)   == flags[t] /\ ~(pc = "reset" /\ \E i \in k .. 5 : ResetOrder[i] = t)
Worth(t)  == IF Live(t) THEN 3 ELSE 0
FlagWorth == Worth(CONNECT_RX_COMMAND) + Worth(CONNECT_TX_RESPONSE)
               + Worth(GET_RX_STATE_COMMAND) + Worth(DISCONNECT_RX_COMMAND)
               + Worth(DISCONNECT_TX_RESPONSE)

\* Frames sent and entries kept, those that wait to be put back included, and the retries
\* the entries are still due
InHand  == IF pc = "expire" THEN Len(retried) ELSE 0
Entries == Len(inflight) + InHand
Spent   == Len(wire) + Entries + Fresh(inflight)

\* A message that acmp_cb has put is worth as much as the flag it is about to set.
Unflagged == IF cb = "flag" THEN 3 ELSE 0
Coming    == FlagWorth + Unflagged

CostInv ==
    /\ pc = "expire" => Unretried(retried) = {}
    /\ Spent + Coming <= 3 * Len(arrived)

LEMMA FreshFinite ==
    ASSUME NEW list \in Seq(Inflight)
    PROVE  IsFiniteSet(Unretried(list)) /\ Fresh(list) \in Nat
  <1>1. Len(list) \in Int /\ 1 \in Int /\ DOMAIN list = 1 .. Len(list)
    BY LenProperties
  <1>2. IsFiniteSet(1 .. Len(list))
    BY <1>1, FS_Interval
  <1>3. Unretried(list) \in SUBSET (1 .. Len(list))
    BY <1>1 DEF Unretried
  <1> QED
    BY <1>2, <1>3, FS_Subset, FS_CardinalityType DEF Fresh

LEMMA FreshAppend ==
    ASSUME NEW list \in Seq(Inflight), NEW e \in Inflight
    PROVE  /\ Fresh(Append(list, e)) <= Fresh(list) + 1
           /\ e.retried /\ Unretried(list) = {} => Unretried(Append(list, e)) = {}
  <1>1. /\ DOMAIN list = 1 .. Len(list) /\ DOMAIN Append(list, e) = 1 .. Len(list) + 1
        /\ Append(list, e)[Len(list) + 1] = e
        /\ \A i \in 1 .. Len(list) : Append(list, e)[i] = list[i]
    BY AppendProperties, LenProperties
  <1>2. Unretried(Append(list, e)) \in SUBSET (Unretried(list) \cup {Len(list) + 1})
    BY <1>1 DEF Unretried
  <1>3. /\ IsFiniteSet(Unretried(list) \cup {Len(list) + 1})
        /\ Cardinality(Unretried(list) \cup {Len(list) + 1}) <= Fresh(list) + 1
    <2>1. IsFiniteSet(Unretried(list)) /\ Cardinality(Unretried(list)) \in Nat
      BY FreshFinite DEF Fresh
    <2> DEFINE U == Unretried(list)
               x == Len(list) + 1
    <2>2. /\ IsFiniteSet(U \cup {x})
          /\ Cardinality(U \cup {x}) = IF x \in U THEN Cardinality(U) ELSE Cardinality(U) + 1
      <3> HIDE DEF U, x
      <3> QED
        BY <2>1, FS_AddElement DEF U
    <2> QED
      BY <2>1, <2>2 DEF Fresh
  <1>4. Cardinality(Unretried(Append(list, e)))
          <= Cardinality(Unretried(list) \cup {Len(list) + 1})
    BY <1>2, <1>3, FS_Subset
  <1>5. Append(list, e) \in Seq(Inflight)
    OBVIOUS
  <1>6. Fresh(Append(list, e)) <= Fresh(list) + 1
    <2>1. Cardinality(Unretried(list) \cup {Len(list) + 1}) \in Nat
      BY <1>3, FS_CardinalityType
    <2>2. Fresh(Append(list, e)) \in Nat /\ Fresh(list) \in Nat
      BY <1>5, FreshFinite
    <2> QED
      BY <1>3, <1>4, <2>1, <2>2 DEF Fresh
  <1>7. e.retried /\ Unretried(list) = {} => Unretried(Append(list, e)) = {}
    BY <1>1 DEF Unretried
  <1> QED
    BY <1>6, <1>7

\* Entries that move to other places are as many as before.
LEMMA FreshMoved ==
    ASSUME NEW list \in Seq(Inflight), NEW moved \in Seq(Inflight),
           NEW D \in SUBSET Unretried(list), NEW f \in [Unretried(moved) -> D],
           \A i, j \in Unretried(moved) : f[i] = f[j] => i = j
    PROVE  Fresh(moved) <= Cardinality(D) /\ Cardinality(D) <= Fresh(list)
  <1>1. f \in Injection(Unretried(moved), D)
    BY DEF Injection, IsInjective
  <1>2. IsFiniteSet(D) /\ Cardinality(D) <= Fresh(list)
    BY FreshFinite, FS_Subset DEF Fresh
  <1> QED
    BY <1>1, <1>2, FS_Injection DEF Fresh

LEMMA FreshTail ==
    ASSUME NEW list \in Seq(Inflight), list # << >>
    PROVE  /\ Fresh(Tail(list)) <= Fresh(list)
           /\ ~Head(list).retried => Fresh(Tail(list)) + 1 <= Fresh(list)
  <1> DEFINE f == [i \in Unretried(Tail(list)) |-> i + 1]
  <1>1. /\ Len(list) \in Nat \ {0} /\ Head(list) = list[1] /\ Tail(list) \in Seq(Inflight)
        /\ DOMAIN list = 1 .. Len(list) /\ DOMAIN Tail(list) = 1 .. Len(list) - 1
        /\ \A i \in 1 .. Len(list) - 1 : Tail(list)[i] = list[i + 1]
    BY HeadTailProperties, LenProperties, EmptySeq
  <1>2. \A i \in Unretried(Tail(list)) : i \in Nat /\ i + 1 \in Unretried(list) \ {1}
    BY <1>1 DEF Unretried
  <1>3. f \in [Unretried(Tail(list)) -> Unretried(list) \ {1}]
    BY <1>2
  <1>4. \A i, j \in Unretried(Tail(list)) : f[i] = f[j] => i = j
    BY <1>2
  <1> HIDE DEF f
  <1>5. /\ Fresh(Tail(list)) <= Cardinality(Unretried(list) \ {1})
        /\ Cardinality(Unretried(list) \ {1}) <= Fresh(list)
    <2>1. Unretried(list) \ {1} \in SUBSET Unretried(list)
      OBVIOUS
    <2> QED
      BY <1>1, <1>3, <1>4, <2>1, FreshMoved
  <1>6. 1 \in Unretried(list) => Cardinality(Unretried(list) \ {1}) = Fresh(list) - 1
    BY FreshFinite, FS_RemoveElement DEF Fresh
  <1>7. ~Head(list).retried => 1 \in Unretried(list)
    BY <1>1 DEF Unretried
  <1>8. Cardinality(Unretried(list) \ {1}) \in Nat
    BY FreshFinite, FS_RemoveElement, FS_CardinalityType
  <1>9. Fresh(Tail(list)) \in Nat /\ Fresh(list) \in Nat
    BY <1>1, FreshFinite
  <1> QED
    BY <1>5, <1>6, <1>7, <1>8, <1>9

LEMMA FreshCancel ==
    ASSUME NEW list \in Seq(Inflight), NEW c
    PROVE  /\ Fresh(cancelAndRemove(list, c)) <= Fresh(list)
           /\ Len(cancelAndRemove(list, c)) <= Len(list)
  <1> DEFINE n == findMatchingInflightIndex(list, c)
  <1>1. CASE n = 0
    BY <1>1, FreshFinite, LenProperties DEF cancelAndRemove
  <1>2. CASE n # 0
    <2>1. n \in 1 .. Len(list) /\ Len(list) \in Nat
      BY <1>2, FindRange, LenProperties
    <2>2. cancelAndRemove(list, c) = RemoveAt(list, n)
      BY <1>2 DEF cancelAndRemove
    <2> HIDE DEF n
    <2> DEFINE f == [j \in Unretried(RemoveAt(list, n)) |-> IF j < n THEN j ELSE j + 1]
    <2>3. /\ RemoveAt(list, n) \in Seq(Inflight)
          /\ Len(RemoveAt(list, n)) = Len(list) - 1
          /\ \A j \in 1 .. Len(list) - 1 :
               RemoveAt(list, n)[j] = IF j < n THEN list[j] ELSE list[j + 1]
      BY <2>1, RemoveAtShape
    <2>4. DOMAIN list = 1 .. Len(list) /\ DOMAIN RemoveAt(list, n) = 1 .. Len(list) - 1
      BY <2>3, LenProperties
    <2>5. \A j \in Unretried(RemoveAt(list, n)) :
             j \in Nat /\ (IF j < n THEN j ELSE j + 1) \in Unretried(list)
      BY <2>1, <2>3, <2>4 DEF Unretried
    <2>6. f \in [Unretried(RemoveAt(list, n)) -> Unretried(list)]
      BY <2>5
    <2>7. \A i, j \in Unretried(RemoveAt(list, n)) : f[i] = f[j] => i = j
      BY <2>1, <2>5
    <2> HIDE DEF f
    <2>8. /\ Fresh(RemoveAt(list, n)) <= Cardinality(Unretried(list))
          /\ Len(RemoveAt(list, n)) <= Len(list)
      <3>1. Unretried(list) \in SUBSET Unretried(list)
        OBVIOUS
      <3> QED
        BY <2>1, <2>3, <2>6, <2>7, <3>1, FreshMoved
    <2> QED
      BY <2>2, <2>8 DEF Fresh
  <1> QED
    BY <1>1, <1>2

LEMMA FreshConcat ==
    ASSUME NEW s \in Seq(Inflight), NEW t \in Seq(Inflight), Unretried(s) = {}
    PROVE  Fresh(s \o t) <= Fresh(t) /\ Len(s \o t) = Len(s) + Len(t)
  <1> DEFINE f == [i \in Unretried(s \o t) |-> i - Len(s)]
  <1>1. /\ s \o t \in Seq(Inflight) /\ Len(s \o t) = Len(s) + Len(t)
        /\ \A i \in 1 .. Len(s) + Len(t) :
             (s \o t)[i] = IF i <= Len(s) THEN s[i] ELSE t[i - Len(s)]
    BY ConcatProperties
  <1>2. /\ DOMAIN (s \o t) = 1 .. Len(s) + Len(t) /\ DOMAIN s = 1 .. Len(s)
        /\ DOMAIN t = 1 .. Len(t) /\ Len(s) \in Nat /\ Len(t) \in Nat
    BY <1>1, LenProperties
  <1>3. \A i \in Unretried(s \o t) : i \in Nat /\ i - Len(s) \in Unretried(t)
    <2> SUFFICES ASSUME NEW i \in Unretried(s \o t)
                 PROVE  i \in Nat /\ i - Len(s) \in Unretried(t)
      OBVIOUS
    <2>1. i \in 1 .. Len(s) + Len(t) /\ ~(s \o t)[i].retried
      BY <1>2 DEF Unretried
    <2>2. i \in 1 .. Len(s) => s[i].retried
      BY <1>2 DEF Unretried
    <2>3. ~(i <= Len(s))
      BY <1>1, <1>2, <2>1, <2>2
    <2>4. i - Len(s) \in 1 .. Len(t) /\ ~t[i - Len(s)].retried
      BY <1>1, <1>2, <2>1, <2>3
    <2> QED
      BY <1>2, <2>1, <2>4 DEF Unretried
  <1>4. f \in [Unretried(s \o t) -> Unretried(t)]
    BY <1>3
  <1>5. \A i, j \in Unretried(s \o t) : f[i] = f[j] => i = j
    BY <1>2, <1>3
  <1> HIDE DEF f
  <1>6. Unretried(t) \in SUBSET Unretried(t)
    OBVIOUS
  <1>7. Fresh(s \o t) <= Cardinality(Unretried(t))
    BY <1>1, <1>4, <1>5, <1>6, FreshMoved
  <1> QED
    BY <1>1, <1>7 DEF Fresh

\* The five flags together
LEMMA WorthBound ==
    /\ {FlagWorth, FlagWorth'} \subseteq Nat
    /\ (\A t \in FlagTypes : Live(t)' => Live(t)) => FlagWorth' <= FlagWorth
    /\ \A s \in FlagTypes :
         (\A t \in FlagTypes \ {s} : Live(t)' => Live(t)) => FlagWorth' <= FlagWorth + 3
    /\ \A s \in FlagTypes :
         Live(s) /\ ~Live(s)' /\ (\A t \in FlagTypes : Live(t)' => Live(t))
           => FlagWorth' + 3 <= FlagWorth
  BY DEF FlagWorth, Worth, FlagTypes, CONNECT_RX_COMMAND, CONNECT_TX_RESPONSE,
         GET_RX_STATE_COMMAND, DISCONNECT_RX_COMMAND, DISCONNECT_TX_RESPONSE

LEMMA CostNumbers ==
    TypeOK => /\ {Len(wire), Entries, Fresh(inflight)} \subseteq Nat
              /\ {Len(inflight), InHand, Len(arrived)} \subseteq Nat
  <1> SUFFICES ASSUME TypeOK
               PROVE  /\ {Len(wire), Entries, Fresh(inflight)} \subseteq Nat
                      /\ {Len(inflight), InHand, Len(arrived)} \subseteq Nat
    OBVIOUS
  <1>1. {Len(wire), Fresh(inflight), Len(inflight), InHand, Len(arrived)} \subseteq Nat
    BY FreshFinite, LenProperties DEF TypeOK, InHand
  <1>2. Entries \in Nat
    BY <1>1 DEF Entries
  <1> QED
    BY <1>1, <1>2

LEMMA CostNumbersAfter ==
    TypeOK' => /\ {Len(wire'), Entries', Fresh(inflight')} \subseteq Nat
               /\ {Len(inflight'), InHand', Len(arrived')} \subseteq Nat
  <1> SUFFICES ASSUME TypeOK'
               PROVE  /\ {Len(wire'), Entries', Fresh(inflight')} \subseteq Nat
                      /\ {Len(inflight'), InHand', Len(arrived')} \subseteq Nat
    OBVIOUS
  <1>1. {Len(wire'), Fresh(inflight'), Len(inflight'), InHand', Len(arrived')} \subseteq Nat
    BY FreshFinite, LenProperties DEF TypeOK, InHand
  <1>2. Entries' \in Nat
    BY <1>1 DEF Entries
  <1> QED
    BY <1>1, <1>2

LEMMA SpentNumbers == (TypeOK => Spent \in Nat) /\ (TypeOK' => Spent' \in Nat)
  <1>1. TypeOK => Spent \in Nat
    BY CostNumbers DEF Spent
  <1>2. TypeOK' => Spent' \in Nat
    BY CostNumbersAfter DEF Spent
  <1> QED
    BY <1>1, <1>2

LEMMA UnflaggedRange ==
    /\ {Unflagged, Unflagged'} \subseteq Nat
    /\ Unflagged' <= 3
    /\ (cb' = "flag" => cb = "flag") => Unflagged' <= Unflagged
    /\ cb = "flag" => Unflagged = 3
    /\ cb # "flag" => Unflagged = 0
    /\ cb' # "flag" => Unflagged' = 0
  BY DEF Unflagged

\* The flags once a handler is through, or the iteration is cut short
LEMMA FlagSpent ==
    ASSUME TypeOK, pc = "check", NEW type \in FlagTypes, CheckOrder[k] = type, flags[type],
           Done(type) \/ Abort \/ (Advance /\ UNCHANGED flags /\ k = 5)
    PROVE  Live(type) /\ ~Live(type)' /\ \A t \in FlagTypes : Live(t)' => Live(t)
  <1>1. flags \in [FlagTypes -> BOOLEAN] /\ k \in 1 .. 5
    BY DEF TypeOK
  <1>2. \A t \in FlagTypes : \E i \in 1 .. 5 : ResetOrder[i] = t
    BY DEF ResetOrder, FlagTypes
  <1>3. CASE Done(type)
    BY <1>1, <1>3 DEF Done, Live
  <1>4. CASE Abort \/ (Advance /\ UNCHANGED flags /\ k = 5)
    <2>1. pc' = "reset" /\ k' = 1 /\ flags' = flags
      BY <1>4 DEF Abort, Advance
    <2>2. \A t \in FlagTypes : ~Live(t)'
      BY <1>2, <2>1 DEF Live
    <2> QED
      BY <2>2 DEF Live
  <1> QED
    BY <1>3, <1>4

\* Steps that neither send, nor change an entry, nor set a flag
LEMMA CostQuiet ==
    ASSUME TypeOK, CostInv, UNCHANGED << inflight, retried, wire, arrived >>,
           cb' = "flag" => cb = "flag", pc' = "expire" <=> pc = "expire",
           \A t \in FlagTypes : Live(t)' => Live(t)
    PROVE  CostInv'
  <1>1. {FlagWorth, FlagWorth'} \subseteq Nat /\ FlagWorth' <= FlagWorth
    BY WorthBound
  <1>2. Spent' = Spent /\ Spent \in Nat /\ Len(arrived) \in Nat /\ Len(arrived') = Len(arrived)
    <2>1. InHand' = InHand
      BY DEF InHand
    <2>2. Entries' = Entries
      BY <2>1 DEF Entries
    <2> QED
      BY <2>2, CostNumbers, SpentNumbers DEF Spent
  <1>3. Coming' <= Coming /\ {Coming, Coming'} \subseteq Nat
    BY <1>1, UnflaggedRange DEF Coming
  <1> QED
    BY <1>2, <1>3 DEF CostInv

\* A message brings what its handler may cost, which passes to its flag.
LEMMA CostArrival ==
    ASSUME TypeOK, TypeOK', CostInv,
           SetFlag \/ (\E m \in Incoming(Len(arrived) + 1) : PutMessage(m))
    PROVE  CostInv'
  <1>1. UNCHANGED << inflight, retried, wire, pc, k >>
    BY DEF SetFlag, PutMessage, local
  <1>2. Spent' = Spent /\ Spent \in Nat /\ Len(arrived) \in Nat
    <2>1. InHand' = InHand
      BY <1>1 DEF InHand
    <2>2. Entries' = Entries
      BY <1>1, <2>1 DEF Entries
    <2> QED
      BY <1>1, <2>2, CostNumbers, SpentNumbers DEF Spent
  <1>3. CASE SetFlag
    <2>1. /\ cb = "flag" /\ cb' = "signal" /\ arrived' = arrived
          /\ flags' = [flags EXCEPT ![cbType] = TRUE] /\ flags \in [FlagTypes -> BOOLEAN]
      BY <1>3 DEF SetFlag, TypeOK
    <2>2. FlagWorth' <= FlagWorth + 3 /\ {FlagWorth, FlagWorth'} \subseteq Nat
      <3>1. CASE cbType \in FlagTypes
        <4>1. \A t \in FlagTypes \ {cbType} : Live(t)' => Live(t)
          BY <1>1, <2>1 DEF Live
        <4> QED
          BY <3>1, <4>1, WorthBound
      <3>2. CASE cbType \notin FlagTypes
        <4>1. \A t \in FlagTypes : Live(t)' => Live(t)
          BY <1>1, <2>1, <3>2 DEF Live
        <4> QED
          BY <4>1, WorthBound
      <3> QED
        BY <3>1, <3>2
    <2>3. Coming' <= Coming /\ {Coming, Coming'} \subseteq Nat
      BY <2>1, <2>2, UnflaggedRange DEF Coming
    <2> QED
      BY <1>1, <1>2, <2>1, <2>3 DEF CostInv
  <1>4. ASSUME NEW m \in Incoming(Len(arrived) + 1), PutMessage(m)
        PROVE  CostInv'
    <2>1. /\ cb = "idle" /\ flags' = flags /\ arrived' = Append(arrived, m)
          /\ arrived' \in Seq(Message)
      BY <1>4 DEF PutMessage, TypeOK
    <2>2. Len(arrived') = Len(arrived) + 1
      BY <2>1 DEF TypeOK
    <2>3. FlagWorth' <= FlagWorth /\ {FlagWorth, FlagWorth'} \subseteq Nat
      BY <1>1, <2>1, WorthBound DEF FlagWorth, Worth, Live
    <2>4. Coming' <= Coming + 3 /\ {Coming, Coming'} \subseteq Nat
      BY <2>1, <2>3, UnflaggedRange DEF Coming
    <2> QED
      BY <1>1, <1>2, <2>2, <2>4 DEF CostInv
  <1> QED
    BY <1>3, <1>4

\* A retry is a frame and an entry that will not be retried again; a report is a frame and
\* an entry that is gone.
LEMMA CostRetry ==
    ASSUME TypeOK, TypeOK', CostInv, pc = "expire", HeadExpired,
           NEW type \in MessageTypes, NEW ms \in Nat, Retry(type, ms)
    PROVE  Unretried(retried') = {} /\ Spent' <= Spent
  <1> DEFINE infl == Head(inflight)
             rest == Tail(inflight)
             i    == findMatchingInflightIndex(rest, infl.command)
             sent == IF i = 0 THEN type + 1 ELSE type
             e    == [infl EXCEPT !.retried = TRUE, !.command = Formed(@, sent)]
  <1>1. /\ inflight \in Seq(Inflight) /\ inflight # << >> /\ retried \in Seq(Inflight)
        /\ inflight' \in Seq(Inflight)
        /\ infl \in Inflight /\ rest \in Seq(Inflight) /\ Len(rest) = Len(inflight) - 1
    BY HeadTailProperties DEF TypeOK, HeadExpired
  <1>2. /\ inflight' = IF i = 0 THEN rest
                       ELSE [rest EXCEPT ![i] = [@ EXCEPT !.retried = TRUE,
                                                          !.timeout = Expiry(ms)]]
        /\ retried' = Append(retried, e) /\ ~infl.retried /\ pc' = pc
        /\ \E f : wire' = Append(wire, f)
    BY DEF Retry, tx
  <1>3. e.retried /\ e \in Inflight
    <2>1. e.retried
      BY <1>1 DEF Inflight
    <2>2. retried' \in Seq(Inflight) /\ Len(retried') = Len(retried) + 1
          /\ retried'[Len(retried) + 1] = e
      BY <1>1, <1>2 DEF TypeOK
    <2>3. Len(retried) + 1 \in 1 .. Len(retried')
      BY <1>1, <2>2, LenProperties
    <2> HIDE DEF e
    <2> QED
      BY <2>1, <2>2, <2>3
  <1>4. Fresh(rest) + 1 <= Fresh(inflight)
    BY <1>1, <1>2, FreshTail
  <1> HIDE DEF infl, rest, e
  <1>5. Unretried(retried') = {} /\ Len(retried') = Len(retried) + 1
    <2>1. retried' = Append(retried, e) /\ Unretried(retried) = {}
      BY <1>2 DEF CostInv
    <2>2. Unretried(Append(retried, e)) = {}
      BY <1>1, <1>3, <2>1, FreshAppend
    <2>3. Len(Append(retried, e)) = Len(retried) + 1
      BY <1>1, <1>3, AppendProperties
    <2> QED
      BY <2>1, <2>2, <2>3
  <1>6. Len(wire') = Len(wire) + 1
    BY <1>2 DEF TypeOK
  <1>7. Fresh(inflight') <= Fresh(rest) /\ Len(inflight') = Len(rest)
    <2>1. CASE i = 0
      BY <1>1, <1>2, <2>1, FreshFinite
    <2>2. CASE i # 0
      <3>1. i \in 1 .. Len(rest)
        BY <1>1, <2>2, FindRange
      <3> HIDE DEF i
      <3>2. /\ DOMAIN inflight' = DOMAIN rest
            /\ \A j \in DOMAIN rest : j # i => inflight'[j] = rest[j]
            /\ inflight'[i].retried
        <4>1. i \in DOMAIN rest /\ rest[i] \in Inflight
          BY <1>1, <3>1
        <4> QED
          BY <1>1, <1>2, <2>2, <4>1 DEF Inflight
      <3>3. Unretried(inflight') \in SUBSET Unretried(rest)
        BY <3>2 DEF Unretried
      <3>4. Fresh(inflight') <= Fresh(rest)
        BY <1>1, <3>3, FreshFinite, FS_Subset DEF Fresh
      <3>5. Len(inflight') = Len(rest)
        BY <1>1, <3>2, LenProperties
      <3> QED
        BY <3>4, <3>5
    <2> QED
      BY <2>1, <2>2
  <1>8. Entries' <= Entries
    <2>1. InHand' <= InHand + 1
      BY <1>1, <1>2, <1>5, LenProperties DEF InHand
    <2>2. Len(inflight') + 1 <= Len(inflight)
      BY <1>1, <1>7, LenProperties
    <2> QED
      BY <2>1, <2>2, CostNumbers, CostNumbersAfter, SMTT(30) DEF Entries
  <1>9. Fresh(inflight') + 1 <= Fresh(inflight)
    <2>1. {Fresh(rest), Fresh(inflight), Fresh(inflight')} \subseteq Nat
      BY <1>1, FreshFinite
    <2> QED
      BY <1>4, <1>7, <2>1
  <1>10. Spent' <= Spent
    BY <1>6, <1>8, <1>9, CostNumbers, CostNumbersAfter, SMTT(30) DEF Spent
  <1> QED
    BY <1>5, <1>10

LEMMA CostTimeouts ==
    ASSUME TypeOK, TypeOK', CostInv,
           DropExpired \/ handleConnectTxTimeout \/ handleDisconnectTxTimeout
    PROVE  CostInv'
  <1>1. /\ pc = "expire" /\ HeadExpired /\ pc' \in {"expire", "reset"}
        /\ UNCHANGED << flags, k, cb, arrived >>
    BY DEF DropExpired, handleConnectTxTimeout, handleDisconnectTxTimeout, ExpireNext,
           AbortOnRetried, Retry, shared, network
  <1>2. Coming' <= Coming /\ {Coming, Coming'} \subseteq Nat
    <2>1. \A t \in FlagTypes : Live(t)' => Live(t)
      BY <1>1 DEF Live
    <2> QED
      BY <1>1, <2>1, WorthBound, UnflaggedRange DEF Coming
  <1>3. ASSUME Spent' <= Spent, pc' = "expire" => Unretried(retried') = {}
        PROVE  CostInv'
    <2>1. {Spent, Spent'} \subseteq Nat /\ Len(arrived) \in Nat /\ Len(arrived') = Len(arrived)
      BY <1>1, CostNumbers, CostNumbersAfter DEF Spent
    <2> QED
      BY <1>2, <1>3, <2>1 DEF CostInv
  <1>4. /\ Fresh(Tail(inflight)) <= Fresh(inflight)
        /\ Len(Tail(inflight)) = Len(inflight) - 1
    BY <1>1, FreshTail, HeadTailProperties DEF TypeOK, HeadExpired
  <1>5. ASSUME inflight' = Tail(inflight), retried' = retried,
               wire' = wire \/ \E f : wire' = Append(wire, f)
        PROVE  CostInv'
    <2>1. Len(wire') <= Len(wire) + 1
      BY <1>5 DEF TypeOK
    <2>2. InHand' <= InHand
      BY <1>1, <1>5, CostNumbers DEF InHand
    <2>3. Entries' + 1 <= Entries
      <3>1. Len(inflight') + 1 <= Len(inflight)
        BY <1>4, <1>5, CostNumbers
      <3> QED
        BY <2>2, <3>1, CostNumbers, CostNumbersAfter, SMTT(30) DEF Entries
    <2>4. Fresh(inflight') <= Fresh(inflight)
      BY <1>4, <1>5
    <2>5. Spent' <= Spent
      BY <2>1, <2>3, <2>4, CostNumbers, CostNumbersAfter, SMTT(30) DEF Spent
    <2>6. Unretried(retried') = {}
      BY <1>1, <1>5 DEF CostInv
    <2> QED
      BY <1>3, <2>5, <2>6
  <1>6. ASSUME NEW type \in {CONNECT_TX_COMMAND, DISCONNECT_TX_COMMAND}, NEW ms \in Nat,
               Retry(type, ms)
        PROVE  CostInv'
    <2>1. type \in MessageTypes
      BY CodesType
    <2> QED
      BY <1>1, <1>3, <1>6, <2>1, CostRetry
  <1>7. CASE DropExpired
    BY <1>5, <1>7 DEF DropExpired
  <1>8. CASE handleConnectTxTimeout
    BY <1>5, <1>6, <1>8, CodesType DEF handleConnectTxTimeout, AbortOnRetried
  <1>9. CASE handleDisconnectTxTimeout
    BY <1>5, <1>6, <1>9, CodesType DEF handleDisconnectTxTimeout, tx
  <1> QED
    BY <1>7, <1>8, <1>9

\* The list of retries starts empty, and goes in front of the entries in flight.
LEMMA CostAround ==
    ASSUME TypeOK, TypeOK', CostInv, GetMessage \/ ReinsertRetried
    PROVE  CostInv'
  <1>1. /\ UNCHANGED << flags, k, cb, arrived, wire >>
        /\ pc # "reset" /\ pc' # "reset"
    BY DEF GetMessage, ReinsertRetried, shared, network
  <1>2. Coming' <= Coming /\ {Coming, Coming'} \subseteq Nat
    <2>1. \A t \in FlagTypes : Live(t)' => Live(t)
      BY <1>1 DEF Live
    <2> QED
      BY <1>1, <2>1, WorthBound, UnflaggedRange DEF Coming
  <1>3. Spent' <= Spent /\ (pc' = "expire" => Unretried(retried') = {})
    <2>1. CASE GetMessage
      <3>1. /\ pc = "get" /\ pc' = "expire" /\ retried' = << >> /\ inflight' = inflight
        BY <2>1 DEF GetMessage
      <3>2. InHand = 0 /\ InHand' = 0 /\ Unretried(retried') = {}
        BY <3>1 DEF InHand, Unretried
      <3>3. Entries' = Entries
        BY <3>1, <3>2 DEF Entries
      <3> QED
        BY <1>1, <3>1, <3>2, <3>3, SpentNumbers DEF Spent
    <2>2. CASE ReinsertRetried
      <3>1. pc = "expire" /\ pc' = "check" /\ inflight' = retried \o inflight
        BY <2>2 DEF ReinsertRetried
      <3>2. /\ Fresh(inflight') <= Fresh(inflight)
            /\ Len(inflight') = Len(retried) + Len(inflight)
        BY <3>1, FreshConcat DEF CostInv, TypeOK
      <3>3. InHand = Len(retried) /\ InHand' = 0
        BY <3>1 DEF InHand
      <3>4. Entries' <= Entries
        BY <3>2, <3>3, CostNumbers, CostNumbersAfter DEF Entries
      <3> QED
        BY <1>1, <3>1, <3>2, <3>4, CostNumbers, CostNumbersAfter DEF Spent
    <2> QED
      BY <2>1, <2>2
  <1>4. {Spent, Spent'} \subseteq Nat /\ Len(arrived) \in Nat /\ Len(arrived') = Len(arrived)
    BY <1>1, CostNumbers, CostNumbersAfter DEF Spent
  <1> QED
    BY <1>2, <1>3, <1>4 DEF CostInv

\* A handler costs what its flag is worth: a frame, an entry and the retry of the entry.
LEMMA CostHandlers ==
    ASSUME TypeOK, TypeOK', CostInv,
           handleConnectRxCommand \/ handleConnectTxResponse \/ handleGetRxState
             \/ handleDisconnectRxCommand \/ handleDisconnectTxResponse
    PROVE  CostInv'
  <1>1. /\ pc = "check" /\ pc' \in {"check", "reset"} /\ UNCHANGED << cb, arrived >>
        /\ cmd # NoCmd /\ cmd \in Message
    BY DEF handleConnectRxCommand, handleConnectTxResponse, handleGetRxState,
           handleDisconnectRxCommand, handleDisconnectTxResponse, Handle, Done, Advance, Abort,
           TypeOK, OwnMessage, network
  <1>2. Coming' + 3 <= Coming /\ {Coming, Coming'} \subseteq Nat
    <2>1. PICK type \in FlagTypes :
            /\ CheckOrder[k] = type /\ flags[type]
            /\ Done(type) \/ Abort \/ (Advance /\ UNCHANGED flags /\ k = 5)
      <3>1. /\ {CONNECT_RX_COMMAND, CONNECT_TX_RESPONSE, GET_RX_STATE_COMMAND,
                DISCONNECT_RX_COMMAND, DISCONNECT_TX_RESPONSE} \subseteq FlagTypes
            /\ \A i \in 1 .. 5 : CheckOrder[i] = DISCONNECT_TX_RESPONSE => i = 5
        BY DEF FlagTypes, CheckOrder, CONNECT_RX_COMMAND, CONNECT_TX_RESPONSE,
               GET_RX_STATE_COMMAND, DISCONNECT_RX_COMMAND, DISCONNECT_TX_RESPONSE
      <3>2. k \in 1 .. 5
        BY DEF TypeOK
      <3>3. CASE handleConnectRxCommand
        BY <3>1, <3>3 DEF handleConnectRxCommand, Handle
      <3>4. CASE handleConnectTxResponse
        BY <3>1, <3>4 DEF handleConnectTxResponse, Handle
      <3>5. CASE handleGetRxState
        BY <3>1, <3>5 DEF handleGetRxState, Handle
      <3>6. CASE handleDisconnectRxCommand
        BY <3>1, <3>6 DEF handleDisconnectRxCommand, Handle
      <3>7. CASE handleDisconnectTxResponse
        BY <3>1, <3>2, <3>7 DEF handleDisconnectTxResponse, Handle
      <3> QED
        BY <3>3, <3>4, <3>5, <3>6, <3>7
    <2>2. Live(type) /\ ~Live(type)' /\ \A t \in FlagTypes : Live(t)' => Live(t)
      BY <1>1, <2>1, FlagSpent
    <2>3. FlagWorth' + 3 <= FlagWorth /\ {FlagWorth, FlagWorth'} \subseteq Nat
      BY <2>2, WorthBound
    <2> QED
      BY <1>1, <2>3, UnflaggedRange DEF Coming
  <1>3. \/ inflight' = inflight
        \/ inflight' = cancelAndRemove(inflight, cmd)
        \/ \E type, ms : ms \in Nat /\ txNewCommand(type, ms)
    <2>1. CONNECT_TX_TIMEOUT_MS \in Nat /\ DISCONNECT_TX_TIMEOUT_MS \in Nat
      BY CodesType
    <2> QED
      BY <2>1 DEF handleConnectRxCommand, handleConnectTxResponse, handleGetRxState,
         handleDisconnectRxCommand, handleDisconnectTxResponse, UnknownListener
  <1>4. Fresh(inflight') <= Fresh(inflight) + 1 /\ Len(inflight') <= Len(inflight) + 1
    <2>1. CASE inflight' = inflight
      BY <2>1, CostNumbers
    <2>2. CASE inflight' = cancelAndRemove(inflight, cmd)
      <3>1. /\ Fresh(cancelAndRemove(inflight, cmd)) <= Fresh(inflight)
            /\ Len(cancelAndRemove(inflight, cmd)) <= Len(inflight)
        BY FreshCancel DEF TypeOK
      <3> QED
        BY <2>2, <3>1, CostNumbers, CostNumbersAfter
    <2>3. ASSUME NEW type, NEW ms \in Nat, txNewCommand(type, ms)
          PROVE  Fresh(inflight') <= Fresh(inflight) + 1 /\ Len(inflight') <= Len(inflight) + 1
      <3> DEFINE e == [timeout |-> Expiry(ms), retried |-> FALSE, command |-> cmd,
                       original_sequence_id |-> cmd.seq]
      <3>1. e \in Inflight
        <4>1. Expiry(ms) \in 0 .. TimeoutRange - 1 /\ cmd.seq \in Nat
          BY <1>1, ExpiryRange DEF TypeOK, Message
        <4> QED
          BY <1>1, <4>1 DEF Inflight
      <3>2. inflight' = Append(inflight, e) /\ inflight \in Seq(Inflight)
        BY <2>3 DEF txNewCommand, TypeOK
      <3> HIDE DEF e
      <3>3. Len(inflight') = Len(inflight) + 1
        BY <3>1, <3>2, AppendProperties
      <3> QED
        BY <3>1, <3>2, <3>3, FreshAppend, CostNumbers
    <2> QED
      BY <1>3, <2>1, <2>2, <2>3
  <1>5. Len(wire') <= Len(wire) + 1
    <2>1. wire' = wire \/ \E f : wire' = Append(wire, f)
      BY DEF handleConnectRxCommand, handleConnectTxResponse, handleGetRxState,
         handleDisconnectRxCommand, handleDisconnectTxResponse, UnknownListener, txResponse,
         txNewCommand, tx
    <2> QED
      BY <2>1 DEF TypeOK
  <1>6. Entries' <= Entries + 1
    <2>1. InHand' <= InHand
      BY <1>1 DEF InHand
    <2> QED
      BY <1>4, <2>1, CostNumbers, CostNumbersAfter, SMTT(30) DEF Entries
  <1>7. Spent' <= Spent + 3
    <2> DEFINE w == Len(wire)    f == Fresh(inflight)     e == Entries
               x == Len(wire')   g == Fresh(inflight')    n == Entries'
    <2>1. {w, f, e, x, g, n} \subseteq Nat /\ x <= w + 1 /\ g <= f + 1 /\ n <= e + 1
      BY <1>4, <1>5, <1>6, CostNumbers, CostNumbersAfter
    <2> HIDE DEF w, f, e, x, g, n
    <2>2. x + n + g <= w + e + f + 3
      <3>1. w \in Nat /\ f \in Nat /\ e \in Nat /\ x \in Nat /\ g \in Nat /\ n \in Nat
        BY <2>1
      <3> QED
        BY <2>1, <3>1
    <2> QED
      BY <2>2 DEF Spent, w, f, e, x, g, n
  <1>8. Len(arrived) \in Nat /\ Len(arrived') = Len(arrived) /\ pc' # "expire"
    BY <1>1, CostNumbers
  <1> QED
    BY <1>2, <1>7, <1>8, SpentNumbers DEF CostInv

LEMMA CostNext ==
    ASSUME TypeOK, CostInv, [Next]_vars
    PROVE  CostInv'
  <1>0. TypeOK'
    BY TypeNext
  <1> USE DEF shared, local, network
  <1>1. CASE SignalEvent \/ performTerminate \/ (\E d \in TimeSteps : Tick(d)) \/ UNCHANGED vars
    <2>1. /\ UNCHANGED << flags, pc, k, inflight, retried, wire, arrived >>
          /\ cb' = "flag" => cb = "flag"
      BY <1>1 DEF SignalEvent, performTerminate, PerformTerminate, SignalTerminate, Tick, vars
    <2> QED
      BY <2>1, CostQuiet DEF Live
  <1>2. CASE acmp_cb
    BY <1>0, <1>1, <1>2, CostArrival DEF acmp_cb
  <1>3. CASE CheckEmpty \/ WaitReturns \/ ClearEvent \/ CheckTerminate \/ SkipCheck
               \/ UnboundCmd
    <2>1. /\ UNCHANGED << flags, inflight, retried, wire, arrived, cb >>
          /\ pc \notin {"expire", "reset"} /\ pc' # "expire"
      BY <1>3 DEF CheckEmpty, WaitReturns, ClearEvent, CheckTerminate, SkipCheck, UnboundCmd,
                  Advance, Abort
    <2> QED
      BY <2>1, CostQuiet DEF Live
  <1>4. CASE ResetFlag
    <2>1. /\ UNCHANGED << inflight, retried, wire, arrived, cb >> /\ pc = "reset" /\ pc' # "expire"
          /\ flags' = [flags EXCEPT ![ResetOrder[k]] = FALSE]
          /\ IF k < 5 THEN k' = k + 1 /\ pc' = pc ELSE k' = 1 /\ pc' = "empty"
          /\ flags \in [FlagTypes -> BOOLEAN] /\ k \in 1 .. 5 /\ ResetOrder[k] \in FlagTypes
      BY <1>4, CheckOrderFlags DEF ResetFlag, TypeOK
    <2>2. \A t \in FlagTypes : Live(t)' => Live(t)
      <3> SUFFICES ASSUME NEW t \in FlagTypes, Live(t)' PROVE Live(t)
        OBVIOUS
      <3>1. flags'[t] /\ t # ResetOrder[k] /\ flags[t]
        BY <2>1 DEF Live
      <3>2. pc' = "reset" => \A i \in k + 1 .. 5 : ResetOrder[i] # t
        BY <2>1 DEF Live
      <3>3. \A i \in k .. 5 : ResetOrder[i] # t
        BY <2>1, <3>1, <3>2
      <3> QED
        BY <3>1, <3>3 DEF Live
    <2> QED
      BY <2>1, <2>2, CostQuiet
  <1>5. CASE GetMessage \/ ReinsertRetried
    BY <1>0, <1>5, CostAround
  <1>6. CASE DropExpired \/ handleConnectTxTimeout \/ handleDisconnectTxTimeout
    BY <1>0, <1>6, CostTimeouts
  <1>7. CASE handleConnectRxCommand \/ handleConnectTxResponse \/ handleGetRxState
               \/ handleDisconnectRxCommand \/ handleDisconnectTxResponse
    BY <1>0, <1>7, CostHandlers
  <1> QED
    BY <1>1, <1>2, <1>3, <1>4, <1>5, <1>6, <1>7 DEF Next, ThreadStep

\* A message costs the network at most three frames, and no entry in flight is left over
\* beyond what messages account for, however flags are raised and lost, handlers abort and
\* entries are retried, and whatever the clock is.
THEOREM CostIsBounded == Spec => []CostBounded
  <1>1. Init => CostInv
    <2> SUFFICES ASSUME Init PROVE CostInv
      OBVIOUS
    <2>1. Len(wire) = 0 /\ Len(inflight) = 0 /\ Len(arrived) = 0 /\ InHand = 0
          /\ pc # "expire" /\ cb # "flag"
      BY DEF Init, InHand
    <2>2. Fresh(inflight) = 0
      <3>1. Unretried(inflight) = {}
        BY DEF Init, Unretried
      <3> QED
        BY <3>1, FS_EmptySet DEF Fresh
    <2>3. FlagWorth = 0 /\ Unflagged = 0
      BY DEF Init, FlagWorth, Worth, Live, FlagTypes, Unflagged
    <2>4. Spent = 0
      BY <2>1, <2>2 DEF Spent, Entries
    <2>5. Coming = 0
      BY <2>3 DEF Coming
    <2> QED
      BY <2>1, <2>4, <2>5 DEF CostInv
  <1>2. TypeOK /\ CostInv /\ [Next]_vars => CostInv'
    BY CostNext
  <1>3. TypeOK /\ CostInv => CostBounded
    <2> SUFFICES ASSUME TypeOK, CostInv PROVE CostBounded
      OBVIOUS
    <2>1. Coming \in Nat
      BY WorthBound, UnflaggedRange DEF Coming
    <2>2. Len(wire) + Len(inflight) <= Spent
      BY CostNumbers DEF Spent, Entries
    <2> QED
      BY <2>1, <2>2, CostNumbers, SpentNumbers DEF CostInv, CostBounded
  <1> QED
    BY <1>1, <1>2, <1>3, TypeCorrect, PTL DEF Spec

-----------------------------------------------------------------------------
(* Where the frames come from.                                             *)

\* m has the controller, stream and sequence id of one of the messages of A
From(A, m) == \E j \in DOMAIN A : /\ SameStream(m, A[j])
                                  /\ m.ctl = A[j].ctl
                                  /\ m.seq = A[j].seq

SourceFrom(A, x) == x.tid = 0 \/ \E j \in DOMAIN A : SameSource(x, A[j])

\* The entry's command is one received, whose sequence id the entry remembers
EntryFrom(A, e) == From(A, e.command) /\ e.original_sequence_id = e.command.seq

EntriesFrom(A, list) == \A i \in 1 .. Len(list) : EntryFrom(A, list[i])
QueueFrom(A, q)      == \A i \in 1 .. Len(q) : From(A, q[i])
InfosFrom(A, map)    == \A u \in ListenerUids : map[u] # NoInfo => SourceFrom(A, map[u])
FrameFrom(A, m)      == \/ From(A, m)
                        \/ m.type = GET_RX_STATE_RESPONSE /\ SourceFrom(A, m)
WireFrom(A, w)       == \A i \in 1 .. Len(w) : FrameFrom(A, w[i].pdu)

ProvInv ==
    /\ TypeOK
    /\ QueueFrom(arrived, queue)
    /\ cmd # NoCmd => From(arrived, cmd)
    /\ EntriesFrom(arrived, inflight)
    /\ EntriesFrom(arrived, retried)
    /\ InfosFrom(arrived, infos)
    /\ WireFrom(arrived, wire)

\* One more arrival takes no origin away
LEMMA FromMonotone ==
    ASSUME NEW A \in Seq(Message), NEW a \in Message
    PROVE  /\ \A m : From(A, m) => From(Append(A, a), m)
           /\ \A x : SourceFrom(A, x) => SourceFrom(Append(A, a), x)
           /\ From(Append(A, a), a)
  <1> DEFINE B == Append(A, a)
  <1>1. /\ DOMAIN A = 1 .. Len(A) /\ DOMAIN B = 1 .. Len(A) + 1
        /\ \A j \in 1 .. Len(A) : B[j] = A[j]
        /\ B[Len(A) + 1] = a /\ Len(A) \in Nat
    OBVIOUS
  <1> HIDE DEF B
  <1>2. From(B, a)
    BY <1>1 DEF From, SameStream, SameSource
  <1>3. \A m : From(A, m) => From(B, m)
    BY <1>1 DEF From
  <1>4. \A x : SourceFrom(A, x) => SourceFrom(B, x)
    BY <1>1 DEF SourceFrom
  <1> QED
    BY <1>2, <1>3, <1>4 DEF B

\* acmp_form_msg keeps what says where a message comes from
LEMMA FormedFrom ==
    ASSUME NEW A, NEW m \in Message, From(A, m), NEW type \in MessageTypes
    PROVE  From(A, Formed(m, type))
  BY FormedMessage DEF From, SameStream, SameSource

LEMMA EntriesTail ==
    ASSUME NEW A, NEW list \in Seq(Inflight), list # << >>, EntriesFrom(A, list)
    PROVE  /\ EntriesFrom(A, Tail(list)) /\ Tail(list) \in Seq(Inflight)
           /\ EntryFrom(A, Head(list)) /\ Head(list) \in Inflight
  <1>1. Len(list) \in Nat \ {0} /\ Head(list) = list[1] /\ Head(list) \in Inflight
    BY EmptySeq, HeadTailProperties
  <1>2. /\ Tail(list) \in Seq(Inflight) /\ Len(Tail(list)) = Len(list) - 1
        /\ \A i \in 1 .. Len(Tail(list)) : Tail(list)[i] = list[i + 1]
    BY HeadTailProperties
  <1> QED
    BY <1>1, <1>2 DEF EntriesFrom

LEMMA EntriesAppend ==
    ASSUME NEW A, NEW list \in Seq(Inflight), EntriesFrom(A, list), NEW e \in Inflight,
           EntryFrom(A, e)
    PROVE  EntriesFrom(A, Append(list, e))
  <1>1. /\ Len(Append(list, e)) = Len(list) + 1
        /\ \A i \in 1 .. Len(list) + 1 :
             Append(list, e)[i] = IF i <= Len(list) THEN list[i] ELSE e
    OBVIOUS
  <1> QED
    BY <1>1 DEF EntriesFrom

LEMMA EntriesConcat ==
    ASSUME NEW A, NEW s \in Seq(Inflight), NEW t \in Seq(Inflight), EntriesFrom(A, s),
           EntriesFrom(A, t)
    PROVE  EntriesFrom(A, s \o t)
  <1>1. /\ Len(s \o t) = Len(s) + Len(t)
        /\ \A i \in 1 .. Len(s) + Len(t) :
             (s \o t)[i] = IF i <= Len(s) THEN s[i] ELSE t[i - Len(s)]
    BY ConcatProperties
  <1> QED
    BY <1>1 DEF EntriesFrom

LEMMA EntriesCancel ==
    ASSUME NEW A, NEW list \in Seq(Inflight), EntriesFrom(A, list), NEW c
    PROVE  EntriesFrom(A, cancelAndRemove(list, c))
  <1> DEFINE i == findMatchingInflightIndex(list, c)
  <1>1. CASE i = 0
    BY <1>1 DEF cancelAndRemove
  <1>2. CASE i # 0
    <2>1. i \in 1 .. Len(list)
      BY <1>2, FindRange
    <2>2. cancelAndRemove(list, c) = RemoveAt(list, i)
      BY <1>2 DEF cancelAndRemove
    <2> HIDE DEF i
    <2>3. /\ Len(RemoveAt(list, i)) = Len(list) - 1
          /\ \A j \in 1 .. Len(list) - 1 :
               RemoveAt(list, i)[j] = list[j] \/ RemoveAt(list, i)[j] = list[j + 1]
      BY <2>1, RemoveAtShape
    <2> QED
      BY <2>2, <2>3 DEF EntriesFrom
  <1> QED
    BY <1>1, <1>2

LEMMA FrameSent ==
    ASSUME NEW A, wire \in Seq(Frame), WireFrom(A, wire), NEW m \in Message,
           NEW type \in MessageTypes, NEW error \in Nat, tx(m, type, error),
           FrameFrom(A, Formed(m, type))
    PROVE  WireFrom(A, wire')
  <1> DEFINE f == [pdu |-> Formed(m, type), error |-> error]
  <1>1. f \in Frame /\ f.pdu = Formed(m, type)
    BY FormedMessage DEF Frame
  <1>2. wire' = Append(wire, f)
    BY DEF tx
  <1> HIDE DEF f
  <1>3. /\ Len(wire') = Len(wire) + 1
        /\ \A i \in 1 .. Len(wire) + 1 : wire'[i] = IF i <= Len(wire) THEN wire[i] ELSE f
    BY <1>1, <1>2
  <1> QED
    BY <1>1, <1>3 DEF WireFrom

LEMMA ProvRetry ==
    ASSUME ProvInv, HeadExpired, NEW type \in {CONNECT_TX_COMMAND, DISCONNECT_TX_COMMAND},
           NEW ms \in Nat, Retry(type, ms)
    PROVE  /\ EntriesFrom(arrived, inflight') /\ EntriesFrom(arrived, retried')
           /\ WireFrom(arrived, wire')
  <1> DEFINE infl  == Head(inflight)
             rest  == Tail(inflight)
             i     == findMatchingInflightIndex(rest, infl.command)
             sent  == IF i = 0 THEN type + 1 ELSE type
             error == IF i = 0 THEN COULD_NOT_SEND_MESSAGE ELSE SUCCESS
  <1>1. /\ infl \in Inflight /\ rest \in Seq(Inflight)
        /\ EntriesFrom(arrived, rest) /\ EntryFrom(arrived, infl)
    BY EntriesTail DEF ProvInv, TypeOK, HeadExpired
  <1>2. i \in 0 .. Len(rest)
    BY <1>1, FindRange
  <1>3. sent \in MessageTypes /\ error \in Nat
    BY DEF MessageTypes, CONNECT_TX_COMMAND, DISCONNECT_TX_COMMAND,
           COULD_NOT_SEND_MESSAGE, SUCCESS
  <1>4. infl.command \in Message
    BY <1>1 DEF Inflight
  <1>5. /\ inflight' = IF i = 0 THEN rest
                       ELSE [rest EXCEPT ![i] = [@ EXCEPT !.retried = TRUE,
                                                          !.timeout = Expiry(ms)]]
        /\ retried' = Append(retried, [infl EXCEPT !.retried = TRUE,
                                                   !.command = Formed(@, sent)])
        /\ tx(infl.command, sent, error)
    BY DEF Retry
  <1> HIDE DEF infl, rest, i, sent, error
  <1>6. From(arrived, Formed(infl.command, sent))
    BY <1>1, <1>3, <1>4, FormedFrom DEF EntryFrom
  <1>7. EntriesFrom(arrived, inflight')
    <2>1. CASE i = 0
      BY <1>1, <1>5, <2>1
    <2>2. CASE i # 0
      <3> DEFINE e == [rest[i] EXCEPT !.retried = TRUE, !.timeout = Expiry(ms)]
      <3>1. i \in 1 .. Len(rest) /\ rest[i] \in Inflight /\ EntryFrom(arrived, rest[i])
        BY <1>1, <1>2, <2>2 DEF EntriesFrom
      <3>2. e.command = rest[i].command
            /\ e.original_sequence_id = rest[i].original_sequence_id
        BY <3>1 DEF Inflight
      <3>3. EntryFrom(arrived, e)
        BY <3>1, <3>2 DEF EntryFrom
      <3>4. inflight' = [rest EXCEPT ![i] = e]
        BY <1>5, <2>2
      <3> HIDE DEF e
      <3> QED
        BY <1>1, <3>1, <3>3, <3>4 DEF EntriesFrom
    <2> QED
      BY <2>1, <2>2
  <1>8. EntriesFrom(arrived, retried')
    <2>1. /\ Formed(infl.command, sent) \in Message
          /\ Formed(infl.command, sent).seq = infl.command.seq
      BY <1>3, <1>4, FormedMessage
    <2> DEFINE e == [infl EXCEPT !.retried = TRUE, !.command = Formed(@, sent)]
    <2>2. /\ e \in Inflight /\ e.command = Formed(infl.command, sent)
          /\ e.original_sequence_id = infl.original_sequence_id
      BY <1>1, <2>1 DEF Inflight
    <2>3. retried \in Seq(Inflight) /\ EntriesFrom(arrived, retried) /\ retried' = Append(retried, e)
      BY <1>5 DEF ProvInv, TypeOK
    <2> HIDE DEF e
    <2>4. EntryFrom(arrived, e)
      BY <1>1, <1>6, <2>1, <2>2 DEF EntryFrom
    <2> QED
      BY <2>2, <2>3, <2>4, EntriesAppend
  <1>9. WireFrom(arrived, wire')
    BY <1>3, <1>4, <1>5, <1>6, FrameSent DEF ProvInv, TypeOK, FrameFrom
  <1> QED
    BY <1>7, <1>8, <1>9

LEMMA ProvTimeouts ==
    ASSUME ProvInv, DropExpired \/ handleConnectTxTimeout \/ handleDisconnectTxTimeout
    PROVE  /\ EntriesFrom(arrived, inflight') /\ EntriesFrom(arrived, retried')
           /\ WireFrom(arrived, wire')
           /\ UNCHANGED << infos, queue, cmd, arrived >>
  <1> DEFINE Kept == /\ EntriesFrom(arrived, inflight') /\ EntriesFrom(arrived, retried')
                     /\ WireFrom(arrived, wire') /\ cmd' = cmd
  <1>1. HeadExpired /\ UNCHANGED << infos, queue, arrived >>
    BY DEF DropExpired, handleConnectTxTimeout, handleDisconnectTxTimeout, ExpireNext,
           shared, network
  <1>2. /\ inflight \in Seq(Inflight) /\ inflight # << >> /\ EntriesFrom(arrived, inflight)
        /\ EntriesFrom(arrived, retried) /\ WireFrom(arrived, wire) /\ wire \in Seq(Frame)
    BY <1>1 DEF HeadExpired, ProvInv, TypeOK
  <1>3. /\ Head(inflight) \in Inflight /\ EntriesFrom(arrived, Tail(inflight))
        /\ EntryFrom(arrived, Head(inflight))
    BY <1>2, EntriesTail
  <1>4. ASSUME inflight' = Tail(inflight), UNCHANGED << retried, cmd, wire >>
        PROVE  Kept
    BY <1>2, <1>3, <1>4
  <1>5. ASSUME NEW type \in {CONNECT_TX_COMMAND, DISCONNECT_TX_COMMAND},
               NEW ms \in Nat, Retry(type, ms)
        PROVE  Kept
    <2>1. cmd' = cmd
      BY <1>5 DEF Retry
    <2> QED
      BY <1>1, <1>5, <2>1, ProvRetry
  <1>6. CASE DropExpired
    BY <1>1, <1>4, <1>6 DEF DropExpired
  <1>7. CASE handleConnectTxTimeout
    BY <1>1, <1>4, <1>5, <1>7 DEF handleConnectTxTimeout, AbortOnRetried, CONNECT_TX_TIMEOUT_MS
  <1>8. CASE handleDisconnectTxTimeout
    <2>1. CASE Retry(DISCONNECT_TX_COMMAND, DISCONNECT_TX_TIMEOUT_MS)
      BY <1>1, <1>5, <2>1 DEF DISCONNECT_TX_TIMEOUT_MS
    <2>2. CASE ~Retry(DISCONNECT_TX_COMMAND, DISCONNECT_TX_TIMEOUT_MS)
      <3> DEFINE m == [Head(inflight).command EXCEPT
                         !.seq = Head(inflight).original_sequence_id]
      <3>1. m = Head(inflight).command /\ m \in Message /\ From(arrived, m)
        BY <1>3 DEF EntryFrom, Inflight, Message
      <3>2. /\ tx(m, DISCONNECT_RX_RESPONSE, LISTENER_TALKER_TIMEOUT)
            /\ inflight' = Tail(inflight) /\ UNCHANGED << retried, cmd >>
        BY <1>8, <2>2 DEF handleDisconnectTxTimeout
      <3>3. DISCONNECT_RX_RESPONSE \in MessageTypes /\ LISTENER_TALKER_TIMEOUT \in Nat
        BY DEF DISCONNECT_RX_RESPONSE, MessageTypes, LISTENER_TALKER_TIMEOUT
      <3> HIDE DEF m
      <3>4. WireFrom(arrived, wire')
        BY <1>2, <3>1, <3>2, <3>3, FormedFrom, FrameSent DEF FrameFrom
      <3> QED
        BY <1>1, <1>2, <1>3, <3>2, <3>4
    <2> QED
      BY <2>1, <2>2
  <1> QED
    BY <1>1, <1>6, <1>7, <1>8

\* What a handler sends, stores and leaves in cmd stems from cmd, except the state
\* that is reported, which stems from the stream info.
LEMMA ProvHandlers ==
    ASSUME ProvInv,
           handleConnectRxCommand \/ handleConnectTxResponse \/ handleGetRxState
             \/ handleDisconnectRxCommand \/ handleDisconnectTxResponse
    PROVE  /\ InfosFrom(arrived, infos') /\ EntriesFrom(arrived, inflight')
           /\ WireFrom(arrived, wire') /\ (cmd' # NoCmd => From(arrived, cmd'))
           /\ UNCHANGED << queue, retried, arrived >>
  <1> DEFINE Kept == /\ InfosFrom(arrived, infos') /\ EntriesFrom(arrived, inflight')
                     /\ WireFrom(arrived, wire') /\ From(arrived, cmd')
  <1>0. /\ cmd # NoCmd /\ cmd \in Message /\ cmd.luid \in ListenerUids
        /\ cmd.status \in Nat /\ cmd.seq \in Nat /\ From(arrived, cmd)
        /\ UNCHANGED << queue, retried, arrived >>
    BY DEF handleConnectRxCommand, handleConnectTxResponse, handleGetRxState,
           handleDisconnectRxCommand, handleDisconnectTxResponse, Handle, ProvInv, TypeOK,
           OwnMessage, Message, network
  <1>1. /\ InfosFrom(arrived, infos) /\ EntriesFrom(arrived, inflight)
        /\ WireFrom(arrived, wire)
        /\ infos \in [ListenerUids -> StreamInfo \cup {NoInfo}]
        /\ inflight \in Seq(Inflight) /\ wire \in Seq(Frame) /\ now \in Nat
    BY DEF ProvInv, TypeOK
  <1>2. EntriesFrom(arrived, cancelAndRemove(inflight, cmd))
    BY <1>1, EntriesCancel
  <1>3. ASSUME NEW type \in MessageTypes, NEW error \in Nat, tx(cmd, type, error),
               cmd' = Formed(cmd, type)
        PROVE  WireFrom(arrived, wire') /\ From(arrived, cmd')
    <2>1. From(arrived, Formed(cmd, type))
      BY <1>0, FormedFrom
    <2> QED
      BY <1>0, <1>1, <1>3, <2>1, FrameSent DEF FrameFrom
  <1>4. ASSUME NEW type \in {CONNECT_TX_COMMAND, DISCONNECT_TX_COMMAND}, NEW ms \in Nat,
               txNewCommand(type, ms)
        PROVE  EntriesFrom(arrived, inflight') /\ WireFrom(arrived, wire')
               /\ From(arrived, cmd')
    <2> DEFINE e == [timeout |-> Expiry(ms), retried |-> FALSE, command |-> cmd,
                     original_sequence_id |-> cmd.seq]
    <2>1. e \in Inflight /\ EntryFrom(arrived, e)
      BY <1>0, <1>1, ExpiryRange DEF Inflight, EntryFrom
    <2>2. inflight' = Append(inflight, e) /\ tx(cmd, type, SUCCESS) /\ cmd' = Formed(cmd, type)
      BY <1>4 DEF txNewCommand
    <2> HIDE DEF e
    <2> QED
      BY <1>1, <1>3, <2>1, <2>2, EntriesAppend, CodesType
  <1>5. ASSUME NEW type \in MessageTypes, NEW error \in Nat, txResponse(type, error),
               UNCHANGED << infos, inflight >>
        PROVE  Kept
    BY <1>1, <1>3, <1>5 DEF txResponse
  <1>6. ASSUME NEW info, info # NoInfo => SourceFrom(arrived, info),
               infos' = [infos EXCEPT ![cmd.luid] = info]
        PROVE  InfosFrom(arrived, infos')
    BY <1>0, <1>1, <1>6 DEF InfosFrom
  <1>7. ASSUME UNCHANGED << infos, inflight, cmd, wire >>
        PROVE  Kept
    BY <1>0, <1>1, <1>7
  <1>8. SourceFrom(arrived, cmd)
    BY <1>0 DEF From, SourceFrom, SameStream
  <1>9. ASSUME NEW type \in MessageTypes, UnknownListener(type) PROVE Kept
    BY <1>5, <1>9, CodesType DEF UnknownListener
  <1>10. CASE handleConnectRxCommand
    <2>1. ASSUME txNewCommand(CONNECT_TX_COMMAND, CONNECT_TX_TIMEOUT_MS), UNCHANGED infos
          PROVE  Kept
      BY <1>1, <1>4, <2>1, CodesType
    <2>2. ASSUME txNewCommand(CONNECT_TX_COMMAND, CONNECT_TX_TIMEOUT_MS),
                 infos[cmd.luid] # NoInfo,
                 infos' = [infos EXCEPT ![cmd.luid].tid = cmd.tid,
                                        ![cmd.luid].tuid = cmd.tuid,
                                        ![cmd.luid].pending = TRUE]
          PROVE  Kept
      <3> DEFINE info == [infos[cmd.luid] EXCEPT !.tid = cmd.tid, !.tuid = cmd.tuid,
                                                 !.pending = TRUE]
      <3>1. infos[cmd.luid] \in StreamInfo
        BY <1>0, <1>1, <2>2
      <3>2. info.tid = cmd.tid /\ info.tuid = cmd.tuid
        BY <3>1 DEF StreamInfo
      <3>3. SourceFrom(arrived, info)
        BY <1>8, <3>2 DEF SourceFrom, SameSource
      <3>4. infos' = [infos EXCEPT ![cmd.luid] = info]
        BY <1>0, <1>1, <2>2
      <3> HIDE DEF info
      <3>5. InfosFrom(arrived, infos')
        BY <1>6, <3>3, <3>4
      <3> QED
        BY <1>4, <2>2, <3>5, CodesType
    <2> QED
      BY <1>0, <1>5, <1>9, <1>10, <2>1, <2>2, CodesType DEF handleConnectRxCommand
  <1>11. CASE handleConnectTxResponse
    <2>1. ASSUME cmd.status = SUCCESS \/ infos[cmd.luid] # NoInfo,
                 infos' = IF cmd.status = SUCCESS
                            THEN [infos EXCEPT ![cmd.luid] = ConnectedInfo(cmd)]
                            ELSE [infos EXCEPT ![cmd.luid].pending = FALSE],
                 inflight' = cancelAndRemove(inflight, cmd),
                 txResponse(CONNECT_RX_RESPONSE, cmd.status)
          PROVE  Kept
      <3>1. InfosFrom(arrived, infos')
        <4>1. CASE cmd.status = SUCCESS
          <5>1. SourceFrom(arrived, ConnectedInfo(cmd))
            BY <1>8 DEF SourceFrom, SameSource, ConnectedInfo
          <5> QED
            BY <1>6, <2>1, <4>1, <5>1
        <4>2. CASE cmd.status # SUCCESS
          <5> DEFINE info == [infos[cmd.luid] EXCEPT !.pending = FALSE]
          <5>1. infos[cmd.luid] \in StreamInfo /\ SourceFrom(arrived, infos[cmd.luid])
            BY <1>0, <1>1, <2>1, <4>2 DEF InfosFrom
          <5>2. info.tid = infos[cmd.luid].tid /\ info.tuid = infos[cmd.luid].tuid
            BY <5>1 DEF StreamInfo
          <5>3. SourceFrom(arrived, info)
            BY <5>1, <5>2 DEF SourceFrom, SameSource
          <5>4. infos' = [infos EXCEPT ![cmd.luid] = info]
            BY <2>1, <4>2
          <5> HIDE DEF info
          <5> QED
            BY <1>6, <5>3, <5>4
        <4> QED
          BY <4>1, <4>2
      <3> QED
        BY <1>0, <1>2, <1>3, <2>1, <3>1, CodesType DEF txResponse
    <2> QED
      BY <1>0, <1>7, <1>11, <2>1 DEF handleConnectTxResponse
  <1>12. CASE handleGetRxState
    <2>1. ASSUME infos[cmd.luid] # NoInfo,
                 tx(StateResponse(infos[cmd.luid]), GET_RX_STATE_RESPONSE, SUCCESS),
                 UNCHANGED << infos, inflight, cmd >>
          PROVE  Kept
      <3> DEFINE m == StateResponse(infos[cmd.luid])
      <3>1. m \in Message
        BY <1>0, <1>1, <2>1, InfoTypes
      <3>2. SourceFrom(arrived, infos[cmd.luid])
        BY <1>0, <1>1, <2>1 DEF InfosFrom
      <3>3. m.tid = infos[cmd.luid].tid /\ m.tuid = infos[cmd.luid].tuid
        BY DEF StateResponse
      <3> HIDE DEF m
      <3>4. /\ Formed(m, GET_RX_STATE_RESPONSE).type = GET_RX_STATE_RESPONSE
            /\ SameSource(Formed(m, GET_RX_STATE_RESPONSE), m)
        BY <3>1, FormedMessage, CodesType
      <3>5. FrameFrom(arrived, Formed(m, GET_RX_STATE_RESPONSE))
        BY <3>2, <3>3, <3>4 DEF FrameFrom, SourceFrom, SameSource
      <3>6. WireFrom(arrived, wire')
        BY <1>1, <2>1, <3>1, <3>5, FrameSent, CodesType DEF m
      <3> QED
        BY <1>0, <1>1, <2>1, <3>6
    <2> QED
      BY <1>0, <1>7, <1>9, <1>12, <2>1, CodesType DEF handleGetRxState
  <1>13. CASE handleDisconnectRxCommand
    <2>1. ASSUME infos' = [infos EXCEPT ![cmd.luid] = ZeroInfo],
                 txNewCommand(DISCONNECT_TX_COMMAND, DISCONNECT_TX_TIMEOUT_MS)
          PROVE  Kept
      <3>1. SourceFrom(arrived, ZeroInfo)
        BY DEF SourceFrom, ZeroInfo
      <3> QED
        BY <1>4, <1>6, <2>1, <3>1, CodesType
    <2> QED
      BY <1>0, <1>5, <1>9, <1>13, <2>1, CodesType DEF handleDisconnectRxCommand
  <1>14. CASE handleDisconnectTxResponse
    <2>1. ASSUME inflight' = cancelAndRemove(inflight, cmd),
                 txResponse(DISCONNECT_RX_RESPONSE, cmd.status), UNCHANGED infos
          PROVE  Kept
      BY <1>0, <1>1, <1>2, <1>3, <2>1, CodesType DEF txResponse
    <2> QED
      BY <1>0, <1>7, <1>14, <2>1 DEF handleDisconnectTxResponse
  <1> QED
    BY <1>0, <1>10, <1>11, <1>12, <1>13, <1>14

LEMMA ProvArrival ==
    ASSUME ProvInv, Len(arrived) < Len(Arrivals),
           NEW m \in Incoming(Len(arrived) + 1), PutMessage(m)
    PROVE  ProvInv'
  <1>1. TypeOK'
    <2>1. acmp_cb
      BY DEF acmp_cb
    <2> QED
      BY <2>1, TypeNext DEF ProvInv, Next
  <1>2. /\ arrived \in Seq(Message) /\ arrived' = Append(arrived, m) /\ m \in Message
        /\ queue \in Seq(OwnMessage) /\ queue' = Append(queue, m)
        /\ UNCHANGED << infos, inflight, retried, cmd, wire >>
    <2>1. Len(arrived) + 1 \in 1 .. Len(Arrivals)
      BY ConstantsAssumption DEF ProvInv, TypeOK
    <2>2. m \in Message
      BY <2>1, IncomingMessage
    <2> QED
      BY <2>2 DEF PutMessage, ProvInv, TypeOK, local
  <1>3. /\ \A x : From(arrived, x) => From(arrived', x)
        /\ \A x : SourceFrom(arrived, x) => SourceFrom(arrived', x)
        /\ From(arrived', m)
    BY <1>2, FromMonotone
  <1>4. QueueFrom(arrived', queue')
    <2>1. /\ Len(queue') = Len(queue) + 1
          /\ \A i \in 1 .. Len(queue) + 1 :
               queue'[i] = IF i <= Len(queue) THEN queue[i] ELSE m
      BY <1>2
    <2>2. \A i \in 1 .. Len(queue) : From(arrived, queue[i])
      BY DEF ProvInv, QueueFrom
    <2> QED
      BY <1>3, <2>1, <2>2 DEF QueueFrom
  <1>5. /\ EntriesFrom(arrived', inflight') /\ EntriesFrom(arrived', retried')
        /\ WireFrom(arrived', wire') /\ InfosFrom(arrived', infos')
        /\ cmd' # NoCmd => From(arrived', cmd')
    <2>1. /\ EntriesFrom(arrived, inflight) /\ EntriesFrom(arrived, retried)
          /\ WireFrom(arrived, wire) /\ InfosFrom(arrived, infos)
          /\ cmd # NoCmd => From(arrived, cmd)
      BY DEF ProvInv
    <2>2. EntriesFrom(arrived', inflight) /\ EntriesFrom(arrived', retried)
      BY <1>3, <2>1 DEF EntriesFrom, EntryFrom
    <2>3. WireFrom(arrived', wire)
      BY <1>3, <2>1 DEF WireFrom, FrameFrom
    <2>4. InfosFrom(arrived', infos)
      BY <1>3, <2>1 DEF InfosFrom
    <2> QED
      BY <1>2, <1>3, <2>1, <2>2, <2>3, <2>4
  <1> QED
    BY <1>1, <1>4, <1>5 DEF ProvInv

LEMMA ProvNext == ProvInv /\ [Next]_vars => ProvInv'
  <1> SUFFICES ASSUME ProvInv, [Next]_vars PROVE ProvInv'
    OBVIOUS
  <1>1. TypeOK'
    BY TypeNext DEF ProvInv
  <1>2. ASSUME UNCHANGED << queue, cmd, infos, inflight, retried, wire, arrived >>
        PROVE  ProvInv'
    BY <1>1, <1>2 DEF ProvInv
  <1>3. ASSUME SetFlag \/ SignalEvent \/ performTerminate \/ (\E d \in TimeSteps : Tick(d))
                 \/ ResetFlag \/ CheckEmpty \/ WaitReturns \/ ClearEvent \/ CheckTerminate
                 \/ SkipCheck \/ UnboundCmd \/ UNCHANGED vars
        PROVE  UNCHANGED << queue, cmd, infos, inflight, retried, wire, arrived >>
    BY <1>3 DEF SetFlag, SignalEvent, performTerminate, PerformTerminate, SignalTerminate,
                Tick, ResetFlag, CheckEmpty, WaitReturns, ClearEvent, CheckTerminate,
                SkipCheck, UnboundCmd, vars, shared, local, network
  <1>4. CASE GetMessage
    <2>1. /\ inflight' = inflight /\ infos' = infos /\ wire' = wire /\ arrived' = arrived
          /\ retried' = << >>
          /\ \/ cmd' = cmd /\ queue' = queue
             \/ queue # << >> /\ cmd' = Head(queue) /\ queue' = Tail(queue)
      BY <1>4 DEF GetMessage, network
    <2>2. queue # << >> => From(arrived, Head(queue)) /\ QueueFrom(arrived, Tail(queue))
      <3> SUFFICES ASSUME queue # << >>
                   PROVE  From(arrived, Head(queue)) /\ QueueFrom(arrived, Tail(queue))
        OBVIOUS
      <3>1. queue \in Seq(OwnMessage) /\ QueueFrom(arrived, queue)
        BY DEF ProvInv, TypeOK
      <3>2. /\ Len(queue) \in Nat \ {0} /\ Head(queue) = queue[1]
            /\ Len(Tail(queue)) = Len(queue) - 1
            /\ \A i \in 1 .. Len(Tail(queue)) : Tail(queue)[i] = queue[i + 1]
        BY <3>1, EmptySeq, HeadTailProperties
      <3> QED
        BY <3>1, <3>2 DEF QueueFrom
    <2>3. EntriesFrom(arrived, << >>)
      BY DEF EntriesFrom
    <2> QED
      BY <1>1, <2>1, <2>2, <2>3 DEF ProvInv
  <1>5. CASE ReinsertRetried
    <2>1. EntriesFrom(arrived, retried \o inflight)
      BY EntriesConcat DEF ProvInv, TypeOK
    <2> QED
      BY <1>1, <1>5, <2>1 DEF ReinsertRetried, ProvInv, shared, network
  <1>6. CASE DropExpired \/ handleConnectTxTimeout \/ handleDisconnectTxTimeout
    BY <1>1, <1>6, ProvTimeouts DEF ProvInv
  <1>7. CASE handleConnectRxCommand \/ handleConnectTxResponse \/ handleGetRxState
               \/ handleDisconnectRxCommand \/ handleDisconnectTxResponse
    BY <1>1, <1>7, ProvHandlers DEF ProvInv
  <1>8. ASSUME Len(arrived) < Len(Arrivals),
               \E m \in Incoming(Len(arrived) + 1) : PutMessage(m)
        PROVE  ProvInv'
    BY <1>8, ProvArrival
  <1> QED
    BY <1>2, <1>3, <1>4, <1>5, <1>6, <1>7, <1>8 DEF Next, ThreadStep, acmp_cb

LEMMA ProvInit == Init => ProvInv
  BY TypeInit DEF Init, ProvInv, QueueFrom, EntriesFrom, InfosFrom, WireFrom

LEMMA ProvImplies == ProvInv => FrameProvenance
  <1> SUFFICES ASSUME ProvInv, NEW i \in DOMAIN wire PROVE FrameFrom(arrived, wire[i].pdu)
    BY DEF FrameProvenance, FrameFrom, From, SourceFrom
  <1>1. DOMAIN wire = 1 .. Len(wire)
    BY LenProperties DEF ProvInv, TypeOK
  <1> QED
    BY <1>1 DEF ProvInv, WireFrom

\* No frame mixes two messages: whatever cmd is when a handler runs, whatever an
\* in-flight entry has become and however the callback interleaves, each frame names
\* the controller, stream and sequence id of one message received, or, in a state
\* response, the source of one.
THEOREM FramesHaveAnOrigin == Spec => []FrameProvenance
  BY ProvInit, ProvNext, ProvImplies, PTL DEF Spec

-----------------------------------------------------------------------------
(* Liveness.  The provers know neither ENABLED, which WF is defined with,   *)
(* nor induction on temporal formulas.  What a theorem needs of them it     *)
(* takes as a hypothesis that is always true: ThreadCanStep of every        *)
(* behaviour of the specification, Descent(f) of every behaviour at all.    *)

\* The thread can take a step until it has stopped, so this is what its WF says.
ThreadCanStep ==
    WF_vars(ThreadStep) => []<>(pc = "stopped") \/ []<><<ThreadStep>>_vars

\* What falls again and again, and is always a natural number, rises again and again.
Descent(f) == [](f \in Nat) /\ []<><<f' < f>>_f => []<><<f' > f>>_f

\* Where each step of the thread leads
ThreadMove ==
    \/ pc = "reset" /\ k < 5 /\ pc' = "reset" /\ k' = k + 1
    \/ pc = "reset" /\ ~(k < 5) /\ pc' = "empty" /\ k' = 1
    \/ pc = "empty" /\ pc' \in {"wait", "terminate"} /\ k' = k
    \/ pc = "wait" /\ pc' = "clear" /\ k' = k
    \/ pc = "clear" /\ pc' = "terminate" /\ k' = k
    \/ pc = "terminate" /\ pc' = (IF doTerminate THEN "stopped" ELSE "get") /\ k' = k
    \/ pc = "get" /\ pc' = "expire" /\ k' = k
    \/ pc = "expire" /\ pc' \in {"expire", "reset", "check"} /\ k' = k
    \/ pc = "check" /\ k < 5 /\ pc' = "check" /\ k' = k + 1
    \/ pc = "check" /\ pc' = "reset" /\ k' = 1

\* Each timeout that is handled takes an entry out of inflight; a retry puts none in.
LEMMA TimeoutMoves ==
    ASSUME TypeOK, DropExpired \/ handleConnectTxTimeout \/ handleDisconnectTxTimeout
    PROVE  /\ pc = "expire" /\ pc' \in {"expire", "reset"} /\ k' = k
           /\ queue' = queue /\ doTerminate' = doTerminate /\ arrived' = arrived
           /\ Len(inflight') < Len(inflight)
<1>1. /\ pc = "expire" /\ HeadExpired /\ k' = k /\ queue' = queue /\ doTerminate' = doTerminate
      /\ arrived' = arrived
  BY DEF DropExpired, handleConnectTxTimeout, handleDisconnectTxTimeout, ExpireNext, shared, network
<1>2. /\ Tail(inflight) \in Seq(Inflight) /\ Len(Tail(inflight)) < Len(inflight)
  BY <1>1 DEF TypeOK, HeadExpired
<1>3. ASSUME NEW type, NEW ms, Retry(type, ms)
      PROVE  pc' = pc /\ Len(inflight') = Len(Tail(inflight))
  <2> DEFINE rest == Tail(inflight)
             i    == findMatchingInflightIndex(rest, Head(inflight).command)
  <2>1. \/ inflight' = rest
        \/ inflight' = [rest EXCEPT ![i].retried = TRUE, ![i].timeout = Expiry(ms)]
    BY <1>3 DEF Retry
  <2>2. pc' = pc  BY <1>3 DEF Retry
  <2>3. DOMAIN inflight' = DOMAIN rest  BY <2>1
  <2> HIDE DEF i
  <2>4. inflight' \in Seq(Inflight)  BY TypeNext DEF TypeOK, Next, ThreadStep
  <2> QED  BY <1>2, <2>2, <2>3, <2>4
<1>4. CASE DropExpired  BY <1>1, <1>2, <1>4 DEF DropExpired
<1>5. CASE handleConnectTxTimeout
  BY <1>1, <1>2, <1>3, <1>5 DEF handleConnectTxTimeout, AbortOnRetried
<1>6. CASE handleDisconnectTxTimeout
  BY <1>1, <1>2, <1>3, <1>6 DEF handleDisconnectTxTimeout
<1> QED  BY <1>1, <1>4, <1>5, <1>6

LEMMA HandlerMoves ==
    ASSUME \/ handleConnectRxCommand \/ handleConnectTxResponse \/ handleGetRxState
           \/ handleDisconnectRxCommand \/ handleDisconnectTxResponse
    PROVE  /\ ThreadMove /\ pc = "check" /\ queue' = queue /\ doTerminate' = doTerminate
           /\ arrived' = arrived
<1>1. PICK type : Handle(type) /\ (Done(type) \/ Abort \/ Advance)
  <2>1. CASE handleConnectRxCommand  BY Zenon, <2>1 DEF handleConnectRxCommand
  <2>2. CASE handleConnectTxResponse  BY Zenon, <2>2 DEF handleConnectTxResponse
  <2>3. CASE handleGetRxState  BY Zenon, <2>3 DEF handleGetRxState
  <2>4. CASE handleDisconnectRxCommand  BY Zenon, <2>4 DEF handleDisconnectRxCommand
  <2>5. CASE handleDisconnectTxResponse  BY Zenon, <2>5 DEF handleDisconnectTxResponse
  <2> QED  BY <2>1, <2>2, <2>3, <2>4, <2>5
<1> QED  BY <1>1 DEF Handle, Done, Abort, Advance, ThreadMove, network

\* Only GetMessage takes out of the queue.
LEMMA ThreadMoves ==
    ASSUME TypeOK, ThreadStep
    PROVE  /\ ThreadMove
           /\ doTerminate' = doTerminate
           /\ pc = "get" => GetMessage
           /\ pc # "get" => queue' = queue
           /\ arrived' = arrived
           /\ pc = "expire" /\ pc' = "expire" => Len(inflight') < Len(inflight)
<1> USE DEF ThreadMove, shared, local, network
<1>1. CASE ResetFlag  BY <1>1 DEF ResetFlag
<1>2. CASE CheckEmpty  BY <1>2 DEF CheckEmpty
<1>3. CASE WaitReturns  BY <1>3 DEF WaitReturns
<1>4. CASE ClearEvent  BY <1>4 DEF ClearEvent
<1>5. CASE CheckTerminate  BY <1>5 DEF CheckTerminate
<1>6. CASE GetMessage  BY <1>6 DEF GetMessage
<1>7. CASE DropExpired \/ handleConnectTxTimeout \/ handleDisconnectTxTimeout
  BY <1>7, TimeoutMoves
<1>8. CASE ReinsertRetried  BY <1>8 DEF ReinsertRetried
<1>9. CASE SkipCheck  BY <1>9 DEF SkipCheck, Advance
<1>10. CASE UnboundCmd  BY <1>10 DEF UnboundCmd, Abort
<1>11. CASE \/ handleConnectRxCommand \/ handleConnectTxResponse \/ handleGetRxState
            \/ handleDisconnectRxCommand \/ handleDisconnectTxResponse
  BY <1>11, HandlerMoves
<1> QED  BY <1>1, <1>2, <1>3, <1>4, <1>5, <1>6, <1>7, <1>8, <1>9, <1>10, <1>11 DEF ThreadStep

\* No one else moves it or touches inflight, and doTerminate stays set.
LEMMA OtherMoves ==
    ASSUME acmp_cb \/ performTerminate \/ (\E d \in TimeSteps : Tick(d)) \/ UNCHANGED vars
    PROVE  pc' = pc /\ k' = k /\ inflight' = inflight /\ (doTerminate => doTerminate')
<1> USE DEF shared, local
<1>1. CASE acmp_cb  BY <1>1 DEF acmp_cb, PutMessage, SetFlag, SignalEvent
<1>2. CASE PerformTerminate  BY <1>2 DEF PerformTerminate
<1>3. CASE SignalTerminate  BY <1>3 DEF SignalTerminate
<1>4. ASSUME NEW d, Tick(d) PROVE pc' = pc /\ k' = k /\ inflight' = inflight /\ doTerminate' = doTerminate
  BY <1>4 DEF Tick
<1>5. CASE UNCHANGED vars  BY <1>5 DEF vars
<1> QED  BY <1>1, <1>2, <1>3, <1>4, <1>5 DEF performTerminate

-----------------------------------------------------------------------------
(* Terminates.  The loop over the expired entries ends because each round   *)
(* takes one out; the entries to retry go back only after it.               *)

Pops == Len(inflight)

Fewer == <<Pops' < Pops>>_Pops

More == <<Pops' > Pops>>_Pops

\* The steps to the end of a thread that is told to end, but for the rounds of that loop
Distance ==
    CASE pc = "stopped" -> 0 [] pc = "terminate" -> 1 [] pc = "clear" -> 2 [] pc = "wait" -> 3
      [] pc = "empty" -> 4 [] pc = "reset" -> 10 - k [] pc = "check" -> 15 - k
      [] pc = "expire" -> 15 [] OTHER -> 16

Within(n) == doTerminate /\ Distance <= n

\* What the steps of n are worth: they are not taken back, and one of the thread leaves m
\* or takes an entry out.  None puts an entry in that leaves Distance as it was.
Approaches(m, n) ==
    /\ TypeOK /\ Within(n) /\ [Next]_vars => Within(n)'
    /\ TypeOK /\ Within(n) /\ [Next]_vars => ~More \/ Within(m)'
    /\ TypeOK /\ Within(n) /\ <<ThreadStep>>_vars => Fewer \/ Within(m)'

LEMMA DistanceTypes == TypeOK => Distance \in Nat
<1>1. ASSUME k \in 1 .. 5 PROVE Distance \in Nat  BY <1>1 DEF Distance
<1> QED  BY <1>1 DEF TypeOK

LEMMA Approach == \A n \in Nat : Approaches(n, n + 1)
<1> SUFFICES ASSUME NEW n \in Nat, TypeOK, Within(n + 1), [Next]_vars
             PROVE  /\ Within(n + 1)'
                    /\ ~More \/ Within(n)'
                    /\ ThreadStep => Fewer \/ Within(n)'
  <2>1. ThreadStep => Next  BY DEF Next
  <2> QED  BY Zenon, <2>1 DEF Approaches
<1>1. Pops \in Nat /\ k \in 1 .. 5 /\ doTerminate /\ Distance <= n + 1
  BY DEF TypeOK, Pops, Within
<1>2. Distance \in Nat /\ Pops' \in Nat
  BY DistanceTypes, TypeNext DEF TypeOK, Pops
<1>3. ASSUME ThreadStep
      PROVE  doTerminate' /\ Distance' \in Nat /\ Distance' <= Distance
             /\ (Pops' < Pops \/ Distance' < Distance)
  <2>1. /\ doTerminate' /\ ThreadMove
        /\ pc = "expire" /\ pc' = "expire" => Pops' < Pops
    BY <1>1, <1>3, ThreadMoves DEF Pops
  <2> QED  BY <1>1, <2>1 DEF ThreadMove, Distance
<1>4. ASSUME ~ThreadStep
      PROVE  doTerminate' /\ Distance' = Distance /\ Pops' = Pops
  <2>1. pc' = pc /\ k' = k /\ inflight' = inflight /\ doTerminate'
    BY <1>1, <1>4, OtherMoves DEF Next
  <2> QED  BY <2>1 DEF Distance, Pops
<1>5. CASE ThreadStep
  <2>1. /\ Within(n + 1)'
        /\ Distance' < Distance => Within(n)'
    BY <1>1, <1>2, <1>3, <1>5 DEF Within
  <2>2. Pops' < Pops => Fewer /\ ~More
    BY <1>1, <1>2 DEF Fewer, More
  <2> QED  BY <1>3, <1>5, <2>1, <2>2
<1>6. CASE ~ThreadStep
  <2>1. Within(n + 1)'  BY <1>1, <1>4, <1>6 DEF Within
  <2>2. ~More  BY <1>4, <1>6 DEF More
  <2> QED  BY <1>6, <2>1, <2>2
<1> QED  BY <1>5, <1>6

\* performTerminate gets the thread to end, from wherever it is, however much is queued and
\* in flight, and whatever exceptions the handlers raise.
THEOREM Ends == FairSpec /\ ThreadCanStep /\ Descent(Pops) => Terminates
<1>1. /\ Approaches(0, 1) /\ Approaches(1, 2) /\ Approaches(2, 3) /\ Approaches(3, 4)
      /\ Approaches(4, 5) /\ Approaches(5, 6) /\ Approaches(6, 7) /\ Approaches(7, 8)
      /\ Approaches(8, 9) /\ Approaches(9, 10) /\ Approaches(10, 11) /\ Approaches(11, 12)
      /\ Approaches(12, 13) /\ Approaches(13, 14) /\ Approaches(14, 15) /\ Approaches(15, 16)
  BY Approach
<1>2. TypeOK /\ doTerminate => Within(16)
  BY DEF TypeOK, Within, Distance
<1>3. TypeOK /\ Within(0) => pc = "stopped"
  BY DEF TypeOK, Within, Distance
<1>4. TypeOK => Pops \in Nat
  BY DEF TypeOK, Pops
<1> QED
  BY <1>1, <1>2, <1>3, <1>4, TypeCorrect, PTL
     DEF Approaches, Fewer, More, FairSpec, Spec, ThreadCanStep, Descent, Terminates

-----------------------------------------------------------------------------
(* QueueDrains.                                                             *)

\* The messages that may yet be taken out of the queue
Untaken == Len(Arrivals) - Len(arrived) + Len(queue)

\* No more arrives than Arrivals has.
ArrivalInv == Len(arrived) <= Len(Arrivals)

LEMMA UntakenTypes == TypeOK /\ ArrivalInv => Untaken \in Nat
<1>1. TypeOK => Len(queue) \in Nat /\ Len(arrived) \in Nat /\ Len(Arrivals) \in Nat
  BY ConstantsAssumption, LenProperties DEF TypeOK
<1> QED  BY <1>1 DEF ArrivalInv, Untaken

\* A message is taken for each step that leaves "get"; none comes that is not counted.
LEMMA UntakenFalls ==
    ASSUME TypeOK, ArrivalInv, [Next]_vars
    PROVE  /\ ArrivalInv'
           /\ Untaken \in Nat /\ Untaken' \in Nat /\ Untaken' <= Untaken
           /\ pc = "get" /\ queue # << >> /\ ThreadStep => Untaken' < Untaken
<1>s. queue \in Seq(OwnMessage) /\ arrived \in Seq(Message)
  BY DEF TypeOK
<1>1. /\ Len(queue) \in Nat /\ Len(arrived) \in Nat /\ Len(Arrivals) \in Nat
      /\ Len(arrived) <= Len(Arrivals)
  BY ConstantsAssumption, LenProperties DEF TypeOK, ArrivalInv
<1>2. ASSUME queue' = queue, arrived' = arrived PROVE ArrivalInv' /\ Untaken' = Untaken /\ Untaken \in Nat
  BY <1>1, <1>2 DEF ArrivalInv, Untaken
<1>3. ASSUME GetMessage, queue # << >>
      PROVE  ArrivalInv' /\ Untaken \in Nat /\ Untaken' \in Nat /\ Untaken' < Untaken
  <2>1. arrived' = arrived /\ queue' = Tail(queue)  BY <1>3 DEF GetMessage, network
  <2>2. /\ Len(queue') = Len(queue) - 1 /\ Len(queue') \in Nat
        /\ Len(arrived') = Len(arrived)
    BY <1>s, <1>3, <2>1
  <2> QED  BY <1>1, <2>2 DEF ArrivalInv, Untaken
<1>4. ASSUME NEW m, Len(arrived) < Len(Arrivals), PutMessage(m)
      PROVE  ArrivalInv' /\ Untaken' = Untaken /\ Untaken \in Nat
  <2>1. queue' = Append(queue, m) /\ arrived' = Append(arrived, m)  BY <1>4 DEF PutMessage
  <2>2. Len(queue') = Len(queue) + 1 /\ Len(arrived') = Len(arrived) + 1  BY <1>s, <2>1
  <2> QED  BY <1>1, <1>4, <2>2 DEF ArrivalInv, Untaken
<1>5. CASE ThreadStep
  <2>1. arrived' = arrived  BY <1>5, ThreadMoves
  <2>2. CASE pc = "get"
    <3>1. GetMessage  BY <1>5, <2>2, ThreadMoves
    <3>2. CASE queue = << >>
      <4>1. queue' = queue  BY <3>1, <3>2 DEF GetMessage
      <4> QED  BY <1>2, <2>1, <3>2, <4>1
    <3> QED  BY <1>3, <3>1, <3>2
  <2>3. CASE pc # "get"
    <3>1. queue' = queue  BY <1>5, <2>3, ThreadMoves
    <3> QED  BY <1>2, <2>1, <2>3, <3>1
  <2> QED  BY <2>2, <2>3
<1>6. CASE ~ThreadStep
  <2>1. CASE acmp_cb
    <3>1. CASE SetFlag \/ SignalEvent  BY <1>2, <1>6, <3>1 DEF SetFlag, SignalEvent
    <3> QED  BY <1>4, <1>6, <2>1, <3>1 DEF acmp_cb
  <2>2. CASE performTerminate \/ (\E d \in TimeSteps : Tick(d)) \/ UNCHANGED vars
    BY <1>2, <1>6, <2>2 DEF performTerminate, PerformTerminate, SignalTerminate, Tick, vars, shared, network
  <2> QED  BY <1>6, <2>1, <2>2 DEF Next
<1> QED  BY <1>5, <1>6

\* The steps until a message is taken, at most, but for the rounds of the loop over the
\* expired entries
ToTake ==
    CASE pc = "get" -> 1 [] pc = "terminate" -> 2 [] pc = "clear" -> 3 [] pc = "wait" -> 4
      [] pc = "empty" -> 5 [] pc = "reset" -> 11 - k [] pc = "check" -> 16 - k
      [] pc = "expire" -> 16 [] OTHER -> 0

Late(n) == queue # << >> /\ ToTake <= n

Stopped == pc = "stopped"

Eased == <<Untaken' < Untaken>>_Untaken \/ Stopped'

Turns(m, n) ==
    /\ TypeOK /\ ArrivalInv /\ ~Stopped /\ Late(n) /\ [Next]_vars => Late(n)' \/ Eased
    /\ TypeOK /\ ArrivalInv /\ ~Stopped /\ Late(n) /\ [Next]_vars => ~More \/ Late(m)' \/ Eased
    /\ TypeOK /\ ArrivalInv /\ ~Stopped /\ Late(n) /\ <<ThreadStep>>_vars => Fewer \/ Late(m)' \/ Eased

LEMMA TurnSteps == \A n \in Nat : Turns(n, n + 1)
<1> SUFFICES ASSUME NEW n \in Nat, TypeOK, ArrivalInv, ~Stopped, Late(n + 1), [Next]_vars
             PROVE  /\ Late(n + 1)' \/ Eased
                    /\ ~More \/ Late(n)' \/ Eased
                    /\ ThreadStep => Fewer \/ Late(n)' \/ Eased
  <2>1. ThreadStep => Next  BY DEF Next
  <2> QED  BY Zenon, <2>1 DEF Turns
<1>1. Pops \in Nat /\ k \in 1 .. 5 /\ queue # << >> /\ ToTake <= n + 1 /\ queue \in Seq(OwnMessage)
  BY DEF TypeOK, Pops, Late
<1>2. Pops' \in Nat
  BY TypeNext DEF TypeOK, Pops
<1>3. ToTake \in Nat
  BY <1>1 DEF ToTake
<1>4. CASE ThreadStep
  <2>1. /\ ThreadMove
        /\ pc = "expire" /\ pc' = "expire" => Pops' < Pops
    BY <1>4, ThreadMoves DEF Pops
  <2>2. CASE pc = "get"
    <3>1. Untaken' < Untaken /\ Untaken \in Nat  BY <1>1, <1>4, <2>2, UntakenFalls
    <3> QED  BY <3>1 DEF Eased
  <2>3. CASE pc # "get" /\ pc' = "stopped"  BY <2>3 DEF Eased, Stopped
  <2>4. CASE pc # "get" /\ pc' # "stopped"
    <3>1. queue' = queue  BY <1>4, <2>4, ThreadMoves
    <3>2. /\ ToTake' \in Nat /\ ToTake' <= ToTake
          /\ Pops' < Pops \/ ToTake' < ToTake
      <4>1. CASE pc = "expire"  BY <1>1, <2>1, <2>4, <4>1 DEF ThreadMove, ToTake
      <4>2. CASE pc \in {"reset", "check"}
        <5>1. /\ k' \in 1 .. 5
              /\ \/ pc = "reset" /\ pc' = "reset" /\ k' = k + 1
                 \/ pc = "reset" /\ pc' = "empty"
                 \/ pc = "check" /\ pc' = "check" /\ k' = k + 1
                 \/ pc = "check" /\ pc' = "reset"
          BY <1>1, <2>1, <4>2 DEF ThreadMove
        <5>2. /\ pc = "reset" => ToTake = 11 - k
              /\ pc = "check" => ToTake = 16 - k
              /\ pc' = "reset" => ToTake' = 11 - k'
              /\ pc' = "check" => ToTake' = 16 - k'
              /\ pc' = "empty" => ToTake' = 5
          BY DEF ToTake
        <5> QED  BY <1>1, <5>1, <5>2
      <4>3. CASE pc \notin {"expire", "reset", "check"}
        BY <1>1, <2>1, <2>4, <4>3 DEF ThreadMove, ToTake
      <4> QED  BY <4>1, <4>2, <4>3
    <3>3. /\ Late(n + 1)'
          /\ ToTake' < ToTake => Late(n)'
      BY <1>1, <1>3, <3>1, <3>2 DEF Late
    <3>4. Pops' < Pops => Fewer /\ ~More
      BY <1>1, <1>2 DEF Fewer, More
    <3> QED  BY <3>2, <3>3, <3>4
  <2> QED  BY <2>2, <2>3, <2>4
<1>5. CASE ~ThreadStep
  <2>1. pc' = pc /\ k' = k /\ inflight' = inflight
    BY <1>5, OtherMoves DEF Next
  <2>2. ToTake' = ToTake /\ Pops' = Pops  BY <2>1 DEF ToTake, Pops
  <2>3. queue' # << >>
    <3>1. ASSUME NEW m, PutMessage(m) PROVE queue' # << >>
      BY <1>1, <3>1 DEF PutMessage
    <3>2. CASE acmp_cb  BY <1>1, <3>1, <3>2 DEF acmp_cb, SetFlag, SignalEvent
    <3>3. CASE performTerminate \/ (\E d \in TimeSteps : Tick(d)) \/ UNCHANGED vars
      <4>1. queue' = queue
        BY <3>3 DEF performTerminate, PerformTerminate, SignalTerminate, Tick, vars, shared
      <4> QED  BY <1>1, <4>1
    <3> QED  BY <1>5, <3>2, <3>3 DEF Next
  <2>4. Late(n + 1)'  BY <1>1, <2>2, <2>3 DEF Late
  <2>5. ~More  BY <2>2 DEF More
  <2> QED  BY <1>5, <2>4, <2>5
<1> QED  BY <1>4, <1>5

\* Every message that is put is taken out of the queue, however the put falls between the
\* steps of the thread, unless the thread ends first.
THEOREM Drains ==
    FairSpec /\ ThreadCanStep /\ Descent(Pops) /\ Descent(Untaken) => QueueDrains
<1>1. /\ Turns(0, 1) /\ Turns(1, 2) /\ Turns(2, 3) /\ Turns(3, 4)
      /\ Turns(4, 5) /\ Turns(5, 6) /\ Turns(6, 7) /\ Turns(7, 8)
      /\ Turns(8, 9) /\ Turns(9, 10) /\ Turns(10, 11) /\ Turns(11, 12)
      /\ Turns(12, 13) /\ Turns(13, 14) /\ Turns(14, 15) /\ Turns(15, 16)
  BY TurnSteps
<1>2. TypeOK => (queue = << >> \/ Late(16))
  BY DEF TypeOK, Late, ToTake
<1>3. TypeOK /\ ~Stopped => ~Late(0)
  BY DEF TypeOK, Stopped, Late, ToTake
<1>4. TypeOK => Pops \in Nat
  BY DEF TypeOK, Pops
<1>5. TypeOK /\ ArrivalInv /\ [Next]_vars => ArrivalInv' /\ ~<<Untaken' > Untaken>>_Untaken
  BY UntakenFalls
<1>6. TypeOK /\ ArrivalInv => Untaken \in Nat
  BY UntakenTypes
<1>7. Init => ArrivalInv
  BY ConstantsAssumption, LenProperties DEF Init, ArrivalInv
<1>8. Stopped <=> pc = "stopped"
  BY DEF Stopped
<1> QED
  BY <1>1, <1>2, <1>3, <1>4, <1>5, <1>6, <1>7, <1>8, TypeCorrect, PTL
     DEF Turns, Eased, Fewer, More, FairSpec, Spec, ThreadCanStep, Descent, QueueDrains
=============================================================================
