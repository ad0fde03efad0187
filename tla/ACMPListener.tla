---------------------------- MODULE ACMPListener ----------------------------
(***************************************************************************)
(* The ACMP listener of src/src/atdecc/acmp/__init__.py: the state machine *)
(* thread (run), the callback acmp_cb that the interface's worker thread   *)
(* calls for every ACMPDU, and performTerminate, called by the main thread.*)
(*                                                                         *)
(* Threads interleave between the steps that touch shared state: the queue *)
(* rcvdCmdResp, the five rcvd... flags, the event and doTerminate.  The    *)
(* lists inflight and retried, the dictionary listenerStreamInfos and the  *)
(* local variable cmd belong to the thread alone, so a handler, with every *)
(* call it makes, is one step.                                             *)
(*                                                                         *)
(* Left out: the header and stream fields that no branch reads (stream_id, *)
(* stream_dest_mac, flags, VLAN), logging, and failures of send_acmp.      *)
(* sequence_id is never compared by the code, so the model numbers the     *)
(* messages by arrival and uses the number to tell them apart.             *)
(***************************************************************************)
EXTENDS ACMPMessages, SequencesExt

CONSTANTS
    MyId,          \* entity_info.entity_id
    Controllers,   \* controller entity ids seen on the network
    Sources,       \* pairs <<talker_entity_id, talker_unique_id>>
    ListenerIds,   \* listener entity ids seen on the network
    ListenerUids,  \* listener_unique_id values seen on the network
    Arrivals,      \* for each ACMPDU that may arrive, in order, the pairs
                   \* <<message_type, listener_unique_id>> it may have
    ErrorStatuses, \* statuses other than SUCCESS that a talker reports
    TimeoutRange,  \* values of a c_uint16, the type of an in-flight entry's timeout
    StartTimes,    \* wall clock, in ms since the epoch, when the thread starts
    TimeSteps,     \* the clock advances by these amounts of ms
    MaxNow,        \* bound on the clock
    NoCmd,         \* cmd before its first assignment
    NoInfo         \* no entry in listenerStreamInfos

\* timeout_values for the two commands the listener sends
CONNECT_TX_TIMEOUT_MS    == 2000
DISCONNECT_TX_TIMEOUT_MS == 200

Inflight == [timeout : 0 .. TimeoutRange - 1, retried : BOOLEAN,
             command : Message, original_sequence_id : Nat]

ASSUME ConstantsAssumption ==
    /\ MyId \in Nat \ {0}
    /\ Controllers \subseteq Nat \ {0}
    /\ Sources \subseteq (Nat \ {0}) \X Nat
    /\ ListenerIds \subseteq Nat
    /\ ListenerUids \subseteq Nat
    /\ Arrivals \in Seq(SUBSET (MessageTypes \X ListenerUids))
    /\ ErrorStatuses \subseteq Nat \ {SUCCESS}
    /\ TimeoutRange \in Nat \ {0}
    /\ StartTimes \subseteq Nat
    /\ TimeSteps \subseteq Nat \ {0}
    /\ MaxNow \in Nat
    /\ NoCmd \notin Message
    /\ NoInfo \notin StreamInfo

\* The order in which run() resets the flags, and the order in which it tests
\* them; a flag is named by the message type it stands for.
ResetOrder == << CONNECT_RX_COMMAND, DISCONNECT_RX_COMMAND, CONNECT_TX_RESPONSE,
                 DISCONNECT_TX_RESPONSE, GET_RX_STATE_COMMAND >>
CheckOrder == << CONNECT_RX_COMMAND, CONNECT_TX_RESPONSE, GET_RX_STATE_COMMAND,
                 DISCONNECT_RX_COMMAND, DISCONNECT_TX_RESPONSE >>

VARIABLES
    queue,        \* self.rcvdCmdResp
    flags,        \* the five rcvd... flags
    event,        \* self.event
    doTerminate,  \* self.doTerminate
    infos,        \* self.listenerStreamInfos
    inflight,     \* self.inflight
    retried,      \* self.retried
    cmd,          \* run()'s local variable cmd
    ct,           \* run()'s local variable ct, in ms
    pc, k,        \* where the thread is; k counts the five resets and checks
    cb,           \* where acmp_cb is: "idle", or the step it takes next
    cbType,       \* the type of the ACMPDU acmp_cb works on
    owner,        \* the main thread, which calls performTerminate
    now,          \* the wall clock in ms since the epoch
    arrived,      \* history: the messages acmp_cb accepted, in order
    wire          \* history: the frames sent, in order

shared  == << queue, flags, event, doTerminate >>
local   == << infos, inflight, retried, cmd >>
network == << cb, cbType, arrived >>
vars    == << shared, local, ct, pc, k, network, owner, now, wire >>

Init ==
    /\ queue = << >>
    /\ flags = [t \in FlagTypes |-> FALSE]
    /\ event = FALSE
    /\ doTerminate = FALSE
    /\ infos = [u \in ListenerUids |-> NoInfo]
    /\ inflight = << >>
    /\ retried = << >>
    /\ cmd = NoCmd
    /\ pc = "reset"
    /\ k = 1
    /\ cb = "idle"
    /\ cbType = CONNECT_RX_COMMAND
    /\ owner = "running"
    /\ now \in StartTimes
    /\ ct = now
    /\ arrived = << >>
    /\ wire = << >>

-----------------------------------------------------------------------------
(* Predicates and updates the handlers are made of.                        *)

validListenerUnique(u) == u = MyId

listenerIsConnected(c) ==
    /\ infos[c.luid] # NoInfo
    /\ infos[c.luid].tid # c.tid
    /\ infos[c.luid].tuid # c.tuid
    /\ infos[c.luid].connected \/ infos[c.luid].pending

listenerIsConnectedTo(c) == infos[c.luid] # NoInfo /\ SameSource(infos[c.luid], c)

\* int(currentTime * 1000) + timeout_values[...], as a c_uint16 keeps it
Expiry(ms) == (now + ms) % TimeoutRange

\* ct >= infl.timeout: ct is in seconds, timeout in (truncated) milliseconds
Expired(infl) == ct >= 1000 * infl.timeout

SameCommand(infl, c) ==
    << infl.command.ctl, infl.command.tid, infl.command.tuid,
       infl.command.lid, infl.command.luid >>
        = << c.ctl, c.tid, c.tuid, c.lid, c.luid >>

\* The index of the first matching entry of an in-flight list, 0 for None
findMatchingInflightIndex(list, c) ==
    SelectInSeq(list, LAMBDA infl : SameCommand(infl, c))

\* cancelTimeout and removeInflight; the entry whose timer is cancelled goes
cancelAndRemove(list, c) ==
    LET i == findMatchingInflightIndex(list, c)
    IN  IF i = 0 THEN list ELSE RemoveAt(list, i)

tx(m, type, error) == wire' = Append(wire, [pdu |-> Formed(m, type), error |-> error])

\* txResponse of the message being handled: cmd itself is overwritten.
txResponse(type, error) == tx(cmd, type, error) /\ cmd' = Formed(cmd, type)

\* Mutant of txNewCommand: the entry does not keep the sequence id.
txNewCommandForgetful(type, ms) ==
    /\ inflight' = Append(inflight, [timeout |-> Expiry(ms), retried |-> FALSE,
                                     command |-> cmd, original_sequence_id |-> 0])
    /\ tx(cmd, type, SUCCESS)
    /\ cmd' = Formed(cmd, type)

\* txCommand(messageType, command, False); the entry keeps cmd as it was before.
txNewCommand(type, ms) ==
    /\ inflight' = Append(inflight, [timeout |-> Expiry(ms), retried |-> FALSE,
                                     command |-> cmd, original_sequence_id |-> cmd.seq])
    /\ tx(cmd, type, SUCCESS)
    /\ cmd' = Formed(cmd, type)

-----------------------------------------------------------------------------
(* acmp_cb, in the interface's worker thread.                              *)

\* Every ACMPDU that may be the n-th to arrive; only a response carries an error.
Incoming(n) ==
    { m \in [type : {a[1] : a \in Arrivals[n]}, status : {SUCCESS} \cup ErrorStatuses,
             ctl : Controllers, tid : {src[1] : src \in Sources},
             tuid : {src[2] : src \in Sources}, lid : ListenerIds,
             luid : {a[2] : a \in Arrivals[n]}, seq : {n}] :
        /\ << m.type, m.luid >> \in Arrivals[n]
        /\ << m.tid, m.tuid >> \in Sources
        /\ m.status # SUCCESS => m.type \in {CONNECT_TX_RESPONSE, DISCONNECT_TX_RESPONSE} }

\* Mutant of PutMessage: what is addressed to other listeners is queued as well.
PutMessageUnfiltered(m) ==
    /\ cb = "idle"
    /\ pc # "stopped"
    /\ queue' = Append(queue, m)
    /\ arrived' = Append(arrived, m)
    /\ cbType' = m.type
    /\ cb' = IF m.type \in FlagTypes THEN "flag" ELSE "signal"
    /\ UNCHANGED << flags, event, doTerminate, local, ct, pc, k, owner, now, wire >>

\* The filter and rcvdCmdResp.put(copy.deepcopy(acmpdu)).  acmpdu_str, evaluated for the log
\* between the two, raises KeyError for a message type without a name, so that nothing is put.
PutMessage(m) ==
    /\ cb = "idle"
    /\ pc # "stopped"
    /\ m.lid = MyId
    /\ m.type \in NamedTypes
    /\ queue' = Append(queue, m)
    /\ arrived' = Append(arrived, m)
    /\ cbType' = m.type
    /\ cb' = IF m.type \in FlagTypes THEN "flag" ELSE "signal"
    /\ UNCHANGED << flags, event, doTerminate, local, ct, pc, k, owner, now, wire >>

SetFlag ==
    /\ cb = "flag"
    /\ flags' = [flags EXCEPT ![cbType] = TRUE]
    /\ cb' = "signal"
    /\ UNCHANGED << queue, event, doTerminate, local, ct, pc, k, cbType, arrived,
                    owner, now, wire >>

SignalEvent ==
    /\ cb = "signal"
    /\ event' = TRUE
    /\ cb' = "idle"
    /\ UNCHANGED << queue, flags, doTerminate, local, ct, pc, k, cbType, arrived,
                    owner, now, wire >>

\* performTerminate, by the main thread
PerformTerminate ==
    /\ owner = "running"
    /\ doTerminate' = TRUE
    /\ owner' = "signal"
    /\ UNCHANGED << queue, flags, event, local, ct, pc, k, network, now, wire >>

SignalTerminate ==
    /\ owner = "signal"
    /\ event' = TRUE
    /\ owner' = "waiting"
    /\ UNCHANGED << queue, flags, doTerminate, local, ct, pc, k, network, now, wire >>

Tick(d) ==
    /\ now + d <= MaxNow
    /\ now' = now + d
    /\ UNCHANGED << shared, local, ct, pc, k, network, owner, wire >>

-----------------------------------------------------------------------------
(* run(), up to the handlers.                                              *)

\* Mutant of ResetFlag: flags are left to the handlers that reset them.
ResetFlagKept ==
    /\ pc = "reset"
    /\ IF k < 5 THEN k' = k + 1 /\ pc' = pc
                ELSE k' = 1 /\ pc' = "empty"
    /\ UNCHANGED << shared, local, ct, network, owner, now, wire >>

ResetFlag ==
    /\ pc = "reset"
    /\ flags' = [flags EXCEPT ![ResetOrder[k]] = FALSE]
    /\ IF k < 5 THEN k' = k + 1 /\ pc' = pc
                ELSE k' = 1 /\ pc' = "empty"
    /\ UNCHANGED << queue, event, doTerminate, local, ct, network, owner, now, wire >>

CheckEmpty ==
    /\ pc = "empty"
    /\ pc' = IF queue = << >> THEN "wait" ELSE "terminate"
    /\ UNCHANGED << shared, local, ct, k, network, owner, now, wire >>

\* Mutant of WaitReturns: event.wait() without a timeout
WaitReturnsWhenSet ==
    /\ pc = "wait"
    /\ event
    /\ pc' = "clear"
    /\ UNCHANGED << shared, local, ct, k, network, owner, now, wire >>

\* event.wait(1) returns: the event is set, or a second has passed
WaitReturns ==
    /\ pc = "wait"
    /\ pc' = "clear"
    /\ UNCHANGED << shared, local, ct, k, network, owner, now, wire >>

ClearEvent ==
    /\ pc = "clear"
    /\ event' = FALSE
    /\ pc' = "terminate"
    /\ UNCHANGED << queue, flags, doTerminate, local, ct, k, network, owner, now, wire >>

\* The loop ends, and the callback is unregistered
CheckTerminate ==
    /\ pc = "terminate"
    /\ pc' = IF doTerminate THEN "stopped" ELSE "get"
    /\ UNCHANGED << shared, local, ct, k, network, owner, now, wire >>

\* Mutant of GetMessage: the first message is read and left in the queue.
GetMessagePeeking ==
    /\ pc = "get"
    /\ cmd' = IF queue # << >> THEN Head(queue) ELSE cmd
    /\ ct' = now
    /\ retried' = << >>
    /\ pc' = "expire"
    /\ UNCHANGED << queue, flags, event, doTerminate, infos, inflight, k, network, owner,
                    now, wire >>

\* get_nowait: when the queue is empty, cmd stays what it was
GetMessage ==
    /\ pc = "get"
    /\ IF queue # << >>
         THEN cmd' = Head(queue) /\ queue' = Tail(queue)
         ELSE UNCHANGED << cmd, queue >>
    /\ ct' = now
    /\ retried' = << >>
    /\ pc' = "expire"
    /\ UNCHANGED << flags, event, doTerminate, infos, inflight, k, network, owner,
                    now, wire >>

-----------------------------------------------------------------------------
(* The timeouts: while the first in-flight entry has expired, pop it.      *)

HeadExpired == inflight # << >> /\ Expired(Head(inflight))

ExpireNext(type) ==
    /\ pc = "expire"
    /\ HeadExpired
    /\ Head(inflight).command.type = type
    /\ UNCHANGED << shared, infos, ct, k, network, owner, now >>

\* Neither branch: the entry is dropped without a word
DropExpired ==
    \E type \in MessageTypes \ {CONNECT_TX_COMMAND, DISCONNECT_TX_COMMAND} :
        /\ ExpireNext(type)
        /\ inflight' = Tail(inflight)
        /\ UNCHANGED << retried, cmd, pc, wire >>

\* txCommand(type, infl.command, True) after infl was popped: another entry of the
\* same stream is retried in its place, or COULD_NOT_SEND_MESSAGE is reported.
\* Either way infl.command has a new message type, and infl goes to retried.
Retry(type, ms) ==
    LET infl  == Head(inflight)
        rest  == Tail(inflight)
        i     == findMatchingInflightIndex(rest, infl.command)
        sent  == IF i = 0 THEN type + 1 ELSE type
        error == IF i = 0 THEN COULD_NOT_SEND_MESSAGE ELSE SUCCESS
    IN  /\ ~infl.retried
        /\ inflight' = IF i = 0 THEN rest
                       ELSE [rest EXCEPT ![i].retried = TRUE,
                                         ![i].timeout = Expiry(ms)]
        /\ retried' = Append(retried, [infl EXCEPT !.retried = TRUE,
                                                   !.command = Formed(@, sent)])
        /\ tx(infl.command, sent, error)
        /\ UNCHANGED << cmd, pc >>

\* _handleConnectTxTimeout of a retried entry: rcvdCmdResp is a Queue and has no
\* listener_unique_id, so AttributeError ends the iteration.
AbortOnRetried ==
    /\ Head(inflight).retried
    /\ inflight' = Tail(inflight)
    /\ pc' = "reset"
    /\ UNCHANGED << retried, cmd, wire >>

handleConnectTxTimeout ==
    /\ ExpireNext(CONNECT_TX_COMMAND)
    /\ Retry(CONNECT_TX_COMMAND, CONNECT_TX_TIMEOUT_MS) \/ AbortOnRetried

handleDisconnectTxTimeout ==
    /\ ExpireNext(DISCONNECT_TX_COMMAND)
    /\ \/ Retry(DISCONNECT_TX_COMMAND, DISCONNECT_TX_TIMEOUT_MS)
       \/ /\ Head(inflight).retried
          /\ tx([Head(inflight).command EXCEPT !.seq = Head(inflight).original_sequence_id],
                DISCONNECT_RX_RESPONSE, LISTENER_TALKER_TIMEOUT)
          /\ inflight' = Tail(inflight)
          /\ UNCHANGED << retried, cmd, pc >>

\* The first entry has not expired, or there is none: retries go back in front
ReinsertRetried ==
    /\ pc = "expire"
    /\ ~HeadExpired
    /\ inflight' = retried \o inflight
    /\ pc' = "check"
    /\ UNCHANGED << shared, infos, retried, cmd, ct, k, network, owner, now, wire >>

-----------------------------------------------------------------------------
(* The five checks and their handlers.                                     *)

Advance == IF k < 5 THEN k' = k + 1 /\ pc' = pc
                    ELSE k' = 1 /\ pc' = "reset"

\* Mutant of Abort: the exception is not caught and ends the thread.
AbortThread == pc' = "dead" /\ k' = 1 /\ UNCHANGED flags

\* An exception in a handler ends the iteration; the flag stays set.
Abort == pc' = "reset" /\ k' = 1 /\ UNCHANGED flags

SkipCheck ==
    /\ pc = "check"
    /\ ~flags[CheckOrder[k]] \/ (cmd # NoCmd /\ cmd.lid # MyId)
    /\ Advance
    /\ UNCHANGED << shared, local, ct, network, owner, now, wire >>

\* A flag is set and cmd was never assigned: UnboundLocalError
UnboundCmd ==
    /\ pc = "check"
    /\ flags[CheckOrder[k]]
    /\ cmd = NoCmd
    /\ Abort
    /\ UNCHANGED << queue, event, doTerminate, local, ct, network, owner, now, wire >>

Handle(type) ==
    /\ pc = "check"
    /\ CheckOrder[k] = type
    /\ flags[type]
    /\ cmd # NoCmd
    /\ cmd.lid = MyId
    /\ UNCHANGED << queue, event, doTerminate, retried, ct, network, owner, now >>

Done(type) == Advance /\ flags' = [flags EXCEPT ![type] = FALSE]

\* The refusal every handler starts with (txResponse of the command type plus one,
\* or of the RX response that a TX response is answered with)
UnknownListener(type) ==
    /\ ~validListenerUnique(cmd.luid)
    /\ txResponse(type, LISTENER_UNKNOWN_ID)
    /\ UNCHANGED << infos, inflight >>

\* Once the CONNECT_TX_COMMAND is sent, the entry of the sink is looked up: a sink
\* that was never connected has none, and KeyError ends the iteration.
handleConnectRxCommand ==
    /\ Handle(CONNECT_RX_COMMAND)
    /\ \/ UnknownListener(CONNECT_RX_RESPONSE) /\ Done(CONNECT_RX_COMMAND)
       \/ /\ validListenerUnique(cmd.luid)
          /\ listenerIsConnected(cmd)
          /\ txResponse(CONNECT_RX_RESPONSE, LISTENER_EXCLUSIVE)
          /\ Done(CONNECT_RX_COMMAND)
          /\ UNCHANGED << infos, inflight >>
       \/ /\ validListenerUnique(cmd.luid)
          /\ ~listenerIsConnected(cmd)
          /\ txNewCommand(CONNECT_TX_COMMAND, CONNECT_TX_TIMEOUT_MS)
          /\ \/ /\ infos[cmd.luid] = NoInfo
                /\ Abort
                /\ UNCHANGED infos
             \/ /\ infos[cmd.luid] # NoInfo
                /\ infos' = [infos EXCEPT ![cmd.luid].tid = cmd.tid,
                                          ![cmd.luid].tuid = cmd.tuid,
                                          ![cmd.luid].pending = TRUE]
                /\ Done(CONNECT_RX_COMMAND)

\* The status is read from cmd, which an earlier handler may have overwritten.
handleConnectTxResponse ==
    /\ Handle(CONNECT_TX_RESPONSE)
    /\ \/ /\ ~validListenerUnique(cmd.luid)
          /\ Done(CONNECT_TX_RESPONSE)
          /\ UNCHANGED << infos, inflight, cmd, wire >>
       \/ /\ validListenerUnique(cmd.luid)
          /\ cmd.status # SUCCESS
          /\ infos[cmd.luid] = NoInfo
          /\ Abort
          /\ UNCHANGED << infos, inflight, cmd, wire >>
       \/ /\ validListenerUnique(cmd.luid)
          /\ cmd.status = SUCCESS \/ infos[cmd.luid] # NoInfo
          /\ infos' = IF cmd.status = SUCCESS
                        THEN [infos EXCEPT ![cmd.luid] = ConnectedInfo(cmd)]
                        ELSE [infos EXCEPT ![cmd.luid].pending = FALSE]
          /\ inflight' = cancelAndRemove(inflight, cmd)
          /\ txResponse(CONNECT_RX_RESPONSE, cmd.status)
          /\ Done(CONNECT_TX_RESPONSE)

\* getState raises KeyError for a sink without an entry.
handleGetRxState ==
    /\ Handle(GET_RX_STATE_COMMAND)
    /\ \/ UnknownListener(GET_RX_STATE_RESPONSE) /\ Done(GET_RX_STATE_COMMAND)
       \/ /\ validListenerUnique(cmd.luid)
          /\ infos[cmd.luid] = NoInfo
          /\ Abort
          /\ UNCHANGED << infos, inflight, cmd, wire >>
       \/ /\ validListenerUnique(cmd.luid)
          /\ infos[cmd.luid] # NoInfo
          /\ tx(StateResponse(infos[cmd.luid]), GET_RX_STATE_RESPONSE, SUCCESS)
          /\ Done(GET_RX_STATE_COMMAND)
          /\ UNCHANGED << infos, inflight, cmd >>

\* Mutant: disconnectListener is not called.
handleDisconnectRxCommandKeepsInfo ==
    /\ Handle(DISCONNECT_RX_COMMAND)
    /\ Done(DISCONNECT_RX_COMMAND)
    /\ UNCHANGED infos
    /\ \/ UnknownListener(DISCONNECT_RX_RESPONSE)
       \/ /\ validListenerUnique(cmd.luid)
          /\ listenerIsConnectedTo(cmd)
          /\ txNewCommand(DISCONNECT_TX_COMMAND, DISCONNECT_TX_TIMEOUT_MS)
       \/ /\ validListenerUnique(cmd.luid)
          /\ ~listenerIsConnectedTo(cmd)
          /\ txResponse(DISCONNECT_RX_RESPONSE, NOT_CONNECTED)
          /\ UNCHANGED inflight

handleDisconnectRxCommand ==
    /\ Handle(DISCONNECT_RX_COMMAND)
    /\ Done(DISCONNECT_RX_COMMAND)
    /\ \/ UnknownListener(DISCONNECT_RX_RESPONSE)
       \/ /\ validListenerUnique(cmd.luid)
          /\ listenerIsConnectedTo(cmd)
          /\ infos' = [infos EXCEPT ![cmd.luid] = ZeroInfo]
          /\ txNewCommand(DISCONNECT_TX_COMMAND, DISCONNECT_TX_TIMEOUT_MS)
       \/ /\ validListenerUnique(cmd.luid)
          /\ ~listenerIsConnectedTo(cmd)
          /\ txResponse(DISCONNECT_RX_RESPONSE, NOT_CONNECTED)
          /\ UNCHANGED << infos, inflight >>

\* Mutant of handleDisconnectTxResponse: it does not ask whether the sink is there.
handleDisconnectTxResponseAnySink ==
    /\ Handle(DISCONNECT_TX_RESPONSE)
    /\ inflight' = cancelAndRemove(inflight, cmd)
    /\ txResponse(DISCONNECT_RX_RESPONSE, cmd.status)
    /\ Done(DISCONNECT_TX_RESPONSE)
    /\ UNCHANGED infos

\* The flag is reset on the valid branch only.
handleDisconnectTxResponse ==
    /\ Handle(DISCONNECT_TX_RESPONSE)
    /\ \/ /\ ~validListenerUnique(cmd.luid)
          /\ Advance
          /\ UNCHANGED << flags, infos, inflight, cmd, wire >>
       \/ /\ validListenerUnique(cmd.luid)
          /\ inflight' = cancelAndRemove(inflight, cmd)
          /\ txResponse(DISCONNECT_RX_RESPONSE, cmd.status)
          /\ Done(DISCONNECT_TX_RESPONSE)
          /\ UNCHANGED infos

-----------------------------------------------------------------------------
ThreadStep ==
    \/ ResetFlag \/ CheckEmpty \/ WaitReturns \/ ClearEvent \/ CheckTerminate
    \/ GetMessage
    \/ DropExpired \/ handleConnectTxTimeout \/ handleDisconnectTxTimeout
    \/ ReinsertRetried
    \/ SkipCheck \/ UnboundCmd
    \/ handleConnectRxCommand \/ handleConnectTxResponse \/ handleGetRxState
    \/ handleDisconnectRxCommand \/ handleDisconnectTxResponse

acmp_cb ==
    \/ /\ Len(arrived) < Len(Arrivals)
       /\ \E m \in Incoming(Len(arrived) + 1) : PutMessage(m)
    \/ SetFlag
    \/ SignalEvent

performTerminate == PerformTerminate \/ SignalTerminate

Next == ThreadStep \/ acmp_cb \/ performTerminate \/ \E d \in TimeSteps : Tick(d)

Spec == Init /\ [][Next]_vars

\* The listener thread and the worker thread keep running: neither waits without
\* a bound, since event.wait(1) gives up after a second.
FairSpec == Spec /\ WF_vars(ThreadStep) /\ WF_vars(SetFlag \/ SignalEvent)

\* A network that leaves the listener time: an ACMPDU arrives only while the thread
\* waits with an empty queue, and acmp_cb returns before the wait does.
SerialNext ==
    \/ cb = "idle" /\ ThreadStep
    \/ pc = "wait" /\ queue = << >> /\ acmp_cb
    \/ cb # "idle" /\ acmp_cb
    \/ performTerminate
    \/ \E d \in TimeSteps : Tick(d)

SerialSpec == Init /\ [][SerialNext]_vars

FairSerialSpec == SerialSpec /\ WF_vars(cb = "idle" /\ ThreadStep)
                             /\ WF_vars(SetFlag \/ SignalEvent)

-----------------------------------------------------------------------------
(* Type correctness.                                                       *)

OwnMessage == {m \in Message : m.lid = MyId /\ m.luid \in ListenerUids}

\* Every variable has the type the code gives it; cmd and the queue hold only
\* messages for this entity.
TypeOK ==
    /\ queue \in Seq(OwnMessage)
    /\ flags \in [FlagTypes -> BOOLEAN]
    /\ event \in BOOLEAN
    /\ doTerminate \in BOOLEAN
    /\ infos \in [ListenerUids -> StreamInfo \cup {NoInfo}]
    /\ inflight \in Seq(Inflight)
    /\ retried \in Seq(Inflight)
    /\ cmd \in OwnMessage \cup {NoCmd}
    /\ ct \in Nat
    /\ pc \in {"reset", "empty", "wait", "clear", "terminate", "get", "expire",
              "check", "stopped"}
    /\ k \in 1 .. 5
    /\ cb \in {"idle", "flag", "signal"}
    /\ cbType \in MessageTypes
    /\ owner \in {"running", "signal", "waiting"}
    /\ now \in Nat
    /\ arrived \in Seq(Message)
    /\ wire \in Seq(Frame)

-----------------------------------------------------------------------------
(* Safety.                                                                 *)

SameStream(a, b) == SameSource(a, b) /\ a.luid = b.luid

\* What is received for a sink the listener does not have leaves no trace but a
\* refusal: no stream info, nothing in flight, nothing sent to a talker.
InfosOwn == \A u \in ListenerUids : ~validListenerUnique(u) => infos[u] = NoInfo

AllOwn(list) == \A i \in DOMAIN list : validListenerUnique(list[i].command.luid)

Refusal(frame) ==
    /\ frame.error = LISTENER_UNKNOWN_ID
    /\ frame.pdu.type \in {CONNECT_RX_RESPONSE, DISCONNECT_RX_RESPONSE,
                          GET_RX_STATE_RESPONSE}

FramesOwn ==
    \A i \in DOMAIN wire :
        wire[i].pdu.lid = MyId /\ ~validListenerUnique(wire[i].pdu.luid) => Refusal(wire[i])

OnlyOwnSink == InfosOwn /\ AllOwn(inflight) /\ FramesOwn

\* Although cmd is overwritten as it is answered, kept from one iteration to the next
\* and copied into in-flight entries, a frame never mixes the fields of two messages:
\* each names the controller, stream and sequence id of one message received, except
\* the GET_RX_STATE_RESPONSE, whose source is that of one message received.
FrameProvenance ==
    \A i \in DOMAIN wire :
        LET m == wire[i].pdu
        IN  \/ \E j \in DOMAIN arrived : /\ SameStream(m, arrived[j])
                                        /\ m.ctl = arrived[j].ctl
                                        /\ m.seq = arrived[j].seq
            \/ /\ m.type = GET_RX_STATE_RESPONSE
               /\ m.tid = 0 \/ \E j \in DOMAIN arrived : SameSource(m, arrived[j])

\* A message received costs at most three frames (a command, its retry and the report that
\* the talker is silent) and entries in flight count as frames still owed.  It holds although
\* handlers that raise leave their flag set and cmd stays for the next iteration.
CostBounded == Len(wire) + Len(inflight) <= 3 * Len(arrived)

-----------------------------------------------------------------------------
(* Liveness.                                                               *)

\* Whatever arrives while it runs, and whatever exceptions its handlers raise, the
\* thread ends after performTerminate (AVDECC.__exit__ waits for that).
Terminates == doTerminate ~> pc = "stopped"

\* Every message that is put is taken out again, unless the thread ends first: a put
\* that falls between empty(), wait() and clear() is not forgotten.
QueueDrains == []<>(queue = << >> \/ pc = "stopped")
=============================================================================
