--------------------------- MODULE ACMPSequential ---------------------------
(***************************************************************************)
(* What the ACMP listener promises its network: every message addressed to *)
(* it is handled once, in the order of arrival, by the handler for its     *)
(* message type; but for the retries and reports of a timeout, nothing     *)
(* else is ever sent.  No queue, flag, thread or timer is part of it.      *)
(*                                                                         *)
(* The code and the docstrings of acmp/__init__.py disagree on details: on *)
(* the status field of a response, on which sources a connected sink       *)
(* refuses or disconnects, on what a state response is filled with.  The   *)
(* promise is what both say, and where they differ allows either.          *)
(***************************************************************************)
EXTENDS ACMPMessages, Sequences

CONSTANTS MyId, ListenerUids, NoInfo

VARIABLES
    arrived,   \* the messages received, in order
    served,    \* how many of them have been handled
    infos,     \* listenerStreamInfos
    wire       \* the frames sent, in order

vars == << arrived, served, infos, wire >>

Init ==
    /\ arrived = << >>
    /\ served = 0
    /\ infos = [u \in ListenerUids |-> NoInfo]
    /\ wire = << >>

Receive ==
    /\ Len(arrived') = Len(arrived) + 1
    /\ arrived = SubSeq(arrived', 1, Len(arrived))
    /\ arrived'[Len(arrived')].lid = MyId
    /\ UNCHANGED << served, infos, wire >>

\* txResponse is to report error in the status field, which acmp_form_msg leaves SUCCESS.
Send(m, type, error) ==
    \E status \in {SUCCESS, error} :
        wire' = Append(wire, [pdu |-> [m EXCEPT !.type = type, !.status = status],
                              error |-> error])

Silent == UNCHANGED << infos, wire >>

Known(m)    == infos[m.luid] # NoInfo
Occupied(m) == infos[m.luid].connected \/ infos[m.luid].pending

\* A sink is held against a source that differs from its own in both ids, and may be
\* against one that differs in one of them, but not against its own.
MayRefuse(m)  == Known(m) /\ Occupied(m) /\ ~SameSource(infos[m.luid], m)
MustRefuse(m) == /\ Known(m)
                 /\ Occupied(m)
                 /\ infos[m.luid].tid # m.tid
                 /\ infos[m.luid].tuid # m.tuid

\* The attempt to connect a sink that was never connected may leave no trace.
Attempt(m) ==
    \/ /\ Known(m)
       /\ infos' = [infos EXCEPT ![m.luid].tid = m.tid, ![m.luid].tuid = m.tuid,
                                 ![m.luid].pending = TRUE]
    \/ /\ ~Known(m)
       /\ \/ UNCHANGED infos
          \/ infos' = [infos EXCEPT ![m.luid] =
                         [ZeroInfo EXCEPT !.tid = m.tid, !.tuid = m.tuid, !.pending = TRUE]]

Connect(m) ==
    \/ /\ MayRefuse(m)
       /\ Send(m, CONNECT_RX_RESPONSE, LISTENER_EXCLUSIVE)
       /\ UNCHANGED infos
    \/ /\ ~MustRefuse(m)
       /\ Send(m, CONNECT_TX_COMMAND, SUCCESS)
       /\ Attempt(m)

\* The talker's answer is passed on; the refusal of a connection nobody knows of may not be.
TalkerConnected(m) ==
    \/ /\ Send(m, CONNECT_RX_RESPONSE, m.status)
       /\ infos' = CASE m.status = SUCCESS -> [infos EXCEPT ![m.luid] = ConnectedInfo(m)]
                     [] m.status # SUCCESS /\ Known(m) ->
                          [infos EXCEPT ![m.luid].pending = FALSE]
                     [] OTHER -> infos
    \/ m.status # SUCCESS /\ ~Known(m) /\ Silent

\* The state is reported with the source of the sink, the rest as in the command or zero;
\* of a sink that was never connected there may be no report.
GetState(m) ==
    \/ LET info == IF Known(m) THEN infos[m.luid] ELSE ZeroInfo
       IN  /\ \/ Send(StateResponse(info), GET_RX_STATE_RESPONSE, SUCCESS)
              \/ Send([m EXCEPT !.tid = info.tid, !.tuid = info.tuid],
                      GET_RX_STATE_RESPONSE, SUCCESS)
           /\ UNCHANGED infos
    \/ ~Known(m) /\ Silent

\* The source a sink is connected to is disconnected, one it only names may be.
MayDisconnect(m)  == Known(m) /\ SameSource(infos[m.luid], m)
MustDisconnect(m) == MayDisconnect(m) /\ infos[m.luid].connected

Disconnect(m) ==
    \/ /\ MayDisconnect(m)
       /\ infos' = [infos EXCEPT ![m.luid] = ZeroInfo]
       /\ Send(m, DISCONNECT_TX_COMMAND, SUCCESS)
    \/ /\ ~MustDisconnect(m)
       /\ Send(m, DISCONNECT_RX_RESPONSE, NOT_CONNECTED)
       /\ UNCHANGED infos

TalkerDisconnected(m) == Send(m, DISCONNECT_RX_RESPONSE, m.status) /\ UNCHANGED infos

\* A command for a sink the listener does not have is refused, a response ignored.
NoSuchSink(m) ==
    \/ /\ m.type \in {CONNECT_RX_COMMAND, GET_RX_STATE_COMMAND, DISCONNECT_RX_COMMAND}
       /\ Send(m, m.type + 1, LISTENER_UNKNOWN_ID)
       /\ UNCHANGED infos
    \/ m.type \in {CONNECT_TX_RESPONSE, DISCONNECT_TX_RESPONSE} /\ Silent

Outcome(m) ==
    \/ m.type \notin FlagTypes /\ Silent
    \/ m.luid # MyId /\ NoSuchSink(m)
    \/ /\ m.luid = MyId
       /\ \/ m.type = CONNECT_RX_COMMAND /\ Connect(m)
          \/ m.type = CONNECT_TX_RESPONSE /\ TalkerConnected(m)
          \/ m.type = GET_RX_STATE_COMMAND /\ GetState(m)
          \/ m.type = DISCONNECT_RX_COMMAND /\ Disconnect(m)
          \/ m.type = DISCONNECT_TX_RESPONSE /\ TalkerDisconnected(m)

Serve ==
    /\ served < Len(arrived)
    /\ served' = served + 1
    /\ Outcome(arrived[served + 1])
    /\ UNCHANGED arrived

\* A command to a talker may be sent again, or be given up with the response that says so.
Timeout ==
    /\ \E i \in DOMAIN wire :
          \/ /\ wire[i].pdu.type \in {CONNECT_TX_COMMAND, DISCONNECT_TX_COMMAND}
             /\ Send(wire[i].pdu, wire[i].pdu.type, SUCCESS)
          \/ /\ wire[i].pdu.type = CONNECT_TX_COMMAND
             /\ Send(wire[i].pdu, CONNECT_RX_RESPONSE, LISTENER_TALKER_TIMEOUT)
          \/ /\ wire[i].pdu.type = DISCONNECT_TX_COMMAND
             /\ Send(wire[i].pdu, DISCONNECT_RX_RESPONSE, LISTENER_TALKER_TIMEOUT)
    /\ UNCHANGED << arrived, served >>
    /\ infos' \in {infos} \cup {[infos EXCEPT ![u].pending = FALSE] :
                                  u \in {v \in ListenerUids : infos[v] # NoInfo}}

Next == Receive \/ Serve \/ Timeout

Spec == Init /\ [][Next]_vars
=============================================================================
