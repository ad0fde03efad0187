---------------------------- MODULE ACMPMessages ----------------------------
(***************************************************************************)
(* The ACMPDUs the listener reads and writes, and its stream infos, with   *)
(* the fields some branch of src/src/atdecc/acmp/__init__.py reads.        *)
(***************************************************************************)
EXTENDS Naturals

\* jdksavdecc message types (a response is its command plus one)
CONNECT_TX_COMMAND     == 0
CONNECT_TX_RESPONSE    == 1
DISCONNECT_TX_COMMAND  == 2
DISCONNECT_TX_RESPONSE == 3
CONNECT_RX_COMMAND     == 6
CONNECT_RX_RESPONSE    == 7
DISCONNECT_RX_COMMAND  == 8
DISCONNECT_RX_RESPONSE == 9
GET_RX_STATE_COMMAND   == 10
GET_RX_STATE_RESPONSE  == 11
MessageTypes           == 0 .. 15   \* a 4-bit header field
NamedTypes             == 0 .. 13   \* those with a name in jdksavdecc's enumeration

\* jdksavdecc status codes
SUCCESS                 == 0
LISTENER_UNKNOWN_ID     == 1
LISTENER_TALKER_TIMEOUT == 7
LISTENER_EXCLUSIVE      == 8
NOT_CONNECTED           == 10
COULD_NOT_SEND_MESSAGE  == 12

Message == [type : MessageTypes, status : Nat, ctl : Nat, tid : Nat, tuid : Nat,
            lid : Nat, luid : Nat, seq : Nat]

StreamInfo == [tid : Nat, tuid : Nat, ctl : Nat,
               connected : BOOLEAN, pending : BOOLEAN]

\* A frame handed to the interface: the ACMPDU as acmp_form_msg lays it out and,
\* as error, the status that txResponse was asked to report.
Frame == [pdu : Message, error : Nat]

\* The message types for which acmp_cb sets a flag and run() has a handler
FlagTypes  == { CONNECT_RX_COMMAND, CONNECT_TX_RESPONSE, GET_RX_STATE_COMMAND,
                DISCONNECT_RX_COMMAND, DISCONNECT_TX_RESPONSE }

\* Source of an ACMPDU or of a stream info
SameSource(a, b) == a.tid = b.tid /\ a.tuid = b.tuid

\* acmp_form_msg writes the message type into the structure it is given and takes
\* the third argument of send_acmp for a stream id, so the status becomes SUCCESS.
Formed(m, type) == [m EXCEPT !.type = type, !.status = SUCCESS]

\* struct_acmp_listener_stream_info as connectListener fills it from a response
ConnectedInfo(r) == [tid |-> r.tid, tuid |-> r.tuid, ctl |-> r.ctl,
                     connected |-> TRUE, pending |-> FALSE]
ZeroInfo == [tid |-> 0, tuid |-> 0, ctl |-> 0, connected |-> FALSE, pending |-> FALSE]

\* The structure getState builds: only the fields it names are set.
StateResponse(info) == [type |-> GET_RX_STATE_RESPONSE, status |-> SUCCESS, ctl |-> 0,
                        tid |-> info.tid, tuid |-> info.tuid, lid |-> 0, luid |-> 0,
                        seq |-> 0]
=============================================================================
