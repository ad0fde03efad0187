--------------------------- MODULE MCACMPListener ---------------------------
(* Values of the constants of ACMPListener for model checking.            *)
EXTENDS ACMPListenerClaims

\* The unit tests give the entity the id 42 and address its sink as 42.
TestId == 42
\* Two sources that differ in both ids, and one that shares a talker with the first
Apart  == { <<1, 0>>, <<2, 1>> }
Three  == Apart \cup { <<1, 1>> }
Alone  == { <<1, 0>> }

AllTypes == {CONNECT_TX_COMMAND} \cup FlagTypes

Own(types)     == types \X {TestId}
Foreign(types) == types \X (ListenerUids \ {TestId})

\* A talker's response makes the sink known; the command for a talker that comes by puts
\* its type into the entries of a flag handled late, which is what a timeout acts on; of two
\* more commands one is found by the retry of the other.  Or the last is another message.
Retries == << Own({CONNECT_TX_RESPONSE}), Own({CONNECT_TX_COMMAND, DISCONNECT_TX_COMMAND}),
              Own({CONNECT_RX_COMMAND}),
              Own({DISCONNECT_RX_COMMAND, GET_RX_STATE_COMMAND})
                  \cup Foreign({DISCONNECT_TX_RESPONSE}) >>

\* A listener on a network that leaves it time: what opens a connection, what may
\* change it, then anything
Conversation == << {CONNECT_RX_COMMAND, CONNECT_TX_RESPONSE} \X ListenerUids,
                   {CONNECT_RX_COMMAND, CONNECT_TX_RESPONSE, DISCONNECT_RX_COMMAND}
                       \X ListenerUids,
                   AllTypes \X ListenerUids >>

\* One history after the other for the claims of the docstrings
OnlyConnect    == << {CONNECT_RX_COMMAND} \X ListenerUids >>
TwoConnects    == << Own({CONNECT_RX_COMMAND}), Own({CONNECT_RX_COMMAND}) >>

\* An entity id as mac_to_eid makes it exceeds every 16-bit listener_unique_id.
DeployedId == 1000000

\* time.time() in ms long after the epoch, and on a machine whose clock is not set
LongAfterEpoch == { 70000000 }
Epoch     == { 0 }
=============================================================================
