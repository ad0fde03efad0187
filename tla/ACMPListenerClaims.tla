-------------------------- MODULE ACMPListenerClaims --------------------------
(***************************************************************************)
(* What the docstrings, comments and tests of the ACMP listener say of it, *)
(* as properties of the model.  The code does otherwise in each case; the  *)
(* README says where.                                                      *)
(***************************************************************************)
EXTENDS ACMPListenerSerial

\* A CONNECT_RX_COMMAND that is received is handled (the condition quoted in the tests,
\* lines 598-625): a frame with its sequence id follows, unless the thread ends.
ConnectCommandHandled ==
    \A n \in 1 .. Len(Arrivals) :
        (Len(arrived) >= n /\ arrived[n].type = CONNECT_RX_COMMAND)
            ~> (doTerminate \/ \E i \in DOMAIN wire : wire[i].pdu.seq = n)

\* The program declares listener_stream_sinks = 2 (__main__.py, line 27): a command for
\* one of its sinks, 0 or 1, is not refused because the sink is unknown.
DeclaredSinksKnown ==
    \A i \in DOMAIN wire :
        wire[i].pdu.luid < 2 => wire[i].error # LISTENER_UNKNOWN_ID

\* An entry in flight times out at currentTime plus the timeout of Table 8-1 (txCommand's
\* docstring, lines 135-146): none does before the shorter of the two timeouts has passed
\* since the thread started.
NotBeforeTimeout ==
    pc = "expire" /\ HeadExpired =>
        \E s \in StartTimes : ct >= s + DISCONNECT_TX_TIMEOUT_MS
=============================================================================
