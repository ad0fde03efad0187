------------------------- MODULE ACMPListenerSerial -------------------------
(***************************************************************************)
(* The listener under SerialSpec, on a network that leaves it time between *)
(* two ACMPDUs, implements ACMPSequential.                                 *)
(***************************************************************************)
EXTENDS ACMPListener

\* A message is being handled from get_nowait until its handler has run, which is
\* when its flag is reset or an exception sends the thread back to the top.
InService == pc \in {"expire", "check"} /\ \E t \in FlagTypes : flags[t]

Served == Len(arrived) - Len(queue) - (IF InService THEN 1 ELSE 0)

Promise == INSTANCE ACMPSequential WITH served <- Served

\* The thread with its queue, flags, in-flight entries and timeouts handles every
\* message exactly once, in order, as ACMPSequential says.
ImplementsSequential == Promise!Spec

\* Every message received is handled, unless the thread is told to end.
AllServed == []<>(Served = Len(arrived) \/ doTerminate)
=============================================================================
