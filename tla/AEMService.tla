----------------------------- MODULE AEMService -----------------------------
(***************************************************************************)
(* What the entity model promises a controller: the AEM commands it takes  *)
(* in are served one after the other, in the order they came, by a service *)
(* that has one owner at most and a set of subscribers.  No queue, event   *)
(* or thread is part of the promise.  Whether a command nothing is done    *)
(* about is answered, and with how much of it, is left open: there the     *)
(* docstring of processCommand (aecp/__init__.py:328-329) asks for more    *)
(* than the code does.                                                     *)
(***************************************************************************)
EXTENDS AEMCommands, Sequences

CONSTANT MyId   \* the entity's id

VARIABLES
    received,      \* the commands taken in, in order
    served,        \* how many of them have been served
    owner,         \* the controller that has acquired the entity, or 0
    subscribers,   \* the controllers registered for unsolicited notifications
    responses      \* the responses sent, in order

vars == << received, served, owner, subscribers, responses >>

Init ==
    /\ received = << >>
    /\ served = 0
    /\ owner = 0
    /\ subscribers = {}
    /\ responses = << >>

\* An AEM command for this entity
Accepted(c) == c.target = MyId /\ c.message = "AEM_COMMAND"

Receive ==
    /\ Len(received') = Len(received) + 1
    /\ received = SubSeq(received', 1, Len(received))
    /\ Accepted(received'[Len(received')])
    /\ UNCHANGED << served, owner, subscribers, responses >>

Answer(r) == responses' = Append(responses, r)

\* The entity as a whole can be acquired if nobody owns it and released by its owner.
Ownership(c) ==
    \/ /\ c.descriptor # "ENTITY"
       /\ Answer(RespondOwner(c, NOT_IMPLEMENTED, owner))
       /\ UNCHANGED owner
    \/ /\ c.descriptor = "ENTITY" /\ c.release /\ owner = c.ctl
       /\ owner' = 0
       /\ Answer(RespondOwner(c, SUCCESS, 0))
    \/ /\ c.descriptor = "ENTITY" /\ c.release /\ owner # c.ctl
       /\ Answer(RespondOwner(c, BAD_ARGUMENTS, owner))
       /\ UNCHANGED owner
    \/ /\ c.descriptor = "ENTITY" /\ ~c.release /\ owner = 0
       /\ owner' = c.ctl
       /\ Answer(RespondOwner(c, SUCCESS, c.ctl))
    \/ /\ c.descriptor = "ENTITY" /\ ~c.release /\ owner # 0
       /\ Answer(RespondOwner(c, ENTITY_ACQUIRED, owner))
       /\ UNCHANGED owner

Subscription(c) ==
    \/ /\ c.type = "REGISTER_UNSOLICITED_NOTIFICATION"
       /\ subscribers' = subscribers \cup {c.ctl}
       /\ Answer(Respond(c, c.status))
    \/ /\ c.type = "DEREGISTER_UNSOLICITED_NOTIFICATION"
       /\ subscribers' = subscribers \ {c.ctl}
       /\ Answer(Respond(c, IF c.ctl \in subscribers THEN SUCCESS ELSE BAD_ARGUMENTS))

\* Enquiries about a descriptor that the entity cannot say anything about
Unanswerable(c) ==
    \/ c.type = "READ_DESCRIPTOR" /\ c.descriptor \notin Registered
    \/ c.type = "GET_COUNTERS" /\ c.descriptor \notin Counted
    \/ c.type \in {"GET_AVB_INFO", "GET_AUDIO_MAP"} /\ c.descriptor = "UNNAMED"

\* What the entity knows about itself
Enquiry(c) ==
    \/ c.type = "READ_DESCRIPTOR" /\ Answer(Respond(c, SUCCESS))
    \/ c.type = "GET_AVB_INFO" /\ Answer(Respond(c, c.status))
    \/ c.type \in {"GET_AS_PATH", "GET_AUDIO_MAP", "GET_COUNTERS", "LOCK_ENTITY",
                   "ENTITY_AVAILABLE"}
       /\ Answer(Respond(c, NOT_IMPLEMENTED))

\* A command that is not implemented at all
Unimplemented(c) ==
    /\ c.type = "OTHER"
    /\ \/ Answer(RespondHeader(c, NOT_IMPLEMENTED))
       \/ Answer(Respond(c, NOT_IMPLEMENTED))

\* Nothing is done about it, and the controller is told so or not told.
Declined(c) ==
    /\ Unanswerable(c)
    /\ \/ UNCHANGED responses
       \/ Answer(Respond(c, NOT_IMPLEMENTED))

Serve ==
    /\ served < Len(received)
    /\ served' = served + 1
    /\ LET c == received[served + 1]
       IN  \/ c.type = "ACQUIRE_ENTITY" /\ Ownership(c) /\ UNCHANGED subscribers
           \/ Subscription(c) /\ UNCHANGED owner
           \/ ~Unanswerable(c) /\ Enquiry(c) /\ UNCHANGED << owner, subscribers >>
           \/ Unimplemented(c) /\ UNCHANGED << owner, subscribers >>
           \/ Declined(c) /\ UNCHANGED << owner, subscribers >>
    /\ UNCHANGED received

Next == Receive \/ Serve

Spec == Init /\ [][Next]_vars
=============================================================================
