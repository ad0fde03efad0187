---------------------------- MODULE EntityModel ----------------------------
(***************************************************************************)
(* The entity model of src/src/atdecc/aecp/__init__.py: the state machine  *)
(* thread (run), the callback aecp_aem_cb that the interface's worker      *)
(* thread calls for every AECPDU, and the main thread, which calls         *)
(* performTerminate and, as the unit test of unsolicited responses does,   *)
(* sets unsolicited and the event.                                         *)
(*                                                                         *)
(* The threads share the queue rcvdCommand, unsolicited, the event and     *)
(* doTerminate; the owner and the list of registered controllers belong to *)
(* the state machine thread, so a handler is one step.                     *)
(*                                                                         *)
(* Left out: the payloads' other fields, which are echoed or constant, the *)
(* bytes of descriptors and what is logged, though not the exception that  *)
(* composing a log line may raise.  rcvdAEMCommand is never read.  The     *)
(* model numbers the commands by arrival and uses the number as their      *)
(* sequence_id, which the code only copies.                                *)
(***************************************************************************)
EXTENDS AEMCommands, Sequences

CONSTANTS
    MyId,           \* entity_info.entity_id
    Targets,        \* target entity ids seen on the network
    Controllers,    \* controller entity ids seen on the network
    Statuses,       \* values of the status field of the AECPDUs received
    Shapes,         \* for each AECPDU that may arrive, in order, a set of Shape
    Notifications,  \* how many unsolicited responses the embedding program asks for
    NoCmd,          \* None
    NoFrame         \* unsolicited is None

Shape == [type : CommandTypes, message : {"AEM_COMMAND", "AEM_RESPONSE"},
          ctl : Controllers, release : BOOLEAN, descriptor : Descriptors]

ASSUME ConstantsAssumption ==
    /\ MyId \in Nat \ {0}
    /\ Targets \subseteq Nat
    /\ Controllers \subseteq Nat \ {0}
    /\ Statuses \subseteq Nat
    /\ Shapes \in Seq(SUBSET Shape)
    /\ Notifications \in Nat
    /\ NoCmd \notin Command
    /\ NoFrame \notin Nat

VARIABLES
    queue,             \* self.rcvdCommand
    event,             \* self.event
    doTerminate,       \* self.doTerminate
    unsolicited,       \* self.unsolicited; the n-th unsolicited response is n
    owner,             \* self.owner_entity_id
    unsolicited_list,  \* self.unsolicited_list
    cmd,               \* run()'s local variable cmd
    pc,                \* where the thread is
    cb,                \* where aecp_aem_cb is
    main,              \* where the main thread is
    asked,             \* how often unsolicited has been set
    arrived,           \* history: the commands aecp_aem_cb queued, in order
    unqueued,          \* history: the commands aecp_aem_cb raised KeyError for, in order
    responses,         \* history: the responses sent, in order
    notices            \* history: the unsolicited responses sent, in order

model   == << owner, unsolicited_list, responses >>
callback == << cb, arrived, unqueued >>
program == << main, asked >>
vars    == << queue, event, doTerminate, unsolicited, model, cmd, pc, callback, program,
              notices >>

Init ==
    /\ queue = << >>
    /\ event = FALSE
    /\ doTerminate = FALSE
    /\ unsolicited = NoFrame
    /\ owner = 0
    /\ unsolicited_list = {}
    /\ cmd = NoCmd
    /\ pc = "top"
    /\ cb = "idle"
    /\ main = "running"
    /\ asked = 0
    /\ arrived = << >>
    /\ unqueued = << >>
    /\ responses = << >>
    /\ notices = << >>

-----------------------------------------------------------------------------
(* aecp_aem_cb, in the interface's worker thread.                          *)

\* Every AECPDU that may be the n-th to arrive
Incoming(n) ==
    { [type |-> s.type, message |-> s.message, target |-> t, ctl |-> s.ctl, seq |-> n,
       status |-> e, release |-> s.release, descriptor |-> s.descriptor] :
      s \in Shapes[n], t \in Targets, e \in Statuses }

Accepted(c) == c.target = MyId /\ c.message = "AEM_COMMAND"

\* Mutant of PutCommand: the AECPDU's target is not compared.
PutCommandAnyTarget(c) ==
    /\ cb = "idle"
    /\ pc # "stopped"
    /\ c.message = "AEM_COMMAND"
    /\ Named(c)
    /\ queue' = Append(queue, c)
    /\ arrived' = Append(arrived, c)
    /\ cb' = "signal"
    /\ UNCHANGED << event, doTerminate, unsolicited, model, cmd, pc, unqueued, program,
                    notices >>

PutCommand(c) ==
    /\ cb = "idle"
    /\ pc # "stopped"
    /\ Accepted(c)
    /\ Named(c)
    /\ queue' = Append(queue, c)
    /\ arrived' = Append(arrived, c)
    /\ cb' = "signal"
    /\ UNCHANGED << event, doTerminate, unsolicited, model, cmd, pc, unqueued, program,
                    notices >>

\* aecpdu_aem_str, evaluated for the log before the put, raises KeyError when the command
\* type or the status has no name: the command is not queued.
RaiseKeyError(c) ==
    /\ cb = "idle"
    /\ pc # "stopped"
    /\ Accepted(c)
    /\ ~Named(c)
    /\ unqueued' = Append(unqueued, c)
    /\ UNCHANGED << queue, event, doTerminate, unsolicited, model, cmd, pc, cb, arrived,
                    program, notices >>

SignalCommand ==
    /\ cb = "signal"
    /\ event' = TRUE
    /\ cb' = "idle"
    /\ UNCHANGED << queue, doTerminate, unsolicited, model, cmd, pc, arrived, unqueued,
                    program, notices >>

-----------------------------------------------------------------------------
(* The main thread.                                                        *)

SetUnsolicited ==
    /\ main = "running"
    /\ asked < Notifications
    /\ unsolicited' = asked + 1
    /\ asked' = asked + 1
    /\ main' = "notify"
    /\ UNCHANGED << queue, event, doTerminate, model, cmd, pc, callback, notices >>

SignalUnsolicited ==
    /\ main = "notify"
    /\ event' = TRUE
    /\ main' = "running"
    /\ UNCHANGED << queue, doTerminate, unsolicited, model, cmd, pc, callback, asked,
                    notices >>

PerformTerminate ==
    /\ main = "running"
    /\ doTerminate' = TRUE
    /\ main' = "signal"
    /\ UNCHANGED << queue, event, unsolicited, model, cmd, pc, callback, asked, notices >>

SignalTerminate ==
    /\ main = "signal"
    /\ event' = TRUE
    /\ main' = "waiting"
    /\ UNCHANGED << queue, doTerminate, unsolicited, model, cmd, pc, callback, asked,
                    notices >>

-----------------------------------------------------------------------------
(* run(), up to the handlers.                                              *)

ForgetAtTop ==
    /\ pc = "top"
    /\ unsolicited' = NoFrame
    /\ pc' = "empty"
    /\ UNCHANGED << queue, event, doTerminate, model, cmd, callback, program, notices >>

CheckEmpty ==
    /\ pc = "empty"
    /\ pc' = IF queue = << >> THEN "wait" ELSE "terminate"
    /\ UNCHANGED << queue, event, doTerminate, unsolicited, model, cmd, callback, program,
                    notices >>

\* Mutant of WaitReturns: event.wait() without a timeout
WaitReturnsWhenSet ==
    /\ pc = "wait"
    /\ event
    /\ pc' = "clear"
    /\ UNCHANGED << queue, event, doTerminate, unsolicited, model, cmd, callback, program,
                    notices >>

\* event.wait(1) returns: the event is set, or a second has passed
WaitReturns ==
    /\ pc = "wait"
    /\ pc' = "clear"
    /\ UNCHANGED << queue, event, doTerminate, unsolicited, model, cmd, callback, program,
                    notices >>

\* Mutant of ClearEvent: unsolicited is forgotten after the wait instead of before it.
ClearEventAndUnsolicited ==
    /\ pc = "clear"
    /\ event' = FALSE
    /\ unsolicited' = NoFrame
    /\ pc' = "terminate"
    /\ UNCHANGED << queue, doTerminate, model, cmd, callback, program, notices >>

ClearEvent ==
    /\ pc = "clear"
    /\ event' = FALSE
    /\ pc' = "terminate"
    /\ UNCHANGED << queue, doTerminate, unsolicited, model, cmd, callback, program, notices >>

\* The loop ends, and the callback is unregistered; what is queued stays unanswered.
CheckTerminate ==
    /\ pc = "terminate"
    /\ pc' = IF doTerminate THEN "stopped" ELSE "get"
    /\ UNCHANGED << queue, event, doTerminate, unsolicited, model, cmd, callback, program,
                    notices >>

\* Mutant of GetCommand: when the queue is empty, cmd stays what it was.
GetCommandKeepsOld ==
    /\ pc = "get"
    /\ IF queue # << >>
         THEN cmd' = Head(queue) /\ queue' = Tail(queue)
         ELSE UNCHANGED << cmd, queue >>
    /\ pc' = "unsolicited"
    /\ UNCHANGED << event, doTerminate, unsolicited, model, callback, program, notices >>

GetCommand ==
    /\ pc = "get"
    /\ IF queue # << >>
         THEN cmd' = Head(queue) /\ queue' = Tail(queue)
         ELSE cmd' = NoCmd /\ UNCHANGED queue
    /\ pc' = "unsolicited"
    /\ UNCHANGED << event, doTerminate, unsolicited, model, callback, program, notices >>

SkipUnsolicited ==
    /\ pc = "unsolicited"
    /\ unsolicited = NoFrame
    /\ pc' = "serve"
    /\ UNCHANGED << queue, event, doTerminate, unsolicited, model, cmd, callback, program,
                    notices >>

\* txResponse(self.unsolicited); unsolicitedSequenceID counts the notices
SendUnsolicited ==
    /\ pc = "unsolicited"
    /\ unsolicited # NoFrame
    /\ notices' = Append(notices, unsolicited)
    /\ pc' = "forget"
    /\ UNCHANGED << queue, event, doTerminate, unsolicited, model, cmd, callback, program >>

\* self.unsolicited = None, whatever was set since it was sent
ForgetUnsolicited ==
    /\ pc = "forget"
    /\ unsolicited' = NoFrame
    /\ pc' = "serve"
    /\ UNCHANGED << queue, event, doTerminate, model, cmd, callback, program, notices >>

NothingToServe ==
    /\ pc = "serve"
    /\ cmd = NoCmd
    /\ pc' = "top"
    /\ UNCHANGED << queue, event, doTerminate, unsolicited, model, cmd, callback, program,
                    notices >>

-----------------------------------------------------------------------------
(* The handlers.                                                           *)

Serve(types) ==
    /\ pc = "serve"
    /\ cmd # NoCmd
    /\ cmd.type \in types
    /\ pc' = "top"
    /\ UNCHANGED << queue, event, doTerminate, unsolicited, cmd, callback, program, notices >>

txResponse(r) == responses' = Append(responses, r)

\* Mutant of acquireEntity: an owned entity is given to whoever asks next.
acquireEntityTakeover ==
    /\ Serve({"ACQUIRE_ENTITY"})
    /\ owner' = IF cmd.descriptor # "ENTITY" THEN owner ELSE IF cmd.release THEN 0 ELSE cmd.ctl
    /\ txResponse(RespondOwner(cmd, IF cmd.descriptor # "ENTITY" THEN NOT_IMPLEMENTED
                                                                 ELSE SUCCESS, owner'))
    /\ UNCHANGED unsolicited_list

\* The response reports the owner as it is after the command.
acquireEntity ==
    /\ Serve({"ACQUIRE_ENTITY"})
    /\ \/ /\ cmd.descriptor # "ENTITY"
          /\ txResponse(RespondOwner(cmd, NOT_IMPLEMENTED, owner))
          /\ UNCHANGED owner
       \/ /\ cmd.descriptor = "ENTITY"
          /\ cmd.release
          /\ IF owner = cmd.ctl
               THEN owner' = 0 /\ txResponse(RespondOwner(cmd, SUCCESS, owner'))
               ELSE UNCHANGED owner /\ txResponse(RespondOwner(cmd, BAD_ARGUMENTS, owner))
       \/ /\ cmd.descriptor = "ENTITY"
          /\ ~cmd.release
          /\ IF owner # 0
               THEN UNCHANGED owner /\ txResponse(RespondOwner(cmd, ENTITY_ACQUIRED, owner))
               ELSE owner' = cmd.ctl /\ txResponse(RespondOwner(cmd, SUCCESS, owner'))
    /\ UNCHANGED unsolicited_list

\* lockEntity and the handlers that answer NOT_IMPLEMENTED without looking further
notImplemented ==
    /\ Serve({"LOCK_ENTITY", "ENTITY_AVAILABLE", "GET_AS_PATH"})
    /\ txResponse(Respond(cmd, NOT_IMPLEMENTED))
    /\ UNCHANGED << owner, unsolicited_list >>

\* The response keeps the status that the command came with.
handleRegisterUnsolicitedNotification ==
    /\ Serve({"REGISTER_UNSOLICITED_NOTIFICATION"})
    /\ unsolicited_list' = unsolicited_list \cup {cmd.ctl}
    /\ txResponse(Respond(cmd, cmd.status))
    /\ UNCHANGED owner

\* Mutant: every deregistration is a success and ends all registrations.
handleDeregisterAll ==
    /\ Serve({"DEREGISTER_UNSOLICITED_NOTIFICATION"})
    /\ unsolicited_list' = {}
    /\ txResponse(Respond(cmd, SUCCESS))
    /\ UNCHANGED owner

handleDeregisterUnsolicitedNotification ==
    /\ Serve({"DEREGISTER_UNSOLICITED_NOTIFICATION"})
    /\ \/ /\ cmd.ctl \in unsolicited_list
          /\ unsolicited_list' = unsolicited_list \ {cmd.ctl}
          /\ txResponse(Respond(cmd, SUCCESS))
       \/ /\ cmd.ctl \notin unsolicited_list
          /\ txResponse(Respond(cmd, BAD_ARGUMENTS))
          /\ UNCHANGED unsolicited_list
    /\ UNCHANGED owner

\* api_enum raises KeyError for a descriptor type without a name: the exception is caught in
\* run(), and there is no response.
Logged(c) == c.descriptor # "UNNAMED"

handleGetAvbInfo ==
    /\ Serve({"GET_AVB_INFO"})
    /\ IF Logged(cmd) THEN txResponse(Respond(cmd, cmd.status))
                      ELSE UNCHANGED responses
    /\ UNCHANGED << owner, unsolicited_list >>

handleGetAudioMap ==
    /\ Serve({"GET_AUDIO_MAP"})
    /\ IF Logged(cmd) THEN txResponse(Respond(cmd, NOT_IMPLEMENTED))
                      ELSE UNCHANGED responses
    /\ UNCHANGED << owner, unsolicited_list >>

\* Here counters_valid is unbound, too, for a descriptor type that is not listed.
handleGetCounters ==
    /\ Serve({"GET_COUNTERS"})
    /\ IF cmd.descriptor \in Counted THEN txResponse(Respond(cmd, NOT_IMPLEMENTED))
                                     ELSE UNCHANGED responses
    /\ UNCHANGED << owner, unsolicited_list >>

\* Likewise response, when the factory has no class for the descriptor type
handleReadDescriptor ==
    /\ Serve({"READ_DESCRIPTOR"})
    /\ IF cmd.descriptor \in Registered THEN txResponse(Respond(cmd, SUCCESS))
                                        ELSE UNCHANGED responses
    /\ UNCHANGED << owner, unsolicited_list >>

unknownCommand ==
    /\ Serve({"OTHER"})
    /\ txResponse(RespondHeader(cmd, NOT_IMPLEMENTED))
    /\ UNCHANGED << owner, unsolicited_list >>

processCommand ==
    \/ notImplemented
    \/ handleRegisterUnsolicitedNotification \/ handleDeregisterUnsolicitedNotification
    \/ handleGetAvbInfo \/ handleGetAudioMap \/ handleGetCounters \/ handleReadDescriptor
    \/ unknownCommand

-----------------------------------------------------------------------------
ThreadStep ==
    \/ ForgetAtTop \/ CheckEmpty \/ WaitReturns \/ ClearEvent \/ CheckTerminate
    \/ GetCommand
    \/ SkipUnsolicited \/ SendUnsolicited \/ ForgetUnsolicited
    \/ NothingToServe \/ acquireEntity \/ processCommand

\* How many commands have come in
Received == Len(arrived) + Len(unqueued)

aecp_aem_cb ==
    \/ /\ Received < Len(Shapes)
       /\ \E c \in Incoming(Received + 1) : PutCommand(c) \/ RaiseKeyError(c)
    \/ SignalCommand

MainStep == SetUnsolicited \/ SignalUnsolicited \/ PerformTerminate \/ SignalTerminate

Next == ThreadStep \/ aecp_aem_cb \/ MainStep

Spec == Init /\ [][Next]_vars

\* The thread keeps running: event.wait(1) gives up after a second.
FairSpec == Spec /\ WF_vars(ThreadStep)

-----------------------------------------------------------------------------
(* Safety.                                                                 *)

OwnCommand == {c \in Command : Accepted(c) /\ Named(c) /\ c.ctl \in Controllers}

FlagTypes ==
    /\ event \in BOOLEAN
    /\ doTerminate \in BOOLEAN

OwnResponse == [to : OwnCommand, status : Nat, owner : Nat, typed : BOOLEAN]

DataTypes ==
    /\ queue \in Seq(OwnCommand)
    /\ unsolicited \in Nat \cup {NoFrame}
    /\ owner \in Controllers \cup {0}
    /\ unsolicited_list \subseteq Controllers
    /\ cmd \in OwnCommand \cup {NoCmd}
    /\ pc \in {"top", "empty", "wait", "clear", "terminate", "get", "unsolicited", "forget",
              "serve", "stopped"}
    /\ cb \in {"idle", "signal"}
    /\ main \in {"running", "notify", "signal", "waiting"}
    /\ asked \in Nat
    /\ arrived \in Seq(OwnCommand)
    /\ unqueued \in Seq(Command)
    /\ responses \in Seq(OwnResponse)
    /\ notices \in Seq(Nat)

\* Every variable has the type the code gives it, and only AEM commands for this entity that
\* have a name are queued, served and answered.
TypeOK == FlagTypes /\ DataTypes

\* A response that grants the ownership of the entity, takes it back, or refuses it
Granted(r)  == r.to.type = "ACQUIRE_ENTITY" /\ r.status = SUCCESS /\ ~r.to.release
Released(r) == r.to.type = "ACQUIRE_ENTITY" /\ r.status = SUCCESS /\ r.to.release
Refused(r)  == r.to.type = "ACQUIRE_ENTITY" /\ r.status = ENTITY_ACQUIRED

\* Going by the first n of the responses s, controller c has acquired the entity and not
\* released it.
Holds(s, c, n) ==
    \E i \in 1 .. n :
        /\ Granted(s[i]) /\ s[i].to.ctl = c
        /\ \A j \in i + 1 .. n : ~(Released(s[j]) /\ s[j].to.ctl = c)

\* A controller that was told it has the entity has it until it was told that it gave it
\* back, and it is the only one; who is refused is told the name of the one that has it.
OwnerTold ==
    /\ \A c \in Controllers : Holds(responses, c, Len(responses)) <=> owner = c
    /\ \A i \in DOMAIN responses :
         Refused(responses[i]) =>
             responses[i].owner \in Controllers /\ Holds(responses, responses[i].owner, i)

\* No command is answered twice or out of turn.
AnsweredInOrder ==
    \A i, j \in DOMAIN responses : i < j => responses[i].to.seq < responses[j].to.seq

-----------------------------------------------------------------------------
(* Refinement and liveness.                                                *)

\* A command is being served from get_nowait until its handler has run.
InService == pc \in {"unsolicited", "forget", "serve"} /\ cmd # NoCmd

Served == Len(arrived) - Len(queue) - (IF InService THEN 1 ELSE 0)

Promise == INSTANCE AEMService WITH
    received <- arrived, served <- Served, subscribers <- unsolicited_list

\* However commands, the main thread and the state machine thread interleave, the commands
\* that aecp_aem_cb queues are served once each and in order, as AEMService says.
ImplementsService == Promise!Spec

\* Every command that aecp_aem_cb queues is served, unless the thread is told to end.
AllServed == []<>(Served = Len(arrived) \/ doTerminate)

Sent(n) == \E i \in DOMAIN notices : notices[i] = n

\* An unsolicited response that the main thread sets while the thread waits is sent, although
\* unsolicited is tested, sent and reset without a lock, unless a later one is set over it or
\* the thread is told to end.  (One set between the handlers and the wait is lost.)
NoticeSent ==
    \A n \in 1 .. Notifications :
        pc = "wait" /\ unsolicited = n
          ~> Sent(n) \/ asked > n \/ doTerminate

\* The thread ends after performTerminate (AVDECC.__exit__ waits for that).
Terminates == doTerminate ~> pc = "stopped"
=============================================================================
