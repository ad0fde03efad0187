---------------------------- MODULE AEMCommands ----------------------------
(***************************************************************************)
(* The AEM commands the entity model reads and the responses it sends, with *)
(* the fields some branch of src/src/atdecc/aecp/__init__.py reads or sets. *)
(***************************************************************************)
EXTENDS Naturals

\* jdksavdecc AEM status codes
SUCCESS         == 0
NOT_IMPLEMENTED == 1
ENTITY_ACQUIRED == 4
BAD_ARGUMENTS   == 7

\* The statuses jdksavdecc has a name for
NamedStatuses == 0 .. 12

\* Command types run() and processCommand() distinguish; OTHER is every other one that
\* jdksavdecc has a name for, UNNAMED every one that it has none for
CommandTypes == { "ACQUIRE_ENTITY", "LOCK_ENTITY", "ENTITY_AVAILABLE",
                  "REGISTER_UNSOLICITED_NOTIFICATION",
                  "DEREGISTER_UNSOLICITED_NOTIFICATION", "READ_DESCRIPTOR",
                  "GET_AVB_INFO", "GET_AS_PATH", "GET_AUDIO_MAP", "GET_COUNTERS", "OTHER",
                  "UNNAMED" }

\* Descriptor types by what the code has for them: the descriptor classes registered
\* with AEMDescriptorFactory and the types _handleGetCounters lists.  Of the others, STRINGS
\* stands for those jdksavdecc has a name for.
Registered  == { "ENTITY", "CONFIGURATION", "AUDIO_UNIT", "STREAM_INPUT", "STREAM_OUTPUT",
                 "JACK_INPUT", "JACK_OUTPUT", "AVB_INTERFACE", "CLOCK_SOURCE",
                 "STREAM_PORT_INPUT", "STREAM_PORT_OUTPUT", "AUDIO_CLUSTER", "AUDIO_MAP",
                 "CLOCK_DOMAIN" }
Counted     == { "ENTITY", "AVB_INTERFACE", "CLOCK_DOMAIN", "STREAM_INPUT",
                 "STREAM_OUTPUT", "PTP_PORT" }
Descriptors == Registered \cup Counted \cup { "STRINGS", "UNNAMED" }

\* release is the flag of ACQUIRE_ENTITY, message the AECP message type.
Command == [type : CommandTypes, message : {"AEM_COMMAND", "AEM_RESPONSE"}, target : Nat,
            ctl : Nat, seq : Nat, status : Nat, release : BOOLEAN, descriptor : Descriptors]

\* api_enum, which the log line of a command goes through, knows its command type and status.
Named(c) == c.type # "UNNAMED" /\ c.status \in NamedStatuses

\* A response is its command with a new status; owner is the owner_entity_id field of an
\* ACQUIRE_ENTITY response, and typed says that the command type was sent with it.
Response == [to : Command, status : Nat, owner : Nat, typed : BOOLEAN]

Respond(c, status)      == [to |-> c, status |-> status, owner |-> 0, typed |-> TRUE]
RespondOwner(c, s, own) == [to |-> c, status |-> s, owner |-> own, typed |-> TRUE]
\* Only the AECP header is copied; the command type is not part of it.
RespondHeader(c, s)     == [to |-> c, status |-> s, owner |-> 0, typed |-> FALSE]
=============================================================================
