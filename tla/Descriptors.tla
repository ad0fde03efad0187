---------------------------- MODULE Descriptors ----------------------------
(***************************************************************************)
(* The AEM descriptors READ_DESCRIPTOR sends: AEMDescriptorFactory in      *)
(* src/src/atdecc/aem/__init__.py, the classes in aem/descriptors.py and   *)
(* pack_struct in util.py.                                                 *)
(*                                                                         *)
(* Of a descriptor only its layout is kept: how many bytes it has, and the *)
(* tables it announces, each with an offset, a count and the size of an    *)
(* entry.  Of the arguments of a class only those are kept that can be     *)
(* missing, that make it fail, or that set the length of a table.          *)
(***************************************************************************)
EXTENDS AEMCommands

CONSTANTS
    Config,   \* descriptor type -> arguments the configuration file has for its class
    Sizes     \* lengths of a list in the configuration file

ASSUME DescriptorsAssumption ==
    /\ \A t \in Registered : Config[t] \in SUBSET STRING
    /\ \A n \in Sizes : n \in Nat /\ n <= 65535   \* what a count of 16 bits can say

\* The class that does the work: those for input and output only name their type.
ClassOf(t) ==
    CASE t \in {"STREAM_INPUT", "STREAM_OUTPUT"} -> "STREAM"
      [] t \in {"STREAM_PORT_INPUT", "STREAM_PORT_OUTPUT"} -> "STREAM_PORT"
      [] t \in {"JACK_INPUT", "JACK_OUTPUT"} -> "JACK"
      [] OTHER -> t

\* The arguments a class cannot do without; stream_flags has a default, 0, of which sum() raises a
\* TypeError.
Required(class) ==
    CASE class = "AVB_INTERFACE" -> {"mac_address", "entity_id"}
      [] class = "STREAM"        -> {"stream_flags"}
      [] class = "AUDIO_CLUSTER" -> {"signal_type"}
      [] OTHER -> {}

\* The list that sets the length of the table of a class
ListOfClass(class) ==
    CASE class = "CONFIGURATION" -> "descriptor_counts"
      [] class = "AUDIO_UNIT"    -> "sampling_rates"
      [] class = "STREAM"        -> "stream_formats"
      [] class = "AUDIO_MAP"     -> "number_of_mappings"
      [] class = "CLOCK_DOMAIN"  -> "clock_sources"
      [] OTHER -> "none"

\* Mutant of init_parameters: the signature of the parent class is left out.
OwnParameters(t) ==
    IF ClassOf(t) = t THEN Required(t) \cup {ListOfClass(t)} ELSE {}

\* The parameters that matter; a class for input or output takes (*args, **kwds), and its parent
\* says which.
init_parameters(t) == Required(ClassOf(t)) \cup {ListOfClass(ClassOf(t))}

\* What create_descriptor passes on of vars(entity_info) and the configuration
allowed_kwargs(t) == ({"entity_id"} \cup Config[t]) \cap init_parameters(t)

\* The length of the list by default
Default(class) ==
    CASE class \in {"AUDIO_UNIT", "STREAM", "CLOCK_DOMAIN"} -> 1
      [] class = "AUDIO_MAP" -> 8
      [] OTHER -> 0

\* The length of the list of t if the configuration file gives it n elements
Count(t, n) == IF ListOfClass(ClassOf(t)) \in allowed_kwargs(t) THEN n ELSE Default(ClassOf(t))

\* Mutant of FormatsOffset: the end of the structure.
FormatsOffsetOfStruct == 132

\* Three fields that a later edition of the standard added come before the formats.
FormatsOffset == 132 + 3 * 2

\* Does create_descriptor return a descriptor?  A class takes the first of its rates or formats;
\* of the offset behind the formats, struct.pack raises struct.error beyond 16 bits.
Created(t, n) ==
    /\ t \in Registered
    /\ Required(ClassOf(t)) \subseteq allowed_kwargs(t)
    /\ ClassOf(t) \in {"AUDIO_UNIT", "STREAM"} => Count(t, n) > 0
    /\ ClassOf(t) = "STREAM" => FormatsOffset + 8 * Count(t, n) <= 65535

-----------------------------------------------------------------------------
(* The classes.  c is the length of the list of a class.                    *)

\* The length of a structure with f[1] fields of 1 byte, f[2] of 2, and of 4, 6, 8 and 64 bytes,
\* which are packed without gaps
pack_struct(f) == f[1] + 2 * f[2] + 4 * f[3] + 6 * f[4] + 8 * f[5] + 64 * f[6]

Table(offset, count, size) == [offset |-> offset, count |-> count, size |-> size]

\* A packed structure and data: the bytes of both, where the tables may begin, and those announced
encode(fields, data, added, tables) ==
    [length |-> pack_struct(fields) + data, first |-> pack_struct(fields) + added,
     tables |-> tables]

ENTITY(c) == encode(<< 0, 10, 3, 0, 3, 4 >>, 0, 0, {})

CONFIGURATION(c) == encode(<< 0, 5, 0, 0, 0, 1 >>, 4 * c, 0, {Table(74, c, 4)})

AUDIO_UNIT(c) == encode(<< 0, 38, 1, 0, 0, 1 >>, 4 * c, 0, {Table(144, c, 4)})

AVB_INTERFACE(c) == encode(<< 8, 6, 0, 1, 1, 1 >>, 0, 0, {})

STREAM_PORT(c) == encode(<< 0, 10, 0, 0, 0, 0 >>, 0, 0, {})

\* There are no redundant streams, but an offset of their table, in the first of the added fields.
STREAM(c) ==
    encode(<< 0, 12, 1, 0, 5, 1 >>, 3 * 2 + 8 * c, 3 * 2,
           {Table(FormatsOffset, c, 8), Table(FormatsOffset + 8 * c, 0, 16)})

JACK(c) == encode(<< 0, 7, 0, 0, 0, 1 >>, 0, 0, {})

\* One byte is padding.
AUDIO_CLUSTER(c) == encode(<< 2, 7, 2, 0, 0, 1 >>, 0, 0, {})

AUDIO_MAP(c) == encode(<< 0, 4, 0, 0, 0, 0 >>, 8 * c, 0, {Table(8, c, 8)})

CLOCK_DOMAIN(c) == encode(<< 0, 6, 0, 0, 0, 1 >>, 2 * c, 0, {Table(76, c, 2)})

CLOCK_SOURCE(c) == encode(<< 0, 7, 0, 0, 1, 1 >>, 0, 0, {})

\* The descriptor of type t with a list of n elements
Descriptor(t, n) ==
    LET class == ClassOf(t)
        c     == Count(t, n)
    IN  CASE class = "ENTITY"        -> ENTITY(c)
          [] class = "CONFIGURATION" -> CONFIGURATION(c)
          [] class = "AUDIO_UNIT"    -> AUDIO_UNIT(c)
          [] class = "AVB_INTERFACE" -> AVB_INTERFACE(c)
          [] class = "STREAM_PORT"   -> STREAM_PORT(c)
          [] class = "STREAM"        -> STREAM(c)
          [] class = "JACK"          -> JACK(c)
          [] class = "AUDIO_CLUSTER" -> AUDIO_CLUSTER(c)
          [] class = "AUDIO_MAP"     -> AUDIO_MAP(c)
          [] class = "CLOCK_DOMAIN"  -> CLOCK_DOMAIN(c)
          [] class = "CLOCK_SOURCE"  -> CLOCK_SOURCE(c)
=============================================================================
