------------------------------- MODULE Frames -------------------------------
(***************************************************************************)
(* How frames are formed: src/src/atdecc/pdu.py, with EntityInfo.get_adpdu *)
(* in adp.py, mac_to_eid in util.py and the payloads of the responses in   *)
(* aecp/__init__.py.                                                       *)
(*                                                                         *)
(* A behaviour is the forming of one frame, in a buffer of zeros that no   *)
(* other frame uses, and ends with the frame or without one.  The common   *)
(* header is written by one setter per field, some of which share a byte;  *)
(* base is its twelve bytes.  Of what follows only the length is kept.     *)
(***************************************************************************)
EXTENDS Descriptors, Integers

CONSTANTS
    ValidTimes,   \* what --valid may give, in hundredths of a second
    Macs,         \* hardware addresses
    BufferSize,   \* len(frame.payload)
    Listed        \* descriptors the entity announces: itself, its configuration, descriptor_counts

Byte == 0 .. 255

ASSUME FramesAssumption ==
    /\ ValidTimes \subseteq Nat
    /\ Macs \subseteq [1 .. 6 -> Byte]
    /\ BufferSize \in 69 .. 2000
    /\ Listed \subseteq Registered

\* jdksavdecc: subtypes and lengths
SUBTYPE_ADP  == 122
SUBTYPE_AECP == 123
SUBTYPE_ACMP == 124
COMMON_CONTROL_HEADER_LEN == 12
ADPDU_LEN                 == 68
ACMPDU_LEN                == 56
AECPDU_COMMON_LEN         == 22
AECPDU_AEM_LEN            == 24

VARIABLES
    pc,        \* what is written next
    purpose,   \* what the frame is for
    du,        \* the header of the PDU
    base,      \* the first bytes of frame.payload
    length     \* frame.length

vars == << pc, purpose, du, base, length >>

\* valid: of the entity; payload: its length; struct: of the response, with a command type or not;
\* descriptor, elements: what is read, and how many elements its list has in the configuration
Nothing == [valid |-> 0, payload |-> 0, struct |-> "common", descriptor |-> "none",
            elements |-> 0]

Header(subtype, type, status, len, id) ==
    [cd |-> 1, subtype |-> subtype, sv |-> 0, version |-> 0, message_type |-> type,
     status |-> status, control_data_length |-> len, stream_id |-> id]

\* The local bit of the first byte is flipped and two bytes are put into the middle.
mac_to_eid(m) ==
    << IF (m[1] \div 2) % 2 = 0 THEN m[1] + 2 ELSE m[1] - 2, m[2], m[3], 255, 240,
       m[4], m[5], m[6] >>

Ids == { mac_to_eid(m) : m \in Macs }

Zeros == [i \in 1 .. 12 |-> 0]

Init ==
    /\ pc = "idle"
    /\ purpose = Nothing
    /\ du \in { Header(SUBTYPE_ADP, 0, 0, 0, id) : id \in Ids }
    /\ base = Zeros
    /\ length = 0

Lesser(a, b)  == IF a < b THEN a ELSE b
Greater(a, b) == IF a < b THEN b ELSE a

-----------------------------------------------------------------------------
(* What frames there are.                                                   *)

Form == pc = "idle" /\ pc' = "cd" /\ UNCHANGED << base, length >>

\* Mutant of valid_time: the field is left to wrap.
valid_time_unbounded(v) == Greater(1, (v + 100) \div 200)

\* EntityInfo.get_adpdu: valid_time in units of two seconds, rounded to the nearest
valid_time(v) == Greater(1, Lesser((v + 100) \div 200, 31))

\* ENTITY_AVAILABLE or ENTITY_DEPARTING
adp_form_msg ==
    \E v \in ValidTimes, type \in {0, 1}, id \in Ids :
        /\ Form
        /\ purpose' = [Nothing EXCEPT !.valid = v]
        /\ du' = Header(SUBTYPE_ADP, type, valid_time(v), ADPDU_LEN - COMMON_CONTROL_HEADER_LEN,
                        id)

\* The length is that of a later edition of the standard; send_acmp leaves the status at SUCCESS.
acmp_form_msg ==
    \E type \in {0, 2, 7, 9, 11}, id \in Ids :
        /\ Form
        /\ purpose' = Nothing
        /\ du' = Header(SUBTYPE_ACMP, type, SUCCESS, 84, id)

HeaderLength(p) == IF p.struct = "aem" THEN AECPDU_AEM_LEN ELSE AECPDU_COMMON_LEN

\* Mutant of data_length: the header only.
data_length_of_header(p) == HeaderLength(p) - COMMON_CONTROL_HEADER_LEN

data_length(p) == HeaderLength(p) - COMMON_CONTROL_HEADER_LEN + p.payload

\* An AEM_RESPONSE, which keeps the target of the command
aecp_form_msg(status) ==
    /\ Form
    /\ \E id \in Ids : du' = Header(SUBTYPE_AECP, 1, status, data_length(purpose'), id)

\* The payloads of the responses, READ_DESCRIPTOR's excepted.  A command without a name has none.
Payload(c) ==
    CASE c \in {"ACQUIRE_ENTITY", "GET_AVB_INFO"} -> 20
      [] c \in {"REGISTER_UNSOLICITED_NOTIFICATION", "DEREGISTER_UNSOLICITED_NOTIFICATION"} -> 4
      [] c \in {"GET_AS_PATH", "GET_AUDIO_MAP"} -> 12
      [] c = "GET_COUNTERS" -> 136
      [] OTHER -> 0   \* LOCK_ENTITY, ENTITY_AVAILABLE and what is not implemented

\* Some handlers keep the status of the command.
RespondFixed ==
    \E c \in CommandTypes \ {"READ_DESCRIPTOR", "UNNAMED"}, status \in NamedStatuses :
        /\ purpose' = [Nothing EXCEPT !.payload = Payload(c),
                                       !.struct = IF c = "OTHER" THEN "common" ELSE "aem"]
        /\ aecp_form_msg(status)

Reading(t, n) == [Nothing EXCEPT !.descriptor = t, !.elements = n]

\* _handleReadDescriptor; any exception leaves the command without a response.
ReadDescriptor ==
    \E t \in Descriptors, n \in Sizes :
        \/ /\ Created(t, n)
           /\ purpose' = [Reading(t, n) EXCEPT !.payload = 4 + Descriptor(t, n).length,
                                               !.struct = "aem"]
           /\ aecp_form_msg(SUCCESS)
        \/ /\ ~Created(t, n)
           /\ pc = "idle" /\ pc' = "silent"
           /\ purpose' = Reading(t, n)
           /\ UNCHANGED << du, base, length >>

-----------------------------------------------------------------------------
(* The setters, in the order of ..._common_control_header_write.            *)

Write(here, next, i, byte) ==
    /\ pc = here /\ pc' = next
    /\ base' = [base EXCEPT ![i] = byte]
    /\ UNCHANGED << purpose, du, length >>

set_cd == Write("cd", "subtype", 1, 128 * du.cd + (base[1] % 128))

\* Mutant of set_subtype: the bit above it is cleared.
set_subtype_and_cd == Write("subtype", "sv", 1, du.subtype % 128)

set_subtype == Write("subtype", "sv", 1, 128 * (base[1] \div 128) + (du.subtype % 128))

set_sv == Write("sv", "version", 2, 128 * du.sv + (base[2] % 128))

set_version ==
    Write("version", "message_type", 2,
          128 * (base[2] \div 128) + 16 * (du.version % 8) + (base[2] % 16))

set_control_data ==
    Write("message_type", "status", 2, 16 * (base[2] \div 16) + (du.message_type % 16))

set_status == Write("status", "control_data_length", 3, 8 * (du.status % 32) + (base[3] % 8))

set_control_data_length ==
    /\ pc = "control_data_length" /\ pc' = "stream_id"
    /\ base' = [base EXCEPT ![3] = 8 * (base[3] \div 8) + ((du.control_data_length \div 256) % 8),
                            ![4] = du.control_data_length % 256]
    /\ UNCHANGED << purpose, du, length >>

set_stream_id ==
    /\ pc = "stream_id" /\ pc' = "body"
    /\ base' = [i \in 1 .. 12 |-> IF i > 4 THEN du.stream_id[i - 4] ELSE base[i]]
    /\ UNCHANGED << purpose, du, length >>

Setter ==
    \/ set_cd \/ set_subtype \/ set_sv \/ set_version \/ set_control_data \/ set_status
    \/ set_control_data_length \/ set_stream_id

\* The fields after the header; jdksavdecc_validate_range returns where they end.
WriteBody ==
    /\ pc = "body"
    /\ \/ /\ du.subtype = SUBTYPE_ADP
          /\ length' = ADPDU_LEN
          /\ pc' = "formed"
       \/ /\ du.subtype = SUBTYPE_ACMP
          /\ length' = ACMPDU_LEN
          /\ pc' = "formed"
       \/ /\ du.subtype = SUBTYPE_AECP
          /\ length' = AECPDU_COMMON_LEN
          /\ pc' = IF purpose.struct = "aem" THEN "command_type" ELSE "payload"
    /\ UNCHANGED << purpose, du, base >>

set_command_type ==
    /\ pc = "command_type" /\ pc' = "payload"
    /\ length' = AECPDU_AEM_LEN
    /\ UNCHANGED << purpose, du, base >>

\* A payload that does not fit is left out.
AppendPayload ==
    /\ pc = "payload" /\ pc' = "formed"
    /\ length' = IF length + purpose.payload < BufferSize THEN length + purpose.payload ELSE length
    /\ UNCHANGED << purpose, du, base >>

Next ==
    \/ adp_form_msg \/ acmp_form_msg \/ RespondFixed \/ ReadDescriptor
    \/ Setter \/ WriteBody \/ set_command_type \/ AppendPayload

Spec == Init /\ [][Next]_vars

-----------------------------------------------------------------------------
(* What a receiver reads.                                                   *)

Read(b) ==
    [cd |-> b[1] \div 128, subtype |-> b[1] % 128, sv |-> b[2] \div 128,
     version |-> (b[2] \div 16) % 8, message_type |-> b[2] % 16, status |-> b[3] \div 8,
     control_data_length |-> 256 * (b[3] % 8) + b[4], stream_id |-> [i \in 1 .. 8 |-> b[i + 4]]]

\* The fields in the order in which they are written
Rank(f) ==
    CASE f = "cd" -> 1 [] f = "subtype" -> 2 [] f = "sv" -> 3 [] f = "version" -> 4
      [] f = "message_type" -> 5 [] f = "status" -> 6 [] f = "control_data_length" -> 7
      [] f = "stream_id" -> 8 [] f \in {"idle", "silent"} -> 0 [] OTHER -> 9

\* What a field of the PDU says; a length has eleven bits.
Said(f) == IF f = "control_data_length" THEN du[f] % 2048 ELSE du[f]

\* While a header is written into bytes its fields share, no setter changes a field that an
\* earlier one has written, nor cuts off any value but a length: a receiver reads what the PDU
\* says.
HeaderKept ==
    \A f \in DOMAIN du : Rank(f) < Rank(pc) => Read(base)[f] = Said(f)

\* Header and payload together do not end before the buffer does.
Oversized(p) == HeaderLength(p) + p.payload >= BufferSize

\* An ADP or AECP frame is as long as its header announces, and never reaches the end of the
\* buffer.  Only a frame whose payload does not fit below that end announces more than it has:
\* it goes out with its header alone.
LengthTruthful ==
    pc = "formed" =>
        /\ length < BufferSize
        /\ du.subtype # SUBTYPE_ACMP =>
              IF Oversized(purpose)
              THEN length = HeaderLength(purpose)
              ELSE Read(base).control_data_length = length - COMMON_CONTROL_HEADER_LEN

\* The longest time, in milliseconds, from one announcement of the advertising thread to the
\* next: max(1, valid_time / 2) and the random delay of up to a fifth of valid_time
Interval(v) == Greater(1000, 5 * v) + 2 * v

\* The field is rounded down to two seconds, and the announcements are farther apart than that.
RoundedDown(v) == 285 < v /\ v < 300

\* The announcements are farther apart than the longest lifetime the field can say, 62 seconds.
NoRoom(v) == v > 8857

\* The lifetime a receiver reads in an announcement covers the time to the next one for exactly
\* the valid times that are neither just below three seconds nor beyond 88.57: with those, an
\* entity that keeps announcing itself may expire in between.
LifetimeCovers ==
    pc = "formed" /\ du.subtype = SUBTYPE_ADP =>
        (Interval(purpose.valid) <= 2000 * Read(base).status
            <=> ~RoundedDown(purpose.valid) /\ ~NoRoom(purpose.valid))

End(t) == t.offset + t.count * t.size

Contiguous(d) ==
    /\ \A t \in d.tables : d.first <= t.offset /\ End(t) <= d.length
    /\ \A t \in d.tables : t.offset = d.first \/ \E s \in d.tables : End(s) = t.offset
    /\ d.length = d.first \/ \E t \in d.tables : End(t) = d.length

\* The tables a descriptor announces lie in its bytes one after the other, from the first byte
\* behind its fields to the last: offsets and counts written in one place meet the data that
\* another place appends.
TablesMeet ==
    pc = "formed" /\ purpose.descriptor # "none" =>
        Contiguous(Descriptor(purpose.descriptor, purpose.elements))

\* The lists that have an element, and no more than a stream has room for before the offset
\* behind them
Encodable(n) == 1 <= n /\ n <= 8174

\* The entity answers READ_DESCRIPTOR for each descriptor it announces, whose classes get their
\* arguments from the configuration file, some by way of a parent class, if the list it has in
\* that file can be encoded.
ListedReadable ==
    pc = "silent" /\ Encodable(purpose.elements) => purpose.descriptor \notin Listed
=============================================================================
