---------------------------- MODULE FramesProofs ----------------------------
(***************************************************************************)
(* Proofs about Frames, for every configuration file, list length, hardware *)
(* address, valid time and buffer.                                         *)
(***************************************************************************)
EXTENDS Frames, TLAPS

LEMMA CountNat ==
    ASSUME NEW t, NEW n \in Nat
    PROVE  Count(t, n) \in Nat
BY DEF Count, Default

LEMMA ClassType ==
    ASSUME NEW t \in Registered
    PROVE  ClassOf(t) \in { "ENTITY", "CONFIGURATION", "AUDIO_UNIT", "AVB_INTERFACE", "STREAM_PORT",
                            "STREAM", "JACK", "AUDIO_CLUSTER", "AUDIO_MAP", "CLOCK_DOMAIN",
                            "CLOCK_SOURCE" }
BY DEF ClassOf, Registered

\* A descriptor with one table, or two of which the second is empty, from its first free byte on
LEMMA OneTable ==
    ASSUME NEW first \in Nat, NEW c \in Nat, NEW size \in {2, 4, 8},
           NEW d, d.first = first, d.length = first + size * c,
           \/ d.tables = {Table(first, c, size)}
           \/ d.tables = {Table(first, c, size), Table(first + size * c, 0, 16)}
    PROVE  Contiguous(d)
<1> DEFINE t == Table(first, c, size)
           s == Table(first + size * c, 0, 16)
<1>1. size * c \in Nat /\ c * size = size * c
  OBVIOUS
<1>2. t.offset = first /\ End(t) = first + size * c
  BY <1>1 DEF Table, End
<1>3. s.offset = first + size * c /\ End(s) = first + size * c
  BY <1>1 DEF Table, End
<1> HIDE DEF t, s
<1>4. \A x \in d.tables : x = t \/ x = s
  BY DEF t, s
<1>5. t \in d.tables
  BY DEF t
<1> QED
  BY <1>1, <1>2, <1>3, <1>4, <1>5 DEF Contiguous

\* Without a table there is nothing behind the fields.
LEMMA NoTable ==
    ASSUME NEW d, d.first = d.length, d.tables = {}
    PROVE  Contiguous(d)
BY DEF Contiguous

\* Every descriptor has a length, and its tables lie one after the other behind its fields, up to
\* its end.
LEMMA DescriptorShape ==
    ASSUME NEW t \in Registered, NEW n \in Nat
    PROVE  Descriptor(t, n).length \in Nat /\ Contiguous(Descriptor(t, n))
<1> DEFINE class == ClassOf(t)
           c     == Count(t, n)
           d     == Descriptor(t, n)
<1>0. c \in Nat
  BY CountNat
<1> HIDE DEF c, d
<1>1. CASE class = "CONFIGURATION"
  <2>1. d = CONFIGURATION(c)
    BY <1>1 DEF d, c, Descriptor
  <2>2. d.first = 74 /\ d.length = 74 + 4 * c /\ d.tables = {Table(74, c, 4)}
    BY <1>0, <2>1 DEF CONFIGURATION, encode, pack_struct
  <2>3. Contiguous(d)
    BY <1>0, <2>2, OneTable
  <2> QED
    BY <1>0, <2>2, <2>3 DEF d
<1>2. CASE class = "AUDIO_UNIT"
  <2>1. d = AUDIO_UNIT(c)
    BY <1>2 DEF d, c, Descriptor
  <2>2. d.first = 144 /\ d.length = 144 + 4 * c /\ d.tables = {Table(144, c, 4)}
    BY <1>0, <2>1 DEF AUDIO_UNIT, encode, pack_struct
  <2>3. Contiguous(d)
    BY <1>0, <2>2, OneTable
  <2> QED
    BY <1>0, <2>2, <2>3 DEF d
<1>3. CASE class = "AUDIO_MAP"
  <2>1. d = AUDIO_MAP(c)
    BY <1>3 DEF d, c, Descriptor
  <2>2. d.first = 8 /\ d.length = 8 + 8 * c /\ d.tables = {Table(8, c, 8)}
    BY <1>0, <2>1 DEF AUDIO_MAP, encode, pack_struct
  <2>3. Contiguous(d)
    BY <1>0, <2>2, OneTable
  <2> QED
    BY <1>0, <2>2, <2>3 DEF d
<1>4. CASE class = "CLOCK_DOMAIN"
  <2>1. d = CLOCK_DOMAIN(c)
    BY <1>4 DEF d, c, Descriptor
  <2>2. d.first = 76 /\ d.length = 76 + 2 * c /\ d.tables = {Table(76, c, 2)}
    BY <1>0, <2>1 DEF CLOCK_DOMAIN, encode, pack_struct
  <2>3. Contiguous(d)
    BY <1>0, <2>2, OneTable
  <2> QED
    BY <1>0, <2>2, <2>3 DEF d
<1>5. CASE class = "STREAM"
  <2>1. d = STREAM(c)
    BY <1>5 DEF d, c, Descriptor
  <2>2. /\ d.first = 138 /\ d.length = 138 + 8 * c
        /\ d.tables = {Table(138, c, 8), Table(138 + 8 * c, 0, 16)}
    BY <1>0, <2>1 DEF STREAM, FormatsOffset, encode, pack_struct
  <2>3. Contiguous(d)
    BY <1>0, <2>2, OneTable
  <2> QED
    BY <1>0, <2>2, <2>3 DEF d
<1>6. CASE class \in { "ENTITY", "AVB_INTERFACE", "STREAM_PORT", "JACK", "AUDIO_CLUSTER",
                     "CLOCK_SOURCE" }
  <2>1. d \in { ENTITY(c), AVB_INTERFACE(c), STREAM_PORT(c), JACK(c), AUDIO_CLUSTER(c), CLOCK_SOURCE(c) }
    BY <1>6 DEF d, c, Descriptor
  <2>2. d.length \in Nat /\ d.first = d.length /\ d.tables = {}
    BY <2>1 DEF ENTITY, AVB_INTERFACE, STREAM_PORT, JACK, AUDIO_CLUSTER, CLOCK_SOURCE, encode, pack_struct
  <2> QED
    BY <2>2, NoTable DEF d
<1> QED
  BY <1>1, <1>2, <1>3, <1>4, <1>5, <1>6, ClassType

-----------------------------------------------------------------------------
(* The state of a frame.                                                    *)

Steps == { "idle", "silent", "cd", "subtype", "sv", "version", "message_type", "status",
           "control_data_length", "stream_id", "body", "command_type", "payload", "formed" }

Purposes == [valid : Nat, payload : Nat, struct : {"common", "aem"},
             descriptor : Descriptors \cup {"none"}, elements : Nat]

PDUs == [cd : {1}, subtype : {SUBTYPE_ADP, SUBTYPE_ACMP, SUBTYPE_AECP}, sv : {0}, version : {0},
         message_type : 0 .. 15, status : 0 .. 31, control_data_length : Nat,
         stream_id : [1 .. 8 -> Byte]]

\* Every variable has its type; the fields of a PDU fit theirs, a length excepted.
TypeOK ==
    /\ pc \in Steps
    /\ purpose \in Purposes
    /\ du \in PDUs
    /\ base \in [1 .. 12 -> Byte]
    /\ length \in Nat

LEMMA EidType ==
    ASSUME NEW m \in [1 .. 6 -> Byte]
    PROVE  mac_to_eid(m) \in [1 .. 8 -> Byte]
<1> DEFINE x == m[1]
           y == IF (x \div 2) % 2 = 0 THEN x + 2 ELSE x - 2
<1>1. m[1] \in Byte /\ m[2] \in Byte /\ m[3] \in Byte /\ m[4] \in Byte /\ m[5] \in Byte /\ m[6] \in Byte
  OBVIOUS
<1>2. y \in Byte
  BY <1>1 DEF Byte
<1>3. mac_to_eid(m) = << y, m[2], m[3], 255, 240, m[4], m[5], m[6] >>
  BY DEF mac_to_eid
<1> HIDE DEF y, x
<1>4. 255 \in Byte /\ 240 \in Byte
  BY DEF Byte
<1> QED
  BY <1>1, <1>2, <1>3, <1>4

LEMMA IdType == \A id \in Ids : id \in [1 .. 8 -> Byte]
BY EidType, FramesAssumption DEF Ids

LEMMA HeaderType ==
    ASSUME NEW s \in {SUBTYPE_ADP, SUBTYPE_ACMP, SUBTYPE_AECP}, NEW type \in 0 .. 15,
           NEW status \in 0 .. 31, NEW len \in Nat, NEW id \in Ids
    PROVE  Header(s, type, status, len, id) \in PDUs
BY IdType DEF Header, PDUs

LEMMA ValidTimeRange ==
    ASSUME NEW v \in Nat
    PROVE  valid_time(v) \in 1 .. 31
BY DEF valid_time, Greater, Lesser

LEMMA TypeInit == Init => TypeOK
<1> SUFFICES ASSUME Init PROVE TypeOK
  OBVIOUS
<1>1. purpose \in Purposes
  BY DEF Init, Nothing, Purposes
<1>2. du \in PDUs
  BY HeaderType DEF Init
<1>3. base \in [1 .. 12 -> Byte]
  BY DEF Init, Zeros, Byte
<1> QED
  BY <1>1, <1>2, <1>3 DEF Init, TypeOK, Steps

\* Setters put a byte together from bits of two origins.
LEMMA Bits ==
    ASSUME NEW b \in Byte
    PROVE  /\ b \div 128 \in 0 .. 1 /\ b \div 16 \in 0 .. 15 /\ b \div 8 \in 0 .. 31
           /\ b % 128 \in 0 .. 127 /\ b % 16 \in 0 .. 15 /\ b % 8 \in 0 .. 7
BY DEF Byte

LEMMA Join128 ==
    ASSUME NEW q \in 0 .. 1, NEW r \in 0 .. 127
    PROVE  128 * q + r \in Byte /\ (128 * q + r) \div 128 = q /\ (128 * q + r) % 128 = r
BY DEF Byte

LEMMA Join16 ==
    ASSUME NEW q \in 0 .. 15, NEW r \in 0 .. 15
    PROVE  /\ 16 * q + r \in Byte /\ (16 * q + r) \div 16 = q /\ (16 * q + r) % 16 = r
           /\ (16 * q + r) \div 128 = q \div 8
BY DEF Byte

LEMMA Join8 ==
    ASSUME NEW q \in 0 .. 31, NEW r \in 0 .. 7
    PROVE  8 * q + r \in Byte /\ (8 * q + r) \div 8 = q /\ (8 * q + r) % 8 = r
BY DEF Byte

LEMMA Nibbles == \A b \in Byte : (b \div 16) \div 8 = b \div 128 /\ (b \div 16) % 8 = (b % 128) \div 16
BY DEF Byte

LEMMA Eleven ==
    ASSUME NEW n \in Nat
    PROVE  256 * ((n \div 256) % 8) + (n % 256) = n % 2048
OBVIOUS

-----------------------------------------------------------------------------
(* The header.                                                              *)

\* What has been written is read back, field by field.
HeaderInv ==
    /\ Rank(pc) > 1 => base[1] \div 128 = du.cd
    /\ Rank(pc) > 2 => base[1] % 128 = du.subtype
    /\ Rank(pc) > 3 => base[2] \div 128 = du.sv
    /\ Rank(pc) > 4 => (base[2] \div 16) % 8 = du.version
    /\ Rank(pc) > 5 => base[2] % 16 = du.message_type
    /\ Rank(pc) > 6 => base[3] \div 8 = du.status
    /\ Rank(pc) > 7 => 256 * (base[3] % 8) + base[4] = du.control_data_length % 2048
    /\ Rank(pc) > 8 => \A i \in 1 .. 8 : base[i + 4] = du.stream_id[i]

\* Filling in a PDU writes nothing.
LEMMA FormStep ==
    ASSUME TypeOK, Form, purpose' \in Purposes, du' \in PDUs
    PROVE  TypeOK' /\ HeaderInv'
<1>1. pc' = "cd" /\ UNCHANGED << base, length >>
  BY DEF Form
<1>2. Rank(pc') = 1
  BY <1>1 DEF Rank
<1> QED
  BY <1>1, <1>2 DEF TypeOK, HeaderInv, Steps

LEMMA CdStep ==
    ASSUME TypeOK, HeaderInv, set_cd
    PROVE  TypeOK' /\ HeaderInv'
<1> DEFINE r == base[1] % 128
<1>1. /\ pc' = "subtype" /\ UNCHANGED << purpose, du, length >>
      /\ base' = [base EXCEPT ![1] = 128 * du.cd + r]
  BY DEF set_cd, Write
<1>2. r \in 0 .. 127 /\ du.cd \in 0 .. 1
  BY Bits DEF TypeOK, PDUs
<1> HIDE DEF r
<1>3. 128 * du.cd + r \in Byte /\ (128 * du.cd + r) \div 128 = du.cd
  BY <1>2, Join128
<1>4. base' \in [1 .. 12 -> Byte] /\ base'[1] = 128 * du.cd + r
  BY <1>1, <1>3 DEF TypeOK
<1>5. Rank(pc') = 2
  BY <1>1 DEF Rank
<1> QED
  BY <1>1, <1>3, <1>4, <1>5 DEF TypeOK, HeaderInv, Steps

LEMMA SubtypeStep ==
    ASSUME TypeOK, HeaderInv, set_subtype
    PROVE  TypeOK' /\ HeaderInv'
<1> DEFINE q == base[1] \div 128
<1>1. /\ pc = "subtype" /\ pc' = "sv" /\ UNCHANGED << purpose, du, length >>
      /\ base' = [base EXCEPT ![1] = 128 * q + (du.subtype % 128)]
  BY DEF set_subtype, Write
<1>2. du.subtype \in 0 .. 127 /\ du.subtype % 128 = du.subtype
  BY DEF TypeOK, PDUs, SUBTYPE_ADP, SUBTYPE_AECP, SUBTYPE_ACMP
<1>3. q \in 0 .. 1
  BY Bits DEF TypeOK
<1>4. Rank(pc) = 2 /\ Rank(pc') = 3
  BY <1>1 DEF Rank
<1>5. q = du.cd
  BY <1>4 DEF HeaderInv
<1> HIDE DEF q
<1>6. /\ 128 * q + du.subtype \in Byte /\ (128 * q + du.subtype) \div 128 = q
      /\ (128 * q + du.subtype) % 128 = du.subtype
  BY <1>2, <1>3, Join128
<1>7. base' \in [1 .. 12 -> Byte] /\ base'[1] = 128 * q + du.subtype
  BY <1>1, <1>2, <1>6 DEF TypeOK
<1> QED
  BY <1>1, <1>4, <1>5, <1>6, <1>7 DEF TypeOK, HeaderInv, Steps

LEMMA SvStep ==
    ASSUME TypeOK, HeaderInv, set_sv
    PROVE  TypeOK' /\ HeaderInv'
<1> DEFINE r == base[2] % 128
<1>1. /\ pc = "sv" /\ pc' = "version" /\ UNCHANGED << purpose, du, length >>
      /\ base' = [base EXCEPT ![2] = 128 * du.sv + r]
  BY DEF set_sv, Write
<1>2. r \in 0 .. 127 /\ du.sv \in 0 .. 1
  BY Bits DEF TypeOK, PDUs
<1> HIDE DEF r
<1>3. 128 * du.sv + r \in Byte /\ (128 * du.sv + r) \div 128 = du.sv
  BY <1>2, Join128
<1>4. base' \in [1 .. 12 -> Byte] /\ base'[1] = base[1] /\ base'[2] = 128 * du.sv + r
  BY <1>1, <1>3 DEF TypeOK
<1>5. Rank(pc) = 3 /\ Rank(pc') = 4
  BY <1>1 DEF Rank
<1> QED
  BY <1>1, <1>3, <1>4, <1>5 DEF TypeOK, HeaderInv, Steps

LEMMA VersionStep ==
    ASSUME TypeOK, HeaderInv, set_version
    PROVE  TypeOK' /\ HeaderInv'
<1> DEFINE q == base[2] \div 128
           r == base[2] % 16
<1>0. du.version = 0 /\ du.version % 8 = 0
  BY DEF TypeOK, PDUs
<1>1. /\ pc = "version" /\ pc' = "message_type" /\ UNCHANGED << purpose, du, length >>
      /\ base' = [base EXCEPT ![2] = 128 * q + 16 * (du.version % 8) + r]
  BY DEF set_version, Write
<1>2. q \in 0 .. 1 /\ r \in 0 .. 15
  BY Bits DEF TypeOK
<1>3. Rank(pc) = 4 /\ Rank(pc') = 5
  BY <1>1 DEF Rank
<1>4. q = du.sv
  BY <1>3 DEF HeaderInv
<1> HIDE DEF q, r
<1>5. 128 * q + 16 * (du.version % 8) + r = 16 * (8 * q) + r
  BY <1>0, <1>2
<1>6. 8 * q \in 0 .. 15 /\ (8 * q) \div 8 = q /\ (8 * q) % 8 = 0
  BY <1>2
<1>7. /\ 16 * (8 * q) + r \in Byte /\ (16 * (8 * q) + r) \div 128 = q
      /\ ((16 * (8 * q) + r) \div 16) % 8 = 0
  BY <1>2, <1>6, Join16
<1>8. base' \in [1 .. 12 -> Byte] /\ base'[1] = base[1] /\ base'[2] = 16 * (8 * q) + r
  BY <1>1, <1>5, <1>7 DEF TypeOK
<1> QED
  BY <1>0, <1>1, <1>3, <1>4, <1>7, <1>8 DEF TypeOK, HeaderInv, Steps

LEMMA ControlDataStep ==
    ASSUME TypeOK, HeaderInv, set_control_data
    PROVE  TypeOK' /\ HeaderInv'
<1> DEFINE q == base[2] \div 16
           m == du.message_type
<1>1. /\ pc = "message_type" /\ pc' = "status" /\ UNCHANGED << purpose, du, length >>
      /\ base' = [base EXCEPT ![2] = 16 * q + (m % 16)]
  BY DEF set_control_data, Write
<1>2. q \in 0 .. 15 /\ m \in 0 .. 15 /\ q \div 8 = base[2] \div 128
  BY Bits, Nibbles DEF TypeOK, PDUs
<1>3. Rank(pc) = 5 /\ Rank(pc') = 6
  BY <1>1 DEF Rank
<1>4. q \div 8 = du.sv /\ q % 8 = du.version
  BY <1>2, <1>3 DEF HeaderInv
<1> HIDE DEF q, m
<1>5. m % 16 = m
  BY <1>2
<1>6. /\ 16 * q + m \in Byte /\ (16 * q + m) \div 128 = q \div 8
      /\ (16 * q + m) \div 16 = q /\ (16 * q + m) % 16 = m
  BY <1>2, Join16
<1>7. base' \in [1 .. 12 -> Byte] /\ base'[1] = base[1] /\ base'[2] = 16 * q + m
  BY <1>1, <1>5, <1>6 DEF TypeOK
<1> QED
  BY <1>1, <1>3, <1>4, <1>6, <1>7 DEF TypeOK, HeaderInv, Steps, m

LEMMA StatusStep ==
    ASSUME TypeOK, HeaderInv, set_status
    PROVE  TypeOK' /\ HeaderInv'
<1> DEFINE r == base[3] % 8
           s == du.status
<1>1. /\ pc = "status" /\ pc' = "control_data_length" /\ UNCHANGED << purpose, du, length >>
      /\ base' = [base EXCEPT ![3] = 8 * (s % 32) + r]
  BY DEF set_status, Write
<1>2. r \in 0 .. 7 /\ s \in 0 .. 31
  BY Bits DEF TypeOK, PDUs
<1>3. Rank(pc) = 6 /\ Rank(pc') = 7
  BY <1>1 DEF Rank
<1> HIDE DEF r, s
<1>5. s % 32 = s
  BY <1>2
<1>6. 8 * s + r \in Byte /\ (8 * s + r) \div 8 = s
  BY <1>2, Join8
<1>7. base' \in [1 .. 12 -> Byte] /\ base'[1] = base[1] /\ base'[2] = base[2] /\ base'[3] = 8 * s + r
  BY <1>1, <1>5, <1>6 DEF TypeOK
<1> QED
  BY <1>1, <1>3, <1>6, <1>7 DEF TypeOK, HeaderInv, Steps, s

LEMMA LengthStep ==
    ASSUME TypeOK, HeaderInv, set_control_data_length
    PROVE  TypeOK' /\ HeaderInv'
<1> DEFINE q == base[3] \div 8
           n == du.control_data_length
           h == (n \div 256) % 8
           l == n % 256
<1>1. /\ pc = "control_data_length" /\ pc' = "stream_id" /\ UNCHANGED << purpose, du, length >>
      /\ base' = [base EXCEPT ![3] = 8 * q + h, ![4] = l]
  BY DEF set_control_data_length
<1>2. q \in 0 .. 31 /\ n \in Nat
  BY Bits DEF TypeOK, PDUs
<1>3. Rank(pc) = 7 /\ Rank(pc') = 8
  BY <1>1 DEF Rank
<1>4. q = du.status
  BY <1>3 DEF HeaderInv
<1>5. h \in 0 .. 7 /\ l \in Byte /\ 256 * h + l = n % 2048
  <2> HIDE DEF n
  <2> QED
    BY <1>2, Eleven DEF Byte
<1> HIDE DEF q, n, h, l
<1>6. 8 * q + h \in Byte /\ (8 * q + h) \div 8 = q /\ (8 * q + h) % 8 = h
  BY <1>2, <1>5, Join8
<1>7. /\ base' \in [1 .. 12 -> Byte] /\ base'[1] = base[1] /\ base'[2] = base[2]
      /\ base'[3] = 8 * q + h /\ base'[4] = l
  BY <1>1, <1>5, <1>6 DEF TypeOK
<1> QED
  BY <1>1, <1>3, <1>4, <1>5, <1>6, <1>7 DEF TypeOK, HeaderInv, Steps, n

LEMMA StreamIdStep ==
    ASSUME TypeOK, HeaderInv, set_stream_id
    PROVE  TypeOK' /\ HeaderInv'
<1>1. /\ pc = "stream_id" /\ pc' = "body" /\ UNCHANGED << purpose, du, length >>
      /\ base' = [i \in 1 .. 12 |-> IF i > 4 THEN du.stream_id[i - 4] ELSE base[i]]
  BY DEF set_stream_id
<1>2. du.stream_id \in [1 .. 8 -> Byte] /\ base \in [1 .. 12 -> Byte]
  BY DEF TypeOK, PDUs
<1>3. base' \in [1 .. 12 -> Byte]
  <2>1. ASSUME NEW i \in 1 .. 12 PROVE base'[i] \in Byte
    <3>1. CASE i > 4
      <4>1. i - 4 \in 1 .. 8
        BY <3>1
      <4> QED
        BY <1>1, <1>2, <3>1, <4>1
    <3>2. CASE ~(i > 4)
      BY <1>1, <1>2, <3>2
    <3> QED
      BY <3>1, <3>2
  <2> QED
    BY <1>1, <2>1
<1>4. base'[1] = base[1] /\ base'[2] = base[2] /\ base'[3] = base[3] /\ base'[4] = base[4]
  BY <1>1
<1>5. \A i \in 1 .. 8 : base'[i + 4] = du.stream_id[i]
  BY <1>1
<1>6. Rank(pc) = 8 /\ Rank(pc') = 9
  BY <1>1 DEF Rank
<1> QED
  BY <1>1, <1>3, <1>4, <1>5, <1>6 DEF TypeOK, HeaderInv, Steps

\* What comes after the header leaves it alone.
LEMMA RestStep ==
    ASSUME TypeOK, HeaderInv, UNCHANGED << purpose, du, base >>, length' \in Nat,
           pc \in {"body", "command_type", "payload"}, pc' \in {"command_type", "payload", "formed"}
    PROVE  TypeOK' /\ HeaderInv'
<1>1. Rank(pc) = 9 /\ Rank(pc') = 9
  BY DEF Rank
<1> QED
  BY <1>1 DEF TypeOK, HeaderInv, Steps

LEMMA FormActions ==
    ASSUME TypeOK, adp_form_msg \/ acmp_form_msg
    PROVE  Form /\ purpose' \in Purposes /\ du' \in PDUs
<1>1. CASE adp_form_msg
  <2>1. PICK v \in ValidTimes, type \in {0, 1}, id \in Ids :
           /\ Form
           /\ purpose' = [Nothing EXCEPT !.valid = v]
           /\ du' = Header(SUBTYPE_ADP, type, valid_time(v), ADPDU_LEN - COMMON_CONTROL_HEADER_LEN, id)
    BY <1>1 DEF adp_form_msg
  <2>2. v \in Nat
    BY FramesAssumption
  <2>3. valid_time(v) \in 0 .. 31
    BY <2>2, ValidTimeRange
  <2>4. ADPDU_LEN - COMMON_CONTROL_HEADER_LEN \in Nat
    BY DEF ADPDU_LEN, COMMON_CONTROL_HEADER_LEN
  <2>5. du' \in PDUs
    BY <2>1, <2>3, <2>4, HeaderType
  <2>6. purpose' \in Purposes
    BY <2>1, <2>2 DEF Nothing, Purposes
  <2> QED
    BY <2>1, <2>5, <2>6
<1>2. CASE acmp_form_msg
  <2>1. PICK type \in {0, 2, 7, 9, 11}, id \in Ids :
           Form /\ purpose' = Nothing /\ du' = Header(SUBTYPE_ACMP, type, SUCCESS, 84, id)
    BY <1>2 DEF acmp_form_msg
  <2>2. SUCCESS \in 0 .. 31 /\ type \in 0 .. 15 /\ 84 \in Nat
    BY DEF SUCCESS
  <2>3. du' \in PDUs
    <3>1. Header(SUBTYPE_ACMP, type, SUCCESS, 84, id) \in PDUs
      BY <2>2, HeaderType
    <3> QED
      BY <2>1, <3>1
  <2>4. purpose' \in Purposes
    BY <2>1 DEF Nothing, Purposes
  <2> QED
    BY <2>1, <2>3, <2>4
<1> QED
  BY <1>1, <1>2

LEMMA DataLength ==
    ASSUME NEW p \in Purposes
    PROVE  data_length(p) \in Nat
BY DEF data_length, HeaderLength, Purposes, AECPDU_AEM_LEN, AECPDU_COMMON_LEN, COMMON_CONTROL_HEADER_LEN

LEMMA AecpForm ==
    ASSUME TypeOK, purpose' \in Purposes, NEW status \in 0 .. 31, aecp_form_msg(status)
    PROVE  Form /\ du' \in PDUs /\ du'.subtype = SUBTYPE_AECP
           /\ du'.control_data_length = data_length(purpose')
<1>1. PICK id \in Ids : du' = Header(SUBTYPE_AECP, 1, status, data_length(purpose'), id)
  BY DEF aecp_form_msg
<1>2. Form
  BY DEF aecp_form_msg
<1>3. du' \in PDUs
  <2>1. data_length(purpose') \in Nat
    BY DataLength
  <2>2. Header(SUBTYPE_AECP, 1, status, data_length(purpose'), id) \in PDUs
    BY <2>1, HeaderType
  <2> QED
    BY <1>1, <2>2
<1>4. du'.subtype = SUBTYPE_AECP /\ du'.control_data_length = data_length(purpose')
  BY <1>1 DEF Header
<1> QED
  BY <1>2, <1>3, <1>4

LEMMA Statuses == NamedStatuses \subseteq 0 .. 31 /\ SUCCESS \in 0 .. 31
BY DEF NamedStatuses, SUCCESS

LEMMA RespondFixedForm ==
    ASSUME TypeOK, RespondFixed
    PROVE  /\ Form /\ purpose' \in Purposes /\ du' \in PDUs /\ du'.subtype = SUBTYPE_AECP
           /\ du'.control_data_length = data_length(purpose') /\ purpose'.descriptor = "none"
<1>1. PICK c \in CommandTypes \ {"READ_DESCRIPTOR", "UNNAMED"}, status \in NamedStatuses :
         /\ purpose' = [Nothing EXCEPT !.payload = Payload(c),
                                        !.struct = IF c = "OTHER" THEN "common" ELSE "aem"]
         /\ aecp_form_msg(status)
  BY DEF RespondFixed
<1>2. Payload(c) \in Nat
  BY DEF Payload
<1>3. purpose' \in Purposes /\ purpose'.descriptor = "none"
  BY <1>1, <1>2 DEF Nothing, Purposes
<1>4. status \in 0 .. 31
  BY Statuses
<1> QED
  BY <1>1, <1>3, <1>4, AecpForm

LEMMA ReadDescriptorForm ==
    ASSUME TypeOK, ReadDescriptor
    PROVE  \/ /\ Form /\ purpose' \in Purposes /\ du' \in PDUs /\ du'.subtype = SUBTYPE_AECP
              /\ du'.control_data_length = data_length(purpose')
              /\ purpose'.descriptor \in Registered
           \/ /\ pc = "idle" /\ pc' = "silent" /\ purpose' \in Purposes
              /\ ~Created(purpose'.descriptor, purpose'.elements)
              /\ UNCHANGED << du, base, length >>
<1>1. PICK t \in Descriptors, n \in Sizes :
        \/ /\ Created(t, n)
           /\ purpose' = [Reading(t, n) EXCEPT !.payload = 4 + Descriptor(t, n).length,
                                               !.struct = "aem"]
           /\ aecp_form_msg(SUCCESS)
        \/ /\ ~Created(t, n)
           /\ pc = "idle" /\ pc' = "silent"
           /\ purpose' = Reading(t, n)
           /\ UNCHANGED << du, base, length >>
  BY DEF ReadDescriptor
<1>2. n \in Nat
  BY DescriptorsAssumption
<1>3. CASE Created(t, n) /\ aecp_form_msg(SUCCESS)
             /\ purpose' = [Reading(t, n) EXCEPT !.payload = 4 + Descriptor(t, n).length,
                                                 !.struct = "aem"]
  <2>1. t \in Registered /\ 4 + Descriptor(t, n).length \in Nat
    BY <1>2, <1>3, DescriptorShape DEF Created
  <2>2. purpose' \in Purposes /\ purpose'.descriptor \in Registered
    BY <1>2, <1>3, <2>1 DEF Reading, Nothing, Purposes
  <2>3. SUCCESS \in 0 .. 31
    BY Statuses
  <2> QED
    BY <1>3, <2>1, <2>2, <2>3, AecpForm
<1>4. CASE ~Created(t, n) /\ pc = "idle" /\ pc' = "silent" /\ purpose' = Reading(t, n)
             /\ UNCHANGED << du, base, length >>
  <2>1. purpose' \in Purposes /\ purpose'.descriptor = t /\ purpose'.elements = n
    BY <1>2, <1>4 DEF Reading, Nothing, Purposes
  <2> QED
    BY <1>4, <2>1
<1> QED
  BY <1>1, <1>3, <1>4

LEMMA BodyLengths ==
    ASSUME TypeOK, WriteBody \/ set_command_type \/ AppendPayload
    PROVE  /\ UNCHANGED << purpose, du, base >> /\ length' \in Nat
           /\ pc \in {"body", "command_type", "payload"} /\ pc' \in {"command_type", "payload", "formed"}
<1>1. CASE WriteBody
  BY <1>1 DEF WriteBody, ADPDU_LEN, ACMPDU_LEN, AECPDU_COMMON_LEN
<1>2. CASE set_command_type
  BY <1>2 DEF set_command_type, AECPDU_AEM_LEN
<1>3. CASE AppendPayload
  BY <1>3 DEF AppendPayload, TypeOK, Purposes
<1> QED
  BY <1>1, <1>2, <1>3

\* Each step keeps the types and what has been written.
LEMMA HeaderStep ==
    ASSUME TypeOK, HeaderInv, [Next]_vars
    PROVE  TypeOK' /\ HeaderInv'
<1>1. CASE adp_form_msg \/ acmp_form_msg
  BY <1>1, FormActions, FormStep
<1>2. CASE RespondFixed
  BY <1>2, RespondFixedForm, FormStep
<1>3. CASE ReadDescriptor
  <2>1. CASE Form /\ purpose' \in Purposes /\ du' \in PDUs
    BY <2>1, FormStep
  <2>2. CASE pc' = "silent" /\ purpose' \in Purposes /\ UNCHANGED << du, base, length >>
    <3>1. Rank(pc') = 0
      BY <2>2 DEF Rank
    <3> QED
      BY <2>2, <3>1 DEF TypeOK, HeaderInv, Steps
  <2> QED
    BY <1>3, <2>1, <2>2, ReadDescriptorForm
<1>4. CASE Setter
  BY <1>4, CdStep, SubtypeStep, SvStep, VersionStep, ControlDataStep, StatusStep, LengthStep,
     StreamIdStep DEF Setter
<1>5. CASE WriteBody \/ set_command_type \/ AppendPayload
  BY <1>5, BodyLengths, RestStep
<1>6. CASE UNCHANGED vars
  BY <1>6 DEF vars, TypeOK, HeaderInv
<1> QED
  BY <1>1, <1>2, <1>3, <1>4, <1>5, <1>6 DEF Next

LEMMA HeaderInit == Init => TypeOK /\ HeaderInv
<1> SUFFICES ASSUME Init PROVE HeaderInv
  BY TypeInit
<1>1. Rank(pc) = 0
  BY DEF Init, Rank
<1> QED
  BY <1>1 DEF HeaderInv

\* Every reachable state has its types, and what has been written of a header is read back.
THEOREM FramesTyped == Spec => [](TypeOK /\ HeaderInv)
<1>1. TypeOK /\ HeaderInv /\ [Next]_vars => TypeOK' /\ HeaderInv'
  BY HeaderStep
<1> QED
  BY HeaderInit, <1>1, PTL DEF Spec

LEMMA KeptOfInv ==
    ASSUME TypeOK, HeaderInv
    PROVE  HeaderKept
<1> SUFFICES ASSUME NEW f \in DOMAIN du, Rank(f) < Rank(pc)
             PROVE  Read(base)[f] = Said(f)
  BY DEF HeaderKept
<1>1. f \in {"cd", "subtype", "sv", "version", "message_type", "status", "control_data_length",
             "stream_id"}
  BY DEF TypeOK, PDUs
<1>0. Rank(pc) \in 0 .. 9
  BY DEF Rank
<1>2. CASE f = "cd"
  BY <1>0, <1>2 DEF Rank, HeaderInv, Read, Said
<1>3. CASE f = "subtype"
  BY <1>0, <1>3 DEF Rank, HeaderInv, Read, Said
<1>4. CASE f = "sv"
  BY <1>0, <1>4 DEF Rank, HeaderInv, Read, Said
<1>5. CASE f = "version"
  BY <1>0, <1>5 DEF Rank, HeaderInv, Read, Said
<1>6. CASE f = "message_type"
  BY <1>0, <1>6 DEF Rank, HeaderInv, Read, Said
<1>7. CASE f = "status"
  BY <1>0, <1>7 DEF Rank, HeaderInv, Read, Said
<1>8. CASE f = "control_data_length"
  BY <1>0, <1>8 DEF Rank, HeaderInv, Read, Said
<1>9. CASE f = "stream_id"
  <2>1. \A i \in 1 .. 8 : base[i + 4] = du.stream_id[i]
    <3>1. Rank(f) = 8
      BY <1>9 DEF Rank
    <3> QED
      BY <1>0, <3>1 DEF HeaderInv
  <2>2. du.stream_id \in [1 .. 8 -> Byte]
    BY DEF TypeOK, PDUs
  <2>3. Read(base).stream_id = [i \in 1 .. 8 |-> base[i + 4]]
    BY DEF Read
  <2> QED
    BY <1>9, <2>1, <2>2, <2>3 DEF Said
<1> QED
  BY <1>1, <1>2, <1>3, <1>4, <1>5, <1>6, <1>7, <1>8, <1>9

\* A receiver reads in a header what the PDU says, whatever the order of its fields in their bytes
\* (pdu.py, jdksavdecc_..._common_control_header_write).
THEOREM HeaderIsKept == Spec => []HeaderKept
BY FramesTyped, KeptOfInv, PTL

-----------------------------------------------------------------------------
(* Lengths and lifetimes.                                                   *)

\* What the PDU says of its frame, from when it is filled in
Promised ==
    /\ purpose.descriptor \in Registered \cup {"none"}
    /\ du.subtype = SUBTYPE_ADP =>
          /\ du.control_data_length = ADPDU_LEN - COMMON_CONTROL_HEADER_LEN
          /\ du.status = valid_time(purpose.valid)
          /\ purpose.payload = 0
    /\ du.subtype = SUBTYPE_AECP => du.control_data_length = data_length(purpose)

\* How long a formed frame is
Formed ==
    CASE du.subtype = SUBTYPE_ADP  -> length = ADPDU_LEN
      [] du.subtype = SUBTYPE_ACMP -> length = ACMPDU_LEN
      [] OTHER -> LET header == HeaderLength(purpose) IN
                  \/ length = header /\ header + purpose.payload >= BufferSize
                  \/ length = header + purpose.payload /\ length < BufferSize

\* The length agrees with what the PDU says as soon as the frame is formed.
SizeInv ==
    /\ pc \notin {"idle", "silent"} => Promised
    /\ pc \in {"command_type", "payload"} => du.subtype = SUBTYPE_AECP
    /\ pc = "command_type" => purpose.struct = "aem"
    /\ pc = "payload" => length = HeaderLength(purpose)
    /\ pc = "formed" => Formed

LEMMA Subtypes == SUBTYPE_ADP # SUBTYPE_AECP /\ SUBTYPE_ADP # SUBTYPE_ACMP /\ SUBTYPE_AECP # SUBTYPE_ACMP
BY DEF SUBTYPE_ADP, SUBTYPE_AECP, SUBTYPE_ACMP

LEMMA FormPromises ==
    ASSUME TypeOK, adp_form_msg \/ acmp_form_msg
    PROVE  Promised'
<1>1. CASE adp_form_msg
  <2>1. PICK v \in ValidTimes, type \in {0, 1}, id \in Ids :
           /\ purpose' = [Nothing EXCEPT !.valid = v]
           /\ du' = Header(SUBTYPE_ADP, type, valid_time(v), ADPDU_LEN - COMMON_CONTROL_HEADER_LEN, id)
    BY <1>1 DEF adp_form_msg
  <2>2. purpose'.valid = v /\ purpose'.descriptor = "none" /\ purpose'.payload = 0
    BY <2>1 DEF Nothing
  <2>3. /\ du'.subtype = SUBTYPE_ADP /\ du'.status = valid_time(v)
        /\ du'.control_data_length = ADPDU_LEN - COMMON_CONTROL_HEADER_LEN
    BY <2>1 DEF Header
  <2> QED
    BY <2>2, <2>3, Subtypes DEF Promised
<1>2. CASE acmp_form_msg
  <2>1. du'.subtype = SUBTYPE_ACMP /\ purpose'.descriptor = "none"
    BY <1>2 DEF acmp_form_msg, Header, Nothing
  <2> QED
    BY <2>1, Subtypes DEF Promised
<1> QED
  BY <1>1, <1>2

LEMMA BodySizes ==
    ASSUME TypeOK, SizeInv, WriteBody
    PROVE  SizeInv'
<1>1. pc = "body" /\ UNCHANGED << purpose, du >> /\ Promised
  BY DEF WriteBody, SizeInv
<1>2. Promised'
  BY <1>1 DEF Promised
<1>3. CASE du.subtype = SUBTYPE_ADP /\ length' = ADPDU_LEN /\ pc' = "formed"
  <2>1. Formed'
    BY <1>1, <1>3, Subtypes DEF Formed
  <2> QED
    BY <1>2, <1>3, <2>1 DEF SizeInv
<1>4. CASE du.subtype = SUBTYPE_ACMP /\ length' = ACMPDU_LEN /\ pc' = "formed"
  <2>1. Formed'
    BY <1>1, <1>4, Subtypes DEF Formed
  <2> QED
    BY <1>2, <1>4, <2>1 DEF SizeInv
<1>5. CASE /\ du.subtype = SUBTYPE_AECP /\ length' = AECPDU_COMMON_LEN
           /\ pc' = IF purpose.struct = "aem" THEN "command_type" ELSE "payload"
  BY <1>1, <1>2, <1>5 DEF SizeInv, HeaderLength
<1> QED
  BY <1>3, <1>4, <1>5 DEF WriteBody

LEMMA AppendSizes ==
    ASSUME TypeOK, SizeInv, AppendPayload
    PROVE  SizeInv'
<1> DEFINE p == purpose.payload
<1>1. /\ pc = "payload" /\ pc' = "formed" /\ UNCHANGED << purpose, du >>
      /\ length' = IF length + p < BufferSize THEN length + p ELSE length
  BY DEF AppendPayload
<1>2. Promised /\ du.subtype = SUBTYPE_AECP /\ length = HeaderLength(purpose)
  BY <1>1 DEF SizeInv
<1>3. p \in Nat /\ length \in Nat /\ BufferSize \in Nat
  BY FramesAssumption DEF TypeOK, Purposes
<1>4. \/ length' = length /\ length + p >= BufferSize
      \/ length' = length + p /\ length' < BufferSize
  BY <1>1, <1>3
<1>5. Formed'
  BY <1>1, <1>2, <1>4, Subtypes DEF Formed, HeaderLength
<1>6. Promised'
  BY <1>1, <1>2 DEF Promised
<1> QED
  BY <1>1, <1>5, <1>6 DEF SizeInv

LEMMA SetterSizes ==
    ASSUME TypeOK, SizeInv, Setter
    PROVE  SizeInv'
<1>1. UNCHANGED << purpose, du, length >>
  BY DEF Setter, set_cd, set_subtype, set_sv, set_version, set_control_data, set_status,
         set_control_data_length, set_stream_id, Write
<1>2. /\ pc \notin {"idle", "silent"}
      /\ pc' \in {"subtype", "sv", "version", "message_type", "status", "control_data_length",
                 "stream_id", "body"}
  BY DEF Setter, set_cd, set_subtype, set_sv, set_version, set_control_data, set_status,
         set_control_data_length, set_stream_id, Write
<1>3. Promised'
  BY <1>1, <1>2 DEF SizeInv, Promised
<1> QED
  BY <1>2, <1>3 DEF SizeInv

LEMMA SizeStep ==
    ASSUME TypeOK, SizeInv, [Next]_vars
    PROVE  SizeInv'
<1>1. CASE adp_form_msg \/ acmp_form_msg
  <2>1. pc' = "cd"
    BY <1>1, FormActions DEF Form
  <2> QED
    BY <1>1, <2>1, FormPromises DEF SizeInv
<1>2. ASSUME Form, du'.subtype = SUBTYPE_AECP, du'.control_data_length = data_length(purpose'),
             purpose'.descriptor \in Registered \cup {"none"}
      PROVE  SizeInv'
  <2>1. Promised'
    BY <1>2, Subtypes DEF Promised, data_length, HeaderLength
  <2>2. pc' = "cd"
    BY <1>2 DEF Form
  <2> QED
    BY <2>1, <2>2 DEF SizeInv
<1>3. CASE RespondFixed
  BY <1>2, <1>3, RespondFixedForm
<1>4. CASE ReadDescriptor
  <2>1. CASE pc' = "silent"
    BY <2>1 DEF SizeInv
  <2> QED
    BY <1>2, <1>4, <2>1, ReadDescriptorForm
<1>5. CASE Setter
  BY <1>5, SetterSizes
<1>6. CASE WriteBody
  BY <1>6, BodySizes
<1>7. CASE set_command_type
  <2>1. /\ pc = "command_type" /\ pc' = "payload" /\ UNCHANGED << purpose, du >>
        /\ length' = AECPDU_AEM_LEN
    BY <1>7 DEF set_command_type
  <2>2. Promised' /\ du.subtype = SUBTYPE_AECP /\ purpose.struct = "aem"
    BY <2>1 DEF SizeInv, Promised
  <2> QED
    BY <2>1, <2>2 DEF SizeInv, HeaderLength
<1>8. CASE AppendPayload
  BY <1>8, AppendSizes
<1>9. CASE UNCHANGED vars
  BY <1>9 DEF vars, SizeInv, Promised, Formed
<1> QED
  BY <1>1, <1>3, <1>4, <1>5, <1>6, <1>7, <1>8, <1>9 DEF Next

\* The frame and what its PDU says agree.
THEOREM SizesPromised == Spec => []SizeInv
<1>1. Init => SizeInv
  BY DEF Init, SizeInv
<1>2. TypeOK /\ SizeInv /\ [Next]_vars => SizeInv'
  BY SizeStep
<1>3. Spec => []TypeOK
  BY FramesTyped, PTL
<1> QED
  BY <1>1, <1>2, <1>3, PTL DEF Spec

LEMMA Small ==
    ASSUME NEW n \in Nat, n < 2048
    PROVE  n % 2048 = n
OBVIOUS

LEMMA LengthOfInv ==
    ASSUME TypeOK, HeaderInv, SizeInv
    PROVE  LengthTruthful
<1> SUFFICES ASSUME pc = "formed"
             PROVE  /\ length < BufferSize
                    /\ du.subtype # SUBTYPE_ACMP =>
                          IF Oversized(purpose)
                          THEN length = HeaderLength(purpose)
                          ELSE Read(base).control_data_length = length - COMMON_CONTROL_HEADER_LEN
  BY DEF LengthTruthful
<1> DEFINE n      == du.control_data_length
           p      == purpose.payload
           header == HeaderLength(purpose)
<1>1. Promised /\ Formed
  BY DEF SizeInv
<1>2. Read(base).control_data_length = n % 2048
  <2>1. Rank(pc) = 9
    BY DEF Rank
  <2> QED
    BY <2>1 DEF HeaderInv, Read
<1>3. n \in Nat /\ p \in Nat /\ length \in Nat /\ BufferSize \in 69 .. 2000
  BY FramesAssumption DEF TypeOK, PDUs, Purposes
<1>4. header \in {22, 24}
  BY DEF HeaderLength, AECPDU_AEM_LEN, AECPDU_COMMON_LEN
<1>5. CASE du.subtype = SUBTYPE_ADP
  <2>1. n = 56 /\ length = 68
    BY <1>1, <1>5, Subtypes DEF Promised, Formed, ADPDU_LEN, COMMON_CONTROL_HEADER_LEN
  <2>2. n % 2048 = length - COMMON_CONTROL_HEADER_LEN
    BY <2>1 DEF COMMON_CONTROL_HEADER_LEN
  <2>3. ~Oversized(purpose)
    <3>1. p = 0
      BY <1>1, <1>5 DEF Promised
    <3> HIDE DEF p, header
    <3>2. header + p < BufferSize
      BY <1>3, <1>4, <3>1
    <3> QED
      BY <1>3, <1>4, <3>1, <3>2 DEF Oversized, p, header
  <2> QED
    BY <1>2, <1>3, <2>1, <2>2, <2>3
<1>6. CASE du.subtype = SUBTYPE_ACMP
  <2>1. length = 56
    BY <1>1, <1>6, Subtypes DEF Formed, ACMPDU_LEN
  <2> QED
    BY <1>3, <1>6, <2>1
<1>7. CASE du.subtype = SUBTYPE_AECP
  <2>1. n = header - 12 + p
    BY <1>1, <1>7 DEF Promised, data_length, COMMON_CONTROL_HEADER_LEN
  <2>2. \/ length = header /\ header + p >= BufferSize
        \/ length = header + p /\ length < BufferSize
    BY <1>1, <1>7, Subtypes DEF Formed
  <2>3. Oversized(purpose) <=> header + p >= BufferSize
    BY DEF Oversized
  <2> HIDE DEF n, p, header
  <2>4. length < BufferSize
    BY <1>3, <1>4, <2>2
  <2>5. CASE length = header + p /\ length < BufferSize
    <3>1. n \in Nat
      BY <1>3, <1>4, <2>1
    <3>2. n = length - 12 /\ n < 2048
      BY <1>3, <1>4, <2>1, <2>4, <2>5
    <3>3. n % 2048 = n
      BY <3>1, <3>2, Small
    <3>4. ~Oversized(purpose)
      BY <1>3, <1>4, <2>3, <2>5
    <3> QED
      BY <1>2, <2>4, <3>2, <3>3, <3>4 DEF COMMON_CONTROL_HEADER_LEN
  <2>6. CASE length = header /\ header + p >= BufferSize
    <3>1. Oversized(purpose)
      BY <2>3, <2>6
    <3> QED
      BY <2>4, <2>6, <3>1 DEF header
  <2> QED
    BY <2>2, <2>5, <2>6
<1> QED
  BY <1>5, <1>6, <1>7 DEF TypeOK, PDUs

\* A frame of ADP or AECP has the length its header announces unless header and payload together
\* reach the end of the buffer, and every frame ends before its buffer does, for every
\* configuration and buffer (pdu.py:97-224).
THEOREM LengthIsTruthful == Spec => []LengthTruthful
BY FramesTyped, SizesPromised, LengthOfInv, PTL

\* The valid time the field says is enough, but for two ranges.
LEMMA Covers ==
    ASSUME NEW v \in Nat
    PROVE  Interval(v) <= 2000 * valid_time(v) <=> ~RoundedDown(v) /\ ~NoRoom(v)
<1> DEFINE q == (v + 100) \div 200
<1>1. q \in Nat /\ 200 * q <= v + 100 /\ v + 100 < 200 * q + 200
  OBVIOUS
<1>2. valid_time(v) = Greater(1, Lesser(q, 31))
  BY DEF valid_time
<1> HIDE DEF q
<1>3. CASE q < 2
  <2>1. valid_time(v) = 1 /\ v < 300
    BY <1>1, <1>2, <1>3 DEF Greater, Lesser
  <2> QED
    BY <2>1 DEF Interval, Greater, RoundedDown, NoRoom
<1>4. CASE q >= 2
  <2>1. v >= 300 /\ Interval(v) = 7 * v
    BY <1>1, <1>4 DEF Interval, Greater
  <2>2. CASE q < 31
    <3>1. valid_time(v) = q
      BY <1>1, <1>2, <1>4, <2>2 DEF Greater, Lesser
    <3> QED
      BY <1>1, <1>4, <2>1, <2>2, <3>1 DEF RoundedDown, NoRoom
  <2>3. CASE q >= 31
    <3>1. valid_time(v) = 31
      BY <1>1, <1>2, <1>4, <2>3 DEF Greater, Lesser
    <3> QED
      BY <2>1, <3>1 DEF RoundedDown, NoRoom
  <2> QED
    BY <1>1, <2>2, <2>3
<1> QED
  BY <1>1, <1>3, <1>4

LEMMA LifetimeOfInv ==
    ASSUME TypeOK, HeaderInv, SizeInv
    PROVE  LifetimeCovers
<1> SUFFICES ASSUME pc = "formed", du.subtype = SUBTYPE_ADP
             PROVE  Interval(purpose.valid) <= 2000 * Read(base).status
                        <=> ~RoundedDown(purpose.valid) /\ ~NoRoom(purpose.valid)
  BY DEF LifetimeCovers
<1>1. du.status = valid_time(purpose.valid)
  BY DEF SizeInv, Promised
<1>2. Rank(pc) = 9
  BY DEF Rank
<1>3. Read(base).status = du.status
  BY <1>2 DEF HeaderInv, Read
<1>4. purpose.valid \in Nat
  BY DEF TypeOK, Purposes
<1> QED
  BY <1>1, <1>3, <1>4, Covers

\* The lifetime in an announcement covers the time to the next one exactly if the valid time, in
\* hundredths of a second, is not just below three seconds, where the field is rounded down, and
\* not beyond 88.57, where it has no room (adp.py:56-76 against adp.py:129-160).
THEOREM LifetimeIsCovered == Spec => []LifetimeCovers
BY FramesTyped, SizesPromised, LifetimeOfInv, PTL

-----------------------------------------------------------------------------
(* Descriptors.                                                             *)

LEMMA TablesOfInv ==
    ASSUME TypeOK, SizeInv
    PROVE  TablesMeet
<1> SUFFICES ASSUME pc = "formed", purpose.descriptor # "none"
             PROVE  Contiguous(Descriptor(purpose.descriptor, purpose.elements))
  BY DEF TablesMeet
<1>1. purpose.elements \in Nat /\ purpose.descriptor \in Registered
  BY DEF TypeOK, Purposes, SizeInv, Promised
<1> QED
  BY <1>1, DescriptorShape

\* The tables of each descriptor that is sent meet its data, for every configuration file
\* (aem/descriptors.py, the ..._offset literals against data).
THEOREM TablesAlwaysMeet == Spec => []TablesMeet
BY FramesTyped, SizesPromised, TablesOfInv, PTL

\* Whenever the entity stays silent, the descriptor could not be created.
SilentInv == pc = "silent" => ~Created(purpose.descriptor, purpose.elements)

LEMMA SilentStep ==
    ASSUME TypeOK, SilentInv, [Next]_vars
    PROVE  SilentInv'
<1>1. CASE pc' # "silent"
  BY <1>1 DEF SilentInv
<1>2. CASE pc' = "silent"
  <2>1. CASE adp_form_msg \/ acmp_form_msg
    BY <1>2, <2>1, FormActions DEF Form
  <2>2. CASE RespondFixed
    BY <1>2, <2>2, RespondFixedForm DEF Form
  <2>3. CASE ReadDescriptor
    BY <1>2, <2>3, ReadDescriptorForm DEF Form, SilentInv
  <2>4. CASE Setter
    BY <1>2, <2>4 DEF Setter, set_cd, set_subtype, set_sv, set_version, set_control_data,
       set_status, set_control_data_length, set_stream_id, Write
  <2>5. CASE WriteBody \/ set_command_type \/ AppendPayload
    BY <1>2, <2>5, BodyLengths
  <2>6. CASE UNCHANGED vars
    BY <2>6 DEF vars, SilentInv
  <2> QED
    BY <2>1, <2>2, <2>3, <2>4, <2>5, <2>6 DEF Next
<1> QED
  BY <1>1, <1>2

\* A descriptor can be created of a class whose arguments are configured, its own or its parent's,
\* and whose list is neither empty nor too long.
LEMMA ConfiguredCreated ==
    ASSUME NEW t \in Registered, NEW n \in Nat, Encodable(n),
           Required(ClassOf(t)) \subseteq Config[t] \cup {"entity_id"}
    PROVE  Created(t, n)
<1>0. 1 <= n /\ n <= 8174
  BY DEF Encodable
<1>1. Required(ClassOf(t)) \subseteq allowed_kwargs(t)
  BY DEF allowed_kwargs, init_parameters
<1> DEFINE c == Count(t, n)
<1>2. CASE ClassOf(t) \in {"AUDIO_UNIT", "STREAM"}
  <2>1. c = n \/ c = 1
    BY <1>2 DEF Count, Default
  <2> HIDE DEF c
  <2>2. c > 0 /\ FormatsOffset + 8 * c <= 65535
    BY <1>0, <2>1 DEF FormatsOffset
  <2> QED
    BY <1>1, <2>2 DEF Created, c
<1>3. CASE ClassOf(t) \notin {"AUDIO_UNIT", "STREAM"}
  BY <1>1, <1>3 DEF Created
<1> QED
  BY <1>2, <1>3

\* If the configuration file gives each announced descriptor the arguments its class requires and
\* a list of one to 8174 elements, the entity can read every one of them (aem/__init__.py:22-49).
THEOREM ListedAreReadable ==
    ASSUME \A t \in Listed : Required(ClassOf(t)) \subseteq Config[t] \cup {"entity_id"}
    PROVE  Spec => []ListedReadable
<1>1. Init => SilentInv
  BY DEF Init, SilentInv
<1>2. TypeOK /\ SilentInv /\ [Next]_vars => SilentInv'
  BY SilentStep
<1>3. TypeOK /\ SilentInv => ListedReadable
  <2> SUFFICES ASSUME TypeOK, SilentInv, pc = "silent", Encodable(purpose.elements),
                      purpose.descriptor \in Listed
               PROVE  FALSE
    BY DEF ListedReadable
  <2>1. purpose.descriptor \in Registered
    BY FramesAssumption
  <2> DEFINE t == purpose.descriptor
             n == purpose.elements
  <2>2. Required(ClassOf(t)) \subseteq Config[t] \cup {"entity_id"}
    OBVIOUS
  <2>3. t \in Registered
    BY <2>1
  <2>4. n \in Nat /\ Encodable(n)
    BY DEF TypeOK, Purposes
  <2> HIDE DEF t, n
  <2>5. Created(t, n)
    BY <2>2, <2>3, <2>4, ConfiguredCreated
  <2> QED
    BY <2>5 DEF SilentInv, t, n
<1> QED
  BY <1>1, <1>2, <1>3, FramesTyped, PTL DEF Spec
=============================================================================
