--------------------------- MODULE DiscoveryProofs ---------------------------
(* Theorems about Discovery, for all values of its constants.              *)
EXTENDS Discovery, SequenceTheorems, TLAPS

\* What can be recorded is a time for an id.
LEMMA RecordedType ==
    ASSUME TypeOK, NEW i \in Infos, i.id # 0
    PROVE  /\ DOMAIN Recorded(i) \subseteq Ids \ {0}
           /\ Recorded(i) \in [DOMAIN Recorded(i) -> Nat]
<1>1. i.valid \in Nat /\ i.id \in Ids /\ ct + i.valid \in Nat
  BY ConstantsAssumption DEF Ids, TypeOK, DataTypes
<1>2. DOMAIN Recorded(i) = DOMAIN entities \cup {i.id}
  BY DEF Recorded
<1>3. \A id \in DOMAIN Recorded(i) : Recorded(i)[id] \in Nat
  BY <1>1, <1>2 DEF Recorded, TypeOK, DataTypes
<1>4. Recorded(i) \in [DOMAIN Recorded(i) -> Nat]
  BY <1>2, <1>3 DEF Recorded
<1> QED  BY <1>1, <1>2, <1>4 DEF TypeOK, DataTypes

\* Every id of an EntityInfo survives the conversion to an EUI-64 and back.
LEMMA KeyOfId == \A id \in Ids : Key(id) = id
<1> SUFFICES ASSUME NEW id \in Ids PROVE Key(id) = id
  OBVIOUS
<1>1. id \in Nat /\ IdRange \in Nat /\ id < IdRange /\ IdRange > 0
  BY ConstantsAssumption DEF Ids
<1>2. id % IdRange = id
  BY <1>1
<1> QED  BY <1>2 DEF Key

LEMMA TypeInit == Init => TypeOK
<1> SUFFICES ASSUME Init PROVE TypeOK
  OBVIOUS
<1>1. FlagTypes  BY Zenon DEF Init, FlagTypes
<1>2. DataTypes  BY DEF Init, DataTypes
<1> QED  BY <1>1, <1>2 DEF TypeOK

\* The two flags are only ever set or reset.
LEMMA FlagStep == FlagTypes /\ [Next]_vars => FlagTypes'
<1> SUFFICES ASSUME FlagTypes, [Next]_vars PROVE FlagTypes'
  OBVIOUS
<1> USE DEF FlagTypes, others, beyond, given
<1>1. CASE UserStep
  BY Zenon, <1>1 DEF UserStep, Notice, RaiseFlag, performDiscover, performTerminate, SetEvent
<1>2. CASE Tick  BY Zenon, <1>2 DEF Tick
<1>3. CASE ThreadStep
  BY Zenon, <1>3 DEF ThreadStep, ResetFlags, WaitReturns, CheckTerminate, ClearEvent, Discover,
     ReadTime, CheckAvailable, updateEntity, CheckDeparting, RemoveDeparting, Timeout
<1>4. CASE UNCHANGED vars  BY Zenon, <1>4 DEF vars
<1> QED  BY <1>1, <1>2, <1>3, <1>4 DEF Next

\* The thread's steps that leave the table and the clock alone.
Bystanding ==
    ResetFlags \/ WaitReturns \/ CheckTerminate \/ ClearEvent \/ Discover \/ CheckAvailable
      \/ CheckDeparting

\* The thread reads the EntityInfo of the last notice.
LEMMA LastNotice ==
    ASSUME TypeOK, PassInv
    PROVE  /\ Len(heard) \in Nat /\ DOMAIN heard = 1 .. Len(heard)
           /\ \A i \in 1 .. Len(heard) : heard[i] \in Notices
           /\ heard # << >> => /\ Len(heard) \in 1 .. Len(heard)
                               /\ rcvdEntityInfo = heard[Len(heard)].info
                               /\ rcvdEntityInfo \in Infos
           /\ (\E kind \in Kinds : Notified(kind)) => heard # << >>
<1>1. heard \in Seq(Notices)
  BY DEF TypeOK, DataTypes
<1>2. /\ Len(heard) \in Nat /\ DOMAIN heard = 1 .. Len(heard)
      /\ \A i \in 1 .. Len(heard) : heard[i] \in Notices
  BY <1>1, LenProperties, ElementOfSeq
<1>3. heard # << >> => Len(heard) \in 1 .. Len(heard)
  <2>1. heard # << >> => Len(heard) # 0
    BY <1>1, EmptySeq
  <2> QED  BY <1>2, <2>1
<1>4. heard # << >> => rcvdEntityInfo = heard[Len(heard)].info
  BY DEF PassInv
<1>5. heard # << >> => rcvdEntityInfo \in Infos
  BY <1>2, <1>3, <1>4 DEF Notices
<1> QED  BY <1>1, <1>2, <1>3, <1>4, <1>5 DEF Notified

\* What a notice adds
LEMMA HeardAppend ==
    ASSUME TypeOK, NEW n \in Notices
    PROVE  /\ Append(heard, n) \in Seq(Notices)
           /\ Append(heard, n) # << >>
           /\ Len(heard) \in Nat
           /\ Len(Append(heard, n)) = Len(heard) + 1
           /\ DOMAIN Append(heard, n) = 1 .. Len(heard) + 1
           /\ DOMAIN heard = 1 .. Len(heard)
           /\ \A i \in 1 .. Len(heard) : Append(heard, n)[i] = heard[i]
           /\ Append(heard, n)[Len(heard) + 1] = n
           /\ SubSeq(Append(heard, n), 1, Len(heard)) = heard
<1>1. heard \in Seq(Notices)
  BY DEF TypeOK, DataTypes
<1>2. heard = SubSeq(Append(heard, n), 1, Len(heard))
  BY <1>1, AppendProperties
<1>3. /\ Append(heard, n) \in Seq(Notices) /\ Append(heard, n) # << >>
      /\ Len(Append(heard, n)) = Len(heard) + 1
      /\ \A i \in 1 .. Len(heard) : Append(heard, n)[i] = heard[i]
      /\ Append(heard, n)[Len(heard) + 1] = n
  BY <1>1, AppendProperties
<1>4. /\ Len(heard) \in Nat /\ DOMAIN heard = 1 .. Len(heard)
  BY <1>1, LenProperties
<1>5. DOMAIN Append(heard, n) = 1 .. Len(heard) + 1
  BY <1>3, LenProperties
<1> QED  BY <1>2, <1>3, <1>4, <1>5

\* The data keep their types; what is recorded or removed needs an EntityInfo to be there.
LEMMA DataStep == TypeOK /\ PassInv /\ [Next]_vars => DataTypes'
<1> SUFFICES ASSUME TypeOK, PassInv, [Next]_vars PROVE DataTypes'
  OBVIOUS
<1> USE DEF TypeOK, DataTypes
<1>1. CASE UserStep
  <2>1. CASE Notice
    <3>1. PICK kind \in Calls \ {"discover"}, info \in Infos :
            /\ rcvdEntityInfo' = info /\ user' = kind
            /\ heard' = Append(heard, [kind |-> kind, info |-> info])
      BY <2>1 DEF Notice
    <3>2. [kind |-> kind, info |-> info] \in Notices /\ kind \in Kinds
      BY ConstantsAssumption DEF Notices, Kinds
    <3>3. heard' \in Seq(Notices)
      BY <3>1, <3>2, HeardAppend
    <3> QED  BY <2>1, <3>1, <3>2, <3>3 DEF Notice, Call, Kinds
  <2>2. CASE RaiseFlag
    <3>1. Len(heard) \in Nat  BY LastNotice
    <3> QED  BY <2>2, <3>1 DEF RaiseFlag, Kinds
  <2>3. CASE performDiscover  BY <2>3 DEF performDiscover, Call
  <2>4. CASE performTerminate  BY <2>4 DEF performTerminate
  <2>5. CASE SetEvent  BY <2>5 DEF SetEvent
  <2> QED  BY <1>1, <2>1, <2>2, <2>3, <2>4, <2>5 DEF UserStep
<1>2. CASE Tick  BY <1>2 DEF Tick, given
<1>3. CASE ThreadStep
  <2>1. CASE Bystanding
    BY <2>1 DEF Bystanding, ResetFlags, WaitReturns, CheckTerminate, ClearEvent, Discover,
       CheckAvailable, CheckDeparting, Goto, others, beyond, given
  <2>2. CASE ReadTime  BY <2>2 DEF ReadTime, Goto, others, beyond, given
  <2>3. CASE updateEntity
    <3>1. rcvdEntityInfo \in Infos
      BY <2>3, LastNotice DEF updateEntity, Goto, PassInv, Kinds
    <3>2. /\ DOMAIN entities' \subseteq Ids \ {0}
          /\ entities' \in [DOMAIN entities' -> Nat]
      BY <2>3, <3>1, RecordedType DEF updateEntity
    <3> QED  BY <2>3, <3>2 DEF updateEntity, Goto, ActsOn, Kinds, beyond, given
  <2>4. CASE RemoveDeparting
    BY <2>4 DEF RemoveDeparting, removeEntity, Goto, ActsOn, Kinds, beyond, given
  <2>5. CASE Timeout
    BY <2>5 DEF Timeout, removeEntity, Goto, others, beyond, given
  <2> QED  BY <1>3, <2>1, <2>2, <2>3, <2>4, <2>5 DEF ThreadStep, Bystanding
<1>4. CASE UNCHANGED vars  BY <1>4 DEF vars, given
<1> QED  BY <1>1, <1>2, <1>3, <1>4 DEF Next

LEMMA PassInit == Init => PassInv
BY DEF Init, PassInv, Kinds

\* One step per part of the code that raises or sees a flag, reads the time or touches the
\* table.
LEMMA PassStep == TypeOK /\ PassInv /\ [Next]_vars => PassInv'
<1> SUFFICES ASSUME TypeOK, PassInv, [Next]_vars PROVE PassInv'
  OBVIOUS
<1> USE DEF TypeOK, DataTypes, PassInv, Notified
<1>1. CASE UserStep
  <2>1. CASE Notice
    <3>1. PICK kind \in Calls \ {"discover"}, info \in Infos :
            /\ rcvdEntityInfo' = info /\ user' = kind
            /\ heard' = Append(heard, [kind |-> kind, info |-> info])
      BY <2>1 DEF Notice
    <3> DEFINE n == [kind |-> kind, info |-> info]
    <3>2. n \in Notices /\ n.kind = kind /\ n.info = info
      BY ConstantsAssumption DEF Notices, Kinds
    <3> HIDE DEF n
    <3>3. heard' = Append(heard, n)
      BY <3>1 DEF n
    <3>4. /\ heard'[Len(heard')] = n /\ Len(heard') \in DOMAIN heard'
          /\ \A i \in DOMAIN heard : i \in DOMAIN heard' /\ heard'[i] = heard[i]
      BY <3>2, <3>3, HeardAppend
    <3>5. rcvdEntityInfo' = heard'[Len(heard')].info
      BY <3>1, <3>2, <3>4
    <3>6. /\ Notified("available") => Notified("available")'
          /\ Notified("departing") => Notified("departing")'
      BY <3>4
    <3>7. user' \in {"available", "departing"} => \E i \in DOMAIN heard' : heard'[i].kind = user'
      BY <3>1, <3>2, <3>4
    <3>8. /\ user' = "available" => Notified("available")'
          /\ user' = "departing" => Notified("departing")'
      BY <3>7
    <3>9. UNCHANGED << flags, pc, ct, now, entities >>
      BY <2>1 DEF Notice
    <3> HIDE DEF Notified
    <3> QED  BY <3>5, <3>6, <3>8, <3>9 DEF BetweenPasses
  <2>2. CASE RaiseFlag  BY <2>2 DEF RaiseFlag
  <2>3. CASE performDiscover  BY <2>3 DEF performDiscover, Call
  <2>4. CASE performTerminate  BY <2>4 DEF performTerminate
  <2>5. CASE SetEvent  BY <2>5 DEF SetEvent
  <2> QED  BY <1>1, <2>1, <2>2, <2>3, <2>4, <2>5 DEF UserStep
<1>2. CASE Tick  BY <1>2 DEF Tick, given
<1>3. CASE ThreadStep
  <2> USE DEF Goto, others, beyond, given, BetweenPasses
  <2>1. CASE Bystanding
    BY <2>1 DEF Bystanding, ResetFlags, WaitReturns, CheckTerminate, ClearEvent, Discover,
       CheckAvailable, CheckDeparting
  <2>2. CASE ReadTime  BY <2>2 DEF ReadTime
  <2>3. CASE updateEntity  BY <2>3 DEF updateEntity
  <2>4. CASE RemoveDeparting  BY <2>4 DEF RemoveDeparting
  <2>5. CASE Timeout  BY <2>5 DEF Timeout, Expired
  <2> QED  BY <1>3, <2>1, <2>2, <2>3, <2>4, <2>5 DEF ThreadStep, Bystanding
<1>4. CASE UNCHANGED vars  BY <1>4 DEF vars, given
<1> QED  BY <1>1, <1>2, <1>3, <1>4 DEF Next

LEMMA Invariance == Spec => [](TypeOK /\ PassInv)
<1>1. TypeOK /\ PassInv /\ [Next]_vars => TypeOK' /\ PassInv'
  BY FlagStep, DataStep, PassStep DEF TypeOK
<1> QED  BY TypeInit, PassInit, <1>1, PTL DEF Spec

\* The table never holds the id zero, whatever is handed over and whenever.
THEOREM TypeCorrect == Spec => []TypeOK
BY Invariance, PTL

\* The thread only acts on what was handed over completely, and no pass begins on a table
\* with an entry that had expired in the pass before.
THEOREM PassesSound == Spec => []PassInv
BY Invariance, PTL

-----------------------------------------------------------------------------
(* The refinement.                                                         *)

\* Where the thread may still look at a flag before it resets it
BeforeLook ==
    [ available |-> { "resetDeparting", "resetDiscover", "wait", "terminate", "clear",
                      "discover", "time", "available" },
      departing |-> { "resetDiscover", "wait", "terminate", "clear", "discover", "time",
                      "available", "update", "departing" } ]

ActsAt == [ available |-> "update", departing |-> "remove" ]

\* A flag that the thread may still act on stands for a notice it has not acted on.
RaisedInv ==
    \A k \in Kinds :
        /\ acted[k] <= raised[k] /\ raised[k] <= Len(heard)
        /\ raised[k] # 0 => heard[raised[k]].kind = k
        /\ user = k => /\ heard # << >> /\ heard[Len(heard)].kind = k
                       /\ raised[k] < Len(heard)
        /\ (k \in flags /\ pc \in BeforeLook[k]) \/ pc = ActsAt[k] => acted[k] < raised[k]

LEMMA RaisedInit == Init => RaisedInv
BY DEF Init, RaisedInv, Kinds, ActsAt

LEMMA RaisedStep == TypeOK /\ PassInv /\ RaisedInv /\ [Next]_vars => RaisedInv'
<1> SUFFICES ASSUME TypeOK, PassInv, RaisedInv, [Next]_vars, NEW k \in Kinds
             PROVE  /\ acted'[k] <= raised'[k] /\ raised'[k] <= Len(heard')
                    /\ raised'[k] # 0 => heard'[raised'[k]].kind = k
                    /\ user' = k => /\ heard' # << >> /\ heard'[Len(heard')].kind = k
                                    /\ raised'[k] < Len(heard')
                    /\ (k \in flags' /\ pc' \in BeforeLook[k]) \/ pc' = ActsAt[k]
                         => acted'[k] < raised'[k]
  BY DEF RaisedInv
<1>0. /\ acted[k] \in Nat /\ raised[k] \in Nat /\ Len(heard) \in Nat
      /\ DOMAIN heard = 1 .. Len(heard)
      /\ acted[k] <= raised[k] /\ raised[k] <= Len(heard)
      /\ raised[k] # 0 => heard[raised[k]].kind = k
      /\ user = k => /\ heard # << >> /\ heard[Len(heard)].kind = k
                     /\ raised[k] < Len(heard)
      /\ (k \in flags /\ pc \in BeforeLook[k]) \/ pc = ActsAt[k] => acted[k] < raised[k]
      /\ raised \in [Kinds -> Nat] /\ acted \in [Kinds -> Nat]
  BY LastNotice DEF RaisedInv, TypeOK, DataTypes
<1>1. CASE UserStep
  <2>1. CASE Notice
    <3>1. PICK kind \in Calls \ {"discover"}, info \in Infos :
            /\ user' = kind
            /\ heard' = Append(heard, [kind |-> kind, info |-> info])
      BY <2>1 DEF Notice
    <3> DEFINE n == [kind |-> kind, info |-> info]
    <3>2. n \in Notices /\ n.kind = kind
      BY ConstantsAssumption DEF Notices, Kinds
    <3> HIDE DEF n
    <3>3. heard' = Append(heard, n)
      BY <3>1 DEF n
    <3>4. /\ heard' # << >> /\ Len(heard') = Len(heard) + 1
          /\ \A i \in 1 .. Len(heard) : heard'[i] = heard[i]
          /\ heard'[Len(heard) + 1] = n
      BY <3>2, <3>3, HeardAppend
    <3>5. UNCHANGED << raised, acted, flags, pc >>
      BY <2>1 DEF Notice
    <3>6. /\ raised[k] <= Len(heard') /\ raised[k] < Len(heard')
          /\ raised[k] # 0 => raised[k] \in 1 .. Len(heard)
      BY <1>0, <3>4
    <3>7. user' = k => heard'[Len(heard')].kind = k
      BY <3>1, <3>2, <3>4
    <3> QED  BY <1>0, <3>4, <3>5, <3>6, <3>7
  <2>2. CASE RaiseFlag
    <3>1. /\ UNCHANGED << heard, acted, pc >> /\ user' = "notify"
          /\ raised' = [raised EXCEPT ![user] = Len(heard)] /\ flags' = flags \cup {user}
          /\ user \in Kinds
      BY <2>2 DEF RaiseFlag
    <3>2. user' # k
      BY <3>1 DEF Kinds
    <3>3. CASE user = k
      <4>1. raised'[k] = Len(heard)  BY <1>0, <3>1, <3>3
      <4> QED  BY <1>0, <3>1, <3>2, <3>3, <4>1
    <3>4. CASE user # k
      <4>1. raised'[k] = raised[k] /\ (k \in flags' <=> k \in flags)
        BY <1>0, <3>1, <3>4
      <4> QED  BY <1>0, <3>1, <3>2, <4>1
    <3> QED  BY <3>3, <3>4
  <2>3. CASE performDiscover \/ performTerminate \/ SetEvent
    <3>1. /\ UNCHANGED << heard, raised, acted, pc >> /\ user' \notin Kinds
          /\ k \in flags' <=> k \in flags
      BY <2>3 DEF performDiscover, performTerminate, SetEvent, Call, Kinds
    <3> QED  BY <1>0, <3>1
  <2> QED  BY <1>1, <2>1, <2>2, <2>3 DEF UserStep
<1>2. CASE Tick  BY <1>0, <1>2 DEF Tick, given
<1>3. CASE ThreadStep
  <2> USE DEF Goto, others, beyond, given
  <2>1. UNCHANGED << heard, raised, user >>
    BY <1>3 DEF ThreadStep, ResetFlags, WaitReturns, CheckTerminate, ClearEvent, Discover,
       ReadTime, CheckAvailable, updateEntity, CheckDeparting, RemoveDeparting, Timeout
  <2>2. ASSUME acted' = acted,
               (k \in flags' /\ pc' \in BeforeLook[k]) \/ pc' = ActsAt[k]
                 => k \in flags /\ pc \in BeforeLook[k]
        PROVE  /\ acted'[k] <= raised'[k]
               /\ (k \in flags' /\ pc' \in BeforeLook[k]) \/ pc' = ActsAt[k]
                    => acted'[k] < raised'[k]
    BY <1>0, <2>1, <2>2
  <2>3. CASE Bystanding \/ ReadTime \/ Timeout
    <3>1. acted' = acted
      BY <2>3 DEF Bystanding, ResetFlags, WaitReturns, CheckTerminate, ClearEvent, Discover,
         CheckAvailable, CheckDeparting, ReadTime, Timeout
    <3>2. (k \in flags' /\ pc' \in BeforeLook[k]) \/ pc' = ActsAt[k]
            => k \in flags /\ pc \in BeforeLook[k]
      BY <2>3 DEF Bystanding, ResetFlags, WaitReturns, CheckTerminate, ClearEvent, Discover,
         CheckAvailable, CheckDeparting, ReadTime, Timeout, BeforeLook, ActsAt, Kinds
    <3> QED  BY <1>0, <2>1, <2>2, <3>1, <3>2
  <2>4. CASE updateEntity
    <3>1. /\ pc = "update" /\ pc' = "departing" /\ flags' = flags
          /\ acted' = [acted EXCEPT !["available"] = raised["available"]]
      BY <2>4 DEF updateEntity, ActsOn
    <3>2. CASE k = "available"
      BY <1>0, <2>1, <3>1, <3>2 DEF BeforeLook, ActsAt
    <3>3. CASE k = "departing"
      BY <1>0, <2>1, <3>1, <3>3 DEF BeforeLook, ActsAt
    <3> QED  BY <3>2, <3>3 DEF Kinds
  <2>5. CASE RemoveDeparting
    <3>1. /\ pc = "remove" /\ pc' = "timeout" /\ flags' = flags
          /\ acted' = [acted EXCEPT !["departing"] = raised["departing"]]
      BY <2>5 DEF RemoveDeparting, ActsOn
    <3>2. CASE k = "available"
      BY <1>0, <2>1, <3>1, <3>2 DEF BeforeLook, ActsAt
    <3>3. CASE k = "departing"
      BY <1>0, <2>1, <3>1, <3>3 DEF BeforeLook, ActsAt
    <3> QED  BY <3>2, <3>3 DEF Kinds
  <2> QED  BY <1>3, <2>3, <2>4, <2>5 DEF ThreadStep, Bystanding
<1>4. CASE UNCHANGED vars  BY <1>0, <1>4 DEF vars, given
<1> QED  BY <1>1, <1>2, <1>3, <1>4 DEF Next

TableVars == << entities, ct, heard, acted >>

\* What the thread acts on: a notice it has not acted on, and the EntityInfo of the last
LEMMA ActsOnFresh ==
    ASSUME TypeOK, PassInv, RaisedInv, NEW k \in Kinds, pc = ActsAt[k], ActsOn(k),
           UNCHANGED << ct, heard >>
    PROVE  /\ Promise!ActOn(k)
           /\ rcvdEntityInfo = Promise!Latest /\ rcvdEntityInfo \in Infos
<1>1. /\ acted[k] \in Nat /\ raised[k] \in Nat /\ acted[k] < raised[k]
      /\ raised[k] <= Len(heard) /\ Len(heard) \in Nat
      /\ raised[k] # 0 => heard[raised[k]].kind = k
  BY LastNotice DEF RaisedInv, TypeOK, DataTypes
<1>2. raised[k] \in acted[k] + 1 .. Len(heard) /\ heard[raised[k]].kind = k
  BY <1>1
<1>3. heard # << >>
  BY LastNotice DEF PassInv, ActsAt, Kinds
<1> QED  BY <1>2, <1>3, LastNotice DEF Promise!ActOn, ActsOn, Promise!Latest

LEMMA TableStep ==
    TypeOK /\ PassInv /\ RaisedInv /\ [Next]_vars => [Promise!Next]_TableVars
<1> SUFFICES ASSUME TypeOK, PassInv, RaisedInv, [Next]_vars
             PROVE  Promise!Next \/ UNCHANGED TableVars
  OBVIOUS
<1> USE DEF TableVars
<1>1. CASE UserStep
  <2>1. CASE Notice
    <3>1. PICK kind \in Calls \ {"discover"}, info \in Infos :
            heard' = Append(heard, [kind |-> kind, info |-> info])
      BY <2>1 DEF Notice
    <3>2. [kind |-> kind, info |-> info] \in Notices
      BY ConstantsAssumption DEF Notices, Kinds
    <3>3. Len(heard') = Len(heard) + 1 /\ heard = SubSeq(heard', 1, Len(heard))
      BY <3>1, <3>2, HeardAppend
    <3> QED  BY <2>1, <3>3 DEF Notice, Promise!Next, Promise!Hear
  <2>2. CASE ~Notice
    BY <1>1, <2>2 DEF UserStep, RaiseFlag, performDiscover, performTerminate, SetEvent
  <2> QED  BY <2>1, <2>2
<1>2. CASE Tick  BY <1>2 DEF Tick, given
<1>3. CASE ThreadStep
  <2> USE DEF Goto, others, beyond, given
  <2>1. CASE Bystanding
    BY <2>1 DEF Bystanding, ResetFlags, WaitReturns, CheckTerminate, ClearEvent, Discover,
       CheckAvailable, CheckDeparting
  <2>2. CASE ReadTime
    BY <2>2 DEF ReadTime, Promise!Next, Promise!MoveOn, PassInv, BetweenPasses, TypeOK, DataTypes
  <2>3. CASE updateEntity
    <3>1. /\ Promise!ActOn("available")
          /\ rcvdEntityInfo = Promise!Latest
      BY <2>3, ActsOnFresh DEF updateEntity, ActsAt, Kinds
    <3>2. Promise!Learn
      BY <2>3, <3>1 DEF updateEntity, Recorded, Promise!Learn
    <3> QED  BY <3>2 DEF Promise!Next
  <2>4. CASE RemoveDeparting
    <3>1. /\ Promise!ActOn("departing")
          /\ rcvdEntityInfo = Promise!Latest /\ rcvdEntityInfo.id \in Ids
      BY <2>4, ActsOnFresh DEF RemoveDeparting, ActsAt, Kinds, Ids
    <3>2. Promise!Dismiss
      BY <2>4, <3>1, KeyOfId DEF RemoveDeparting, removeEntity, Promise!Dismiss, Promise!Remove
    <3> QED  BY <3>2 DEF Promise!Next
  <2>5. CASE Timeout
    <3>1. CASE UNCHANGED entities  BY <2>5, <3>1 DEF Timeout
    <3>2. ASSUME NEW id \in Expired, removeEntity(id)
          PROVE  Promise!Next
      <4>1. id \in Ids /\ id \in DOMAIN entities /\ entities[id] <= ct
        BY <3>2 DEF Expired, TypeOK, DataTypes
      <4>2. Promise!Expire(id)
        BY <2>5, <3>2, <4>1, KeyOfId DEF Timeout, removeEntity, Promise!Expire, Promise!Remove
      <4> QED  BY <4>1, <4>2 DEF Promise!Next
    <3> QED  BY <2>5, <3>1, <3>2 DEF Timeout
  <2> QED  BY <1>3, <2>1, <2>2, <2>3, <2>4, <2>5 DEF ThreadStep, Bystanding
<1>4. CASE UNCHANGED vars  BY <1>4 DEF vars, given
<1> QED  BY <1>1, <1>2, <1>3, <1>4 DEF Next

\* The flags, the event and the two threads never show: the table is the one EntityTable
\* promises, for any announcements in any order.
THEOREM Implements == Spec => ImplementsTable
<1>1. Init => Promise!Init
  BY DEF Init, Promise!Init, Kinds
<1>2. TypeOK /\ PassInv /\ RaisedInv /\ [Next]_vars => [Promise!Next]_(Promise!vars)
  BY TableStep DEF Promise!vars, TableVars
<1> QED  BY Invariance, RaisedInit, RaisedStep, <1>1, <1>2, PTL DEF Spec, ImplementsTable, Promise!Spec

-----------------------------------------------------------------------------
(* Liveness.  The provers know neither ENABLED, which WF is defined with,   *)
(* nor induction on temporal formulas.  What a theorem needs of them it     *)
(* takes as a hypothesis that is always true: ThreadCanStep of every        *)
(* behaviour of the specification, Descent(f) of every behaviour at all.    *)

Ended == {"stopped", "failed"}

\* A step of the thread is possible in every state but those with pc in Ended, so this is
\* what WF_vars(ThreadStep) says.
ThreadCanStep == WF_vars(ThreadStep) => []<>(pc \in Ended) \/ []<><<ThreadStep>>_vars

\* What falls again and again, and is always a natural number, rises again and again.
Descent(f) == [](f \in Nat) /\ []<><<f' < f>>_f => []<><<f' > f>>_f

\* The steps to the end, at most, once the thread is told to end
Distance ==
    CASE pc \in Ended -> 0
      [] pc = "terminate" -> 1 [] pc = "wait" -> 2 [] pc = "resetDiscover" -> 3
      [] pc = "resetDeparting" -> 4 [] pc = "resetAvailable" -> 5 [] pc = "timeout" -> 6
      [] pc = "remove" -> 7 [] pc = "departing" -> 8 [] pc = "update" -> 9
      [] pc = "available" -> 10 [] pc = "time" -> 11 [] pc = "discover" -> 12 [] OTHER -> 13

Within(n) == doTerminate /\ Distance <= n

\* Each step of the thread is one fewer.
LEMMA ThreadApproaches ==
    ASSUME TypeOK, doTerminate, ThreadStep
    PROVE  doTerminate' /\ Distance' < Distance
<1> USE DEF Goto, Distance, Ended, others, beyond, given
<1>1. CASE ResetFlags  BY <1>1 DEF ResetFlags
<1>2. CASE WaitReturns  BY <1>2 DEF WaitReturns
<1>3. CASE CheckTerminate  BY <1>3 DEF CheckTerminate
<1>4. CASE ClearEvent  BY <1>4 DEF ClearEvent
<1>5. CASE Discover  BY <1>5 DEF Discover
<1>6. CASE ReadTime  BY <1>6 DEF ReadTime
<1>7. CASE CheckAvailable  BY <1>7 DEF CheckAvailable
<1>8. CASE updateEntity  BY <1>8 DEF updateEntity
<1>9. CASE CheckDeparting  BY <1>9 DEF CheckDeparting
<1>10. CASE RemoveDeparting  BY <1>10 DEF RemoveDeparting
<1>11. CASE Timeout  BY <1>11 DEF Timeout
<1> QED
  BY <1>1, <1>2, <1>3, <1>4, <1>5, <1>6, <1>7, <1>8, <1>9, <1>10, <1>11 DEF ThreadStep

\* The user's thread and the clock do not move it.
LEMMA OthersKeepPlace ==
    ASSUME UserStep \/ Tick \/ UNCHANGED vars
    PROVE  /\ doTerminate => doTerminate'
           /\ pc' = pc /\ ct' = ct /\ entities' = entities
           /\ flags \subseteq flags'
<1>1. doTerminate => doTerminate'
  BY Zenon DEF UserStep, Notice, RaiseFlag, performDiscover, performTerminate, SetEvent, Tick, vars
<1>2. pc' = pc /\ ct' = ct /\ entities' = entities
  BY Zenon DEF UserStep, Notice, RaiseFlag, performDiscover, performTerminate, SetEvent, Tick, vars
<1>3. flags \subseteq flags'
  BY DEF UserStep, Notice, RaiseFlag, performDiscover, performTerminate, SetEvent, Tick, vars
<1> QED  BY <1>1, <1>2, <1>3

LEMMA OnlyTick == [Next]_vars => now' = now \/ Tick
BY Zenon DEF Next, UserStep, Notice, RaiseFlag, performDiscover, performTerminate, SetEvent, vars, ThreadStep,
   ResetFlags, WaitReturns, CheckTerminate, ClearEvent, Discover, ReadTime, CheckAvailable, updateEntity,
   CheckDeparting, RemoveDeparting, Timeout, others, beyond

\* What the steps of n are worth: they are not taken back, and one of the thread leaves m.
Approaches(m, n) ==
    /\ TypeOK /\ Within(n) /\ [Next]_vars => Within(n)'
    /\ TypeOK /\ Within(n) /\ <<ThreadStep>>_vars => Within(m)'

LEMMA Approach == \A n \in Nat : Approaches(n, n + 1)
<1> SUFFICES ASSUME NEW n \in Nat, TypeOK, Within(n + 1)
             PROVE  /\ [Next]_vars => Within(n + 1)'
                    /\ <<ThreadStep>>_vars => Within(n)'
  BY DEF Approaches
<1>1. Distance \in Nat /\ Distance' \in Nat  BY DEF Distance
<1>2. CASE ThreadStep  BY <1>1, <1>2, ThreadApproaches DEF Within
<1>3. CASE UserStep \/ Tick \/ UNCHANGED vars
  <2>1. doTerminate' /\ pc' = pc  BY <1>3, OthersKeepPlace DEF Within
  <2>2. Distance' = Distance  BY <2>1 DEF Distance
  <2>3. ThreadStep => Within(n)'  BY <1>1, ThreadApproaches DEF Within
  <2> QED  BY <2>1, <2>2, <2>3 DEF Within
<1> QED  BY <1>2, <1>3 DEF Next

\* performTerminate ends the thread, from wherever it is.
THEOREM Ends == FairSpec /\ ThreadCanStep => Terminates
<1>1. /\ Approaches(0, 1) /\ Approaches(1, 2) /\ Approaches(2, 3) /\ Approaches(3, 4)
      /\ Approaches(4, 5) /\ Approaches(5, 6) /\ Approaches(6, 7) /\ Approaches(7, 8)
      /\ Approaches(8, 9) /\ Approaches(9, 10) /\ Approaches(10, 11) /\ Approaches(11, 12)
      /\ Approaches(12, 13)
  BY Approach
<1>2. doTerminate => Within(13)
  BY DEF Within, Distance
<1>3. Within(0) => pc \in Ended
  BY DEF Within, Distance, Ended
<1> QED  BY <1>1, <1>2, <1>3, Invariance, PTL DEF Approaches, FairSpec, Spec, ThreadCanStep, Terminates, Ended

-----------------------------------------------------------------------------
\* The steps until the thread records what it was handed, at most, if it sees the flag
ToUpdate ==
    CASE pc = "update" -> 1 [] pc = "available" -> 2 [] pc = "time" -> 3 [] pc = "discover" -> 4
      [] pc = "clear" -> 5 [] pc = "terminate" -> 6 [] pc = "wait" -> 7 [] OTHER -> 8

Pursued(i, n) ==
    rcvdEntityInfo = i /\ i.id # 0 /\ "available" \in flags /\ ToUpdate <= n /\ n <= 7

Taken(i) == i.id \in DOMAIN entities \/ rcvdEntityInfo # i \/ Over

\* Until the announcement is recorded each step of the thread is one fewer.
LEMMA ThreadPursues ==
    ASSUME TypeOK, NEW i \in Infos, rcvdEntityInfo = i, i.id # 0, "available" \in flags,
           ToUpdate <= 7, ThreadStep
    PROVE  \/ Taken(i)'
           \/ /\ rcvdEntityInfo' = i /\ "available" \in flags'
              /\ ToUpdate' < ToUpdate
<1> USE DEF Goto, ToUpdate, Taken, Over, others, beyond, given
<1>1. CASE ResetFlags  BY <1>1 DEF ResetFlags
<1>2. CASE WaitReturns  BY <1>2 DEF WaitReturns
<1>3. CASE CheckTerminate  BY <1>3 DEF CheckTerminate
<1>4. CASE ClearEvent  BY <1>4 DEF ClearEvent
<1>5. CASE Discover  BY <1>5 DEF Discover
<1>6. CASE ReadTime  BY <1>6 DEF ReadTime
<1>7. CASE CheckAvailable  BY <1>7 DEF CheckAvailable
<1>8. CASE updateEntity
  <2>1. i.id \in DOMAIN entities'  BY <1>8 DEF updateEntity, Recorded
  <2> QED  BY <2>1
<1>9. CASE CheckDeparting  BY <1>9 DEF CheckDeparting
<1>10. CASE RemoveDeparting  BY <1>10 DEF RemoveDeparting
<1>11. CASE Timeout  BY <1>11 DEF Timeout
<1> QED
  BY <1>1, <1>2, <1>3, <1>4, <1>5, <1>6, <1>7, <1>8, <1>9, <1>10, <1>11 DEF ThreadStep

Pursues(i, m, n) ==
    /\ TypeOK /\ Pursued(i, n) /\ [Next]_vars => Pursued(i, n)' \/ Taken(i)'
    /\ TypeOK /\ Pursued(i, n) /\ <<ThreadStep>>_vars => Pursued(i, m)' \/ Taken(i)'

LEMMA Pursue == \A i \in Infos : \A n \in 0 .. 6 : Pursues(i, n, n + 1)
<1> SUFFICES ASSUME NEW i \in Infos, NEW n \in 0 .. 6, TypeOK, Pursued(i, n + 1)
             PROVE  /\ [Next]_vars => Pursued(i, n + 1)' \/ Taken(i)'
                    /\ <<ThreadStep>>_vars => Pursued(i, n)' \/ Taken(i)'
  BY DEF Pursues
<1>1. ToUpdate \in Nat /\ ToUpdate' \in Nat /\ ToUpdate <= 7  BY DEF ToUpdate, Pursued
<1>2. ThreadStep => (Pursued(i, n + 1)' /\ Pursued(i, n)') \/ Taken(i)'
  BY <1>1, ThreadPursues DEF Pursued
<1>3. CASE UserStep \/ Tick \/ UNCHANGED vars
  <2>1. pc' = pc /\ "available" \in flags'  BY <1>3, OthersKeepPlace DEF Pursued
  <2>2. ToUpdate' = ToUpdate  BY <2>1 DEF ToUpdate
  <2>3. rcvdEntityInfo' = i => Pursued(i, n + 1)'  BY <2>1, <2>2 DEF Pursued
  <2> QED  BY <1>2, <2>3 DEF Taken
<1> QED  BY <1>2, <1>3 DEF Next

\* An announcement that is complete while the thread waits is recorded.
THEOREM Takes == FairSpec /\ ThreadCanStep => NoticeTaken
<1> SUFFICES ASSUME NEW i \in Infos
             PROVE  FairSpec /\ ThreadCanStep =>
                      (rcvdEntityInfo = i /\ "available" \in flags /\ pc = "wait" /\ i.id # 0
                        ~> i.id \in DOMAIN entities \/ rcvdEntityInfo # i \/ Over)
  BY DEF NoticeTaken
<1>1. /\ Pursues(i, 0, 1) /\ Pursues(i, 1, 2) /\ Pursues(i, 2, 3) /\ Pursues(i, 3, 4)
      /\ Pursues(i, 4, 5) /\ Pursues(i, 5, 6) /\ Pursues(i, 6, 7)
  BY Pursue
<1>2. rcvdEntityInfo = i /\ "available" \in flags /\ pc = "wait" /\ i.id # 0 => Pursued(i, 7)
  BY DEF Pursued, ToUpdate
<1>3. ~Pursued(i, 0)
  BY DEF Pursued, ToUpdate
<1>4. pc \in Ended => ~Pursued(i, 7)
  BY DEF Pursued, ToUpdate, Ended
<1>5. Taken(i) <=> i.id \in DOMAIN entities \/ rcvdEntityInfo # i \/ Over
  BY DEF Taken
<1> QED  BY <1>1, <1>2, <1>3, <1>4, <1>5, Invariance, PTL DEF Pursues, FairSpec, Spec, ThreadCanStep

-----------------------------------------------------------------------------
TimeLeft == MaxTime - now

\* The clock stops at MaxTime; the thread stops only if it was told to.
ClockInv == TimeLeft \in Nat /\ (pc = "stopped" => doTerminate)

LEMMA Clock == Spec => []ClockInv
<1>1. Init => ClockInv
  BY ConstantsAssumption DEF Init, ClockInv, TimeLeft
<1>2. TypeOK /\ ClockInv /\ [Next]_vars => ClockInv'
  <2> SUFFICES ASSUME TypeOK, ClockInv, [Next]_vars PROVE ClockInv'
    OBVIOUS
  <2>1. TimeLeft' \in Nat
    <3>1. CASE Tick  BY <3>1, ConstantsAssumption DEF Tick, ClockInv, TimeLeft, TypeOK, DataTypes
    <3>2. CASE now' = now  BY <3>2 DEF ClockInv, TimeLeft
    <3> QED  BY <3>1, <3>2, OnlyTick
  <2>2. (pc = "stopped" => doTerminate)'
    <3>1. CASE UserStep \/ Tick \/ UNCHANGED vars
      BY <3>1, OthersKeepPlace DEF ClockInv
    <3>2. CASE ThreadStep
      BY <3>2 DEF ClockInv, others, beyond, Goto, ThreadStep, ResetFlags, WaitReturns, CheckTerminate, ClearEvent,
         Discover, ReadTime, CheckAvailable, updateEntity, CheckDeparting, RemoveDeparting, Timeout
    <3> QED  BY <3>1, <3>2 DEF Next
  <2> QED  BY <2>1, <2>2 DEF ClockInv
<1> QED  BY <1>1, <1>2, Invariance, PTL DEF Spec

\* After the last tick the clock stands still.
LEMMA ClockStops == Spec /\ Descent(TimeLeft) => <>[][Next /\ now' = now]_vars
<1>1. TypeOK /\ ClockInv /\ [Next]_vars => now' = now \/ <<TimeLeft' < TimeLeft>>_TimeLeft
  BY OnlyTick, ConstantsAssumption DEF Tick, TimeLeft, TypeOK, DataTypes
<1>2. TypeOK /\ [Next]_vars => ~<<TimeLeft' > TimeLeft>>_TimeLeft
  BY OnlyTick, ConstantsAssumption DEF Tick, TimeLeft, TypeOK, DataTypes
<1>3. ClockInv => TimeLeft \in Nat
  BY DEF ClockInv
<1> QED  BY <1>1, <1>2, <1>3, Invariance, Clock, PTL DEF Spec, Descent

\* The steps until a pass over the table is over, at most, that began at the present time
ToTimeout ==
    LET once == CASE pc = "timeout" -> 1 [] pc = "remove" -> 2 [] pc = "departing" -> 3
                  [] pc = "update" -> 4 [] pc = "available" -> 5 [] OTHER -> 0
    IN  IF once # 0 /\ ct = now THEN once
        ELSE IF once # 0 THEN once + 13
        ELSE CASE pc = "time" -> 6 [] pc = "discover" -> 7 [] pc = "clear" -> 8
               [] pc = "terminate" -> 9 [] pc = "wait" -> 10 [] pc = "resetDiscover" -> 11
               [] pc = "resetDeparting" -> 12 [] OTHER -> 13

Gone(id) == ~Outlived(id) \/ Over

Lingers(id, n) == ToTimeout <= n /\ ~Gone(id)

\* While the clock stands still each step of the thread is one fewer, and what is recorded on
\* the way has not outlived its time.
LEMMA ThreadForgets ==
    ASSUME TypeOK, PassInv, ClockInv, NEW id \in Ids, ~Gone(id), ThreadStep
    PROVE  Gone(id)' \/ ToTimeout' < ToTimeout
<1> USE DEF Goto, ToTimeout, Gone, Over, Outlived, others, beyond, given
<1>1. CASE ResetFlags  BY <1>1 DEF ResetFlags
<1>2. CASE WaitReturns  BY <1>2 DEF WaitReturns
<1>3. CASE CheckTerminate  BY <1>3 DEF CheckTerminate
<1>4. CASE ClearEvent  BY <1>4 DEF ClearEvent
<1>5. CASE Discover  BY <1>5 DEF Discover
<1>6. CASE ReadTime  BY <1>6 DEF ReadTime
<1>7. CASE CheckAvailable  BY <1>7 DEF CheckAvailable
<1>8. CASE updateEntity  BY <1>8 DEF updateEntity
<1>9. CASE CheckDeparting  BY <1>9 DEF CheckDeparting
<1>10. CASE RemoveDeparting  BY <1>10 DEF RemoveDeparting
<1>11. CASE Timeout
  BY <1>11 DEF Timeout, Expired, TypeOK, DataTypes
<1> QED
  BY <1>1, <1>2, <1>3, <1>4, <1>5, <1>6, <1>7, <1>8, <1>9, <1>10, <1>11 DEF ThreadStep

Forgets(id, m, n) ==
    /\ TypeOK /\ PassInv /\ ClockInv /\ Lingers(id, n) /\ [Next /\ now' = now]_vars =>
         Lingers(id, n)' \/ Gone(id)'
    /\ TypeOK /\ PassInv /\ ClockInv /\ Lingers(id, n) /\ <<ThreadStep>>_vars =>
         Lingers(id, m)' \/ Gone(id)'

LEMMA Forget == \A id \in Ids : \A n \in Nat : Forgets(id, n, n + 1)
<1> SUFFICES ASSUME NEW id \in Ids, NEW n \in Nat,
                    TypeOK, PassInv, ClockInv, Lingers(id, n + 1)
             PROVE  /\ [Next /\ now' = now]_vars => Lingers(id, n + 1)' \/ Gone(id)'
                    /\ <<ThreadStep>>_vars => Lingers(id, n)' \/ Gone(id)'
  BY DEF Forgets
<1>1. ToTimeout \in Nat /\ ToTimeout' \in Nat  BY DEF ToTimeout
<1>2. ThreadStep => (Lingers(id, n + 1)' /\ Lingers(id, n)') \/ Gone(id)'
  BY <1>1, ThreadForgets DEF Lingers
<1>3. ASSUME UserStep \/ Tick \/ UNCHANGED vars, now' = now
      PROVE  Lingers(id, n + 1)' \/ Gone(id)'
  <2>1. pc' = pc /\ ct' = ct  BY <1>3, OthersKeepPlace
  <2>2. ToTimeout' = ToTimeout  BY <1>3, <2>1 DEF ToTimeout
  <2> QED  BY <2>2 DEF Lingers
<1>4. UNCHANGED vars => now' = now
  BY DEF vars
<1> QED  BY <1>2, <1>3, <1>4 DEF Next

\* An entity whose time is up is forgotten.
THEOREM ForgetsOutlived == FairSpec /\ ThreadCanStep /\ Descent(TimeLeft) => Forgotten
<1> SUFFICES ASSUME NEW id \in Ids
             PROVE  FairSpec /\ ThreadCanStep /\ Descent(TimeLeft) =>
                      (Outlived(id) ~> ~Outlived(id) \/ Over)
  BY DEF Forgotten
<1>1. /\ Forgets(id, 0, 1) /\ Forgets(id, 1, 2) /\ Forgets(id, 2, 3) /\ Forgets(id, 3, 4)
      /\ Forgets(id, 4, 5) /\ Forgets(id, 5, 6) /\ Forgets(id, 6, 7) /\ Forgets(id, 7, 8)
      /\ Forgets(id, 8, 9) /\ Forgets(id, 9, 10) /\ Forgets(id, 10, 11) /\ Forgets(id, 11, 12)
      /\ Forgets(id, 12, 13) /\ Forgets(id, 13, 14) /\ Forgets(id, 14, 15) /\ Forgets(id, 15, 16)
      /\ Forgets(id, 16, 17) /\ Forgets(id, 17, 18)
  BY Forget
<1>2. Lingers(id, 18) \/ Gone(id)
  BY DEF Lingers, ToTimeout
<1>3. ~Lingers(id, 0)
  BY DEF Lingers, ToTimeout
<1>4. ClockInv /\ pc \in Ended => Gone(id)
  BY DEF ClockInv, Gone, Over, Ended
<1>5. Gone(id) <=> ~Outlived(id) \/ Over
  BY DEF Gone
<1> QED
  BY <1>1, <1>2, <1>3, <1>4, <1>5, Invariance, Clock, ClockStops, PTL DEF Forgets, FairSpec, Spec, ThreadCanStep
=============================================================================
