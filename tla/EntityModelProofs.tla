-------------------------- MODULE EntityModelProofs --------------------------
(* Theorems about EntityModel, for all values of its constants.            *)
EXTENDS EntityModel, SequenceTheorems, TLAPS

-----------------------------------------------------------------------------
(* Type correctness.                                                       *)

\* The AECPDUs the network may deliver as the n-th carry n and one of the controllers.
LEMMA IncomingCommand ==
    ASSUME NEW n \in 1 .. Len(Shapes), NEW c \in Incoming(n)
    PROVE  c \in Command /\ c.ctl \in Controllers /\ c.seq = n
<1>1. Shapes[n] \in SUBSET Shape
  BY ConstantsAssumption, ElementOfSeq
<1>2. PICK s \in Shapes[n], t \in Targets, e \in Statuses :
        c = [type |-> s.type, message |-> s.message, target |-> t, ctl |-> s.ctl, seq |-> n,
             status |-> e, release |-> s.release, descriptor |-> s.descriptor]
  BY DEF Incoming
<1>3. s \in Shape /\ t \in Nat /\ e \in Nat /\ n \in Nat
  BY <1>1, ConstantsAssumption
<1>4. s.ctl \in Controllers /\ s.ctl \in Nat
  BY <1>3, ConstantsAssumption DEF Shape
<1> QED  BY <1>2, <1>3, <1>4 DEF Command, Shape

LEMMA ReceivedTypes ==
    ASSUME TypeOK
    PROVE  /\ Len(arrived) \in Nat /\ Len(unqueued) \in Nat /\ Len(Shapes) \in Nat
           /\ Received \in Nat /\ Received = Len(arrived) + Len(unqueued)
BY ConstantsAssumption, LenProperties DEF TypeOK, DataTypes, Received

\* What comes in carries the next number; what is put into the queue is an AEM command for
\* this entity.
LEMMA Delivered ==
    ASSUME TypeOK, Received < Len(Shapes), NEW c \in Incoming(Received + 1)
    PROVE  /\ c \in Command /\ c.seq = Received + 1
           /\ PutCommand(c) => c \in OwnCommand
<1>1. Received + 1 \in 1 .. Len(Shapes)
  BY ReceivedTypes
<1> QED  BY <1>1, IncomingCommand DEF OwnCommand, PutCommand

LEMMA TypeInit == Init => TypeOK
<1> SUFFICES ASSUME Init PROVE TypeOK
  OBVIOUS
<1>1. FlagTypes  BY Zenon DEF Init, FlagTypes
<1>2. DataTypes  BY DEF Init, DataTypes
<1> QED  BY <1>1, <1>2 DEF TypeOK

\* Responses to a command of the entity
LEMMA ResponseTypes ==
    ASSUME NEW c \in OwnCommand, NEW s \in Nat, NEW o \in Nat
    PROVE  /\ Respond(c, s) \in OwnResponse
           /\ RespondOwner(c, s, o) \in OwnResponse
           /\ RespondHeader(c, s) \in OwnResponse
<1>1. ASSUME NEW b \in BOOLEAN, NEW w \in Nat
      PROVE  [to |-> c, status |-> s, owner |-> w, typed |-> b] \in OwnResponse
  BY DEF OwnResponse
<1>2. 0 \in Nat  OBVIOUS
<1> QED  BY Zenon, <1>1, <1>2 DEF Respond, RespondOwner, RespondHeader

LEMMA StatusTypes == /\ SUCCESS \in Nat /\ NOT_IMPLEMENTED \in Nat
                     /\ ENTITY_ACQUIRED \in Nat /\ BAD_ARGUMENTS \in Nat
BY DEF SUCCESS, NOT_IMPLEMENTED, ENTITY_ACQUIRED, BAD_ARGUMENTS

LEMMA FlagStep == FlagTypes /\ [Next]_vars => FlagTypes'
<1> SUFFICES ASSUME FlagTypes, [Next]_vars PROVE FlagTypes'
  OBVIOUS
<1> USE DEF FlagTypes, model, callback, program
<1>1. CASE ThreadStep
  BY Zenon, <1>1 DEF ThreadStep, processCommand, Serve, ForgetAtTop, CheckEmpty, WaitReturns, ClearEvent, CheckTerminate, GetCommand,
      SkipUnsolicited, SendUnsolicited, ForgetUnsolicited, NothingToServe,
      acquireEntity, notImplemented, handleRegisterUnsolicitedNotification, handleDeregisterUnsolicitedNotification,
      handleGetAvbInfo, handleGetAudioMap, handleGetCounters, handleReadDescriptor, unknownCommand
<1>2. CASE aecp_aem_cb
  BY Zenon, <1>2 DEF aecp_aem_cb, PutCommand, RaiseKeyError, SignalCommand
<1>3. CASE MainStep
  BY Zenon, <1>3 DEF MainStep, SetUnsolicited, SignalUnsolicited, PerformTerminate,
                     SignalTerminate
<1>4. CASE UNCHANGED vars
  BY Zenon, <1>4 DEF vars
<1> QED  BY <1>1, <1>2, <1>3, <1>4 DEF Next

LEMMA DataStep == TypeOK /\ [Next]_vars => DataTypes'
<1> SUFFICES ASSUME TypeOK, [Next]_vars PROVE DataTypes'
  OBVIOUS
<1> USE DEF TypeOK, DataTypes, model, callback, program
<1>1. CASE ThreadStep
  <2>1. CASE ForgetAtTop  BY <2>1 DEF ForgetAtTop
  <2>2. CASE CheckEmpty  BY <2>2 DEF CheckEmpty
  <2>3. CASE WaitReturns  BY <2>3 DEF WaitReturns
  <2>4. CASE ClearEvent  BY <2>4 DEF ClearEvent
  <2>5. CASE CheckTerminate  BY <2>5 DEF CheckTerminate
  <2>6. CASE GetCommand
    <3>1. queue # << >> => Head(queue) \in OwnCommand /\ Tail(queue) \in Seq(OwnCommand)
      BY HeadTailProperties
    <3> QED  BY <2>6, <3>1 DEF GetCommand
  <2>7. CASE SkipUnsolicited  BY <2>7 DEF SkipUnsolicited
  <2>8. CASE SendUnsolicited  BY <2>8 DEF SendUnsolicited
  <2>9. CASE ForgetUnsolicited  BY <2>9 DEF ForgetUnsolicited
  <2>10. CASE NothingToServe  BY <2>10 DEF NothingToServe
  <2>o. owner \in Nat  BY ConstantsAssumption
  <2>11. ASSUME NEW types, Serve(types)
         PROVE  /\ cmd \in OwnCommand /\ cmd.ctl \in Controllers /\ cmd.ctl \in Nat
                /\ cmd.status \in Nat
    BY <2>11, ConstantsAssumption DEF Serve, OwnCommand, Command
  <2>12. ASSUME NEW types, Serve(types), NEW r \in OwnResponse, txResponse(r),
                owner' \in Controllers \cup {0}, unsolicited_list' \subseteq Controllers
         PROVE  DataTypes'
    BY <2>12 DEF Serve, txResponse
  <2>13. ASSUME NEW types, Serve(types), responses' = responses,
                owner' = owner, unsolicited_list' = unsolicited_list
         PROVE  DataTypes'
    BY <2>13 DEF Serve
  <2>14. CASE acquireEntity
    <3>1. /\ Serve({"ACQUIRE_ENTITY"}) /\ unsolicited_list' = unsolicited_list
          /\ owner' \in {owner, cmd.ctl, 0}
      BY <2>14 DEF acquireEntity
    <3>2. /\ owner' \in Controllers \cup {0}
          /\ owner' \in Nat
      BY <2>o, <2>11, <3>1, ConstantsAssumption
    <3>3. \E s \in {SUCCESS, NOT_IMPLEMENTED, ENTITY_ACQUIRED, BAD_ARGUMENTS} :
            txResponse(RespondOwner(cmd, s, owner')) 
      BY <2>14 DEF acquireEntity
    <3>4. PICK s \in Nat : txResponse(RespondOwner(cmd, s, owner'))
      BY <3>3, StatusTypes
    <3> QED  BY <2>11, <2>12, <3>1, <3>2, <3>4, ResponseTypes
  <2>15. CASE notImplemented
    BY <2>15, <2>11, <2>12, <2>13, StatusTypes, ResponseTypes DEF notImplemented
  <2>16. CASE handleRegisterUnsolicitedNotification
    BY <2>16, <2>11, <2>12, <2>13, StatusTypes, ResponseTypes DEF handleRegisterUnsolicitedNotification
  <2>17. CASE handleDeregisterUnsolicitedNotification
    BY <2>17, <2>11, <2>12, <2>13, StatusTypes, ResponseTypes DEF handleDeregisterUnsolicitedNotification
  <2>18. CASE handleGetAvbInfo
    BY <2>18, <2>11, <2>12, <2>13, StatusTypes, ResponseTypes DEF handleGetAvbInfo
  <2>19. CASE handleGetCounters
    BY <2>19, <2>11, <2>12, <2>13, StatusTypes, ResponseTypes DEF handleGetCounters
  <2>20. CASE handleReadDescriptor
    BY <2>20, <2>11, <2>12, <2>13, StatusTypes, ResponseTypes DEF handleReadDescriptor
  <2>21. CASE unknownCommand
    BY <2>21, <2>11, <2>12, <2>13, StatusTypes, ResponseTypes DEF unknownCommand
  <2>22. CASE handleGetAudioMap
    BY <2>22, <2>11, <2>12, <2>13, StatusTypes, ResponseTypes DEF handleGetAudioMap
  <2> QED  BY <1>1, <2>1, <2>2, <2>3, <2>4, <2>5, <2>6, <2>7, <2>8, <2>9, <2>10, <2>14,
           <2>15, <2>16, <2>17, <2>18, <2>19, <2>20, <2>21, <2>22 DEF ThreadStep, processCommand
<1>2. CASE aecp_aem_cb
  <2>1. CASE SignalCommand  BY <2>1 DEF SignalCommand
  <2>2. ASSUME Received < Len(Shapes), NEW c \in Incoming(Received + 1), PutCommand(c)
        PROVE  DataTypes'
    <3>1. c \in OwnCommand  BY <2>2, Delivered
    <3> QED  BY <2>2, <3>1 DEF PutCommand
  <2>3. ASSUME Received < Len(Shapes), NEW c \in Incoming(Received + 1), RaiseKeyError(c)
        PROVE  DataTypes'
    <3>1. c \in Command  BY <2>3, Delivered
    <3> QED  BY <2>3, <3>1 DEF RaiseKeyError
  <2> QED  BY <1>2, <2>1, <2>2, <2>3 DEF aecp_aem_cb
<1>3. CASE MainStep
  BY <1>3 DEF MainStep, SetUnsolicited, SignalUnsolicited, PerformTerminate, SignalTerminate
<1>4. CASE UNCHANGED vars
  BY <1>4 DEF vars
<1> QED  BY <1>1, <1>2, <1>3, <1>4 DEF Next

\* Every variable keeps its type: only AEM commands for this entity are queued, served and
\* answered, and only controllers on the network own the entity or are registered.
THEOREM TypeCorrect == Spec => []TypeOK
<1>1. TypeOK /\ [Next]_vars => TypeOK'
  BY FlagStep, DataStep DEF TypeOK
<1> QED  BY TypeInit, <1>1, PTL DEF Spec

-----------------------------------------------------------------------------
(* Ownership.  What the responses told is enough to be inductive.          *)

\* What one more response changes about who holds the entity
LEMMA HoldsAppend ==
    ASSUME NEW s \in Seq(OwnResponse), NEW r \in OwnResponse, NEW c
    PROVE  /\ \A n \in 0 .. Len(s) : Holds(Append(s, r), c, n) <=> Holds(s, c, n)
           /\ Holds(Append(s, r), c, Len(s) + 1) <=>
                \/ Granted(r) /\ r.to.ctl = c
                \/ Holds(s, c, Len(s)) /\ ~(Released(r) /\ r.to.ctl = c)
<1> DEFINE t == Append(s, r)
<1>1. /\ Len(s) \in Nat
      /\ \A i \in 1 .. Len(s) : t[i] = s[i]
      /\ t[Len(s) + 1] = r
  BY AppendProperties, LenProperties
<1> HIDE DEF t
<1>2. ASSUME NEW n \in 0 .. Len(s) PROVE Holds(t, c, n) <=> Holds(s, c, n)
  <2>1. \A i \in 1 .. n : t[i] = s[i] /\ i \in Nat
    BY <1>1
  <2>2. \A i \in 1 .. n : \A j \in i + 1 .. n : t[j] = s[j]
    BY <1>1
  <2> QED  BY <2>1, <2>2 DEF Holds
<1>3. ASSUME Holds(t, c, Len(s) + 1), ~(Granted(r) /\ r.to.ctl = c)
      PROVE  Holds(s, c, Len(s)) /\ ~(Released(r) /\ r.to.ctl = c)
  <2>1. PICK i \in 1 .. Len(s) + 1 :
          /\ Granted(t[i]) /\ t[i].to.ctl = c
          /\ \A j \in i + 1 .. Len(s) + 1 : ~(Released(t[j]) /\ t[j].to.ctl = c)
    BY <1>3 DEF Holds
  <2>2. i # Len(s) + 1
    BY <1>1, <1>3, <2>1
  <2>3. i \in 1 .. Len(s) /\ Len(s) + 1 \in i + 1 .. Len(s) + 1
    BY <1>1, <2>1, <2>2
  <2>4. ~(Released(r) /\ r.to.ctl = c)
    BY <1>1, <2>1, <2>3
  <2>5. \A j \in i + 1 .. Len(s) : j \in i + 1 .. Len(s) + 1 /\ t[j] = s[j]
    BY <1>1, <2>3
  <2>6. /\ Granted(s[i]) /\ s[i].to.ctl = c
        /\ \A j \in i + 1 .. Len(s) : ~(Released(s[j]) /\ s[j].to.ctl = c)
    BY <1>1, <2>1, <2>3, <2>5
  <2> QED  BY <2>3, <2>4, <2>6 DEF Holds
<1>4. ASSUME Granted(r), r.to.ctl = c PROVE Holds(t, c, Len(s) + 1)
  <2>1. Len(s) + 1 \in 1 .. Len(s) + 1 /\ ~ \E j \in Len(s) + 1 + 1 .. Len(s) + 1 : TRUE
    BY <1>1
  <2> QED  BY <1>1, <1>4, <2>1 DEF Holds
<1>5. ASSUME Holds(s, c, Len(s)), ~(Released(r) /\ r.to.ctl = c)
      PROVE  Holds(t, c, Len(s) + 1)
  <2>1. PICK i \in 1 .. Len(s) :
          /\ Granted(s[i]) /\ s[i].to.ctl = c
          /\ \A j \in i + 1 .. Len(s) : ~(Released(s[j]) /\ s[j].to.ctl = c)
    BY <1>5 DEF Holds
  <2>2. ASSUME NEW j \in i + 1 .. Len(s) + 1 PROVE ~(Released(t[j]) /\ t[j].to.ctl = c)
    <3>1. CASE j = Len(s) + 1  BY <1>1, <1>5, <3>1
    <3>2. CASE j # Len(s) + 1
      <4>1. j \in i + 1 .. Len(s) /\ t[j] = s[j]  BY <1>1, <3>2
      <4> QED  BY <2>1, <4>1
    <3> QED  BY <3>1, <3>2
  <2>3. i \in 1 .. Len(s) + 1 /\ t[i] = s[i]
    BY <1>1
  <2> QED  BY <2>1, <2>2, <2>3 DEF Holds
<1> QED  BY <1>2, <1>3, <1>4, <1>5 DEF t

\* The state that OwnerTold depends on, after one response
LEMMA OwnerAnswer ==
    ASSUME TypeOK, OwnerTold, NEW r \in OwnResponse, responses' = Append(responses, r),
           \/ /\ ~Granted(r) /\ ~Released(r)
              /\ Refused(r) => r.owner = owner /\ owner # 0
              /\ owner' = owner
           \/ /\ Granted(r) /\ ~Released(r) /\ ~Refused(r)
              /\ owner = 0 /\ owner' = r.to.ctl
           \/ /\ Released(r) /\ ~Granted(r) /\ ~Refused(r)
              /\ owner = r.to.ctl /\ owner' = 0
    PROVE  OwnerTold'
<1>1. responses \in Seq(OwnResponse) /\ owner \in Controllers \cup {0} /\ 0 \notin Controllers
  BY ConstantsAssumption DEF TypeOK, DataTypes
<1>2. /\ Len(responses) \in Nat /\ DOMAIN responses = 1 .. Len(responses)
      /\ Len(responses') = Len(responses) + 1
      /\ DOMAIN responses' = 1 .. Len(responses) + 1
      /\ \A i \in 1 .. Len(responses) : responses'[i] = responses[i]
      /\ responses'[Len(responses) + 1] = r
  BY <1>1, AppendProperties, LenProperties
<1>3. ASSUME NEW c
      PROVE  /\ \A n \in 0 .. Len(responses) : Holds(responses', c, n) <=> Holds(responses, c, n)
             /\ Holds(responses', c, Len(responses) + 1) <=>
                  \/ Granted(r) /\ r.to.ctl = c
                  \/ Holds(responses, c, Len(responses)) /\ ~(Released(r) /\ r.to.ctl = c)
  BY <1>1, HoldsAppend
<1>4. r.to.ctl \in Controllers
  BY DEF OwnResponse, OwnCommand
<1>5. \A c \in Controllers : Holds(responses', c, Len(responses')) <=> owner' = c
  <2> TAKE c \in Controllers
  <2>1. Holds(responses, c, Len(responses)) <=> owner = c
    BY DEF OwnerTold
  <2> QED  BY <1>1, <1>2, <1>3, <1>4, <2>1
<1>6. ASSUME NEW i \in DOMAIN responses', Refused(responses'[i])
      PROVE  responses'[i].owner \in Controllers /\ Holds(responses', responses'[i].owner, i)
  <2>1. CASE i = Len(responses) + 1
    <3>1. r.owner = owner /\ owner \in Controllers /\ ~Granted(r) /\ ~Released(r)
      BY <1>1, <1>2, <1>6, <2>1
    <3>2. Holds(responses, owner, Len(responses))
      BY <3>1 DEF OwnerTold
    <3> QED  BY <1>2, <1>3, <2>1, <3>1, <3>2
  <2>2. CASE i # Len(responses) + 1
    <3>1. i \in 1 .. Len(responses) /\ i \in 0 .. Len(responses)
      BY <1>2, <2>2
    <3>2. /\ responses[i].owner \in Controllers
          /\ Holds(responses, responses[i].owner, i)
      BY <1>2, <1>6, <3>1 DEF OwnerTold
    <3> QED  BY <1>2, <1>3, <3>1, <3>2
  <2> QED  BY <2>1, <2>2
<1> QED  BY <1>5, <1>6 DEF OwnerTold

LEMMA OwnerStep == TypeOK /\ OwnerTold /\ [Next]_vars => OwnerTold'
<1> SUFFICES ASSUME TypeOK, OwnerTold, [Next]_vars PROVE OwnerTold'
  OBVIOUS
<1>1. ASSUME UNCHANGED << owner, responses >> PROVE OwnerTold'
  BY <1>1 DEF OwnerTold, Holds
<1>2. /\ owner \in Nat /\ owner \in Controllers \cup {0} /\ 0 \notin Controllers
  BY ConstantsAssumption DEF TypeOK, DataTypes
<1>3. ASSUME NEW types, Serve(types)
      PROVE  /\ cmd \in OwnCommand /\ cmd.type \in types /\ cmd.status \in Nat
             /\ cmd.ctl \in Controllers /\ cmd.ctl \in Nat /\ cmd.release \in BOOLEAN
  BY <1>3, ConstantsAssumption DEF Serve, OwnCommand, Command, TypeOK, DataTypes
\* Handlers other than acquireEntity do not speak of the owner.
<1>4. ASSUME NEW types, Serve(types), "ACQUIRE_ENTITY" \notin types, owner' = owner,
             NEW r \in OwnResponse, r.to = cmd, txResponse(r)
      PROVE  OwnerTold'
  <2>1. ~Granted(r) /\ ~Released(r) /\ ~Refused(r)
    BY <1>3, <1>4 DEF Granted, Released, Refused
  <2> QED  BY <1>4, <2>1, OwnerAnswer DEF txResponse
<1>5. CASE acquireEntity
  <2> DEFINE R(s) == RespondOwner(cmd, s, owner')
  <2>1. Serve({"ACQUIRE_ENTITY"}) /\ cmd.type = "ACQUIRE_ENTITY"
    BY <1>3, <1>5 DEF acquireEntity
  <2>2. owner' \in Nat
    BY <1>2, <1>3, <1>5, <2>1 DEF acquireEntity
  <2>3. /\ R(SUCCESS) \in OwnResponse /\ R(NOT_IMPLEMENTED) \in OwnResponse
        /\ R(BAD_ARGUMENTS) \in OwnResponse /\ R(ENTITY_ACQUIRED) \in OwnResponse
    BY <1>3, <2>1, <2>2, ResponseTypes, StatusTypes
  <2>4. \A s : R(s).to = cmd /\ R(s).status = s /\ R(s).owner = owner'
    BY DEF RespondOwner
  <2> HIDE DEF R
  <2> USE <2>1, <2>3, <2>4 DEF Granted, Released, Refused, SUCCESS, NOT_IMPLEMENTED,
                               BAD_ARGUMENTS, ENTITY_ACQUIRED
  <2>5. ASSUME cmd.descriptor # "ENTITY", txResponse(R(NOT_IMPLEMENTED)), owner' = owner
        PROVE  OwnerTold'
    BY <2>5, OwnerAnswer DEF txResponse
  <2>6. ASSUME cmd.release, owner = cmd.ctl, owner' = 0, txResponse(R(SUCCESS))
        PROVE  OwnerTold'
    BY <2>6, OwnerAnswer DEF txResponse
  <2>7. ASSUME owner' = owner, txResponse(R(BAD_ARGUMENTS)) PROVE OwnerTold'
    BY <2>7, OwnerAnswer DEF txResponse
  <2>8. ASSUME owner # 0, owner' = owner, txResponse(R(ENTITY_ACQUIRED)) PROVE OwnerTold'
    BY <2>8, OwnerAnswer DEF txResponse
  <2>9. ASSUME ~cmd.release, owner = 0, owner' = cmd.ctl, txResponse(R(SUCCESS))
        PROVE  OwnerTold'
    BY <2>9, OwnerAnswer DEF txResponse
  <2> QED  BY <1>5, <2>5, <2>6, <2>7, <2>8, <2>9 DEF acquireEntity, R
<1>6. CASE processCommand
  <2>1. ASSUME NEW types, Serve(types), NEW s \in Nat
        PROVE  /\ Respond(cmd, s) \in OwnResponse /\ Respond(cmd, s).to = cmd
               /\ RespondHeader(cmd, s) \in OwnResponse /\ RespondHeader(cmd, s).to = cmd
    BY <1>3, <2>1, ResponseTypes DEF Respond, RespondHeader
  <2> USE <1>1, <1>3, <1>4, <2>1, StatusTypes
  <2>2. CASE notImplemented  BY <2>2 DEF notImplemented
  <2>3. CASE handleRegisterUnsolicitedNotification  BY <2>3 DEF handleRegisterUnsolicitedNotification
  <2>4. CASE handleDeregisterUnsolicitedNotification  BY <2>4 DEF handleDeregisterUnsolicitedNotification
  <2>5. CASE handleGetAvbInfo  BY <2>5 DEF handleGetAvbInfo
  <2>6. CASE handleGetCounters  BY <2>6 DEF handleGetCounters
  <2>7. CASE handleReadDescriptor  BY <2>7 DEF handleReadDescriptor
  <2>8. CASE unknownCommand  BY <2>8 DEF unknownCommand
  <2>9. CASE handleGetAudioMap  BY <2>9 DEF handleGetAudioMap
  <2> QED  BY <1>6, <2>2, <2>3, <2>4, <2>5, <2>6, <2>7, <2>8, <2>9 DEF processCommand
\* No other step answers.
<1>7. CASE UNCHANGED << owner, responses >>
  BY <1>1, <1>7
<1> QED
  BY <1>5, <1>6, <1>7 DEF Next, ThreadStep, aecp_aem_cb, MainStep, vars, model, ForgetAtTop,
     CheckEmpty, WaitReturns, ClearEvent, CheckTerminate, GetCommand, SkipUnsolicited,
     SendUnsolicited, ForgetUnsolicited, NothingToServe, PutCommand, RaiseKeyError,
     SignalCommand, SetUnsolicited, SignalUnsolicited, PerformTerminate, SignalTerminate

\* Whatever commands come, one controller at most has been told that the entity is its own,
\* and it is the one the entity goes by; every refusal names it.
THEOREM OwnerIsTold == Spec => []OwnerTold
<1>1. Init => OwnerTold
  BY ConstantsAssumption DEF Init, OwnerTold, Holds
<1> QED  BY TypeCorrect, OwnerStep, <1>1, PTL DEF Spec

-----------------------------------------------------------------------------
(* The order of the answers, and refinement.  The queue holds the commands  *)
(* that arrived last, and the one being served arrived just before them.    *)

OrderInv ==
    /\ Len(queue) <= Len(arrived)
    /\ \A i \in 1 .. Len(queue) : queue[i] = arrived[Len(arrived) - Len(queue) + i]
    /\ InService => Len(queue) < Len(arrived) /\ cmd = arrived[Len(arrived) - Len(queue)]
    /\ \A i \in 1 .. Len(arrived) : arrived[i].seq <= Received
    /\ \A i, j \in 1 .. Len(arrived) : i < j => arrived[i].seq < arrived[j].seq
    /\ \A i \in 1 .. Len(responses) :
         /\ responses[i].to.seq <= Received
         /\ \A j \in 1 .. Len(arrived) : Served < j => responses[i].to.seq < arrived[j].seq
    /\ AnsweredInOrder

LEMMA Lengths ==
    ASSUME TypeOK
    PROVE  /\ Len(queue) \in Nat /\ DOMAIN queue = 1 .. Len(queue)
           /\ Len(arrived) \in Nat /\ DOMAIN arrived = 1 .. Len(arrived)
           /\ Len(responses) \in Nat /\ DOMAIN responses = 1 .. Len(responses)
           /\ \A i \in 1 .. Len(responses) : responses[i] \in OwnResponse
           /\ \A i \in 1 .. Len(responses) : responses[i].to.seq \in Nat
           /\ \A i \in 1 .. Len(arrived) : arrived[i].seq \in Nat
<1>1. /\ queue \in Seq(OwnCommand) /\ arrived \in Seq(OwnCommand)
      /\ responses \in Seq(OwnResponse)
  BY DEF TypeOK, DataTypes
<1>2. /\ \A r \in OwnResponse : r.to.seq \in Nat
      /\ \A c \in OwnCommand : c.seq \in Nat
  BY DEF OwnResponse, OwnCommand, Command
<1> QED  BY <1>1, <1>2, LenProperties, ElementOfSeq

\* Steps that neither queue, nor take, nor serve a command
Idle == /\ UNCHANGED << queue, arrived, responses, owner, unsolicited_list, cmd >>
        /\ InService' <=> InService
        /\ \/ Received' = Received
           \/ Received < Len(Shapes) /\ Received' = Received + 1

\* Every step is one of four kinds.
LEMMA StepKinds ==
    ASSUME TypeOK, [Next]_vars
    PROVE  \/ Idle
           \/ Received < Len(Shapes) /\ \E c \in Incoming(Received + 1) : PutCommand(c)
           \/ GetCommand
           \/ acquireEntity \/ processCommand
<1> USE DEF Idle, InService, model, callback, program
<1>0. UNCHANGED << arrived, unqueued >> => Received' = Received
  BY DEF Received
<1>1. CASE ThreadStep
  <2> USE <1>0
  <2>1. CASE ForgetAtTop  BY <2>1 DEF ForgetAtTop
  <2>2. CASE CheckEmpty  BY <2>2 DEF CheckEmpty
  <2>3. CASE WaitReturns  BY <2>3 DEF WaitReturns
  <2>4. CASE ClearEvent  BY <2>4 DEF ClearEvent
  <2>5. CASE CheckTerminate  BY <2>5 DEF CheckTerminate
  <2>6. CASE SkipUnsolicited  BY <2>6 DEF SkipUnsolicited
  <2>7. CASE SendUnsolicited  BY <2>7 DEF SendUnsolicited
  <2>8. CASE ForgetUnsolicited  BY <2>8 DEF ForgetUnsolicited
  <2>9. CASE NothingToServe  BY <2>9 DEF NothingToServe
  <2> QED  BY <1>1, <2>1, <2>2, <2>3, <2>4, <2>5, <2>6, <2>7, <2>8, <2>9 DEF ThreadStep
<1>2. CASE aecp_aem_cb
  <2>1. CASE SignalCommand  BY <1>0, <2>1 DEF SignalCommand
  <2>2. ASSUME Received < Len(Shapes), NEW c \in Incoming(Received + 1), RaiseKeyError(c)
        PROVE  Idle
    <3>1. c \in Command /\ unqueued \in Seq(Command) /\ unqueued' = Append(unqueued, c)
          /\ arrived' = arrived
      BY <2>2, Delivered DEF RaiseKeyError, TypeOK, DataTypes
    <3>2. Len(unqueued') = Len(unqueued) + 1
      BY <3>1, AppendProperties
    <3>3. Received' = Received + 1
      BY <3>1, <3>2, ReceivedTypes DEF Received
    <3> QED  BY <2>2, <3>3 DEF RaiseKeyError
  <2> QED  BY <1>2, <2>1, <2>2 DEF aecp_aem_cb
<1>3. CASE MainStep
  BY <1>0, <1>3 DEF MainStep, SetUnsolicited, SignalUnsolicited, PerformTerminate, SignalTerminate
<1>4. CASE UNCHANGED vars
  BY <1>0, <1>4 DEF vars
<1> QED  BY <1>1, <1>2, <1>3, <1>4 DEF Next

LEMMA IdleServes == ASSUME Idle PROVE Served' = Served
BY DEF Idle, Served

\* A command put into the queue is the next to arrive.
LEMMA PutServes ==
    ASSUME TypeOK, OrderInv, Received < Len(Shapes),
           NEW c \in Incoming(Received + 1), PutCommand(c)
    PROVE  OrderInv' /\ Served' = Served /\ Received' = Received + 1
<1>1. /\ c \in OwnCommand /\ c.seq = Received + 1
      /\ queue \in Seq(OwnCommand) /\ arrived \in Seq(OwnCommand)
  BY Delivered DEF TypeOK, DataTypes
<1>2. /\ queue' = Append(queue, c) /\ arrived' = Append(arrived, c)
      /\ responses' = responses /\ cmd' = cmd /\ (InService' <=> InService)
      /\ unqueued' = unqueued
  BY DEF PutCommand, model, program, InService
<1>3. /\ Len(queue') = Len(queue) + 1 /\ Len(arrived') = Len(arrived) + 1
      /\ \A i \in 1 .. Len(queue) : queue'[i] = queue[i]
      /\ \A i \in 1 .. Len(arrived) : arrived'[i] = arrived[i]
      /\ queue'[Len(queue) + 1] = c /\ arrived'[Len(arrived) + 1] = c
  BY <1>1, <1>2, AppendProperties
<1>4. Len(queue) \in Nat /\ Len(arrived) \in Nat /\ Len(queue) <= Len(arrived)
  BY Lengths DEF OrderInv
<1>5. Len(arrived') - Len(queue') = Len(arrived) - Len(queue)
  BY <1>3, <1>4
<1>6. Served' = Served
  BY <1>2, <1>5 DEF Served
<1>7. ASSUME NEW i \in 1 .. Len(queue')
      PROVE  queue'[i] = arrived'[Len(arrived') - Len(queue') + i]
  <2>1. CASE i = Len(queue) + 1
    BY <1>3, <1>4, <2>1
  <2>2. CASE i # Len(queue) + 1
    <3>1. i \in 1 .. Len(queue) /\ Len(arrived) - Len(queue) + i \in 1 .. Len(arrived)
      BY <1>3, <1>4, <2>2
    <3> QED  BY <1>3, <1>5, <3>1 DEF OrderInv
  <2> QED  BY <2>1, <2>2
<1>8. InService' => Len(queue') < Len(arrived') /\ cmd' = arrived'[Len(arrived') - Len(queue')]
  <2>1. ASSUME InService PROVE Len(arrived) - Len(queue) \in 1 .. Len(arrived)
    BY <1>4, <2>1 DEF OrderInv
  <2> QED  BY <1>2, <1>3, <1>4, <1>5, <2>1 DEF OrderInv
<1>9. Received' = Received + 1 /\ Received \in Nat
  BY <1>2, <1>3, ReceivedTypes DEF Received
<1>10. \A i \in 1 .. Len(arrived') : i \in 1 .. Len(arrived) \/ i = Len(arrived) + 1
  BY <1>3, <1>4
<1>11. /\ \A i \in 1 .. Len(arrived) : arrived[i].seq <= Received /\ arrived[i].seq \in Nat
       /\ \A i \in 1 .. Len(responses) :
            responses[i].to.seq <= Received /\ responses[i].to.seq \in Nat
  BY Lengths DEF OrderInv
<1>12. \A i \in 1 .. Len(arrived') : arrived'[i].seq <= Received'
  BY <1>1, <1>3, <1>9, <1>10, <1>11
<1>13. ASSUME NEW i \in 1 .. Len(arrived'), NEW j \in 1 .. Len(arrived'), i < j
       PROVE  arrived'[i].seq < arrived'[j].seq
  <2>1. i \in 1 .. Len(arrived)
    BY <1>3, <1>4, <1>13
  <2>2. CASE j = Len(arrived) + 1
    BY <1>1, <1>3, <1>9, <1>11, <2>1, <2>2
  <2>3. CASE j \in 1 .. Len(arrived)
    BY <1>3, <1>13, <2>1, <2>3 DEF OrderInv
  <2> QED  BY <1>10, <2>2, <2>3
<1>14. ASSUME NEW i \in 1 .. Len(responses')
       PROVE  /\ responses'[i].to.seq <= Received'
              /\ \A j \in 1 .. Len(arrived') :
                   Served' < j => responses'[i].to.seq < arrived'[j].seq
  <2>1. i \in 1 .. Len(responses) /\ responses'[i] = responses[i]
    BY <1>2
  <2>2. responses[i].to.seq < Received + 1
    BY <1>9, <1>11, <2>1
  <2>3. ASSUME NEW j \in 1 .. Len(arrived), Served < j
        PROVE  responses[i].to.seq < arrived'[j].seq
    BY <1>3, <2>1, <2>3 DEF OrderInv
  <2>4. responses[i].to.seq < arrived'[Len(arrived) + 1].seq
    BY <1>1, <1>3, <2>2
  <2>5. responses[i].to.seq <= Received'
    BY <1>9, <1>11, <2>1
  <2> QED  BY <1>6, <1>10, <2>1, <2>3, <2>4, <2>5
<1>15. AnsweredInOrder'
  BY <1>2 DEF OrderInv, AnsweredInOrder
<1>16. Len(queue') <= Len(arrived')
  BY <1>3, <1>4
<1> QED
  BY <1>6, <1>7, <1>8, <1>9, <1>12, <1>13, <1>14, <1>15, <1>16 DEF OrderInv

\* A command taken from the queue counts as not yet served.
LEMMA GetServes ==
    ASSUME TypeOK, OrderInv, GetCommand
    PROVE  OrderInv' /\ Served' = Served /\ Received' = Received
<1>0. Received' = Received
  BY DEF GetCommand, callback, Received
<1>1. /\ queue \in Seq(OwnCommand) /\ Len(queue) \in Nat /\ Len(arrived) \in Nat
      /\ Len(queue) <= Len(arrived) /\ arrived \in Seq(OwnCommand)
  BY Lengths DEF OrderInv, TypeOK, DataTypes
<1>2. ~InService /\ arrived' = arrived /\ responses' = responses /\ pc' = "unsolicited"
  BY DEF GetCommand, InService, callback, model
<1>3. CASE queue = << >>
  <2>1. queue' = queue /\ ~InService'
    BY <1>2, <1>3 DEF GetCommand, InService
  <2>2. Served' = Served
    BY <1>2, <2>1 DEF Served
  <2> QED  BY <1>0, <1>2, <2>1, <2>2 DEF OrderInv, AnsweredInOrder
<1>4. CASE queue # << >>
  <2>1. queue' = Tail(queue) /\ cmd' = Head(queue)
    BY <1>4 DEF GetCommand
  <2>2. /\ Head(queue) = queue[1] /\ Len(queue) >= 1 /\ Len(queue') = Len(queue) - 1
        /\ \A i \in 1 .. Len(queue) - 1 : queue'[i] = queue[i + 1]
    BY <1>1, <1>4, <2>1
  <2>3. cmd' \in OwnCommand
    BY <1>1, <1>4, <2>1, HeadTailProperties
  <2>4. InService'
    BY <1>2, <2>3, ConstantsAssumption DEF InService, OwnCommand
  <2>5. Served' = Served
    BY <1>1, <1>2, <2>2, <2>4 DEF Served
  <2>6. cmd' = arrived'[Len(arrived') - Len(queue')]
    <3>1. 1 \in 1 .. Len(queue) /\ Len(arrived) - Len(queue) + 1 = Len(arrived') - Len(queue')
      BY <1>1, <1>2, <2>2
    <3> QED  BY <1>2, <2>1, <2>2, <3>1 DEF OrderInv
  <2>7. ASSUME NEW i \in 1 .. Len(queue')
        PROVE  queue'[i] = arrived'[Len(arrived') - Len(queue') + i]
    <3>1. /\ i \in 1 .. Len(queue) - 1 /\ i + 1 \in 1 .. Len(queue)
          /\ Len(arrived) - Len(queue) + (i + 1) = Len(arrived') - Len(queue') + i
      BY <1>1, <1>2, <2>2
    <3> QED  BY <1>2, <2>2, <3>1 DEF OrderInv
  <2>8. Len(queue') < Len(arrived') /\ Len(queue') <= Len(arrived')
    BY <1>1, <1>2, <2>2
  <2> QED  BY <1>0, <1>2, <2>5, <2>6, <2>7, <2>8 DEF OrderInv, AnsweredInOrder
<1> QED  BY <1>3, <1>4

\* A handler serves the command that is next in the order of arrival.
LEMMA ServesNext ==
    ASSUME TypeOK, OrderInv, NEW types, Serve(types)
    PROVE  /\ Served \in Nat /\ Served < Len(arrived) /\ cmd = arrived[Served + 1]
           /\ Served' = Served + 1 /\ Received' = Received
           /\ ~InService' /\ UNCHANGED << queue, arrived >>
<1>0. Received' = Received
  BY DEF Serve, callback, Received
<1>1. InService /\ ~InService' /\ UNCHANGED << queue, arrived >>
  BY DEF Serve, InService, callback
<1>2. /\ Len(queue) \in Nat /\ Len(arrived) \in Nat /\ Len(queue) < Len(arrived)
      /\ cmd = arrived[Len(arrived) - Len(queue)]
  BY <1>1, Lengths DEF OrderInv
<1>3. /\ Served = Len(arrived) - Len(queue) - 1
      /\ Served' = Len(arrived) - Len(queue)
  BY <1>1, <1>2 DEF Served
<1>4. Served \in Nat /\ Served + 1 \in 1 .. Len(arrived) /\ Served + 1 = Len(arrived) - Len(queue)
  BY <1>2, <1>3
<1>5. cmd = arrived[Served + 1]
  BY <1>2, <1>4
<1> QED  BY <1>0, <1>1, <1>2, <1>3, <1>4, <1>5

\* The order after a handler that answers cmd, or does not answer
LEMMA AnswerOrder ==
    ASSUME TypeOK, OrderInv, NEW types, Serve(types),
           \/ responses' = responses
           \/ \E r \in OwnResponse : r.to = cmd /\ responses' = Append(responses, r)
    PROVE  OrderInv'
<1>1. /\ Served \in Nat /\ Served' = Served + 1 /\ Received' = Received
      /\ Served < Len(arrived) /\ cmd = arrived[Served + 1]
      /\ ~InService' /\ UNCHANGED << queue, arrived >>
  BY ServesNext
<1>2. /\ Len(responses) \in Nat /\ DOMAIN responses = 1 .. Len(responses)
      /\ responses \in Seq(OwnResponse) /\ Len(arrived) \in Nat
      /\ Served + 1 \in 1 .. Len(arrived)
  BY <1>1, Lengths DEF TypeOK, DataTypes
<1>3. /\ \A i \in 1 .. Len(responses) :
           /\ responses[i].to.seq <= Received
           /\ responses[i].to.seq < cmd.seq
           /\ \A j \in 1 .. Len(arrived) : Served + 1 < j => responses[i].to.seq < arrived[j].seq
      /\ cmd.seq <= Received
      /\ \A j \in 1 .. Len(arrived) : Served + 1 < j => cmd.seq < arrived[j].seq
  <2>1. \A j \in 1 .. Len(arrived) : Served + 1 < j => Served < j
    BY <1>1, <1>2
  <2>2. Served < Served + 1
    BY <1>1
  <2> QED  BY <1>1, <1>2, <2>1, <2>2 DEF OrderInv
<1>4. CASE responses' = responses
  <2>1. AnsweredInOrder'
    BY <1>4 DEF OrderInv, AnsweredInOrder
  <2> QED  BY <1>1, <1>3, <1>4, <2>1 DEF OrderInv
<1>5. ASSUME NEW r \in OwnResponse, r.to = cmd, responses' = Append(responses, r)
      PROVE  OrderInv'
  <2>1. /\ Len(responses') = Len(responses) + 1
        /\ DOMAIN responses' = 1 .. Len(responses) + 1
        /\ \A i \in 1 .. Len(responses) : responses'[i] = responses[i]
        /\ responses'[Len(responses) + 1] = r
    <3> DEFINE t == Append(responses, r)
    <3>1. responses \in Seq(OwnResponse) /\ r \in OwnResponse
      BY <1>2, <1>5
    <3>2. /\ Len(t) = Len(responses) + 1 /\ DOMAIN t = 1 .. Len(responses) + 1
          /\ \A i \in 1 .. Len(responses) : t[i] = responses[i]
          /\ t[Len(responses) + 1] = r
      BY <3>1, AppendProperties, LenProperties
    <3> QED  BY <1>5, <3>2
  <2>2. \A i \in 1 .. Len(responses) + 1 : i \in 1 .. Len(responses) \/ i = Len(responses) + 1
    BY <1>2
  <2>3. \A i \in 1 .. Len(responses') :
          /\ responses'[i].to.seq <= Received'
          /\ \A j \in 1 .. Len(arrived') : Served' < j => responses'[i].to.seq < arrived'[j].seq
    BY <1>1, <1>3, <1>5, <2>1, <2>2
  <2>4. AnsweredInOrder'
    <3> SUFFICES ASSUME NEW i \in 1 .. Len(responses) + 1, NEW j \in 1 .. Len(responses) + 1, i < j
                 PROVE  responses'[i].to.seq < responses'[j].to.seq
      BY <2>1 DEF AnsweredInOrder
    <3>1. i \in 1 .. Len(responses)
      BY <1>2
    <3>2. CASE j = Len(responses) + 1
      BY <1>3, <1>5, <2>1, <3>1, <3>2
    <3>3. CASE j \in 1 .. Len(responses)
      BY <1>2, <2>1, <3>1, <3>3 DEF OrderInv, AnsweredInOrder
    <3> QED  BY <2>2, <3>2, <3>3
  <2> QED  BY <1>1, <2>3, <2>4 DEF OrderInv
<1> QED  BY <1>4, <1>5

\* What a handler may answer
LEMMA HandlersAnswer ==
    ASSUME TypeOK, acquireEntity \/ processCommand
    PROVE  \E types : /\ Serve(types)
                      /\ \/ responses' = responses
                         \/ \E r \in OwnResponse : r.to = cmd /\ responses' = Append(responses, r)
<1>1. ASSUME NEW types, Serve(types)
      PROVE  cmd \in OwnCommand /\ cmd.status \in Nat /\ cmd.ctl \in Nat
  BY <1>1, ConstantsAssumption DEF Serve, OwnCommand, Command, TypeOK, DataTypes
<1>2. ASSUME NEW types, Serve(types), NEW s \in Nat
      PROVE  /\ Respond(cmd, s) \in OwnResponse /\ Respond(cmd, s).to = cmd
             /\ RespondHeader(cmd, s) \in OwnResponse /\ RespondHeader(cmd, s).to = cmd
  BY <1>1, <1>2, ResponseTypes DEF Respond, RespondHeader
<1>3. ASSUME NEW types, Serve(types), NEW s \in Nat, NEW o \in Nat
      PROVE  RespondOwner(cmd, s, o) \in OwnResponse /\ RespondOwner(cmd, s, o).to = cmd
  BY <1>1, <1>3, ResponseTypes DEF RespondOwner
<1>4. CASE acquireEntity
  <2>1. /\ Serve({"ACQUIRE_ENTITY"}) /\ owner' \in {owner, cmd.ctl, 0}
        /\ \E s \in {SUCCESS, NOT_IMPLEMENTED, ENTITY_ACQUIRED, BAD_ARGUMENTS} :
             txResponse(RespondOwner(cmd, s, owner'))
    BY <1>4 DEF acquireEntity
  <2>2. owner' \in Nat
    BY <1>1, <2>1, ConstantsAssumption DEF TypeOK, DataTypes
  <2> QED  BY <1>3, <2>1, <2>2, StatusTypes DEF txResponse
<1>5. CASE processCommand
  <2> USE <1>1, <1>2, StatusTypes DEF txResponse
  <2>2. CASE notImplemented  BY <2>2 DEF notImplemented
  <2>3. CASE handleRegisterUnsolicitedNotification  BY <2>3 DEF handleRegisterUnsolicitedNotification
  <2>4. CASE handleDeregisterUnsolicitedNotification  BY <2>4 DEF handleDeregisterUnsolicitedNotification
  <2>5. CASE handleGetAvbInfo  BY <2>5 DEF handleGetAvbInfo
  <2>6. CASE handleGetCounters  BY <2>6 DEF handleGetCounters
  <2>7. CASE handleReadDescriptor  BY <2>7 DEF handleReadDescriptor
  <2>8. CASE unknownCommand  BY <2>8 DEF unknownCommand
  <2>9. CASE handleGetAudioMap  BY <2>9 DEF handleGetAudioMap
  <2> QED  BY <1>5, <2>2, <2>3, <2>4, <2>5, <2>6, <2>7, <2>8, <2>9 DEF processCommand
<1> QED  BY <1>4, <1>5

LEMMA OrderStep == TypeOK /\ OrderInv /\ [Next]_vars => OrderInv'
<1> SUFFICES ASSUME TypeOK, OrderInv, [Next]_vars PROVE OrderInv'
  OBVIOUS
<1>1. CASE Idle
  <2>1. UNCHANGED << queue, arrived, responses, cmd >> /\ (InService' <=> InService)
        /\ Served' = Served
    BY <1>1, IdleServes DEF Idle
  <2>2. Received \in Nat /\ Received <= Received'
    BY <1>1, ReceivedTypes DEF Idle
  <2>3. /\ \A i \in 1 .. Len(arrived) : arrived[i].seq <= Received'
        /\ \A i \in 1 .. Len(responses) : responses[i].to.seq <= Received'
    <3>1. \A k \in Nat : k <= Received => k <= Received'
      BY <1>1, <2>2 DEF Idle
    <3> QED  BY <3>1, Lengths DEF OrderInv
  <2> QED  BY <2>1, <2>3 DEF OrderInv, AnsweredInOrder
<1>2. CASE acquireEntity \/ processCommand
  BY <1>2, HandlersAnswer, AnswerOrder
<1> QED  BY <1>1, <1>2, StepKinds, PutServes, GetServes

LEMMA OrderInit == Init => OrderInv
BY DEF Init, OrderInv, InService, Served, Received, AnsweredInOrder

\* Commands are answered in the order they came in, none of them twice, for any number of
\* commands and in every interleaving with the callback and the main thread.
THEOREM AnswersInOrder == Spec => []AnsweredInOrder
<1>1. OrderInv => AnsweredInOrder
  BY DEF OrderInv
<1> QED  BY TypeCorrect, OrderInit, OrderStep, <1>1, PTL DEF Spec

-----------------------------------------------------------------------------
(* EntityModel implements AEMService.                                      *)

ServiceVars == << arrived, Served, owner, unsolicited_list, responses >>

LEMMA ReceiveStep ==
    ASSUME TypeOK, OrderInv, Received < Len(Shapes),
           NEW c \in Incoming(Received + 1), PutCommand(c)
    PROVE  Promise!Next
<1>1. arrived \in Seq(OwnCommand) /\ c \in OwnCommand /\ Accepted(c)
  BY Delivered DEF PutCommand, TypeOK, DataTypes
<1>2. /\ arrived' = Append(arrived, c)
      /\ UNCHANGED << owner, unsolicited_list, responses >> /\ Served' = Served
  BY PutServes DEF PutCommand, model
<1>3. /\ Len(arrived') = Len(arrived) + 1 /\ arrived'[Len(arrived) + 1] = c
      /\ arrived = SubSeq(arrived', 1, Len(arrived))
  BY <1>1, <1>2, AppendProperties
<1>4. Promise!Accepted(arrived'[Len(arrived')])
  BY <1>1, <1>3 DEF Accepted, Promise!Accepted
<1> QED  BY <1>2, <1>3, <1>4 DEF Promise!Next, Promise!Receive

\* A handler is a step of the service for the command that is next.
LEMMA ServeStep ==
    ASSUME TypeOK, OrderInv, NEW types, Serve(types),
           LET c == arrived[Served + 1]
           IN  \/ c.type = "ACQUIRE_ENTITY" /\ Promise!Ownership(c) /\ UNCHANGED unsolicited_list
               \/ Promise!Subscription(c) /\ UNCHANGED owner
               \/ ~Promise!Unanswerable(c) /\ Promise!Enquiry(c)
                  /\ UNCHANGED << owner, unsolicited_list >>
               \/ Promise!Unimplemented(c) /\ UNCHANGED << owner, unsolicited_list >>
               \/ Promise!Declined(c) /\ UNCHANGED << owner, unsolicited_list >>
    PROVE  Promise!Next
<1>1. Served < Len(arrived) /\ Served' = Served + 1 /\ arrived' = arrived
  BY ServesNext
<1> QED  BY <1>1 DEF Promise!Next, Promise!Serve

LEMMA ServiceStep == TypeOK /\ OrderInv /\ [Next]_vars => [Promise!Next]_ServiceVars
<1> SUFFICES ASSUME TypeOK, OrderInv, [Next]_vars PROVE Promise!Next \/ UNCHANGED ServiceVars
  BY DEF ServiceVars
<1>1. CASE Idle
  BY <1>1, IdleServes DEF Idle, ServiceVars
<1>2. CASE GetCommand
  BY <1>2, GetServes DEF GetCommand, ServiceVars, model, callback
<1>3. ASSUME NEW types, Serve(types) PROVE cmd = arrived[Served + 1] /\ cmd.type \in types
  BY <1>3, ServesNext DEF Serve
<1> USE DEF Promise!Answer, txResponse, Respond, RespondOwner, RespondHeader, Promise!Respond,
            Promise!RespondOwner, Promise!RespondHeader, SUCCESS, NOT_IMPLEMENTED,
            BAD_ARGUMENTS, ENTITY_ACQUIRED, Promise!SUCCESS, Promise!NOT_IMPLEMENTED,
            Promise!BAD_ARGUMENTS, Promise!ENTITY_ACQUIRED
<1>4. CASE acquireEntity
  <2>1. Serve({"ACQUIRE_ENTITY"})  BY <1>4 DEF acquireEntity
  <2>2. Promise!Ownership(cmd)  BY <1>4 DEF acquireEntity, Promise!Ownership
  <2> QED  BY <1>3, <1>4, <2>1, <2>2, ServeStep DEF acquireEntity
<1>5. CASE processCommand
  <2>1. ASSUME NEW types, Serve(types), UNCHANGED << owner, unsolicited_list >>,
               IF Promise!Unanswerable(cmd) THEN UNCHANGED responses ELSE Promise!Enquiry(cmd)
        PROVE  Promise!Next
    <3>1. Promise!Unanswerable(cmd) => Promise!Declined(cmd)
      BY <2>1 DEF Promise!Declined
    <3> QED  BY <1>3, <2>1, <3>1, ServeStep
  <2>2. CASE notImplemented
    <3>1. Promise!Enquiry(cmd) /\ ~Promise!Unanswerable(cmd)
      BY <1>3, <2>2 DEF notImplemented, Promise!Enquiry, Promise!Unanswerable
    <3> QED  BY <2>1, <2>2, <3>1 DEF notImplemented
  <2>3. CASE handleRegisterUnsolicitedNotification
    <3>1. Promise!Subscription(cmd)
      BY <1>3, <2>3 DEF handleRegisterUnsolicitedNotification, Promise!Subscription
    <3> QED  BY <1>3, <2>3, <3>1, ServeStep DEF handleRegisterUnsolicitedNotification
  <2>4. CASE handleDeregisterUnsolicitedNotification
    <3>1. Promise!Subscription(cmd)
      <4>1. cmd.type = "DEREGISTER_UNSOLICITED_NOTIFICATION"
        BY <1>3, <2>4 DEF handleDeregisterUnsolicitedNotification
      <4>2. CASE cmd.ctl \in unsolicited_list
        BY <2>4, <4>1, <4>2
           DEF handleDeregisterUnsolicitedNotification, Promise!Subscription
      <4>3. CASE cmd.ctl \notin unsolicited_list
        <5>1. unsolicited_list \ {cmd.ctl} = unsolicited_list  BY <4>3
        <5> QED  BY <2>4, <4>1, <4>3, <5>1
                 DEF handleDeregisterUnsolicitedNotification, Promise!Subscription
      <4> QED  BY <4>2, <4>3
    <3> QED  BY <1>3, <2>4, <3>1, ServeStep DEF handleDeregisterUnsolicitedNotification
  <2>5. CASE handleGetAvbInfo
    <3>1. /\ cmd.type = "GET_AVB_INFO"
          /\ Promise!Unanswerable(cmd) <=> ~Logged(cmd)
      BY <1>3, <2>5 DEF handleGetAvbInfo, Promise!Unanswerable, Logged
    <3>2. IF Logged(cmd) THEN Promise!Enquiry(cmd) ELSE UNCHANGED responses
      BY <2>5, <3>1 DEF handleGetAvbInfo, Promise!Enquiry
    <3> QED  BY <2>1, <2>5, <3>1, <3>2 DEF handleGetAvbInfo
  <2>6. CASE handleGetCounters
    <3>1. /\ cmd.type = "GET_COUNTERS"
          /\ Promise!Unanswerable(cmd) <=> cmd.descriptor \notin Counted
      BY <1>3, <2>6 DEF handleGetCounters, Promise!Unanswerable, Counted, Promise!Counted
    <3>2. IF cmd.descriptor \in Counted THEN Promise!Enquiry(cmd) ELSE UNCHANGED responses
      BY <2>6, <3>1 DEF handleGetCounters, Promise!Enquiry
    <3> QED  BY <2>1, <2>6, <3>1, <3>2 DEF handleGetCounters
  <2>7. CASE handleReadDescriptor
    <3>1. /\ cmd.type = "READ_DESCRIPTOR"
          /\ Promise!Unanswerable(cmd) <=> cmd.descriptor \notin Registered
      BY <1>3, <2>7
         DEF handleReadDescriptor, Promise!Unanswerable, Registered, Promise!Registered
    <3>2. IF cmd.descriptor \in Registered THEN Promise!Enquiry(cmd) ELSE UNCHANGED responses
      BY <2>7, <3>1 DEF handleReadDescriptor, Promise!Enquiry
    <3> QED  BY <2>1, <2>7, <3>1, <3>2 DEF handleReadDescriptor
  <2>8. CASE unknownCommand
    <3>1. Promise!Unimplemented(cmd)
      BY <1>3, <2>8 DEF unknownCommand, Promise!Unimplemented
    <3> QED  BY <1>3, <2>8, <3>1, ServeStep DEF unknownCommand
  <2>9. CASE handleGetAudioMap
    <3>1. /\ cmd.type = "GET_AUDIO_MAP"
          /\ Promise!Unanswerable(cmd) <=> ~Logged(cmd)
      BY <1>3, <2>9 DEF handleGetAudioMap, Promise!Unanswerable, Logged
    <3>2. IF Logged(cmd) THEN Promise!Enquiry(cmd) ELSE UNCHANGED responses
      BY <2>9, <3>1 DEF handleGetAudioMap, Promise!Enquiry
    <3> QED  BY <2>1, <2>9, <3>1, <3>2 DEF handleGetAudioMap
  <2> QED  BY <1>5, <2>2, <2>3, <2>4, <2>5, <2>6, <2>7, <2>8, <2>9 DEF processCommand
<1> QED  BY <1>1, <1>2, <1>4, <1>5, StepKinds, ReceiveStep

\* The queue, the event and the threads never show: what a controller sees is a service that
\* takes the commands one by one in the order they came in.
THEOREM Implements == Spec => ImplementsService
<1>1. Init => Promise!Init
  BY DEF Init, Promise!Init, Served, InService
<1>2. TypeOK /\ OrderInv /\ [Next]_vars => [Promise!Next]_(Promise!vars)
  BY ServiceStep DEF ServiceVars, Promise!vars
<1> QED  BY TypeCorrect, OrderInit, OrderStep, <1>1, <1>2, PTL
         DEF Spec, ImplementsService, Promise!Spec

-----------------------------------------------------------------------------
(* Liveness.  The provers know neither ENABLED, which WF is defined with,   *)
(* nor induction on temporal formulas.  What a theorem needs of them it     *)
(* takes as a hypothesis that is always true: ThreadCanStep of every        *)
(* behaviour of the specification, Descent(f) of every behaviour at all.    *)

\* The thread can take a step until it has stopped, so this is what its WF says.
ThreadCanStep ==
    WF_vars(ThreadStep) => []<>(pc = "stopped") \/ []<><<ThreadStep>>_vars

\* What falls again and again, and is always a natural number, rises again and again.
Descent(f) == [](f \in Nat) /\ []<><<f' < f>>_f => []<><<f' > f>>_f

\* Where each step of the thread leads
ThreadMove ==
    \/ pc = "top" /\ pc' = "empty"
    \/ pc = "empty" /\ pc' \in {"wait", "terminate"}
    \/ pc = "wait" /\ pc' = "clear"
    \/ pc = "clear" /\ pc' = "terminate"
    \/ pc = "terminate" /\ pc' = (IF doTerminate THEN "stopped" ELSE "get")
    \/ pc = "get" /\ pc' = "unsolicited"
    \/ pc = "unsolicited" /\ pc' \in {"forget", "serve"}
    \/ pc = "forget" /\ pc' = "serve"
    \/ pc = "serve" /\ pc' = "top"

\* Every handler serves a command.
LEMMA HandlersServe == acquireEntity \/ processCommand => \E types : Serve(types)
BY DEF acquireEntity, processCommand, notImplemented, handleRegisterUnsolicitedNotification,
       handleDeregisterUnsolicitedNotification, handleGetAvbInfo, handleGetAudioMap, handleGetCounters,
       handleReadDescriptor, unknownCommand

\* Only GetCommand takes out of the queue, only a handler ends a service.
LEMMA ThreadMoves ==
    ASSUME ThreadStep
    PROVE  /\ ThreadMove
           /\ doTerminate' = doTerminate
           /\ pc = "get" => GetCommand
           /\ pc # "get" => queue' = queue /\ cmd' = cmd
           /\ pc = "serve" /\ cmd # NoCmd => acquireEntity \/ processCommand
<1> USE DEF ThreadMove
<1>1. CASE ForgetAtTop  BY Zenon, <1>1 DEF ForgetAtTop
<1>2. CASE CheckEmpty  BY Zenon, <1>2 DEF CheckEmpty
<1>3. CASE WaitReturns  BY Zenon, <1>3 DEF WaitReturns
<1>4. CASE ClearEvent  BY Zenon, <1>4 DEF ClearEvent
<1>5. CASE CheckTerminate  BY Zenon, <1>5 DEF CheckTerminate
<1>6. CASE GetCommand  BY Zenon, <1>6 DEF GetCommand
<1>7. CASE SkipUnsolicited  BY Zenon, <1>7 DEF SkipUnsolicited
<1>8. CASE SendUnsolicited  BY Zenon, <1>8 DEF SendUnsolicited
<1>9. CASE ForgetUnsolicited  BY Zenon, <1>9 DEF ForgetUnsolicited
<1>10. CASE NothingToServe  BY Zenon, <1>10 DEF NothingToServe
<1>11. CASE acquireEntity \/ processCommand
  <2>1. PICK types : Serve(types)  BY <1>11, HandlersServe
  <2> QED  BY Zenon, <1>11, <2>1 DEF Serve
<1> QED  BY <1>1, <1>2, <1>3, <1>4, <1>5, <1>6, <1>7, <1>8, <1>9, <1>10, <1>11 DEF ThreadStep

\* No one else moves it, and doTerminate stays set.
LEMMA OtherMoves ==
    ASSUME aecp_aem_cb \/ MainStep \/ UNCHANGED vars
    PROVE  pc' = pc /\ cmd' = cmd /\ (doTerminate => doTerminate')
<1>1. CASE aecp_aem_cb  BY <1>1 DEF aecp_aem_cb, PutCommand, RaiseKeyError, SignalCommand
<1>2. CASE SetUnsolicited \/ SignalUnsolicited
  BY <1>2 DEF SetUnsolicited, SignalUnsolicited
<1>3. CASE PerformTerminate  BY <1>3 DEF PerformTerminate
<1>4. CASE SignalTerminate  BY Zenon, <1>4 DEF SignalTerminate
<1>5. CASE UNCHANGED vars  BY Zenon, <1>5 DEF vars
<1> QED  BY <1>1, <1>2, <1>3, <1>4, <1>5 DEF MainStep

\* The thread stops only when it is told to, and no more arrives than Shapes has.
EndInv ==
    /\ pc = "stopped" => doTerminate
    /\ Received <= Len(Shapes)

LEMMA EndStep == TypeOK /\ OrderInv /\ EndInv /\ [Next]_vars => EndInv'
<1> SUFFICES ASSUME TypeOK, OrderInv, EndInv, [Next]_vars PROVE EndInv'
  OBVIOUS
<1>1. pc' = "stopped" => doTerminate'
  BY ThreadMoves, OtherMoves DEF Next, EndInv, ThreadMove
<1>2. Received' <= Len(Shapes)
  <2>1. CASE Received' = Received  BY <2>1 DEF EndInv
  <2>2. CASE Received < Len(Shapes) /\ Received' = Received + 1  BY <2>2, ReceivedTypes
  <2>3. acquireEntity \/ processCommand => Received' = Received
    BY HandlersServe, ServesNext
  <2> QED  BY <2>1, <2>2, <2>3, StepKinds, PutServes, GetServes DEF Idle
<1> QED  BY <1>1, <1>2 DEF EndInv

LEMMA EndInvariant == Spec => [](TypeOK /\ OrderInv /\ EndInv)
<1>1. Init => EndInv
  BY ConstantsAssumption, LenProperties DEF Init, EndInv, Received
<1> QED  BY <1>1, EndStep, TypeCorrect, OrderInit, OrderStep, PTL DEF Spec

-----------------------------------------------------------------------------
(* Terminates.                                                              *)

\* The steps to the end, at most, of a thread that is told to end
Distance ==
    CASE pc = "stopped" -> 0 [] pc = "terminate" -> 1 [] pc = "clear" -> 2 [] pc = "wait" -> 3
      [] pc = "empty" -> 4 [] pc = "top" -> 5 [] pc = "serve" -> 6 [] pc = "forget" -> 7
      [] pc = "unsolicited" -> 8 [] OTHER -> 9

Within(n) == doTerminate /\ Distance <= n

\* What the steps of n are worth: they are not taken back, and one of the thread leaves m.
Approaches(m, n) ==
    /\ Within(n) /\ [Next]_vars => Within(n)'
    /\ Within(n) /\ <<ThreadStep>>_vars => Within(m)'

LEMMA Approach == \A n \in Nat : Approaches(n, n + 1)
<1> SUFFICES ASSUME NEW n \in Nat, doTerminate, [Next]_vars
             PROVE  /\ doTerminate' /\ Distance' <= Distance
                    /\ ThreadStep => Distance' < Distance
  <2>1. Distance \in Nat /\ Distance' \in Nat  BY DEF Distance
  <2> QED  BY <2>1 DEF Approaches, Within, Next
<1>1. ASSUME ThreadStep PROVE doTerminate' /\ Distance' < Distance
  <2>1. doTerminate' /\ ThreadMove  BY <1>1, ThreadMoves
  <2> QED  BY <2>1 DEF ThreadMove, Distance
<1>2. ~ThreadStep => doTerminate' /\ pc' = pc
  BY OtherMoves DEF Next
<1>3. Distance \in Nat /\ Distance' \in Nat /\ (pc' = pc => Distance' = Distance)
  BY DEF Distance
<1> QED  BY <1>1, <1>2, <1>3

\* performTerminate gets the thread to end, from wherever it is, however much is queued.
THEOREM Ends == FairSpec /\ ThreadCanStep => Terminates
<1>1. /\ Approaches(0, 1) /\ Approaches(1, 2) /\ Approaches(2, 3) /\ Approaches(3, 4)
      /\ Approaches(4, 5) /\ Approaches(5, 6) /\ Approaches(6, 7) /\ Approaches(7, 8)
      /\ Approaches(8, 9)
  BY Approach
<1>2. doTerminate => Within(9)
  BY DEF Within, Distance
<1>3. Within(0) => pc = "stopped"
  BY DEF Within, Distance
<1> QED  BY <1>1, <1>2, <1>3, PTL DEF Approaches, FairSpec, Spec, ThreadCanStep, Terminates

-----------------------------------------------------------------------------
(* AllServed.                                                               *)

\* A command is queued or in service.
Owing == queue # << >> \/ InService

\* The steps until the next command has been served, at most
ToServe ==
    CASE pc = "serve" -> (IF cmd = NoCmd THEN 10 ELSE 1)
      [] pc = "forget" -> (IF cmd = NoCmd THEN 11 ELSE 2)
      [] pc = "unsolicited" -> (IF cmd = NoCmd THEN 12 ELSE 3)
      [] pc = "get" -> 4 [] pc = "terminate" -> 5 [] pc = "clear" -> 6 [] pc = "wait" -> 7
      [] pc = "empty" -> 8 [] OTHER -> 9

Late(n) == Owing /\ ToServe <= n

\* What may yet be served
Unserved == Len(Shapes) - Served

Eased == <<Unserved' < Unserved>>_Unserved \/ doTerminate'

Serves(m, n) ==
    /\ TypeOK /\ OrderInv /\ EndInv /\ Late(n) /\ [Next]_vars => Late(n)' \/ Eased
    /\ TypeOK /\ OrderInv /\ EndInv /\ Late(n) /\ <<ThreadStep>>_vars => Late(m)' \/ Eased

LEMMA UnservedTypes ==
    ASSUME TypeOK, OrderInv, EndInv
    PROVE  Unserved \in Nat /\ (Served = Len(arrived) <=> ~Owing)
<1>1. /\ Len(Shapes) \in Nat /\ Len(queue) \in Nat /\ Len(arrived) \in Nat
      /\ Len(queue) <= Len(arrived) /\ Len(arrived) <= Len(Shapes)
      /\ InService => Len(queue) < Len(arrived)
  BY Lengths, ReceivedTypes DEF OrderInv, EndInv
<1>2. queue = << >> <=> Len(queue) = 0
  BY EmptySeq DEF TypeOK, DataTypes
<1> QED  BY <1>1, <1>2 DEF Unserved, Served, Owing

\* What is served stays served.
LEMMA UnservedFalls ==
    ASSUME TypeOK, OrderInv, EndInv, [Next]_vars
    PROVE  /\ Unserved' \in Int /\ Unserved' <= Unserved
           /\ ThreadStep /\ pc = "serve" /\ cmd # NoCmd => Unserved' < Unserved
<1>1. Unserved \in Nat /\ Len(Shapes) \in Nat
  BY UnservedTypes, ConstantsAssumption, LenProperties
<1>2. ASSUME acquireEntity \/ processCommand PROVE Unserved' < Unserved
  <2>1. PICK types : Serve(types)  BY <1>2, HandlersServe
  <2>2. Served' = Served + 1 /\ Served \in Nat  BY <2>1, ServesNext
  <2> QED  BY <1>1, <2>2 DEF Unserved
<1>3. Served' = Served => Unserved' = Unserved
  BY DEF Unserved
<1>4. CASE acquireEntity \/ processCommand
  <2>1. Unserved' \in Int
    <3>1. PICK types : Serve(types)  BY <1>4, HandlersServe
    <3>2. Served' = Served + 1 /\ Served \in Nat  BY <3>1, ServesNext
    <3> QED  BY <1>1, <3>2 DEF Unserved
  <2> QED  BY <1>1, <1>2, <1>4, <2>1
<1>5. CASE ~(acquireEntity \/ processCommand)
  <2>1. Served' = Served
    BY <1>5, StepKinds, IdleServes, PutServes, GetServes
  <2> QED  BY <1>1, <1>3, <1>5, <2>1, ThreadMoves
<1> QED  BY <1>4, <1>5

LEMMA LateSteps == \A n \in Nat : Serves(n, n + 1)
<1> SUFFICES ASSUME NEW n \in Nat, TypeOK, OrderInv, EndInv, Owing, [Next]_vars
             PROVE  /\ (Owing' /\ ToServe' <= ToServe) \/ Eased
                    /\ ThreadStep => (Owing' /\ ToServe' < ToServe) \/ Eased
  <2>1. ToServe \in Nat /\ ToServe' \in Nat  BY DEF ToServe
  <2> QED  BY <2>1 DEF Serves, Late, Next
<1>1. ToServe \in Nat /\ ToServe' \in Nat /\ (pc' = pc /\ cmd' = cmd => ToServe' = ToServe)
  BY DEF ToServe
<1>2. ASSUME ~ThreadStep PROVE Owing' /\ ToServe' = ToServe
  <2>1. pc' = pc /\ cmd' = cmd  BY <1>2, OtherMoves DEF Next
  <2>2. InService' <=> InService  BY <2>1 DEF InService
  <2>3. queue # << >> => queue' # << >>
    <3>1. ASSUME NEW c, queue' = Append(queue, c) PROVE queue' # << >>
      <4>1. queue \in Seq(OwnCommand)  BY DEF TypeOK, DataTypes
      <4> QED  BY <3>1, <4>1
    <3> QED
      BY <1>2, <3>1 DEF Next, aecp_aem_cb, PutCommand, RaiseKeyError, SignalCommand, MainStep, SetUnsolicited,
         SignalUnsolicited, PerformTerminate, SignalTerminate, vars
  <2> QED  BY <1>1, <2>1, <2>2, <2>3 DEF Owing
<1>3. ASSUME ThreadStep PROVE (Owing' /\ ToServe' < ToServe) \/ Eased
  <2>1. ThreadMove /\ (doTerminate' <=> doTerminate)  BY <1>3, ThreadMoves
  <2>2. CASE pc = "get"
    <3>1. queue # << >>  BY <2>2 DEF Owing, InService
    <3>2. GetCommand  BY <1>3, <2>2, ThreadMoves
    <3>3. Head(queue) \in OwnCommand  BY <3>1, HeadTailProperties DEF TypeOK, DataTypes
    <3>4. cmd' # NoCmd /\ pc' = "unsolicited"
      BY <3>1, <3>2, <3>3, ConstantsAssumption DEF GetCommand, OwnCommand
    <3> QED  BY <2>2, <3>4 DEF Owing, InService, ToServe
  <2>3. CASE pc = "serve" /\ cmd # NoCmd
    BY <1>3, <2>3, UnservedTypes, UnservedFalls DEF Eased
  <2>4. CASE pc # "get" /\ ~(pc = "serve" /\ cmd # NoCmd)
    <3>1. queue' = queue /\ cmd' = cmd  BY <1>3, <2>4, ThreadMoves
    <3>2. Owing'
      BY <2>1, <2>4, <3>1 DEF ThreadMove, Owing, InService
    <3>3. CASE pc = "terminate" /\ doTerminate  BY <2>1, <3>3 DEF Eased
    <3>4. CASE ~(pc = "terminate" /\ doTerminate)
      BY <2>1, <2>4, <3>1, <3>2, <3>4 DEF ThreadMove, ToServe
    <3> QED  BY <3>3, <3>4
  <2> QED  BY <2>2, <2>3, <2>4
<1> QED  BY <1>1, <1>2, <1>3

\* Every command that aecp_aem_cb queued is served, however late it is taken and whatever else
\* arrives meanwhile, unless the thread is told to end.
THEOREM ServesAll == FairSpec /\ ThreadCanStep /\ Descent(Unserved) => AllServed
<1>1. /\ Serves(0, 1) /\ Serves(1, 2) /\ Serves(2, 3) /\ Serves(3, 4) /\ Serves(4, 5)
      /\ Serves(5, 6) /\ Serves(6, 7) /\ Serves(7, 8) /\ Serves(8, 9) /\ Serves(9, 10)
      /\ Serves(10, 11) /\ Serves(11, 12)
  BY LateSteps
<1>2. (Owing => Late(12)) /\ ~Late(0)
  BY DEF Late, ToServe
<1>3. TypeOK /\ OrderInv /\ EndInv => Unserved \in Nat /\ (Served = Len(arrived) \/ Owing)
  BY UnservedTypes
<1>4. TypeOK /\ OrderInv /\ EndInv /\ [Next]_vars => ~<<Unserved' > Unserved>>_Unserved
  BY UnservedTypes, UnservedFalls
<1>5. EndInv /\ pc = "stopped" => doTerminate
  BY DEF EndInv
<1> QED
  BY <1>1, <1>2, <1>3, <1>4, <1>5, EndInvariant, PTL
     DEF Serves, Eased, FairSpec, Spec, ThreadCanStep, Descent, AllServed

-----------------------------------------------------------------------------
(* NoticeSent.  A response that is set is the last that was asked for.      *)

NoticeInv == unsolicited # NoFrame => unsolicited = asked

LEMMA NoticeStep == NoticeInv /\ [Next]_vars => NoticeInv'
<1> SUFFICES ASSUME NoticeInv, [Next]_vars PROVE NoticeInv'
  OBVIOUS
<1> USE DEF NoticeInv, program
<1>1. CASE ThreadStep
  <2>1. CASE acquireEntity \/ processCommand
    BY <2>1, HandlersServe DEF Serve
  <2>2. asked' = asked /\ unsolicited' \in {unsolicited, NoFrame}
    BY <1>1, <2>1, HandlersServe
       DEF ThreadStep, ForgetAtTop, CheckEmpty, WaitReturns, ClearEvent, CheckTerminate,
           GetCommand, SkipUnsolicited, SendUnsolicited, ForgetUnsolicited, NothingToServe, Serve
  <2> QED  BY <2>2
<1>2. CASE aecp_aem_cb
  BY <1>2 DEF aecp_aem_cb, PutCommand, RaiseKeyError, SignalCommand
<1>3. CASE MainStep
  BY <1>3 DEF MainStep, SetUnsolicited, SignalUnsolicited, PerformTerminate, SignalTerminate
<1>4. CASE UNCHANGED vars
  BY <1>4 DEF vars
<1> QED  BY <1>1, <1>2, <1>3, <1>4 DEF Next

LEMMA NoticeInvariant == Spec => [](TypeOK /\ NoticeInv /\ EndInv)
<1>1. Init => NoticeInv
  BY DEF Init, NoticeInv
<1> QED  BY <1>1, NoticeStep, EndInvariant, PTL DEF Spec

\* The steps until the thread sends what is set while it waits
ToSend ==
    CASE pc = "unsolicited" -> 1 [] pc = "get" -> 2 [] pc = "terminate" -> 3
      [] pc = "clear" -> 4 [] pc = "wait" -> 5 [] OTHER -> 6

Due(k, n) == unsolicited = k /\ ToSend <= n /\ n <= 5

Settled(k) == Sent(k) \/ asked > k \/ doTerminate

Sends(k, m, n) ==
    /\ TypeOK /\ NoticeInv /\ Due(k, n) /\ [Next]_vars => Due(k, n)' \/ Settled(k)'
    /\ TypeOK /\ NoticeInv /\ Due(k, n) /\ <<ThreadStep>>_vars => Due(k, m)' \/ Settled(k)'

LEMMA ThreadSends ==
    ASSUME TypeOK, NEW k \in Nat, unsolicited = k, ToSend <= 5, ThreadStep
    PROVE  \/ Settled(k)'
           \/ unsolicited' = k /\ ToSend' < ToSend
<1>1. NoFrame # k /\ notices \in Seq(Nat)
  BY ConstantsAssumption DEF TypeOK, DataTypes
<1> USE DEF ToSend, Settled, Sent
<1>2. CASE pc = "unsolicited"
  <2>1. SendUnsolicited
    BY <1>1, <1>2, HandlersServe
       DEF ThreadStep, ForgetAtTop, CheckEmpty, WaitReturns, ClearEvent, CheckTerminate,
           GetCommand, SkipUnsolicited, ForgetUnsolicited, NothingToServe, Serve
  <2>2. notices' = Append(notices, k)
    BY <2>1 DEF SendUnsolicited
  <2>3. Len(notices) + 1 \in DOMAIN notices' /\ notices'[Len(notices) + 1] = k
    BY <1>1, <2>2, AppendProperties, LenProperties
  <2>4. Settled(k)'  BY Zenon, <2>3
  <2> QED  BY <2>4
<1>3. CASE pc # "unsolicited"
  <2>1. pc \in {"wait", "clear", "terminate", "get"}
    BY <1>3
  <2>2. WaitReturns \/ ClearEvent \/ CheckTerminate \/ GetCommand
    BY <2>1, HandlersServe
       DEF ThreadStep, ForgetAtTop, CheckEmpty, SkipUnsolicited, SendUnsolicited,
           ForgetUnsolicited, NothingToServe, Serve
  <2>3. CASE pc = "terminate" /\ doTerminate
    BY <1>1, <2>2, <2>3 DEF WaitReturns, ClearEvent, CheckTerminate, GetCommand
  <2>4. CASE ~(pc = "terminate" /\ doTerminate)
    <3>1. /\ unsolicited' = unsolicited
          /\ \/ pc = "wait" /\ pc' = "clear"
             \/ pc = "clear" /\ pc' = "terminate"
             \/ pc = "terminate" /\ pc' = "get"
             \/ pc = "get" /\ pc' = "unsolicited"
      BY <2>2, <2>4 DEF WaitReturns, ClearEvent, CheckTerminate, GetCommand
    <3>2. unsolicited' = k /\ ToSend' < ToSend
      BY <3>1
    <3> QED  BY <3>2
  <2> QED  BY <2>3, <2>4
<1> QED  BY <1>2, <1>3

LEMMA DueSteps == \A k \in Nat : \A n \in 0 .. 4 : Sends(k, n, n + 1)
<1> SUFFICES ASSUME NEW k \in Nat, NEW n \in 0 .. 4, TypeOK, NoticeInv, Due(k, n + 1)
             PROVE  /\ [Next]_vars => Due(k, n + 1)' \/ Settled(k)'
                    /\ <<ThreadStep>>_vars => Due(k, n)' \/ Settled(k)'
  BY DEF Sends
<1>1. ToSend \in Nat /\ ToSend' \in Nat /\ ToSend <= 5 /\ unsolicited = k
  BY DEF ToSend, Due
<1>2. ThreadStep => (Due(k, n + 1)' /\ Due(k, n)') \/ Settled(k)'
  BY <1>1, ThreadSends DEF Due
<1>3. CASE aecp_aem_cb \/ MainStep \/ UNCHANGED vars
  <2>1. pc' = pc  BY <1>3, OtherMoves
  <2>2. ToSend' = ToSend  BY <2>1 DEF ToSend
  <2>3. CASE unsolicited' = unsolicited
    <3>1. Due(k, n + 1)'  BY <1>1, <2>2, <2>3 DEF Due
    <3> QED  BY <1>2, <3>1
  <2>4. CASE SetUnsolicited
    <3>1. unsolicited = asked /\ asked \in Nat /\ asked' = asked + 1
      BY <1>1, <2>4, ConstantsAssumption DEF NoticeInv, SetUnsolicited, TypeOK, DataTypes
    <3> QED  BY <1>1, <3>1 DEF Settled
  <2>5. unsolicited' = unsolicited \/ SetUnsolicited
    BY <1>3 DEF aecp_aem_cb, PutCommand, RaiseKeyError, SignalCommand, MainStep,
       SignalUnsolicited, PerformTerminate, SignalTerminate, vars
  <2> QED  BY <1>2, <2>3, <2>4, <2>5
<1> QED  BY <1>2, <1>3 DEF Next

\* An unsolicited response set while the thread waits is sent, whatever the reset of
\* self.unsolicited and the main thread do meanwhile.
THEOREM SendsNotices == FairSpec /\ ThreadCanStep => NoticeSent
<1> SUFFICES ASSUME NEW n \in 1 .. Notifications
             PROVE  FairSpec /\ ThreadCanStep =>
                      (pc = "wait" /\ unsolicited = n
                        ~> Sent(n) \/ asked > n \/ doTerminate)
  BY DEF NoticeSent
<1>1. /\ Sends(n, 0, 1) /\ Sends(n, 1, 2) /\ Sends(n, 2, 3) /\ Sends(n, 3, 4)
      /\ Sends(n, 4, 5)
  BY DueSteps, ConstantsAssumption
<1>2. pc = "wait" /\ unsolicited = n => Due(n, 5)
  BY DEF Due, ToSend
<1>3. ~Due(n, 0)
  BY DEF Due, ToSend
<1>4. pc = "stopped" => ~Due(n, 5)
  BY DEF Due, ToSend
<1>5. Settled(n) <=> Sent(n) \/ asked > n \/ doTerminate
  BY DEF Settled
<1> QED
  BY <1>1, <1>2, <1>3, <1>4, <1>5, NoticeInvariant, PTL
     DEF Sends, FairSpec, Spec, ThreadCanStep
=============================================================================
