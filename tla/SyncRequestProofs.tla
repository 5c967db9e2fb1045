------------------------- MODULE SyncRequestProofs --------------------------
(***************************************************************************)
(* TLAPS proofs about SyncRequest, for every set of threads and            *)
(* identifiers and every capacity of chan_out.                             *)
(***************************************************************************)
EXTENDS SyncRequest, TLAPS

\* Every action, so that a step splits the same way in each proof.
LEMMA StepCases ==
    ASSUME [Next]_vars,
           NEW P,
           \A t \in Threads : WriteRequest(t) => P,
           \A t \in Threads : Awake(t) => P,
           \A t \in Threads : ReadArgument(t) => P,
           \A t \in Threads : TimeOut(t) => P,
           \A t \in Threads, i \in CmdIds : ClearEvent(t, i) => P,
           \A s \in Statuses : Answer(s) => P,
           SendFails => P,
           \A a \in wire : LoseAnswer(a) => P,
           \A a \in wire : HandleAnswer(a) => P,
           UNCHANGED vars => P
    PROVE  P
  BY DEF Next, ThreadStep, Send

-----------------------------------------------------------------------------
(* Type correctness.                                                       *)

LEMMA TypeInit == Init => TypeOK
BY CapAssumption DEF Init, TypeOK

LEMMA TypeStep == TypeOK /\ [Next]_vars => TypeOK'
<1> USE CapAssumption
<1> SUFFICES ASSUME TypeOK, [Next]_vars PROVE TypeOK'
  OBVIOUS
<1> USE DEF TypeOK, eventVars, callVars, histVars
<1>1. ASSUME NEW t \in Threads, WriteRequest(t) PROVE TypeOK'
  BY <1>1 DEF WriteRequest, RecordWrite, Requests
<1>2. ASSUME NEW t \in Threads, Awake(t) PROVE TypeOK'
  BY <1>2 DEF Awake
<1>3. ASSUME NEW t \in Threads, ReadArgument(t) PROVE TypeOK'
  BY <1>3 DEF ReadArgument
<1>4. ASSUME NEW t \in Threads, TimeOut(t) PROVE TypeOK'
  BY <1>4 DEF TimeOut
<1>5. ASSUME NEW t \in Threads, NEW i \in CmdIds, ClearEvent(t, i) PROVE TypeOK'
  <2>1. contended' \in [Threads -> BOOLEAN] /\ quiet' \in [Threads -> BOOLEAN]
    BY <1>5, Zenon DEF ClearEvent, RecordClear
  <2>2. heard' = [heard EXCEPT ![t] = {}]
    BY <1>5, Zenon DEF ClearEvent, RecordClear
  <2>3. calls' \in 0..MaxCalls /\ serial' \in [Threads -> 0..MaxCalls]
    BY <1>5 DEF ClearEvent
  <2>4. antiSpur' \in [CmdIds -> BOOLEAN] /\ argument' \in [CmdIds -> Answers \cup {EmptyCommand}]
    BY <1>5 DEF ClearEvent, Clear
  <2>5. pc' \in [Threads -> {"idle", "write", "wait", "read"}] /\ req' \in [Threads -> CmdIds]
    BY <1>5 DEF ClearEvent
  <2>6. UNCHANGED <<chan_out, wire, result>>
    BY <1>5, Zenon DEF ClearEvent
  <2>7. heard' \in [Threads -> SUBSET Answers]
    <3>1. {} \in SUBSET Answers
      OBVIOUS
    <3>2. heard \in [Threads -> SUBSET Answers]
      OBVIOUS
    <3> HIDE DEF TypeOK
    <3> QED
      BY <2>2, <3>1, <3>2
  <2> QED
    BY <2>1, <2>3, <2>4, <2>5, <2>6, <2>7
<1>6. ASSUME NEW s \in Statuses, Answer(s) PROVE TypeOK'
  <2>1. chan_out' \in Seq(Requests) /\ Len(chan_out') <= ChanOutCap
    BY <1>6 DEF Answer
  <2>2. Head(chan_out) \in Requests
    BY <1>6 DEF Answer
  <2>3. wire' \subseteq Answers
    BY <1>6, <2>2 DEF Answer, Answers, Requests
  <2> QED
    BY <1>6, <2>1, <2>3 DEF Answer
<1>7. ASSUME SendFails PROVE TypeOK'
  BY <1>7 DEF SendFails
<1>8. ASSUME NEW a \in wire, LoseAnswer(a) PROVE TypeOK'
  BY <1>8 DEF LoseAnswer
<1>9. ASSUME NEW a \in wire, HandleAnswer(a) PROVE TypeOK'
  BY <1>9 DEF HandleAnswer, Emit, RecordEmit, Answers
<1>10. ASSUME UNCHANGED vars PROVE TypeOK'
  BY <1>10 DEF vars
<1> QED
  BY <1>1, <1>2, <1>3, <1>4, <1>5, <1>6, <1>7, <1>8, <1>9, <1>10, StepCases

\* The variables keep their types and chan_out its capacity.
THEOREM TypeCorrect == Spec => []TypeOK
BY TypeInit, TypeStep, PTL DEF Spec

-----------------------------------------------------------------------------
(* The results of calls.                                                   *)

\* An event is set exactly while it holds a stored command.
SetWithCommand == \A i \in CmdIds : antiSpur[i] <=> argument[i] # EmptyCommand

\* What an open call can find in its event arrived during the call.
ArgumentHeard ==
    \A t \in Threads :
        InCall(t) => argument[req[t]] \in heard[t] \cup {EmptyCommand}

\* A woken caller finds the event still set unless another thread cleared it.
WokenSet ==
    \A t \in Threads : pc[t] = "read" /\ ~contended[t] => antiSpur[req[t]]

ResultInv ==
    /\ TypeOK
    /\ SetWithCommand
    /\ ArgumentHeard
    /\ WokenSet
    /\ ResultIsFresh
    /\ EmptyOnlyIfContended

LEMMA ResultInit == Init => ResultInv
BY TypeInit, NotAnswers DEF Init, ResultInv, SetWithCommand, ArgumentHeard, WokenSet,
    ResultIsFresh, EmptyOnlyIfContended, InCall, Returned

LEMMA ResultStep == ResultInv /\ [Next]_vars => ResultInv'
<1> SUFFICES ASSUME ResultInv, [Next]_vars PROVE ResultInv'
  OBVIOUS
<1> USE NotAnswers DEF SetWithCommand, ArgumentHeard, WokenSet, ResultIsFresh,
        EmptyOnlyIfContended, InCall, Returned
<1> TypeOK /\ TypeOK'
  BY TypeStep DEF ResultInv
<1>1. ASSUME NEW t \in Threads, WriteRequest(t) PROVE ResultInv'
  BY <1>1 DEF WriteRequest, RecordWrite, ResultInv, TypeOK, eventVars
<1>2. ASSUME NEW t \in Threads, Awake(t) PROVE ResultInv'
  BY <1>2 DEF Awake, EventIsSet, ResultInv, TypeOK, eventVars, histVars
<1>3. ASSUME NEW t \in Threads, ReadArgument(t) PROVE ResultInv'
  BY <1>3 DEF ReadArgument, ResultInv, TypeOK, eventVars, histVars
<1>4. ASSUME NEW t \in Threads, TimeOut(t) PROVE ResultInv'
  BY <1>4 DEF TimeOut, ResultInv, TypeOK, eventVars, histVars
<1>5. ASSUME NEW t \in Threads, NEW i \in CmdIds, ClearEvent(t, i) PROVE ResultInv'
  <2>1. /\ antiSpur' = [antiSpur EXCEPT ![i] = FALSE]
        /\ argument' = [argument EXCEPT ![i] = EmptyCommand]
        /\ pc[t] = "idle" /\ pc' = [pc EXCEPT ![t] = "write"]
        /\ req' = [req EXCEPT ![t] = i]
        /\ heard' = [heard EXCEPT ![t] = {}]
        /\ result' = result
    BY <1>5, Zenon DEF ClearEvent, Clear, RecordClear
  <2>2. \A u \in Threads : contended'[u] =
            IF u = t THEN FALSE ELSE contended[u] \/ (pc[u] # "idle" /\ req[u] = i)
    BY <1>5, Zenon DEF ClearEvent, RecordClear
  <2>3. SetWithCommand'
    BY <2>1 DEF ResultInv, TypeOK
  <2>4. ArgumentHeard'
    BY <2>1 DEF ResultInv, TypeOK
  <2>5. WokenSet'
    <3>1. SUFFICES ASSUME NEW u \in Threads, pc'[u] = "read", ~contended'[u]
                   PROVE  antiSpur'[req'[u]]
      BY Zenon
    <3>2. u # t /\ pc[u] = "read" /\ req'[u] = req[u] /\ req[u] \in CmdIds
      BY <2>1, <3>1 DEF ResultInv, TypeOK
    <3>3. ~contended[u] /\ req[u] # i
      BY <2>2, <3>1, <3>2
    <3>4. antiSpur[req[u]] /\ antiSpur'[req[u]] = antiSpur[req[u]]
      BY <2>1, <3>2, <3>3 DEF ResultInv, TypeOK
    <3> QED
      BY <3>2, <3>4
  <2>6. ASSUME NEW u \in Threads, pc'[u] = "idle"
        PROVE  /\ result'[u] \in Answers => result'[u] \in heard'[u]
               /\ result'[u] = EmptyCommand => contended'[u]
    <3>1. u # t /\ pc[u] = "idle" /\ heard'[u] = heard[u]
      BY <2>1, <2>6 DEF ResultInv, TypeOK
    <3>2. contended[u] => contended'[u]
      BY <2>2, <3>1
    <3> QED
      BY <2>1, <3>1, <3>2 DEF ResultInv
  <2>7. ResultIsFresh' /\ EmptyOnlyIfContended'
    BY <2>6
  <2> QED
    BY <2>3, <2>4, <2>5, <2>7 DEF ResultInv
<1>6. ASSUME NEW s \in Statuses, Answer(s) PROVE ResultInv'
  BY <1>6 DEF Answer, ResultInv, eventVars, callVars, histVars
<1>7. ASSUME SendFails PROVE ResultInv'
  BY <1>7 DEF SendFails, ResultInv, eventVars, callVars, histVars
<1>8. ASSUME NEW a \in wire, LoseAnswer(a) PROVE ResultInv'
  BY <1>8 DEF LoseAnswer, ResultInv, eventVars, callVars, histVars
<1>9. ASSUME NEW a \in wire, HandleAnswer(a) PROVE ResultInv'
  <2>1. a \in Answers /\ a.id \in CmdIds
    BY DEF ResultInv, TypeOK, Answers
  <2>2. SetWithCommand'
    BY <1>9, <2>1 DEF HandleAnswer, Emit, ResultInv, TypeOK
  <2>3. \A t \in Threads : heard[t] \subseteq heard'[t]
    BY <1>9 DEF HandleAnswer, RecordEmit
  <2>4. ArgumentHeard'
    BY <1>9, <2>1, <2>3 DEF HandleAnswer, Emit, RecordEmit, ResultInv, TypeOK, callVars
  <2>5. WokenSet'
    BY <1>9, <2>1 DEF HandleAnswer, Emit, RecordEmit, ResultInv, TypeOK, callVars
  <2>6. ResultIsFresh' /\ EmptyOnlyIfContended'
    BY <1>9, <2>3 DEF HandleAnswer, RecordEmit, ResultInv, callVars
  <2> QED
    BY <2>2, <2>4, <2>5, <2>6 DEF ResultInv
<1>10. ASSUME UNCHANGED vars PROVE ResultInv'
  BY <1>10 DEF vars, ResultInv, eventVars, callVars, histVars
<1> QED
  BY <1>1, <1>2, <1>3, <1>4, <1>5, <1>6, <1>7, <1>8, <1>9, <1>10, StepCases

\* The answer a call returns was handled after the call began.
THEOREM FreshResults == Spec => []ResultIsFresh
BY ResultInit, ResultStep, PTL DEF Spec, ResultInv

\* A call returns the empty command only if another thread cleared its event.
THEOREM NoUncontendedEmpty == Spec => []EmptyOnlyIfContended
BY ResultInit, ResultStep, PTL DEF Spec, ResultInv

-----------------------------------------------------------------------------
(* The refinement of SyncCall.                                             *)

LEMMA PromiseInit == Init => Promise!Init
BY DEF Init, Promise!Init, InCall

LEMMA PromiseStep == ResultInv /\ [Next]_vars => [Promise!Next]_(Promise!vars)
<1> SUFFICES ASSUME ResultInv, [Next]_vars PROVE [Promise!Next]_(Promise!vars)
  OBVIOUS
<1> DEFINE Open == {t \in Threads : InCall(t)}
           Step == Promise!Next \/ UNCHANGED Promise!vars
<1> TypeOK
  BY DEF ResultInv
<1>1. ASSUME NEW t \in Threads, WriteRequest(t) PROVE Step
  <2>1. Open' = Open /\ UNCHANGED <<req, heard, contended, result>>
    BY <1>1 DEF WriteRequest, RecordWrite, InCall, TypeOK
  <2> QED
    BY <2>1 DEF Promise!vars
<1>2. ASSUME NEW t \in Threads, Awake(t) PROVE Step
  <2>1. Open' = Open /\ UNCHANGED <<req, heard, contended, result>>
    BY <1>2 DEF Awake, InCall, TypeOK, histVars
  <2> QED
    BY <2>1 DEF Promise!vars
<1>3. ASSUME NEW t \in Threads, ReadArgument(t) PROVE Step
  <2>1. t \in Open /\ Open' = Open \ {t}
    BY <1>3 DEF ReadArgument, InCall, TypeOK
  <2>2. argument[req[t]] \in heard[t] \/ (argument[req[t]] = EmptyCommand /\ contended[t])
    BY <1>3 DEF ReadArgument, ResultInv, ArgumentHeard, WokenSet, SetWithCommand, InCall, TypeOK
  <2>3. Promise!Return(t, argument[req[t]])
    BY <1>3, <2>1, <2>2 DEF ReadArgument, Promise!Return, histVars
  <2> QED
    BY <2>2, <2>3 DEF Promise!Next
<1>4. ASSUME NEW t \in Threads, TimeOut(t) PROVE Step
  <2>1. t \in Open /\ Open' = Open \ {t}
    BY <1>4 DEF TimeOut, InCall, TypeOK
  <2>2. Promise!Return(t, Nullopt)
    BY <1>4, <2>1 DEF TimeOut, Promise!Return, histVars
  <2> QED
    BY <2>2 DEF Promise!Next
<1>5. ASSUME NEW t \in Threads, NEW i \in CmdIds, ClearEvent(t, i) PROVE Step
  <2>1. t \notin Open /\ Open' = Open \cup {t}
    BY <1>5 DEF ClearEvent, InCall, TypeOK
  <2>2. Promise!Begin(t, i)
    BY <1>5, <2>1 DEF ClearEvent, RecordClear, Promise!Begin, InCall
  <2> QED
    BY <2>2 DEF Promise!Next
<1>6. ASSUME NEW s \in Statuses, Answer(s) PROVE Step
  BY <1>6 DEF Answer, Promise!vars, callVars, histVars, InCall
<1>7. ASSUME SendFails PROVE Step
  BY <1>7 DEF SendFails, Promise!vars, callVars, histVars, InCall
<1>8. ASSUME NEW a \in wire, LoseAnswer(a) PROVE Step
  BY <1>8 DEF LoseAnswer, Promise!vars, callVars, histVars, InCall
<1>9. ASSUME NEW a \in wire, HandleAnswer(a) PROVE Step
  <2>1. a \in Answers
    BY DEF TypeOK
  <2>2. Open' = Open
    BY <1>9 DEF HandleAnswer, callVars, InCall
  <2>3. Promise!Arrive(a)
    BY <1>9, <2>2 DEF HandleAnswer, RecordEmit, callVars, InCall, Promise!Arrive
  <2> QED
    BY <2>1, <2>3 DEF Promise!Next
<1>10. ASSUME UNCHANGED vars PROVE Step
  BY <1>10 DEF vars, Promise!vars, callVars, histVars, InCall
<1> QED
  BY <1>1, <1>2, <1>3, <1>4, <1>5, <1>6, <1>7, <1>8, <1>9, <1>10, StepCases

\* Every behaviour of the event, the channel and the threads is one that the
\* promise of SyncCall allows.
THEOREM KeepsPromise == Spec => ImplementsSyncCall
BY ResultInit, ResultStep, PromiseInit, PromiseStep, PTL
    DEF Spec, ImplementsSyncCall, Promise!Spec

-----------------------------------------------------------------------------
(* Whose answer a call returns.                                            *)

\* Nothing under way, and nothing stored, for a quiet call's identifier
\* belongs to another call.
OwnRequests ==
    \A t \in Threads : InCall(t) /\ quiet[t] =>
        \A k \in 1..Len(chan_out) :
            chan_out[k].id = req[t] => chan_out[k].n = serial[t]
OwnWire ==
    \A t \in Threads : InCall(t) /\ quiet[t] =>
        \A a \in wire : a.id = req[t] => a.n = serial[t]
OwnArgument ==
    \A t \in Threads : InCall(t) /\ quiet[t] /\ argument[req[t]] \in Answers =>
        argument[req[t]].n = serial[t]
ArgumentId ==
    \A i \in CmdIds : argument[i] \in Answers => argument[i].id = i

OwnInv ==
    /\ TypeOK
    /\ OwnRequests
    /\ OwnWire
    /\ OwnArgument
    /\ ArgumentId
    /\ QuietCallGetsOwnAnswer

LEMMA OwnInit == Init => OwnInv
BY TypeInit, NotAnswers DEF Init, OwnInv, OwnRequests, OwnWire, OwnArgument, ArgumentId,
    QuietCallGetsOwnAnswer, InCall

LEMMA OwnStep == OwnInv /\ [Next]_vars => OwnInv'
<1> SUFFICES ASSUME OwnInv, [Next]_vars PROVE OwnInv'
  OBVIOUS
<1> USE NotAnswers DEF OwnRequests, OwnWire, OwnArgument, ArgumentId,
        QuietCallGetsOwnAnswer, InCall, Returned
<1> TypeOK /\ TypeOK'
  BY TypeStep DEF OwnInv
<1>1. ASSUME NEW t \in Threads, WriteRequest(t) PROVE OwnInv'
  <2>1. /\ chan_out' = Append(chan_out, [id |-> req[t], n |-> serial[t]])
        /\ pc[t] = "write" /\ pc' = [pc EXCEPT ![t] = "wait"]
        /\ UNCHANGED <<argument, wire, req, serial, result>>
    BY <1>1, Zenon DEF WriteRequest, eventVars
  <2>2. \A u \in Threads : quiet'[u] =
            (quiet[u] /\ ~(u # t /\ pc[u] # "idle" /\ req[u] = req[t]))
    BY <1>1, Zenon DEF WriteRequest, RecordWrite
  <2>3. OwnRequests'
    <3>1. SUFFICES ASSUME NEW u \in Threads, pc'[u] # "idle", quiet'[u],
                          NEW k \in 1..Len(chan_out'), chan_out'[k].id = req'[u]
                   PROVE  chan_out'[k].n = serial'[u]
      BY Zenon
    <3>2. pc[u] # "idle" /\ quiet[u] /\ (u = t \/ req[u] # req[t])
      BY <2>1, <2>2, <3>1 DEF TypeOK
    <3>3. CASE k = Len(chan_out) + 1
      BY <2>1, <3>1, <3>2, <3>3 DEF TypeOK
    <3>4. CASE k \in 1..Len(chan_out)
      BY <2>1, <3>1, <3>2, <3>4 DEF TypeOK, OwnInv
    <3> QED
      BY <2>1, <3>3, <3>4 DEF TypeOK
  <2>4. \A u \in Threads : (pc'[u] # "idle" <=> pc[u] # "idle") /\ (quiet'[u] => quiet[u])
    BY <2>1, <2>2 DEF TypeOK
  <2>5. OwnWire' /\ OwnArgument' /\ ArgumentId'
    BY <2>1, <2>4 DEF OwnInv
  <2>6. QuietCallGetsOwnAnswer'
    BY <2>1, <2>4 DEF OwnInv
  <2> QED
    BY <2>3, <2>5, <2>6 DEF OwnInv
<1>2. ASSUME NEW t \in Threads, Awake(t) PROVE OwnInv'
  BY <1>2 DEF Awake, OwnInv, TypeOK, eventVars, histVars
<1>3. ASSUME NEW t \in Threads, ReadArgument(t) PROVE OwnInv'
  <2>1. /\ pc[t] = "read" /\ pc' = [pc EXCEPT ![t] = "idle"]
        /\ result' = [result EXCEPT ![t] = argument[req[t]]]
        /\ UNCHANGED <<argument, chan_out, wire, req, serial, quiet>>
    BY <1>3, Zenon DEF ReadArgument, eventVars, histVars
  <2>2. \A u \in Threads : pc'[u] # "idle" => pc[u] # "idle"
    BY <2>1 DEF TypeOK
  <2>3. OwnRequests' /\ OwnWire' /\ OwnArgument' /\ ArgumentId'
    BY <2>1, <2>2 DEF OwnInv
  <2>4. QuietCallGetsOwnAnswer'
    BY <2>1 DEF OwnInv, TypeOK
  <2> QED
    BY <2>3, <2>4 DEF OwnInv
<1>4. ASSUME NEW t \in Threads, TimeOut(t) PROVE OwnInv'
  <2>1. /\ pc' = [pc EXCEPT ![t] = "idle"]
        /\ result' = [result EXCEPT ![t] = Nullopt]
        /\ UNCHANGED <<argument, chan_out, wire, req, serial, quiet>>
    BY <1>4, Zenon DEF TimeOut, eventVars, histVars
  <2>2. \A u \in Threads : pc'[u] # "idle" => pc[u] # "idle"
    BY <2>1 DEF TypeOK
  <2>3. OwnRequests' /\ OwnWire' /\ OwnArgument' /\ ArgumentId'
    BY <2>1, <2>2 DEF OwnInv
  <2>4. QuietCallGetsOwnAnswer'
    BY <2>1 DEF OwnInv, TypeOK
  <2> QED
    BY <2>3, <2>4 DEF OwnInv
<1>5. ASSUME NEW t \in Threads, NEW i \in CmdIds, ClearEvent(t, i) PROVE OwnInv'
  <2>1. /\ argument' = [argument EXCEPT ![i] = EmptyCommand]
        /\ pc' = [pc EXCEPT ![t] = "write"] /\ pc[t] = "idle"
        /\ req' = [req EXCEPT ![t] = i]
        /\ UNCHANGED <<chan_out, wire, result>>
    BY <1>5, Zenon DEF ClearEvent, Clear
  <2>2. serial' = [serial EXCEPT ![t] = calls + 1]
    BY <1>5, Zenon DEF ClearEvent
  <2>3. quiet'[t] <=> ~UnderWay(i)
    BY <1>5, Zenon DEF ClearEvent, RecordClear, TypeOK
  <2>4. \A u \in Threads : u # t => quiet'[u] = quiet[u]
    BY <1>5, Zenon DEF ClearEvent, RecordClear, TypeOK
  <2>5. OwnRequests' /\ OwnWire'
    BY <2>1, <2>2, <2>3, <2>4 DEF OwnInv, TypeOK, UnderWay
  <2>6. OwnArgument' /\ ArgumentId'
    BY <2>1, <2>2, <2>4 DEF OwnInv, TypeOK
  <2>7. QuietCallGetsOwnAnswer'
    BY <2>1, <2>2, <2>4 DEF OwnInv, TypeOK
  <2> QED
    BY <2>5, <2>6, <2>7 DEF OwnInv
<1>6. ASSUME NEW s \in Statuses, Answer(s) PROVE OwnInv'
  <2>1. /\ chan_out # <<>> /\ chan_out' = Tail(chan_out)
        /\ wire' = wire \cup {[id |-> Head(chan_out).id, n |-> Head(chan_out).n, status |-> s]}
        /\ UNCHANGED <<argument, pc, req, serial, result, quiet>>
    BY <1>6 DEF Answer, eventVars, callVars, histVars
  <2>2. Head(chan_out) = chan_out[1] /\ 1 \in 1..Len(chan_out)
    BY <2>1 DEF TypeOK
  <2>3. \A k \in 1..Len(chan_out') : k + 1 \in 1..Len(chan_out) /\ chan_out'[k] = chan_out[k + 1]
    BY <2>1 DEF TypeOK
  <2>4. OwnRequests'
    BY <2>1, <2>3 DEF OwnInv
  <2>5. OwnWire'
    BY <2>1, <2>2 DEF OwnInv
  <2>6. OwnArgument' /\ ArgumentId' /\ QuietCallGetsOwnAnswer'
    BY <2>1 DEF OwnInv
  <2> QED
    BY <2>4, <2>5, <2>6 DEF OwnInv
<1>7. ASSUME SendFails PROVE OwnInv'
  <2>1. /\ chan_out # <<>> /\ chan_out' = Tail(chan_out)
        /\ UNCHANGED <<argument, wire, pc, req, serial, result, quiet>>
    BY <1>7 DEF SendFails, eventVars, callVars, histVars
  <2>2. \A k \in 1..Len(chan_out') : k + 1 \in 1..Len(chan_out) /\ chan_out'[k] = chan_out[k + 1]
    BY <2>1 DEF TypeOK
  <2>3. OwnRequests'
    BY <2>1, <2>2 DEF OwnInv
  <2> QED
    BY <2>1, <2>3 DEF OwnInv
<1>8. ASSUME NEW a \in wire, LoseAnswer(a) PROVE OwnInv'
  BY <1>8 DEF LoseAnswer, OwnInv, eventVars, callVars, histVars
<1>9. ASSUME NEW a \in wire, HandleAnswer(a) PROVE OwnInv'
  <2>1. /\ a \in Answers /\ a.id \in CmdIds
        /\ argument' = [argument EXCEPT ![a.id] = a]
        /\ wire' = wire \ {a}
        /\ UNCHANGED <<chan_out, pc, req, serial, result, quiet>>
    BY <1>9 DEF HandleAnswer, Emit, RecordEmit, callVars, TypeOK, Answers
  <2>2. OwnArgument' /\ ArgumentId'
    BY <2>1 DEF OwnInv, TypeOK
  <2> QED
    BY <2>1, <2>2 DEF OwnInv
<1>10. ASSUME UNCHANGED vars PROVE OwnInv'
  BY <1>10 DEF vars, OwnInv, eventVars, callVars, histVars
<1> QED
  BY <1>1, <1>2, <1>3, <1>4, <1>5, <1>6, <1>7, <1>8, <1>9, <1>10, StepCases

\* A call that begins with nothing of its identifier under way, and is joined
\* by no other request for it, returns its own answer or none.
THEOREM OwnAnswers == Spec => []QuietCallGetsOwnAnswer
BY OwnInit, OwnStep, PTL DEF Spec, OwnInv
=============================================================================
