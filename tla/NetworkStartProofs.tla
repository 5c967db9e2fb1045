------------------------- MODULE NetworkStartProofs -------------------------
(***************************************************************************)
(* Proofs about NetworkStart: a start without faults configures the        *)
(* adapter, and neither fails nor dereferences a missing value, whatever   *)
(* the channel lists and however many faults came before it.               *)
(***************************************************************************)
EXTENDS NetworkStart, SequenceTheorems, TLAPS

Ends == {"up", "failed", "crashed", "stopped"}

TypeInv ==
    /\ pc \in Places \cup Ends /\ waiting \in BOOLEAN /\ (waiting => pc \in Places)
    /\ flag \in BOOLEAN
    /\ event \in [Events -> AnswerSet \cup {NoAnswer}]
    /\ requests \in Seq(Places)
    /\ answers \in Seq(AnswerSet)
    /\ nv \in ChannelLists /\ running \in ChannelLists
    /\ started \in BOOLEAN /\ registered \in BOOLEAN
    /\ faults \in 0..MaxFaults
    /\ clean \in BOOLEAN

LEMMA PlacesAre ==
    /\ Places = {"option", "reset", "read", "channels", "direct", "init", "conf",
                 "option2", "reset2", "startup", "info", "register", "permit"}
    /\ \A p \in Places :
        /\ EventOf[p] \in Events
        /\ p # "read" => OnSuccess[p] \in Places \cup Ends /\ OnFailure[p] \in Places \cup Ends
BY DEF Places, Events, EventOf, OnSuccess, OnFailure, Ends

LEMMA StepCases ==
    ASSUME [Next]_vars, NEW P,
           Ask => P, Answered => P, TimeOut => P, Retry => P, StopProgram => P,
           Execute => P, Deliver => P, Refuse => P, LoseRequest => P, LoseAnswer => P,
           TimeOutTooSoon => P, ResetsItself => P, UNCHANGED vars => P
    PROVE  P
BY DEF Next, Program, Faults

\* Removing an element of the sequence of answers.
LEMMA RemoveAnswer ==
    ASSUME NEW S, NEW s \in Seq(S), NEW k \in 1..Len(s)
    PROVE  /\ RemoveAt(s, k) \in Seq(S)
           /\ Len(s) = 1 => RemoveAt(s, k) = <<>>
<1>1. SubSeq(s, 1, k - 1) \in Seq(S) /\ SubSeq(s, k + 1, Len(s)) \in Seq(S)
  <2>1. \A i \in 1..(k - 1) : s[i] \in S
    BY ElementOfSeq
  <2>2. \A i \in (k + 1)..Len(s) : s[i] \in S
    BY ElementOfSeq
  <2> QED
    BY <2>1, <2>2, SubSeqProperties
<1>2. ASSUME Len(s) = 1 PROVE RemoveAt(s, k) = <<>>
  <2>1. k = 1
    BY <1>2
  <2>2. SubSeq(s, 1, 0) = <<>> /\ SubSeq(s, 2, 1) = <<>>
    BY SubSeqEmpty
  <2> QED
    BY <1>2, <2>1, <2>2, ConcatEmptySeq DEF RemoveAt
<1> QED
  BY <1>1, <1>2, ConcatProperties DEF RemoveAt

-----------------------------------------------------------------------------
(* Types.                                                                  *)

LEMMA TypeInit == Init => TypeInv
<1> SUFFICES ASSUME Init PROVE TypeInv
  OBVIOUS
<1>1. pc \in Places \cup Ends /\ waiting \in BOOLEAN /\ (waiting => pc \in Places)
  BY PlacesAre DEF Init
<1>2. event \in [Events -> AnswerSet \cup {NoAnswer}]
  BY DEF Init
<1>3. faults \in 0..MaxFaults
  BY StartAssumption DEF Init
<1>4. requests \in Seq(Places) /\ answers \in Seq(AnswerSet)
  BY DEF Init
<1> QED
  BY <1>1, <1>2, <1>3, <1>4 DEF Init, TypeInv

LEMMA GoOnType ==
    ASSUME TypeInv, waiting, NEW a \in AnswerSet \cup {NoAnswer}, GoOn(a)
    PROVE  pc' \in Places \cup Ends /\ waiting' = FALSE
BY PlacesAre DEF TypeInv, GoOn, Ends

LEMMA FaultType ==
    ASSUME TypeInv, Fault
    PROVE  faults' \in 0..MaxFaults /\ clean' \in BOOLEAN
<1>1. faults \in 0..MaxFaults /\ MaxFaults \in Nat
  BY StartAssumption DEF TypeInv
<1>2. faults' = faults + 1 /\ faults < MaxFaults /\ clean' = FALSE
  BY DEF Fault
<1>3. faults' \in Nat
  BY <1>1, <1>2
<1>4. faults' <= MaxFaults
  BY <1>1, <1>2
<1>5. faults' \in 0..MaxFaults
  BY <1>1, <1>3, <1>4
<1> QED
  BY <1>2, <1>5

LEMMA TypeStep == TypeInv /\ [Next]_vars => TypeInv'
<1> SUFFICES ASSUME TypeInv, [Next]_vars PROVE TypeInv'
  OBVIOUS
<1> USE DEF TypeInv
<1>a. NoAnswer \in AnswerSet \cup {NoAnswer}
  OBVIOUS
<1>1. ASSUME Ask PROVE TypeInv'
  <2>1. requests' \in Seq(Places)
    BY <1>1, AppendProperties DEF Ask
  <2> QED
    BY <1>1, <2>1 DEF Ask, adapter
<1>2. ASSUME Answered PROVE TypeInv'
  <2>1. event[EventOf[pc]] \in AnswerSet \cup {NoAnswer}
    BY <1>2, PlacesAre DEF Answered
  <2>2. pc' \in Places \cup Ends /\ waiting' = FALSE
    BY <1>2, <2>1, GoOnType DEF Answered
  <2> QED
    BY <1>2, <2>2 DEF Answered, adapter
<1>3. ASSUME TimeOut PROVE TypeInv'
  <2>2. pc' \in Places \cup Ends /\ waiting' = FALSE
    BY <1>3, <1>a, GoOnType DEF TimeOut
  <2> QED
    BY <1>3, <2>2 DEF TimeOut, adapter
<1>4. ASSUME Retry PROVE TypeInv'
  BY <1>4, PlacesAre DEF Retry, adapter, Ends
<1>5. ASSUME StopProgram PROVE TypeInv'
  BY <1>5 DEF StopProgram, adapter
<1>6. ASSUME Execute PROVE TypeInv'
  <2>1. Head(requests) \in Places /\ requests' \in Seq(Places)
    BY <1>6, HeadTailProperties DEF Execute
  <2>2. AnswerTo(Head(requests), TRUE) \in AnswerSet
    BY <2>1 DEF AnswerTo, AnswerSet
  <2>3. answers' \in Seq(AnswerSet)
    BY <1>6, <2>2, AppendProperties DEF Execute
  <2>4. /\ nv' \in ChannelLists /\ running' \in ChannelLists
        /\ started' \in BOOLEAN /\ registered' \in BOOLEAN
    BY <1>6, StartAssumption DEF Execute, Effect, ResetAdapter, adapter
  <2> QED
    BY <1>6, <2>1, <2>3, <2>4 DEF Execute, program
<1>7. ASSUME Deliver PROVE TypeInv'
  <2>1. PICK k \in 1..Len(answers) :
           /\ event' = [event EXCEPT ![EventOf[answers[k].to]] = answers[k]]
           /\ answers' = RemoveAt(answers, k)
           /\ UNCHANGED <<pc, waiting, flag, requests, adapter, faults, clean>>
    BY <1>7 DEF Deliver
  <2>2. answers[k] \in AnswerSet
    BY ElementOfSeq
  <2>3. answers' \in Seq(AnswerSet)
    BY <2>1, RemoveAnswer
  <2> QED
    BY <2>1, <2>2, <2>3 DEF adapter
<1>8. ASSUME Refuse PROVE TypeInv'
  <2>1. Head(requests) \in Places /\ requests' \in Seq(Places)
    BY <1>8, HeadTailProperties DEF Refuse
  <2>2. AnswerTo(Head(requests), FALSE) \in AnswerSet
    BY <2>1 DEF AnswerTo, AnswerSet
  <2>3. answers' \in Seq(AnswerSet)
    BY <1>8, <2>2, AppendProperties DEF Refuse
  <2> QED
    BY <1>8, <2>1, <2>3, FaultType DEF Refuse, program, adapter
<1>9. ASSUME LoseRequest PROVE TypeInv'
  <2>1. requests' \in Seq(Places)
    BY <1>9, HeadTailProperties DEF LoseRequest
  <2> QED
    BY <1>9, <2>1, FaultType DEF LoseRequest, program, adapter
<1>10. ASSUME LoseAnswer PROVE TypeInv'
  <2>1. answers' \in Seq(AnswerSet)
    BY <1>10, RemoveAnswer DEF LoseAnswer
  <2> QED
    BY <1>10, <2>1, FaultType DEF LoseAnswer, program, adapter
<1>11. ASSUME TimeOutTooSoon PROVE TypeInv'
  <2>2. pc' \in Places \cup Ends /\ waiting' = FALSE
    BY <1>11, <1>a, GoOnType DEF TimeOutTooSoon
  <2> QED
    BY <1>11, <2>2, FaultType DEF TimeOutTooSoon, adapter
<1>12. ASSUME ResetsItself PROVE TypeInv'
  <2>1. AnswerTo("reset", TRUE) \in AnswerSet
    BY PlacesAre DEF AnswerTo, AnswerSet
  <2>2. answers' \in Seq(AnswerSet)
    BY <1>12, <2>1, AppendProperties DEF ResetsItself
  <2> QED
    BY <1>12, <2>2, FaultType DEF ResetsItself, ResetAdapter, program
<1>13. ASSUME UNCHANGED vars PROVE TypeInv'
  BY <1>13 DEF vars, program, adapter
<1> QED
  BY <1>1, <1>2, <1>3, <1>4, <1>5, <1>6, <1>7, <1>8, <1>9, <1>10, <1>11, <1>12, <1>13,
     StepCases

\* Every variable of the start keeps its type.
THEOREM TypeCorrect == Spec => []TypeInv
BY TypeInit, TypeStep, PTL DEF Spec

-----------------------------------------------------------------------------
(* An attempt that began with nothing under way.                           *)

\* The answers that a request that was executed may have.
Own(a) == a \in AnswerSet /\ a.to = pc /\ a.ok /\ (pc = "read" => a.nv = nv)

\* At most the current request, or its answer, is under way, and until the answer
\* is handled the event is clear: nothing else can be taken for the answer.
OneAtATime ==
    LET ev == event[EventOf[pc]]
    IN \/ ~waiting /\ requests = <<>> /\ answers = <<>>
       \/ waiting /\ requests = <<pc>> /\ answers = <<>> /\ ev = NoAnswer
       \/ waiting /\ requests = <<>> /\ (\E a \in AnswerSet : answers = <<a>> /\ Own(a)) /\ ev = NoAnswer
       \/ waiting /\ requests = <<>> /\ answers = <<>> /\ Own(ev)

\* The program is past request p, or the adapter has executed it.
After(p, later) == pc \in later \/ (pc = p /\ waiting /\ requests = <<>>)

\* What the adapter has kept of the requests behind the program.
Kept ==
    /\ After("channels", {"direct", "init", "conf", "option2", "reset2", "startup",
                          "info", "register", "permit", "up"}) => nv = Channels
    /\ After("reset2", {"startup", "info", "register", "permit", "up"}) => running = Channels
    /\ After("startup", {"info", "register", "permit", "up"}) => started
    /\ After("register", {"permit", "up"}) => registered

CleanInv == TypeInv /\ (clean => pc \notin {"failed", "crashed"} /\ OneAtATime /\ Kept)

LEMMA CleanInit == Init => CleanInv
BY TypeInit DEF Init, CleanInv, OneAtATime, Kept, After

LEMMA CleanStep == CleanInv /\ [Next]_vars => CleanInv'
<1> SUFFICES ASSUME CleanInv, [Next]_vars PROVE CleanInv'
  OBVIOUS
<1> SUFFICES ASSUME clean'
             PROVE  (pc \notin {"failed", "crashed"} /\ OneAtATime /\ Kept)'
  BY TypeStep DEF CleanInv
<1> DEFINE I == pc \notin {"failed", "crashed"} /\ OneAtATime /\ Kept
<1>0. TypeInv /\ (clean => I)
  BY DEF CleanInv
<1>1. ASSUME Ask PROVE I'
  <2>1. clean /\ pc' = pc /\ ~waiting /\ waiting' /\ pc \in Places /\ UNCHANGED <<nv, running, started, registered>>
    BY <1>1 DEF Ask, adapter
  <2>2. requests = <<>> /\ answers = <<>>
    BY <1>0, <2>1 DEF OneAtATime
  <2>3. requests' = <<pc>> /\ answers' = <<>>
    BY <1>1, <2>2 DEF Ask
  <2>4. event'[EventOf[pc]] = NoAnswer
    BY <1>1, PlacesAre DEF Ask, Cleared
  <2>5. OneAtATime'
    BY <2>1, <2>3, <2>4 DEF OneAtATime
  <2>6. requests' # <<>>
    BY <2>3
  <2> QED
    BY <1>0, <2>1, <2>5, <2>6 DEF Kept, After
<1>2. ASSUME Answered PROVE I'
  <2>1. /\ clean /\ waiting /\ ~waiting' /\ pc \in Places
        /\ UNCHANGED <<nv, running, started, registered, requests, answers, event>>
    BY <1>0, <1>2 DEF Answered, GoOn, adapter, TypeInv
  <2>2. requests = <<>> /\ answers = <<>> /\ Own(event[EventOf[pc]])
    BY <1>0, <1>2, <2>1 DEF Answered, OneAtATime, Pending
  <2>3. OneAtATime'
    BY <2>1, <2>2 DEF OneAtATime
  <2>4. IF pc = "read" THEN pc' = IF nv = Channels THEN "direct" ELSE "channels"
                       ELSE pc' = OnSuccess[pc]
    BY <1>2, <2>2 DEF Answered, GoOn, Own, Pending
  <2>5. pc' \notin {"failed", "crashed"} /\ Kept'
    BY <1>0, <2>1, <2>2, <2>4, PlacesAre DEF Kept, After, OnSuccess
  <2> QED
    BY <2>3, <2>5
<1>3. ASSUME TimeOut PROVE I'
  <2>1. clean /\ waiting /\ pc \in Places /\ Pending(EventOf[pc]) /\ ~Coming(EventOf[pc])
    BY <1>0, <1>3 DEF TimeOut, TypeInv
  <2>2. ~Own(event[EventOf[pc]])
    BY <2>1, NoAnswerAssumption DEF Own, Pending
  <2>3. requests = <<pc>> \/ \E a \in AnswerSet : answers = <<a>> /\ Own(a)
    BY <1>0, <2>1, <2>2 DEF OneAtATime
  <2>4. Coming(EventOf[pc])
    <3>1. CASE requests = <<pc>>
      <4>1. 1 \in 1..Len(requests) /\ requests[1] = pc
        BY <3>1
      <4> QED
        BY <4>1 DEF Coming
    <3>2. ASSUME NEW a \in AnswerSet, answers = <<a>>, Own(a) PROVE Coming(EventOf[pc])
      <4>1. 1 \in 1..Len(answers) /\ answers[1].to = pc
        BY <3>2 DEF Own
      <4> QED
        BY <4>1 DEF Coming
    <3> QED
      BY <2>3, <3>1, <3>2
  <2> QED
    BY <2>1, <2>4
<1>4. ASSUME Retry PROVE I'
  <2>1. /\ pc = "failed" /\ pc' \in {"option", "stopped"} /\ requests' = <<>> /\ answers' = <<>>
        /\ waiting' = waiting
    BY <1>4 DEF Retry
  <2>2. ~waiting
    BY <1>0, <2>1, PlacesAre DEF TypeInv
  <2> QED
    BY <2>1, <2>2 DEF OneAtATime, Kept, After
<1>5. ASSUME StopProgram PROVE I'
  BY <1>0, <1>5 DEF StopProgram, adapter, OneAtATime, Kept, After, Own
<1>6. ASSUME Execute PROVE I'
  <2>1. clean /\ requests # <<>> /\ UNCHANGED <<pc, waiting, event>>
    BY <1>6 DEF Execute, program
  <2>2. waiting /\ requests = <<pc>> /\ answers = <<>> /\ event[EventOf[pc]] = NoAnswer
    BY <1>0, <2>1 DEF OneAtATime
  <2>3. Head(requests) = pc /\ Tail(requests) = <<>>
    BY <2>2
  <2>4. PICK a : a = AnswerTo(pc, TRUE)
    OBVIOUS
  <2>a. requests' = <<>> /\ answers' = <<a>> /\ Effect(pc)
    BY <2>4, <1>6, <2>2, <2>3 DEF Execute
  <2>5. pc \in Places
    BY <1>0, <2>2 DEF TypeInv
  <2>6. pc = "read" => nv' = nv
    BY <2>a DEF Effect, Resets, adapter
  <2>7. a \in AnswerSet /\ Own(a)'
    BY <1>0, <2>1, <2>4, <2>5, <2>6 DEF Own, AnswerTo, AnswerSet, TypeInv
  <2>8. OneAtATime'
    BY <2>1, <2>2, <2>a, <2>7 DEF OneAtATime
  <2>9. Kept'
    BY <1>0, <2>1, <2>a, <2>5 DEF Kept, After, Effect, Resets, ResetAdapter, adapter
  <2> QED
    BY <1>0, <2>1, <2>8, <2>9
<1>7. ASSUME Deliver PROVE I'
  <2>1. PICK k \in 1..Len(answers) :
           /\ event' = [event EXCEPT ![EventOf[answers[k].to]] = answers[k]]
           /\ answers' = RemoveAt(answers, k)
           /\ UNCHANGED <<pc, waiting, flag, requests, adapter, faults, clean>>
    BY <1>7 DEF Deliver
  <2>2. answers # <<>> /\ clean
    BY <2>1
  <2>3. PICK a \in AnswerSet : waiting /\ requests = <<>> /\ answers = <<a>> /\ Own(a)
    BY <1>0, <2>2 DEF OneAtATime
  <2>4. Len(answers) = 1 /\ answers[1] = a
    BY <2>3
  <2>5. k = 1 /\ answers[k] = a
    BY <2>4
  <2>6. answers' = <<>>
    BY <1>0, <2>1, <2>4, RemoveAnswer DEF TypeInv
  <2>7. event'[EventOf[pc]] = a
    <3>1. a.to = pc /\ EventOf[pc] \in Events
      BY <1>0, <2>3, PlacesAre DEF Own, TypeInv
    <3> QED
      BY <1>0, <2>1, <2>5, <3>1 DEF TypeInv
  <2>8. UNCHANGED <<pc, waiting, requests, nv, running, started, registered>>
    BY <2>1 DEF adapter
  <2>9. OneAtATime'
    BY <2>3, <2>6, <2>7, <2>8 DEF OneAtATime, Own
  <2> QED
    BY <1>0, <2>2, <2>8, <2>9 DEF Kept, After
<1>8. ASSUME Refuse \/ LoseRequest \/ LoseAnswer \/ TimeOutTooSoon \/ ResetsItself PROVE I'
  BY <1>8 DEF Refuse, LoseRequest, LoseAnswer, TimeOutTooSoon, ResetsItself, Fault
<1>9. ASSUME UNCHANGED vars PROVE I'
  BY <1>0, <1>9 DEF vars, program, adapter, OneAtATime, Kept, After, Own
<1> HIDE DEF I
<1>10. I'
  BY <1>1, <1>2, <1>3, <1>4, <1>5, <1>6, <1>7, <1>8, <1>9, StepCases
<1> QED
  BY <1>10 DEF I

\* A start without faults, whatever earlier attempts left behind, ends on the configured
\* channels with the network up and the endpoint registered (controller.cpp:88-190).
THEOREM StartConfigures == Spec => []CleanStartConfigures
<1>1. CleanInv => CleanStartConfigures
  BY DEF CleanInv, Kept, After, CleanStartConfigures
<1> QED
  BY <1>1, CleanInit, CleanStep, PTL DEF Spec

\* Such a start neither fails nor dereferences a value that was not read.
THEOREM StartSucceeds == Spec => []CleanStartSucceeds
<1>1. CleanInv => CleanStartSucceeds
  BY DEF CleanInv, CleanStartSucceeds
<1> QED
  BY <1>1, CleanInit, CleanStep, PTL DEF Spec
=============================================================================
