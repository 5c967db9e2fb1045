----------------------- MODULE AdapterPipelineProofs ------------------------
(***************************************************************************)
(* Proofs about AdapterPipeline, for any workers, callers, capacities and  *)
(* bounds: the path of frames implements SyncRequest, so that what is      *)
(* proved about the requests holds of the whole pipeline.  And about       *)
(* SerialLink, below it: what the reader takes, loses and dies of, for any *)
(* frames, reads and damage.                                               *)
(***************************************************************************)
EXTENDS AdapterPipeline, SerialLink, SequenceTheorems, FiniteSetTheorems, WellFoundedInduction, TLAPS

Items == SR!Answers \cup Messages

\* The path of frames as one queue: frames leave it at its head, in the order they came.
Path == pool \o (carried \o (chan_in \o rx))

TypeInv ==
    /\ rx \in Seq(Items) /\ chan_in \in Seq(Items)
    /\ carried \in Seq(Items) /\ pool \in Seq(Items)
    /\ job \in [Workers -> Items \cup {NoJob}]
    /\ sent \in 0..MaxMessages
    /\ chan_out \in Seq(SR!Requests)
    /\ pc \in [Threads -> {"idle", "write", "wait", "read"}]
    /\ req \in [Threads -> CmdIds]
    /\ serial \in [Threads -> 0..MaxCalls]
    /\ calls \in 0..MaxCalls

-----------------------------------------------------------------------------
(* Sequences.                                                              *)

\* The elements of a concatenation.
LEMMA ConcatElements ==
    ASSUME NEW S, NEW s \in Seq(S), NEW t \in Seq(S)
    PROVE  ToSet(s \o t) = ToSet(s) \cup ToSet(t)
<1>1. s \o t \in Seq(S) /\ Len(s \o t) = Len(s) + Len(t)
  BY ConcatProperties
<1>2. ASSUME NEW x \in ToSet(s \o t) PROVE x \in ToSet(s) \cup ToSet(t)
  <2>1. PICK i \in 1..Len(s) + Len(t) : x = (s \o t)[i]
    BY <1>1, <1>2 DEF ToSet
  <2>2. CASE i \in 1..Len(s)
    BY <2>1, <2>2 DEF ToSet
  <2>3. CASE i \notin 1..Len(s)
    <3>1. i - Len(s) \in 1..Len(t) /\ x = t[i - Len(s)]
      BY <2>1, <2>3
    <3> QED
      BY <3>1 DEF ToSet
  <2> QED
    BY <2>2, <2>3
<1>3. ASSUME NEW x \in ToSet(s) PROVE x \in ToSet(s \o t)
  <2>1. PICK i \in 1..Len(s) : x = s[i]
    BY <1>3 DEF ToSet
  <2>2. i \in 1..Len(s \o t) /\ x = (s \o t)[i]
    BY <1>1, <2>1
  <2> QED
    BY <1>1, <2>2 DEF ToSet
<1>4. ASSUME NEW x \in ToSet(t) PROVE x \in ToSet(s \o t)
  <2>1. PICK i \in 1..Len(t) : x = t[i]
    BY <1>4 DEF ToSet
  <2>2. Len(s) + i \in 1..Len(s \o t) /\ x = (s \o t)[Len(s) + i]
    BY <1>1, <2>1
  <2> QED
    BY <1>1, <2>2 DEF ToSet
<1> QED
  BY <1>2, <1>3, <1>4

\* The head of one queue that goes to the end of the queue in front of it.
LEMMA MoveHead ==
    ASSUME NEW S, NEW s \in Seq(S), NEW t \in Seq(S), t # <<>>
    PROVE  Append(s, Head(t)) \o Tail(t) = s \o t
<1>1. /\ Append(s, Head(t)) \in Seq(S) /\ Tail(t) \in Seq(S)
      /\ Len(Append(s, Head(t))) = Len(s) + 1 /\ Len(Tail(t)) = Len(t) - 1
      /\ Len(t) \in Nat \ {0}
  OBVIOUS
<1>2. Append(s, Head(t)) \o Tail(t) \in Seq(S) /\ s \o t \in Seq(S)
  BY <1>1
<1>3. Len(Append(s, Head(t)) \o Tail(t)) = Len(s \o t)
  BY <1>1
<1>4. ASSUME NEW i \in 1..Len(s \o t)
      PROVE  (Append(s, Head(t)) \o Tail(t))[i] = (s \o t)[i]
  <2>1. CASE i <= Len(s)
    BY <1>1, <2>1
  <2>2. CASE i = Len(s) + 1
    BY <1>1, <2>2
  <2>3. CASE i > Len(s) + 1
    BY <1>1, <2>3
  <2> QED
    BY <2>1, <2>2, <2>3
<1> QED
  BY <1>2, <1>3, <1>4, SeqEqual

LEMMA TailOfConcat ==
    ASSUME NEW S, NEW s \in Seq(S), NEW t \in Seq(S), s # <<>>
    PROVE  /\ s \o t # <<>>
           /\ Head(s \o t) = Head(s)
           /\ Tail(s \o t) = Tail(s) \o t
<1>1. /\ s \o t \in Seq(S) /\ Len(s \o t) = Len(s) + Len(t) /\ Len(s) \in Nat \ {0}
      /\ Tail(s) \in Seq(S) /\ Len(Tail(s)) = Len(s) - 1
  OBVIOUS
<1>2. s \o t # <<>> /\ Head(s \o t) = Head(s)
  BY <1>1
<1>3. /\ Tail(s \o t) \in Seq(S) /\ Tail(s) \o t \in Seq(S)
      /\ Len(Tail(s \o t)) = Len(Tail(s) \o t)
  BY <1>1, <1>2
<1>4. \A i \in 1..Len(Tail(s) \o t) : Tail(s \o t)[i] = (Tail(s) \o t)[i]
  BY <1>1, <1>2
<1> QED
  BY <1>2, <1>3, <1>4, SeqEqual

LEMMA AppendToConcat ==
    ASSUME NEW S, NEW s \in Seq(S), NEW t \in Seq(S), NEW x \in S
    PROVE  s \o Append(t, x) = Append(s \o t, x)
<1>1. Append(t, x) = t \o <<x>> /\ Append(s \o t, x) = (s \o t) \o <<x>>
  BY AppendIsConcat, ConcatProperties
<1>2. <<x>> \in Seq(S)
  OBVIOUS
<1> QED
  BY <1>1, <1>2, ConcatAssociative

-----------------------------------------------------------------------------
(* Types, and what a step does to the path.                                *)

\* Every action, so that a step splits the same way in each proof.
LEMMA StepCases ==
    ASSUME [Next]_vars,
           NEW P,
           DeviceSends => P,
           SendFails => P,
           \A s \in SR!Statuses : AdapterAnswers(s) => P,
           UartLoop => P, ReadChanIn => P, AddCommand => P,
           \A w \in Workers : GetCommand(w) => P,
           \A w \in Workers : EmitAnswer(w) => P,
           \A w \in Workers : HandlerDone(w) => P,
           \A w \in Workers, i \in CmdIds : HandlerCalls(w, i) => P,
           \A t \in Others, i \in CmdIds : OtherCalls(t, i) => P,
           \A t \in Threads : CallProgress(t) => P,
           \A t \in Threads : TimeOut(t) => P,
           UNCHANGED vars => P
    PROVE  P
  BY DEF Next, Send, Worker

\* A message is no answer, and the mark of a free worker is neither.
LEMMA Kinds ==
    /\ \A x \in Messages : x \notin SR!Answers
    /\ NoJob \notin Items
BY PipelineAssumption DEF Messages, Items, SR!Answers

LEMMA TypeInit == Init => TypeInv
BY PipelineAssumption DEF Init, SR!Init, TypeInv

\* A call begins.
LEMMA CallTypes ==
    ASSUME TypeInv, NEW t \in Threads, NEW i \in CmdIds, SR!ClearEvent(t, i)
    PROVE  /\ pc' \in [Threads -> {"idle", "write", "wait", "read"}]
           /\ req' \in [Threads -> CmdIds]
           /\ serial' \in [Threads -> 0..MaxCalls]
           /\ calls' \in 0..MaxCalls
           /\ chan_out' = chan_out
BY PipelineAssumption DEF TypeInv, SR!ClearEvent

LEMMA TypeStep == TypeInv /\ [Next]_vars => TypeInv'
<1> SUFFICES ASSUME TypeInv, [Next]_vars PROVE TypeInv'
  OBVIOUS
<1> USE PipelineAssumption DEF TypeInv
<1>1. ASSUME DeviceSends PROVE TypeInv'
  <2>1. [message |-> sent + 1] \in Items /\ sent' \in 0..MaxMessages
    BY <1>1 DEF DeviceSends, Items, Messages
  <2>2. rx' \in Seq(Items)
    BY <1>1, <2>1 DEF DeviceSends
  <2> QED
    BY <1>1, <2>1, <2>2 DEF DeviceSends, syncVars
<1>2. ASSUME SendFails PROVE TypeInv'
  BY <1>2 DEF SendFails, SR!SendFails, SR!callVars, inVars
<1>3. ASSUME NEW s \in SR!Statuses, AdapterAnswers(s) PROVE TypeInv'
  <2>1. Head(chan_out) \in SR!Requests /\ Tail(chan_out) \in Seq(SR!Requests)
    BY <1>3 DEF AdapterAnswers
  <2>2. [id |-> Head(chan_out).id, n |-> Head(chan_out).n, status |-> s] \in Items
    BY <2>1 DEF Items, SR!Answers, SR!Requests
  <2>3. rx' \in Seq(Items)
    BY <1>3, <2>2 DEF AdapterAnswers
  <2> QED
    BY <1>3, <2>1, <2>3 DEF AdapterAnswers
<1>4. ASSUME UartLoop PROVE TypeInv'
  BY <1>4 DEF UartLoop, syncVars
<1>5. ASSUME ReadChanIn PROVE TypeInv'
  BY <1>5 DEF ReadChanIn, syncVars
<1>6. ASSUME AddCommand PROVE TypeInv'
  BY <1>6 DEF AddCommand, syncVars
<1>7. ASSUME NEW w \in Workers, GetCommand(w) PROVE TypeInv'
  BY <1>7 DEF GetCommand, syncVars
<1>8. ASSUME NEW w \in Workers, EmitAnswer(w) PROVE TypeInv'
  BY <1>8 DEF EmitAnswer
<1>9. ASSUME NEW w \in Workers, HandlerDone(w) PROVE TypeInv'
  BY <1>9 DEF HandlerDone, syncVars
<1>10. ASSUME NEW w \in Workers, NEW i \in CmdIds, HandlerCalls(w, i) PROVE TypeInv'
  <2>1. w \in Threads
    BY DEF Threads
  <2> QED
    BY <1>10, <2>1, CallTypes DEF HandlerCalls
<1>11. ASSUME NEW t \in Others, NEW i \in CmdIds, OtherCalls(t, i) PROVE TypeInv'
  <2>1. t \in Threads
    BY DEF Threads
  <2> QED
    BY <1>11, <2>1, CallTypes DEF OtherCalls, inVars
<1>12. ASSUME NEW t \in Threads, CallProgress(t) PROVE TypeInv'
  <2>1. UNCHANGED inVars
    BY <1>12 DEF CallProgress
  <2>2. CASE SR!WriteRequest(t)
    <3>1. [id |-> req[t], n |-> serial[t]] \in SR!Requests
      BY DEF SR!Requests
    <3>2. chan_out' \in Seq(SR!Requests)
      BY <2>2, <3>1 DEF SR!WriteRequest
    <3> QED
      BY <2>1, <2>2, <3>2 DEF SR!WriteRequest, inVars
  <2>3. CASE SR!Awake(t) \/ SR!ReadArgument(t)
    BY <2>1, <2>3 DEF SR!Awake, SR!ReadArgument, inVars
  <2> QED
    BY <1>12, <2>2, <2>3 DEF CallProgress
<1>13. ASSUME NEW t \in Threads, TimeOut(t) PROVE TypeInv'
  BY <1>13 DEF TimeOut, SR!TimeOut, inVars
<1>14. ASSUME UNCHANGED vars PROVE TypeInv'
  BY <1>14 DEF vars, inVars, syncVars
<1> QED
  BY <1>1, <1>2, <1>3, <1>4, <1>5, <1>6, <1>7, <1>8, <1>9, <1>10, <1>11, <1>12, <1>13, <1>14, StepCases

\* The variables keep their types.
THEOREM TypeCorrect == Spec => []TypeInv
BY TypeInit, TypeStep, PTL DEF Spec

LEMMA PathType == TypeInv => Path \in Seq(Items)
BY DEF TypeInv, Path

\* The receiving threads move frames along the path and change nothing of it.
LEMMA MovesKeepPath ==
    ASSUME TypeInv, UartLoop \/ ReadChanIn \/ AddCommand
    PROVE  Path' = Path
<1> USE DEF TypeInv, Path
<1>1. CASE UartLoop
  <2>1. chan_in' \o rx' = chan_in \o rx
    BY <1>1, MoveHead DEF UartLoop
  <2> QED
    BY <1>1, <2>1 DEF UartLoop
<1>2. CASE ReadChanIn
  <2>1. carried' = <<Head(chan_in)>> /\ chan_in' = Tail(chan_in) /\ carried = <<>> /\ chan_in # <<>>
        /\ UNCHANGED <<rx, pool>>
    BY <1>2 DEF ReadChanIn
  <2>2. <<Head(chan_in)>> \o Tail(chan_in) = chan_in
    <3>1. Append(<<>>, Head(chan_in)) = <<Head(chan_in)>> /\ <<>> \in Seq(Items)
      BY <2>1
    <3>2. <<>> \o chan_in = chan_in /\ Append(<<>>, Head(chan_in)) \o Tail(chan_in) = <<>> \o chan_in
      BY <2>1, <3>1, MoveHead, ConcatEmptySeq
    <3> QED
      BY <3>1, <3>2, SMTT(30)
  <2>3. /\ <<Head(chan_in)>> \in Seq(Items) /\ Tail(chan_in) \in Seq(Items)
        /\ chan_in \o rx \in Seq(Items)
    BY <2>1
  <2>4. <<Head(chan_in)>> \o (Tail(chan_in) \o rx) = chan_in \o rx
    <3>1. rx \in Seq(Items)
      OBVIOUS
    <3> HIDE DEF TypeInv, Path
    <3>2. (<<Head(chan_in)>> \o Tail(chan_in)) \o rx = <<Head(chan_in)>> \o (Tail(chan_in) \o rx)
      BY <2>3, <3>1, ConcatAssociative, SMTT(30)
    <3> QED
      BY <2>2, <3>2, Zenon
  <2>5. <<>> \o (chan_in \o rx) = chan_in \o rx
    <3> HIDE DEF TypeInv, Path
    <3> QED
      BY <2>3, ConcatEmptySeq, SMTT(30)
  <2> QED
    BY <2>1, <2>4, <2>5
<1>3. CASE AddCommand
  <2>1. pool' = pool \o carried /\ carried' = <<>> /\ UNCHANGED <<rx, chan_in>>
    BY <1>3 DEF AddCommand
  <2>2. pool \in Seq(Items) /\ carried \in Seq(Items) /\ chan_in \o rx \in Seq(Items)
    OBVIOUS
  <2>3. (pool \o carried) \o (chan_in \o rx) = pool \o (carried \o (chan_in \o rx))
    <3> HIDE DEF TypeInv, Path
    <3> QED
      BY <2>2, ConcatAssociative, SMTT(30)
  <2>4. <<>> \o (chan_in \o rx) = chan_in \o rx
    <3> HIDE DEF TypeInv, Path
    <3> QED
      BY <2>2, ConcatEmptySeq, SMTT(30)
  <2> QED
    BY <2>1, <2>3, <2>4
<1> QED
  BY <1>1, <1>2, <1>3

LEMMA RxAppendsToPath ==
    ASSUME TypeInv, NEW x \in Items, rx' = Append(rx, x), UNCHANGED <<pool, carried, chan_in>>
    PROVE  Path' = Append(Path, x)
<1> USE DEF TypeInv, Path
<1>0. /\ rx \in Seq(Items) /\ chan_in \in Seq(Items) /\ carried \in Seq(Items) /\ pool \in Seq(Items)
      /\ chan_in \o rx \in Seq(Items) /\ carried \o (chan_in \o rx) \in Seq(Items)
  OBVIOUS
<1> HIDE DEF TypeInv, Path
<1>1. chan_in \o Append(rx, x) = Append(chan_in \o rx, x)
  BY <1>0, AppendToConcat, SMTT(30)
<1>2. carried \o Append(chan_in \o rx, x) = Append(carried \o (chan_in \o rx), x)
  BY <1>0, AppendToConcat, SMTT(30)
<1>3. pool \o Append(carried \o (chan_in \o rx), x) = Append(pool \o (carried \o (chan_in \o rx)), x)
  BY <1>0, AppendToConcat, SMTT(30)
<1> USE DEF Path
<1> QED
  BY <1>1, <1>2, <1>3

LEMMA WorkerTakesHeadOfPath ==
    ASSUME TypeInv, NEW w \in Workers, GetCommand(w)
    PROVE  Path # <<>> /\ job' = [job EXCEPT ![w] = Head(Path)] /\ Path' = Tail(Path)
<1>1. pool \in Seq(Items) /\ carried \o (chan_in \o rx) \in Seq(Items) /\ pool # <<>>
  BY DEF TypeInv, GetCommand
<1>2. job' = [job EXCEPT ![w] = Head(pool)] /\ pool' = Tail(pool) /\ UNCHANGED <<rx, chan_in, carried>>
  BY DEF GetCommand
<1> QED
  BY <1>1, <1>2, TailOfConcat DEF Path

-----------------------------------------------------------------------------
(* Each call has its number; it is held once: by the caller that has not   *)
(* written its request, by the request, or by its answer, on the path or   *)
(* in a worker.  Without this an answer that a worker handles could still  *)
(* be somewhere else, and would not leave SyncRequest's set of answers.    *)

IsAnswer(x) == x \in SR!Answers
Writes(t) == pc[t] = "write"

\* No two holders of a kind have the same number ...
OncePerKind ==
    /\ \A i, j \in 1..Len(Path) :
          IsAnswer(Path[i]) /\ IsAnswer(Path[j]) /\ Path[i].n = Path[j].n => i = j
    /\ \A w, v \in Workers : IsAnswer(job[w]) /\ IsAnswer(job[v]) /\ job[w].n = job[v].n => w = v
    /\ \A k, l \in 1..Len(chan_out) : chan_out[k].n = chan_out[l].n => k = l
    /\ \A t, u \in Threads : Writes(t) /\ Writes(u) /\ serial[t] = serial[u] => t = u

\* ... nor have two of different kinds ...
OneKind ==
    /\ \A i \in 1..Len(Path) : IsAnswer(Path[i]) =>
          /\ \A w \in Workers : IsAnswer(job[w]) => job[w].n # Path[i].n
          /\ \A k \in 1..Len(chan_out) : chan_out[k].n # Path[i].n
          /\ \A t \in Threads : Writes(t) => serial[t] # Path[i].n
    /\ \A w \in Workers : IsAnswer(job[w]) =>
          /\ \A k \in 1..Len(chan_out) : chan_out[k].n # job[w].n
          /\ \A t \in Threads : Writes(t) => serial[t] # job[w].n
    /\ \A t \in Threads, k \in 1..Len(chan_out) : Writes(t) => chan_out[k].n # serial[t]

\* ... and every number belongs to a call that was made.
NumbersOfCalls ==
    /\ \A i \in 1..Len(Path) : IsAnswer(Path[i]) => Path[i].n <= calls
    /\ \A w \in Workers : IsAnswer(job[w]) => job[w].n <= calls
    /\ \A k \in 1..Len(chan_out) : chan_out[k].n <= calls
    /\ \A t \in Threads : Writes(t) => serial[t] <= calls

OnceInv == TypeInv /\ OncePerKind /\ OneKind /\ NumbersOfCalls

LEMMA OnceInit == Init => OnceInv
<1> SUFFICES ASSUME Init PROVE OnceInv
  OBVIOUS
<1>1. TypeInv
  BY TypeInit
<1>2. Path = <<>> /\ chan_out = <<>> /\ \A t \in Threads : pc[t] = "idle"
  BY ConcatEmptySeq DEF Init, SR!Init, Path
<1>3. \A w \in Workers : ~IsAnswer(job[w])
  BY Kinds DEF Init, IsAnswer, Items
<1> QED
  BY <1>1, <1>2, <1>3 DEF OnceInv, OncePerKind, OneKind, NumbersOfCalls, Writes

\* A call begins: its number is new.
LEMMA OnceCall ==
    ASSUME OnceInv, NEW t \in Threads, NEW i \in CmdIds, SR!ClearEvent(t, i),
           Path' = Path, job' = job, TypeInv'
    PROVE  OnceInv'
<1>1. /\ pc' = [pc EXCEPT ![t] = "write"] /\ calls' = calls + 1
      /\ serial' = [serial EXCEPT ![t] = calls + 1] /\ chan_out' = chan_out
  BY Zenon DEF SR!ClearEvent
<1>2. /\ \A u \in Threads \ {t} : Writes(u)' <=> Writes(u)
      /\ \A u \in Threads \ {t} : serial'[u] = serial[u]
      /\ serial'[t] = calls + 1 /\ calls \in Nat
      /\ \A u \in Threads : serial[u] \in Nat
  BY <1>1, PipelineAssumption DEF OnceInv, TypeInv, Writes
<1>3. ASSUME NEW k \in 1..Len(chan_out) PROVE chan_out[k].n \in Nat
  <2>1. chan_out[k] \in SR!Requests
    BY ElementOfSeq DEF OnceInv, TypeInv
  <2> QED
    BY <2>1, PipelineAssumption DEF SR!Requests
<1>4. \A x : IsAnswer(x) => x.n \in Nat
  BY PipelineAssumption DEF IsAnswer, SR!Answers
<1>5. OncePerKind'
  BY <1>1, <1>2, SMTT(30) DEF OnceInv, OncePerKind, NumbersOfCalls, IsAnswer
<1>6. OneKind'
  BY <1>1, <1>2, <1>3, <1>4 DEF OnceInv, OneKind, NumbersOfCalls, IsAnswer
<1>7. NumbersOfCalls'
  BY <1>1, <1>2, <1>3, <1>4 DEF OnceInv, NumbersOfCalls, IsAnswer
<1> QED
  BY <1>5, <1>6, <1>7 DEF OnceInv

LEMMA OnceStep == OnceInv /\ [Next]_vars => OnceInv'
<1> SUFFICES ASSUME OnceInv, [Next]_vars PROVE OnceInv'
  OBVIOUS
<1>0. TypeInv /\ TypeInv' /\ Path \in Seq(Items) /\ Path' \in Seq(Items)
  <2>1. TypeInv /\ TypeInv'
    BY TypeStep DEF OnceInv
  <2>2. Path \in Seq(Items)
    BY <2>1, PathType
  <2>3. Path' \in Seq(Items)
    BY <2>1 DEF TypeInv, Path
  <2> QED
    BY <2>1, <2>2, <2>3
<1> DEFINE Kept == Path' = Path /\ UNCHANGED <<job, chan_out, pc, serial, calls>>
<1>a. Kept => OnceInv'
  BY <1>0 DEF OnceInv, OncePerKind, OneKind, NumbersOfCalls, IsAnswer, Writes
<1>1. ASSUME DeviceSends PROVE OnceInv'
  <2>1. [message |-> sent + 1] \in Messages /\ ~IsAnswer([message |-> sent + 1])
    <3>1. sent + 1 \in 1..MaxMessages
      BY <1>0, <1>1, PipelineAssumption DEF DeviceSends, TypeInv
    <3>2. [message |-> sent + 1] \in Messages
      BY <3>1 DEF Messages
    <3> QED
      BY <3>2, Kinds DEF IsAnswer
  <2>2. Path' = Append(Path, [message |-> sent + 1])
    BY <1>0, <1>1, <2>1, RxAppendsToPath DEF DeviceSends, Items
  <2>3. /\ Len(Path') = Len(Path) + 1 /\ ~IsAnswer(Path'[Len(Path) + 1])
        /\ \A i \in 1..Len(Path) : Path'[i] = Path[i]
    BY <1>0, <2>1, <2>2
  <2>4. UNCHANGED <<job, chan_out, pc, serial, calls>>
    BY <1>1 DEF DeviceSends, syncVars
  <2>5. \A i \in 1..Len(Path') : IsAnswer(Path'[i]) => i \in 1..Len(Path)
    BY <1>0, <2>3
  <2> QED
    BY <1>0, <2>3, <2>4, <2>5 DEF OnceInv, OncePerKind, OneKind, NumbersOfCalls, IsAnswer, Writes
<1>2. ASSUME SendFails PROVE OnceInv'
  <2>1. /\ Path' = Path /\ UNCHANGED <<job, pc, serial, calls>>
        /\ chan_out # <<>> /\ chan_out' = Tail(chan_out)
    BY <1>2 DEF SendFails, SR!SendFails, SR!callVars, inVars, Path
  <2>2. /\ Len(chan_out') = Len(chan_out) - 1 /\ Len(chan_out) \in Nat
        /\ \A k \in 1..Len(chan_out') : chan_out'[k] = chan_out[k + 1] /\ k + 1 \in 1..Len(chan_out)
    BY <1>0, <2>1 DEF TypeInv
  <2>3. OncePerKind'
    <3>1. \A k, l \in 1..Len(chan_out') : chan_out'[k].n = chan_out'[l].n => k + 1 = l + 1
      BY <2>2 DEF OnceInv, OncePerKind
    <3> QED
      BY <2>1, <2>2, <3>1 DEF OnceInv, OncePerKind, IsAnswer, Writes
  <2> QED
    BY <1>0, <2>1, <2>2, <2>3 DEF OnceInv, OneKind, NumbersOfCalls, IsAnswer, Writes
<1>3. ASSUME NEW s \in SR!Statuses, AdapterAnswers(s) PROVE OnceInv'
  <2> DEFINE a == [id |-> Head(chan_out).id, n |-> Head(chan_out).n, status |-> s]
  <2>1. /\ chan_out # <<>> /\ chan_out' = Tail(chan_out) /\ rx' = Append(rx, a)
        /\ UNCHANGED <<chan_in, carried, pool, job, pc, serial, calls>>
    BY <1>3 DEF AdapterAnswers
  <2>2. /\ Len(chan_out') = Len(chan_out) - 1 /\ Len(chan_out) \in Nat \ {0}
        /\ \A k \in 1..Len(chan_out') : chan_out'[k] = chan_out[k + 1] /\ k + 1 \in 1..Len(chan_out)
        /\ Head(chan_out) = chan_out[1] /\ Head(chan_out) \in SR!Requests
    BY <1>0, <2>1 DEF TypeInv
  <2>3. a \in SR!Answers /\ a.n = chan_out[1].n
    BY <2>2 DEF SR!Answers, SR!Requests
  <2> HIDE DEF a
  <2>4. Path' = Append(Path, a)
    BY <1>0, <2>1, <2>3, RxAppendsToPath DEF Items
  <2>5. /\ Len(Path') = Len(Path) + 1 /\ Path'[Len(Path) + 1] = a
        /\ \A i \in 1..Len(Path) : Path'[i] = Path[i]
        /\ \A i \in 1..Len(Path') : i \in 1..Len(Path) \/ i = Len(Path) + 1
    BY <1>0, <2>4
  <2>6. \A k \in 1..Len(chan_out') : chan_out'[k].n # a.n
    BY <2>2, <2>3 DEF OnceInv, OncePerKind
  <2>7. OncePerKind'
    <3>1. ASSUME NEW k \in 1..Len(chan_out'), NEW l \in 1..Len(chan_out'),
                 chan_out'[k].n = chan_out'[l].n
          PROVE  k + 1 = l + 1
      <4>1. chan_out[k + 1].n = chan_out[l + 1].n /\ k + 1 \in 1..Len(chan_out) /\ l + 1 \in 1..Len(chan_out)
        BY <2>2, <3>1
      <4> QED
        BY <4>1 DEF OnceInv, OncePerKind
    <3>2. \A i \in 1..Len(Path) : IsAnswer(Path[i]) => Path[i].n # a.n
      BY <2>2, <2>3 DEF OnceInv, OneKind
    <3>3. \A i, j \in 1..Len(Path') :
             IsAnswer(Path'[i]) /\ IsAnswer(Path'[j]) /\ Path'[i].n = Path'[j].n => i = j
      BY <2>5, <3>2 DEF OnceInv, OncePerKind
    <3> QED
      BY <2>1, <2>2, <3>1, <3>3 DEF OnceInv, OncePerKind, IsAnswer, Writes
  <2>8. OneKind'
    <3>1. /\ \A w \in Workers : IsAnswer(job[w]) => job[w].n # a.n
          /\ \A t \in Threads : Writes(t) => serial[t] # a.n
      BY <2>2, <2>3 DEF OnceInv, OneKind
    <3>2. ASSUME NEW i \in 1..Len(Path), NEW k \in 1..Len(chan_out'), IsAnswer(Path[i])
          PROVE  chan_out'[k].n # Path[i].n
      <4>1. k + 1 \in 1..Len(chan_out) /\ chan_out'[k] = chan_out[k + 1]
        BY <2>2
      <4> QED
        BY <3>2, <4>1 DEF OnceInv, OneKind
    <3>3. /\ \A w \in Workers, k \in 1..Len(chan_out') : IsAnswer(job[w]) => chan_out'[k].n # job[w].n
          /\ \A t \in Threads, k \in 1..Len(chan_out') : Writes(t) => chan_out'[k].n # serial[t]
      BY <2>2, SMTT(30) DEF OnceInv, OneKind
    <3> QED
      BY <2>1, <2>5, <2>6, <3>1, <3>2, <3>3, SMTT(30) DEF OnceInv, OneKind, IsAnswer, Writes
  <2>9. NumbersOfCalls'
    BY <2>1, <2>2, <2>3, <2>5, SMTT(30) DEF OnceInv, NumbersOfCalls, IsAnswer, Writes
  <2> QED
    BY <1>0, <2>7, <2>8, <2>9 DEF OnceInv
<1>4. ASSUME UartLoop \/ ReadChanIn \/ AddCommand PROVE OnceInv'
  <2>1. UNCHANGED <<job, chan_out, pc, serial, calls>>
    BY <1>4 DEF UartLoop, ReadChanIn, AddCommand, syncVars
  <2> QED
    BY <1>0, <1>4, <1>a, <2>1, MovesKeepPath
<1>5. ASSUME NEW w \in Workers, GetCommand(w) PROVE OnceInv'
  <2>1. /\ Path # <<>> /\ job' = [job EXCEPT ![w] = Head(Path)] /\ Path' = Tail(Path)
    BY <1>0, <1>5, WorkerTakesHeadOfPath
  <2>2. UNCHANGED <<chan_out, pc, serial, calls>>
    BY <1>5 DEF GetCommand, syncVars
  <2>3. /\ Len(Path') = Len(Path) - 1 /\ Len(Path) \in Nat \ {0} /\ Head(Path) = Path[1]
        /\ \A i \in 1..Len(Path') : Path'[i] = Path[i + 1] /\ i + 1 \in 1..Len(Path)
    BY <1>0, <2>1
  <2>4. job'[w] = Path[1] /\ \A v \in Workers \ {w} : job'[v] = job[v]
    BY <1>0, <2>1, <2>3 DEF TypeInv
  <2>5. OncePerKind'
    <3>1. \A i, j \in 1..Len(Path') :
             IsAnswer(Path'[i]) /\ IsAnswer(Path'[j]) /\ Path'[i].n = Path'[j].n => i + 1 = j + 1
      BY <2>3 DEF OnceInv, OncePerKind
    <3>2. \A v \in Workers : IsAnswer(job[v]) /\ IsAnswer(Path[1]) => job[v].n # Path[1].n
      BY <2>3 DEF OnceInv, OneKind
    <3>3. \A u, v \in Workers :
             IsAnswer(job'[u]) /\ IsAnswer(job'[v]) /\ job'[u].n = job'[v].n => u = v
      BY <2>4, <3>2 DEF OnceInv, OncePerKind
    <3> QED
      BY <2>2, <2>3, <3>1, <3>3 DEF OnceInv, OncePerKind, IsAnswer, Writes
  <2>6. OneKind'
    <3>1. \A i \in 1..Len(Path') : IsAnswer(Path'[i]) /\ IsAnswer(Path[1]) => Path'[i].n # Path[1].n
      <4>1. \A i \in 1..Len(Path') : i + 1 # 1
        BY <2>3
      <4> QED
        BY <2>3, <4>1 DEF OnceInv, OncePerKind
    <3>2. \A i \in 1..Len(Path') : IsAnswer(Path'[i]) =>
            /\ \A v \in Workers : IsAnswer(job[v]) => job[v].n # Path'[i].n
            /\ \A k \in 1..Len(chan_out) : chan_out[k].n # Path'[i].n
            /\ \A t \in Threads : Writes(t) => serial[t] # Path'[i].n
      BY <2>3, SMTT(30) DEF OnceInv, OneKind
    <3>3. IsAnswer(Path[1]) =>
            /\ \A k \in 1..Len(chan_out) : chan_out[k].n # Path[1].n
            /\ \A t \in Threads : Writes(t) => serial[t] # Path[1].n
      BY <2>3 DEF OnceInv, OneKind
    <3> QED
      BY <2>2, <2>4, <3>1, <3>2, <3>3 DEF OnceInv, OneKind, IsAnswer, Writes
  <2>7. NumbersOfCalls'
    <3>1. IsAnswer(Path[1]) => Path[1].n <= calls
      BY <2>3 DEF OnceInv, NumbersOfCalls
    <3> QED
      BY <2>2, <2>3, <2>4, <3>1 DEF OnceInv, NumbersOfCalls, IsAnswer, Writes
  <2> QED
    BY <1>0, <2>5, <2>6, <2>7 DEF OnceInv
<1>6. ASSUME NEW w \in Workers, EmitAnswer(w) \/ HandlerDone(w) PROVE OnceInv'
  <2>1. /\ Path' = Path /\ job' = [job EXCEPT ![w] = NoJob]
        /\ UNCHANGED <<chan_out, pc, serial, calls>>
    BY <1>6 DEF EmitAnswer, HandlerDone, Path, syncVars
  <2>2. ~IsAnswer(job'[w]) /\ \A v \in Workers \ {w} : job'[v] = job[v]
    BY <1>0, <2>1, Kinds DEF TypeInv, IsAnswer, Items
  <2> QED
    BY <1>0, <2>1, <2>2 DEF OnceInv, OncePerKind, OneKind, NumbersOfCalls, IsAnswer, Writes
<1>7. ASSUME NEW w \in Workers, NEW i \in CmdIds, HandlerCalls(w, i) PROVE OnceInv'
  <2>1. w \in Threads /\ Path' = Path /\ job' = job /\ SR!ClearEvent(w, i)
    BY <1>7 DEF HandlerCalls, Path, Threads
  <2> QED
    BY <1>0, <2>1, OnceCall
<1>8. ASSUME NEW t \in Others, NEW i \in CmdIds, OtherCalls(t, i) PROVE OnceInv'
  <2>1. t \in Threads /\ Path' = Path /\ job' = job /\ SR!ClearEvent(t, i)
    BY <1>8 DEF OtherCalls, inVars, Path, Threads
  <2> QED
    BY <1>0, <2>1, OnceCall
<1>9. ASSUME NEW t \in Threads, CallProgress(t) PROVE OnceInv'
  <2>1. Path' = Path /\ job' = job
    BY <1>9 DEF CallProgress, inVars, Path
  <2>2. CASE SR!WriteRequest(t)
    <3>1. /\ pc[t] = "write" /\ pc' = [pc EXCEPT ![t] = "wait"]
          /\ chan_out' = Append(chan_out, [id |-> req[t], n |-> serial[t]])
          /\ serial' = serial /\ calls' = calls
      BY <2>2 DEF SR!WriteRequest
    <3>2. /\ Len(chan_out') = Len(chan_out) + 1 /\ Len(chan_out) \in Nat
          /\ chan_out'[Len(chan_out) + 1].n = serial[t]
          /\ \A k \in 1..Len(chan_out) : chan_out'[k] = chan_out[k]
          /\ \A k \in 1..Len(chan_out') : k \in 1..Len(chan_out) \/ k = Len(chan_out) + 1
      <4> DEFINE q == [id |-> req[t], n |-> serial[t]]
      <4>1. q.n = serial[t] /\ q \in SR!Requests /\ chan_out \in Seq(SR!Requests)
        BY <1>0 DEF TypeInv, SR!Requests
      <4> HIDE DEF q
      <4>2. chan_out' = Append(chan_out, q)
        BY <3>1 DEF q
      <4> QED
        BY <4>1, <4>2
    <3>3. ~Writes(t)' /\ Writes(t) /\ \A u \in Threads : Writes(u)' => Writes(u) /\ u # t
      BY <1>0, <3>1 DEF TypeInv, Writes
    <3>4. OncePerKind'
      <4>1. \A k \in 1..Len(chan_out) : chan_out[k].n # serial[t]
        BY <3>3 DEF OnceInv, OneKind
      <4>2. \A k, l \in 1..Len(chan_out') : chan_out'[k].n = chan_out'[l].n => k = l
        BY <3>2, <4>1 DEF OnceInv, OncePerKind
      <4> QED
        BY <2>1, <3>1, <3>3, <4>2 DEF OnceInv, OncePerKind, IsAnswer
    <3>5. OneKind'
      <4>1. \A i \in 1..Len(Path) : IsAnswer(Path[i]) => Path[i].n # serial[t]
        BY <3>3 DEF OnceInv, OneKind
      <4>2. \A w \in Workers : IsAnswer(job[w]) => job[w].n # serial[t]
        BY <3>3 DEF OnceInv, OneKind
      <4>3. \A u \in Threads : Writes(u)' => serial[u] # serial[t]
        BY <3>3 DEF OnceInv, OncePerKind
      <4> QED
        BY <2>1, <3>1, <3>2, <3>3, <4>1, <4>2, <4>3 DEF OnceInv, OneKind, IsAnswer
    <3>6. NumbersOfCalls'
      BY <2>1, <3>1, <3>2, <3>3 DEF OnceInv, NumbersOfCalls, IsAnswer
    <3> QED
      BY <1>0, <3>4, <3>5, <3>6 DEF OnceInv
  <2>3. CASE SR!Awake(t) \/ SR!ReadArgument(t)
    <3>1. /\ UNCHANGED <<chan_out, serial, calls>>
          /\ \A u \in Threads : Writes(u)' => Writes(u)
      BY <1>0, <2>3 DEF TypeInv, Writes, SR!Awake, SR!ReadArgument
    <3> QED
      BY <1>0, <2>1, <3>1 DEF OnceInv, OncePerKind, OneKind, NumbersOfCalls, IsAnswer
  <2> QED
    BY <1>9, <2>2, <2>3 DEF CallProgress
<1>10. ASSUME NEW t \in Threads, TimeOut(t) PROVE OnceInv'
  <2>1. /\ Path' = Path /\ UNCHANGED <<job, chan_out, serial, calls>>
        /\ \A u \in Threads : Writes(u)' => Writes(u)
    BY <1>0, <1>10 DEF TimeOut, SR!TimeOut, inVars, Path, TypeInv, Writes
  <2> QED
    BY <1>0, <2>1 DEF OnceInv, OncePerKind, OneKind, NumbersOfCalls, IsAnswer
<1>11. ASSUME UNCHANGED vars PROVE OnceInv'
  BY <1>11, <1>a DEF vars, inVars, syncVars, Path
<1> QED
  BY <1>1, <1>2, <1>3, <1>4, <1>5, <1>6, <1>7, <1>8, <1>9, <1>10, <1>11, StepCases

-----------------------------------------------------------------------------
(* The refinement.                                                         *)

\* The answers that are anywhere between the adapter and the emitter.
Held == {a \in SR!Answers : a \in ToSet(Path) \/ \E w \in Workers : job[w] = a}

WireIsHeld == wire = Held

LEMMA WireIs == TypeInv => WireIsHeld
<1> SUFFICES ASSUME TypeInv PROVE wire = Held
  BY DEF WireIsHeld
<1>1. ToSet(Path) = ToSet(pool) \cup (ToSet(carried) \cup (ToSet(chan_in) \cup ToSet(rx)))
  <2>0. rx \in Seq(Items) /\ chan_in \in Seq(Items) /\ carried \in Seq(Items) /\ pool \in Seq(Items)
    BY DEF TypeInv
  <2> DEFINE c == chan_in \o rx
             d == carried \o c
  <2>1. ToSet(c) = ToSet(chan_in) \cup ToSet(rx) /\ c \in Seq(Items)
    BY <2>0, ConcatElements, ConcatProperties
  <2>2. ToSet(d) = ToSet(carried) \cup ToSet(c) /\ d \in Seq(Items)
    <3> HIDE DEF c
    <3> QED
      BY <2>0, <2>1, ConcatElements, ConcatProperties
  <2>3. ToSet(pool \o d) = ToSet(pool) \cup ToSet(d)
    <3> HIDE DEF d
    <3> QED
      BY <2>0, <2>2, ConcatElements
  <2> QED
    BY <2>1, <2>2, <2>3, Zenon DEF Path
<1>2. ToSet(Path) \subseteq Items
  <2>1. \A i \in 1..Len(Path) : Path[i] \in Items
    BY PathType, ElementOfSeq
  <2>2. DOMAIN Path = 1..Len(Path)
    BY PathType, LenProperties
  <2> QED
    BY <2>1, <2>2 DEF ToSet
<1>3. \A w \in Workers : job[w] \in Items \cup {NoJob}
  BY DEF TypeInv
<1>4. InFlight = ToSet(Path) \cup {job[w] : w \in Workers}
  <2>1. UNION {ToSet(s) : s \in {rx, chan_in, carried, pool}}
          = ToSet(pool) \cup (ToSet(carried) \cup (ToSet(chan_in) \cup ToSet(rx)))
    OBVIOUS
  <2> QED
    BY <1>1, <2>1 DEF InFlight
<1>5. \A x \in Items \cup {NoJob} : x \in SR!Answers <=> x \notin Messages \cup {NoJob}
  BY Kinds DEF Items
<1>6. ASSUME NEW a
      PROVE  a \in wire <=> a \in SR!Answers /\ (a \in ToSet(Path) \/ \E w \in Workers : job[w] = a)
  <2>1. a \in wire <=> a \in InFlight /\ a \notin Messages \cup {NoJob}
    BY Zenon DEF wire
  <2>2. a \in InFlight <=> a \in ToSet(Path) \/ \E w \in Workers : job[w] = a
    BY <1>4
  <2>3. a \in InFlight => a \in Items \cup {NoJob}
    BY <1>2, <1>3, <2>2
  <2>4. a \in SR!Answers => a \in Items \cup {NoJob}
    BY DEF Items
  <2> QED
    BY <1>5, <2>1, <2>2, <2>3, <2>4
<1> QED
  BY <1>6 DEF Held

\* A step of the pipeline is a step of SyncRequest or leaves its variables alone.
LEMMA RefinementStep == OnceInv /\ OnceInv' /\ [Next]_vars => [SR!Next]_(SR!vars)
<1> SUFFICES ASSUME OnceInv, OnceInv', [Next]_vars PROVE [SR!Next]_(SR!vars)
  OBVIOUS
<1>0. TypeInv /\ TypeInv' /\ Path \in Seq(Items) /\ Path' \in Seq(Items)
  <2>1. TypeInv /\ TypeInv'
    BY DEF OnceInv
  <2>2. Path' \in Seq(Items)
    BY <2>1 DEF TypeInv, Path
  <2> QED
    BY <2>1, <2>2, PathType
<1> DEFINE Holds(a) == a \in ToSet(Path) \/ \E w \in Workers : job[w] = a
<1>w. \A a : a \in wire <=> IsAnswer(a) /\ Holds(a)
  BY <1>0, WireIs DEF IsAnswer, Held, WireIsHeld
<1>x. \A a : a \in wire' <=> IsAnswer(a) /\ Holds(a)'
  <2>1. TypeInv' => WireIsHeld'
    BY WireIs, PTL
  <2> QED
    BY <1>0, <2>1 DEF IsAnswer, Held, WireIsHeld
<1>1. ASSUME DeviceSends PROVE UNCHANGED SR!vars
  <2>1. wire' = wire
    <3> DEFINE m == [message |-> sent + 1]
    <3>1. sent + 1 \in 1..MaxMessages
      BY <1>0, <1>1, PipelineAssumption DEF DeviceSends, TypeInv
    <3>2. m \in Messages /\ ~IsAnswer(m)
      BY <3>1, Kinds DEF Messages, IsAnswer
    <3>3. Path' = Append(Path, m) /\ job' = job
      BY <1>0, <1>1, <3>2, RxAppendsToPath DEF DeviceSends, Items
    <3>4. ToSet(Path') = ToSet(Path) \cup {m}
      BY <1>0, <3>2, <3>3 DEF ToSet, Items
    <3> QED
      BY <1>w, <1>x, <3>2, <3>3, <3>4, ZenonT(30)
  <2> QED
    BY <1>1, <2>1 DEF DeviceSends, syncVars, SR!vars, SR!eventVars, SR!callVars, SR!histVars
<1>2. ASSUME SendFails PROVE SR!Next
  BY <1>2 DEF SendFails, SR!Next, SR!Send
<1>3. ASSUME NEW s \in SR!Statuses, AdapterAnswers(s) PROVE SR!Next
  <2> DEFINE a == [id |-> Head(chan_out).id, n |-> Head(chan_out).n, status |-> s]
  <2>1. /\ chan_out # <<>> /\ rx' = Append(rx, a)
        /\ UNCHANGED <<chan_in, carried, pool, job>>
    BY <1>3 DEF AdapterAnswers
  <2>2. Head(chan_out) \in SR!Requests
    BY <1>0, <2>1 DEF TypeInv
  <2>3. a \in SR!Answers /\ a \in Items
    BY <2>2 DEF SR!Answers, SR!Requests, Items
  <2>4. wire' = wire \cup {a}
    <3> HIDE DEF a
    <3>1. Path' = Append(Path, a)
      BY <1>0, <2>1, <2>3, RxAppendsToPath
    <3>2. ToSet(Path') = ToSet(Path) \cup {a}
      BY <1>0, <2>3, <3>1 DEF ToSet
    <3> QED
      BY <1>w, <1>x, <2>1, <2>3, <3>2 DEF IsAnswer
  <2>5. SR!Answer(s)
    BY <1>3, <2>4 DEF AdapterAnswers, SR!Answer, SR!eventVars, SR!callVars, SR!histVars
  <2> QED
    BY <2>5 DEF SR!Next, SR!Send
<1>4. ASSUME UartLoop \/ ReadChanIn \/ AddCommand PROVE UNCHANGED SR!vars
  <2>1. Path' = Path /\ job' = job
    BY <1>0, <1>4, MovesKeepPath DEF UartLoop, ReadChanIn, AddCommand
  <2>2. wire' = wire
    BY <1>w, <1>x, <2>1
  <2> QED
    BY <1>4, <2>2 DEF UartLoop, ReadChanIn, AddCommand, syncVars, SR!vars, SR!eventVars,
        SR!callVars, SR!histVars
<1>5. ASSUME NEW w \in Workers, GetCommand(w) PROVE UNCHANGED SR!vars
  <2>1. wire' = wire
    <3>1. /\ Path # <<>> /\ job' = [job EXCEPT ![w] = Head(Path)] /\ Path' = Tail(Path)
      BY <1>0, <1>5, WorkerTakesHeadOfPath
    <3>2. ToSet(Path) = {Head(Path)} \cup ToSet(Path')
      <4>1. /\ Len(Path') = Len(Path) - 1 /\ Len(Path) \in Nat \ {0} /\ Head(Path) = Path[1]
            /\ \A i \in 1..Len(Path') : Path'[i] = Path[i + 1] /\ i + 1 \in 1..Len(Path)
            /\ DOMAIN Path = 1..Len(Path) /\ DOMAIN Path' = 1..Len(Path')
        BY <1>0, <3>1
      <4>2. \A i \in 1..Len(Path) : i = 1 \/ (i - 1 \in 1..Len(Path') /\ Path[i] = Path'[i - 1])
        BY <4>1
      <4>3. ToSet(Path) \subseteq {Head(Path)} \cup ToSet(Path')
        BY <4>1, <4>2, SMTT(30) DEF ToSet
      <4>4. \A i \in DOMAIN Path' : Path'[i] \in ToSet(Path)
        BY <4>1, Zenon DEF ToSet
      <4>5. Head(Path) \in ToSet(Path) /\ \A x \in ToSet(Path') : \E i \in DOMAIN Path' : x = Path'[i]
        BY <4>1 DEF ToSet
      <4> QED
        BY <4>3, <4>4, <4>5
    <3>3. job[w] = NoJob /\ ~IsAnswer(NoJob)
      BY <1>5, Kinds DEF GetCommand, IsAnswer, Items
    <3>4. job'[w] = Head(Path) /\ \A v \in Workers \ {w} : job'[v] = job[v]
      BY <1>0, <3>1 DEF TypeInv
    <3>5. \A a : IsAnswer(a) => (Holds(a) <=> Holds(a)')
      BY <3>2, <3>3, <3>4
    <3> QED
      BY <1>w, <1>x, <3>5
  <2> QED
    BY <1>5, <2>1 DEF GetCommand, syncVars, SR!vars, SR!eventVars, SR!callVars, SR!histVars
<1>6. ASSUME NEW w \in Workers, EmitAnswer(w) PROVE SR!Next
  <2>1. job[w] \in wire /\ job' = [job EXCEPT ![w] = NoJob] /\ Path' = Path
    BY <1>6 DEF EmitAnswer, Path
  <2>2. IsAnswer(job[w]) /\ ~IsAnswer(NoJob)
    BY <1>w, <2>1, Kinds DEF IsAnswer, Items
  <2>3. job[w] \notin ToSet(Path)
    <3>1. DOMAIN Path = 1..Len(Path)
      BY <1>0, LenProperties
    <3> QED
      BY <2>2, <3>1 DEF OnceInv, OneKind, ToSet
  <2>4. \A v \in Workers \ {w} : job[v] # job[w]
    BY <2>2 DEF OnceInv, OncePerKind
  <2>5. job'[w] = NoJob /\ \A v \in Workers \ {w} : job'[v] = job[v]
    BY <1>0, <2>1 DEF TypeInv
  <2>6. \A a : IsAnswer(a) => (Holds(a)' <=> Holds(a) /\ a # job[w])
    BY <2>1, <2>2, <2>3, <2>4, <2>5
  <2>7. wire' = wire \ {job[w]}
    BY <1>w, <1>x, <2>6
  <2>8. SR!HandleAnswer(job[w])
    BY <1>6, <2>7 DEF EmitAnswer, SR!HandleAnswer, SR!callVars
  <2> QED
    BY <2>1, <2>8 DEF SR!Next
<1>7. ASSUME NEW w \in Workers, HandlerDone(w) PROVE UNCHANGED SR!vars
  <2>1. job[w] \in Messages /\ job' = [job EXCEPT ![w] = NoJob] /\ Path' = Path
    BY <1>7 DEF HandlerDone, Path
  <2>2. ~IsAnswer(job[w]) /\ ~IsAnswer(NoJob)
    BY <2>1, Kinds DEF IsAnswer, Items
  <2>3. job'[w] = NoJob /\ \A v \in Workers \ {w} : job'[v] = job[v]
    BY <1>0, <2>1 DEF TypeInv
  <2>4. \A a : IsAnswer(a) => (Holds(a)' <=> Holds(a))
    BY <2>1, <2>2, <2>3
  <2>5. wire' = wire
    BY <1>w, <1>x, <2>4
  <2> QED
    BY <1>7, <2>5 DEF HandlerDone, syncVars, SR!vars, SR!eventVars, SR!callVars, SR!histVars
<1>8. ASSUME NEW w \in Workers, NEW i \in CmdIds, HandlerCalls(w, i) PROVE SR!Next
  BY <1>8 DEF HandlerCalls, SR!Next, Threads
<1>9. ASSUME NEW t \in Others, NEW i \in CmdIds, OtherCalls(t, i) PROVE SR!Next
  BY <1>9 DEF OtherCalls, SR!Next, Threads
<1>10. ASSUME NEW t \in Threads, CallProgress(t) \/ TimeOut(t) PROVE SR!Next
  BY <1>10 DEF CallProgress, TimeOut, SR!Next, SR!ThreadStep
<1>11. ASSUME UNCHANGED vars PROVE UNCHANGED SR!vars
  BY <1>11 DEF vars, inVars, syncVars, wire, InFlight, SR!vars, SR!eventVars, SR!callVars, SR!histVars
<1> QED
  BY <1>1, <1>2, <1>3, <1>4, <1>5, <1>6, <1>7, <1>8, <1>9, <1>10, <1>11, StepCases

\* Whatever the capacities and the number of workers, callers and frames, the queues, the
\* channels and the workers of the pipeline are the unordered wire of SyncRequest: they
\* lose no answer, copy none and invent none (uart.cpp:51-87, zdo.cpp:55-115).
THEOREM Refines == Spec => ImplementsSyncRequest
<1>1. Init => SR!Init
  BY DEF Init
<1>2. Init => OnceInv
  BY OnceInit
<1> QED
  BY <1>1, <1>2, OnceStep, RefinementStep, PTL DEF Spec, ImplementsSyncRequest, SR!Spec

-----------------------------------------------------------------------------
(* What is proved of the requests holds through the pipeline.              *)

\* The same instance of SyncRequest, with its theorems.
Proved == INSTANCE SyncRequestProofs

LEMMA SameSpecification == SR!Spec => Proved!Spec
<1>1. SR!Init => Proved!Init
  BY DEF SR!Init, Proved!Init
<1>2. [SR!Next]_(SR!vars) => [Proved!Next]_(Proved!vars)
  BY Zenon
     DEF SR!Next, SR!ThreadStep, SR!Send, SR!WriteRequest, SR!Awake, SR!ReadArgument,
         SR!TimeOut, SR!ClearEvent, SR!SendFails, SR!Answer, SR!LoseAnswer, SR!HandleAnswer,
         SR!RecordClear, SR!RecordWrite, SR!RecordEmit, SR!Emit, SR!Clear, SR!EventIsSet,
         SR!UnderWay, SR!InCall, SR!Statuses, SR!eventVars, SR!callVars, SR!histVars, SR!vars,
         Proved!Next, Proved!ThreadStep, Proved!Send, Proved!WriteRequest, Proved!Awake,
         Proved!ReadArgument, Proved!TimeOut, Proved!ClearEvent, Proved!SendFails,
         Proved!Answer, Proved!LoseAnswer, Proved!HandleAnswer, Proved!RecordClear,
         Proved!RecordWrite, Proved!RecordEmit, Proved!Emit, Proved!Clear,
         Proved!EventIsSet, Proved!UnderWay, Proved!InCall, Proved!Statuses,
         Proved!eventVars, Proved!callVars, Proved!histVars, Proved!vars
<1> QED
  BY <1>1, <1>2, PTL DEF SR!Spec, Proved!Spec

LEMMA ConstantsFit == Proved!CapAssumption /\ Proved!NotAnswers
BY PipelineAssumption
   DEF Proved!CapAssumption, Proved!NotAnswers, Proved!Answers, SR!Answers,
       Proved!Statuses, SR!Statuses

\* A synchronous request that goes through the queues and the pool keeps the promise of
\* SyncCall: its result is no older than its request, is empty only when another call took
\* part, and is the answer to its own request when nothing disturbed it (zdo.cpp:838-898).
THEOREM RequestsThroughThePipeline ==
    Spec => /\ Proved!ImplementsSyncCall
            /\ []Proved!ResultIsFresh
            /\ []Proved!EmptyOnlyIfContended
            /\ []Proved!QuietCallGetsOwnAnswer
BY Refines, SameSpecification, ConstantsFit, Proved!KeepsPromise, Proved!FreshResults,
   Proved!NoUncontendedEmpty, Proved!OwnAnswers, PTL
   DEF ImplementsSyncRequest

-----------------------------------------------------------------------------
(* Below the pipeline: what SerialLink makes of the adapter's bytes.       *)

\* Every nonempty set of naturals has a least element: the proofs below that would be by
\* induction take the least counterexample.
LEMMA Least ==
    ASSUME NEW T, T \subseteq Nat, T # {}
    PROVE  \E n \in T : \A m \in T : n <= m
<1>1. PICK k \in T : TRUE
  OBVIOUS
<1> DEFINE F == {0..n : n \in {n \in T : n <= k}}
<1>2. IsWellFoundedOn(StrictSubsetOrdering(0..k), SUBSET (0..k))
  <2>1. IsFiniteSet(0..k)
    BY FS_Interval
  <2>2. FiniteSubsetsOf(0..k) = SUBSET (0..k)
    BY <2>1, FS_FiniteSubsetsOfFinite
  <2> QED
    BY <2>2, FS_StrictSubsetOrderingWellFounded
<1>3. F \subseteq SUBSET (0..k) /\ F # {}
  OBVIOUS
<1>4. PICK X \in F : \A Y \in F : <<Y, X>> \notin StrictSubsetOrdering(0..k)
  BY <1>2, <1>3, WFMin
<1>5. PICK n \in T : n <= k /\ X = 0..n
  OBVIOUS
<1>6. ASSUME NEW m \in T, m < n PROVE FALSE
  <2>1. 0..m \in F
    BY <1>5, <1>6
  <2>2. 0..m \in SUBSET (0..k) /\ X \in SUBSET (0..k) /\ 0..m \subseteq X /\ 0..m # X
    BY <1>5, <1>6
  <2> QED
    BY <1>4, <2>1, <2>2 DEF StrictSubsetOrdering
<1> QED
  BY <1>5, <1>6

-----------------------------------------------------------------------------
(* The check sum: one byte that differs makes it differ.                   *)

\* s[n] is the sum of start and of the first n bytes.
SumsTo(m, start, bytes, s) ==
    /\ s \in [0..m -> Byte] /\ s[0] = start
    /\ \A n \in 1..m : s[n] = ExclOr(s[n - 1], bytes[n])

LEMMA SumsExist ==
    ASSUME NEW start \in Byte, NEW bytes \in Seq(Byte), NEW m \in 0..Len(bytes)
    PROVE  \E s : SumsTo(m, start, bytes, s)
<1> DEFINE T == {n \in 0..Len(bytes) : ~\E s : SumsTo(n, start, bytes, s)}
<1> SUFFICES ASSUME T # {} PROVE FALSE
  OBVIOUS
<1>1. PICK k \in T : \A n \in T : k <= n
  <2>1. T \subseteq Nat
    BY LenProperties
  <2> QED
    BY <2>1, Least
<1>2. Len(bytes) \in Nat /\ k \in 0..Len(bytes)
  BY LenProperties
<1>3. CASE k = 0
  <2>1. SumsTo(0, start, bytes, [n \in 0..0 |-> start])
    BY DEF SumsTo
  <2> QED
    BY <1>3, <2>1
<1>4. CASE k # 0
  <2>1. k - 1 \in 0..Len(bytes) /\ k - 1 \notin T
    BY <1>1, <1>2, <1>4
  <2>2. PICK s : SumsTo(k - 1, start, bytes, s)
    BY <2>1
  <2> DEFINE s2 == [n \in 0..k |-> IF n = k THEN ExclOr(s[k - 1], bytes[k]) ELSE s[n]]
  <2>3. s[k - 1] \in Byte /\ bytes[k] \in Byte
    BY <1>2, <1>4, <2>2, ElementOfSeq DEF SumsTo
  <2>4. ExclOr(s[k - 1], bytes[k]) \in Byte
    BY <2>3, XorAssumption
  <2>5. s2 \in [0..k -> Byte]
    BY <1>2, <1>4, <2>2, <2>4 DEF SumsTo
  <2>6. s2[0] = start
    BY <1>2, <1>4, <2>2 DEF SumsTo
  <2>7. ASSUME NEW n \in 1..k PROVE s2[n] = ExclOr(s2[n - 1], bytes[n])
    <3>1. n - 1 \in 0..k /\ n - 1 # k /\ s2[n - 1] = s[n - 1]
      BY <1>2, <1>4
    <3>2. CASE n = k
      BY <3>1, <3>2
    <3>3. CASE n # k
      <4>1. n \in 1..(k - 1) /\ s2[n] = s[n]
        BY <1>2, <3>3
      <4> QED
        BY <2>2, <3>1, <4>1 DEF SumsTo
    <3> QED
      BY <3>2, <3>3
  <2>8. SumsTo(k, start, bytes, s2)
    BY <2>5, <2>6, <2>7 DEF SumsTo
  <2> QED
    BY <2>8
<1> QED
  BY <1>3, <1>4

StartOf(cmd0, cmd1, bytes) == ExclOr(ExclOr(Len(bytes), cmd0), cmd1)

LEMMA FcsIsTheSum ==
    ASSUME NEW cmd0 \in Byte, NEW cmd1 \in Byte, NEW bytes \in Seq(Byte), Len(bytes) \in Byte
    PROVE  \E s : /\ SumsTo(Len(bytes), StartOf(cmd0, cmd1, bytes), bytes, s)
                  /\ fcs(cmd0, cmd1, bytes) = s[Len(bytes)]
<1> DEFINE start == StartOf(cmd0, cmd1, bytes)
           m == Len(bytes)
           Is(s) == s = [n \in 0..m |-> IF n = 0 THEN start ELSE ExclOr(s[n - 1], bytes[n])]
<1>1. start \in Byte /\ m \in Nat
  BY XorAssumption, LenProperties DEF StartOf
<1>2. PICK s : SumsTo(m, start, bytes, s)
  BY <1>1, SumsExist
<1>3. Is(s)
  <2> DEFINE g == [n \in 0..m |-> IF n = 0 THEN start ELSE ExclOr(s[n - 1], bytes[n])]
  <2>1. \A n \in 0..m : s[n] = g[n]
    BY <1>1, <1>2 DEF SumsTo
  <2>2. s = [n \in 0..m |-> s[n]]
    BY <1>2 DEF SumsTo
  <2> QED
    BY <2>1, <2>2
<1> DEFINE sum == CHOOSE x : Is(x)
<1>4. Is(sum)
  BY <1>3
<1>5. fcs(cmd0, cmd1, bytes) = sum[m]
  BY DEF fcs, StartOf
<1> HIDE DEF sum, start
<1>6. SumsTo(m, start, bytes, sum)
  <2>1. DOMAIN sum = 0..m /\ sum[0] = start /\ \A n \in 1..m : sum[n] = ExclOr(sum[n - 1], bytes[n])
    BY <1>1, <1>4
  <2>2. ASSUME NEW n \in 0..m PROVE sum[n] \in Byte
    <3> DEFINE T == {n2 \in 0..m : sum[n2] \notin Byte}
    <3>1. SUFFICES ASSUME T # {} PROVE FALSE
      OBVIOUS
    <3>2. PICK k \in T : \A n2 \in T : k <= n2
      <4>1. T \subseteq Nat
        BY <1>1
      <4> HIDE DEF T
      <4> QED
        BY <3>1, <4>1, Least
    <3>3. k # 0
      BY <1>1, <2>1
    <3>4. k - 1 \in 0..m /\ k - 1 \notin T
      BY <1>1, <3>2, <3>3
    <3>5. sum[k - 1] \in Byte /\ bytes[k] \in Byte /\ k \in 1..m
      BY <1>1, <3>3, <3>4, ElementOfSeq
    <3> QED
      BY <2>1, <3>5, XorAssumption
  <2>3. sum = [n \in 0..m |-> sum[n]]
    BY <1>4, <2>1
  <2> QED
    BY <2>1, <2>2, <2>3 DEF SumsTo
<1> QED
  BY <1>5, <1>6 DEF start

LEMMA Cancel ==
    ASSUME NEW a \in Byte, NEW b \in Byte, NEW c \in Byte
    PROVE  /\ ExclOr(a, c) = ExclOr(b, c) => a = b
           /\ ExclOr(a, b) = ExclOr(a, c) => b = c
BY XorAssumption

\* The starts or one of the bytes differ, and nothing else.
DifferAt(k, m, a, p, b, q) ==
    k \in 0..m /\ (k = 0 <=> a # b) /\ \A n \in 1..m : n = k <=> p[n] # q[n]

\* The sums agree before the place that differs, and differ from there on; place 0 is the start.
LEMMA SumsDiffer ==
    ASSUME NEW m \in Nat, NEW p \in [1..m -> Byte], NEW q \in [1..m -> Byte],
           NEW a \in Byte, NEW b \in Byte, NEW s, NEW t,
           SumsTo(m, a, p, s), SumsTo(m, b, q, t),
           NEW k, DifferAt(k, m, a, p, b, q)
    PROVE  s[m] # t[m]
<1> DEFINE Good(n) == IF n < k THEN s[n] = t[n] ELSE s[n] # t[n]
           T == {n \in 0..m : ~Good(n)}
<1> USE DEF DifferAt
<1>1. SUFFICES ASSUME T # {} PROVE FALSE
  OBVIOUS
<1>2. PICK n \in T : \A n2 \in T : n <= n2
  <2>1. T \subseteq Nat
    OBVIOUS
  <2> HIDE DEF T
  <2> QED
    BY <1>1, <2>1, Least
<1>3. n # 0
  BY DEF SumsTo
<1>4. n \in 1..m /\ n - 1 \in 0..m /\ n - 1 \notin T
  BY <1>2, <1>3
<1>5. Good(n - 1)
  BY <1>4
<1>6. /\ s[n] = ExclOr(s[n - 1], p[n]) /\ t[n] = ExclOr(t[n - 1], q[n])
      /\ s[n - 1] \in Byte /\ t[n - 1] \in Byte /\ p[n] \in Byte /\ q[n] \in Byte
  BY <1>4 DEF SumsTo
<1>7. CASE n < k
  BY <1>4, <1>5, <1>6, <1>7
<1>8. CASE n = k
  <2>1. s[n - 1] = t[n - 1] /\ p[n] # q[n]
    BY <1>4, <1>5, <1>8
  <2>2. s[n] # t[n]
    BY <1>6, <2>1, Cancel
  <2> QED
    BY <1>8, <2>2
<1>9. CASE n > k
  <2>1. s[n - 1] # t[n - 1] /\ p[n] = q[n]
    BY <1>4, <1>5, <1>9
  <2>2. s[n] # t[n]
    BY <1>6, <2>1, Cancel
  <2> QED
    BY <1>9, <2>2
<1> QED
  BY <1>7, <1>8, <1>9, <1>4

\* One byte differs.
OneDiffers(c0, c1, p, d0, d1, q) ==
    \/ c0 # d0 /\ c1 = d1 /\ p = q
    \/ c0 = d0 /\ c1 # d1 /\ p = q
    \/ /\ c0 = d0 /\ c1 = d1
       /\ \E k \in 1..Len(p) : \A n \in 1..Len(p) : n = k <=> p[n] # q[n]

\* Two bodies of the same length that differ in one byte have different check sums.
LEMMA FcsTells ==
    ASSUME NEW c0 \in Byte, NEW c1 \in Byte, NEW d0 \in Byte, NEW d1 \in Byte,
           NEW p \in Seq(Byte), NEW q \in Seq(Byte), Len(p) = Len(q), Len(p) \in Byte,
           OneDiffers(c0, c1, p, d0, d1, q)
    PROVE  fcs(c0, c1, p) # fcs(d0, d1, q)
<1> DEFINE m == Len(p)
           a == StartOf(c0, c1, p)
           b == StartOf(d0, d1, q)
<1>1. m \in Nat /\ p \in [1..m -> Byte] /\ q \in [1..m -> Byte]
  BY LenProperties, SeqDef
<1>2. a \in Byte /\ b \in Byte
  BY XorAssumption DEF StartOf
<1>3. PICK s : SumsTo(m, a, p, s) /\ fcs(c0, c1, p) = s[m]
  BY FcsIsTheSum
<1>4. PICK t : SumsTo(m, b, q, t) /\ fcs(d0, d1, q) = t[m]
  BY FcsIsTheSum
<1>5. CASE p = q /\ ((c0 # d0 /\ c1 = d1) \/ (c0 = d0 /\ c1 # d1))
  <2>1. ExclOr(m, c0) \in Byte /\ ExclOr(m, d0) \in Byte
    BY XorAssumption
  <2>2. a # b
    BY <1>5, <2>1, Cancel DEF StartOf
  <2>3. DifferAt(0, m, a, p, b, q)
    BY <1>1, <1>5, <2>2 DEF DifferAt
  <2> QED
    BY <1>1, <1>2, <1>3, <1>4, <2>3, SumsDiffer
<1>6. CASE c0 = d0 /\ c1 = d1 /\ \E k \in 1..m : \A n \in 1..m : n = k <=> p[n] # q[n]
  <2>1. a = b
    BY <1>6 DEF StartOf
  <2>2. PICK k \in 1..m : \A n \in 1..m : n = k <=> p[n] # q[n]
    BY <1>6
  <2>3. DifferAt(k, m, a, p, b, q)
    BY <1>1, <2>1, <2>2 DEF DifferAt
  <2> HIDE DEF a, b, m
  <2>4. SumsTo(m, a, p, s) /\ SumsTo(m, b, q, t)
    BY <1>3, <1>4
  <2>5. s[m] # t[m]
    BY <1>1, <1>2, <2>3, <2>4, SumsDiffer
  <2> QED
    BY <1>3, <1>4, <2>5
<1>7. \/ p = q /\ ((c0 # d0 /\ c1 = d1) \/ (c0 = d0 /\ c1 # d1))
      \/ c0 = d0 /\ c1 = d1 /\ \E k \in 1..m : \A n \in 1..m : n = k <=> p[n] # q[n]
  BY Zenon DEF OneDiffers
<1> QED
  BY <1>5, <1>6, <1>7
-----------------------------------------------------------------------------
(* What the inductive invariant says.                                      *)

SentBytes == [b : Byte, frame : Nat \ {0}, place : Nat \ {0}]
Commands == [cmd0 : Byte, cmd1 : Byte, payload : Seq(Byte), first : SentBytes]

LinkType ==
    /\ transmitted \in Seq(Frames)
    /\ damaged \subseteq (DOMAIN transmitted) \X Nat
    /\ line \in Seq(SentBytes) /\ rx_buff \in Seq(SentBytes)
    /\ plugged \in BOOLEAN
    /\ at \in 1..Len(rx_buff) + 1
    /\ parsed_commands \in Seq(Commands)
    /\ died \in {"no", "assert", "read"}

\* What was read last and what is under way: a stretch of what was sent.
stream == rx_buff \o line
SizeOf(n) == Len(transmitted[n].payload) + 5
SentAs(n, p) == BytesOf(transmitted[n])[p]

\* Byte y is d bytes after x: in the same frame, or after all the rest of it.
Follows(x, y, d) ==
    \/ y.frame = x.frame /\ y.place = x.place + d
    \/ y.frame > x.frame /\ d + x.place >= SizeOf(x.frame) + y.place

AreSent(s) == \A j \in DOMAIN s :
    /\ s[j].frame \in DOMAIN transmitted /\ s[j].place \in 1..SizeOf(s[j].frame)
    /\ <<s[j].frame, s[j].place>> \in damaged <=> s[j].b # SentAs(s[j].frame, s[j].place)
InOrder(s) == \A j, k \in DOMAIN s : j < k => Follows(s[j], s[k], k - j)
EndWhole(s) == \A j \in DOMAIN s : j + SizeOf(s[j].frame) <= Len(s) + s[j].place

\* The parser is never within a frame that is all there, and that it was in step before.
Known(j) ==
    /\ rx_buff[j].place = 1 /\ WholeIn(rx_buff[j].frame)
    /\ Intact(rx_buff[j].frame, {1, 2}) /\ InStep(j)
NeverInside == \A j \in DOMAIN rx_buff :
    Known(j) => at <= j \/ at >= j + SizeOf(rx_buff[j].frame)

ParsedWhole == \A k \in DOMAIN parsed_commands :
    LET c == parsed_commands[k]
        n == c.first.frame IN
    /\ n \in DOMAIN transmitted
    /\ c.first.place = 1 /\ Intact(n, {1, 2}) /\ AtMostOneDamaged(n) =>
          WholeIn(n) /\ Intact(n, Places(n)) /\ TheFrame(c) = transmitted[n]

-----------------------------------------------------------------------------
(* The bytes of a frame, and of what was sent.                             *)

LEMMA FramesAre ==
    ASSUME NEW f \in Frames
    PROVE  /\ f.cmd0 \in Byte /\ f.cmd1 \in Byte /\ f.payload \in Seq(Byte)
           /\ Len(f.payload) \in Byte /\ Len(f.payload) <= PAYLOAD_MAX_LENGTH
           /\ f = [cmd0 |-> f.cmd0, cmd1 |-> f.cmd1, payload |-> f.payload]
<1>1. f \in [cmd0 : Byte, cmd1 : Byte, payload : Seq(Byte)]
  BY SerialAssumption
<1> DEFINE L == Len(f.payload)
<1>4. L <= PAYLOAD_MAX_LENGTH
  BY SerialAssumption
<1>2. L \in Nat
  BY <1>1, LenProperties
<1>3. L \in Byte
  <2>1. PAYLOAD_MAX_LENGTH \in 0..255
    BY SerialAssumption DEF Byte
  <2> HIDE DEF L
  <2> QED
    BY <1>2, <1>4, <2>1 DEF Byte
<1> QED
  BY <1>1, <1>3, <1>4

LEMMA FcsType ==
    ASSUME NEW cmd0 \in Byte, NEW cmd1 \in Byte, NEW bytes \in Seq(Byte), Len(bytes) \in Byte
    PROVE  fcs(cmd0, cmd1, bytes) \in Byte
<1>1. PICK s : /\ SumsTo(Len(bytes), StartOf(cmd0, cmd1, bytes), bytes, s)
               /\ fcs(cmd0, cmd1, bytes) = s[Len(bytes)]
  BY FcsIsTheSum
<1> QED
  BY <1>1, LenProperties DEF SumsTo

LEMMA BytesAre ==
    ASSUME NEW f \in Frames
    PROVE  LET L == Len(f.payload) IN
           /\ BytesOf(f) \in Seq(Byte) /\ Len(BytesOf(f)) = L + 5 /\ DOMAIN BytesOf(f) = 1..L + 5
           /\ BytesOf(f)[1] = SOF /\ BytesOf(f)[2] = L
           /\ BytesOf(f)[3] = f.cmd0 /\ BytesOf(f)[4] = f.cmd1
           /\ \A p \in 1..L : BytesOf(f)[4 + p] = f.payload[p]
           /\ BytesOf(f)[L + 5] = fcs(f.cmd0, f.cmd1, f.payload)
<1> DEFINE L == Len(f.payload)
           sum == fcs(f.cmd0, f.cmd1, f.payload)
           head == <<SOF, L, f.cmd0, f.cmd1>>
           last == <<sum>>
<1>1. L \in Byte /\ L \in Nat /\ f.payload \in Seq(Byte) /\ f.cmd0 \in Byte /\ f.cmd1 \in Byte
  BY FramesAre, LenProperties
<1>2. sum \in Byte
  BY <1>1, FcsType
<1> HIDE DEF sum
<1>3. head \in Seq(Byte) /\ Len(head) = 4 /\ last \in Seq(Byte) /\ Len(last) = 1 /\ last[1] = sum
  <2>1. SOF \in Byte
    BY DEF SOF, Byte
  <2> QED
    BY <1>1, <1>2, <2>1
<1> DEFINE front == head \o f.payload
<1>4. /\ front \in Seq(Byte) /\ Len(front) = 4 + L
      /\ \A p \in 1..4 : front[p] = head[p]
      /\ \A p \in 1..L : front[4 + p] = f.payload[p]
  <2> HIDE DEF head
  <2>1. /\ front \in Seq(Byte) /\ Len(front) = Len(head) + L
        /\ \A p \in 1..Len(head) + L : front[p] = IF p <= Len(head) THEN head[p] ELSE f.payload[p - Len(head)]
    BY <1>1, <1>3, ConcatProperties
  <2>2. \A p \in 1..L : 4 + p \in 1..Len(head) + L /\ ~(4 + p <= Len(head)) /\ (4 + p) - Len(head) = p
    BY <1>1, <1>3
  <2>3. \A p \in 1..4 : p \in 1..Len(head) + L /\ p <= Len(head)
    BY <1>1, <1>3
  <2> HIDE DEF L
  <2> QED
    BY <1>3, <2>1, <2>2, <2>3, SMTT(30)
<1>5. head[1] = SOF /\ head[2] = L /\ head[3] = f.cmd0 /\ head[4] = f.cmd1
  OBVIOUS
<1> HIDE DEF front, head, last
<1>6. /\ front \o last \in Seq(Byte) /\ Len(front \o last) = L + 5
      /\ \A p \in 1..4 + L : (front \o last)[p] = front[p]
      /\ (front \o last)[L + 5] = sum
  <2>1. /\ front \o last \in Seq(Byte) /\ Len(front \o last) = Len(front) + Len(last)
        /\ \A p \in 1..Len(front) + Len(last) : (front \o last)[p] = IF p <= Len(front) THEN front[p] ELSE last[p - Len(front)]
    BY <1>3, <1>4, ConcatProperties
  <2>2. /\ L + 5 \in 1..Len(front) + Len(last) /\ ~(L + 5 <= Len(front)) /\ (L + 5) - Len(front) = 1
        /\ \A p \in 1..4 + L : p \in 1..Len(front) + Len(last) /\ p <= Len(front)
        /\ Len(front) + Len(last) = L + 5
    BY <1>1, <1>3, <1>4
  <2> QED
    BY <1>3, <2>1, <2>2
<1>7. BytesOf(f) = front \o last
  BY DEF BytesOf, front, head, last, sum
<1>8. DOMAIN BytesOf(f) = 1..L + 5
  BY <1>6, <1>7, LenProperties
<1> QED
  BY <1>1, <1>4, <1>5, <1>6, <1>7, <1>8, SMTT(30) DEF sum

LEMMA SentFrame ==
    ASSUME LinkType, NEW n \in DOMAIN transmitted
    PROVE  /\ transmitted[n] \in Frames /\ n \in Nat /\ n >= 1
           /\ Len(transmitted[n].payload) \in Byte
           /\ Places(n) = 1..SizeOf(n) /\ SizeOf(n) \in Nat /\ SizeOf(n) >= 5
           /\ \A p \in Places(n) : SentAs(n, p) \in Byte
<1>1. transmitted[n] \in Frames /\ n \in Nat /\ n >= 1
  BY ElementOfSeq, LenProperties DEF LinkType
<1>2. Len(transmitted[n].payload) \in Byte /\ Len(transmitted[n].payload) \in Nat
  <2>1. Len(transmitted[n].payload) \in Byte
    BY <1>1, FramesAre, Zenon
  <2>2. \A b \in Byte : b \in Nat
    BY DEF Byte
  <2> QED
    BY <2>1, <2>2, Zenon
<1>3. BytesOf(transmitted[n]) \in Seq(Byte) /\ Places(n) = 1..SizeOf(n)
  BY <1>1, BytesAre DEF Places, SizeOf
<1>4. \A p \in Places(n) : SentAs(n, p) \in Byte
  BY <1>3, ElementOfSeq, LenProperties DEF Places, SentAs
<1> QED
  BY <1>1, <1>2, <1>3, <1>4 DEF SizeOf

LEMMA StreamIs ==
    ASSUME LinkType
    PROVE  /\ stream \in Seq(SentBytes) /\ Len(stream) = Len(rx_buff) + Len(line)
           /\ DOMAIN stream = 1..Len(rx_buff) + Len(line)
           /\ DOMAIN rx_buff = 1..Len(rx_buff) /\ DOMAIN line = 1..Len(line)
           /\ Len(rx_buff) \in Nat /\ Len(line) \in Nat
           /\ \A j \in DOMAIN rx_buff : stream[j] = rx_buff[j] /\ rx_buff[j] \in SentBytes
           /\ \A j \in DOMAIN line : stream[Len(rx_buff) + j] = line[j] /\ line[j] \in SentBytes
<1>1. rx_buff \in Seq(SentBytes) /\ line \in Seq(SentBytes)
  BY DEF LinkType
<1>2. /\ Len(rx_buff) \in Nat /\ Len(line) \in Nat
      /\ DOMAIN rx_buff = 1..Len(rx_buff) /\ DOMAIN line = 1..Len(line)
  BY <1>1, LenProperties
<1>3. /\ stream \in Seq(SentBytes) /\ Len(stream) = Len(rx_buff) + Len(line)
      /\ \A j \in 1..Len(rx_buff) + Len(line) :
            stream[j] = IF j <= Len(rx_buff) THEN rx_buff[j] ELSE line[j - Len(rx_buff)]
  BY <1>1, ConcatProperties DEF stream
<1>4. \A j \in DOMAIN rx_buff : stream[j] = rx_buff[j] /\ rx_buff[j] \in SentBytes
  BY <1>1, <1>2, <1>3, ElementOfSeq
<1>5. ASSUME NEW j \in DOMAIN line PROVE stream[Len(rx_buff) + j] = line[j] /\ line[j] \in SentBytes
  BY <1>1, <1>2, <1>3, ElementOfSeq
<1> QED
  BY <1>2, <1>3, <1>4, <1>5, LenProperties
-----------------------------------------------------------------------------
(* Where the bytes of a frame are in the buffer.                           *)

Buffer == LinkType /\ AreSent(rx_buff) /\ InOrder(rx_buff)

LEMMA BufferIs ==
    ASSUME Buffer, NEW j \in DOMAIN rx_buff
    PROVE  /\ rx_buff[j].b \in Byte
           /\ rx_buff[j].frame \in DOMAIN transmitted
           /\ rx_buff[j].place \in 1..SizeOf(rx_buff[j].frame)
           /\ <<rx_buff[j].frame, rx_buff[j].place>> \in damaged
                <=> rx_buff[j].b # SentAs(rx_buff[j].frame, rx_buff[j].place)
<1>1. rx_buff[j] \in SentBytes
  BY StreamIs DEF Buffer
<1>2. rx_buff[j].b \in Byte
  BY <1>1 DEF SentBytes
<1> QED
  BY <1>2 DEF Buffer, AreSent

LEMMA Numbers ==
    ASSUME Buffer, NEW j \in DOMAIN rx_buff
    PROVE  /\ j \in Nat /\ 1 <= j /\ j <= Len(rx_buff) /\ Len(rx_buff) \in Nat
           /\ rx_buff[j].place \in Nat /\ 1 <= rx_buff[j].place
           /\ rx_buff[j].place <= SizeOf(rx_buff[j].frame)
           /\ rx_buff[j].frame \in Nat
           /\ SizeOf(rx_buff[j].frame) \in Nat /\ SizeOf(rx_buff[j].frame) >= 5
<1> DEFINE n == rx_buff[j].frame
<1>1. DOMAIN rx_buff = 1..Len(rx_buff) /\ Len(rx_buff) \in Nat /\ rx_buff[j] \in SentBytes
  BY StreamIs DEF Buffer
<1>2. n \in Nat /\ rx_buff[j].place \in Nat
  BY <1>1 DEF SentBytes
<1>3. n \in DOMAIN transmitted /\ rx_buff[j].place \in 1..SizeOf(n)
  BY BufferIs
<1>4. SizeOf(n) \in Nat /\ SizeOf(n) >= 5
  BY <1>3, SentFrame DEF Buffer
<1> QED
  BY <1>1, <1>2, <1>3, <1>4

\* The byte d after byte j, as long as the frame lasts.
LEMMA Along ==
    ASSUME Buffer, NEW j \in DOMAIN rx_buff, NEW d \in Nat,
           j + d <= Len(rx_buff), rx_buff[j].place + d <= SizeOf(rx_buff[j].frame)
    PROVE  /\ j + d \in DOMAIN rx_buff
           /\ rx_buff[j + d].frame = rx_buff[j].frame /\ rx_buff[j + d].place = rx_buff[j].place + d
<1> DEFINE n == rx_buff[j].frame
<1>4. /\ j \in Nat /\ 1 <= j /\ n \in Nat /\ rx_buff[j].place \in Nat /\ SizeOf(n) \in Nat
      /\ DOMAIN rx_buff = 1..Len(rx_buff) /\ Len(rx_buff) \in Nat
  BY Numbers, StreamIs DEF Buffer
<1>1. j + d \in DOMAIN rx_buff
  BY <1>4
<1>2. CASE d = 0
  <2>1. j + d = j /\ rx_buff[j].place + d = rx_buff[j].place
    BY <1>2, <1>4
  <2> QED
    BY <2>1
<1>3. CASE d # 0
  <2>1. Follows(rx_buff[j], rx_buff[j + d], j + d - j)
    BY <1>1, <1>3, <1>4 DEF Buffer, InOrder
  <2>2. j + d - j = d
    BY <1>4
  <2> DEFINE y == rx_buff[j + d]
  <2>3. y.place >= 1 /\ y.place \in Nat
    BY <1>1, Numbers
  <2> HIDE DEF y
  <2>4. Follows(rx_buff[j], y, d)
    BY <2>1, <2>2, Zenon DEF y
  <2>5. y.frame = n /\ y.place = rx_buff[j].place + d
    BY <1>4, <2>3, <2>4 DEF Follows
  <2> QED
    BY <1>1, <2>5 DEF y
<1> QED
  BY <1>2, <1>3

\* A frame that is all there ends in the buffer.
LEMMA WholeEnds ==
    ASSUME Buffer, NEW j \in DOMAIN rx_buff, rx_buff[j].place = 1, WholeIn(rx_buff[j].frame)
    PROVE  j + SizeOf(rx_buff[j].frame) <= Len(rx_buff) + 1
<1> DEFINE n == rx_buff[j].frame
           size == SizeOf(n)
<1>1. n \in DOMAIN transmitted /\ size \in Nat /\ size >= 5 /\ j \in Nat /\ n \in Nat
  BY BufferIs, Numbers
<1>2. size \in Places(n)
  BY <1>1, SentFrame DEF Buffer
<1>3. PICK k \in DOMAIN rx_buff : rx_buff[k].frame = n /\ rx_buff[k].place = size
  BY <1>2 DEF WholeIn
<1>4. k \in Nat /\ k <= Len(rx_buff) /\ Len(rx_buff) \in Nat
  BY Numbers
<1>8. SizeOf(rx_buff[k].frame) = size
  BY <1>3
<1>9. rx_buff[j].frame = n /\ SizeOf(rx_buff[j].frame) = size
  OBVIOUS
<1> HIDE DEF size, n
<1>5. CASE j < k
  <2>1. Follows(rx_buff[j], rx_buff[k], k - j)
    BY <1>5 DEF Buffer, InOrder
  <2>2. size = 1 + (k - j)
    BY <1>1, <1>3, <1>4, <1>9, <2>1 DEF Follows
  <2> QED
    BY <1>1, <1>4, <1>9, <2>2, SMTT(30)
<1>6. CASE k < j
  <2>1. Follows(rx_buff[k], rx_buff[j], j - k)
    BY <1>6 DEF Buffer, InOrder
  <2>2. 1 = size + (j - k)
    BY <1>1, <1>3, <1>4, <1>8, <1>9, <2>1 DEF Follows
  <2> QED
    BY <1>1, <1>4, <1>6, <2>2
<1>7. j # k
  BY <1>1, <1>3
<1> QED
  BY <1>1, <1>4, <1>5, <1>6, <1>7, <1>9

\* The start of the frame that a byte is in.
LEMMA StartsBefore ==
    ASSUME Buffer, NEW j \in DOMAIN rx_buff, WholeIn(rx_buff[j].frame)
    PROVE  \E s \in DOMAIN rx_buff :
                rx_buff[s].frame = rx_buff[j].frame /\ rx_buff[s].place = 1
                /\ j = s + (rx_buff[j].place - 1)
<1> DEFINE n == rx_buff[j].frame
<1>1. 1 \in Places(n)
  <2>1. n \in DOMAIN transmitted
    BY BufferIs, Zenon
  <2>2. Places(n) = 1..SizeOf(n) /\ SizeOf(n) \in Nat /\ SizeOf(n) >= 5
    BY <2>1, SentFrame DEF Buffer
  <2> QED
    BY <2>2
<1>2. PICK s \in DOMAIN rx_buff : rx_buff[s].frame = n /\ rx_buff[s].place = 1
  BY <1>1 DEF WholeIn
<1>3. /\ s \in Nat /\ j \in Nat /\ rx_buff[j].place \in Nat /\ rx_buff[j].place >= 1 /\ n \in Nat
      /\ rx_buff[j].place <= SizeOf(n)
  BY Numbers
<1>4. CASE s < j
  <2>1. Follows(rx_buff[s], rx_buff[j], j - s)
    BY <1>4 DEF Buffer, InOrder
  <2>2. rx_buff[j].place = 1 + (j - s)
    BY <1>2, <1>3, <2>1 DEF Follows
  <2> QED
    BY <1>2, <1>3, <2>2
<1>5. CASE s = j
  BY <1>2, <1>3, <1>5
<1>6. CASE j < s
  <2>1. Follows(rx_buff[j], rx_buff[s], s - j)
    BY <1>6 DEF Buffer, InOrder
  <2>2. 1 = rx_buff[j].place + (s - j)
    BY <1>2, <1>3, <2>1 DEF Follows
  <2> QED
    BY <1>3, <1>6, <2>2
<1> QED
  BY <1>3, <1>4, <1>5, <1>6

\* A start after a byte is after the rest of that byte's frame.
LEMMA NextStart ==
    ASSUME Buffer, NEW j \in DOMAIN rx_buff, NEW k \in DOMAIN rx_buff, j < k, rx_buff[k].place = 1
    PROVE  k + rx_buff[j].place >= j + SizeOf(rx_buff[j].frame) + 1
<1>1. Follows(rx_buff[j], rx_buff[k], k - j)
  BY DEF Buffer, InOrder
<1>2. j \in Nat /\ k \in Nat /\ rx_buff[j].place \in Nat /\ rx_buff[j].place >= 1 /\ SizeOf(rx_buff[j].frame) \in Nat
  BY Numbers
<1> QED
  BY <1>1, <1>2 DEF Follows

-----------------------------------------------------------------------------
(* The turns of the parser.                                                *)

\* A frame that starts where the parser is, with its start and length, and that fits in the
\* buffer: its bytes are there in their order.
FrameHere ==
    /\ at \in DOMAIN rx_buff /\ rx_buff[at].place = 1
    /\ Intact(rx_buff[at].frame, {1, 2})
    /\ at + SizeOf(rx_buff[at].frame) <= Len(rx_buff) + 1

LEMMA ReadsFrame ==
    ASSUME Buffer, FrameHere
    PROVE  LET n == rx_buff[at].frame
               L == Len(transmitted[n].payload) IN
           /\ n \in DOMAIN transmitted /\ transmitted[n] \in Frames /\ L \in Nat
           /\ SizeOf(n) = L + 5 /\ Places(n) = 1..L + 5
           /\ at \in Nat /\ Len(rx_buff) \in Nat /\ at + L + 4 <= Len(rx_buff)
           /\ rx_buff[at].b = SOF /\ payload_length = L
           /\ WholeIn(n)
           /\ \A d \in 0..L + 4 :
                /\ rx_buff[at + d].b \in Byte
                /\ <<n, 1 + d>> \in damaged <=> rx_buff[at + d].b # SentAs(n, 1 + d)
<1> DEFINE n == rx_buff[at].frame
           L == Len(transmitted[n].payload)
<1>1. at \in DOMAIN rx_buff /\ rx_buff[at].place = 1 /\ n \in DOMAIN transmitted
  <2>1. n \in DOMAIN transmitted
    BY BufferIs, Zenon DEF FrameHere
  <2> QED
    BY <2>1 DEF FrameHere
<1>2. transmitted[n] \in Frames /\ L \in Nat /\ SizeOf(n) = L + 5 /\ Places(n) = 1..L + 5
  BY <1>1, SentFrame, FramesAre, LenProperties DEF Buffer, SizeOf
<1>3. at \in Nat /\ Len(rx_buff) \in Nat /\ 1 <= at
  BY <1>1, Numbers
<1>4. at + L + 4 <= Len(rx_buff)
  BY <1>2, <1>3 DEF FrameHere
<1>5. ASSUME NEW d \in 0..L + 4
      PROVE  /\ at + d \in DOMAIN rx_buff
             /\ rx_buff[at + d].frame = n /\ rx_buff[at + d].place = 1 + d
  <2>1. d \in Nat /\ at + d <= Len(rx_buff) /\ rx_buff[at].place + d <= SizeOf(n)
    BY <1>1, <1>2, <1>3, <1>4, SMTT(30)
  <2> QED
    BY <1>1, <2>1, Along
<1>6. ASSUME NEW d \in 0..L + 4
      PROVE  /\ rx_buff[at + d].b \in Byte
             /\ <<n, 1 + d>> \in damaged <=> rx_buff[at + d].b # SentAs(n, 1 + d)
  <2> DEFINE x == rx_buff[at + d]
  <2>1. /\ x.b \in Byte
        /\ <<x.frame, x.place>> \in damaged <=> x.b # SentAs(x.frame, x.place)
    BY <1>5, BufferIs
  <2>2. x.frame = n /\ x.place = 1 + d
    BY <1>5
  <2> QED
    BY <2>1, <2>2
<1>7. SentAs(n, 1) = SOF /\ SentAs(n, 2) = L
  BY <1>2, BytesAre DEF SentAs
<1>8. <<n, 1>> \notin damaged /\ <<n, 2>> \notin damaged
  BY DEF FrameHere, Intact
<1>9. rx_buff[at + 0].b = SOF /\ at + 0 = at
  <2>1. 0 \in 0..L + 4 /\ 1 + 0 = 1 /\ at + 0 = at
    BY <1>2, <1>3
  <2> QED
    BY <1>6, <1>7, <1>8, <2>1
<1>10. payload_length = L
  <2>1. 1 \in 0..L + 4 /\ 1 + 1 = 2
    BY <1>2
  <2> QED
    BY <1>6, <1>7, <1>8, <2>1 DEF payload_length
<1>11. WholeIn(n)
  <2> SUFFICES ASSUME NEW p \in Places(n)
               PROVE  \E j \in DOMAIN rx_buff : rx_buff[j].frame = n /\ rx_buff[j].place = p
    BY DEF WholeIn
  <2>1. p - 1 \in 0..L + 4 /\ 1 + (p - 1) = p
    BY <1>2
  <2> QED
    BY <1>5, <2>1
<1> QED
  BY <1>1, <1>2, <1>3, <1>4, <1>6, <1>9, <1>10, <1>11

FcsHere == fcs(CommandHere.cmd0, CommandHere.cmd1, CommandHere.payload)

LEMMA CommandIs ==
    ASSUME Buffer, FrameHere
    PROVE  LET n == rx_buff[at].frame
               L == Len(transmitted[n].payload) IN
           /\ CommandHere.cmd0 = rx_buff[at + 2].b /\ CommandHere.cmd1 = rx_buff[at + 3].b
           /\ CommandHere.payload = [p \in 1..L |-> rx_buff[at + 3 + p].b]
           /\ CommandHere.first = rx_buff[at]
           /\ CommandHere.cmd0 \in Byte /\ CommandHere.cmd1 \in Byte
           /\ CommandHere.payload \in Seq(Byte) /\ Len(CommandHere.payload) = L
<1> DEFINE n == rx_buff[at].frame
           L == Len(transmitted[n].payload)
           q == [p \in 1..L |-> rx_buff[at + 3 + p].b]
<1>1. L \in Nat /\ at \in Nat /\ payload_length = L /\ \A d \in 0..L + 4 : rx_buff[at + d].b \in Byte
  BY ReadsFrame
<1>2. /\ CommandHere.cmd0 = rx_buff[at + 2].b /\ CommandHere.cmd1 = rx_buff[at + 3].b
      /\ CommandHere.payload = q /\ CommandHere.first = rx_buff[at]
  BY <1>1 DEF CommandHere
<1>3. \A p \in 1..L : rx_buff[at + 3 + p].b \in Byte
  <2>1. \A p \in 1..L : 3 + p \in 0..L + 4 /\ at + (3 + p) = at + 3 + p
    BY <1>1
  <2> QED
    BY <1>1, <2>1
<1>4. q \in [1..L -> Byte]
  BY <1>3
<1>5. q \in Seq(Byte) /\ Len(q) = L
  <2> HIDE DEF q
  <2>1. q \in Seq(Byte)
    BY <1>1, <1>4, SeqDef
  <2> QED
    BY <1>1, <1>4, <2>1, LenProperties
<1>6. rx_buff[at + 2].b \in Byte /\ rx_buff[at + 3].b \in Byte
  <2>1. 2 \in 0..L + 4 /\ 3 \in 0..L + 4
    BY <1>1
  <2> QED
    BY <1>1, <2>1
<1> QED
  BY <1>2, <1>5, <1>6

\* The check sum tells whether the frame came undamaged, if one byte of it at most is not.
LEMMA SumTells ==
    ASSUME Buffer, FrameHere, AtMostOneDamaged(rx_buff[at].frame) \/ Intact(rx_buff[at].frame, Places(rx_buff[at].frame))
    PROVE  LET n == rx_buff[at].frame IN
           /\ rx_buff[SumAt].b = FcsHere <=> Intact(n, Places(n))
           /\ Intact(n, Places(n)) => TheFrame(CommandHere) = transmitted[n]
<1> DEFINE n == rx_buff[at].frame
           f == transmitted[n]
           L == Len(f.payload)
           c == CommandHere
           W(d) == rx_buff[at + d].b
<1>1. /\ n \in DOMAIN transmitted /\ f \in Frames /\ L \in Nat /\ Places(n) = 1..L + 5
      /\ payload_length = L /\ at \in Nat
  BY ReadsFrame
<1>2. \A d \in 0..L + 4 : W(d) \in Byte /\ (<<n, 1 + d>> \in damaged <=> W(d) # SentAs(n, 1 + d))
  BY ReadsFrame
<1>3. /\ c.cmd0 = W(2) /\ c.cmd1 = W(3)
      /\ c.payload = [p \in 1..L |-> rx_buff[at + 3 + p].b]
      /\ c.cmd0 \in Byte /\ c.cmd1 \in Byte /\ c.payload \in Seq(Byte) /\ Len(c.payload) = L
  BY CommandIs
<1>4. \A p \in 1..L : c.payload[p] = W(3 + p)
  <2>1. \A p \in 1..L : at + (3 + p) = at + 3 + p
    BY <1>1
  <2> QED
    BY <1>3, <2>1
<1>5. rx_buff[SumAt].b = W(4 + L)
  <2>1. SumAt = at + (4 + L)
    <3> HIDE DEF L
    <3> QED
      BY <1>1 DEF SumAt
  <2> QED
    BY <2>1
<1>6. /\ SentAs(n, 3) = f.cmd0 /\ SentAs(n, 4) = f.cmd1
      /\ \A p \in 1..L : SentAs(n, 4 + p) = f.payload[p]
      /\ SentAs(n, L + 5) = fcs(f.cmd0, f.cmd1, f.payload)
  BY <1>1, BytesAre DEF SentAs
<1>7. f.cmd0 \in Byte /\ f.cmd1 \in Byte /\ f.payload \in Seq(Byte) /\ L \in Byte
      /\ f = [cmd0 |-> f.cmd0, cmd1 |-> f.cmd1, payload |-> f.payload]
  BY <1>1, FramesAre
<1>8. <<n, 1>> \notin damaged /\ <<n, 2>> \notin damaged
  BY DEF FrameHere, Intact
<1> HIDE DEF W, c
\* Byte by byte: what is not damaged is read as it was sent.
<1>9. /\ <<n, 3>> \in damaged <=> c.cmd0 # f.cmd0
      /\ <<n, 4>> \in damaged <=> c.cmd1 # f.cmd1
      /\ <<n, L + 5>> \in damaged <=> rx_buff[SumAt].b # fcs(f.cmd0, f.cmd1, f.payload)
  <2>1. 2 \in 0..L + 4 /\ 1 + 2 = 3 /\ 3 \in 0..L + 4 /\ 1 + 3 = 4 /\ 4 + L \in 0..L + 4 /\ 1 + (4 + L) = L + 5
    BY <1>1, SMTT(30)
  <2> HIDE DEF L, f, n
  <2> QED
    BY <1>2, <1>3, <1>5, <1>6, <2>1
<1>10. \A p \in 1..L : <<n, 4 + p>> \in damaged <=> c.payload[p] # f.payload[p]
  <2> SUFFICES ASSUME NEW p \in 1..L PROVE <<n, 4 + p>> \in damaged <=> c.payload[p] # f.payload[p]
    OBVIOUS
  <2>1. 3 + p \in 0..L + 4 /\ 1 + (3 + p) = 4 + p
    BY <1>1
  <2> HIDE DEF L, f, n
  <2> QED
    BY <1>2, <1>4, <1>6, <2>1
<1>11. /\ c.payload = [p \in 1..L |-> c.payload[p]]
       /\ f.payload = [p \in 1..L |-> f.payload[p]]
  BY <1>3, <1>7, LenProperties
<1>12. (\A p \in 1..L : c.payload[p] = f.payload[p]) => c.payload = f.payload
  BY <1>11
<1>13. ASSUME Intact(n, Places(n))
       PROVE  rx_buff[SumAt].b = FcsHere /\ TheFrame(c) = f
  <2>1. 3 \in Places(n) /\ 4 \in Places(n) /\ L + 5 \in Places(n) /\ \A p \in 1..L : 4 + p \in Places(n)
    BY <1>1, SMTT(30)
  <2>2. /\ <<n, 3>> \notin damaged /\ <<n, 4>> \notin damaged /\ <<n, L + 5>> \notin damaged
        /\ \A p \in 1..L : <<n, 4 + p>> \notin damaged
    BY <1>13, <2>1 DEF Intact
  <2>3. c.cmd0 = f.cmd0 /\ c.cmd1 = f.cmd1 /\ c.payload = f.payload
        /\ rx_buff[SumAt].b = fcs(f.cmd0, f.cmd1, f.payload)
    BY <1>9, <1>10, <1>12, <2>2
  <2> QED
    BY <1>7, <2>3 DEF FcsHere, TheFrame, c
<1>14. ASSUME ~Intact(n, Places(n))
       PROVE  rx_buff[SumAt].b # FcsHere
  <2>1. PICK p \in Places(n) : <<n, p>> \in damaged
    BY <1>14 DEF Intact
  <2>2. \A k \in Nat : <<n, k>> \in damaged => k = p
    BY <1>14, <2>1 DEF AtMostOneDamaged
  <2>3. p \in Nat /\ p >= 3 /\ p <= L + 5
    BY <1>1, <1>8, <2>1
  <2>4. CASE p = L + 5
    <3>1. <<n, 3>> \notin damaged /\ <<n, 4>> \notin damaged /\ \A k \in 1..L : <<n, 4 + k>> \notin damaged
      <4>1. 3 # p /\ 4 # p /\ \A k \in 1..L : 4 + k \in Nat /\ 4 + k # p
        <5> HIDE DEF L
        <5> QED
          BY <1>1, <2>4
      <4> QED
        BY <2>2, <4>1
    <3>2. c.cmd0 = f.cmd0 /\ c.cmd1 = f.cmd1 /\ c.payload = f.payload
      BY <1>9, <1>10, <1>12, <3>1
    <3> QED
      BY <1>9, <2>1, <2>4, <3>2 DEF FcsHere, c
  <2>5. CASE p # L + 5
    <3>1. rx_buff[SumAt].b = fcs(f.cmd0, f.cmd1, f.payload)
      BY <1>1, <1>9, <2>2, <2>5
    <3>2. /\ p = 3 <=> c.cmd0 # f.cmd0
          /\ p = 4 <=> c.cmd1 # f.cmd1
      <4>1. \A k \in Nat : <<n, k>> \in damaged <=> k = p
        BY <2>1, <2>2
      <4> QED
        BY <1>9, <4>1
    <3>3. \A k \in 1..L : 4 + k = p <=> c.payload[k] # f.payload[k]
      <4>1. \A k \in 1..L : 4 + k \in Nat
        BY <1>1
      <4>2. \A k \in 1..L : <<n, 4 + k>> \in damaged <=> 4 + k = p
        BY <2>1, <2>2, <4>1
      <4> QED
        BY <1>10, <4>2
    <3>4. Len(c.payload) = L
      BY <1>3
    <3>5. OneDiffers(c.cmd0, c.cmd1, c.payload, f.cmd0, f.cmd1, f.payload)
      <4>1. CASE p = 3 \/ p = 4
        <5>1. \A k \in 1..L : 4 + k # p
          BY <1>1, <4>1
        <5>2. c.payload = f.payload
          BY <1>12, <3>3, <5>1
        <5> QED
          BY <3>2, <4>1, <5>2 DEF OneDiffers
      <4>2. CASE p > 4
        <5> DEFINE k == p - 4
        <5>1. k \in 1..L /\ \A j \in 1..L : j = k <=> 4 + j = p
          <6> HIDE DEF L
          <6> QED
            BY <1>1, <2>3, <2>5, <4>2, SMTT(30)
        <5>2. \A j \in 1..L : j = k <=> c.payload[j] # f.payload[j]
          BY <3>3, <5>1
        <5>3. c.cmd0 = f.cmd0 /\ c.cmd1 = f.cmd1
          BY <3>2, <4>2, <2>3
        <5> HIDE DEF k, L
        <5>4. \E k2 \in 1..L : \A j \in 1..L : j = k2 <=> c.payload[j] # f.payload[j]
          BY <5>1, <5>2, Zenon
        <5> QED
          BY <3>4, <5>3, <5>4, Zenon DEF OneDiffers
      <4> QED
        BY <2>3, <4>1, <4>2
    <3>6. fcs(c.cmd0, c.cmd1, c.payload) # fcs(f.cmd0, f.cmd1, f.payload)
      <4>1. Len(c.payload) = Len(f.payload) /\ Len(c.payload) \in Byte
        BY <1>3, <1>7
      <4>2. /\ c.cmd0 \in Byte /\ c.cmd1 \in Byte /\ c.payload \in Seq(Byte)
            /\ f.cmd0 \in Byte /\ f.cmd1 \in Byte /\ f.payload \in Seq(Byte)
        BY <1>3, <1>7
      <4> HIDE DEF L, f
      <4> QED
        BY <3>5, <4>1, <4>2, FcsTells, Zenon
    <3> QED
      BY <3>1, <3>6 DEF FcsHere, c
  <2> QED
    BY <2>4, <2>5
<1> QED
  BY <1>13, <1>14 DEF c

\* At the start of a frame that is all there the head is read as it was sent.
LEMMA AtAFrame ==
    ASSUME Buffer, NEW j \in DOMAIN rx_buff, Known(j), at = j
    PROVE  LET n == rx_buff[j].frame IN
           /\ FrameHere /\ AtHead /\ Fits /\ payload_length = Len(transmitted[n].payload)
           /\ SumAt + 1 = j + SizeOf(n) /\ SumAt <= Len(rx_buff)
           /\ SumAt \in Nat /\ Len(rx_buff) \in Nat
<1> DEFINE n == rx_buff[at].frame
           L == Len(transmitted[n].payload)
<1>1. FrameHere
  BY WholeEnds DEF FrameHere, Known
<1>2. /\ n \in DOMAIN transmitted /\ L \in Nat /\ SizeOf(n) = L + 5 /\ at \in Nat /\ Len(rx_buff) \in Nat
      /\ at + L + 4 <= Len(rx_buff) /\ rx_buff[at].b = SOF /\ rx_buff[at + 1].b = L
  BY <1>1, ReadsFrame DEF payload_length
<1>3. L <= PAYLOAD_MAX_LENGTH
  <2>1. transmitted[n] \in Frames
    BY <1>2, SentFrame DEF Buffer
  <2> QED
    BY <2>1, FramesAre
<1>5. PAYLOAD_MAX_LENGTH \in Nat
  BY SerialAssumption DEF Byte
<1> HIDE DEF n, L
<1>4. payload_length = L /\ SumAt = at + 4 + L
  BY <1>2 DEF payload_length, SumAt
<1>6. SumAt + 1 = at + SizeOf(n) /\ SumAt <= Len(rx_buff) /\ SumAt \in Nat
  <2>1. SumAt = at + 4 + L /\ SizeOf(n) = L + 5 /\ at + L + 4 <= Len(rx_buff)
    BY <1>2, <1>4, Zenon
  <2>2. at \in Nat /\ L \in Nat /\ Len(rx_buff) \in Nat
    BY <1>2, Zenon
  <2> DEFINE size == SizeOf(n)
             end == SumAt
             all == Len(rx_buff)
  <2>3. end = at + 4 + L /\ size = L + 5 /\ at + L + 4 <= all /\ all \in Nat
    BY <2>1, <2>2, Zenon
  <2> HIDE DEF size, end, all
  <2>4. end + 1 = at + size /\ end <= all /\ end \in Nat
    BY <2>2, <2>3
  <2> QED
    BY <2>4, Zenon DEF size, end, all
<1>7. AtHead
  BY <1>2 DEF AtHead, AtSOF, Parsing
<1>8. Fits
  BY <1>2, <1>3, <1>4, <1>5, SMTT(30) DEF Fits
<1> QED
  BY <1>1, <1>2, <1>4, <1>6, <1>7, <1>8 DEF n, L

\* A SOF before byte j, which the parser was in step before, is the start of a frame that is
\* all there, and byte j is not within that frame.
LEMMA SOFIsAStart ==
    ASSUME Buffer, NeverInside, NEW j \in 1..Len(rx_buff) + 1, InStep(j), at < j, rx_buff[at].b = SOF
    PROVE  at \in DOMAIN rx_buff /\ Known(at)
<1>1. at \in DOMAIN rx_buff /\ at \in Nat /\ Len(rx_buff) \in Nat
  BY StreamIs DEF Buffer, LinkType
<1> DEFINE n == rx_buff[at].frame
<1>2. WholeIn(n) /\ Intact(n, {1, 2})
  BY <1>1 DEF InStep
<1>3. \A s \in DOMAIN rx_buff : s <= j => InStep(s)
  BY <1>1, Numbers, SMTT(30) DEF InStep
<1>4. PICK s \in DOMAIN rx_buff : rx_buff[s].frame = n /\ rx_buff[s].place = 1
                                  /\ at = s + (rx_buff[at].place - 1)
  BY <1>1, <1>2, StartsBefore
<1>5. /\ rx_buff[at].place \in Nat /\ rx_buff[at].place >= 1 /\ rx_buff[at].place <= SizeOf(n)
      /\ SizeOf(n) \in Nat
  BY <1>1, Numbers
<1>6. s \in Nat /\ s <= at
  BY <1>4, <1>5, BufferIs, SMTT(30)
<1>7. Known(s)
  BY <1>1, <1>2, <1>3, <1>4, <1>6 DEF Known
<1>8. at <= s \/ at >= s + SizeOf(n)
  BY <1>4, <1>7 DEF NeverInside
<1> QED
  BY <1>1, <1>4, <1>5, <1>6, <1>7, <1>8
\* What every turn leaves alone, and that it goes forward.
LEMMA TurnKeeps ==
    ASSUME Buffer, parseReceivedData
    PROVE  /\ UNCHANGED <<transmitted, damaged, line, plugged, rx_buff>>
           /\ at \in DOMAIN rx_buff /\ at' >= at /\ at' \in 1..Len(rx_buff) + 1
<1>1. at \in 1..Len(rx_buff) + 1 /\ Len(rx_buff) \in Nat /\ DOMAIN rx_buff = 1..Len(rx_buff)
  BY StreamIs DEF Buffer, LinkType
<1>2. UNCHANGED <<transmitted, damaged, line, plugged, rx_buff>>
  BY DEF parseReceivedData, SkipByte, Break, SkipHead, Abort, Check
<1>3. at <= Len(rx_buff)
  BY DEF parseReceivedData, SkipByte, Break, SkipHead, Abort, Check, AtHead, AtSOF, Parsing
<1>4. AtHead => payload_length \in Nat
  <2>1. AtHead => at + 1 \in DOMAIN rx_buff
    BY <1>1 DEF AtHead
  <2>2. AtHead => rx_buff[at + 1].b \in Byte
    BY <2>1, BufferIs
  <2> QED
    BY <2>2 DEF payload_length, Byte
<1>5. CASE SkipByte
  BY <1>1, <1>2, <1>3, <1>5 DEF SkipByte
<1>6. CASE Break
  BY <1>1, <1>2, <1>3, <1>6 DEF Break
<1>7. CASE SkipHead
  <2>1. at' = at + 4 /\ at + 4 <= Len(rx_buff)
    BY <1>7 DEF SkipHead, AtHead
  <2> QED
    BY <1>1, <1>2, <1>3, <2>1
<1>8. CASE Abort
  BY <1>1, <1>2, <1>3, <1>8 DEF Abort
<1>9. CASE Check
  <2>1. at' = at + 4 + payload_length + 1 /\ at + 4 + payload_length <= Len(rx_buff) /\ payload_length \in Nat
    BY <1>4, <1>9 DEF Check, SumAt
  <2> QED
    BY <1>1, <1>2, <1>3, <2>1
<1> QED
  BY <1>5, <1>6, <1>7, <1>8, <1>9 DEF parseReceivedData

\* A turn at the start of such a frame aborts or goes past it.
LEMMA TurnAtFrame ==
    ASSUME Buffer, parseReceivedData, NEW j \in DOMAIN rx_buff, Known(j), at = j
    PROVE  /\ FrameHere
           /\ Abort \/ (Check /\ at' = j + SizeOf(rx_buff[j].frame))
<1>1. /\ FrameHere /\ AtHead /\ Fits /\ SumAt + 1 = j + SizeOf(rx_buff[j].frame)
      /\ SumAt <= Len(rx_buff) /\ SumAt \in Nat /\ Len(rx_buff) \in Nat
  BY AtAFrame
<1>2. ~SkipByte /\ ~Break /\ ~SkipHead
  BY <1>1 DEF SkipByte, Break, SkipHead, AtHead, AtSOF
<1> QED
  BY <1>1, <1>2 DEF parseReceivedData, Check

\* A turn before the start of a frame does not go past it, if the parser was in step.
LEMMA LandsBefore ==
    ASSUME Buffer, NeverInside, parseReceivedData,
           NEW j \in DOMAIN rx_buff, rx_buff[j].place = 1, InStep(j), at < j
    PROVE  at' <= j
<1> DEFINE n == rx_buff[at].frame
<1>1. at \in DOMAIN rx_buff /\ at \in Nat /\ j \in Nat /\ j \in 1..Len(rx_buff) + 1 /\ Len(rx_buff) \in Nat
  BY TurnKeeps, Numbers
<1>2. CASE rx_buff[at].b # SOF
  BY <1>1, <1>2 DEF parseReceivedData, SkipByte, Break, SkipHead, Abort, Check, AtHead, AtSOF
<1>3. CASE rx_buff[at].b = SOF
  <2>1. Known(at)
    BY <1>1, <1>3, SOFIsAStart
  <2>2. Abort \/ (Check /\ at' = at + SizeOf(n))
    BY <1>1, <2>1, TurnAtFrame
  <2>3. j + 1 >= at + SizeOf(n) + 1
    <3>1. rx_buff[at].place = 1
      BY <2>1 DEF Known
    <3> QED
      BY <1>1, <3>1, NextStart
  <2>4. SizeOf(n) \in Nat
    BY <1>1, Numbers
  <2> QED
    BY <1>1, <2>2, <2>3, <2>4 DEF Abort
<1> QED
  BY <1>2, <1>3

\* What is known of a frame in the buffer depends on what a turn leaves alone.
LEMMA KnownKept ==
    ASSUME UNCHANGED <<transmitted, damaged, rx_buff>>, NEW n, NEW j
    PROVE  /\ Places(n)' = Places(n) /\ SizeOf(n)' = SizeOf(n)
           /\ WholeIn(n)' <=> WholeIn(n)
           /\ InStep(j)' <=> InStep(j)
           /\ Known(j)' <=> Known(j)
           /\ AtMostOneDamaged(n)' <=> AtMostOneDamaged(n)
           /\ Intact(n, {1, 2})' <=> Intact(n, {1, 2})
           /\ Intact(n, Places(n))' <=> Intact(n, Places(n))
<1>1. transmitted' = transmitted /\ damaged' = damaged /\ rx_buff' = rx_buff
  OBVIOUS
<1>2. \A m : Places(m)' = Places(m)
  BY <1>1, Zenon DEF Places
<1>3. SizeOf(n)' = SizeOf(n)
  BY <1>1, Zenon DEF SizeOf
<1>4. \A m : WholeIn(m)' <=> WholeIn(m)
  BY <1>1, <1>2, Zenon DEF WholeIn
<1>5. \A m : Intact(m, {1, 2})' <=> Intact(m, {1, 2})
  BY <1>1, Zenon DEF Intact
<1>6. Intact(n, Places(n))' <=> Intact(n, Places(n))
  BY <1>1, <1>2, Zenon DEF Intact
<1>7. \A m : AtMostOneDamaged(m)' <=> AtMostOneDamaged(m)
  BY <1>1, Zenon DEF AtMostOneDamaged
<1>8. InStep(j)' <=> InStep(j)
  BY <1>1, <1>4, <1>5, Zenon DEF InStep
<1>9. Known(j)' <=> Known(j)
  BY <1>1, <1>4, <1>5, <1>8, Zenon DEF Known
<1> QED
  BY <1>2, <1>3, <1>4, <1>5, <1>6, <1>7, <1>8, <1>9

LEMMA TurnNeverInside ==
    ASSUME Buffer, NeverInside, parseReceivedData
    PROVE  NeverInside'
<1>1. /\ UNCHANGED <<transmitted, damaged, rx_buff>> /\ rx_buff' = rx_buff
      /\ at \in DOMAIN rx_buff /\ at \in Nat /\ at' >= at /\ at' \in Nat
  <2>1. at' \in 1..Len(rx_buff) + 1 /\ at \in DOMAIN rx_buff
    BY TurnKeeps
  <2> QED
    BY <2>1, TurnKeeps, Numbers
<1>2. ASSUME NEW j \in DOMAIN rx_buff, Known(j)
      PROVE  at' <= j \/ at' >= j + SizeOf(rx_buff[j].frame)
  <2>1. j \in Nat /\ SizeOf(rx_buff[j].frame) \in Nat
    BY Numbers
  <2>2. CASE at < j
    BY <1>2, <2>2, LandsBefore DEF Known
  <2>3. CASE at = j
    <3>1. Abort \/ at' = j + SizeOf(rx_buff[j].frame)
      BY <1>2, <2>3, TurnAtFrame
    <3> QED
      BY <1>1, <2>1, <2>3, <3>1 DEF Abort
  <2>4. CASE at > j
    BY <1>1, <1>2, <2>1, <2>4 DEF NeverInside
  <2> QED
    BY <1>1, <2>1, <2>2, <2>3, <2>4
<1>3. ASSUME NEW j \in DOMAIN rx_buff, Known(j)'
      PROVE  at' <= j \/ at' >= j + SizeOf(rx_buff[j].frame)'
  <2>1. Known(j)
    BY <1>1, <1>3, KnownKept
  <2>2. SizeOf(rx_buff[j].frame)' = SizeOf(rx_buff[j].frame)
    BY <1>1, Zenon DEF SizeOf
  <2> QED
    BY <1>2, <2>1, <2>2
<1> QED
  BY <1>1, <1>3, Zenon DEF NeverInside

LEMMA TurnLoses ==
    ASSUME Buffer, NeverInside, LostOnlyIfOutOfStep, parseReceivedData
    PROVE  LostOnlyIfOutOfStep'
<1>1. /\ UNCHANGED <<transmitted, damaged, rx_buff>> /\ rx_buff' = rx_buff
      /\ at \in DOMAIN rx_buff /\ at \in Nat
  BY TurnKeeps, Numbers
<1> DEFINE Taken(s, n) == \E k \in DOMAIN s : s[k].first.frame = n
<1>2. parsed_commands \in Seq(Commands)
  BY DEF Buffer, LinkType
<1>3. \A n : Taken(parsed_commands, n) => Taken(parsed_commands', n)
  <2>1. parsed_commands' \in {parsed_commands, Append(parsed_commands, CommandHere)}
    BY DEF parseReceivedData, SkipByte, Break, SkipHead, Abort, Check
  <2>2. \A k \in DOMAIN parsed_commands :
            k \in DOMAIN Append(parsed_commands, CommandHere) /\ Append(parsed_commands, CommandHere)[k] = parsed_commands[k]
    BY <1>2, LenProperties
  <2> QED
    BY <2>1, <2>2
<1>4. ASSUME NEW j \in DOMAIN rx_buff, at' > j, rx_buff[j].place = 1, WholeIn(rx_buff[j].frame),
             Intact(rx_buff[j].frame, Places(rx_buff[j].frame)), InStep(j)
      PROVE  Taken(parsed_commands', rx_buff[j].frame)
  <2> DEFINE n == rx_buff[j].frame
  <2>1. j \in Nat /\ at' \in Nat
    BY TurnKeeps, Numbers, StreamIs DEF Buffer
  <2>2. CASE at > j
    BY <1>3, <1>4, <2>2 DEF LostOnlyIfOutOfStep
  <2>3. CASE at < j
    BY <1>4, <2>1, <2>3, LandsBefore
  <2>4. CASE at = j
    <3>1. Known(j)
      <4>1. n \in DOMAIN transmitted
        BY BufferIs, Zenon
      <4>2. 1 \in Places(n) /\ 2 \in Places(n)
        BY <4>1, SentFrame DEF Buffer
      <4> QED
        BY <1>4, <4>2 DEF Known, Intact
    <3>2. FrameHere /\ Check
      <4>1. ~Abort
        BY <1>4, <2>1, <2>4 DEF Abort
      <4> QED
        BY <2>4, <3>1, <4>1, TurnAtFrame
    <3>3. rx_buff[SumAt].b = FcsHere
      BY <1>4, <2>4, <3>2, SumTells
    <3>4. parsed_commands' = Append(parsed_commands, CommandHere)
      BY <3>2, <3>3 DEF Check, FcsHere
    <3>5. CommandHere.first = rx_buff[j]
      BY <2>4 DEF CommandHere
    <3>6. /\ Len(parsed_commands) + 1 \in DOMAIN Append(parsed_commands, CommandHere)
          /\ Append(parsed_commands, CommandHere)[Len(parsed_commands) + 1] = CommandHere
      BY <1>2, LenProperties
    <3> QED
      BY <3>4, <3>5, <3>6
  <2> QED
    BY <1>1, <2>1, <2>2, <2>3, <2>4
<1> HIDE DEF Taken
<1>5. LostOnlyIfOutOfStep' <=>
        \A j \in DOMAIN rx_buff : LET n == rx_buff[j].frame IN
            at' > j /\ rx_buff[j].place = 1 /\ WholeIn(n)' /\ Intact(n, Places(n))' /\ InStep(j)' =>
                Taken(parsed_commands', n)
  BY <1>1, Zenon DEF LostOnlyIfOutOfStep, Taken
<1> QED
  BY <1>1, <1>4, <1>5, KnownKept
\* At a command's first byte with its start and length, when the command is all there.
LEMMA HereIfChecked ==
    ASSUME Buffer, Check, rx_buff[at].place = 1, Intact(rx_buff[at].frame, {1, 2})
    PROVE  FrameHere
<1> DEFINE n == rx_buff[at].frame
           L == Len(transmitted[n].payload)
<1>1. /\ at \in DOMAIN rx_buff /\ at + 4 <= Len(rx_buff) /\ SumAt <= Len(rx_buff)
      /\ at \in Nat /\ Len(rx_buff) \in Nat
  BY TurnKeeps, Numbers DEF parseReceivedData, Check, AtHead
<1>2. n \in DOMAIN transmitted
  BY <1>1, BufferIs, Zenon
<1>3. transmitted[n] \in Frames /\ L \in Nat /\ SizeOf(n) = L + 5
  BY <1>2, SentFrame, FramesAre, LenProperties DEF Buffer, SizeOf
<1>4. rx_buff[at + 1].frame = n /\ rx_buff[at + 1].place = 2 /\ at + 1 \in DOMAIN rx_buff
  <2>1. at + 1 <= Len(rx_buff) /\ rx_buff[at].place + 1 <= SizeOf(n) /\ rx_buff[at].place + 1 = 2
    BY <1>1, <1>3
  <2> QED
    BY <1>1, <2>1, Along
<1>5. SentAs(n, 2) = L
  BY <1>3, BytesAre DEF SentAs
<1>6. payload_length = L
  BY <1>4, <1>5, BufferIs DEF payload_length, Intact
<1>7. at + SizeOf(n) <= Len(rx_buff) + 1
  <2>1. SumAt = at + 4 + L
    BY <1>6 DEF SumAt
  <2> HIDE DEF L
  <2> QED
    BY <1>1, <1>3, <2>1
<1> QED
  BY <1>1, <1>7 DEF FrameHere

LEMMA TurnParses ==
    ASSUME Buffer, ParsedWhole, parseReceivedData
    PROVE  ParsedWhole'
<1>1. /\ UNCHANGED <<transmitted, damaged, rx_buff>> /\ transmitted' = transmitted
      /\ at \in DOMAIN rx_buff /\ at \in Nat
  BY TurnKeeps, Numbers
<1>2. parsed_commands \in Seq(Commands)
  BY DEF Buffer, LinkType
<1> DEFINE Good(c) ==
      LET n == c.first.frame IN
      /\ n \in DOMAIN transmitted
      /\ c.first.place = 1 /\ Intact(n, {1, 2}) /\ AtMostOneDamaged(n) =>
            WholeIn(n) /\ Intact(n, Places(n)) /\ TheFrame(c) = transmitted[n]
<1>3. \A k \in DOMAIN parsed_commands : Good(parsed_commands[k])
  BY DEF ParsedWhole
<1>4. ASSUME Check, rx_buff[SumAt].b = FcsHere PROVE Good(CommandHere)
  <2> DEFINE n == rx_buff[at].frame
  <2>1. CommandHere.first = rx_buff[at]
    BY DEF CommandHere
  <2>2. n \in DOMAIN transmitted
    BY <1>1, BufferIs, Zenon
  <2>3. ASSUME rx_buff[at].place = 1, Intact(n, {1, 2}), AtMostOneDamaged(n)
        PROVE  WholeIn(n) /\ Intact(n, Places(n)) /\ TheFrame(CommandHere) = transmitted[n]
    <3>1. FrameHere
      BY <1>4, <2>3, HereIfChecked
    <3>2. WholeIn(n)
      BY <3>1, ReadsFrame
    <3> QED
      BY <1>4, <2>3, <3>1, <3>2, SumTells
  <2> QED
    BY <2>1, <2>2, <2>3
<1>5. \/ parsed_commands' = parsed_commands
      \/ Check /\ rx_buff[SumAt].b = FcsHere /\ parsed_commands' = Append(parsed_commands, CommandHere)
  BY DEF parseReceivedData, SkipByte, Break, SkipHead, Abort, Check, FcsHere
<1>6. ASSUME NEW k \in DOMAIN Append(parsed_commands, CommandHere)
      PROVE  \/ k \in DOMAIN parsed_commands /\ Append(parsed_commands, CommandHere)[k] = parsed_commands[k]
             \/ Append(parsed_commands, CommandHere)[k] = CommandHere
  BY <1>2, LenProperties
<1> HIDE DEF Good
<1>7. \A k \in DOMAIN parsed_commands' : Good(parsed_commands'[k])
  BY <1>3, <1>4, <1>5, <1>6
<1>8. ASSUME NEW c, Good(c)
      PROVE  /\ c.first.frame \in DOMAIN transmitted'
             /\ c.first.place = 1 /\ Intact(c.first.frame, {1, 2})' /\ AtMostOneDamaged(c.first.frame)' =>
                  /\ WholeIn(c.first.frame)' /\ Intact(c.first.frame, Places(c.first.frame))'
                  /\ TheFrame(c) = transmitted'[c.first.frame]
  BY <1>1, <1>8, KnownKept DEF Good
<1>9. SUFFICES ASSUME NEW k \in DOMAIN parsed_commands', NEW c, c = parsed_commands'[k]
      PROVE  /\ c.first.frame \in DOMAIN transmitted'
             /\ c.first.place = 1 /\ Intact(c.first.frame, {1, 2})' /\ AtMostOneDamaged(c.first.frame)' =>
                  /\ WholeIn(c.first.frame)' /\ Intact(c.first.frame, Places(c.first.frame))'
                  /\ TheFrame(c) = transmitted'[c.first.frame]
  BY Zenon DEF ParsedWhole, Intact, AtMostOneDamaged, WholeIn, Places, TheFrame
<1>10. Good(c)
  BY <1>7, <1>9
<1> QED
  BY <1>8, <1>10

LEMMA TurnDies ==
    ASSUME Buffer, NeverInside, ReaderDiesOnlyOf, parseReceivedData
    PROVE  ReaderDiesOnlyOf'
<1>1. /\ UNCHANGED <<transmitted, damaged, rx_buff>> /\ rx_buff' = rx_buff /\ transmitted' = transmitted
      /\ plugged' = plugged
      /\ at \in DOMAIN rx_buff /\ at \in Nat /\ Len(rx_buff) \in Nat /\ at <= Len(rx_buff)
  BY TurnKeeps, Numbers
<1> DEFINE Excused == \/ ~plugged
                      \/ \E n \in DOMAIN transmitted : Len(transmitted[n].payload) >= PAYLOAD_MAX_LENGTH
                      \/ ~InStep(Len(rx_buff) + 1)
<1>2. CASE ~Abort
  <2>1. died' = died
    BY <1>2 DEF parseReceivedData, SkipByte, Break, SkipHead, Check
  <2> QED
    BY <1>1, <2>1, KnownKept DEF ReaderDiesOnlyOf
<1>3. ASSUME Abort PROVE Excused
  <2>1. CASE InStep(Len(rx_buff) + 1)
    <3> DEFINE n == rx_buff[at].frame
    <3>1. rx_buff[at].b = SOF /\ ~(payload_length < PAYLOAD_MAX_LENGTH)
      BY <1>3 DEF Abort, AtHead, AtSOF, Asserted
    <3>2. Known(at)
      BY <1>1, <2>1, <3>1, SOFIsAStart
    <3>3. payload_length = Len(transmitted[n].payload)
      BY <1>1, <3>2, AtAFrame
    <3>4. n \in DOMAIN transmitted
      BY <1>1, BufferIs, Zenon
    <3>5. Len(transmitted[n].payload) \in Nat /\ PAYLOAD_MAX_LENGTH \in Nat
      <4>1. \A b \in Byte : b \in Nat
        BY DEF Byte
      <4>2. Len(transmitted[n].payload) \in Byte
        BY <3>4, SentFrame, Zenon DEF Buffer
      <4>3. PAYLOAD_MAX_LENGTH \in Byte
        BY SerialAssumption, Zenon
      <4> QED
        BY <4>1, <4>2, <4>3, Zenon
    <3>6. ~(Len(transmitted[n].payload) < PAYLOAD_MAX_LENGTH)
      BY <3>1, <3>3, Zenon
    <3>7. Len(transmitted[n].payload) >= PAYLOAD_MAX_LENGTH
      <4> DEFINE L == Len(transmitted[n].payload)
      <4>1. L \in Nat /\ PAYLOAD_MAX_LENGTH \in Nat /\ ~(L < PAYLOAD_MAX_LENGTH)
        BY <3>5, <3>6
      <4> HIDE DEF L
      <4>2. L >= PAYLOAD_MAX_LENGTH
        BY <4>1
      <4> QED
        BY <4>2, Zenon DEF L
    <3> QED
      BY <3>4, <3>7
  <2> QED
    BY <2>1
<1>4. CASE Abort
  <2>1. Excused
    BY <1>3, <1>4
  <2> QED
    BY <1>1, <2>1, KnownKept DEF ReaderDiesOnlyOf
<1> QED
  BY <1>2, <1>4

LEMMA TurnType ==
    ASSUME Buffer, parseReceivedData
    PROVE  LinkType'
<1>1. /\ UNCHANGED <<transmitted, damaged, line, plugged, rx_buff>>
      /\ at \in DOMAIN rx_buff /\ at' \in 1..Len(rx_buff) + 1
      /\ at \in Nat /\ Len(rx_buff) \in Nat /\ DOMAIN rx_buff = 1..Len(rx_buff)
  BY TurnKeeps, Numbers, StreamIs DEF Buffer
<1>2. parsed_commands \in Seq(Commands) /\ died \in {"no", "assert", "read"}
  BY DEF Buffer, LinkType
<1>3. died' \in {"no", "assert", "read"}
  BY <1>2 DEF parseReceivedData, SkipByte, Break, SkipHead, Abort, Check
<1>4. ASSUME Check PROVE CommandHere \in Commands
  <2> DEFINE q == [p \in 1..payload_length |-> rx_buff[at + 3 + p].b]
  <2>1. at + 4 <= Len(rx_buff) /\ SumAt <= Len(rx_buff)
    BY <1>4 DEF Check, AtHead
  <2>2. payload_length \in Nat
    <3>1. at + 1 \in DOMAIN rx_buff
      BY <1>1, <2>1
    <3>2. rx_buff[at + 1].b \in Byte
      BY <3>1, BufferIs
    <3> QED
      BY <3>2 DEF payload_length, Byte
  <2>3. at + 4 + payload_length <= Len(rx_buff)
    BY <2>1 DEF SumAt
  <2> HIDE DEF Buffer
  <2>4. \A p \in 1..payload_length : at + 3 + p \in DOMAIN rx_buff
    BY <1>1, <2>2, <2>3
  <2>5. at + 2 \in DOMAIN rx_buff /\ at + 3 \in DOMAIN rx_buff
    BY <1>1, <2>1
  <2>6. \A j \in DOMAIN rx_buff : rx_buff[j].b \in Byte
    BY BufferIs
  <2>7. q \in [1..payload_length -> Byte]
    BY <2>4, <2>6
  <2> HIDE DEF q
  <2>8. q \in Seq(Byte)
    BY <2>2, <2>7, SeqDef
  <2>9. rx_buff[at] \in SentBytes
    BY <1>1, StreamIs DEF Buffer
  <2> QED
    BY <2>5, <2>6, <2>8, <2>9 DEF CommandHere, Commands, q
<1>5. parsed_commands' \in Seq(Commands)
  <2>1. \/ parsed_commands' = parsed_commands
        \/ Check /\ parsed_commands' = Append(parsed_commands, CommandHere)
    BY DEF parseReceivedData, SkipByte, Break, SkipHead, Abort, Check
  <2> QED
    BY <1>2, <1>4, <2>1, AppendProperties
<1> QED
  BY <1>1, <1>3, <1>5 DEF Buffer, LinkType
-----------------------------------------------------------------------------
(* What the adapter and the line do.                                       *)

Sound == LinkType /\ AreSent(stream) /\ InOrder(stream) /\ EndWhole(stream)

LEMMA SoundBuffer == Sound => Buffer
<1> SUFFICES ASSUME Sound PROVE Buffer
  OBVIOUS
<1>1. LinkType
  BY DEF Sound
<1>2. /\ DOMAIN rx_buff \subseteq DOMAIN stream
      /\ \A j \in DOMAIN rx_buff : stream[j] = rx_buff[j]
  BY <1>1, StreamIs
<1>3. AreSent(rx_buff)
  BY <1>2 DEF Sound, AreSent
<1>4. InOrder(rx_buff)
  <2> SUFFICES ASSUME NEW j \in DOMAIN rx_buff, NEW k \in DOMAIN rx_buff, j < k
               PROVE  Follows(rx_buff[j], rx_buff[k], k - j)
    BY DEF InOrder
  <2>1. Follows(stream[j], stream[k], k - j)
    BY <1>2 DEF Sound, InOrder
  <2> QED
    BY <1>2, <2>1, Zenon
<1> QED
  BY <1>1, <1>3, <1>4 DEF Buffer

\* Nothing that was sent changes, and what gets damaged is not in the buffer.
Around ==
    /\ rx_buff' = rx_buff /\ at' = at /\ parsed_commands' = parsed_commands
    /\ plugged' => plugged
    /\ \A n \in DOMAIN transmitted : n \in DOMAIN transmitted' /\ transmitted'[n] = transmitted[n]
    /\ damaged \subseteq damaged'
    /\ \A n, p : <<n, p>> \in damaged' /\ <<n, p>> \notin damaged =>
          \A j \in DOMAIN rx_buff : ~(rx_buff[j].frame = n /\ rx_buff[j].place = p)

LEMMA AroundKeeps ==
    ASSUME Buffer, Around, NEW n \in DOMAIN transmitted
    PROVE  /\ n \in DOMAIN transmitted' /\ transmitted'[n] = transmitted[n]
           /\ SizeOf(n)' = SizeOf(n) /\ Places(n)' = Places(n)
           /\ WholeIn(n)' <=> WholeIn(n)
           /\ Intact(n, {1, 2})' => Intact(n, {1, 2})
           /\ Intact(n, Places(n))' => Intact(n, Places(n))
           /\ AtMostOneDamaged(n)' => AtMostOneDamaged(n)
           /\ WholeIn(n) /\ Intact(n, Places(n)) => Intact(n, Places(n))'
<1>1. transmitted'[n] = transmitted[n] /\ n \in DOMAIN transmitted' /\ rx_buff' = rx_buff /\ damaged \subseteq damaged'
  BY DEF Around
<1>2. SizeOf(n)' = SizeOf(n)
  BY <1>1, Zenon DEF SizeOf
<1>3. Places(n)' = Places(n)
  BY <1>1, Zenon DEF Places
<1>4. WholeIn(n)' <=> WholeIn(n)
  BY <1>1, <1>3, Zenon DEF WholeIn
<1>5. Intact(n, {1, 2})' => Intact(n, {1, 2})
  BY <1>1 DEF Intact
<1>6. Intact(n, Places(n))' => Intact(n, Places(n))
  BY <1>1, <1>3 DEF Intact
<1>7. AtMostOneDamaged(n)' => AtMostOneDamaged(n)
  BY <1>1 DEF AtMostOneDamaged
<1>8. ASSUME WholeIn(n), Intact(n, Places(n)) PROVE Intact(n, Places(n))'
  <2> SUFFICES ASSUME NEW p \in Places(n), <<n, p>> \in damaged' PROVE FALSE
    BY <1>3 DEF Intact
  <2>1. <<n, p>> \notin damaged
    BY <1>8 DEF Intact
  <2>2. PICK j \in DOMAIN rx_buff : rx_buff[j].frame = n /\ rx_buff[j].place = p
    BY <1>8 DEF WholeIn
  <2> QED
    BY <2>1, <2>2 DEF Around
<1> QED
  BY <1>1, <1>2, <1>3, <1>4, <1>5, <1>6, <1>7, <1>8

LEMMA AroundInStep ==
    ASSUME Buffer, Around, NEW j \in 1..Len(rx_buff) + 1, InStep(j)'
    PROVE  InStep(j)
<1>1. rx_buff' = rx_buff /\ DOMAIN rx_buff = 1..Len(rx_buff) /\ Len(rx_buff) \in Nat
  BY StreamIs DEF Around, Buffer
<1> SUFFICES ASSUME NEW h \in 1..j - 1, rx_buff[h].b = SOF, NEW n, n = rx_buff[h].frame
             PROVE  WholeIn(n) /\ Intact(n, {1, 2})
  BY DEF InStep
<1>2. WholeIn(n)' /\ Intact(n, {1, 2})'
  <2>1. rx_buff'[h].b = SOF /\ n = rx_buff'[h].frame
    BY <1>1
  <2>2. WholeIn(n)'
    BY <2>1, SMTT(20) DEF InStep, WholeIn, Places
  <2>3. Intact(n, {1, 2})'
    BY <2>1, Zenon DEF InStep, Intact
  <2> QED
    BY <2>2, <2>3
<1>3. n \in DOMAIN transmitted
  <2>1. h \in DOMAIN rx_buff
    BY <1>1
  <2> QED
    BY <2>1, BufferIs, Zenon
<1> QED
  BY <1>2, <1>3, AroundKeeps

\* So the parser's part of the invariant is kept.
LEMMA AroundInv ==
    ASSUME Buffer, Around, NeverInside, ParsedWhole, LostOnlyIfOutOfStep, ReaderDiesOnlyOf
    PROVE  NeverInside' /\ ParsedWhole' /\ LostOnlyIfOutOfStep' /\ (died' = died => ReaderDiesOnlyOf')
<1>1. /\ rx_buff' = rx_buff /\ at' = at /\ parsed_commands' = parsed_commands
      /\ plugged' => plugged
      /\ DOMAIN rx_buff = 1..Len(rx_buff) /\ Len(rx_buff) \in Nat
  BY StreamIs DEF Around, Buffer
<1>2. \A j \in DOMAIN rx_buff : rx_buff[j].frame \in DOMAIN transmitted
  BY BufferIs, Zenon
<1>3. \A j \in DOMAIN rx_buff : j \in 1..Len(rx_buff) + 1
  BY <1>1
<1>4. NeverInside'
  <2> SUFFICES ASSUME NEW j \in DOMAIN rx_buff, Known(j)', NEW n, n = rx_buff[j].frame
               PROVE  at <= j \/ at >= j + SizeOf(n)'
    BY <1>1, Zenon DEF NeverInside, SizeOf
  <2>1. rx_buff[j].place = 1 /\ WholeIn(n)' /\ Intact(n, {1, 2})' /\ InStep(j)'
    BY <1>1, Zenon DEF Known, WholeIn, Intact, Places
  <2>2. n \in DOMAIN transmitted
    BY <1>2
  <2>3. Known(j)
    BY <1>3, <2>1, <2>2, AroundKeeps, AroundInStep DEF Known
  <2>4. SizeOf(n)' = SizeOf(n)
    BY <2>2, AroundKeeps
  <2> QED
    BY <2>3, <2>4 DEF NeverInside
<1>5. ParsedWhole'
  <2> SUFFICES ASSUME NEW k \in DOMAIN parsed_commands', NEW c, c = parsed_commands'[k]
      PROVE  /\ c.first.frame \in DOMAIN transmitted'
             /\ c.first.place = 1 /\ Intact(c.first.frame, {1, 2})' /\ AtMostOneDamaged(c.first.frame)' =>
                  /\ WholeIn(c.first.frame)' /\ Intact(c.first.frame, Places(c.first.frame))'
                  /\ TheFrame(c) = transmitted'[c.first.frame]
    BY Zenon DEF ParsedWhole, Intact, AtMostOneDamaged, WholeIn, Places, TheFrame
  <2> DEFINE n == c.first.frame
  <2>1. /\ n \in DOMAIN transmitted
        /\ c.first.place = 1 /\ Intact(n, {1, 2}) /\ AtMostOneDamaged(n) =>
              WholeIn(n) /\ Intact(n, Places(n)) /\ TheFrame(c) = transmitted[n]
    BY <1>1 DEF ParsedWhole
  <2> QED
    BY <2>1, AroundKeeps
<1>6. LostOnlyIfOutOfStep'
  <2> SUFFICES ASSUME NEW j \in DOMAIN rx_buff', NEW n, n = rx_buff'[j].frame,
                      at' > j, rx_buff'[j].place = 1, WholeIn(n)', Intact(n, Places(n))', InStep(j)'
               PROVE  \E k \in DOMAIN parsed_commands' : parsed_commands'[k].first.frame = n
    BY Zenon DEF LostOnlyIfOutOfStep, WholeIn, Intact, Places
  <2>1. n \in DOMAIN transmitted
    BY <1>1, <1>2
  <2>2. WholeIn(n) /\ Intact(n, Places(n)) /\ InStep(j)
    BY <1>1, <1>3, <2>1, AroundKeeps, AroundInStep
  <2> QED
    BY <1>1, <2>2 DEF LostOnlyIfOutOfStep
<1>7. ASSUME died' = died PROVE ReaderDiesOnlyOf'
  <2> DEFINE end == Len(rx_buff) + 1
  <2>1. end \in 1..Len(rx_buff) + 1
    BY <1>1
  <2>2. \A m : m = end => (InStep(m)' => InStep(m))
    BY <2>1, AroundInStep
  <2>3. (\A m : m = end => ~InStep(m)') => ~InStep(Len(rx_buff) + 1)'
    BY <1>1, Zenon DEF InStep, WholeIn, Intact, Places
  <2>4. \A n \in DOMAIN transmitted : n \in DOMAIN transmitted' /\ transmitted'[n] = transmitted[n]
    BY DEF Around
  <2> QED
    BY <1>1, <1>7, <2>2, <2>3, <2>4 DEF ReaderDiesOnlyOf
<1> QED
  BY <1>4, <1>5, <1>6, <1>7
\* What is sound of the stream, byte by byte.
LEMMA StreamFacts ==
    ASSUME Sound
    PROVE  /\ DOMAIN stream = 1..Len(stream) /\ Len(stream) \in Nat
           /\ \A j \in DOMAIN stream :
                /\ stream[j] \in SentBytes /\ stream[j].frame \in DOMAIN transmitted
                /\ stream[j].place \in 1..SizeOf(stream[j].frame)
                /\ <<stream[j].frame, stream[j].place>> \in damaged
                     <=> stream[j].b # SentAs(stream[j].frame, stream[j].place)
                /\ j + SizeOf(stream[j].frame) <= Len(stream) + stream[j].place
           /\ \A j, k \in DOMAIN stream : j < k => Follows(stream[j], stream[k], k - j)
<1>1. LinkType
  BY DEF Sound
<1>2. stream \in Seq(SentBytes) /\ DOMAIN stream = 1..Len(stream) /\ Len(stream) \in Nat
  BY <1>1, StreamIs, LenProperties
<1>3. \A j \in DOMAIN stream : stream[j] \in SentBytes
  BY <1>2, ElementOfSeq
<1>4. \A j \in DOMAIN stream :
        /\ stream[j].frame \in DOMAIN transmitted
        /\ stream[j].place \in 1..SizeOf(stream[j].frame)
        /\ <<stream[j].frame, stream[j].place>> \in damaged
             <=> stream[j].b # SentAs(stream[j].frame, stream[j].place)
  BY DEF Sound, AreSent
<1>5. \A j \in DOMAIN stream : j + SizeOf(stream[j].frame) <= Len(stream) + stream[j].place
  BY DEF Sound, EndWhole
<1>6. \A j, k \in DOMAIN stream : j < k => Follows(stream[j], stream[k], k - j)
  BY DEF Sound, InOrder
<1> QED
  BY <1>2, <1>3, <1>4, <1>5, <1>6

\* Steps that leave the stream as it is.
LEMMA StreamKept ==
    ASSUME Sound, LinkType', stream' = stream, UNCHANGED <<transmitted, damaged>>
    PROVE  Sound'
<1>1. stream' = stream /\ transmitted' = transmitted /\ damaged' = damaged
  OBVIOUS
<1>2. AreSent(stream)'
  BY <1>1, Zenon DEF Sound, AreSent, SizeOf, SentAs
<1>3. InOrder(stream)'
  BY <1>1, Zenon DEF Sound, InOrder, Follows, SizeOf
<1>4. EndWhole(stream)'
  BY <1>1, Zenon DEF Sound, EndWhole, SizeOf
<1> QED
  BY <1>2, <1>3, <1>4 DEF Sound

\* A read forgets what the last one took.
LEMMA LoopSound ==
    ASSUME Sound, NEW n \in 1..Len(line), Loop(n)
    PROVE  Sound'
<1>1. LinkType
  BY DEF Sound
<1>2. /\ line \in Seq(SentBytes) /\ Len(line) \in Nat
      /\ rx_buff' = SubSeq(line, 1, n) /\ line' = SubSeq(line, n + 1, Len(line))
      /\ at' = 1 /\ parsed_commands' = <<>>
      /\ transmitted' = transmitted /\ damaged' = damaged /\ plugged' = plugged /\ died' = died
  BY <1>1, LenProperties DEF LinkType, Loop
<1>3. rx_buff' \in Seq(SentBytes) /\ line' \in Seq(SentBytes)
  <2>1. \A j \in 1..Len(line) : line[j] \in SentBytes
    BY <1>2, ElementOfSeq
  <2>2. SubSeq(line, 1, n) \in Seq(SentBytes)
    <3>1. \A j \in 1..n : line[j] \in SentBytes
      BY <1>2, <2>1
    <3> QED
      BY <3>1, SubSeqProperties
  <2>3. SubSeq(line, n + 1, Len(line)) \in Seq(SentBytes)
    <3>1. \A j \in n + 1..Len(line) : line[j] \in SentBytes
      BY <1>2, <2>1
    <3>2. n + 1 \in Int /\ Len(line) \in Int
      BY <1>2
    <3> QED
      BY <3>1, <3>2, SubSeqProperties
  <2> QED
    BY <1>2, <2>2, <2>3
<1>4. LinkType'
  <2>1. Len(rx_buff') \in Nat
    BY <1>3, LenProperties
  <2>2. parsed_commands' \in Seq(Commands)
    BY <1>2, EmptySeq
  <2> QED
    BY <1>1, <1>2, <1>3, <2>1, <2>2 DEF LinkType
<1>5. stream' = line
  <2>1. SubSeq(line, 1, n) \o SubSeq(line, n + 1, Len(line)) = SubSeq(line, 1, Len(line))
    BY <1>2, ConcatAdjacentSubSeq
  <2>2. SubSeq(line, 1, Len(line)) = line
    BY <1>2, SubSeqFull
  <2> QED
    BY <1>2, <2>1, <2>2 DEF stream
<1> DEFINE N == Len(rx_buff)
<1>6. /\ N \in Nat /\ DOMAIN line = 1..Len(line) /\ Len(stream) = N + Len(line)
      /\ DOMAIN stream = 1..N + Len(line)
      /\ \A j \in DOMAIN line : stream[N + j] = line[j]
  BY <1>1, StreamIs
<1>7. \A j \in DOMAIN line :
        /\ N + j \in DOMAIN stream
        /\ line[j].frame \in DOMAIN transmitted /\ line[j].place \in 1..SizeOf(line[j].frame)
        /\ <<line[j].frame, line[j].place>> \in damaged
             <=> line[j].b # SentAs(line[j].frame, line[j].place)
        /\ N + j + SizeOf(line[j].frame) <= N + Len(line) + line[j].place
        /\ line[j].place \in Nat
  <2> TAKE j \in DOMAIN line
  <2>1. N + j \in DOMAIN stream /\ stream[N + j] = line[j]
    BY <1>2, <1>6
  <2> QED
    BY <1>6, <2>1, StreamFacts DEF SentBytes
<1>8. ASSUME NEW j \in DOMAIN line, NEW k \in DOMAIN line, j < k PROVE Follows(line[j], line[k], k - j)
  <2>1. /\ N + j \in DOMAIN stream /\ stream[N + j] = line[j]
        /\ N + k \in DOMAIN stream /\ stream[N + k] = line[k]
        /\ N + j < N + k /\ (N + k) - (N + j) = k - j
    BY <1>2, <1>6, <1>8
  <2>2. Follows(stream[N + j], stream[N + k], (N + k) - (N + j))
    BY <2>1, StreamFacts
  <2> QED
    BY <2>1, <2>2
<1>9. AreSent(stream)'
  BY <1>2, <1>5, <1>7, Zenon DEF AreSent, SizeOf, SentAs
<1>10. InOrder(stream)'
  BY <1>2, <1>5, <1>8, Zenon DEF InOrder, Follows, SizeOf
<1>11. EndWhole(stream)'
  <2>1. \A j \in DOMAIN line : j + SizeOf(line[j].frame) <= Len(line) + line[j].place
    <3> TAKE j \in DOMAIN line
    <3>1. SizeOf(line[j].frame) \in Nat /\ line[j].place \in Nat
      BY <1>1, <1>7, SentFrame
    <3> DEFINE size == SizeOf(line[j].frame)
               place == line[j].place
    <3>2. N + j + size <= N + Len(line) + place
      BY <1>7, Zenon
    <3>5. j \in Nat
      BY <1>2, <1>6
    <3> HIDE DEF size, place, N
    <3>3. size \in Nat /\ place \in Nat
      BY <3>1 DEF size, place
    <3>4. j + size <= Len(line) + place
      BY <1>2, <1>6, <3>2, <3>3, <3>5
    <3> QED
      BY <3>4 DEF size, place
  <2> QED
    BY <1>2, <1>5, <2>1, Zenon DEF EndWhole, SizeOf
<1> QED
  BY <1>4, <1>9, <1>10, <1>11 DEF Sound
\* A frame that is sent goes after all there is.
LEMMA SendSound ==
    ASSUME Sound, NEW f \in Frames, SendFrame(f)
    PROVE  Sound' /\ Around /\ died' = died
<1>0. PICK N, M : N = Len(transmitted) + 1 /\ M = Len(stream)
  OBVIOUS
<1> DEFINE size == Len(f.payload) + 5
           new == [p \in DOMAIN BytesOf(f) |-> [b |-> BytesOf(f)[p], frame |-> N, place |-> p]]
<1>1. LinkType
  BY DEF Sound
<1>2. /\ transmitted' = Append(transmitted, f) /\ line' = line \o new
      /\ damaged' = damaged /\ plugged' = plugged /\ rx_buff' = rx_buff /\ at' = at
      /\ parsed_commands' = parsed_commands /\ died' = died
  BY <1>0 DEF SendFrame
<1>3. /\ transmitted \in Seq(Frames) /\ Len(transmitted) \in Nat /\ N \in Nat /\ N >= 1
      /\ DOMAIN transmitted = 1..Len(transmitted)
  BY <1>0, <1>1, LenProperties DEF LinkType
<1>4. /\ transmitted' \in Seq(Frames) /\ Len(transmitted') = N /\ DOMAIN transmitted' = 1..N
      /\ transmitted'[N] = f
      /\ \A n \in DOMAIN transmitted : n \in DOMAIN transmitted' /\ transmitted'[n] = transmitted[n]
  BY <1>0, <1>2, <1>3, AppendProperties, LenProperties
<1>5. /\ DOMAIN BytesOf(f) = 1..size /\ size \in Nat /\ size >= 5
      /\ BytesOf(f) \in Seq(Byte)
      /\ \A p \in 1..size : BytesOf(f)[p] \in Byte
  <2>1. Len(f.payload) \in Nat
    BY FramesAre, LenProperties
  <2>2. BytesOf(f) \in Seq(Byte) /\ DOMAIN BytesOf(f) = 1..size /\ Len(BytesOf(f)) = size
    BY BytesAre
  <2>3. \A p \in 1..size : BytesOf(f)[p] \in Byte
    BY <2>2, ElementOfSeq
  <2> QED
    BY <2>1, <2>2, <2>3
<1> HIDE DEF size
<1>6. new \in Seq(SentBytes) /\ Len(new) = size
  <2>1. \A p \in 1..size : [b |-> BytesOf(f)[p], frame |-> N, place |-> p] \in SentBytes
    BY <1>3, <1>5 DEF SentBytes
  <2>2. new \in [1..size -> SentBytes]
    BY <1>5, <2>1
  <2> HIDE DEF new
  <2>3. new \in Seq(SentBytes)
    BY <1>5, <2>2, SeqDef
  <2> QED
    BY <1>5, <2>2, <2>3, LenProperties
<1>7. \A p \in 1..size : new[p].b = BytesOf(f)[p] /\ new[p].frame = N /\ new[p].place = p
  BY <1>5
<1> HIDE DEF new
<1>8. LinkType'
  <2>1. line' \in Seq(SentBytes)
    BY <1>1, <1>2, <1>6, ConcatProperties DEF LinkType
  <2>2. damaged' \subseteq (DOMAIN transmitted') \X Nat
    BY <1>1, <1>2, <1>3, <1>4 DEF LinkType
  <2> QED
    BY <1>1, <1>2, <1>4, <2>1, <2>2 DEF LinkType
<1>9. Around
  BY <1>2, <1>4 DEF Around
<1>10. stream' = stream \o new
  <2>1. rx_buff \o (line \o new) = (rx_buff \o line) \o new
    <3>1. rx_buff \in Seq(SentBytes) /\ line \in Seq(SentBytes)
      BY <1>1 DEF LinkType
    <3>2. \A s, t, u \in Seq(SentBytes) : (s \o t) \o u = s \o (t \o u)
      BY ConcatAssociative
    <3> QED
      BY <1>6, <3>1, <3>2, Zenon
  <2> QED
    BY <1>2, <2>1 DEF stream
<1>11. /\ stream \in Seq(SentBytes) /\ M \in Nat /\ DOMAIN stream = 1..M /\ M = Len(stream)
  BY <1>0, <1>1, StreamIs, LenProperties
<1>12. /\ stream' \in Seq(SentBytes) /\ Len(stream') = M + size /\ DOMAIN stream' = 1..M + size
       /\ \A j \in 1..M : stream'[j] = stream[j]
       /\ \A p \in 1..size : stream'[M + p] = new[p]
  <2>1. /\ stream' \in Seq(SentBytes) /\ Len(stream') = Len(stream) + Len(new)
        /\ \A j \in 1..Len(stream) + Len(new) :
              stream'[j] = IF j <= Len(stream) THEN stream[j] ELSE new[j - Len(stream)]
    BY <1>6, <1>10, <1>11, ConcatProperties
  <2>2. \A p \in 1..size : M + p \in 1..M + size /\ ~(M + p <= M) /\ (M + p) - M = p
    BY <1>5, <1>11
  <2>3. \A j \in 1..M : j \in 1..M + size /\ j <= M
    BY <1>5, <1>11
  <2>4. DOMAIN stream' = 1..M + size
    BY <1>6, <1>11, <2>1, LenProperties
  <2> QED
    BY <1>6, <2>1, <2>2, <2>3, <2>4, <1>11
\* A byte of the new stream is an old one or one of the frame.
<1>13. ASSUME NEW j \in DOMAIN stream'
       PROVE  \/ j \in DOMAIN stream /\ stream'[j] = stream[j]
              \/ \E p \in 1..size : /\ j = M + p /\ stream'[j].b = BytesOf(f)[p]
                                    /\ stream'[j].frame = N /\ stream'[j].place = p
  <2>1. CASE j <= M
    BY <1>11, <1>12, <1>13, <2>1
  <2>2. CASE ~(j <= M)
    <3>1. j - M \in 1..size /\ j = M + (j - M)
      BY <1>5, <1>11, <1>12, <1>13, <2>2
    <3>2. stream'[j] = new[j - M]
      BY <1>12, <3>1
    <3> QED
      BY <1>7, <3>1, <3>2
  <2> QED
    BY <2>1, <2>2
<1>14. /\ SizeOf(N)' = size /\ \A p \in 1..size : SentAs(N, p)' = BytesOf(f)[p]
       /\ N \in Nat /\ N \in DOMAIN transmitted'
  BY <1>3, <1>4 DEF SizeOf, SentAs, size
<1>15. \A n \in DOMAIN transmitted : /\ SizeOf(n)' = SizeOf(n) /\ n \in DOMAIN transmitted' /\ n < N
                                     /\ \A p : SentAs(n, p)' = SentAs(n, p)
  BY <1>0, <1>3, <1>4 DEF SizeOf, SentAs
<1>16. \A p : <<N, p>> \notin damaged
  BY <1>0, <1>1, <1>3 DEF LinkType
<1>17. AreSent(stream)'
  <2> SUFFICES ASSUME NEW j \in DOMAIN stream', NEW x, x = stream'[j]
      PROVE  /\ x.frame \in DOMAIN transmitted' /\ x.place \in 1..SizeOf(x.frame)'
             /\ <<x.frame, x.place>> \in damaged' <=> x.b # SentAs(x.frame, x.place)'
    BY Zenon DEF AreSent, SizeOf, SentAs
  <2>1. CASE j \in DOMAIN stream /\ stream'[j] = stream[j]
    <3>1. /\ x.frame \in DOMAIN transmitted /\ x.place \in 1..SizeOf(x.frame)
          /\ <<x.frame, x.place>> \in damaged <=> x.b # SentAs(x.frame, x.place)
      BY <2>1, StreamFacts
    <3> QED
      BY <1>2, <1>15, <3>1
  <2>2. CASE \E p \in 1..size : j = M + p /\ stream'[j].b = BytesOf(f)[p]
                                /\ stream'[j].frame = N /\ stream'[j].place = p
    BY <1>2, <1>14, <1>16, <2>2
  <2> QED
    BY <1>13, <2>1, <2>2
<1>18. InOrder(stream)'
  <2> SUFFICES ASSUME NEW j \in DOMAIN stream', NEW k \in DOMAIN stream', j < k,
                      NEW x, x = stream'[j], NEW y, y = stream'[k]
      PROVE  \/ y.frame = x.frame /\ y.place = x.place + (k - j)
             \/ y.frame > x.frame /\ (k - j) + x.place >= SizeOf(x.frame)' + y.place
    BY Zenon DEF InOrder, Follows, SizeOf
  <2>0. j \in Nat /\ k \in Nat /\ M \in Nat /\ size \in Nat
    BY <1>5, <1>11, <1>12
  <2>1. CASE k \in DOMAIN stream /\ stream'[k] = stream[k]
    <3>1. j \in DOMAIN stream /\ stream'[j] = stream[j]
      BY <1>11, <1>12, <2>0, <2>1
    <3>2. Follows(x, y, k - j) /\ x.frame \in DOMAIN transmitted
      BY <2>1, <3>1, StreamFacts
    <3> QED
      BY <1>15, <3>2 DEF Follows
  <2>2. CASE \E p \in 1..size : k = M + p /\ y.frame = N /\ y.place = p
    <3>1. PICK p \in 1..size : k = M + p /\ y.frame = N /\ y.place = p
      BY <2>2
    <3>2. CASE j \in DOMAIN stream /\ stream'[j] = stream[j]
      <4>1. /\ x.frame \in DOMAIN transmitted /\ x.place \in 1..SizeOf(x.frame)
            /\ j + SizeOf(x.frame) <= M + x.place /\ x.frame \in Nat /\ x.place \in Nat
        BY <1>11, <3>2, StreamFacts DEF SentBytes
      <4>2. SizeOf(x.frame) \in Nat /\ SizeOf(x.frame)' = SizeOf(x.frame) /\ x.frame < N
        BY <1>1, <1>15, <4>1, SentFrame
      <4> DEFINE s == SizeOf(x.frame)
      <4>3. (k - j) + x.place >= s + p
        <5>1. p \in Nat
          BY <1>5
        <5> HIDE DEF s
        <5> QED
          BY <2>0, <3>1, <4>1, <4>2, <5>1 DEF s
      <4> QED
        BY <1>14, <3>1, <4>1, <4>2, <4>3
    <3>3. CASE \E q \in 1..size : j = M + q /\ x.frame = N /\ x.place = q
      <4>1. PICK q \in 1..size : j = M + q /\ x.frame = N /\ x.place = q
        BY <3>3
      <4>2. p = q + (k - j)
        BY <1>5, <2>0, <3>1, <4>1
      <4> QED
        BY <3>1, <4>1, <4>2
    <3> QED
      BY <1>13, <3>2, <3>3
  <2> QED
    BY <1>13, <2>1, <2>2
<1>19. EndWhole(stream)'
  <2> SUFFICES ASSUME NEW j \in DOMAIN stream', NEW x, x = stream'[j]
               PROVE  j + SizeOf(x.frame)' <= Len(stream') + x.place
    BY Zenon DEF EndWhole, SizeOf
  <2>1. CASE j \in DOMAIN stream /\ stream'[j] = stream[j]
    <3>1. /\ x.frame \in DOMAIN transmitted /\ j + SizeOf(x.frame) <= M + x.place
          /\ x.place \in Nat
      BY <1>11, <2>1, StreamFacts DEF SentBytes
    <3>2. SizeOf(x.frame) \in Nat /\ SizeOf(x.frame)' = SizeOf(x.frame)
      BY <1>1, <1>15, <3>1, SentFrame
    <3> QED
      BY <1>5, <1>11, <1>12, <3>1, <3>2
  <2>2. CASE \E p \in 1..size : j = M + p /\ x.frame = N /\ x.place = p
    BY <1>5, <1>11, <1>12, <1>14, <2>2
  <2> QED
    BY <1>13, <2>1, <2>2
<1> QED
  BY <1>2, <1>8, <1>9, <1>17, <1>18, <1>19 DEF Sound
\* A byte is damaged once, and is then no longer the one that was sent.
LEMMA DamageSound ==
    ASSUME Sound, NEW i \in DOMAIN line, NEW b \in NoiseBytes, Damage(i, b)
    PROVE  Sound' /\ Around /\ died' = died
<1>0. PICK m, K, mark : m = i + Len(rx_buff) /\ K = Len(rx_buff) /\ mark = <<line[i].frame, line[i].place>>
  OBVIOUS
<1>1. LinkType
  BY DEF Sound
<1>2. /\ line' = [line EXCEPT ![i].b = b] /\ damaged' = damaged \cup {mark} /\ mark \notin damaged
      /\ line[i].b # b
      /\ transmitted' = transmitted /\ plugged' = plugged /\ rx_buff' = rx_buff /\ at' = at
      /\ parsed_commands' = parsed_commands /\ died' = died
  BY <1>0 DEF Damage
<1>3. /\ line \in Seq(SentBytes) /\ DOMAIN line = 1..Len(line) /\ Len(line) \in Nat
      /\ DOMAIN rx_buff = 1..K /\ K \in Nat
      /\ DOMAIN stream = 1..K + Len(line) /\ Len(stream) = K + Len(line)
      /\ \A j \in 1..K : stream[j] = rx_buff[j]
      /\ \A j \in DOMAIN line : stream[K + j] = line[j] /\ line[j] \in SentBytes
  BY <1>0, <1>1, StreamIs DEF LinkType
<1>4. m = K + i /\ m \in DOMAIN stream /\ stream[m] = line[i] /\ m > K /\ m \in Nat /\ i \in Nat
  BY <1>0, <1>3
<1> DEFINE other == [line[i] EXCEPT !.b = b]
<1>5. other \in SentBytes /\ other.b = b /\ other.frame = line[i].frame /\ other.place = line[i].place
  <2>1. b \in Byte
    BY SerialAssumption
  <2>2. line[i] \in SentBytes
    BY <1>3
  <2> QED
    BY <2>1, <2>2 DEF SentBytes
<1>6. line' = [line EXCEPT ![i] = other]
  BY <1>2
<1> HIDE DEF other
<1>7. /\ line' \in Seq(SentBytes) /\ Len(line') = Len(line) /\ DOMAIN line' = DOMAIN line
      /\ line'[i] = other /\ \A j \in DOMAIN line : j # i => line'[j] = line[j]
  <2>1. line \in [1..Len(line) -> SentBytes]
    BY <1>3, ElementOfSeq, SeqDef
  <2>2. line' \in [1..Len(line) -> SentBytes]
    BY <1>5, <1>6, <2>1
  <2>3. line' \in Seq(SentBytes)
    BY <1>3, <2>2, SeqDef
  <2> QED
    BY <1>3, <1>6, <2>2, <2>3, LenProperties
<1>8. mark = <<stream[m].frame, stream[m].place>> /\ stream[m].frame \in DOMAIN transmitted /\ stream[m].place \in Nat
  <2>1. stream[m] \in SentBytes
    BY <1>3, <1>4
  <2> QED
    BY <1>0, <1>4, <2>1, StreamFacts DEF SentBytes
<1>9. LinkType'
  <2>1. damaged' \subseteq (DOMAIN transmitted') \X Nat
    BY <1>1, <1>2, <1>8 DEF LinkType
  <2> QED
    BY <1>1, <1>2, <1>7, <2>1 DEF LinkType
\* No other byte of the stream has its frame and place.
<1>10. ASSUME NEW j \in DOMAIN stream, j # m PROVE <<stream[j].frame, stream[j].place>> # mark
  <2> DEFINE x == stream[j]
             y == stream[m]
  <2>1. x \in SentBytes /\ y \in SentBytes /\ j \in Nat
    <3>1. j \in Nat
      BY <1>3
    <3> QED
      BY <1>4, <3>1, StreamFacts
  <2>2. (j < m => Follows(x, y, m - j)) /\ (m < j => Follows(y, x, j - m))
    BY <1>4, StreamFacts
  <2>3. x.frame \in Nat /\ y.frame \in Nat /\ x.place \in Nat /\ y.place \in Nat
    BY <2>1 DEF SentBytes
  <2> HIDE DEF x, y
  <2>4. x.frame # y.frame \/ x.place # y.place
    BY <1>4, <1>10, <2>1, <2>2, <2>3 DEF Follows
  <2> QED
    BY <1>8, <2>4 DEF x, y
<1>11. Around
  <2>1. ASSUME NEW n, NEW p, <<n, p>> \in damaged', <<n, p>> \notin damaged, NEW j \in DOMAIN rx_buff
        PROVE  ~(rx_buff[j].frame = n /\ rx_buff[j].place = p)
    <3>1. <<n, p>> = mark
      BY <1>2, <2>1
    <3>2. j \in DOMAIN stream /\ j # m /\ stream[j] = rx_buff[j]
      BY <1>3, <1>4
    <3> QED
      BY <1>10, <3>1, <3>2
  <2>2. damaged \subseteq damaged'
    BY <1>2
  <2> QED
    BY <1>2, <2>1, <2>2 DEF Around
<1>12. /\ DOMAIN stream' = DOMAIN stream /\ Len(stream') = Len(stream)
       /\ stream'[m] = other /\ \A j \in DOMAIN stream : j # m => stream'[j] = stream[j]
  <2>1. rx_buff \in Seq(SentBytes) /\ stream' = rx_buff \o line'
    BY <1>1, <1>2 DEF stream, LinkType
  <2>2. /\ stream' \in Seq(SentBytes) /\ Len(stream') = K + Len(line)
        /\ \A j \in 1..K + Len(line) : stream'[j] = IF j <= K THEN rx_buff[j] ELSE line'[j - K]
    <3>1. /\ rx_buff \o line' \in Seq(SentBytes) /\ Len(rx_buff \o line') = Len(rx_buff) + Len(line')
          /\ \A j \in 1..Len(rx_buff) + Len(line') :
                (rx_buff \o line')[j] = IF j <= Len(rx_buff) THEN rx_buff[j] ELSE line'[j - Len(rx_buff)]
      BY <1>7, <2>1, ConcatProperties
    <3>2. Len(rx_buff) = K /\ Len(line') = Len(line)
      BY <1>0, <1>7
    <3> QED
      BY <2>1, <3>1, <3>2
  <2>3. DOMAIN stream' = DOMAIN stream
    BY <1>3, <2>2, LenProperties
  <2>4. stream'[m] = other
    BY <1>3, <1>4, <1>7, <2>2
  <2>5. ASSUME NEW j \in DOMAIN stream, j # m PROVE stream'[j] = stream[j]
    <3>1. CASE j <= K
      BY <1>3, <2>2, <3>1
    <3>2. CASE ~(j <= K)
      <4>1. j - K \in DOMAIN line /\ j - K # i /\ K + (j - K) = j
        BY <1>3, <1>4, <2>5, <3>2
      <4>2. stream[j] = line[j - K] /\ stream'[j] = line'[j - K]
        BY <1>3, <2>2, <3>2, <4>1
      <4> QED
        BY <1>7, <4>1, <4>2
    <3> QED
      BY <3>1, <3>2
  <2> QED
    BY <1>3, <2>2, <2>3, <2>4, <2>5
<1>13. \A j \in DOMAIN stream : /\ stream'[j].frame = stream[j].frame /\ stream'[j].place = stream[j].place
                                /\ j # m => stream'[j].b = stream[j].b
                                /\ j = m => stream'[j].b = b
  BY <1>4, <1>5, <1>12
<1>14. \A n : SizeOf(n)' = SizeOf(n) /\ \A p : SentAs(n, p)' = SentAs(n, p)
  BY <1>2, Zenon DEF SizeOf, SentAs
<1>15. AreSent(stream)'
  <2> SUFFICES ASSUME NEW j \in DOMAIN stream', NEW x, x = stream'[j]
      PROVE  /\ x.frame \in DOMAIN transmitted' /\ x.place \in 1..SizeOf(x.frame)'
             /\ <<x.frame, x.place>> \in damaged' <=> x.b # SentAs(x.frame, x.place)'
    BY Zenon DEF AreSent, SizeOf, SentAs
  <2> DEFINE y == stream[j]
  <2>1. /\ j \in DOMAIN stream /\ x.frame = y.frame /\ x.place = y.place
        /\ j # m => x.b = y.b
        /\ j = m => x.b = b
    BY <1>12, <1>13
  <2>2. /\ y.frame \in DOMAIN transmitted /\ y.place \in 1..SizeOf(y.frame)
        /\ <<y.frame, y.place>> \in damaged <=> y.b # SentAs(y.frame, y.place)
    BY <2>1, StreamFacts
  <2>3. CASE j # m
    <3>1. <<y.frame, y.place>> # mark
      BY <1>10, <2>1, <2>3
    <3> HIDE DEF y
    <3> QED
      BY <1>2, <1>14, <2>1, <2>2, <2>3, <3>1
  <2>4. CASE j = m
    <3>1. <<y.frame, y.place>> = mark /\ y.b = line[i].b
      BY <1>4, <1>8, <2>4
    <3> HIDE DEF y
    <3>2. y.b = SentAs(y.frame, y.place)
      BY <1>2, <2>2, <3>1
    <3> QED
      BY <1>2, <1>14, <2>1, <2>2, <2>4, <3>1, <3>2
  <2> QED
    BY <2>3, <2>4
<1>16. InOrder(stream)'
  <2> SUFFICES ASSUME NEW j \in DOMAIN stream', NEW k \in DOMAIN stream', j < k,
                      NEW x, x = stream'[j], NEW y, y = stream'[k]
      PROVE  \/ y.frame = x.frame /\ y.place = x.place + (k - j)
             \/ y.frame > x.frame /\ (k - j) + x.place >= SizeOf(x.frame)' + y.place
    BY Zenon DEF InOrder, Follows, SizeOf
  <2>1. j \in DOMAIN stream /\ k \in DOMAIN stream
    BY <1>12
  <2>2. Follows(stream[j], stream[k], k - j)
    BY <2>1, StreamFacts
  <2>3. /\ x.frame = stream[j].frame /\ x.place = stream[j].place
        /\ y.frame = stream[k].frame /\ y.place = stream[k].place
    BY <1>13, <2>1
  <2>4. \/ y.frame = x.frame /\ y.place = x.place + (k - j)
        \/ y.frame > x.frame /\ (k - j) + x.place >= SizeOf(x.frame) + y.place
    BY <2>2, <2>3 DEF Follows
  <2> QED
    BY <1>14, <2>4
<1>17. EndWhole(stream)'
  <2> SUFFICES ASSUME NEW j \in DOMAIN stream', NEW x, x = stream'[j]
               PROVE  j + SizeOf(x.frame)' <= Len(stream') + x.place
    BY Zenon DEF EndWhole, SizeOf
  <2>1. j \in DOMAIN stream /\ x.frame = stream[j].frame /\ x.place = stream[j].place
    BY <1>12, <1>13
  <2>2. j + SizeOf(x.frame) <= Len(stream) + x.place
    BY <2>1, StreamFacts
  <2> QED
    BY <1>12, <1>14, <2>2
<1> QED
  BY <1>2, <1>9, <1>11, <1>15, <1>16, <1>17 DEF Sound
-----------------------------------------------------------------------------
(* The invariant, and what follows.                                        *)

LinkInv == Sound /\ NeverInside /\ ParsedWhole /\ LostOnlyIfOutOfStep /\ ReaderDiesOnlyOf

LEMMA LinkInitInv == LinkInit => LinkInv
<1> SUFFICES ASSUME LinkInit PROVE LinkInv
  OBVIOUS
<1>1. /\ transmitted = <<>> /\ damaged = {} /\ line = <<>> /\ plugged = TRUE
      /\ rx_buff = <<>> /\ at = 1 /\ parsed_commands = <<>> /\ died = "no"
  BY DEF LinkInit
<1>2. LinkType
  <2>1. <<>> \in Seq(Frames) /\ <<>> \in Seq(SentBytes) /\ <<>> \in Seq(Commands) /\ Len(<<>>) = 0
    BY EmptySeq
  <2> QED
    BY <1>1, <2>1 DEF LinkType
<1>3. DOMAIN stream = {} /\ DOMAIN rx_buff = {} /\ DOMAIN parsed_commands = {}
  <2>1. DOMAIN stream = {} /\ DOMAIN rx_buff = {}
    BY <1>1, <1>2, StreamIs
  <2> QED
    BY <1>1, <2>1
<1>4. Sound
  BY <1>2, <1>3 DEF Sound, AreSent, InOrder, EndWhole
<1>5. NeverInside /\ ParsedWhole /\ LostOnlyIfOutOfStep
  BY <1>3 DEF NeverInside, ParsedWhole, LostOnlyIfOutOfStep
<1> QED
  BY <1>1, <1>4, <1>5 DEF LinkInv, ReaderDiesOnlyOf

LEMMA LinkStep == LinkInv /\ [LinkNext]_linkVars => LinkInv'
<1> SUFFICES ASSUME LinkInv, [LinkNext]_linkVars PROVE LinkInv'
  OBVIOUS
<1>1. Buffer /\ Sound /\ LinkType
  BY SoundBuffer DEF LinkInv, Sound
<1>2. ASSUME Around, Sound', died' = died PROVE LinkInv'
  BY <1>1, <1>2, AroundInv DEF LinkInv
<1>3. ASSUME NEW f \in Frames, SendFrame(f) PROVE LinkInv'
  BY <1>1, <1>2, <1>3, SendSound
<1>4. ASSUME NEW j \in DOMAIN line, NEW b \in NoiseBytes, Damage(j, b) PROVE LinkInv'
  BY <1>1, <1>2, <1>4, DamageSound
<1>5. ASSUME Unplug \/ UNCHANGED linkVars PROVE LinkInv'
  <2>1. UNCHANGED <<transmitted, damaged, line, rx_buff, at, parsed_commands, died>>
    BY <1>5 DEF Unplug, linkVars
  <2>5. plugged' = FALSE \/ plugged' = plugged
    BY <1>5 DEF Unplug, linkVars
  <2>6. plugged' \in BOOLEAN
    BY <1>1, <2>5, Zenon DEF LinkType
  <2>7. plugged' => plugged
    BY <2>5, Zenon
  <2>2. LinkType' /\ stream' = stream /\ UNCHANGED <<transmitted, damaged>>
    BY <1>1, <2>1, <2>6 DEF LinkType, stream
  <2>3. Sound'
    BY <1>1, <2>2, StreamKept
  <2>4. Around
    BY <2>1, <2>7 DEF Around
  <2> QED
    BY <1>2, <2>1, <2>3, <2>4
<1>6. ASSUME NEW n \in 1..Len(line), Loop(n), died = "no" PROVE LinkInv'
  <2>1. Sound'
    BY <1>1, <1>6, LoopSound
  <2>2. parsed_commands' = <<>> /\ at' = 1 /\ died' = "no"
    BY <1>6 DEF Loop
  <2>3. \A j \in DOMAIN rx_buff' : j \in Nat /\ j >= 1
    BY <2>1, LenProperties DEF Sound, LinkType
  <2>4. NeverInside'
    BY <2>2, <2>3 DEF NeverInside
  <2>5. ParsedWhole'
    BY <2>2 DEF ParsedWhole
  <2>6. LostOnlyIfOutOfStep'
    BY <2>2, <2>3 DEF LostOnlyIfOutOfStep
  <2>7. ReaderDiesOnlyOf'
    BY <2>2 DEF ReaderDiesOnlyOf
  <2> QED
    BY <2>1, <2>4, <2>5, <2>6, <2>7 DEF LinkInv
<1>7. ASSUME LoopThrows PROVE LinkInv'
  <2>1. /\ transmitted' = transmitted /\ damaged' = damaged /\ line' = line /\ plugged' = plugged
        /\ rx_buff' = rx_buff /\ at' = at /\ parsed_commands' = parsed_commands /\ died' = "read"
        /\ ~plugged
    BY <1>7 DEF LoopThrows, Readable
  <2>2. LinkType' /\ stream' = stream
    BY <1>1, <2>1 DEF LinkType, stream
  <2>3. Sound'
    BY <1>1, <2>1, <2>2, StreamKept
  <2>4. UNCHANGED <<transmitted, damaged, rx_buff>>
    BY <2>1
  <2>5. NeverInside' /\ ParsedWhole' /\ LostOnlyIfOutOfStep'
    <3>1. Around
      BY <2>1 DEF Around
    <3> QED
      BY <1>1, <3>1, AroundInv DEF LinkInv
  <2>6. ReaderDiesOnlyOf'
    BY <2>1 DEF ReaderDiesOnlyOf
  <2> QED
    BY <2>3, <2>5, <2>6 DEF LinkInv
<1>8. ASSUME parseReceivedData PROVE LinkInv'
  <2>1. NeverInside' /\ ParsedWhole' /\ LostOnlyIfOutOfStep' /\ ReaderDiesOnlyOf'
    BY <1>1, <1>8, TurnNeverInside, TurnParses, TurnLoses, TurnDies DEF LinkInv
  <2>2. LinkType' /\ UNCHANGED <<transmitted, damaged, line, plugged, rx_buff>>
    BY <1>1, <1>8, TurnType, TurnKeeps
  <2>3. stream' = stream
    BY <2>2 DEF stream
  <2>4. Sound'
    BY <1>1, <2>2, <2>3, StreamKept
  <2> QED
    BY <2>1, <2>4 DEF LinkInv
<1> QED
  BY <1>3, <1>4, <1>5, <1>6, <1>7, <1>8 DEF LinkNext

LEMMA LinkInductive == LinkSpec => []LinkInv
BY LinkInitInv, LinkStep, PTL DEF LinkSpec

\* Bytes, frames and commands keep their types, and the parser never leaves the buffer
\* (uart.cpp:111-162).
THEOREM LinkTypeCorrect == LinkSpec => []LinkType
<1>1. LinkInv => LinkType
  BY DEF LinkInv, Sound
<1> QED
  BY <1>1, LinkInductive, PTL

\* A command that was parsed from the start of a frame, with its length as it was sent and one
\* damaged byte at most, is that frame, for any frames and reads (uart.cpp:111-162).
THEOREM OnlySentIsParsed == LinkSpec => []ParsedAreSent
<1>1. LinkInv => ParsedAreSent
  BY DEF LinkInv, ParsedWhole, ParsedAreSent
<1> QED
  BY <1>1, LinkInductive, PTL

\* A frame that one read takes whole and undamaged is lost only if the parser was out of step
\* before it (uart.cpp:111-162, 196-223).
THEOREM NothingElseIsLost == LinkSpec => []LostOnlyIfOutOfStep
<1>1. LinkInv => LostOnlyIfOutOfStep
  BY DEF LinkInv
<1> QED
  BY <1>1, LinkInductive, PTL

\* The reader dies only when the adapter was unplugged, of a frame with the longest payload,
\* and out of step (uart.cpp:134-136, 206-219).
THEOREM NothingElseKillsTheReader == LinkSpec => []ReaderDiesOnlyOf
<1>1. LinkInv => ReaderDiesOnlyOf
  BY DEF LinkInv
<1> QED
  BY <1>1, LinkInductive, PTL
=============================================================================
