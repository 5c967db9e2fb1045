-------------------------- MODULE AdapterPipeline ---------------------------
(***************************************************************************)
(* The path of a frame from the Zigbee adapter to the worker that handles  *)
(* it, composed with the synchronous requests the handlers make:           *)
(*                                                                         *)
(*   adapter -> rx -> Uart::loop -> chan_in -> thr_cmdin -> thread pool    *)
(*           -> handle_command in a worker -> syncRequest -> chan_out      *)
(*           -> Uart::snd_loop -> adapter                                  *)
(*                                                                         *)
(* The answer to a handler's request takes the same path and needs a free  *)
(* worker, while the handler that waits for it occupies one.               *)
(***************************************************************************)
EXTENDS Naturals, Sequences, FiniteSets, SequencesExt

CONSTANTS
    Workers,          \* threads of the pool, at least 8 in the code
    Others,           \* other callers of syncRequest: main thread, timers
    CmdIds,           \* identifiers of synchronous answers
    ChanInCap, ChanOutCap,
    MaxMessages,      \* bound: messages of devices in a behaviour
    CallsPerMessage,  \* bound: requests a handler makes for one message
    MaxCalls,         \* bound: requests in a behaviour
    EmptyCommand, Nullopt,
    NoJob             \* a free worker

VARIABLES
    rx,        \* frames sent by the adapter that Uart::loop has not queued
    chan_in,   \* the input channel
    carried,   \* the command thr_cmdin holds between read and add_command
    pool,      \* the pool's queue of commands
    job,       \* the command each worker handles
    left,      \* requests its handler may still make
    sent,      \* auxiliary: messages sent by devices so far
    antiSpur, argument, chan_out, pc, req, serial, calls, result,
    heard, contended, quiet

inVars   == <<rx, chan_in, carried, pool, job, left, sent>>
syncVars == <<antiSpur, argument, chan_out, pc, req, serial, calls, result,
              heard, contended, quiet>>
vars == <<inVars, syncVars>>

Threads == Workers \cup Others

Messages == [message : 1..MaxMessages]

\* Every frame between the adapter and the emitter, in no order.
InFlight == (UNION {ToSet(s) : s \in {rx, chan_in, carried, pool}})
            \cup {job[w] : w \in Workers}
wire == InFlight \ (Messages \cup {NoJob})

SR == INSTANCE SyncRequest

\* The markers are no commands; SyncRequest's own assumptions hold of the constants.
ASSUME PipelineAssumption ==
    /\ ChanInCap \in Nat \ {0} /\ ChanOutCap \in Nat \ {0}
    /\ MaxMessages \in Nat /\ CallsPerMessage \in Nat /\ MaxCalls \in Nat
    /\ Workers \cap Others = {}
    /\ {EmptyCommand, Nullopt, NoJob} \cap SR!Answers = {} /\ EmptyCommand # Nullopt
    /\ NoJob \notin Messages

-----------------------------------------------------------------------------
(* The adapter and the network behind it.                                  *)

\* A device reports, announces itself or leaves.
DeviceSends ==
    /\ sent < MaxMessages
    /\ sent' = sent + 1
    /\ rx' = Append(rx, [message |-> sent + 1])
    /\ UNCHANGED <<chan_in, carried, pool, job, left, syncVars>>

\* snd_loop writes the request and the adapter answers with a frame.
AdapterAnswers(status) ==
    /\ chan_out # <<>>
    /\ rx' = Append(rx, [id |-> Head(chan_out).id, n |-> Head(chan_out).n,
                         status |-> status])
    /\ chan_out' = Tail(chan_out)
    /\ UNCHANGED <<chan_in, carried, pool, job, left, sent>>
    /\ UNCHANGED <<antiSpur, argument, pc, req, serial, calls, result, heard, contended, quiet>>

\* snd_loop cannot write the request: nobody is told.
SendFails ==
    /\ UNCHANGED inVars
    /\ SR!SendFails

-----------------------------------------------------------------------------
(* The receiving threads.                                                  *)

\* Uart::loop queues a parsed frame; write blocks while chan_in is full.
UartLoop ==
    /\ rx # <<>> /\ Len(chan_in) < ChanInCap
    /\ chan_in' = Append(chan_in, Head(rx))
    /\ rx' = Tail(rx)
    /\ UNCHANGED <<carried, pool, job, left, sent, syncVars>>

\* thr_cmdin: chan_in->read() and then tp->add_command().
ReadChanIn ==
    /\ chan_in # <<>> /\ carried = <<>>
    /\ carried' = <<Head(chan_in)>>
    /\ chan_in' = Tail(chan_in)
    /\ UNCHANGED <<rx, pool, job, left, sent, syncVars>>

AddCommand ==
    /\ carried # <<>>
    /\ pool' = pool \o carried
    /\ carried' = <<>>
    /\ UNCHANGED <<rx, chan_in, job, left, sent, syncVars>>

-----------------------------------------------------------------------------
(* The workers.                                                            *)

\* Mutant: the command stays in the pool's queue.
GetCommandPeek(w) ==
    /\ job[w] = NoJob /\ pool # <<>>
    /\ job' = [job EXCEPT ![w] = Head(pool)]
    /\ left' = [left EXCEPT ![w] = CallsPerMessage]
    /\ UNCHANGED <<rx, chan_in, carried, pool, sent, syncVars>>

\* Zdo::on_command takes the next command from the pool.
GetCommand(w) ==
    /\ job[w] = NoJob /\ pool # <<>>
    /\ job' = [job EXCEPT ![w] = Head(pool)]
    /\ pool' = Tail(pool)
    /\ left' = [left EXCEPT ![w] = CallsPerMessage]
    /\ UNCHANGED <<rx, chan_in, carried, sent, syncVars>>

\* handle_command of a synchronous answer records the event.
EmitAnswer(w) ==
    /\ job[w] \in wire
    /\ job' = [job EXCEPT ![w] = NoJob]
    /\ SR!Emit(job[w])
    /\ SR!RecordEmit(job[w])
    /\ UNCHANGED <<rx, chan_in, carried, pool, left, sent>>
    /\ UNCHANGED <<chan_out, pc, req, serial, calls, result>>

\* handle_command of a message makes synchronous requests in this thread.
HandlerCalls(w, i) ==
    /\ job[w] \in Messages /\ left[w] > 0
    /\ left' = [left EXCEPT ![w] = @ - 1]
    /\ UNCHANGED <<rx, chan_in, carried, pool, job, sent>>
    /\ SR!ClearEvent(w, i)

HandlerDone(w) ==
    /\ job[w] \in Messages /\ pc[w] = "idle"
    /\ job' = [job EXCEPT ![w] = NoJob]
    /\ UNCHANGED <<rx, chan_in, carried, pool, left, sent, syncVars>>

OtherCalls(t, i) ==
    /\ UNCHANGED inVars
    /\ SR!ClearEvent(t, i)

CallProgress(t) ==
    /\ UNCHANGED inVars
    /\ SR!WriteRequest(t) \/ SR!Awake(t) \/ SR!ReadArgument(t)

\* Mutant: the wait has no time-out.
TimeOutNever(t) == FALSE

\* wait_for expires after 3 s, whether or not the answer is under way.
TimeOut(t) ==
    /\ UNCHANGED inVars
    /\ SR!TimeOut(t)

-----------------------------------------------------------------------------
Init ==
    /\ rx = <<>> /\ chan_in = <<>> /\ carried = <<>> /\ pool = <<>>
    /\ job = [w \in Workers |-> NoJob]
    /\ left = [w \in Workers |-> 0]
    /\ sent = 0
    /\ SR!Init

Send == SendFails \/ \E s \in SR!Statuses : AdapterAnswers(s)

Worker(w) == GetCommand(w) \/ EmitAnswer(w) \/ HandlerDone(w)

Next ==
    \/ DeviceSends \/ Send
    \/ UartLoop \/ ReadChanIn \/ AddCommand
    \/ \E w \in Workers : Worker(w)
    \/ \E w \in Workers, i \in CmdIds : HandlerCalls(w, i)
    \/ \E t \in Others, i \in CmdIds : OtherCalls(t, i)
    \/ \E t \in Threads : CallProgress(t) \/ TimeOut(t)

\* Every thread keeps running, a worker between two requests of a handler
\* included, and every wait has a time-out.
Fairness ==
    /\ WF_vars(Send) /\ WF_vars(UartLoop) /\ WF_vars(ReadChanIn) /\ WF_vars(AddCommand)
    /\ \A w \in Workers : WF_vars(Worker(w))
    /\ \A t \in Threads : WF_vars(CallProgress(t)) /\ WF_vars(TimeOut(t))

Spec == Init /\ [][Next]_vars
FairSpec == Spec /\ Fairness

-----------------------------------------------------------------------------
\* Queues, channels and workers neither lose, duplicate nor invent answers: what
\* the handlers see is what SyncRequest describes.
ImplementsSyncRequest == SR!Spec

\* Every message and every answer is handled in the end: time-outs free the
\* workers even when all of them wait for answers queued behind them.
Drains == <>[](InFlight \subseteq {NoJob})
=============================================================================
