---------------------------- MODULE SyncRequest -----------------------------
(***************************************************************************)
(* Synchronous requests to the Zigbee adapter: Zdo::syncRequest and        *)
(* Zdo::asyncRequest over the class EventCommand.                          *)
(*                                                                         *)
(* A caller clears the event of the answer's identifier, writes the        *)
(* request to chan_out and waits for the event; a pool worker that handles *)
(* the answer stores it as the event's argument and sets the event.        *)
(* Events are keyed by the identifier alone, callers are not serialised,   *)
(* and wait() never resets the event.                                      *)
(*                                                                         *)
(* Grain: emit() and clear() hold argument_mutex throughout, and wait()    *)
(* reads the argument under it, so each is one step.  The test of          *)
(* antiSpur_ inside wait() takes only the event's own mutex: it is a step  *)
(* of its own, before the step that reads the argument.                    *)
(***************************************************************************)
EXTENDS Naturals, Sequences

CONSTANTS
    Threads,       \* pool workers, timer threads, the main thread: any caller
    CmdIds,        \* identifiers of the synchronous answers (request id | 0x4000)
    ChanOutCap,    \* capacity of chan_out
    MaxCalls,      \* bound: calls made in a behaviour
    EmptyCommand,  \* Command()
    Nullopt        \* std::nullopt

Statuses == {"SUCCESS", "FAILURE"}

\* An answer carries its identifier and the status in payload(0).  The number
\* of the call it answers is auxiliary: the wire format does not carry it.
Answers == [id : CmdIds, n : 0..MaxCalls, status : Statuses]
Requests == [id : CmdIds, n : 0..MaxCalls]

ASSUME CapAssumption == ChanOutCap \in Nat \ {0} /\ MaxCalls \in Nat
ASSUME NotAnswers ==
    /\ EmptyCommand \notin Answers
    /\ Nullopt \notin Answers
    /\ EmptyCommand # Nullopt

VARIABLES
    antiSpur,  \* Event::antiSpur_ of each listener
    argument,  \* *Listener::argument of each listener
    chan_out,  \* the output channel
    wire,      \* answers the adapter gave and no worker has handled yet
    pc,        \* where each thread is in syncRequest
    req,       \* the identifier of the thread's latest call
    serial,    \* auxiliary: the number of that call
    calls,     \* auxiliary: calls made so far
    result,    \* what that call returned
    heard, contended, quiet  \* history, see below

eventVars == <<antiSpur, argument>>
callVars  == <<pc, req, serial, calls, result>>
histVars  == <<heard, contended, quiet>>
vars == <<eventVars, chan_out, wire, callVars, histVars>>

InCall(t) == pc[t] # "idle"

-----------------------------------------------------------------------------
(* History of the thread's latest call:                                    *)
(*   heard      answers for its identifier handled since its clear()       *)
(*   contended  another thread cleared the same identifier since then      *)
(*   quiet      no request or answer of that identifier was under way when *)
(*              it cleared the event, and no other thread wrote one since  *)

UnderWay(i) ==
    \/ \E k \in 1..Len(chan_out) : chan_out[k].id = i
    \/ \E a \in wire : a.id = i

RecordClear(t, i) ==
    /\ heard' = [heard EXCEPT ![t] = {}]
    /\ contended' = [u \in Threads |->
                        IF u = t THEN FALSE
                        ELSE contended[u] \/ (InCall(u) /\ req[u] = i)]
    /\ quiet' = [quiet EXCEPT ![t] = ~UnderWay(i)]

RecordWrite(t) ==
    /\ quiet' = [u \in Threads |->
                    quiet[u] /\ ~(u # t /\ InCall(u) /\ req[u] = req[t])]
    /\ UNCHANGED <<heard, contended>>

RecordEmit(a) ==
    /\ heard' = [t \in Threads |->
                    IF InCall(t) /\ req[t] = a.id
                    THEN heard[t] \cup {a} ELSE heard[t]]
    /\ UNCHANGED <<contended, quiet>>

-----------------------------------------------------------------------------
(* The emitter.                                                            *)

\* Mutant: emit() sets every listener.
EmitToAll(a) ==
    /\ argument' = [i \in CmdIds |-> a]
    /\ antiSpur' = [i \in CmdIds |-> TRUE]

Emit(a) ==
    /\ argument' = [argument EXCEPT ![a.id] = a]
    /\ antiSpur' = [antiSpur EXCEPT ![a.id] = TRUE]

\* Mutants: syncRequest does not clear the event; clear() forgets reset().
ClearForgotten(i) == UNCHANGED eventVars
ClearWithoutReset(i) ==
    /\ argument' = [argument EXCEPT ![i] = EmptyCommand]
    /\ UNCHANGED antiSpur

Clear(i) ==
    /\ argument' = [argument EXCEPT ![i] = EmptyCommand]
    /\ antiSpur' = [antiSpur EXCEPT ![i] = FALSE]

\* Mutant: the predicate that guards against spurious wake-ups is dropped.
EventIsSetSpuriously(i) == TRUE

\* wait_for returns the predicate: true once the flag is set, false only when
\* the time-out passes with the flag down.
EventIsSet(i) == antiSpur[i]

\* Command::payload(0): an empty payload grows to one zero byte, and zero is
\* Status::SUCCESS.
Payload0(cmd) == IF cmd = EmptyCommand THEN "SUCCESS" ELSE cmd.status

\* What asyncRequest returns for the result of its synchronous part.
AsyncRequest(r) == r # Nullopt /\ Payload0(r) = "SUCCESS"

-----------------------------------------------------------------------------
(* A thread in syncRequest.                                                *)

\* Line 864-865: clear the event of the answer.
ClearEvent(t, i) ==
    /\ pc[t] = "idle" /\ calls < MaxCalls
    /\ Clear(i)
    /\ pc' = [pc EXCEPT ![t] = "write"]
    /\ req' = [req EXCEPT ![t] = i]
    /\ calls' = calls + 1
    /\ serial' = [serial EXCEPT ![t] = calls + 1]
    /\ RecordClear(t, i)
    /\ UNCHANGED <<chan_out, wire, result>>

\* Mutant: the channel takes commands beyond its capacity.
WriteRequestUnbounded(t) ==
    /\ pc[t] = "write"
    /\ chan_out' = Append(chan_out, [id |-> req[t], n |-> serial[t]])
    /\ pc' = [pc EXCEPT ![t] = "wait"]
    /\ RecordWrite(t)
    /\ UNCHANGED <<eventVars, wire, req, serial, calls, result>>

\* Line 867: the channel blocks while it is full.
WriteRequest(t) ==
    /\ pc[t] = "write" /\ Len(chan_out) < ChanOutCap
    /\ chan_out' = Append(chan_out, [id |-> req[t], n |-> serial[t]])
    /\ pc' = [pc EXCEPT ![t] = "wait"]
    /\ RecordWrite(t)
    /\ UNCHANGED <<eventVars, wire, req, serial, calls, result>>

\* Event::wait returns true; argument_mutex is not held yet.
Awake(t) ==
    /\ pc[t] = "wait" /\ EventIsSet(req[t])
    /\ pc' = [pc EXCEPT ![t] = "read"]
    /\ UNCHANGED <<eventVars, chan_out, wire, req, serial, calls, result, histVars>>

ReadArgument(t) ==
    /\ pc[t] = "read"
    /\ result' = [result EXCEPT ![t] = argument[req[t]]]
    /\ pc' = [pc EXCEPT ![t] = "idle"]
    /\ UNCHANGED <<eventVars, chan_out, wire, req, serial, calls, histVars>>

\* Mutant: the wait has no time-out.
TimeOutNever(t) == FALSE

TimeOut(t) ==
    /\ pc[t] = "wait" /\ ~EventIsSet(req[t])
    /\ result' = [result EXCEPT ![t] = Nullopt]
    /\ pc' = [pc EXCEPT ![t] = "idle"]
    /\ UNCHANGED <<eventVars, chan_out, wire, req, serial, calls, histVars>>

-----------------------------------------------------------------------------
(* The sending thread, the adapter and the pool worker that handles the    *)
(* answer.                                                                 *)

\* Uart::snd_loop hands the oldest request to the adapter, which answers it.
Answer(status) ==
    /\ chan_out # <<>>
    /\ chan_out' = Tail(chan_out)
    /\ wire' = wire \cup {[id |-> Head(chan_out).id, n |-> Head(chan_out).n,
                           status |-> status]}
    /\ UNCHANGED <<eventVars, callVars, histVars>>

\* The port is closed, the write throws, or the adapter ignores the request:
\* send_command_to_device reports nothing to the caller.
SendFails ==
    /\ chan_out # <<>>
    /\ chan_out' = Tail(chan_out)
    /\ UNCHANGED <<eventVars, wire, callVars, histVars>>

\* The frame of an answer is damaged or split between two reads.
LoseAnswer(a) ==
    /\ wire' = wire \ {a}
    /\ UNCHANGED <<eventVars, chan_out, callVars, histVars>>

\* handle_command, in any worker: answers may be handled out of order.
HandleAnswer(a) ==
    /\ wire' = wire \ {a}
    /\ Emit(a)
    /\ RecordEmit(a)
    /\ UNCHANGED <<chan_out, callVars>>

-----------------------------------------------------------------------------
Init ==
    /\ antiSpur = [i \in CmdIds |-> FALSE]
    /\ argument = [i \in CmdIds |-> EmptyCommand]
    /\ chan_out = <<>>
    /\ wire = {}
    /\ pc = [t \in Threads |-> "idle"]
    /\ req \in [Threads -> CmdIds]
    /\ serial = [t \in Threads |-> 0]
    /\ calls = 0
    /\ result = [t \in Threads |-> Nullopt]
    /\ heard = [t \in Threads |-> {}]
    /\ contended = [t \in Threads |-> FALSE]
    /\ quiet = [t \in Threads |-> FALSE]

ThreadStep(t) == WriteRequest(t) \/ Awake(t) \/ ReadArgument(t) \/ TimeOut(t)

Send == SendFails \/ \E s \in Statuses : Answer(s)

Next ==
    \/ \E t \in Threads : ThreadStep(t)
    \/ \E t \in Threads, i \in CmdIds : ClearEvent(t, i)
    \/ Send
    \/ \E a \in wire : LoseAnswer(a) \/ HandleAnswer(a)

\* snd_loop keeps reading chan_out and every wait has a time-out.
Fairness == WF_vars(Send) /\ \A t \in Threads : WF_vars(ThreadStep(t))

Spec == Init /\ [][Next]_vars
FairSpec == Spec /\ Fairness

-----------------------------------------------------------------------------
TypeOK ==
    /\ antiSpur \in [CmdIds -> BOOLEAN]
    /\ argument \in [CmdIds -> Answers \cup {EmptyCommand}]
    /\ chan_out \in Seq(Requests) /\ Len(chan_out) <= ChanOutCap
    /\ wire \subseteq Answers
    /\ pc \in [Threads -> {"idle", "write", "wait", "read"}]
    /\ req \in [Threads -> CmdIds]
    /\ serial \in [Threads -> 0..MaxCalls]
    /\ calls \in 0..MaxCalls
    /\ result \in [Threads -> Answers \cup {EmptyCommand, Nullopt}]
    /\ heard \in [Threads -> SUBSET Answers]
    /\ contended \in [Threads -> BOOLEAN]
    /\ quiet \in [Threads -> BOOLEAN]

Returned(t) == pc[t] = "idle"

\* syncRequest clears the event before it writes, so the answer it returns was
\* handled after the call began: never one left over from an earlier call,
\* however many threads share the identifier.
ResultIsFresh ==
    \A t \in Threads :
        Returned(t) /\ result[t] \in Answers => result[t] \in heard[t]

\* A call returns the empty command, which asyncRequest takes for SUCCESS, only
\* if another thread cleared the same event while it waited.
EmptyOnlyIfContended ==
    \A t \in Threads :
        Returned(t) /\ result[t] = EmptyCommand => contended[t]

\* With nothing of its identifier under way at the start (no answer of a call
\* that timed out is still to come) and no other request written for it, a call
\* that returns an answer returns the answer to its own request.
QuietCallGetsOwnAnswer ==
    \A t \in Threads :
        Returned(t) /\ quiet[t] /\ result[t] \in Answers =>
            /\ result[t].n = serial[t]
            /\ result[t].id = req[t]

\* Every call of syncRequest returns: an answer or the time-out ends the wait
\* and the sending thread makes room in chan_out.
CallReturns == \A t \in Threads : InCall(t) ~> Returned(t)

\* The calls implement the promise of SyncCall.
Promise == INSTANCE SyncCall WITH open <- {t \in Threads : InCall(t)}
ImplementsSyncCall == Promise!Spec
=============================================================================
