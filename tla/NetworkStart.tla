---------------------------- MODULE NetworkStart ----------------------------
(***************************************************************************)
(* Starting the Zigbee network: Zhub::start repeats                        *)
(* Controller::start_network every ten seconds until an attempt succeeds   *)
(* or the program is told to stop.  An attempt is a fixed sequence of      *)
(* synchronous requests of one thread: reset, channel list, configuration, *)
(* second reset, start-up, registration.  Some failures end the attempt,   *)
(* most are ignored.  The device file, which the same thread reads before  *)
(* permitJoin, is in DeviceRegistry.                                       *)
(*                                                                         *)
(* The adapter executes requests in the order of the output channel.  A    *)
(* request, its answer or both may be lost, an answer may be a refusal, or *)
(* come after the time-out, and the adapter may reset itself.  Each of     *)
(* these is a fault, and faults are bounded.                               *)
(***************************************************************************)
EXTENDS Naturals, Sequences, SequencesExt

CONSTANTS
    Channels,     \* the RF channels of the configuration file
    ChannelLists, \* what the adapter's memory may hold
    MaxFaults,    \* bound: faults in a behaviour
    NoAnswer      \* std::nullopt; also a cleared event

ASSUME StartAssumption == Channels \in ChannelLists /\ MaxFaults \in Nat

VARIABLES
    pc,         \* the request start_network is at, or how it ended
    waiting,    \* the request is written
    flag,       \* App::Flag
    event,      \* eventCommand_: the stored answer of each identifier
    requests,   \* chan_out and the serial line
    answers,    \* answers that no worker has handled yet
    nv,         \* external: CHANNEL_LIST in the adapter's memory
    running,    \* external: the channels it has used since its last reset
    started,    \* external: the network is up
    registered, \* external: the endpoint is registered
    faults,     \* auxiliary: faults so far
    clean       \* history: this attempt began with nothing under way, and
                \* there has been no fault since

program == <<pc, waiting, flag, event>>
adapter == <<nv, running, started, registered>>
vars == <<program, requests, answers, adapter, faults, clean>>

\* The requests, by the identifier of the event that their answer sets.
EventOf == [option   |-> "NV_WRITE",  reset    |-> "RESET_IND",
            read     |-> "NV_READ",   channels |-> "NV_WRITE",
            direct   |-> "NV_WRITE",  init     |-> "NV_INIT",
            conf     |-> "NV_WRITE",  option2  |-> "NV_WRITE",
            reset2   |-> "RESET_IND", startup  |-> "STARTUP",
            info     |-> "DEVICE_INFO", register |-> "REGISTER",
            permit   |-> "PERMIT_JOIN"]

Places == DOMAIN EventOf
Events == {EventOf[p] : p \in Places}
Resets == {"reset", "reset2"}

\* The events that request p begins by clearing: reset() clears SYS_RESET_IND
\* before it writes STARTUP_OPTION, and again before the reset itself.
Cleared(p) == {EventOf[p]} \cup IF p \in {"option", "option2"} THEN {"RESET_IND"} ELSE {}

\* Mutant: the second reset is left out.
OnSuccessOneReset ==
           [option |-> "reset", reset |-> "read", channels |-> "direct",
            direct |-> "init", init |-> "conf", conf |-> "startup",
            option2 |-> "reset2", reset2 |-> "startup", startup |-> "info",
            info |-> "register", register |-> "permit", permit |-> "up"]

\* Where start_network goes on after a request that succeeded ...
OnSuccess == [option |-> "reset", reset |-> "read", channels |-> "direct",
              direct |-> "init", init |-> "conf", conf |-> "option2",
              option2 |-> "reset2", reset2 |-> "startup", startup |-> "info",
              info |-> "register", register |-> "permit", permit |-> "up"]

\* ... and after one that failed or was not answered: finish_configuration
\* returns, and its result is ignored; only the first reset and the start-up
\* end the attempt.
OnFailure == [option |-> "reset", reset |-> "failed", channels |-> "direct",
              direct |-> "startup", init |-> "startup", conf |-> "startup",
              option2 |-> "reset2", reset2 |-> "startup", startup |-> "failed",
              info |-> "register", register |-> "permit", permit |-> "up"]

-----------------------------------------------------------------------------
(* start_network.                                                          *)

Pending(id) == event[id] = NoAnswer

\* Mutant: the event keeps the answer to an earlier request.
AskWithoutClear ==
    /\ pc \in Places /\ ~waiting
    /\ requests' = Append(requests, pc)
    /\ waiting' = TRUE
    /\ UNCHANGED <<pc, flag, event, answers, adapter, faults, clean>>

\* Clear the event and write the request.
Ask ==
    /\ pc \in Places /\ ~waiting
    /\ event' = [id \in Events |-> IF id \in Cleared(pc) THEN NoAnswer ELSE event[id]]
    /\ requests' = Append(requests, pc)
    /\ waiting' = TRUE
    /\ UNCHANGED <<pc, flag, answers, adapter, faults, clean>>

\* The request is done, with answer a or none.  The channel lists are compared as
\* vectors: the configured one is taken to be ascending.  read_rf_channels dereferences
\* what readNv returned: with no value that is undefined, and either ends the
\* program or yields some channel list.
GoOn(a) ==
    /\ waiting' = FALSE
    /\ IF pc = "read"
       THEN IF a # NoAnswer /\ a.ok
            THEN pc' = IF a.nv = Channels THEN "direct" ELSE "channels"
            ELSE pc' \in {"crashed", "direct", "channels"}
       ELSE pc' = IF a # NoAnswer /\ a.ok THEN OnSuccess[pc] ELSE OnFailure[pc]

Answered ==
    /\ waiting /\ ~Pending(EventOf[pc])
    /\ GoOn(event[EventOf[pc]])
    /\ UNCHANGED <<flag, event, requests, answers, adapter, faults, clean>>

\* An answer to the request, or to an earlier one that cannot be told from it,
\* is still to come.
Coming(id) ==
    \/ \E k \in 1..Len(requests) : EventOf[requests[k]] = id
    \/ \E k \in 1..Len(answers) : EventOf[answers[k].to] = id

\* Mutant: the wait has no time-out.
TimeOutNever == FALSE

TimeOut ==
    /\ waiting /\ Pending(EventOf[pc]) /\ ~Coming(EventOf[pc])
    /\ GoOn(NoAnswer)
    /\ UNCHANGED <<flag, event, requests, answers, adapter, faults, clean>>

\* Zhub::start tries again unless it is told to stop.
Retry ==
    /\ pc = "failed"
    /\ pc' = IF flag THEN "option" ELSE "stopped"
    /\ clean' = (requests = <<>> /\ answers = <<>>)
    /\ UNCHANGED <<waiting, flag, event, requests, answers, adapter, faults>>

\* A signal or the keyboard clears App::Flag.
StopProgram ==
    /\ flag
    /\ flag' = FALSE
    /\ UNCHANGED <<pc, waiting, event, requests, answers, adapter, faults, clean>>

-----------------------------------------------------------------------------
(* The adapter.                                                            *)

AnswerTo(p, ok) == [to |-> p, ok |-> ok, nv |-> nv]

\* What AnswerTo yields: a cleared event is none of these.
AnswerSet == [to : Places, ok : BOOLEAN, nv : ChannelLists]

ASSUME NoAnswerAssumption == NoAnswer \notin AnswerSet

ResetAdapter ==
    /\ running' = nv
    /\ started' = FALSE /\ registered' = FALSE
    /\ UNCHANGED nv

\* The effect of request p.
Effect(p) ==
    \/ p \in Resets /\ ResetAdapter
    \/ p = "channels" /\ nv' = Channels /\ UNCHANGED <<running, started, registered>>
    \/ p = "startup" /\ started' = TRUE /\ UNCHANGED <<nv, running, registered>>
    \/ p = "register" /\ registered' = TRUE /\ UNCHANGED <<nv, running, started>>
    \/ p \notin Resets \cup {"channels", "startup", "register"} /\ UNCHANGED adapter

Execute ==
    /\ requests # <<>>
    /\ requests' = Tail(requests)
    /\ answers' = Append(answers, AnswerTo(Head(requests), TRUE))
    /\ Effect(Head(requests))
    /\ UNCHANGED <<program, faults, clean>>

\* A pool worker handles an answer: not always the oldest.
Deliver ==
    \E k \in 1..Len(answers) :
        /\ event' = [event EXCEPT ![EventOf[answers[k].to]] = answers[k]]
        /\ answers' = RemoveAt(answers, k)
        /\ UNCHANGED <<pc, waiting, flag, requests, adapter, faults, clean>>

-----------------------------------------------------------------------------
(* Faults.                                                                 *)

Fault ==
    /\ faults < MaxFaults
    /\ faults' = faults + 1
    /\ clean' = FALSE

\* A status other than success, start-up "not started": nothing is done.
Refuse ==
    /\ requests # <<>> /\ Head(requests) \notin Resets
    /\ Fault
    /\ requests' = Tail(requests)
    /\ answers' = Append(answers, AnswerTo(Head(requests), FALSE))
    /\ UNCHANGED <<program, adapter>>

LoseRequest ==
    /\ requests # <<>>
    /\ Fault
    /\ requests' = Tail(requests)
    /\ UNCHANGED <<program, answers, adapter>>

LoseAnswer ==
    /\ Fault
    /\ \E k \in 1..Len(answers) : answers' = RemoveAt(answers, k)
    /\ UNCHANGED <<program, requests, adapter>>

TimeOutTooSoon ==
    /\ waiting /\ Pending(EventOf[pc]) /\ Coming(EventOf[pc])
    /\ Fault
    /\ GoOn(NoAnswer)
    /\ UNCHANGED <<flag, event, requests, answers, adapter>>

\* The adapter's watch-dog, or its power, resets it: SYS_RESET_IND again.
ResetsItself ==
    /\ Fault
    /\ ResetAdapter
    /\ answers' = Append(answers, AnswerTo("reset", TRUE))
    /\ UNCHANGED <<program, requests>>

-----------------------------------------------------------------------------
Init ==
    /\ pc = "option" /\ waiting = FALSE /\ flag = TRUE
    /\ event = [id \in Events |-> NoAnswer]
    /\ requests = <<>> /\ answers = <<>>
    /\ nv \in ChannelLists /\ running = nv
    /\ started \in BOOLEAN /\ registered \in BOOLEAN
    /\ faults = 0 /\ clean = TRUE

Program == Ask \/ Answered \/ TimeOut \/ Retry

Faults == Refuse \/ LoseRequest \/ LoseAnswer \/ TimeOutTooSoon \/ ResetsItself

Next == Program \/ StopProgram \/ Execute \/ Deliver \/ Faults

\* The program and the workers go on, and an adapter that does not lose a
\* request answers it; faults stop because they are bounded.
Fairness == WF_vars(Program) /\ WF_vars(Execute) /\ WF_vars(Deliver)

Spec == Init /\ [][Next]_vars
FairSpec == Spec /\ Fairness

-----------------------------------------------------------------------------
\* An attempt without faults, whatever earlier attempts left behind, ends with
\* the network up on the configured channels and the endpoint registered.
CleanStartConfigures ==
    clean /\ pc = "up" => running = Channels /\ started /\ registered

\* Such an attempt neither fails nor dereferences a value that was not read:
\* what an earlier attempt left in the events does not count against it.
CleanStartSucceeds == clean => pc \notin {"failed", "crashed"}

\* The start ends: faults are bounded, and every wait has a time-out.
StartEnds == <>(pc \in {"up", "crashed", "stopped"})
=============================================================================
