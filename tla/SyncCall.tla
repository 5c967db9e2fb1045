------------------------------ MODULE SyncCall ------------------------------
(***************************************************************************)
(* What Zdo::syncRequest promises a caller, without the event, the shared  *)
(* argument or the output channel: a call returns nullopt, or an answer    *)
(* that arrived for its command identifier while the call was open.  Only  *)
(* when another thread opened a call for the same identifier meanwhile may *)
(* it return the empty command that clear() stores.                        *)
(***************************************************************************)
EXTENDS Naturals

CONSTANTS
    Threads,      \* threads that issue synchronous requests
    CmdIds,       \* identifiers of the synchronous answers (request id | 0x4000)
    Answers,      \* commands the adapter can answer with, records with a field id
    EmptyCommand, \* Command(): identifier 0 and no payload
    Nullopt       \* std::nullopt, the time-out

VARIABLES
    open,         \* threads inside syncRequest
    req,          \* the identifier each thread's latest call waits for
    heard,        \* answers for that identifier that arrived during the call
    contended,    \* another thread opened a call for it during the call
    result        \* what the latest call returned

vars == <<open, req, heard, contended, result>>

Init ==
    /\ open = {}
    /\ req \in [Threads -> CmdIds]
    /\ heard = [t \in Threads |-> {}]
    /\ contended = [t \in Threads |-> FALSE]
    /\ result = [t \in Threads |-> Nullopt]

Begin(t, i) ==
    /\ t \notin open
    /\ open' = open \cup {t}
    /\ req' = [req EXCEPT ![t] = i]
    /\ heard' = [heard EXCEPT ![t] = {}]
    /\ contended' = [u \in Threads |->
                        IF u = t THEN FALSE
                        ELSE contended[u] \/ (u \in open /\ req[u] = i)]
    /\ UNCHANGED result

Arrive(a) ==
    /\ heard' = [t \in Threads |->
                    IF t \in open /\ req[t] = a.id
                    THEN heard[t] \cup {a} ELSE heard[t]]
    /\ UNCHANGED <<open, req, contended, result>>

Return(t, r) ==
    /\ t \in open
    /\ \/ r = Nullopt
       \/ r \in heard[t]
       \/ r = EmptyCommand /\ contended[t]
    /\ open' = open \ {t}
    /\ result' = [result EXCEPT ![t] = r]
    /\ UNCHANGED <<req, heard, contended>>

Next ==
    \/ \E t \in Threads, i \in CmdIds : Begin(t, i)
    \/ \E a \in Answers : Arrive(a)
    \/ \E t \in Threads : \E r \in heard[t] \cup {Nullopt, EmptyCommand} : Return(t, r)

Spec == Init /\ [][Next]_vars
=============================================================================
