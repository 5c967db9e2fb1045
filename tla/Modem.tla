------------------------------- MODULE Modem -------------------------------
(***************************************************************************)
(* The GSM modem.  A thread reads what the modem says into a pool of two   *)
(* workers.  command_handler recognises calls, tones, messages, balances   *)
(* and answers; most of its branches send commands themselves, and         *)
(* send_command waits up to five seconds for an event that only another    *)
(* worker can emit.  The threads of the program send commands too:         *)
(* nothing keeps the commands of a message (AT+CMGF=0, AT+CMGS, the text,  *)
(* AT+CMGF=1) together.                                                    *)
(*                                                                         *)
(* A command waits for the event of WaitOf, its answer emits the event of  *)
(* EmitOf; where they differ the command always times out.  Nobody uses    *)
(* what send_command returns.                                              *)
(***************************************************************************)
EXTENDS Naturals, Sequences, SequencesExt, FiniteSetsExt

CONSTANTS
    Workers,   \* the two threads of threadPoolModem
    App,       \* a thread of the program: main, http or a worker of the Zigbee pool
    Stimuli,   \* what happens outside, and what App does, once init_modem is over: see
               \* Stimulate
    Weight(_), \* bound: how much of MaxStimuli a stimulus uses up
    MaxStimuli \* bound: stimuli, weighted

ASSUME ModemAssumption == /\ App \notin Workers /\ MaxStimuli \in Nat
                          /\ \A s \in Stimuli : Weight(s) \in Nat

Actors == Workers \cup {App}
Names == {"AT", "ATE1", "CLIP", "CMGF0", "CMGF1", "DDET", "CMGD", "COLP",
          "CMGS", "text", "ATA", "ATH0", "ATD", "CUSD", "CMGR", "CBC"}
Effects == {"answered", "hungup", "texted"}

\* The events: named after commands.  The answer to AT+CLIP=1 emits none: it contains +CLIP,
\* so that it is taken for the caller's number.
WaitOf(cmd) ==
    CASE cmd = "AT" -> "At" [] cmd = "ATE1" -> "ATE"
      [] cmd \in {"CMGF0", "CMGF1"} -> "CMGF" [] cmd = "text" -> "OK" [] OTHER -> cmd
EmitOf(cmd) ==
    CASE cmd \in {"CMGF0", "CMGF1"} -> "CMGF"
      [] cmd \in {"COLP", "ATA", "ATD", "text"} -> "OK"
      [] cmd = "CMGS" -> ">" [] cmd \in {"CLIP", "CMGR", "CBC"} -> "none" [] OTHER -> cmd

\* The commands of init_modem, of a message, of a request for the balance.
InitModem == <<"AT", "ATE1", "CLIP", "CMGF1", "DDET", "CMGD", "COLP">>
SendSmsStays == <<"CMGF0", "CMGS", "text">>             \* Mutant: text mode is not set again.
SendSmsInText == <<"CMGS", "text", "CMGF1">>            \* Mutant: PDU mode is not set.
SendSms == <<"CMGF0", "CMGS", "text", "CMGF1">>
GetBalance == <<"CMGF1", "CUSD">>

Codes == {"401", "412"} \* the balance; the states of the sensors, 412 or 423
Chunks == {<<"*">>, <<"401">>, <<"#">>, <<"401", "#">>, <<"*", "412", "#">>}

VARIABLES
    events,       \* the events of sim800_event_emitter_ that are set
    isCall,       \* is_call_
    toneCmd,      \* tone_cmd
    toneStarted,  \* tone_cmd_started
    balanceToSms, \* balance_to_sms
    open,         \* the port is open and the receiver runs
    pool,         \* frames that wait for a worker: [kind, val], where val is the event of an
                  \* "answer", who makes a "ring", the code of an "sms", the chunk of "tones"
    job,          \* what each thread is doing
    line,         \* commands on their way to the modem
    modem,        \* external: mode (text, pdu), prompt (it expects a text), call, ussd
                  \* (balances it will get) and inbox (a message)
    stimuli,      \* auxiliary: stimuli so far
    lost,         \* history: a command or a frame was lost, or the port was closed
    overlapped,   \* history: a thread sent a command while another one sent a message
    eaten,        \* history: the modem took a command for the text of a message
    crossed,      \* history: two calls were handled at a time
    doubled,      \* history: a balance came, or was asked for, while one was being texted
    owed, extra,  \* history: a balance that was asked for is not texted; one not asked for was
    garbled,      \* history: a text was accepted out of PDU mode or without AT+CMGS
    hungUp        \* history: the last call was ended by the other side

flags == <<isCall, toneCmd, toneStarted, balanceToSms>>
history == <<lost, overlapped, eaten, crossed, doubled, owed, extra, garbled, hungUp>>
vars == <<events, flags, open, pool, job, line, modem, stimuli, history>>

Idle == [pc |-> "idle"]
Run(todo) == IF todo = <<>> THEN Idle ELSE [pc |-> "run", todo |-> todo]
Busy(a) == job[a].pc # "idle"
Settled == pool = <<>> /\ line = <<>> /\ ~modem.ussd /\ \A a \in Actors : ~Busy(a)
Has(a, step) == job[a].pc \in {"run", "wait"} /\ \E i \in DOMAIN job[a].todo : job[a].todo[i] = step

-----------------------------------------------------------------------------
(* send_command.                                                           *)

Next1(a) == job' = [job EXCEPT ![a] = Run(Tail(job[a].todo))]
AtCommand(a) == job[a].pc = "run" /\ Head(job[a].todo) \in Names
Emits(frame, id) == (frame.kind = "answer" /\ frame.val = id) \/ (frame.kind = "hangup" /\ id = "OK")
Answering(id) ==
    \/ \E i \in DOMAIN line : EmitOf(line[i].cmd) = id
    \/ \E i \in DOMAIN pool : Emits(pool[i], id)
    \/ \E w \in Workers : job[w].pc = "enter" /\ Emits(job[w].frame, id)

\* Mutant: the event of an earlier command is still set.
SendWithoutClear(a) ==
    LET cmd == Head(job[a].todo) IN
    /\ AtCommand(a) /\ open
    /\ line' = Append(line, [cmd |-> cmd, by |-> a])
    /\ job' = [job EXCEPT ![a] = [pc |-> "wait", todo |-> job[a].todo, done |-> FALSE,
                                  quiet |-> ~Answering(WaitOf(cmd))]]
    /\ UNCHANGED <<events, flags, open, pool, modem, stimuli, history>>

\* The event is cleared and the command written.  A wait is quiet while nothing else is
\* under way that would emit its event.
Send(a) ==
    LET cmd == Head(job[a].todo) IN
    /\ AtCommand(a) /\ open
    /\ events' = events \ {WaitOf(cmd)}
    /\ line' = Append(line, [cmd |-> cmd, by |-> a])
    /\ job' = [x \in Actors |->
                 IF x = a THEN [pc |-> "wait", todo |-> job[a].todo, done |-> FALSE,
                                quiet |-> ~Answering(WaitOf(cmd))]
                 ELSE IF job[x].pc = "wait" /\ WaitOf(Head(job[x].todo)) = EmitOf(cmd)
                 THEN [job[x] EXCEPT !.quiet = FALSE] ELSE job[x]]
    /\ overlapped' = (overlapped \/ \E x \in Actors \ {a} : Has(x, "text"))
    /\ UNCHANGED <<flags, open, pool, modem, stimuli, lost, eaten, crossed, doubled, owed, extra,
                   garbled, hungUp>>

\* The write fails, or the port is closed: send_command returns at once.  (Bound: one thing
\* is lost while the port is open, and nothing during init_modem.)
SendFails(a) ==
    /\ AtCommand(a) /\ (open => stimuli > 0 /\ ~lost)
    /\ Next1(a) /\ lost' = TRUE
    /\ UNCHANGED <<events, flags, open, pool, line, modem, stimuli, overlapped, eaten, crossed,
                   doubled, owed, extra, garbled, hungUp>>

Woken(a) ==
    /\ job[a].pc = "wait" /\ WaitOf(Head(job[a].todo)) \in events
    /\ Next1(a)
    /\ UNCHANGED <<events, flags, open, pool, line, modem, stimuli, history>>

\* The modem takes a command within the five seconds of its wait; its answer may be late.
TimeOut(a) ==
    /\ job[a].pc = "wait" /\ WaitOf(Head(job[a].todo)) \notin events
    /\ \A i \in DOMAIN line : line[i].by # a
    /\ Next1(a)
    /\ UNCHANGED <<events, flags, open, pool, line, modem, stimuli, history>>

\* What follows a command: is_call_ after ATA or ATH0, balance_to_sms after the message.
Effect(a) ==
    /\ job[a].pc = "run" /\ Head(job[a].todo) \in Effects
    /\ LET step == Head(job[a].todo) IN
       /\ isCall' = IF step = "texted" THEN isCall ELSE step = "answered"
       /\ balanceToSms' = IF step = "texted" THEN FALSE ELSE balanceToSms
    /\ Next1(a)
    /\ UNCHANGED <<events, toneCmd, toneStarted, open, pool, line, modem, stimuli, history>>

\* on_tone_command empties tone_cmd when execute_tone_command has returned, whatever the other
\* worker has collected meanwhile.
ClearTones(a) ==
    /\ job[a].pc = "run" /\ Head(job[a].todo) = "cleared"
    /\ toneCmd' = <<>>
    /\ Next1(a)
    /\ UNCHANGED <<events, isCall, toneStarted, balanceToSms, open, pool, line, modem, stimuli,
                   history>>

-----------------------------------------------------------------------------
(* command_handler.                                                        *)

Take(w) ==
    /\ ~Busy(w) /\ pool # <<>>
    /\ job' = [job EXCEPT ![w] = [pc |-> "enter", frame |-> Head(pool)]]
    /\ pool' = Tail(pool)
    /\ UNCHANGED <<events, flags, open, line, modem, stimuli, history>>

Entered(w, kind) == job[w].pc = "enter" /\ job[w].frame.kind = kind
Continue(w, todo) == job' = [job EXCEPT ![w] = Run(todo)]

\* An answer emits its event; "battery" is stored; "NO CARRIER" is one of the results that
\* emit "OK", because the code looks for "NO_CARRIER" to notice the end of a call.
Answer(w) ==
    /\ \/ Entered(w, "answer") /\ events' = events \cup {job[w].frame.val}
       \/ Entered(w, "battery") /\ UNCHANGED events
       \/ Entered(w, "hangup") /\ events' = events \cup {"OK"}
    /\ Continue(w, <<>>)
    /\ UNCHANGED <<flags, open, pool, line, modem, stimuli, history>>

\* RING with CLIP, or +CLIP: the own number is answered, another one, or none, refused.
RingStepsForget(val) == IF val = "own" THEN <<"ATA">> ELSE <<"ATH0", "hungup">> \* Mutant.
RingSteps(val) == IF val = "own" THEN <<"ATA", "answered">> ELSE <<"ATH0", "hungup">>
Ring(w) ==
    /\ Entered(w, "ring")
    /\ Continue(w, RingSteps(job[w].frame.val))
    /\ crossed' = (crossed \/ \E x \in Workers \ {w} : Has(x, "answered") \/ Has(x, "hungup"))
    /\ UNCHANGED <<events, flags, open, pool, line, modem, stimuli, lost, overlapped, eaten, doubled,
                   owed, extra, garbled, hungUp>>

\* execute_tone_command: what it sends, and what it does to balance_to_sms.
Texting(w) == \E x \in Workers \ {w} : Has(x, "texted")
Execute(w, codes) ==
    /\ balanceToSms' = (balanceToSms \/ "401" \in codes)
    /\ owed' = (owed \/ "401" \in codes)
    /\ doubled' = (doubled \/ ("401" \in codes /\ Texting(w)))
Steps(codes) ==
    IF "401" \in codes THEN GetBalance ELSE IF "412" \in codes THEN SendSms ELSE <<>>

\* What was received since the last *.
Collected(all) ==
    LET stars == {i \in DOMAIN all : all[i] = "*"} IN
    SubSeq(all, IF stars = {} THEN 1 ELSE 1 + Max(stars), Len(all))

\* What a # makes the worker do before it hangs up.
ToneSteps(codes) ==
    IF codes = {} THEN <<"ATH0">> ELSE Steps(codes) \o <<"cleared", "ATH0">>

\* on_tone_command.  What was received since the last * is collected, if a * was ever
\* received.  A #, which ends a chunk, is removed and executes what was collected, if that is
\* a code, which stays in tone_cmd meanwhile, and drops it otherwise.  Every part of it hangs up.
Tones(w) ==
    LET chunk == job[w].frame.val
        started == toneStarted \/ "*" \in Range(chunk)
        all == Collected(toneCmd \o chunk)
        ends == "#" \in Range(all)
        cmd == IF ends THEN Front(all) ELSE all
        codes == IF isCall /\ started /\ ends /\ Len(cmd) = 1 THEN {cmd[1]} ELSE {} IN
    /\ Entered(w, "tones")
    /\ toneStarted' = (toneStarted \/ (isCall /\ started))
    /\ toneCmd' = CASE ~isCall -> <<>>
                    [] isCall /\ ~started -> toneCmd
                    [] OTHER -> IF ends /\ codes = {} THEN <<>> ELSE cmd
    /\ Execute(w, codes)
    /\ Continue(w, IF isCall /\ started THEN ToneSteps(codes) ELSE <<>>)
    /\ UNCHANGED <<events, isCall, open, pool, line, modem, stimuli, lost, overlapped, eaten, crossed,
                   extra, garbled, hungUp>>

\* on_sms reads the message that arrived; on_sms_command executes it, if the own number sent
\* a code, and deletes all messages.
Message(w) ==
    /\ \/ /\ Entered(w, "arrived")
          /\ Continue(w, <<"CMGR">>)
          /\ UNCHANGED <<balanceToSms, owed, doubled>>
       \/ /\ Entered(w, "sms")
          /\ Execute(w, {job[w].frame.val})
          /\ Continue(w, Steps({job[w].frame.val}) \o <<"CMGD">>)
    /\ UNCHANGED <<events, isCall, toneCmd, toneStarted, open, pool, line, modem, stimuli, lost,
                   overlapped, eaten, crossed, extra, garbled, hungUp>>

\* A balance goes to Telegram, and into a message if it was asked for by tones or a message.
BalanceAlwaysTexted(w) == \* Mutant: balance_to_sms is not asked.
    /\ Entered(w, "balance")
    /\ Continue(w, SendSms \o <<"texted">>)
    /\ owed' = FALSE /\ extra' = (extra \/ ~owed)
    /\ UNCHANGED <<events, flags, open, pool, line, modem, stimuli, lost, overlapped, eaten, crossed,
                   doubled, garbled, hungUp>>

Balance(w) ==
    /\ Entered(w, "balance")
    /\ IF balanceToSms
       THEN /\ Continue(w, SendSms \o <<"texted">>)
            /\ owed' = FALSE /\ extra' = (extra \/ ~owed)
       ELSE Continue(w, <<>>) /\ UNCHANGED <<owed, extra>>
    /\ doubled' = (doubled \/ Texting(w))
    /\ UNCHANGED <<events, flags, open, pool, line, modem, stimuli, lost, overlapped, eaten, crossed,
                   garbled, hungUp>>

-----------------------------------------------------------------------------
(* The modem and the world.                                                *)

\* The modem executes the oldest command and answers; the answer may be lost in a read that
\* splits it or joins it to something else.
Reply(item) ==
    CASE item.cmd = "CLIP" -> [kind |-> "ring", val |-> "other"]
      [] item.cmd = "CMGR" -> [kind |-> "sms", val |-> modem.inbox]
      [] item.cmd = "CBC" -> [kind |-> "battery", val |-> ""]
      [] OTHER -> [kind |-> "answer", val |-> EmitOf(item.cmd)]
State(item) ==
    CASE item.cmd = "CMGF0" -> [modem EXCEPT !.mode = "pdu"]
      [] item.cmd = "CMGF1" -> [modem EXCEPT !.mode = "text"]
      [] item.cmd = "CMGS" -> [modem EXCEPT !.prompt = TRUE]
      [] item.cmd = "text" -> [modem EXCEPT !.prompt = FALSE]
      [] item.cmd = "ATA" -> [modem EXCEPT !.call = IF @ = "none" THEN @ ELSE "active"]
      [] item.cmd = "ATH0" -> [modem EXCEPT !.call = "none"]
      [] item.cmd = "CUSD" -> [modem EXCEPT !.ussd = TRUE]
      [] item.cmd = "CMGD" -> [modem EXCEPT !.inbox = "other"]
      [] OTHER -> modem
Eats(item) == modem.prompt /\ item.cmd # "text"

Obey ==
    LET item == Head(line) IN
    /\ line # <<>>
    /\ line' = Tail(line)
    /\ modem' = IF Eats(item) THEN modem ELSE State(item)
    /\ eaten' = (eaten \/ Eats(item))
    /\ garbled' = (garbled \/ (item.cmd = "text" /\ (~modem.prompt \/ modem.mode # "pdu")))
    /\ \/ pool' = (IF Eats(item) \/ ~open THEN pool ELSE Append(pool, Reply(item))) /\ UNCHANGED lost
       \/ stimuli > 0 /\ ~lost /\ pool' = pool /\ lost' = TRUE
    /\ job' = IF job[item.by].pc = "wait" /\ Head(job[item.by].todo) = item.cmd /\ ~Eats(item)
              THEN [job EXCEPT ![item.by].done = TRUE] ELSE job
    /\ UNCHANGED <<events, flags, open, stimuli, overlapped, crossed, doubled, owed, extra, hungUp>>

Say(frame) == pool' = IF open THEN Append(pool, frame) ELSE pool

\* The network tells the balance.
Ussd ==
    /\ modem.ussd
    /\ modem' = [modem EXCEPT !.ussd = FALSE]
    /\ Say([kind |-> "balance", val |-> ""])
    /\ UNCHANGED <<events, flags, open, job, line, stimuli, history>>

\* A call, its end, tones, a message.
Call(who) ==
    /\ modem.call = "none"
    /\ modem' = [modem EXCEPT !.call = who]
    /\ Say([kind |-> "ring", val |-> who])
    /\ hungUp' = FALSE
    /\ UNCHANGED <<job, lost>>

HangUp ==
    /\ modem.call # "none"
    /\ modem' = [modem EXCEPT !.call = "none"]
    /\ Say([kind |-> "hangup", val |-> ""])
    /\ hungUp' = (modem.call = "active")
    /\ job' = [a \in Actors |-> IF job[a].pc = "wait" /\ WaitOf(Head(job[a].todo)) = "OK"
                                THEN [job[a] EXCEPT !.quiet = FALSE] ELSE job[a]]
    /\ UNCHANGED lost

Dial(chunk) ==
    /\ modem.call = "active"
    /\ Say([kind |-> "tones", val |-> chunk])
    /\ UNCHANGED <<modem, job, lost, hungUp>>

Sms(val) ==
    /\ modem' = [modem EXCEPT !.inbox = val]
    /\ Say([kind |-> "arrived", val |-> ""])
    /\ UNCHANGED <<job, lost, hungUp>>

\* The program: get_balance, get_battery_level, master_call, and disconnect.
Program(todo) ==
    /\ ~Busy(App) /\ open
    /\ job' = [job EXCEPT ![App] = Run(todo)]
    /\ UNCHANGED <<modem, pool, lost, hungUp>>

Disconnect ==
    /\ ~Busy(App) /\ lost' = TRUE
    /\ UNCHANGED <<modem, pool, job, hungUp>>

Stimulate(s) ==
    /\ s \in Stimuli /\ stimuli + Weight(s) <= MaxStimuli /\ (stimuli = 0 => Settled)
    /\ stimuli' = stimuli + Weight(s)
    /\ \/ s = "call" /\ \E who \in {"own", "other"} : Call(who)
       \/ s = "hangup" /\ HangUp
       \/ s = "tones" /\ \E chunk \in Chunks : Dial(chunk)
       \/ s = "sms" /\ \E val \in Codes \cup {"other"} : Sms(val)
       \/ s = "balance" /\ Program(GetBalance)
       \/ s = "battery" /\ Program(<<"CBC">>)
       \/ s = "alarm" /\ Program(<<"ATD">>)
       \/ s = "disconnect" /\ Disconnect
    /\ open' = (open /\ s # "disconnect")
    /\ UNCHANGED <<events, flags, line, overlapped, eaten, crossed, doubled, owed, extra, garbled>>

Thread(a) == Send(a) \/ SendFails(a) \/ Woken(a) \/ TimeOut(a) \/ Effect(a) \/ ClearTones(a)
Worker(w) == Take(w) \/ Answer(w) \/ Ring(w) \/ Tones(w) \/ Message(w) \/ Balance(w)

\* The modem is in any mode when connect has opened the port, and App runs init_modem.
Init ==
    /\ events = {} /\ isCall = FALSE /\ toneCmd = <<>> /\ toneStarted = FALSE /\ balanceToSms = FALSE
    /\ open = TRUE /\ pool = <<>> /\ line = <<>>
    /\ job = [a \in Actors |-> IF a = App THEN Run(InitModem) ELSE Idle]
    /\ \E mode \in {"text", "pdu"} :
          modem = [mode |-> mode, prompt |-> FALSE, call |-> "none", ussd |-> FALSE, inbox |-> "other"]
    /\ stimuli = 0 /\ lost = FALSE /\ overlapped = FALSE /\ eaten = FALSE /\ crossed = FALSE
    /\ doubled = FALSE /\ owed = FALSE /\ extra = FALSE /\ garbled = FALSE /\ hungUp = FALSE

Next ==
    \/ \E a \in Actors : Thread(a)
    \/ \E w \in Workers : Worker(w)
    \/ Obey \/ Ussd
    \/ \E s \in Stimuli : Stimulate(s)

Spec == Init /\ [][Next]_vars

-----------------------------------------------------------------------------
(* Properties.                                                             *)

\* A send_command that returns an answer returns the answer to its own command, when no other
\* command or late answer of that event was under way (modem.cpp:168-180).
AnswerIsOwn ==
    \A a \in Actors :
        job[a].pc = "wait" /\ job[a].quiet /\ WaitOf(Head(job[a].todo)) \in events => job[a].done

\* The modem is back in text mode, in which it shows messages with commands, when nothing is
\* under way, whatever messages were sent in PDU mode and by how many threads; unless a
\* command was lost or taken for the text of a message (modem.cpp:581-626).
TextModeAtRest == Settled /\ ~lost /\ ~eaten => modem.mode = "text" /\ ~modem.prompt

\* The text of a message comes after its AT+CMGS, in PDU mode, unless another thread sent
\* something while a message was being sent, or a command was lost (modem.cpp:586-620).
TextsIntact == garbled \/ eaten => overlapped \/ lost

\* A balance that was asked for by a code is texted, and one that was not is not, unless one
\* came or was asked for while another was being texted, or something was lost
\* (modem.cpp:260-286, 682-687).
BalanceTextedIfAsked ==
    /\ extra => doubled
    /\ Settled /\ ~lost /\ ~eaten /\ ~doubled => ~owed /\ ~balanceToSms

\* In a call that was answered tones are heard, when the handlers of two calls did not
\* overlap and no command was lost or taken for the text of a message: the flag is set only
\* after the wait for the answer (modem.cpp:226-243, 288-300).
AnsweredCallIsHeard ==
    Settled /\ modem.call = "active" /\ ~crossed /\ ~lost /\ ~eaten => isCall

\* "the other side hung up: stop handling tones and reset the command" (modem.cpp:219).
HangUpStopsTones == Settled /\ hungUp /\ ~lost => ~isCall
=============================================================================
