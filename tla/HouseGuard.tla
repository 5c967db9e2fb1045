----------------------------- MODULE HouseGuard -----------------------------
(***************************************************************************)
(* What zhub2 does for an empty house and for a wet one.                   *)
(*                                                                         *)
(* Every message ends with after_message_action, which serves as a timer:  *)
(* once a minute it looks whether a motion sensor still sees somebody and  *)
(* polls the charger's plug and the valves; and when no motion was seen    *)
(* for twenty minutes it switches off, once, the relays of OFF_LIST that   *)
(* last reported On.  Workers run it at the same time, over a time stamp,  *)
(* a time of the last check and a static flag that nothing protects.       *)
(*                                                                         *)
(* A leak sensor, or the web page, closes the valves and stops the washing *)
(* machine: one detached thread for each device that is registered, two    *)
(* seconds apart, each with one command that may fail.  The contactor of   *)
(* the washing machine is normally closed: its command is inverted.        *)
(***************************************************************************)
EXTENDS Naturals, Sequences, FiniteSets

CONSTANTS
    Workers,     \* the threads of the pool
    Web,         \* the thread of the web server
    Registries,  \* which executive devices may be registered
    AbsentAfter, \* 1200 seconds, in minutes
    Weight(_),   \* bound: how much of MaxMessages a message of a kind uses up
    MaxMessages, \* bound: messages and web commands, weighted
    MaxTime      \* bound: minutes

Executives == <<"hot", "cold", "washer">> \* executive_devices, in the order of the code
Valves == {"hot", "cold"}
Counted == {"corridor"}              \* motion_devices of get_motion_state ...
Sensors == Counted \cup {"kitchen"}  \* ... and one that it leaves out
Lamp == "lamp"                       \* a relay of OFF_LIST
Relays == Valves \cup {"washer", Lamp}
Unknown == 2                         \* "Unknown", or motion -1

ASSUME GuardAssumption ==
    /\ Web \notin Workers /\ AbsentAfter \in Nat \ {0} /\ MaxTime \in Nat
    /\ \A r \in Registries : r \subseteq Valves \cup {"washer"}
    /\ MaxMessages \in Nat
    /\ \A kind \in {"motion", "relay", "leak", "current", "web"} : Weight(kind) \in Nat

Messages == [kind : {"motion"}, of : Sensors, val : {0, 1}]
            \cup [kind : {"relay"}, of : {Lamp}, val : {0, 1}]
            \cup [kind : {"leak"}, of : {"leak"}, val : {0, 1}]
            \cup [kind : {"current"}, of : {"plug"}, val : 0 .. 2] \* below, at and above 20 mA
Actors == Workers \cup {Web}
Idle == [pc |-> "idle"]

VARIABLES
    now,        \* external: std::time, in minutes
    last,       \* lastMotionSensorActivity
    checked,    \* smartPlugTime
    off,        \* static off of switch_off_with_timeout
    motion,     \* EndDevice::motion_ of the sensors
    known,      \* EndDevice::state_ of the lamp
    registered, \* devices_: the executive devices that are there
    pool,       \* messages that wait for a worker
    job,        \* what each actor is doing
    sends,      \* detached threads, and commands on their way
    relay,      \* external: the relays
    plug,       \* external: the charger's plug
    messages,   \* auxiliary: messages and web commands so far
    claimed,    \* history: value of last when the lamps were last switched off
    crossed,    \* history: two workers were in after_message_action, or handled messages of
                \* one device, at a time
    touched,    \* history: the lamp was switched on since the lamps were switched off
    want,       \* history: the last command for each executive device
    tangled,    \* history: two commands for executive devices overlapped
    lost,       \* history: relays whose last command was lost
    charging    \* history: the charger's last currents: "no", "yes", "done"

state == <<last, checked, off, motion, known, registered>>
outside == <<relay, plug>>
others == <<claimed, touched, want, tangled, lost, charging>>
history == <<crossed, others>>
vars == <<now, state, pool, job, sends, outside, messages, history>>

-----------------------------------------------------------------------------
(* Outside.                                                                *)

Busy(a) == job[a].pc # "idle"
InAfter(a) == job[a].pc \in {"after", "scan", "late", "claim", "off"}

\* A pass of after_message_action takes less than a minute.
Tick ==
    /\ now < MaxTime /\ \A a \in Actors : ~InAfter(a)
    /\ now' = now + 1
    /\ UNCHANGED <<state, pool, job, sends, outside, messages, history>>

\* A device sends a message: the lamp when somebody switched it by hand.
Arrive(m) ==
    /\ messages + Weight(m.kind) <= MaxMessages
    /\ pool' = Append(pool, m)
    /\ messages' = messages + Weight(m.kind)
    /\ relay' = IF m.of = Lamp THEN [relay EXCEPT ![Lamp] = m.val] ELSE relay
    /\ touched' = (touched \/ (m.of = Lamp /\ m.val = 1))
    /\ UNCHANGED <<now, state, job, sends, plug, claimed, crossed, want, tangled, lost, charging>>

\* A command is executed, and the lamp says so if that changed it ...
Deliver(s) ==
    /\ sends' = sends \ {s}
    /\ relay' = [relay EXCEPT ![s.to] = s.cmd]
    /\ pool' = IF s.to = Lamp /\ relay[Lamp] # s.cmd
               THEN Append(pool, [kind |-> "relay", of |-> Lamp, val |-> s.cmd]) ELSE pool
    /\ lost' = lost \ {s.to}
    /\ UNCHANGED <<now, state, job, plug, messages, claimed, crossed, touched, want,
                   tangled, charging>>

\* ... or lost; nothing repeats it.
Lose(s) ==
    /\ sends' = sends \ {s}
    /\ lost' = lost \cup {s.to}
    /\ UNCHANGED <<now, state, pool, job, outside, messages, claimed, crossed, touched, want,
                   tangled, charging>>

-----------------------------------------------------------------------------
(* Handlers.                                                               *)

Finish(a) == job' = [job EXCEPT ![a] = Idle]

\* The handler is done: on to the next part of after_message_action.
Go(w, pc) == job' = [job EXCEPT ![w].pc = pc]
Handled(w) ==
    /\ Go(w, "after")
    /\ crossed' = (crossed \/ \E x \in Workers \ {w} : InAfter(x))

Take(w) ==
    /\ ~Busy(w) /\ pool # <<>>
    /\ job' = [job EXCEPT ![w] = [pc |-> "enter", msg |-> Head(pool)]]
    /\ pool' = Tail(pool)
    /\ crossed' = (crossed \/ \E x \in Workers \ {w} : Busy(x) /\ job[x].msg.of = Head(pool).of)
    /\ UNCHANGED <<now, state, sends, outside, messages, claimed, touched, want, tangled, lost, charging>>

Entered(w, kind) == job[w].pc = "enter" /\ job[w].msg.kind = kind

\* handle_motion: motion that begins is activity.
Motion(w) ==
    LET m == job[w].msg IN
    /\ Entered(w, "motion")
    /\ last' = IF m.val = 1 /\ motion[m.of] # 1 /\ now > last THEN now ELSE last
    /\ motion' = [motion EXCEPT ![m.of] = m.val]
    /\ Handled(w)
    /\ UNCHANGED <<now, checked, off, known, registered, pool, sends, outside, messages, others>>

RelayReport(w) ==
    /\ Entered(w, "relay")
    /\ known' = job[w].msg.val
    /\ Handled(w)
    /\ UNCHANGED <<now, last, checked, off, motion, registered, pool, sends, outside, messages, others>>

LeakEnds(w) ==
    /\ Entered(w, "leak") /\ job[w].msg.val = 0
    /\ Handled(w)
    /\ UNCHANGED <<now, state, pool, sends, outside, messages, others>>

\* check_charger of an object with chargerOn: the new chargerOn, and whether the plug is
\* switched off.
ChargerRule(chargerOn, val) ==
    [on |-> chargerOn \/ val > 1, stop |-> chargerOn /\ val < 1]

\* Each report has an object of its own, with chargerOn false.
Current(w) ==
    LET val == job[w].msg.val IN
    /\ Entered(w, "current")
    /\ plug' = IF ChargerRule(FALSE, val).stop THEN 0 ELSE plug
    /\ charging' = CASE val = 2 -> "yes"
                     [] val = 0 /\ charging = "yes" -> "done"
                     [] OTHER -> charging
    /\ Handled(w)
    /\ UNCHANGED <<now, state, pool, sends, relay, messages, claimed, touched, want,
                   tangled, lost>>

-----------------------------------------------------------------------------
(* The leak guard.                                                         *)

\* The contactor of the washing machine is inverted.
Order(d, cmd) == [to |-> d, cmd |-> IF d = "washer" THEN 1 - cmd ELSE cmd]

\* ias_zone_command(cmd, list) begins.
Zone(a, job0, cmd, list) ==
    LET ds == {list[i] : i \in DOMAIN list} IN
    /\ job' = [job EXCEPT ![a] = [pc |-> "zone", msg |-> job0, cmd |-> cmd, todo |-> list]]
    /\ want' = [d \in DOMAIN want |-> IF d \in ds THEN cmd ELSE want[d]]
    /\ tangled' = (tangled \/ (\E x \in Actors : job[x].pc = "zone") \/ \E s \in sends : s.to \in ds)

Leak(w) ==
    /\ Entered(w, "leak") /\ job[w].msg.val = 1
    /\ Zone(w, job[w].msg, 0, Executives)
    /\ UNCHANGED <<now, state, pool, sends, outside, messages, crossed, claimed, touched, lost, charging>>

\* The page of the leak guard: /water?on=all, or one device if it is registered.
Water(cmd, list) ==
    /\ ~Busy(Web) /\ messages + Weight("web") <= MaxMessages
    /\ messages' = messages + Weight("web")
    /\ Len(list) = 1 => list[1] \in registered
    /\ Zone(Web, Idle, cmd, list)
    /\ UNCHANGED <<now, state, pool, sends, outside, crossed, claimed, touched, lost, charging>>

\* /command?on=<lamp>
WebLamp(cmd) ==
    /\ ~Busy(Web) /\ messages + Weight("web") <= MaxMessages
    /\ messages' = messages + Weight("web")
    /\ sends' = sends \cup {[to |-> Lamp, cmd |-> cmd]}
    /\ touched' = (touched \/ cmd = 1)
    /\ UNCHANGED <<now, state, pool, job, outside, crossed, claimed, want, tangled, lost, charging>>

\* Mutant: the loop ends at the first device that is not there.
CommandUntilAbsent(a) ==
    LET todo == job[a].todo IN
    /\ job[a].pc = "zone" /\ todo # <<>>
    /\ IF Head(todo) \in registered
       THEN /\ sends' = sends \cup {Order(Head(todo), job[a].cmd)}
            /\ job' = [job EXCEPT ![a].todo = Tail(todo)]
       ELSE sends' = sends /\ job' = [job EXCEPT ![a].todo = <<>>]
    /\ UNCHANGED <<now, state, pool, outside, messages, history>>

\* One device of the list: a detached thread sends the command.
Command(a) ==
    LET todo == job[a].todo IN
    /\ job[a].pc = "zone" /\ todo # <<>>
    /\ sends' = IF Head(todo) \in registered THEN sends \cup {Order(Head(todo), job[a].cmd)}
                ELSE sends
    /\ job' = [job EXCEPT ![a].todo = Tail(todo)]
    /\ UNCHANGED <<now, state, pool, outside, messages, history>>

\* The end of ias_zone_command; the message to Telegram and the call (see Modem) follow.
ZoneEnd(a) ==
    /\ job[a].pc = "zone" /\ job[a].todo = <<>>
    /\ job' = [job EXCEPT ![a] = IF a = Web THEN Idle ELSE [pc |-> "after", msg |-> job[a].msg]]
    /\ crossed' = (crossed \/ (a # Web /\ \E x \in Workers \ {a} : InAfter(x)))
    /\ UNCHANGED <<now, state, pool, sends, outside, messages, others>>

-----------------------------------------------------------------------------
(* after_message_action.                                                   *)

\* Once a minute: the first to see that takes the minute.
Minute(w) ==
    /\ job[w].pc = "after"
    /\ IF now > checked + 1 THEN checked' = now /\ Go(w, "scan")
                            ELSE Go(w, "late") /\ UNCHANGED checked
    /\ UNCHANGED <<now, last, off, motion, known, registered, pool, sends, outside, messages, history>>

\* check_motion_activity; requests to the plug and the valves follow.
ScanNothing(w) == \* Mutant: nobody looks at the sensors.
    /\ job[w].pc = "scan" /\ Go(w, "late")
    /\ UNCHANGED <<now, state, pool, sends, outside, messages, history>>

Scan(w) ==
    /\ job[w].pc = "scan"
    /\ last' = IF now > last /\ \E s \in Counted : motion[s] = 1 THEN now ELSE last
    /\ Go(w, "late")
    /\ UNCHANGED <<now, checked, off, motion, known, registered, pool, sends, outside, messages, history>>

LateNeverReset(w) == \* Mutant: the flag stays.
    /\ job[w].pc = "late"
    /\ IF now - last > AbsentAfter /\ ~off THEN Go(w, "claim") ELSE Finish(w)
    /\ UNCHANGED <<now, state, pool, sends, outside, messages, history>>

\* switch_off_with_timeout reads the time of the last motion and the flag ...
Late(w) ==
    /\ job[w].pc = "late"
    /\ IF now - last > AbsentAfter /\ last # 0
       THEN UNCHANGED off /\ IF off THEN Finish(w) ELSE Go(w, "claim")
       ELSE off' = FALSE /\ Finish(w)
    /\ UNCHANGED <<now, last, checked, motion, known, registered, pool, sends, outside, messages, history>>

\* ... and then sets the flag ...
Claim(w) ==
    /\ job[w].pc = "claim"
    /\ off' = TRUE /\ claimed' = last
    /\ touched' = ([to |-> Lamp, cmd |-> 1] \in sends \/ (relay[Lamp] = 1 /\ known # 1))
    /\ Go(w, "off")
    /\ UNCHANGED <<now, last, checked, motion, known, registered, pool, sends, outside, messages,
                   crossed, want, tangled, lost, charging>>

SwitchOffForgotten(w) == \* Mutant: only the flag is set.
    /\ job[w].pc = "off" /\ Finish(w)
    /\ UNCHANGED <<now, state, pool, sends, outside, messages, history>>

\* ... and switches off the relays of OFF_LIST that reported On.
SwitchOff(w) ==
    /\ job[w].pc = "off"
    /\ sends' = IF known = 1 THEN sends \cup {[to |-> Lamp, cmd |-> 0]} ELSE sends
    /\ Finish(w)
    /\ UNCHANGED <<now, state, pool, outside, messages, history>>

Worker(w) == \/ Take(w) \/ Motion(w) \/ RelayReport(w) \/ LeakEnds(w) \/ Current(w) \/ Leak(w)
             \/ Minute(w) \/ Scan(w) \/ Late(w) \/ Claim(w) \/ SwitchOff(w)
Zoning(a) == Command(a) \/ ZoneEnd(a)
Lists == {Executives, <<"washer">>}

\* The time of the last motion starts as the time of the start.
Init ==
    /\ now = 1 /\ last = 1 /\ checked = 0 /\ off = FALSE
    /\ motion = [s \in Sensors |-> Unknown]
    /\ known = Unknown
    /\ registered \in Registries
    /\ pool = <<>> /\ sends = {} /\ messages = 0
    /\ job = [a \in Actors |-> Idle]
    /\ relay \in {[r \in Relays |-> IF r \in Valves THEN 1 ELSE IF r = Lamp THEN l ELSE 0] : l \in {0, 1}}
    /\ plug = 1
    /\ claimed = 0 /\ crossed = FALSE /\ touched = (relay[Lamp] = 1)
    /\ want = [d \in Relays \ {Lamp} |-> Unknown] /\ tangled = FALSE
    /\ lost = {} /\ charging = "no"

Next ==
    \/ Tick
    \/ \E m \in Messages : Arrive(m)
    \/ \E s \in sends : Deliver(s) \/ Lose(s)
    \/ \E w \in Workers : Worker(w)
    \/ \E a \in Actors : Zoning(a)
    \/ \E cmd \in {0, 1} : WebLamp(cmd) \/ \E list \in Lists : Water(cmd, list)

Spec == Init /\ [][Next]_vars

-----------------------------------------------------------------------------
(* Properties.                                                             *)

Zones == \E a \in Actors : job[a].pc = "zone"
Settled == pool = <<>> /\ sends = {} /\ \A a \in Actors : ~Busy(a)
Obeys(d) == relay[d] = Order(d, want[d]).cmd

\* The lamps are not switched off as in an empty house while a sensor that the minute's check
\* looks at still says that there is motion: the check comes before the decision and moves
\* the time of the last motion on (controller.cpp:312, zhub.cpp:591-607).  A second worker that
\* finds the minute taken, but not yet checked, does that (crossed).
OnlyWhenNobodyMoves ==
    [][\A w \in Workers : job[w].pc = "late" /\ job'[w].pc = "claim"
       => crossed \/ \A s \in Counted : motion[s] # 1]_vars

\* While the flag is set the lamps were switched off for the last motion: motion since then
\* has reset it, so that the next absence is noticed (controller.cpp:358-385).
OffMeansDone ==
    off /\ (\A w \in Workers : ~Busy(w)) => claimed = last \/ crossed

\* An empty house is dark: when all has settled after the lamps were switched off, the lamp is
\* off, unless somebody switched it on since, it had not reported that it was on, or the
\* command was lost (controller.cpp:370-381).
EmptyHouseIsDark ==
    Settled /\ off => relay[Lamp] = 0 \/ touched \/ crossed \/ Lamp \in lost

\* When the commands of the leak guard are over, each executive device that is registered does
\* what was asked for last, the washing machine inverted, whichever of the others are absent
\* and whichever commands of others are lost (zhub.cpp:160-182).  Commands that overlapped
\* may have come in any order.
LeakShutsWater ==
    ~Zones /\ ~tangled /\ sends = {} =>
        \A d \in registered : want[d] # Unknown => Obeys(d) \/ d \in lost

\* "if chargerOn == true and the current is below 20 mA, we switch the socket off"
\* (electrical_measurements.cpp:71-77): after a charge that ended the plug is off.
PlugOffWhenCharged == charging = "done" /\ sends = {} /\ (\A w \in Workers : ~Busy(w)) => plug = 0
=============================================================================
