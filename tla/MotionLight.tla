---------------------------- MODULE MotionLight ----------------------------
(***************************************************************************)
(* The lights of the house: the rules of Zhub that switch a relay when a   *)
(* sensor of motion, of presence or of a door reports, or a button is      *)
(* pressed.  Reports are handled by the workers of the pool, so that the   *)
(* rules of two sensors of one light run at the same time: each sets the   *)
(* state of its own sensor and then reads the state of the other one and   *)
(* the last reported state of the relay.                                   *)
(*                                                                         *)
(* The corridor has two sensors, "corridor" (Sonoff) and "hall" (custom2,  *)
(* which also measures the light).  The kitchen has one, which repeats its *)
(* report.  Two doors switch a light of their own.  A long press of a      *)
(* button switches everything off.  The IKEA sensor never says that motion *)
(* ended: its worker sleeps two minutes and says so itself.                *)
(*                                                                         *)
(* AdapterPipeline has the way of a report to its worker, HouseGuard what  *)
(* every message does to the absence timer.                                *)
(***************************************************************************)
EXTENDS Naturals, Sequences, FiniteSets

CONSTANTS
    Workers,    \* the threads of the pool
    Registries, \* which of Absentees may be registered in devices_
    OffList,    \* EndDevice::OFF_LIST: the lights that a long press switches off
    Weight(_),  \* bound: how much of MaxReports a report of a source uses up
    MaxReports  \* bound: reports of sensors and buttons, weighted

Motions == {"corridor", "hall", "kitchen", "ikea"}
Doors   == {"closet", "toilet"}
Lights  == {"corridor", "kitchen", "closet", "toilet"}
\* The devices whose absence the code tests, or forgets to test.
Absentees == {"corridor", "hall", "light", "kitchenlight"}

ASSUME LightAssumption == /\ MaxReports \in Nat /\ Registries \subseteq SUBSET Absentees
                          /\ OffList \in Seq(Lights)
                          /\ \A source \in Motions \cup {"door", "luminocity", "press"} :
                                Weight(source) \in Nat

Unknown == 2   \* the state of a sensor or a relay that has not reported: -1, or ""
States  == {0, 1, Unknown}

\* What arrives: a sensor's state, a relay's state, a long press.
Frames == [kind : {"motion"}, of : Motions, cmd : {0, 1}]
          \cup [kind : {"door"}, of : Doors, cmd : {0, 1}]
          \cup [kind : {"luminocity"}, of : {"hall"}, cmd : {0, 1}]
          \cup [kind : {"relay"}, of : Lights, cmd : {0, 1}]
          \cup [kind : {"press"}, of : {"button"}, cmd : {0}]
Idle == [pc |-> "idle"]

VARIABLES
    motion,     \* EndDevice::motion_ of each sensor
    luminocity, \* EndDevice::luminocity_ of the hall's sensor
    known,      \* EndDevice::state_ of each relay
    registered, \* devices_: the Absentees that are there ("light" and
                \* "kitchenlight": the relays of the corridor and the kitchen)
    crashed,    \* a null EndDevice was used
    pool,       \* reports that wait for a worker
    job,        \* what each worker is doing
    line,       \* commands on their way to the relays
    lamp,       \* external: the relays
    presence,   \* external: what the corridor's sensors see
    reports,    \* auxiliary: reports so far
    disordered, \* history: a command or a report of a relay was lost, or the frames of one
                \* source were handled at the same time, or a rule went by a state of a
                \* relay that was out of date
    crossed,    \* history: a command was lost, two rules ran at a time, or the button was
                \* pressed
    dark        \* history: it was dark when the corridor's motion began

house  == <<motion, luminocity, known, registered, crashed>>
world  == <<lamp, presence, reports>>
history == <<disordered, crossed, dark>>
vars == <<house, pool, job, line, world, history>>

-----------------------------------------------------------------------------
(* Outside: sensors, buttons and relays.                                   *)

\* A sensor reports what changed.  The custom ones also repeat what they said; IKEA's only
\* ever says that there is motion.
Sense(s, v) ==
    /\ reports + Weight(s) <= MaxReports
    /\ s = "corridor" => v # presence[s]
    /\ s = "ikea" => v = 1
    /\ presence' = IF s \in DOMAIN presence THEN [presence EXCEPT ![s] = v] ELSE presence
    /\ pool' = Append(pool, [kind |-> "motion", of |-> s, cmd |-> v])
    /\ reports' = reports + Weight(s)
    /\ UNCHANGED <<house, job, line, lamp, history>>

\* A door opens or closes, the light changes, a button is pressed.
Signal(f) ==
    /\ reports + Weight(f.kind) <= MaxReports
    /\ f.kind \in {"door", "luminocity", "press"}
    /\ pool' = Append(pool, f)
    /\ reports' = reports + Weight(f.kind)
    /\ UNCHANGED <<house, job, line, lamp, presence, history>>

\* The relay obeys the oldest command and reports its state if that changed it ...
Obey ==
    /\ line # <<>>
    /\ LET c == Head(line) IN
       /\ lamp' = [lamp EXCEPT ![c.to] = c.cmd]
       /\ pool' = IF lamp[c.to] = c.cmd THEN pool
                   ELSE Append(pool, [kind |-> "relay", of |-> c.to, cmd |-> c.cmd])
    /\ line' = Tail(line)
    /\ UNCHANGED <<house, job, presence, reports, history>>

\* ... or the command, or the report, is lost: sendMessage does not repeat it.
Lose ==
    /\ line # <<>>
    /\ LET c == Head(line) IN lamp' \in {lamp, [lamp EXCEPT ![c.to] = c.cmd]}
    /\ line' = Tail(line)
    /\ disordered' = TRUE /\ crossed' = TRUE
    /\ UNCHANGED <<house, pool, job, presence, reports, dark>>

-----------------------------------------------------------------------------
(* A worker.                                                               *)

Busy(w) == job[w].pc # "idle"
Finish(w) == job' = [job EXCEPT ![w] = Idle]
\* switch_relay for each command of todo, in turn.
Switch(w, todo) ==
    job' = [job EXCEPT ![w] = IF todo = <<>> THEN Idle
                              ELSE [pc |-> "switch", frame |-> job[w].frame, todo |-> todo]]

InRule(w) == Busy(w) /\ job[w].frame.kind \notin {"relay", "luminocity"} /\ job[w].pc # "asleep"
SameSource(f, g) == f.kind = g.kind /\ f.of = g.of

Take(w) ==
    /\ ~Busy(w) /\ pool # <<>>
    /\ LET f == Head(pool)
           others == {x \in Workers \ {w} : Busy(x)} IN
       /\ job' = [job EXCEPT ![w] = [pc |-> "enter", frame |-> f]]
       /\ disordered' = (disordered \/ \E x \in others : SameSource(f, job[x].frame))
       /\ crossed' = (crossed \/ \E x \in others : InRule(x))
    /\ pool' = Tail(pool)
    /\ UNCHANGED <<house, line, world, dark>>

\* get_device_by_mac finds the relay.
HasRelay(r) ==
    /\ r = "corridor" => "light" \in registered
    /\ r = "kitchen" => "kitchenlight" \in registered

\* Messages of devices that are not registered are dropped.
HasDevice(f) ==
    /\ f.kind \in {"motion", "luminocity"} /\ f.of \in Absentees => f.of \in registered
    /\ f.kind = "relay" => HasRelay(f.of)

Drop(w) ==
    /\ job[w].pc = "enter" /\ ~HasDevice(job[w].frame)
    /\ Finish(w)
    /\ UNCHANGED <<house, pool, line, world, history>>

\* handle_motion stores the state of the sensor and keeps the one before.
Motion(w) ==
    LET f == job[w].frame IN
    /\ job[w].pc = "enter" /\ f.kind = "motion" /\ HasDevice(f)
    /\ motion' = [motion EXCEPT ![f.of] = f.cmd]
    /\ job' = [job EXCEPT ![w] =
                 [pc |-> CASE f.of = "corridor" -> "decide"
                           [] f.of \in {"hall", "kitchen"} -> "look"
                           [] f.of = "ikea" -> "asleep",
                  frame |-> f, before |-> motion[f.of]]]
    /\ UNCHANGED <<luminocity, known, registered, crashed, pool, line, world, history>>

\* After two minutes handle_motion(ed, 0) of the IKEA sensor.
Wake(w) ==
    /\ job[w].pc = "asleep"
    /\ motion' = [motion EXCEPT !["ikea"] = 0]
    /\ Finish(w)
    /\ UNCHANGED <<luminocity, known, registered, crashed, pool, line, world, history>>

\* The rules of the hall and of the kitchen read the relay first, without asking
\* whether it is registered.
OutOfDate(r) == known[r] # lamp[r] \/ \E i \in DOMAIN line : line[i].to = r

Look(w) ==
    LET r == IF job[w].frame.of = "kitchen" THEN "kitchen" ELSE "corridor" IN
    /\ job[w].pc = "look"
    /\ IF ~HasRelay(r)
       THEN crashed' = TRUE /\ UNCHANGED <<job, disordered>>
       ELSE /\ job' = [job EXCEPT ![w] =
                         [pc |-> "decide", frame |-> job[w].frame,
                          before |-> job[w].before, relay |-> known[r]]]
            /\ disordered' = (disordered \/ (known[r] # Unknown /\ OutOfDate(r)))
            /\ UNCHANGED crashed
    /\ UNCHANGED <<motion, luminocity, known, registered, pool, line, world, crossed, dark>>

\* What a rule takes for the state of the other sensor of the corridor: its own state
\* before this report, if the other one is not registered.
OtherForgotten(w, s) == job[w].before \* Mutant: only its own sensor counts.
Other(w, s) == IF s \in registered THEN motion[s] ELSE job[w].before
Light(r, cmd) == [to |-> r, cmd |-> cmd]

\* Mutant: the end of motion is ignored.
CorridorStaysOn(w) ==
    /\ job[w].pc = "decide" /\ job[w].frame.of = "corridor"
    /\ Switch(w, IF job[w].frame.cmd = 1 THEN <<Light("corridor", 1)>> ELSE <<>>)
    /\ UNCHANGED <<house, pool, line, world, history>>

Corridor(w) ==
    LET j == job[w]
        lum == IF "hall" \in registered THEN luminocity ELSE Unknown IN
    /\ j.pc = "decide" /\ j.frame.of = "corridor"
    /\ IF j.frame.cmd = 1
       THEN Switch(w, IF lum # 1 THEN <<Light("corridor", 1)>> ELSE <<>>)
       ELSE Switch(w, IF Other(w, "hall") # 1 THEN <<Light("corridor", 0)>> ELSE <<>>)
    /\ dark' = (j.frame.cmd = 1 /\ lum # 1)
    /\ UNCHANGED <<house, pool, line, world, disordered, crossed>>

\* Mutant: the hall's sensor alone decides.
HallAlone(w) ==
    LET j == job[w] IN
    /\ j.pc = "decide" /\ j.frame.of = "hall"
    /\ Switch(w, IF j.relay # j.frame.cmd THEN <<Light("corridor", j.frame.cmd)>> ELSE <<>>)
    /\ UNCHANGED <<house, pool, line, world, history>>

Hall(w) ==
    LET j == job[w] IN
    /\ j.pc = "decide" /\ j.frame.of = "hall"
    /\ \/ /\ j.frame.cmd = 1 /\ j.relay # 1
          /\ \E day \in BOOLEAN : \* the hour is one of 8 to 22
                Switch(w, IF day /\ luminocity # 1 THEN <<Light("corridor", 1)>> ELSE <<>>)
       \/ /\ j.frame.cmd = 0 /\ j.relay # 0
          /\ Switch(w, IF Other(w, "corridor") # 1 THEN <<Light("corridor", 0)>> ELSE <<>>)
       \/ /\ j.frame.cmd = j.relay
          /\ Switch(w, <<>>)
    /\ UNCHANGED <<house, pool, line, world, history>>

\* Mutant: a relay that has not reported is left alone.
KitchenWaitsForRelay(w) ==
    LET j == job[w] IN
    /\ j.pc = "decide" /\ j.frame.of = "kitchen"
    /\ Switch(w, IF j.relay = 1 - j.frame.cmd THEN <<Light("kitchen", j.frame.cmd)>> ELSE <<>>)
    /\ UNCHANGED <<house, pool, line, world, history>>

\* The kitchen's relay is told twice.
Kitchen(w) ==
    LET j == job[w] IN
    /\ j.pc = "decide" /\ j.frame.of = "kitchen"
    /\ Switch(w, IF j.relay # j.frame.cmd
                 THEN <<Light("kitchen", j.frame.cmd), Light("kitchen", j.frame.cmd)>> ELSE <<>>)
    /\ UNCHANGED <<house, pool, line, world, history>>

\* handle_sonoff_door: a contact of the toilet that opens (0) means that it is taken.
Door(w) ==
    LET f == job[w].frame IN
    /\ job[w].pc = "enter" /\ f.kind = "door"
    /\ \/ f.of = "closet" /\ Switch(w, <<Light("closet", f.cmd)>>)
       \/ f.of = "toilet" /\ f.cmd = 1 /\ Switch(w, <<Light("toilet", 0)>>)
       \/ f.of = "toilet" /\ f.cmd = 0 /\ \E day \in BOOLEAN :
             Switch(w, IF day THEN <<Light("toilet", 1)>> ELSE <<>>)
    /\ UNCHANGED <<house, pool, line, world, history>>

\* A long press: switch_off_with_list, in the order of OFF_LIST.
Press(w) ==
    /\ job[w].pc = "enter" /\ job[w].frame.kind = "press"
    /\ Switch(w, [i \in DOMAIN OffList |-> Light(OffList[i], 0)])
    /\ crossed' = TRUE
    /\ UNCHANGED <<house, pool, line, world, disordered, dark>>

\* A report of a relay, and one of the light in the hall.
RelayReport(w) ==
    LET f == job[w].frame IN
    /\ job[w].pc = "enter" /\ f.kind = "relay" /\ HasDevice(f)
    /\ known' = [known EXCEPT ![f.of] = f.cmd]
    /\ Finish(w)
    /\ UNCHANGED <<motion, luminocity, registered, crashed, pool, line, world, history>>

LightReport(w) ==
    LET f == job[w].frame IN
    /\ job[w].pc = "enter" /\ f.kind = "luminocity" /\ HasDevice(f)
    /\ luminocity' = f.cmd
    /\ Finish(w)
    /\ UNCHANGED <<motion, known, registered, crashed, pool, line, world, history>>

\* switch_relay sends to a relay that is registered.
Send(w) ==
    LET todo == job[w].todo IN
    /\ job[w].pc = "switch"
    /\ line' = IF HasRelay(Head(todo).to) THEN Append(line, Head(todo)) ELSE line
    /\ Switch(w, Tail(todo))
    /\ UNCHANGED <<house, pool, world, history>>

Rule(w) == \/ Drop(w) \/ Motion(w) \/ Wake(w) \/ Look(w) \/ Corridor(w) \/ Hall(w) \/ Kitchen(w)
           \/ Door(w) \/ Press(w) \/ RelayReport(w) \/ LightReport(w) \/ Send(w)

Worker(w) == Take(w) \/ Rule(w)

Init ==
    /\ motion = [s \in Motions |-> Unknown] /\ luminocity = Unknown
    /\ known = [r \in Lights |-> Unknown]
    /\ registered \in Registries
    /\ crashed = FALSE
    /\ pool = <<>> /\ line = <<>>
    /\ job = [w \in Workers |-> Idle]
    /\ lamp = [r \in Lights |-> 0]
    /\ presence = [s \in {"corridor", "hall"} |-> 0]
    /\ reports = 0
    /\ disordered = FALSE /\ crossed = FALSE /\ dark = FALSE

Next ==
    /\ ~crashed
    /\ \/ \E s \in Motions, v \in {0, 1} : Sense(s, v)
       \/ \E f \in Frames : Signal(f)
       \/ Obey \/ Lose
       \/ \E w \in Workers : Worker(w)

\* Workers go on with what they do, and the network carries commands.
Spec == Init /\ [][Next]_vars
Fairness == WF_vars(~crashed /\ (Obey \/ Lose)) /\ \A w \in Workers : WF_vars(~crashed /\ Worker(w))
FairSpec == Spec /\ Fairness

-----------------------------------------------------------------------------
(* Properties.                                                             *)

Settled == /\ pool = <<>> /\ line = <<>>
           /\ \A w \in Workers : job[w].pc \in {"idle", "asleep"}
Complete == registered = Absentees

\* When nothing is under way and both sensors of the corridor say that nobody is there, its
\* light is off, although the rules of the two sensors may have run at the same time in two
\* workers: each stores its own state before it reads the other's, so one of them sees both
\* gone (zhub.cpp:270, 298, 337).  It takes that no command was lost, that the reports of one
\* sensor were handled one after the other, and that the hall's rule did not go by an old
\* state of the relay (zhub.cpp:333).
DarkWhenEmpty ==
    Settled /\ Complete /\ ~disordered /\ motion["corridor"] = 0 /\ motion["hall"] = 0
    => lamp["corridor"] = 0

\* When nothing is under way and the corridor's sensor saw somebody come in the dark, the light
\* is on, unless two rules ran at the same time (one may switch off on what it read before
\* the other switched on), a command was lost or the button was pressed (zhub.cpp:286-304).
LitWhileMotion ==
    Settled /\ HasRelay("corridor") /\ ~crossed /\ motion["corridor"] = 1 /\ dark
    => lamp["corridor"] = 1

\* The kitchen's light, if its relay is registered, is off when its sensor last saw nobody, and
\* on when it saw somebody and nobody pressed the button, although the rule switches only when
\* the relay last reported the opposite (zhub.cpp:352-365).
KitchenFollowsPresence ==
    Settled /\ HasRelay("kitchen") /\ ~disordered =>
        /\ motion["kitchen"] = 0 => lamp["kitchen"] = 0
        /\ motion["kitchen"] = 1 /\ ~crossed => lamp["kitchen"] = 1

\* Once the sensors see nobody for good, the corridor's light goes out for good, or something
\* went wrong on the way: no rule waits for ever (zhub.cpp:295-303, 333-344).
LightsGoOut ==
    <>[](presence["corridor"] = 0 /\ presence["hall"] = 0)
    => <>[](\/ lamp["corridor"] = 0 \/ crashed \/ ~Complete \/ disordered
            \/ 1 \in {motion["corridor"], motion["hall"]})
=============================================================================
