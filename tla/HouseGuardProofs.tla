-------------------------- MODULE HouseGuardProofs --------------------------
(***************************************************************************)
(* Proofs about HouseGuard: the absence timer never takes a house with     *)
(* motion for an empty one, its flag is set only for the absence that is   *)
(* going on, an empty house is dark, and the leak guard's commands reach   *)
(* every device that is there; for any number of workers and messages.     *)
(***************************************************************************)
EXTENDS HouseGuard, SequenceTheorems, TLAPS

Devices == Relays \ {Lamp}
Handling == {"enter", "after", "scan", "late", "claim", "off"}
Work == [pc : Handling, msg : Messages]
Zoned == [pc : {"zone"}, msg : Messages \cup {Idle}, cmd : {0, 1}, todo : Seq(Devices)]

JobType(a) ==
    \/ job[a] = Idle
    \/ a \in Workers /\ job[a] \in Work
    \/ job[a] \in Zoned /\ (a \in Workers => job[a].msg \in Messages)

TypeInv ==
    /\ now \in Nat /\ last \in Nat /\ checked \in Nat /\ claimed \in Nat
    /\ off \in BOOLEAN /\ crossed \in BOOLEAN /\ touched \in BOOLEAN /\ tangled \in BOOLEAN
    /\ motion \in [Sensors -> {0, 1, Unknown}]
    /\ known \in {0, 1, Unknown}
    /\ registered \subseteq Devices
    /\ pool \in Seq(Messages)
    /\ job = [a \in Actors |-> job[a]] /\ \A a \in Actors : JobType(a)
    /\ sends \subseteq [to : Relays, cmd : {0, 1}]
    /\ relay \in [Relays -> {0, 1}]
    /\ plug \in {0, 1}
    /\ want \in [Devices -> {0, 1, Unknown}]
    /\ lost \subseteq Relays
    /\ charging \in {"no", "yes", "done"}
    /\ messages \in Nat

LEMMA StepCases ==
    ASSUME [Next]_vars, NEW P,
           Tick => P,
           \A m \in Messages : Arrive(m) => P,
           \A s \in sends : Deliver(s) \/ Lose(s) => P,
           \A w \in Workers : Take(w) => P,
           \A w \in Workers : Motion(w) => P,
           \A w \in Workers : RelayReport(w) => P,
           \A w \in Workers : LeakEnds(w) => P,
           \A w \in Workers : Current(w) => P,
           \A w \in Workers : Leak(w) => P,
           \A w \in Workers : Minute(w) => P,
           \A w \in Workers : Scan(w) => P,
           \A w \in Workers : Late(w) => P,
           \A w \in Workers : Claim(w) => P,
           \A w \in Workers : SwitchOff(w) => P,
           \A a \in Actors : Command(a) => P,
           \A a \in Actors : ZoneEnd(a) => P,
           \A cmd \in {0, 1} : WebLamp(cmd) => P,
           \A cmd \in {0, 1}, list \in Lists : Water(cmd, list) => P,
           UNCHANGED vars => P
    PROVE  P
BY DEF Next, Worker, Zoning

-----------------------------------------------------------------------------
(* Types, and what an action does to the actors.                           *)

\* One actor goes on, the others stay where they are.
LEMMA OneMoves ==
    ASSUME TypeInv, NEW a \in Actors, NEW j, job' = [job EXCEPT ![a] = j]
    PROVE  /\ job' = [b \in Actors |-> job'[b]]
           /\ job'[a] = j
           /\ \A b \in Actors \ {a} : job'[b] = job[b]
<1>1. job = [b \in Actors |-> job[b]]
  BY DEF TypeInv
<1>2. job' = [b \in Actors |-> IF b = a THEN j ELSE job[b]]
  BY <1>1
<1> QED
  BY <1>2

\* An actor that goes on keeps its message.
LEMMA GoMoves ==
    ASSUME TypeInv, NEW w \in Workers, NEW p \in Handling, Go(w, p), job[w] \in Work
    PROVE  job' = [job EXCEPT ![w] = [pc |-> p, msg |-> job[w].msg]]
<1>1. [job[w] EXCEPT !.pc = p] = [pc |-> p, msg |-> job[w].msg]
  BY DEF Work
<1>2. job' = [job EXCEPT ![w] = [job[w] EXCEPT !.pc = p]]
  BY DEF Go
<1> QED
  BY <1>1, <1>2

\* A worker that handles a message.
LEMMA AtWork ==
    ASSUME TypeInv, NEW w \in Workers, job[w].pc \in Handling
    PROVE  job[w] \in Work /\ job[w].msg \in Messages
<1>1. JobType(w)
  BY DEF TypeInv, Actors
<1>2. job[w] # Idle
  BY DEF Idle, Handling
<1>3. job[w] \notin Zoned
  BY DEF Zoned, Handling
<1>4. job[w] \in Work
  BY <1>1, <1>2, <1>3 DEF JobType
<1> QED
  BY <1>4 DEF Work

\* An actor in ias_zone_command.
LEMMA AtZone ==
    ASSUME TypeInv, NEW a \in Actors, job[a].pc = "zone"
    PROVE  /\ job[a] \in Zoned /\ (a \in Workers => job[a].msg \in Messages)
           /\ job[a].cmd \in {0, 1} /\ job[a].todo \in Seq(Devices)
<1>1. JobType(a)
  BY DEF TypeInv
<1>2. job[a] # Idle
  BY DEF Idle
<1>3. job[a] \notin Work
  BY DEF Work, Handling
<1>4. job[a] \in Zoned /\ (a \in Workers => job[a].msg \in Messages)
  BY <1>1, <1>2, <1>3 DEF JobType
<1> QED
  BY <1>4 DEF Zoned

LEMMA TypeInit == Init => TypeInv
<1> SUFFICES ASSUME Init PROVE TypeInv
  OBVIOUS
<1>1. job = [a \in Actors |-> Idle] /\ \A a \in Actors : job[a] = Idle
  BY DEF Init
<1>2. registered \subseteq Devices
  BY GuardAssumption DEF Init, Devices, Relays, Valves, Lamp
<1>3. relay \in [Relays -> {0, 1}] /\ want \in [Devices -> {0, 1, Unknown}]
  BY DEF Init, Devices
<1>4. motion \in [Sensors -> {0, 1, Unknown}] /\ pool \in Seq(Messages)
  BY DEF Init
<1> QED
  BY <1>1, <1>2, <1>3, <1>4 DEF Init, TypeInv, JobType

\* Types are kept if the actor a that went on has a job of its type.
LEMMA JobsKept ==
    ASSUME TypeInv, NEW a \in Actors, NEW j, job' = [job EXCEPT ![a] = j],
           \/ j = Idle
           \/ a \in Workers /\ j \in Work
           \/ j \in Zoned /\ (a \in Workers => j.msg \in Messages)
    PROVE  job' = [b \in Actors |-> job'[b]] /\ \A b \in Actors : JobType(b)'
<1>1. /\ job' = [b \in Actors |-> job'[b]]
      /\ job'[a] = j
      /\ \A b \in Actors \ {a} : job'[b] = job[b]
  BY OneMoves
<1>2. JobType(a)'
  BY <1>1 DEF JobType
<1>3. ASSUME NEW b \in Actors \ {a} PROVE JobType(b)'
  <2>1. JobType(b)
    BY DEF TypeInv
  <2> QED
    BY <1>1, <2>1 DEF JobType
<1> QED
  BY <1>1, <1>2, <1>3

\* What a message of each kind holds.
LEMMA MessageFields ==
    ASSUME NEW m \in Messages
    PROVE  /\ m.kind \in {"motion", "relay", "leak", "current"}
           /\ m.kind = "motion" => m.of \in Sensors /\ m.val \in {0, 1}
           /\ m.kind = "relay" => m.of = Lamp /\ m.val \in {0, 1}
           /\ m.kind = "leak" => m.of = "leak" /\ m.val \in {0, 1}
           /\ m.kind = "current" => m.of = "plug" /\ m.val \in 0 .. 2
           /\ m.of = Lamp => m.val \in {0, 1}
BY DEF Messages, Lamp, Sensors, Counted

LEMMA TypeStep == TypeInv /\ [Next]_vars => TypeInv'
<1> SUFFICES ASSUME TypeInv, [Next]_vars PROVE TypeInv'
  OBVIOUS
<1> DEFINE Jobs == job = [b \in Actors |-> job[b]] /\ \A b \in Actors : JobType(b)
<1>0. Jobs
  BY DEF TypeInv
<1>s. ASSUME UNCHANGED job PROVE Jobs'
  BY <1>0, <1>s DEF JobType
<1>w. Workers \subseteq Actors /\ Web \in Actors /\ Lamp \in Relays
  BY DEF Actors, Relays, Lamp
\* A worker that handles a message and goes on.
<1>g. ASSUME NEW w \in Workers, NEW p \in Handling, job[w].pc \in Handling, Go(w, p)
      PROVE Jobs'
  <2>1. job[w] \in Work /\ job[w].msg \in Messages
    BY <1>g, AtWork
  <2>2. job' = [job EXCEPT ![w] = [pc |-> p, msg |-> job[w].msg]]
    BY <1>g, <2>1, GoMoves
  <2>3. [pc |-> p, msg |-> job[w].msg] \in Work
    BY <2>1 DEF Work
  <2> QED
    BY <1>w, <2>2, <2>3, JobsKept
<1>f. ASSUME NEW a \in Actors, job' = [job EXCEPT ![a] = Idle] PROVE Jobs'
  BY <1>f, JobsKept
<1> HIDE DEF Jobs
<1>1. ASSUME Tick PROVE TypeInv'
  BY <1>1, <1>s DEF Tick, TypeInv, Jobs, state, outside, history, others
<1>2. ASSUME NEW m \in Messages, Arrive(m) PROVE TypeInv'
  <2>1. pool' \in Seq(Messages)
    BY <1>2, AppendProperties DEF Arrive, TypeInv
  <2>2. relay' \in [Relays -> {0, 1}]
    BY <1>2, MessageFields DEF Arrive, TypeInv
  <2>3. messages' \in Nat
    <3>1. Weight(m.kind) \in Nat
      BY GuardAssumption, MessageFields
    <3> QED
      BY <1>2, <3>1 DEF Arrive, TypeInv
  <2>4. touched' \in BOOLEAN
    BY <1>2 DEF Arrive, TypeInv
  <2> QED
    BY <1>2, <1>s, <2>1, <2>2, <2>3, <2>4 DEF Arrive, TypeInv, Jobs, state
<1>3. ASSUME NEW s \in sends, Deliver(s) PROVE TypeInv'
  <2>1. s \in [to : Relays, cmd : {0, 1}]
    BY DEF TypeInv
  <2>2. relay' \in [Relays -> {0, 1}] /\ lost' \subseteq Relays
    BY <1>3, <2>1 DEF Deliver, TypeInv
  <2>3. [kind |-> "relay", of |-> Lamp, val |-> s.cmd] \in Messages
    BY <2>1 DEF Messages
  <2>4. pool' \in Seq(Messages)
    BY <1>3, <2>3, AppendProperties DEF Deliver, TypeInv
  <2> QED
    BY <1>3, <1>s, <2>2, <2>4 DEF Deliver, TypeInv, Jobs, state
<1>4. ASSUME NEW s \in sends, Lose(s) PROVE TypeInv'
  <2>1. s \in [to : Relays, cmd : {0, 1}]
    BY DEF TypeInv
  <2>2. lost' \subseteq Relays
    BY <1>4, <2>1 DEF Lose, TypeInv
  <2> QED
    BY <1>4, <1>s, <2>2 DEF Lose, TypeInv, Jobs, state, outside
<1>5. ASSUME NEW w \in Workers, Take(w) PROVE TypeInv'
  <2>1. Head(pool) \in Messages /\ pool' \in Seq(Messages)
    BY <1>5, HeadTailProperties DEF Take, TypeInv
  <2>2. [pc |-> "enter", msg |-> Head(pool)] \in Work
    BY <2>1 DEF Work, Handling
  <2>3. job' = [job EXCEPT ![w] = [pc |-> "enter", msg |-> Head(pool)]]
    BY <1>5 DEF Take
  <2>4. Jobs'
    BY <1>w, <2>2, <2>3, JobsKept DEF Jobs
  <2>5. crossed' \in BOOLEAN
    BY <1>5 DEF Take, TypeInv
  <2> QED
    BY <1>5, <2>1, <2>4, <2>5 DEF Take, TypeInv, Jobs, state, outside
<1>6. ASSUME NEW w \in Workers, Motion(w) PROVE TypeInv'
  <2>1. job[w].msg \in Messages /\ job[w].msg.kind = "motion"
    BY <1>6, AtWork DEF Motion, Entered, Handling
  <2>2. motion' \in [Sensors -> {0, 1, Unknown}]
    BY <1>6, <2>1, MessageFields DEF Motion, TypeInv
  <2>3. Jobs'
    BY <1>6, <1>g DEF Motion, Entered, Handled, Handling
  <2>4. crossed' \in BOOLEAN /\ last' \in Nat
    BY <1>6 DEF Motion, Handled, TypeInv
  <2> QED
    BY <1>6, <2>2, <2>3, <2>4 DEF Motion, TypeInv, Jobs, outside, others
<1>7. ASSUME NEW w \in Workers, RelayReport(w) PROVE TypeInv'
  <2>1. job[w].msg \in Messages /\ job[w].msg.kind = "relay"
    BY <1>7, AtWork DEF RelayReport, Entered, Handling
  <2>2. known' \in {0, 1, Unknown}
    BY <1>7, <2>1, MessageFields DEF RelayReport
  <2>3. Jobs'
    BY <1>7, <1>g DEF RelayReport, Entered, Handled, Handling
  <2>4. crossed' \in BOOLEAN
    BY <1>7 DEF RelayReport, Handled, TypeInv
  <2> QED
    BY <1>7, <2>2, <2>3, <2>4 DEF RelayReport, TypeInv, Jobs, outside, others
<1>8. ASSUME NEW w \in Workers, LeakEnds(w) PROVE TypeInv'
  <2>3. Jobs'
    BY <1>8, <1>g DEF LeakEnds, Entered, Handled, Handling
  <2>4. crossed' \in BOOLEAN
    BY <1>8 DEF LeakEnds, Handled, TypeInv
  <2> QED
    BY <1>8, <2>3, <2>4 DEF LeakEnds, TypeInv, Jobs, state, outside, others
<1>9. ASSUME NEW w \in Workers, Current(w) PROVE TypeInv'
  <2>3. Jobs'
    BY <1>9, <1>g DEF Current, Entered, Handled, Handling
  <2>4. crossed' \in BOOLEAN /\ plug' \in {0, 1} /\ charging' \in {"no", "yes", "done"}
    BY <1>9 DEF Current, Handled, TypeInv
  <2> QED
    BY <1>9, <2>3, <2>4 DEF Current, TypeInv, Jobs, state
<1>z. ASSUME NEW a \in Actors, NEW m \in Messages \cup {Idle}, NEW cmd \in {0, 1},
             NEW list \in Lists \cup {Executives}, Zone(a, m, cmd, list),
             a \in Workers => m \in Messages
      PROVE  Jobs' /\ want' \in [Devices -> {0, 1, Unknown}] /\ tangled' \in BOOLEAN
  <2>1. list \in Seq(Devices)
    <3>1. {"hot", "cold", "washer"} \subseteq Devices
      BY DEF Devices, Relays, Valves, Lamp
    <3>2. Executives \in Seq(Devices)
      BY <3>1 DEF Executives
    <3>3. <<"washer">> \in Seq(Devices)
      BY <3>1
    <3> QED
      BY <3>2, <3>3 DEF Lists
  <2>2. [pc |-> "zone", msg |-> m, cmd |-> cmd, todo |-> list] \in Zoned
    BY <2>1 DEF Zoned
  <2>3. job' = [job EXCEPT ![a] = [pc |-> "zone", msg |-> m, cmd |-> cmd, todo |-> list]]
    BY <1>z DEF Zone
  <2>4. Jobs'
    BY <1>z, <2>2, <2>3, JobsKept DEF Jobs
  <2>5. want' \in [Devices -> {0, 1, Unknown}]
    BY <1>z DEF Zone, TypeInv
  <2>6. tangled' \in BOOLEAN
    BY <1>z DEF Zone, TypeInv
  <2> QED
    BY <2>4, <2>5, <2>6
<1>10. ASSUME NEW w \in Workers, Leak(w) PROVE TypeInv'
  <2>1. job[w].msg \in Messages
    BY <1>10, AtWork DEF Leak, Entered, Handling
  <2>2. Jobs' /\ want' \in [Devices -> {0, 1, Unknown}] /\ tangled' \in BOOLEAN
    BY <1>10, <1>w, <1>z, <2>1 DEF Leak
  <2> QED
    BY <1>10, <2>2 DEF Leak, TypeInv, Jobs, state, outside
<1>11. ASSUME NEW w \in Workers, Minute(w) PROVE TypeInv'
  <2>1. Jobs'
    BY <1>11, <1>g DEF Minute, Handling
  <2> QED
    BY <1>11, <2>1 DEF Minute, TypeInv, Jobs, outside, history, others
<1>12. ASSUME NEW w \in Workers, Scan(w) PROVE TypeInv'
  <2>1. Jobs'
    BY <1>12, <1>g DEF Scan, Handling
  <2> QED
    BY <1>12, <2>1 DEF Scan, TypeInv, Jobs, outside, history, others
<1>13. ASSUME NEW w \in Workers, Late(w) PROVE TypeInv'
  <2>1. Go(w, "claim") \/ Finish(w)
    BY <1>13 DEF Late
  <2>2. Jobs'
    BY <1>13, <1>g, <1>f, <1>w, <2>1 DEF Late, Handling, Finish
  <2>3. off' \in BOOLEAN
    BY <1>13 DEF Late, TypeInv
  <2> QED
    BY <1>13, <2>2, <2>3 DEF Late, TypeInv, Jobs, outside, history, others
<1>14. ASSUME NEW w \in Workers, Claim(w) PROVE TypeInv'
  <2>1. Jobs'
    BY <1>14, <1>g DEF Claim, Handling
  <2> QED
    BY <1>14, <2>1 DEF Claim, TypeInv, Jobs, outside
<1>15. ASSUME NEW w \in Workers, SwitchOff(w) PROVE TypeInv'
  <2>1. Jobs'
    BY <1>15, <1>f, <1>w DEF SwitchOff, Finish
  <2>2. sends' \subseteq [to : Relays, cmd : {0, 1}]
    BY <1>15, <1>w DEF SwitchOff, TypeInv
  <2> QED
    BY <1>15, <2>1, <2>2 DEF SwitchOff, TypeInv, Jobs, state, outside, history, others
<1>16. ASSUME NEW a \in Actors, Command(a) PROVE TypeInv'
  <2>1. /\ job[a] \in Zoned /\ (a \in Workers => job[a].msg \in Messages)
        /\ job[a].cmd \in {0, 1} /\ job[a].todo \in Seq(Devices) /\ job[a].todo # <<>>
    BY <1>16, AtZone DEF Command
  <2>2. Head(job[a].todo) \in Devices /\ Tail(job[a].todo) \in Seq(Devices)
    BY <2>1, HeadTailProperties
  <2>3. [job[a] EXCEPT !.todo = Tail(job[a].todo)] \in Zoned
    BY <2>1, <2>2 DEF Zoned
  <2>4. job' = [job EXCEPT ![a] = [job[a] EXCEPT !.todo = Tail(job[a].todo)]]
    BY <1>16 DEF Command
  <2>5. [job[a] EXCEPT !.todo = Tail(job[a].todo)].msg = job[a].msg
    BY <2>1 DEF Zoned
  <2>6. Jobs'
    BY <2>1, <2>3, <2>4, <2>5, JobsKept DEF Jobs
  <2>7. Order(Head(job[a].todo), job[a].cmd) \in [to : Relays, cmd : {0, 1}]
    BY <2>1, <2>2 DEF Order, Devices
  <2>8. sends' \subseteq [to : Relays, cmd : {0, 1}]
    BY <1>16, <2>7 DEF Command, TypeInv
  <2> QED
    BY <1>16, <2>6, <2>8 DEF Command, TypeInv, Jobs, state, outside, history, others
<1>17. ASSUME NEW a \in Actors, ZoneEnd(a) PROVE TypeInv'
  <2>1. a \in Workers => job[a].msg \in Messages
    BY <1>17, AtZone DEF ZoneEnd
  <2>2. ASSUME a = Web PROVE Jobs'
    BY <1>17, <1>f, <2>2 DEF ZoneEnd
  <2>3. ASSUME a # Web PROVE Jobs'
    <3>1. a \in Workers
      BY <2>3 DEF Actors
    <3>2. [pc |-> "after", msg |-> job[a].msg] \in Work
      BY <2>1, <3>1 DEF Work, Handling
    <3>3. job' = [job EXCEPT ![a] = [pc |-> "after", msg |-> job[a].msg]]
      BY <1>17, <2>3 DEF ZoneEnd
    <3> QED
      BY <3>1, <3>2, <3>3, JobsKept DEF Jobs
  <2>4. crossed' \in BOOLEAN
    BY <1>17 DEF ZoneEnd, TypeInv
  <2> QED
    BY <1>17, <2>2, <2>3, <2>4 DEF ZoneEnd, TypeInv, Jobs, state, outside, others
<1>18. ASSUME NEW cmd \in {0, 1}, WebLamp(cmd) PROVE TypeInv'
  <2>1. sends' \subseteq [to : Relays, cmd : {0, 1}]
    BY <1>18, <1>w DEF WebLamp, TypeInv
  <2>2. messages' \in Nat /\ touched' \in BOOLEAN
    <3>1. Weight("web") \in Nat
      BY GuardAssumption
    <3> QED
      BY <1>18, <3>1 DEF WebLamp, TypeInv
  <2> QED
    BY <1>18, <1>s, <2>1, <2>2 DEF WebLamp, TypeInv, Jobs, state, outside
<1>19. ASSUME NEW cmd \in {0, 1}, NEW list \in Lists, Water(cmd, list) PROVE TypeInv'
  <2>1. Jobs' /\ want' \in [Devices -> {0, 1, Unknown}] /\ tangled' \in BOOLEAN
    <3>1. Web \notin Workers
      BY GuardAssumption
    <3> QED
      BY <1>19, <1>w, <1>z, <3>1 DEF Water
  <2>2. messages' \in Nat
    <3>1. Weight("web") \in Nat
      BY GuardAssumption
    <3> QED
      BY <1>19, <3>1 DEF Water, TypeInv
  <2> QED
    BY <1>19, <2>1, <2>2 DEF Water, TypeInv, Jobs, state, outside
<1>20. ASSUME UNCHANGED vars PROVE TypeInv'
  BY <1>20, <1>s DEF vars, TypeInv, Jobs, state, outside, history, others
<1> QED
  BY <1>1, <1>2, <1>3, <1>4, <1>5, <1>6, <1>7, <1>8, <1>9, <1>10, <1>11, <1>12, <1>13,
     <1>14, <1>15, <1>16, <1>17, <1>18, <1>19, <1>20, StepCases

\* Every variable keeps its type: a message is never taken for another one.
THEOREM TypeCorrect == Spec => []TypeInv
BY TypeInit, TypeStep, PTL DEF Spec

-----------------------------------------------------------------------------
(* The absence timer.                                                      *)

\* A look at the clock was at the minute that is going on, or one minute ago ...
Clock ==
    /\ last <= now /\ checked <= now
    /\ \A w \in Workers : job[w].pc = "scan" => checked = now
    /\ \A w \in Workers : job[w].pc = "late" => now <= checked + 1

\* ... and what it is about to see, or saw, is not older than that.
Seen ==
    \/ \E w \in Workers : job[w].pc = "scan"
    \/ \A s \in Counted : motion[s] = 1 => last >= checked

\* After a message one worker is at work, unless crossed says so.
Alone == crossed \/ \A v, w \in Workers : InAfter(v) /\ InAfter(w) => v = w

\* The flag is for the motion that was the last one, or is about to be reset.
FlagHolds ==
    off /\ ~crossed =>
        \/ claimed = last
        \/ last = now /\ \E w \in Workers : job[w].pc \in {"after", "scan", "late"}

TimerInv == TypeInv /\ Clock /\ Seen /\ Alone /\ FlagHolds

\* Steps of others: the timer's variables stay, and so do the workers that are in
\* after_message_action.
LEMMA TimerIdle ==
    ASSUME TimerInv, TypeInv',
           UNCHANGED <<now, last, checked, off, motion, claimed>>, crossed => crossed',
           \A w \in Workers : job'[w].pc = job[w].pc \/ ~(InAfter(w) \/ InAfter(w)')
    PROVE  TimerInv'
BY DEF TimerInv, Clock, Seen, Alone, FlagHolds, InAfter

LEMMA TimerInit == Init => TimerInv
<1> SUFFICES ASSUME Init PROVE TimerInv
  OBVIOUS
<1>1. \A w \in Workers : job[w].pc = "idle"
  BY DEF Init, Actors, Idle
<1>2. \A s \in Counted : motion[s] # 1
  BY DEF Init, Sensors, Unknown
<1> QED
  BY <1>1, <1>2, TypeInit DEF Init, TimerInv, Clock, Seen, Alone, FlagHolds, InAfter

\* One worker goes on, the others stay where they are.
LEMMA WorkerMoves ==
    ASSUME TypeInv, NEW w \in Workers, NEW j, job' = [job EXCEPT ![w] = j]
    PROVE  job'[w] = j /\ \A v \in Workers \ {w} : job'[v] = job[v]
<1>1. w \in Actors /\ \A v \in Workers \ {w} : v \in Actors \ {w}
  BY DEF Actors
<1>2. job'[w] = j /\ \A b \in Actors \ {w} : job'[b] = job[b]
  BY <1>1, OneMoves
<1> QED
  BY <1>1, <1>2

\* What a handler that ends does to the workers.
LEMMA HandledMoves ==
    ASSUME TypeInv, NEW w \in Workers, job[w].pc = "enter", Handled(w)
    PROVE  /\ job'[w].pc = "after"
           /\ \A v \in Workers \ {w} : job'[v] = job[v]
           /\ crossed' = (crossed \/ \E v \in Workers \ {w} : InAfter(v))
<1>1. job[w] \in Work
  BY AtWork DEF Handling
<1>2. job' = [job EXCEPT ![w] = [pc |-> "after", msg |-> job[w].msg]]
  BY <1>1, GoMoves DEF Handled, Handling
<1>3. job'[w] = [pc |-> "after", msg |-> job[w].msg] /\ \A v \in Workers \ {w} : job'[v] = job[v]
  BY <1>2, WorkerMoves
<1> QED
  BY <1>3 DEF Handled

LEMMA GoMovesTo ==
    ASSUME TypeInv, NEW w \in Workers, NEW p \in Handling, job[w].pc \in Handling, Go(w, p)
    PROVE  job'[w].pc = p /\ \A v \in Workers \ {w} : job'[v] = job[v]
<1>1. job' = [job EXCEPT ![w] = [pc |-> p, msg |-> job[w].msg]]
  BY AtWork, GoMoves
<1>2. job'[w] = [pc |-> p, msg |-> job[w].msg] /\ \A v \in Workers \ {w} : job'[v] = job[v]
  BY <1>1, WorkerMoves
<1> QED
  BY <1>2

LEMMA FinishMoves ==
    ASSUME TypeInv, NEW w \in Workers, Finish(w)
    PROVE  job'[w].pc = "idle" /\ \A v \in Workers \ {w} : job'[v] = job[v]
<1>1. job'[w] = Idle /\ \A v \in Workers \ {w} : job'[v] = job[v]
  BY WorkerMoves DEF Finish
<1> QED
  BY <1>1 DEF Idle

\* A worker enters after_message_action, and nothing else of the timer happens.
LEMMA TimerEnter ==
    ASSUME TimerInv, TypeInv', NEW w \in Workers, ~InAfter(w), job'[w].pc = "after",
           \A v \in Workers \ {w} : job'[v] = job[v],
           crossed' = (crossed \/ \E v \in Workers \ {w} : InAfter(v)),
           UNCHANGED <<now, last, checked, off, motion, claimed>>
    PROVE  TimerInv'
<1>1. Clock'
  BY DEF TimerInv, Clock
<1>2. Seen'
  BY DEF TimerInv, Seen, InAfter
<1>3. Alone'
  BY DEF TimerInv, Alone, InAfter
<1>4. FlagHolds'
  BY DEF TimerInv, FlagHolds, InAfter
<1> QED
  BY <1>1, <1>2, <1>3, <1>4 DEF TimerInv

LEMMA TimerStep == TimerInv /\ [Next]_vars => TimerInv'
<1> SUFFICES ASSUME TimerInv, [Next]_vars PROVE TimerInv'
  OBVIOUS
<1>0. TypeInv /\ TypeInv'
  BY TypeStep DEF TimerInv
<1>1. ASSUME Tick PROVE TimerInv'
  <2>1. \A w \in Workers : ~InAfter(w)
    BY <1>1 DEF Tick, Actors
  <2>2. now' = now + 1 /\ UNCHANGED <<last, checked, off, motion, claimed, crossed, job>>
    BY <1>1 DEF Tick, state, history, others
  <2>3. now \in Nat /\ last \in Nat /\ checked \in Nat
    BY <1>0 DEF TypeInv
  <2>4. Clock'
    BY <2>1, <2>2, <2>3 DEF TimerInv, Clock, InAfter
  <2>5. Seen' /\ Alone'
    BY <2>2 DEF TimerInv, Seen, Alone, InAfter
  <2>6. FlagHolds'
    BY <2>1, <2>2 DEF TimerInv, FlagHolds, InAfter
  <2> QED
    BY <1>0, <2>4, <2>5, <2>6 DEF TimerInv
<1>2. ASSUME NEW m \in Messages, Arrive(m) PROVE TimerInv'
  BY <1>0, <1>2, TimerIdle DEF Arrive, state
<1>3. ASSUME NEW s \in sends, Deliver(s) \/ Lose(s) PROVE TimerInv'
  BY <1>0, <1>3, TimerIdle DEF Deliver, Lose, state
<1>5. ASSUME NEW w \in Workers, Take(w) PROVE TimerInv'
  <2>1. job'[w].pc = "enter" /\ \A v \in Workers \ {w} : job'[v] = job[v]
    <3>1. /\ job'[w] = [pc |-> "enter", msg |-> Head(pool)]
          /\ \A v \in Workers \ {w} : job'[v] = job[v]
      BY <1>0, <1>5, WorkerMoves DEF Take
    <3> QED
      BY <3>1
  <2> QED
    BY <1>0, <1>5, <2>1, TimerIdle DEF Take, state, InAfter, Busy
<1>6. ASSUME NEW w \in Workers, Motion(w) PROVE TimerInv'
  <2>1. /\ job'[w].pc = "after" /\ \A v \in Workers \ {w} : job'[v] = job[v]
        /\ crossed' = (crossed \/ \E v \in Workers \ {w} : InAfter(v))
    BY <1>0, <1>6, HandledMoves DEF Motion, Entered
  <2>2. job[w].pc = "enter" /\ UNCHANGED <<now, checked, off, claimed>>
    BY <1>6 DEF Motion, Entered, others
  <2>3. now \in Nat /\ last \in Nat /\ checked \in Nat /\ last' \in Nat
    BY <1>0, <2>2 DEF TypeInv
  <2>4. last' \in {now, last} /\ last' >= last /\ last' <= now
    BY <1>6, <2>3 DEF Motion, TimerInv, Clock
  <2>5. Clock'
    BY <2>1, <2>2, <2>4 DEF TimerInv, Clock
  <2>6. Seen'
    <3>1. CASE \E v \in Workers : job[v].pc = "scan"
      BY <2>1, <2>2, <3>1 DEF Seen
    <3>2. CASE \A s \in Counted : motion[s] = 1 => last >= checked
      <4>1. motion' = [motion EXCEPT ![job[w].msg.of] = job[w].msg.val]
        BY <1>6 DEF Motion
      <4>2. ASSUME NEW s \in Counted, motion'[s] = 1 PROVE last' >= checked
        <5>1. CASE motion[s] = 1
          BY <2>3, <2>4, <3>2, <5>1
        <5>2. CASE motion[s] # 1
          <6>1. s = job[w].msg.of /\ job[w].msg.val = 1
            BY <1>0, <4>1, <4>2, <5>2 DEF TypeInv, Sensors
          <6>2. last' >= now
            BY <1>6, <2>3, <5>2, <6>1 DEF Motion
          <6> QED
            BY <2>2, <2>3, <6>2 DEF TimerInv, Clock
        <5> QED
          BY <5>1, <5>2
      <4> QED
        BY <2>2, <4>2 DEF Seen
    <3> QED
      BY <3>1, <3>2 DEF TimerInv, Seen
  <2>7. Alone'
    BY <2>1, <2>2 DEF TimerInv, Alone, InAfter
  <2>8. FlagHolds'
    BY <2>1, <2>2, <2>4 DEF TimerInv, FlagHolds, InAfter
  <2> QED
    BY <1>0, <2>5, <2>6, <2>7, <2>8 DEF TimerInv
<1>7. ASSUME NEW w \in Workers, RelayReport(w) \/ LeakEnds(w) \/ Current(w) PROVE TimerInv'
  <2>1. Handled(w) /\ job[w].pc = "enter"
    BY <1>7 DEF RelayReport, LeakEnds, Current, Entered
  <2>2. UNCHANGED <<now, last, checked, off, motion, claimed>>
    BY <1>7 DEF RelayReport, LeakEnds, Current, state, others
  <2>3. ~InAfter(w)
    BY <2>1 DEF InAfter
  <2> QED
    BY <1>0, <2>1, <2>2, <2>3, HandledMoves, TimerEnter
<1>z. ASSUME NEW a \in Actors, NEW m, NEW cmd, NEW list, Zone(a, m, cmd, list), ~InAfter(a),
             UNCHANGED <<now, last, checked, off, motion, claimed, crossed>>
      PROVE  TimerInv'
  <2>1. job'[a].pc = "zone" /\ \A b \in Actors \ {a} : job'[b] = job[b]
    BY <1>0, <1>z, OneMoves DEF Zone
  <2>2. \A w \in Workers : job'[w].pc = job[w].pc \/ ~(InAfter(w) \/ InAfter(w)')
    BY <1>z, <2>1 DEF InAfter, Actors
  <2> QED
    BY <1>0, <1>z, <2>2, TimerIdle
<1>10. ASSUME NEW w \in Workers, Leak(w) PROVE TimerInv'
  BY <1>10, <1>z DEF Leak, Entered, state, Actors, InAfter
<1>11. ASSUME NEW w \in Workers, Minute(w) PROVE TimerInv'
  <2>1. /\ job[w].pc = "after" /\ job'[w].pc \in {"scan", "late"}
        /\ \A v \in Workers \ {w} : job'[v] = job[v]
    BY <1>0, <1>11, GoMovesTo DEF Minute, Handling
  <2>2. UNCHANGED <<now, last, off, motion, claimed, crossed>>
    BY <1>11 DEF Minute, history, others
  <2>3. now \in Nat /\ last \in Nat /\ checked \in Nat
    BY <1>0 DEF TypeInv
  <2>4. CASE now > checked + 1
    <3>1. checked' = now /\ job'[w].pc = "scan"
      BY <1>0, <1>11, <2>1, <2>4, GoMovesTo DEF Minute, Handling
    <3>2. Clock'
      BY <2>1, <2>2, <2>3, <3>1 DEF TimerInv, Clock
    <3>3. Seen'
      BY <3>1 DEF Seen
    <3>4. Alone' /\ FlagHolds'
      BY <2>1, <2>2 DEF TimerInv, Alone, FlagHolds, InAfter
    <3> QED
      BY <1>0, <3>2, <3>3, <3>4 DEF TimerInv
  <2>5. CASE ~(now > checked + 1)
    <3>1. checked' = checked /\ job'[w].pc = "late"
      BY <1>0, <1>11, <2>1, <2>5, GoMovesTo DEF Minute, Handling
    <3>2. now <= checked + 1
      BY <2>3, <2>5
    <3>3. Clock'
      BY <2>1, <2>2, <3>1, <3>2 DEF TimerInv, Clock
    <3>4. Seen'
      BY <2>1, <2>2, <3>1 DEF TimerInv, Seen
    <3>5. Alone' /\ FlagHolds'
      BY <2>1, <2>2 DEF TimerInv, Alone, FlagHolds, InAfter
    <3> QED
      BY <1>0, <3>3, <3>4, <3>5 DEF TimerInv
  <2> QED
    BY <2>4, <2>5
<1>12. ASSUME NEW w \in Workers, Scan(w) PROVE TimerInv'
  <2>1. /\ job[w].pc = "scan" /\ job'[w].pc = "late"
        /\ \A v \in Workers \ {w} : job'[v] = job[v]
    BY <1>0, <1>12, GoMovesTo DEF Scan, Handling
  <2>2. UNCHANGED <<now, checked, off, motion, claimed, crossed>>
    BY <1>12 DEF Scan, history, others
  <2>3. now \in Nat /\ last \in Nat /\ checked \in Nat /\ checked = now
    BY <1>0, <2>1 DEF TypeInv, TimerInv, Clock
  <2>4. last' \in {now, last} /\ last' <= now /\ ((\E s \in Counted : motion[s] = 1) => last' >= now)
    BY <1>12, <2>3 DEF Scan, TimerInv, Clock
  <2>5. Clock'
    BY <2>1, <2>2, <2>3, <2>4 DEF TimerInv, Clock
  <2>6. Seen'
    BY <2>2, <2>3, <2>4 DEF Seen
  <2>7. Alone' /\ FlagHolds'
    BY <2>1, <2>2, <2>4 DEF TimerInv, Alone, FlagHolds, InAfter
  <2> QED
    BY <1>0, <2>5, <2>6, <2>7 DEF TimerInv
<1>13. ASSUME NEW w \in Workers, Late(w) PROVE TimerInv'
  <2>1. /\ job[w].pc = "late" /\ job'[w].pc \in {"claim", "idle"}
        /\ \A v \in Workers \ {w} : job'[v] = job[v]
    BY <1>0, <1>13, GoMovesTo, FinishMoves DEF Late, Handling
  <2>2. UNCHANGED <<now, last, checked, motion, claimed, crossed>>
    BY <1>13 DEF Late, history, others
  <2>3. now \in Nat /\ last \in Nat /\ checked \in Nat
    BY <1>0 DEF TypeInv
  <2>4. Clock' /\ Seen' /\ Alone'
    BY <2>1, <2>2 DEF TimerInv, Clock, Seen, Alone, InAfter
  <2>5. FlagHolds'
    <3>1. ASSUME off', ~crossed', claimed # last PROVE FALSE
      <4>1. now - last > AbsentAfter /\ off' = off
        BY <1>13, <3>1 DEF Late
      <4>2. last # now
        BY <2>3, <4>1, GuardAssumption
      <4> QED
        BY <2>2, <3>1, <4>1, <4>2 DEF TimerInv, FlagHolds
    <3> QED
      BY <2>2, <3>1 DEF FlagHolds
  <2> QED
    BY <1>0, <2>4, <2>5 DEF TimerInv
<1>14. ASSUME NEW w \in Workers, Claim(w) PROVE TimerInv'
  <2>1. /\ job[w].pc = "claim" /\ job'[w].pc = "off"
        /\ \A v \in Workers \ {w} : job'[v] = job[v]
    BY <1>0, <1>14, GoMovesTo DEF Claim, Handling
  <2>2. UNCHANGED <<now, last, checked, motion, crossed>> /\ claimed' = last
    BY <1>14 DEF Claim
  <2> QED
    BY <1>0, <2>1, <2>2 DEF TimerInv, Clock, Seen, Alone, FlagHolds, InAfter
<1>15. ASSUME NEW w \in Workers, SwitchOff(w) PROVE TimerInv'
  <2>1. /\ job[w].pc = "off" /\ job'[w].pc = "idle"
        /\ \A v \in Workers \ {w} : job'[v] = job[v]
    BY <1>0, <1>15, FinishMoves DEF SwitchOff
  <2>2. UNCHANGED <<now, last, checked, off, motion, crossed, claimed>>
    BY <1>15 DEF SwitchOff, state, history, others
  <2> QED
    BY <1>0, <2>1, <2>2 DEF TimerInv, Clock, Seen, Alone, FlagHolds, InAfter
<1>16. ASSUME NEW a \in Actors, Command(a) PROVE TimerInv'
  <2>1. /\ job[a].pc = "zone"
        /\ job' = [job EXCEPT ![a] = [job[a] EXCEPT !.todo = Tail(job[a].todo)]]
        /\ UNCHANGED <<now, last, checked, off, motion, claimed, crossed>>
    BY <1>16 DEF Command, state, history, others
  <2>2. [job[a] EXCEPT !.todo = Tail(job[a].todo)].pc = "zone"
    BY <1>0, <2>1, AtZone DEF Zoned
  <2>3. job'[a].pc = job[a].pc /\ \A b \in Actors \ {a} : job'[b] = job[b]
    BY <1>0, <2>1, <2>2, OneMoves
  <2>4. \A w \in Workers : job'[w].pc = job[w].pc
    BY <2>3 DEF Actors
  <2> QED
    BY <1>0, <2>1, <2>4, TimerIdle
<1>17. ASSUME NEW a \in Actors, ZoneEnd(a) PROVE TimerInv'
  <2>1. job[a].pc = "zone" /\ UNCHANGED <<now, last, checked, off, motion, claimed>>
    BY <1>17 DEF ZoneEnd, state, others
  <2>2. CASE a = Web
    <3>1. \A w \in Workers : job'[w] = job[w]
      BY <1>0, <1>17, <2>2, OneMoves, GuardAssumption DEF ZoneEnd, Actors
    <3>2. crossed' = crossed
      BY <1>0, <1>17, <2>2 DEF ZoneEnd, TypeInv
    <3> QED
      BY <1>0, <2>1, <3>1, <3>2, TimerIdle
  <2>3. CASE a # Web
    <3>1. a \in Workers
      BY <2>3 DEF Actors
    <3>2. job' = [job EXCEPT ![a] = [pc |-> "after", msg |-> job[a].msg]]
      BY <1>17, <2>3 DEF ZoneEnd
    <3>3. job'[a].pc = "after" /\ \A v \in Workers \ {a} : job'[v] = job[v]
      BY <1>0, <3>2, OneMoves DEF Actors
    <3>4. crossed' = (crossed \/ \E v \in Workers \ {a} : InAfter(v))
      BY <1>17, <2>3 DEF ZoneEnd
    <3>5. ~InAfter(a)
      BY <2>1 DEF InAfter
    <3> QED
      BY <1>0, <2>1, <3>1, <3>3, <3>4, <3>5, TimerEnter
  <2> QED
    BY <2>2, <2>3
<1>18. ASSUME NEW cmd \in {0, 1}, WebLamp(cmd) PROVE TimerInv'
  BY <1>0, <1>18, TimerIdle DEF WebLamp, state
<1>19. ASSUME NEW cmd \in {0, 1}, NEW list \in Lists, Water(cmd, list) PROVE TimerInv'
  BY <1>19, <1>z DEF Water, state, Actors, InAfter, Busy
<1>20. ASSUME UNCHANGED vars PROVE TimerInv'
  BY <1>0, <1>20, TimerIdle DEF vars, state, history, others
<1> QED
  BY <1>1, <1>2, <1>3, <1>5, <1>6, <1>7, <1>10, <1>11, <1>12, <1>13,
     <1>14, <1>15, <1>16, <1>17, <1>18, <1>19, <1>20, StepCases

\* While the flag is set the lamps were switched off for the last motion: motion since then
\* has reset it (controller.cpp:358-385).
THEOREM FlagIsForThisAbsence == Spec => []OffMeansDone
<1>1. TimerInv => OffMeansDone
  <2> SUFFICES ASSUME TimerInv, off, \A w \in Workers : ~Busy(w), ~crossed PROVE claimed = last
    BY DEF OffMeansDone
  <2> QED
    BY DEF TimerInv, FlagHolds, Busy
<1> QED
  BY <1>1, TimerInit, TimerStep, PTL DEF Spec

\* Only switch_off_with_timeout decides that the house is empty.
LEMMA OnlyLateClaims ==
    ASSUME TypeInv, [Next]_vars, NEW w \in Workers, job[w].pc = "late", job'[w].pc = "claim"
    PROVE  Late(w)
<1> DEFINE P == Late(w)
<1>0. w \in Actors /\ job'[w] # job[w]
  BY DEF Actors
<1>m. ASSUME NEW a \in Actors, NEW j, job' = [job EXCEPT ![a] = j] PROVE a = w /\ j.pc = "claim"
  <2>1. job'[a] = j /\ \A b \in Actors \ {a} : job'[b] = job[b]
    BY <1>m, OneMoves
  <2> QED
    BY <1>0, <2>1
<1>g. ASSUME NEW v \in Workers, NEW p \in Handling, job[v].pc \in Handling, Go(v, p) PROVE v = w /\ p = "claim"
  <2>1. job'[v].pc = p /\ \A x \in Workers \ {v} : job'[x] = job[x]
    BY <1>g, GoMovesTo
  <2> QED
    BY <1>0, <2>1
<1>f. ASSUME NEW v \in Workers, Finish(v) PROVE FALSE
  BY <1>f, <1>m DEF Finish, Actors, Idle
<1>1. ASSUME NEW v \in Workers, Handled(v), job[v].pc = "enter" PROVE FALSE
  BY <1>1, <1>g DEF Handled, Handling
<1>2. ASSUME NEW v \in Workers, Take(v) PROVE P
  BY <1>2, <1>m DEF Take, Actors
<1>3. ASSUME NEW v \in Workers, Motion(v) \/ RelayReport(v) \/ LeakEnds(v) \/ Current(v) PROVE P
  BY <1>3, <1>1 DEF Motion, RelayReport, LeakEnds, Current, Entered
<1>4. ASSUME NEW a \in Actors, NEW m, NEW cmd, NEW list, Zone(a, m, cmd, list) PROVE FALSE
  <2>1. [pc |-> "zone", msg |-> m, cmd |-> cmd, todo |-> list].pc = "zone"
    OBVIOUS
  <2> QED
    BY <1>4, <1>m, <2>1 DEF Zone
<1>5. ASSUME NEW v \in Workers, Leak(v) PROVE P
  BY <1>5, <1>4 DEF Leak, Actors
<1>6. ASSUME NEW v \in Workers, Minute(v) PROVE P
  BY <1>6, <1>g DEF Minute, Handling
<1>7. ASSUME NEW v \in Workers, Scan(v) PROVE P
  BY <1>7, <1>g DEF Scan, Handling
<1>8. ASSUME NEW v \in Workers, Late(v) PROVE P
  BY <1>8, <1>g, <1>f DEF Late, Handling
<1>9. ASSUME NEW v \in Workers, Claim(v) PROVE P
  BY <1>9, <1>g DEF Claim, Handling
<1>10. ASSUME NEW v \in Workers, SwitchOff(v) PROVE P
  BY <1>10, <1>f DEF SwitchOff
<1>11. ASSUME NEW a \in Actors, Command(a) PROVE P
  <2>1. job[a].pc = "zone"
        /\ job' = [job EXCEPT ![a] = [job[a] EXCEPT !.todo = Tail(job[a].todo)]]
    BY <1>11 DEF Command
  <2> QED
    BY <1>m, <2>1
<1>12. ASSUME NEW a \in Actors, ZoneEnd(a) PROVE P
  <2>1. job[a].pc = "zone" /\ \E j : job' = [job EXCEPT ![a] = j]
    BY <1>12 DEF ZoneEnd
  <2> QED
    BY <1>m, <2>1
<1>13. ASSUME NEW cmd \in {0, 1}, NEW list \in Lists, Water(cmd, list) PROVE P
  BY <1>13, <1>4 DEF Water, Actors
<1>14. ASSUME UNCHANGED job PROVE P
  BY <1>14, <1>0
<1>15. ASSUME NEW m \in Messages, Arrive(m) PROVE P
  BY <1>15, <1>14 DEF Arrive
<1>16. ASSUME NEW s \in sends, Deliver(s) \/ Lose(s) PROVE P
  BY <1>16, <1>14 DEF Deliver, Lose
<1>17. ASSUME NEW cmd \in {0, 1}, WebLamp(cmd) PROVE P
  BY <1>17, <1>14 DEF WebLamp
<1>18. ASSUME Tick \/ UNCHANGED vars PROVE P
  BY <1>18, <1>14 DEF Tick, vars
<1> HIDE DEF P
<1>19. P
  BY <1>2, <1>3, <1>5, <1>6, <1>7, <1>8, <1>9, <1>10, <1>11, <1>12, <1>13, <1>15, <1>16,
     <1>17, <1>18, StepCases
<1> QED
  BY <1>19 DEF P

\* The lamps are not switched off while a sensor that the minute's check looks at still says
\* that there is motion, unless two workers were at it (controller.cpp:312, zhub.cpp:591-607).
THEOREM NoMotionAtClaim == Spec => OnlyWhenNobodyMoves
<1>1. ASSUME TimerInv, [Next]_vars, NEW w \in Workers, job[w].pc = "late",
             job'[w].pc = "claim", ~crossed, NEW s \in Counted, motion[s] = 1
      PROVE  FALSE
  <2>1. TypeInv
    BY <1>1 DEF TimerInv
  <2>2. now - last > AbsentAfter
    <3>1. Late(w)
      BY <1>1, <2>1, OnlyLateClaims
    <3>2. ~Finish(w)
      BY <1>1, <2>1, FinishMoves
    <3> QED
      BY <3>1, <3>2 DEF Late
  <2>3. now \in Nat /\ last \in Nat /\ checked \in Nat /\ AbsentAfter \in Nat \ {0}
    BY <2>1, GuardAssumption DEF TypeInv
  <2>4. \A v \in Workers : job[v].pc # "scan"
    BY <1>1 DEF TimerInv, Alone, InAfter
  <2>5. last >= checked /\ now <= checked + 1
    BY <1>1, <2>4 DEF TimerInv, Seen, Clock
  <2> QED
    BY <2>2, <2>3, <2>5
<1>2. TimerInv /\ [Next]_vars =>
        [\A w \in Workers : job[w].pc = "late" /\ job'[w].pc = "claim"
           => crossed \/ \A s \in Counted : motion[s] # 1]_vars
  BY <1>1
<1> QED
  BY <1>2, TimerInit, TimerStep, PTL DEF Spec, OnlyWhenNobodyMoves

-----------------------------------------------------------------------------
(* The empty house.                                                        *)

Switched(cmd) == [to |-> Lamp, cmd |-> cmd]

\* Since the lamps were switched off nobody has asked for the light, and it is off, or told
\* to be, or a worker that knows that it is on is about to tell it.
LampInv ==
    off /\ ~touched =>
        /\ Switched(1) \notin sends
        /\ ~crossed /\ Lamp \notin lost =>
              \/ relay[Lamp] = 0
              \/ Switched(0) \in sends
              \/ known = 1 /\ \E w \in Workers : job[w].pc = "off"

DarkInv == TimerInv /\ LampInv

LEMMA DarkInit == Init => DarkInv
BY TimerInit DEF Init, DarkInv, LampInv

\* Steps that leave the lamp, its commands and the worker that switches it off alone.
LEMMA LampIdle ==
    ASSUME LampInv, UNCHANGED <<known, relay, lost, touched>>, off' => off,
           Switched(1) \in sends' => Switched(1) \in sends,
           Switched(0) \in sends => Switched(0) \in sends', crossed => crossed',
           \A w \in Workers : job[w].pc = "off" => job'[w].pc = "off"
    PROVE  LampInv'
BY DEF LampInv, Switched

LEMMA DarkStep == DarkInv /\ [Next]_vars => DarkInv'
<1> SUFFICES ASSUME DarkInv, [Next]_vars PROVE LampInv'
  BY TimerStep DEF DarkInv
<1>0. TypeInv /\ TimerInv /\ LampInv
  BY DEF DarkInv, TimerInv
<1>w. \A w \in Workers : w \in Actors
  BY DEF Actors
<1>1. ASSUME Tick PROVE LampInv'
  BY <1>0, <1>1, LampIdle DEF Tick, state, outside, history, others
<1>2. ASSUME NEW m \in Messages, Arrive(m) PROVE LampInv'
  <2>1. UNCHANGED <<known, lost, off, sends, crossed, job>>
    BY <1>2 DEF Arrive, state
  <2>2. CASE m.of = Lamp
    <3>1. m.val \in {0, 1}
      BY <2>2, MessageFields
    <3>2. CASE m.val = 1
      BY <1>2, <2>2, <3>2 DEF Arrive, LampInv
    <3>3. CASE m.val = 0
      <4>1. relay'[Lamp] = 0 /\ touched' = touched
        BY <1>0, <1>2, <2>2, <3>3 DEF Arrive, TypeInv, Relays
      <4> QED
        BY <1>0, <2>1, <4>1 DEF LampInv, Switched
    <3> QED
      BY <3>1, <3>2, <3>3
  <2>3. CASE m.of # Lamp
    <3>1. UNCHANGED <<relay, touched>>
      BY <1>0, <1>2, <2>3 DEF Arrive, TypeInv
    <3> QED
      BY <1>0, <2>1, <3>1, LampIdle
  <2> QED
    BY <2>2, <2>3
<1>3. ASSUME NEW s \in sends, Deliver(s) PROVE LampInv'
  <2>1. s \in [to : Relays, cmd : {0, 1}]
    BY <1>0 DEF TypeInv
  <2>2. UNCHANGED <<known, off, touched, crossed, job>> /\ sends' = sends \ {s}
    BY <1>3 DEF Deliver, state
  <2>3. CASE s.to = Lamp
    <3>1. s = Switched(s.cmd)
      BY <2>1, <2>3 DEF Switched
    <3>2. relay'[Lamp] = s.cmd
      BY <1>0, <1>3, <2>3 DEF Deliver, TypeInv, Relays
    <3>3. off /\ ~touched => s.cmd = 0
      BY <1>0, <2>1, <3>1 DEF LampInv
    <3> QED
      BY <1>0, <2>2, <3>2, <3>3 DEF LampInv, Switched
  <2>4. CASE s.to # Lamp
    <3>1. relay'[Lamp] = relay[Lamp] /\ (Lamp \in lost => Lamp \in lost')
      BY <1>0, <1>3, <2>1, <2>4 DEF Deliver, TypeInv, Relays
    <3>2. Switched(0) # s
      BY <2>4 DEF Switched
    <3> QED
      BY <1>0, <2>2, <3>1, <3>2 DEF LampInv, Switched
  <2> QED
    BY <2>3, <2>4
<1>4. ASSUME NEW s \in sends, Lose(s) PROVE LampInv'
  <2>2. /\ UNCHANGED <<known, off, touched, crossed, job, relay>> /\ sends' = sends \ {s}
        /\ lost' = lost \cup {s.to}
    BY <1>4 DEF Lose, state, outside
  <2>3. Lamp \in lost' \/ Switched(0) # s
    BY <2>2 DEF Switched
  <2> QED
    BY <1>0, <2>2, <2>3 DEF LampInv, Switched
<1>5. ASSUME NEW w \in Workers, Take(w) PROVE LampInv'
  <2>1. \A v \in Workers \ {w} : job'[v] = job[v]
    BY <1>0, <1>5, WorkerMoves DEF Take
  <2>2. job[w].pc # "off"
    BY <1>5 DEF Take, Busy
  <2>3. UNCHANGED <<known, relay, lost, touched, off, sends>> /\ (crossed => crossed')
    BY <1>5 DEF Take, state, outside
  <2> QED
    BY <1>0, <2>1, <2>2, <2>3, LampIdle
<1>h. ASSUME NEW w \in Workers, Handled(w), job[w].pc = "enter"
      PROVE  /\ \A v \in Workers : job[v].pc = "off" => job'[v].pc = "off"
             /\ crossed => crossed'
             /\ (\E v \in Workers : job[v].pc = "off") => crossed'
  <2>1. /\ job'[w].pc = "after" /\ \A v \in Workers \ {w} : job'[v] = job[v]
        /\ crossed' = (crossed \/ \E v \in Workers \ {w} : InAfter(v))
    BY <1>0, <1>h, HandledMoves
  <2> QED
    BY <1>h, <2>1 DEF InAfter
<1>6. ASSUME NEW w \in Workers, Motion(w) \/ LeakEnds(w) \/ Current(w) PROVE LampInv'
  <2>1. Handled(w) /\ job[w].pc = "enter"
    BY <1>6 DEF Motion, LeakEnds, Current, Entered
  <2>2. UNCHANGED <<known, relay, lost, touched, off, sends>>
    BY <1>6 DEF Motion, LeakEnds, Current, state, outside, others
  <2> QED
    BY <1>0, <1>h, <2>1, <2>2, LampIdle
<1>7. ASSUME NEW w \in Workers, RelayReport(w) PROVE LampInv'
  <2>1. Handled(w) /\ job[w].pc = "enter"
    BY <1>7 DEF RelayReport, Entered
  <2>2. UNCHANGED <<relay, lost, touched, off, sends>>
    BY <1>7 DEF RelayReport, state, outside, others
  <2>3. (crossed => crossed') /\ ((\E v \in Workers : job[v].pc = "off") => crossed')
    BY <1>h, <2>1
  <2> QED
    BY <1>0, <2>2, <2>3 DEF LampInv, Switched
<1>z. ASSUME NEW a \in Actors, NEW m, NEW cmd, NEW list, Zone(a, m, cmd, list), job[a].pc # "off"
      PROVE  \A v \in Workers : job[v].pc = "off" => job'[v].pc = "off"
  <2>1. \A b \in Actors \ {a} : job'[b] = job[b]
    BY <1>0, <1>z, OneMoves DEF Zone
  <2> QED
    BY <1>z, <1>w, <2>1
<1>10. ASSUME NEW w \in Workers, Leak(w) PROVE LampInv'
  <2>1. \A v \in Workers : job[v].pc = "off" => job'[v].pc = "off"
    BY <1>10, <1>w, <1>z DEF Leak, Entered
  <2> QED
    BY <1>0, <1>10, <2>1, LampIdle DEF Leak, state, outside
<1>g. ASSUME NEW w \in Workers, NEW p \in Handling, job[w].pc \in Handling \ {"off"}, Go(w, p)
      PROVE  \A v \in Workers : job[v].pc = "off" => job'[v].pc = "off"
  BY <1>0, <1>g, GoMovesTo
<1>11. ASSUME NEW w \in Workers, Minute(w) PROVE LampInv'
  <2>1. \A v \in Workers : job[v].pc = "off" => job'[v].pc = "off"
    BY <1>11, <1>g DEF Minute, Handling
  <2> QED
    BY <1>0, <1>11, <2>1, LampIdle DEF Minute, outside, history, others
<1>12. ASSUME NEW w \in Workers, Scan(w) PROVE LampInv'
  <2>1. \A v \in Workers : job[v].pc = "off" => job'[v].pc = "off"
    BY <1>12, <1>g DEF Scan, Handling
  <2> QED
    BY <1>0, <1>12, <2>1, LampIdle DEF Scan, outside, history, others
<1>13. ASSUME NEW w \in Workers, Late(w) PROVE LampInv'
  <2>1. \A v \in Workers : job[v].pc = "off" => job'[v].pc = "off"
    <3>1. job[w].pc = "late" /\ (Go(w, "claim") \/ Finish(w))
      BY <1>13 DEF Late
    <3>2. CASE Finish(w)
      BY <1>0, <3>1, <3>2, FinishMoves
    <3> QED
      BY <1>g, <3>1, <3>2 DEF Handling
  <2>2. off' => off
    BY <1>13 DEF Late
  <2> QED
    BY <1>0, <1>13, <2>1, <2>2, LampIdle DEF Late, outside, history, others
<1>14. ASSUME NEW w \in Workers, Claim(w) PROVE LampInv'
  <2>1. job'[w].pc = "off"
    BY <1>0, <1>14, GoMovesTo DEF Claim, Handling
  <2>2. /\ touched' = (Switched(1) \in sends \/ (relay[Lamp] = 1 /\ known # 1))
        /\ UNCHANGED <<known, sends, relay>>
    BY <1>14 DEF Claim, Switched, outside
  <2>3. relay[Lamp] \in {0, 1}
    BY <1>0 DEF TypeInv, Relays
  <2> QED
    BY <2>1, <2>2, <2>3 DEF LampInv, Switched
<1>15. ASSUME NEW w \in Workers, SwitchOff(w) PROVE LampInv'
  <2>1. UNCHANGED <<known, relay, lost, touched, off, crossed>>
    BY <1>15 DEF SwitchOff, state, outside, history, others
  <2>2. sends' = IF known = 1 THEN sends \cup {Switched(0)} ELSE sends
    BY <1>15 DEF SwitchOff, Switched
  <2>3. Switched(0) # Switched(1)
    BY DEF Switched
  <2>4. known = 1 => Switched(0) \in sends'
    BY <2>2
  <2>5. Switched(1) \in sends' => Switched(1) \in sends
    BY <2>2, <2>3
  <2>6. Switched(0) \in sends => Switched(0) \in sends'
    BY <2>2
  <2> QED
    BY <1>0, <2>1, <2>4, <2>5, <2>6 DEF LampInv, Switched
<1>16. ASSUME NEW a \in Actors, Command(a) PROVE LampInv'
  <2>1. /\ job[a].pc = "zone"
        /\ job' = [job EXCEPT ![a] = [job[a] EXCEPT !.todo = Tail(job[a].todo)]]
        /\ UNCHANGED <<known, relay, lost, touched, off, crossed>>
    BY <1>16 DEF Command, state, outside, history, others
  <2>2. \A b \in Actors \ {a} : job'[b] = job[b]
    BY <1>0, <2>1, OneMoves
  <2>3. \A v \in Workers : job[v].pc = "off" => job'[v].pc = "off"
    BY <1>w, <2>1, <2>2
  <2>4. Head(job[a].todo) # Lamp
    <3>1. job[a].todo \in Seq(Devices) /\ job[a].todo # <<>>
      BY <1>0, <1>16, AtZone DEF Command
    <3> QED
      BY <3>1, HeadTailProperties DEF Devices
  <2>5. Order(Head(job[a].todo), job[a].cmd) # Switched(1)
    BY <2>4 DEF Order, Switched
  <2>6. (Switched(1) \in sends' => Switched(1) \in sends) /\ sends \subseteq sends'
    BY <1>16, <2>5 DEF Command
  <2> QED
    BY <1>0, <2>1, <2>3, <2>6, LampIdle
<1>17. ASSUME NEW a \in Actors, ZoneEnd(a) PROVE LampInv'
  <2>1. job[a].pc = "zone" /\ UNCHANGED <<known, relay, lost, touched, off, sends>>
    BY <1>17 DEF ZoneEnd, state, outside, others
  <2>2. \A b \in Actors \ {a} : job'[b] = job[b]
    BY <1>0, <1>17, OneMoves DEF ZoneEnd
  <2>3. \A v \in Workers : job[v].pc = "off" => job'[v].pc = "off"
    BY <1>w, <2>1, <2>2
  <2>4. crossed => crossed'
    BY <1>17 DEF ZoneEnd
  <2> QED
    BY <1>0, <2>1, <2>3, <2>4, LampIdle
<1>18. ASSUME NEW cmd \in {0, 1}, WebLamp(cmd) PROVE LampInv'
  <2>1. UNCHANGED <<known, relay, lost, off, crossed, job>> /\ sends' = sends \cup {Switched(cmd)}
        /\ touched' = (touched \/ cmd = 1)
    BY <1>18 DEF WebLamp, state, outside, Switched
  <2>2. ~touched' => ~touched /\ Switched(cmd) # Switched(1)
    BY <2>1 DEF Switched
  <2> QED
    BY <1>0, <2>1, <2>2 DEF LampInv, Switched
<1>19. ASSUME NEW cmd \in {0, 1}, NEW list \in Lists, Water(cmd, list) PROVE LampInv'
  <2>1. \A v \in Workers : job[v].pc = "off" => job'[v].pc = "off"
    BY <1>19, <1>z DEF Water, Busy, Actors
  <2> QED
    BY <1>0, <1>19, <2>1, LampIdle DEF Water, state, outside
<1>20. ASSUME UNCHANGED vars PROVE LampInv'
  BY <1>0, <1>20, LampIdle DEF vars, state, outside, history, others
<1> QED
  BY <1>1, <1>2, <1>3, <1>4, <1>5, <1>6, <1>7, <1>10, <1>11, <1>12, <1>13,
     <1>14, <1>15, <1>16, <1>17, <1>18, <1>19, <1>20, StepCases

\* When all has settled after the lamps were switched off, the lamp is off, unless somebody
\* switched it on since, it had not reported that it was on, or the command was lost
\* (controller.cpp:370-381).
THEOREM DarkAfterAbsence == Spec => []EmptyHouseIsDark
<1>1. DarkInv => EmptyHouseIsDark
  BY DEF DarkInv, LampInv, EmptyHouseIsDark, Settled, Busy, Actors
<1> QED
  BY <1>1, DarkInit, DarkStep, PTL DEF Spec

-----------------------------------------------------------------------------
(* The leak guard.                                                         *)

InZone(a) == job[a].pc = "zone"
Todo(a) == {d \in Devices : \E i \in 1 .. Len(job[a].todo) : job[a].todo[i] = d}

\* While no two commands overlap there is one list of devices to be told, what it has to
\* say is what was asked for last, and so is what is on its way ...
OneList ==
    /\ \A a, b \in Actors : InZone(a) /\ InZone(b) => a = b
    /\ \A a \in Actors : InZone(a) => \A d \in Todo(a) : want[d] = job[a].cmd
    /\ \A s \in sends : s.to # Lamp => s = Order(s.to, want[s.to])

\* ... and each device that is there does it, has missed it, or is to hear of it.
Reached(d) ==
    \/ Obeys(d)
    \/ d \in lost
    \/ Order(d, want[d]) \in sends
    \/ \E a \in Actors : InZone(a) /\ d \in Todo(a)

ZoneInv ==
    TypeInv /\ (~tangled => OneList /\ \A d \in registered : want[d] # Unknown => Reached(d))

LEMMA ZoneInit == Init => ZoneInv
<1> SUFFICES ASSUME Init PROVE ZoneInv
  OBVIOUS
<1>1. \A a \in Actors : ~InZone(a)
  BY DEF Init, InZone, Idle
<1>2. sends = {} /\ OneList
  BY <1>1 DEF Init, OneList
<1>3. \A d \in registered : want[d] = Unknown
  BY TypeInit DEF Init, TypeInv, Devices
<1> QED
  BY <1>2, <1>3, TypeInit DEF ZoneInv

\* The elements of a list of devices after its head is taken.
LEMMA TailElements ==
    ASSUME NEW s \in Seq(Devices), s # <<>>
    PROVE  \A d \in Devices :
               (\E i \in 1 .. Len(s) : s[i] = d)
               <=> d = Head(s) \/ \E i \in 1 .. Len(Tail(s)) : Tail(s)[i] = d
<1>1. Len(s) \in Nat \ {0} /\ Head(s) = s[1] /\ Len(Tail(s)) = Len(s) - 1
  BY HeadTailProperties, LenProperties, EmptySeq
<1>2. \A i \in 1 .. Len(Tail(s)) : i + 1 \in 1 .. Len(s) /\ Tail(s)[i] = s[i + 1]
  BY <1>1, HeadTailProperties
<1>3. ASSUME NEW i \in 1 .. Len(s), i # 1
      PROVE  i - 1 \in 1 .. Len(Tail(s)) /\ Tail(s)[i - 1] = s[i]
  <2>1. i - 1 \in 1 .. Len(Tail(s))
    BY <1>1, <1>3
  <2>2. Tail(s)[i - 1] = s[(i - 1) + 1]
    BY <1>2, <2>1
  <2> QED
    BY <2>1, <2>2
<1>4. 1 \in 1 .. Len(s)
  BY <1>1
<1> QED
  BY <1>1, <1>2, <1>3, <1>4

\* Steps that leave the executive devices and their commands alone.
LEMMA ZoneIdle ==
    ASSUME ZoneInv, TypeInv',
           UNCHANGED <<registered, want>>, tangled => tangled',
           \A d \in Devices : relay'[d] = relay[d] /\ (d \in lost => d \in lost'),
           \A s \in sends \cup sends' : s.to # Lamp => (s \in sends <=> s \in sends'),
           \A a \in Actors : InZone(a) \/ InZone(a)' => job'[a] = job[a]
    PROVE  ZoneInv'
<1>1. SUFFICES ASSUME ~tangled'
               PROVE  OneList' /\ \A d \in registered : want[d] # Unknown => Reached(d)'
  BY DEF ZoneInv
<1>2. OneList /\ \A d \in registered : want[d] # Unknown => Reached(d)
  BY <1>1 DEF ZoneInv
<1>3. \A a \in Actors : (InZone(a)' <=> InZone(a)) /\ (InZone(a) => Todo(a)' = Todo(a) /\ job'[a].cmd = job[a].cmd)
  BY DEF InZone, Todo
<1>4. OneList'
  BY <1>2, <1>3 DEF OneList
<1>5. ASSUME NEW d \in registered, want[d] # Unknown PROVE Reached(d)'
  <2>1. Reached(d) /\ d \in Devices
    BY <1>2, <1>5 DEF ZoneInv, TypeInv
  <2>2. Obeys(d) => Obeys(d)'
    BY <2>1 DEF Obeys
  <2>3. Order(d, want[d]) \in sends => Order(d, want[d])' \in sends'
    BY <2>1 DEF Order, Devices
  <2> QED
    BY <1>3, <2>1, <2>2, <2>3 DEF Reached
<1> QED
  BY <1>4, <1>5

LEMMA ZoneStep == ZoneInv /\ [Next]_vars => ZoneInv'
<1> SUFFICES ASSUME ZoneInv, [Next]_vars PROVE ZoneInv'
  OBVIOUS
<1>0. TypeInv /\ TypeInv'
  BY TypeStep DEF ZoneInv
<1>w. \A w \in Workers : w \in Actors
  BY DEF Actors
\* A step of an actor that is in no list, before or after.
<1>j. ASSUME NEW a \in Actors, NEW j, job' = [job EXCEPT ![a] = j], ~InZone(a), j.pc # "zone"
      PROVE  \A b \in Actors : InZone(b) \/ InZone(b)' => job'[b] = job[b]
  <2>1. job'[a] = j /\ \A b \in Actors \ {a} : job'[b] = job[b]
    BY <1>0, <1>j, OneMoves
  <2> QED
    BY <1>j, <2>1 DEF InZone
<1>g. ASSUME NEW w \in Workers, NEW p \in Handling, job[w].pc \in Handling, Go(w, p)
      PROVE  \A b \in Actors : InZone(b) \/ InZone(b)' => job'[b] = job[b]
  <2>1. job' = [job EXCEPT ![w] = [pc |-> p, msg |-> job[w].msg]]
    BY <1>0, <1>g, AtWork, GoMoves
  <2>2. ~InZone(w) /\ [pc |-> p, msg |-> job[w].msg].pc # "zone"
    BY <1>g DEF InZone, Handling
  <2> QED
    BY <1>j, <1>w, <2>1, <2>2
<1>f. ASSUME NEW w \in Workers, job[w].pc \in Handling, Finish(w)
      PROVE  \A b \in Actors : InZone(b) \/ InZone(b)' => job'[b] = job[b]
  <2>2. ~InZone(w) /\ Idle.pc # "zone"
    BY <1>f DEF InZone, Handling, Idle
  <2> QED
    BY <1>f, <1>j, <1>w, <2>2 DEF Finish
\* Workers that touch neither the devices nor the commands.
<1>q. ASSUME \A b \in Actors : InZone(b) \/ InZone(b)' => job'[b] = job[b],
             UNCHANGED <<registered, want, tangled, relay, lost, sends>>
      PROVE  ZoneInv'
  BY <1>0, <1>q, ZoneIdle
<1>1. ASSUME Tick PROVE ZoneInv'
  BY <1>1, <1>q DEF Tick, state, outside, history, others
<1>2. ASSUME NEW m \in Messages, Arrive(m) PROVE ZoneInv'
  <2>1. \A d \in Devices : relay'[d] = relay[d]
    BY <1>0, <1>2 DEF Arrive, TypeInv, Devices
  <2> QED
    BY <1>0, <1>2, <2>1, ZoneIdle DEF Arrive, state
<1>3. ASSUME NEW s \in sends, Deliver(s) PROVE ZoneInv'
  <2>1. s \in [to : Relays, cmd : {0, 1}]
    BY <1>0 DEF TypeInv
  <2>2. /\ UNCHANGED <<registered, want, tangled, job>> /\ sends' = sends \ {s}
        /\ relay' = [relay EXCEPT ![s.to] = s.cmd] /\ lost' = lost \ {s.to}
    BY <1>3 DEF Deliver, state
  <2>3. \A r \in Relays : relay'[r] = IF r = s.to THEN s.cmd ELSE relay[r]
    BY <1>0, <2>2 DEF TypeInv
  <2>4. SUFFICES ASSUME ~tangled
                 PROVE  OneList' /\ \A d \in registered : want[d] # Unknown => Reached(d)'
    BY <1>0, <2>2 DEF ZoneInv
  <2>5. OneList /\ \A d \in registered : want[d] # Unknown => Reached(d)
    BY <2>4 DEF ZoneInv
  <2>6. OneList'
    BY <2>2, <2>5 DEF OneList, InZone, Todo
  <2>7. ASSUME NEW d \in registered, want[d] # Unknown PROVE Reached(d)'
    <3>1. Reached(d) /\ d \in Relays /\ d # Lamp
      BY <1>0, <2>5, <2>7 DEF TypeInv, Devices
    <3>2. CASE s.to = d
      <4>1. s = Order(d, want[d])
        BY <2>5, <3>1, <3>2 DEF OneList
      <4>2. Obeys(d)'
        BY <2>2, <2>3, <3>1, <3>2, <4>1 DEF Obeys
      <4> QED
        BY <4>2 DEF Reached
    <3>3. CASE s.to # d
      <4>1. relay'[d] = relay[d] /\ (d \in lost => d \in lost')
        BY <2>2, <2>3, <3>1, <3>3
      <4>2. Order(d, want[d]) # s
        BY <3>3 DEF Order
      <4> QED
        BY <2>2, <3>1, <4>1, <4>2 DEF Reached, Obeys, InZone, Todo
    <3> QED
      BY <3>2, <3>3
  <2> QED
    BY <2>2, <2>6, <2>7
<1>4. ASSUME NEW s \in sends, Lose(s) PROVE ZoneInv'
  <2>2. /\ UNCHANGED <<registered, want, tangled, job, relay>> /\ sends' = sends \ {s}
        /\ lost' = lost \cup {s.to}
    BY <1>4 DEF Lose, state, outside
  <2>4. SUFFICES ASSUME ~tangled
                 PROVE  OneList' /\ \A d \in registered : want[d] # Unknown => Reached(d)'
    BY <1>0, <2>2 DEF ZoneInv
  <2>5. OneList /\ \A d \in registered : want[d] # Unknown => Reached(d)
    BY <2>4 DEF ZoneInv
  <2>6. OneList'
    BY <2>2, <2>5 DEF OneList, InZone, Todo
  <2>7. ASSUME NEW d \in registered, want[d] # Unknown PROVE Reached(d)'
    <3>1. d \in lost' \/ Order(d, want[d]) # s
      BY <2>2 DEF Order
    <3> QED
      BY <2>2, <2>5, <2>7, <3>1 DEF Reached, Obeys, InZone, Todo
  <2> QED
    BY <2>2, <2>6, <2>7
<1>5. ASSUME NEW w \in Workers, Take(w) PROVE ZoneInv'
  <2>1. job' = [job EXCEPT ![w] = [pc |-> "enter", msg |-> Head(pool)]] /\ job[w].pc = "idle"
    BY <1>5 DEF Take, Busy
  <2>2. ~InZone(w) /\ [pc |-> "enter", msg |-> Head(pool)].pc # "zone"
    BY <2>1 DEF InZone
  <2>3. \A b \in Actors : InZone(b) \/ InZone(b)' => job'[b] = job[b]
    BY <1>j, <1>w, <2>1, <2>2
  <2> QED
    BY <1>5, <1>q, <2>3 DEF Take, state, outside
<1>6. ASSUME NEW w \in Workers, Motion(w) \/ RelayReport(w) \/ LeakEnds(w) \/ Current(w)
      PROVE  ZoneInv'
  <2>1. Go(w, "after") /\ job[w].pc = "enter"
    BY <1>6 DEF Motion, RelayReport, LeakEnds, Current, Entered, Handled
  <2>2. UNCHANGED <<registered, want, tangled, relay, lost, sends>>
    BY <1>6 DEF Motion, RelayReport, LeakEnds, Current, state, outside, others
  <2> QED
    BY <1>g, <1>q, <2>1, <2>2 DEF Handling
\* A list begins.
<1>z. ASSUME NEW a \in Actors, NEW m, NEW cmd \in {0, 1}, NEW list \in Seq(Devices),
             Zone(a, m, cmd, list), ~InZone(a), UNCHANGED <<registered, relay, lost, sends>>
      PROVE  ZoneInv'
  <2> DEFINE ds == {list[i] : i \in DOMAIN list}
             j == [pc |-> "zone", msg |-> m, cmd |-> cmd, todo |-> list]
  <2>1. /\ job' = [job EXCEPT ![a] = j]
        /\ want' = [d \in DOMAIN want |-> IF d \in ds THEN cmd ELSE want[d]]
        /\ tangled' = (tangled \/ (\E x \in Actors : job[x].pc = "zone")
                               \/ \E s \in sends : s.to \in ds)
    BY <1>z DEF Zone
  <2>2. job'[a] = j /\ \A b \in Actors \ {a} : job'[b] = job[b]
    BY <1>0, <2>1, OneMoves
  <2>3. \A d \in Devices : want'[d] = IF d \in ds THEN cmd ELSE want[d]
    BY <1>0, <2>1 DEF TypeInv
  <2>4. InZone(a)' /\ job'[a].cmd = cmd /\ \A d \in Devices : d \in Todo(a)' <=> d \in ds
    <3>1. DOMAIN list = 1 .. Len(list)
      BY LenProperties
    <3>2. job'[a].todo = list
      BY <2>2
    <3> HIDE DEF j
    <3>3. \A d \in Devices : d \in Todo(a)' <=> d \in ds
      BY <3>1, <3>2 DEF Todo
    <3> QED
      BY <2>2, <3>3 DEF InZone, j
  <2> HIDE DEF ds, j
  <2>5. SUFFICES ASSUME ~tangled'
                 PROVE  OneList' /\ \A d \in registered : want'[d] # Unknown => Reached(d)'
    BY <1>0, <1>z DEF ZoneInv
  <2>6. /\ ~tangled /\ \A b \in Actors : ~InZone(b)
        /\ \A s \in sends : s.to \notin ds
    BY <2>1, <2>5 DEF InZone
  <2>7. OneList /\ \A d \in registered : want[d] # Unknown => Reached(d)
    BY <2>6 DEF ZoneInv
  <2>8. \A b \in Actors : InZone(b)' => b = a
    BY <2>2, <2>6 DEF InZone
  <2>9. OneList'
    <3>1. \A d \in Todo(a)' : want'[d] = cmd
      BY <2>3, <2>4 DEF Todo
    <3>2. ASSUME NEW s \in sends, s.to # Lamp PROVE s = Order(s.to, want'[s.to])
      <4>1. s = Order(s.to, want[s.to]) /\ s.to \in Devices
        BY <1>0, <2>7, <3>2 DEF OneList, TypeInv, Devices
      <4>2. want'[s.to] = want[s.to]
        BY <2>3, <2>6, <4>1
      <4> QED
        BY <4>1, <4>2
    <3>3. sends' = sends
      BY <1>z
    <3> QED
      BY <2>4, <2>8, <3>1, <3>2, <3>3 DEF OneList
  <2>10. ASSUME NEW d \in registered, want'[d] # Unknown PROVE Reached(d)'
    <3>1. d \in Devices
      BY <1>0 DEF TypeInv
    <3>2. CASE d \in ds
      BY <2>4, <3>1, <3>2 DEF Reached
    <3>3. CASE d \notin ds
      <4>1. want'[d] = want[d] /\ Reached(d)
        BY <2>3, <2>7, <2>10, <3>1, <3>3
      <4> QED
        BY <1>z, <2>6, <4>1 DEF Reached, Obeys
    <3> QED
      BY <3>2, <3>3
  <2> QED
    BY <2>9, <2>10
<1>l. Executives \in Seq(Devices) /\ <<"washer">> \in Seq(Devices)
  BY DEF Executives, Devices, Relays, Valves, Lamp
<1>10. ASSUME NEW w \in Workers, Leak(w) PROVE ZoneInv'
  BY <1>10, <1>l, <1>w, <1>z DEF Leak, Entered, InZone, state, outside
<1>11. ASSUME NEW w \in Workers, Minute(w) PROVE ZoneInv'
  BY <1>11, <1>g, <1>q DEF Minute, Handling, outside, history, others
<1>12. ASSUME NEW w \in Workers, Scan(w) PROVE ZoneInv'
  BY <1>12, <1>g, <1>q DEF Scan, Handling, outside, history, others
<1>13. ASSUME NEW w \in Workers, Late(w) PROVE ZoneInv'
  <2>1. job[w].pc = "late" /\ (Go(w, "claim") \/ Finish(w))
    BY <1>13 DEF Late
  <2> QED
    BY <1>13, <1>g, <1>f, <1>q, <2>1 DEF Late, Handling, outside, history, others
<1>14. ASSUME NEW w \in Workers, Claim(w) PROVE ZoneInv'
  BY <1>14, <1>g, <1>q DEF Claim, Handling, outside
<1>15. ASSUME NEW w \in Workers, SwitchOff(w) PROVE ZoneInv'
  <2>1. \A b \in Actors : InZone(b) \/ InZone(b)' => job'[b] = job[b]
    BY <1>15, <1>f DEF SwitchOff, Handling
  <2>2. \A s \in sends \cup sends' : s.to # Lamp => (s \in sends <=> s \in sends')
    BY <1>15 DEF SwitchOff
  <2> QED
    BY <1>0, <1>15, <2>1, <2>2, ZoneIdle DEF SwitchOff, state, outside, history, others
<1>16. ASSUME NEW a \in Actors, Command(a) PROVE ZoneInv'
  <2> DEFINE d0 == Head(job[a].todo)
             o == Order(d0, job[a].cmd)
             j == [job[a] EXCEPT !.todo = Tail(job[a].todo)]
  <2>1. /\ job[a] \in Zoned /\ job[a].cmd \in {0, 1} /\ job[a].todo \in Seq(Devices)
        /\ job[a].todo # <<>> /\ InZone(a)
    BY <1>0, <1>16, AtZone DEF Command, InZone
  <2>2. /\ job' = [job EXCEPT ![a] = j]
        /\ sends' = IF d0 \in registered THEN sends \cup {o} ELSE sends
        /\ UNCHANGED <<registered, relay, lost, want, tangled>>
    BY <1>16 DEF Command, state, outside, history, others
  <2>3. j.pc = "zone" /\ j.cmd = job[a].cmd /\ j.todo = Tail(job[a].todo)
    BY <2>1 DEF Zoned, InZone
  <2> HIDE DEF j
  <2>4. job'[a] = j /\ \A b \in Actors \ {a} : job'[b] = job[b]
    BY <1>0, <2>2, OneMoves
  <2>5. \A b \in Actors : InZone(b)' <=> InZone(b)
    BY <2>1, <2>3, <2>4 DEF InZone
  <2>6. \A d \in Devices : d \in Todo(a) <=> d = d0 \/ d \in Todo(a)'
    <3>1. job'[a].todo = Tail(job[a].todo)
      BY <2>3, <2>4
    <3>2. \A d \in Devices :
             (\E i \in 1 .. Len(job[a].todo) : job[a].todo[i] = d)
             <=> d = d0 \/ \E i \in 1 .. Len(Tail(job[a].todo)) : Tail(job[a].todo)[i] = d
      BY <2>1, TailElements
    <3> HIDE DEF d0
    <3> QED
      BY <3>1, <3>2 DEF Todo
  <2>d. d0 \in Devices
    BY <2>1, HeadTailProperties
  <2>7. SUFFICES ASSUME ~tangled
                 PROVE  OneList' /\ \A d \in registered : want[d] # Unknown => Reached(d)'
    BY <1>0, <2>2 DEF ZoneInv
  <2>8. OneList /\ \A d \in registered : want[d] # Unknown => Reached(d)
    BY <2>7 DEF ZoneInv
  <2>9. \A b \in Actors : InZone(b) => b = a
    BY <2>1, <2>8 DEF OneList
  <2>10. d0 \in Todo(a) /\ want[d0] = job[a].cmd
    BY <2>1, <2>6, <2>8, <2>d DEF OneList
  <2>11. o.to = d0 /\ o = Order(d0, want[d0])
    BY <2>10 DEF Order
  <2> HIDE DEF o, d0
  <2>12. OneList'
    <3>1. \A d \in Todo(a)' : want[d] = job'[a].cmd
      <4>1. \A d \in Todo(a)' : d \in Todo(a)
        BY <2>6 DEF Todo
      <4>2. job'[a].cmd = job[a].cmd
        BY <2>3, <2>4
      <4> QED
        BY <2>1, <2>8, <4>1, <4>2 DEF OneList
    <3>2. \A s \in sends' : s.to # Lamp => s = Order(s.to, want[s.to])
      BY <2>2, <2>8, <2>11 DEF OneList
    <3> QED
      BY <2>2, <2>5, <2>9, <3>1, <3>2 DEF OneList
  <2>13. ASSUME NEW d \in registered, want[d] # Unknown PROVE Reached(d)'
    <3>1. Reached(d) /\ d \in Devices
      BY <1>0, <2>8, <2>13 DEF TypeInv
    <3>2. CASE d = d0
      BY <2>2, <2>11, <3>2 DEF Reached
    <3>3. CASE d # d0
      <4>1. (\E b \in Actors : InZone(b) /\ d \in Todo(b)) => InZone(a)' /\ d \in Todo(a)'
        BY <2>1, <2>5, <2>6, <2>9, <3>1, <3>3
      <4> QED
        BY <2>2, <3>1, <4>1 DEF Reached, Obeys
    <3> QED
      BY <3>2, <3>3
  <2> QED
    BY <2>2, <2>12, <2>13
<1>17. ASSUME NEW a \in Actors, ZoneEnd(a) PROVE ZoneInv'
  <2>1. /\ InZone(a) /\ job[a].todo = <<>>
        /\ UNCHANGED <<registered, relay, lost, want, tangled, sends>>
        /\ job' = [job EXCEPT ![a] = IF a = Web THEN Idle ELSE [pc |-> "after", msg |-> job[a].msg]]
    BY <1>17 DEF ZoneEnd, state, outside, others, InZone
  <2>2. ~InZone(a)' /\ \A b \in Actors \ {a} : job'[b] = job[b]
    BY <1>0, <2>1, OneMoves DEF InZone, Idle
  <2>3. Todo(a) = {}
    BY <2>1 DEF Todo
  <2>7. SUFFICES ASSUME ~tangled
                 PROVE  OneList' /\ \A d \in registered : want[d] # Unknown => Reached(d)'
    BY <1>0, <2>1 DEF ZoneInv
  <2>8. OneList /\ \A d \in registered : want[d] # Unknown => Reached(d)
    BY <2>7 DEF ZoneInv
  <2>9. \A b \in Actors : ~InZone(b)'
    BY <2>1, <2>2, <2>8 DEF OneList, InZone
  <2>10. OneList'
    BY <2>1, <2>8, <2>9 DEF OneList
  <2>11. ASSUME NEW d \in registered, want[d] # Unknown PROVE Reached(d)'
    <3>1. ~\E b \in Actors : InZone(b) /\ d \in Todo(b)
      BY <2>1, <2>3, <2>8 DEF OneList
    <3> QED
      BY <2>1, <2>8, <2>11, <3>1 DEF Reached, Obeys
  <2> QED
    BY <2>1, <2>10, <2>11
<1>18. ASSUME NEW cmd \in {0, 1}, WebLamp(cmd) PROVE ZoneInv'
  <2>1. \A s \in sends \cup sends' : s.to # Lamp => (s \in sends <=> s \in sends')
    BY <1>18 DEF WebLamp
  <2> QED
    BY <1>0, <1>18, <2>1, ZoneIdle DEF WebLamp, state, outside
<1>19. ASSUME NEW cmd \in {0, 1}, NEW list \in Lists, Water(cmd, list) PROVE ZoneInv'
  BY <1>19, <1>l, <1>z DEF Water, Lists, Busy, InZone, Actors, state, outside
<1>20. ASSUME UNCHANGED vars PROVE ZoneInv'
  BY <1>20, <1>q DEF vars, state, outside, history, others
<1> QED
  BY <1>1, <1>2, <1>3, <1>4, <1>5, <1>6, <1>10, <1>11, <1>12, <1>13,
     <1>14, <1>15, <1>16, <1>17, <1>18, <1>19, <1>20, StepCases

\* When the commands of the leak guard are over, each executive device that is registered
\* does what was asked for last, or missed it: absent devices and lost commands of others
\* do not matter (zhub.cpp:160-182).
THEOREM WaterIsShut == Spec => []LeakShutsWater
<1>1. ZoneInv => LeakShutsWater
  BY DEF ZoneInv, Reached, InZone, Zones, LeakShutsWater
<1> QED
  BY <1>1, ZoneInit, ZoneStep, PTL DEF Spec
=============================================================================
