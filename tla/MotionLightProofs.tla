------------------------- MODULE MotionLightProofs --------------------------
(***************************************************************************)
(* Proofs about MotionLight: what the rules of the sensors, run by any     *)
(* number of workers, make of the lights of the corridor and the kitchen.  *)
(***************************************************************************)
EXTENDS MotionLight, SequenceTheorems, TLAPS

Commands == [to : Lights, cmd : {0, 1}]
MotionFrames == [kind : {"motion"}, of : Motions, cmd : {0, 1}]

\* The jobs of a worker: a frame that was taken, a sensor's state that was stored, a relay's
\* state that was read, commands to be sent.
Entered == [pc : {"enter"}, frame : Frames]
Moved == [pc : {"decide", "look", "asleep"}, frame : MotionFrames, before : States]
Looked == [pc : {"decide"}, frame : MotionFrames, before : States, relay : States]
Switching == [pc : {"switch"}, frame : Frames, todo : Seq(Commands)]

\* What a rule may tell a relay for frame f.
May(f, c) ==
    /\ f.kind = "motion" =>
          c.cmd = f.cmd /\ c.to = IF f.of = "kitchen" THEN "kitchen" ELSE "corridor"
    /\ f.kind = "press" => c.cmd = 0
    /\ f.kind = "door" => c.to \in Doors

JobType(w) ==
    LET j == job[w] IN
    \/ j = Idle
    \/ j \in Entered
    \/ /\ j \in Moved
       /\ j.pc = "decide" => j.frame.of = "corridor"
       /\ j.pc = "look" => j.frame.of \in {"hall", "kitchen"}
       /\ j.pc = "asleep" => j.frame.of = "ikea"
    \/ j \in Looked /\ j.frame.of \in {"hall", "kitchen"}
    \/ /\ j \in Switching /\ j.todo # <<>>
       /\ j.frame.kind \in {"motion", "door", "press"}
       /\ j.frame.kind = "motion" => j.frame.of \in {"corridor", "hall", "kitchen"}
       /\ \A i \in 1 .. Len(j.todo) : May(j.frame, j.todo[i])

TypeInv ==
    /\ motion \in [Motions -> States] /\ luminocity \in States
    /\ known \in [Lights -> States]
    /\ registered \subseteq Absentees
    /\ pool \in Seq(Frames) /\ line \in Seq(Commands)
    /\ job = [w \in Workers |-> job[w]] /\ \A w \in Workers : JobType(w)
    /\ lamp \in [Lights -> {0, 1}]
    /\ presence \in [{"corridor", "hall"} -> {0, 1}]
    /\ reports \in Nat
    /\ crashed \in BOOLEAN /\ disordered \in BOOLEAN /\ crossed \in BOOLEAN /\ dark \in BOOLEAN

LEMMA StepCases ==
    ASSUME [Next]_vars, NEW P,
           \A s \in Motions, v \in {0, 1} : Sense(s, v) => P,
           \A f \in Frames : Signal(f) => P,
           Obey => P, Lose => P,
           \A w \in Workers : Take(w) => P,
           \A w \in Workers : Drop(w) => P,
           \A w \in Workers : Motion(w) => P,
           \A w \in Workers : Wake(w) => P,
           \A w \in Workers : Look(w) => P,
           \A w \in Workers : Corridor(w) => P,
           \A w \in Workers : Hall(w) => P,
           \A w \in Workers : Kitchen(w) => P,
           \A w \in Workers : Door(w) => P,
           \A w \in Workers : Press(w) => P,
           \A w \in Workers : RelayReport(w) => P,
           \A w \in Workers : LightReport(w) => P,
           \A w \in Workers : Send(w) => P,
           UNCHANGED vars => P
    PROVE  P
BY DEF Next, Worker, Rule

-----------------------------------------------------------------------------
(* Types, and what an action does to the workers.                          *)

LEMMA FrameFields ==
    ASSUME NEW f \in Frames
    PROVE  /\ f.kind \in {"motion", "door", "luminocity", "relay", "press"} /\ f.cmd \in {0, 1}
           /\ f.kind = "motion" => f.of \in Motions /\ f \in MotionFrames
           /\ f.kind = "door" => f.of \in Doors
           /\ f.kind = "relay" => f.of \in Lights
           /\ f.kind = "luminocity" => f.of = "hall"
BY DEF Frames, MotionFrames

LEMMA FrameSources == MotionFrames \subseteq Frames /\ \A f \in MotionFrames : f.kind = "motion" /\ f.of \in Motions /\ f.cmd \in {0, 1}
BY DEF Frames, MotionFrames

\* One worker goes on, the others stay where they are.
LEMMA OneMoves ==
    ASSUME TypeInv, NEW w \in Workers, NEW j, job' = [job EXCEPT ![w] = j]
    PROVE  /\ job' = [v \in Workers |-> job'[v]]
           /\ job'[w] = j
           /\ \A v \in Workers \ {w} : job'[v] = job[v]
<1>1. job = [v \in Workers |-> job[v]]
  BY DEF TypeInv
<1>2. job' = [v \in Workers |-> IF v = w THEN j ELSE job[v]]
  BY <1>1
<1> QED
  BY <1>2

JobsType == job = [w \in Workers |-> job[w]] /\ \A w \in Workers : JobType(w)

LEMMA JobsKept ==
    ASSUME TypeInv, NEW w \in Workers, NEW j, job' = [job EXCEPT ![w] = j], JobType(w)'
    PROVE  JobsType'
<1>1. /\ job' = [v \in Workers |-> job'[v]]
      /\ \A v \in Workers \ {w} : job'[v] = job[v]
  BY OneMoves
<1>2. ASSUME NEW v \in Workers \ {w} PROVE JobType(v)'
  <2>1. JobType(v)
    BY DEF TypeInv
  <2> QED
    BY <1>1, <2>1 DEF JobType
<1> QED
  BY <1>1, <1>2 DEF JobsType

\* What a worker holds at each place.
LEMMA AtEnter ==
    ASSUME TypeInv, NEW w \in Workers, job[w].pc = "enter"
    PROVE  job[w] \in Entered /\ job[w].frame \in Frames
<1>1. JobType(w)
  BY DEF TypeInv
<1>2. job[w] # Idle /\ job[w] \notin Moved /\ job[w] \notin Looked /\ job[w] \notin Switching
  BY DEF Idle, Moved, Looked, Switching
<1>3. job[w] \in Entered
  BY <1>1, <1>2 DEF JobType
<1> QED
  BY <1>3 DEF Entered

LEMMA AtLook ==
    ASSUME TypeInv, NEW w \in Workers, job[w].pc = "look"
    PROVE  /\ job[w].frame \in MotionFrames /\ job[w].frame.of \in {"hall", "kitchen"}
           /\ job[w].before \in States
<1>1. JobType(w)
  BY DEF TypeInv
<1>2. job[w] # Idle /\ job[w] \notin Entered /\ job[w] \notin Looked /\ job[w] \notin Switching
  BY DEF Idle, Entered, Looked, Switching
<1>3. job[w] \in Moved /\ job[w].frame.of \in {"hall", "kitchen"}
  BY <1>1, <1>2 DEF JobType
<1> QED
  BY <1>3 DEF Moved

LEMMA AtDecide ==
    ASSUME TypeInv, NEW w \in Workers, job[w].pc = "decide"
    PROVE  /\ job[w].frame \in MotionFrames /\ job[w].frame.of \in {"corridor", "hall", "kitchen"}
           /\ job[w].before \in States
           /\ job[w].frame.of # "corridor" => job[w].relay \in States
<1>1. JobType(w)
  BY DEF TypeInv
<1>2. job[w] # Idle /\ job[w] \notin Entered /\ job[w] \notin Switching
  BY DEF Idle, Entered, Switching
<1>3. \/ job[w] \in Moved /\ job[w].frame.of = "corridor"
      \/ job[w] \in Looked /\ job[w].frame.of \in {"hall", "kitchen"}
  BY <1>1, <1>2 DEF JobType
<1> QED
  BY <1>3 DEF Moved, Looked

LEMMA AtSwitch ==
    ASSUME TypeInv, NEW w \in Workers, job[w].pc = "switch"
    PROVE  /\ job[w].frame \in Frames /\ job[w].todo \in Seq(Commands) /\ job[w].todo # <<>>
           /\ job[w].frame.kind \in {"motion", "door", "press"}
           /\ job[w].frame.kind = "motion" => job[w].frame.of \in {"corridor", "hall", "kitchen"}
           /\ \A i \in 1 .. Len(job[w].todo) : May(job[w].frame, job[w].todo[i])
<1>1. JobType(w)
  BY DEF TypeInv
<1>2. job[w] # Idle /\ job[w] \notin Entered /\ job[w] \notin Moved /\ job[w] \notin Looked
  BY DEF Idle, Entered, Moved, Looked
<1>3. /\ job[w] \in Switching /\ job[w].todo # <<>>
      /\ job[w].frame.kind \in {"motion", "door", "press"}
      /\ job[w].frame.kind = "motion" => job[w].frame.of \in {"corridor", "hall", "kitchen"}
      /\ \A i \in 1 .. Len(job[w].todo) : May(job[w].frame, job[w].todo[i])
  BY <1>1, <1>2 DEF JobType
<1> QED
  BY <1>3 DEF Switching

\* A rule that has decided what to tell.
LEMMA Switches ==
    ASSUME TypeInv, NEW w \in Workers, NEW todo \in Seq(Commands), Switch(w, todo),
           job[w].frame \in Frames, job[w].frame.kind \in {"motion", "door", "press"},
           job[w].frame.kind = "motion" => job[w].frame.of \in {"corridor", "hall", "kitchen"},
           \A i \in 1 .. Len(todo) : May(job[w].frame, todo[i])
    PROVE  /\ JobsType'
           /\ job'[w] = IF todo = <<>> THEN Idle
                        ELSE [pc |-> "switch", frame |-> job[w].frame, todo |-> todo]
           /\ \A v \in Workers \ {w} : job'[v] = job[v]
<1> DEFINE j == IF todo = <<>> THEN Idle
                ELSE [pc |-> "switch", frame |-> job[w].frame, todo |-> todo]
<1>1. job' = [job EXCEPT ![w] = j]
  BY DEF Switch
<1>2. job'[w] = j /\ \A v \in Workers \ {w} : job'[v] = job[v]
  BY <1>1, OneMoves
<1>3. JobType(w)'
  <2>1. CASE todo = <<>>
    BY <1>2, <2>1 DEF JobType
  <2>2. CASE todo # <<>>
    <3>1. job'[w] = [pc |-> "switch", frame |-> job[w].frame, todo |-> todo]
      BY <1>2, <2>2
    <3>2. job'[w] \in Switching
      BY <3>1 DEF Switching
    <3>3. job'[w].frame = job[w].frame /\ job'[w].todo = todo
      BY <3>1
    <3> QED
      BY <2>2, <3>2, <3>3 DEF JobType
  <2> QED
    BY <2>1, <2>2
<1> HIDE DEF j
<1>4. JobsType'
  BY <1>1, <1>3, JobsKept
<1> QED
  BY <1>2, <1>4 DEF j

Stay(w) == \A v \in Workers \ {w} : job'[v] = job[v]
\* The step leaves worker w about to send todo for frame f.
Tells(w, f, todo) ==
    job'[w].pc = "switch" /\ job'[w].frame = f /\ job'[w].todo = todo /\ job'[w] # Idle

\* The lists of one command and of two.
LEMMA ShortLists ==
    ASSUME NEW c \in Commands
    PROVE  /\ <<>> \in Seq(Commands) /\ Len(<<>>) = 0
           /\ <<c>> \in Seq(Commands) /\ <<c>> # <<>> /\ Len(<<c>>) = 1 /\ <<c>>[1] = c
           /\ <<c, c>> \in Seq(Commands) /\ <<c, c>> # <<>> /\ Len(<<c, c>>) = 2
           /\ \A i \in 1 .. 2 : <<c, c>>[i] = c
<1>1. <<c, c>>[1] = c /\ <<c, c>>[2] = c /\ Len(<<c, c>>) = 2
  OBVIOUS
<1> QED
  BY <1>1

\* A rule that tells one relay, once or twice, or nothing.
LEMMA SwitchesOne ==
    ASSUME TypeInv, NEW w \in Workers, NEW c \in Commands,
           NEW todo \in {<<>>, <<c>>, <<c, c>>}, Switch(w, todo),
           job[w].frame \in Frames, job[w].frame.kind \in {"motion", "door"},
           job[w].frame.kind = "motion" => job[w].frame.of \in {"corridor", "hall", "kitchen"},
           May(job[w].frame, c)
    PROVE  /\ JobsType' /\ Stay(w)
           /\ todo = <<>> => job'[w] = Idle
           /\ todo # <<>> => Tells(w, job[w].frame, todo)
<1>1. todo \in Seq(Commands) /\ \A i \in 1 .. Len(todo) : todo[i] = c
  <2>1. CASE todo = <<>>
    BY <2>1
  <2>2. CASE todo = <<c>>
    BY <2>2
  <2>3. CASE todo = <<c, c>>
    BY <2>3, ShortLists
  <2> QED
    BY <2>1, <2>2, <2>3
<1>2. \A i \in 1 .. Len(todo) : May(job[w].frame, todo[i])
  BY <1>1
<1>3. /\ JobsType'
      /\ job'[w] = IF todo = <<>> THEN Idle
                   ELSE [pc |-> "switch", frame |-> job[w].frame, todo |-> todo]
      /\ \A v \in Workers \ {w} : job'[v] = job[v]
  BY <1>1, <1>2, Switches
<1> QED
  BY <1>3 DEF Stay, Tells, Idle

LEMMA LightTypes == \A r \in Lights, cmd \in {0, 1} : Light(r, cmd) \in Commands /\ Light(r, cmd).to = r /\ Light(r, cmd).cmd = cmd
BY DEF Light, Commands

LEMMA CorridorDecides ==
    ASSUME TypeInv, NEW w \in Workers, Corridor(w)
    PROVE  LET f == job[w].frame IN
           /\ JobsType' /\ Stay(w)
           /\ job[w].pc = "decide" /\ f \in MotionFrames /\ f.of = "corridor"
           /\ job'[w] = Idle \/ Tells(w, f, <<Light("corridor", f.cmd)>>)
           /\ f.cmd = 0 /\ job'[w] = Idle => Other(w, "hall") = 1
           /\ f.cmd = 1 /\ job'[w] = Idle => ~dark'
<1> DEFINE f == job[w].frame
           c == Light("corridor", f.cmd)
           lum == IF "hall" \in registered THEN luminocity ELSE Unknown
<1>1. f \in MotionFrames /\ f \in Frames /\ f.kind = "motion" /\ f.of = "corridor" /\ f.cmd \in {0, 1}
  BY AtDecide, FrameSources DEF Corridor
<1>2. c \in Commands /\ May(f, c) /\ f.cmd = 1 => c = Light("corridor", 1)
  BY <1>1, LightTypes DEF Lights, May
<1>3. c \in Commands /\ May(f, c)
  BY <1>1, LightTypes DEF Lights, May
<1>4. CASE f.cmd = 1
  <2>1. Switch(w, IF lum # 1 THEN <<c>> ELSE <<>>) /\ dark' = (lum # 1)
    BY <1>4 DEF Corridor
  <2> HIDE DEF c, lum
  <2>2. CASE lum # 1
    <3>1. Switch(w, <<c>>) /\ <<c>> # <<>>
      BY <2>1, <2>2
    <3>2. JobsType' /\ Stay(w) /\ Tells(w, f, <<c>>)
      BY <1>1, <1>3, <3>1, SwitchesOne
    <3> QED
      BY <1>1, <1>4, <3>2 DEF Corridor, c, Tells
  <2>3. CASE ~(lum # 1)
    <3>1. Switch(w, <<>>)
      BY <2>1, <2>3
    <3>2. JobsType' /\ Stay(w) /\ job'[w] = Idle
      BY <1>1, <1>3, <3>1, SwitchesOne
    <3>3. ~dark' /\ job[w].pc = "decide"
      BY <2>1, <2>3 DEF Corridor
    <3> QED
      BY <1>1, <1>4, <3>2, <3>3
  <2> QED
    BY <2>2, <2>3
<1>5. CASE f.cmd = 0
  <2>1. Switch(w, IF Other(w, "hall") # 1 THEN <<c>> ELSE <<>>)
    BY <1>5 DEF Corridor
  <2> HIDE DEF c
  <2>2. CASE Other(w, "hall") # 1
    <3>1. Switch(w, <<c>>) /\ <<c>> # <<>>
      BY <2>1, <2>2
    <3>2. JobsType' /\ Stay(w) /\ Tells(w, f, <<c>>)
      BY <1>1, <1>3, <3>1, SwitchesOne
    <3> QED
      BY <1>1, <1>5, <3>2 DEF Corridor, c, Tells
  <2>3. CASE Other(w, "hall") = 1
    <3>1. Switch(w, <<>>)
      BY <2>1, <2>3
    <3>2. JobsType' /\ Stay(w) /\ job'[w] = Idle
      BY <1>1, <1>3, <3>1, SwitchesOne
    <3> QED
      BY <1>1, <1>5, <2>3, <3>2 DEF Corridor
  <2> QED
    BY <2>2, <2>3
<1> QED
  BY <1>1, <1>4, <1>5

LEMMA HallDecides ==
    ASSUME TypeInv, NEW w \in Workers, Hall(w)
    PROVE  LET f == job[w].frame IN
           /\ JobsType' /\ Stay(w)
           /\ job[w].pc = "decide" /\ f \in MotionFrames /\ f.of = "hall"
           /\ job'[w] = Idle \/ Tells(w, f, <<Light("corridor", f.cmd)>>)
           /\ f.cmd = 0 /\ job'[w] = Idle => job[w].relay = 0 \/ Other(w, "corridor") = 1
           /\ f.cmd = 0 /\ job'[w] # Idle => Other(w, "corridor") # 1
<1> DEFINE f == job[w].frame
           c == Light("corridor", f.cmd)
<1>1. f \in MotionFrames /\ f \in Frames /\ f.kind = "motion" /\ f.of = "hall" /\ f.cmd \in {0, 1}
  BY AtDecide, FrameSources DEF Hall
<1>2. c \in Commands /\ May(f, c)
  BY <1>1, LightTypes DEF Lights, May
<1>3. /\ Switch(w, <<c>>) \/ Switch(w, <<>>)
      /\ f.cmd = 0 => (Switch(w, <<>>) /\ (job[w].relay = 0 \/ Other(w, "corridor") = 1))
                      \/ (Switch(w, <<c>>) /\ Other(w, "corridor") # 1)
  BY <1>1 DEF Hall
<1>4. job[w].pc = "decide"
  BY DEF Hall
<1> HIDE DEF c
<1>5. ASSUME Switch(w, <<c>>) PROVE JobsType' /\ Stay(w) /\ Tells(w, f, <<c>>)
  <2>1. <<c>> # <<>>
    OBVIOUS
  <2> QED
    BY <1>1, <1>2, <1>5, <2>1, SwitchesOne
<1>6. ASSUME Switch(w, <<>>) PROVE JobsType' /\ Stay(w) /\ job'[w] = Idle
  BY <1>1, <1>2, <1>6, SwitchesOne
<1>7. Tells(w, f, <<c>>) => job'[w] # Idle
  BY DEF Tells
<1> QED
  BY <1>1, <1>3, <1>4, <1>5, <1>6, <1>7 DEF c

LEMMA KitchenDecides ==
    ASSUME TypeInv, NEW w \in Workers, Kitchen(w)
    PROVE  LET f == job[w].frame IN
           /\ JobsType' /\ Stay(w)
           /\ job[w].pc = "decide" /\ f \in MotionFrames /\ f.of = "kitchen"
           /\ job[w].relay = f.cmd => job'[w] = Idle
           /\ job[w].relay # f.cmd =>
                 Tells(w, f, <<Light("kitchen", f.cmd), Light("kitchen", f.cmd)>>)
<1> DEFINE f == job[w].frame
           c == Light("kitchen", f.cmd)
<1>1. f \in MotionFrames /\ f \in Frames /\ f.kind = "motion" /\ f.of = "kitchen" /\ f.cmd \in {0, 1}
  BY AtDecide, FrameSources DEF Kitchen
<1>2. c \in Commands /\ May(f, c)
  BY <1>1, LightTypes DEF Lights, May
<1>3. job[w].pc = "decide" /\ Switch(w, IF job[w].relay # f.cmd THEN <<c, c>> ELSE <<>>)
  BY DEF Kitchen
<1> HIDE DEF c
<1>4. CASE job[w].relay # f.cmd
  <2>1. Switch(w, <<c, c>>) /\ <<c, c>> # <<>>
    BY <1>3, <1>4
  <2>2. JobsType' /\ Stay(w) /\ Tells(w, f, <<c, c>>)
    BY <1>1, <1>2, <2>1, SwitchesOne
  <2> QED
    BY <1>1, <1>3, <1>4, <2>2 DEF c
<1>5. CASE job[w].relay = f.cmd
  <2>1. Switch(w, <<>>)
    BY <1>3, <1>5
  <2>2. JobsType' /\ Stay(w) /\ job'[w] = Idle
    BY <1>1, <1>2, <2>1, SwitchesOne
  <2> QED
    BY <1>1, <1>3, <1>5, <2>2
<1> QED
  BY <1>4, <1>5

LEMMA DoorDecides ==
    ASSUME TypeInv, NEW w \in Workers, Door(w)
    PROVE  /\ JobsType' /\ Stay(w)
           /\ job[w].pc = "enter" /\ job[w].frame.kind = "door"
           /\ job'[w] = Idle \/ (job'[w].pc = "switch" /\ job'[w].frame = job[w].frame)
<1> DEFINE f == job[w].frame
<1>1. f \in Frames /\ f.kind = "door" /\ f.of \in Doors /\ f.cmd \in {0, 1} /\ job[w].pc = "enter"
  BY AtEnter, FrameFields DEF Door
<1>2. \E r \in Doors, cmd \in {0, 1} : Switch(w, <<Light(r, cmd)>>) \/ Switch(w, <<>>)
  BY <1>1 DEF Door, Doors
<1>3. PICK r \in Doors, cmd \in {0, 1} : Switch(w, <<Light(r, cmd)>>) \/ Switch(w, <<>>)
  BY <1>2
<1> DEFINE c == Light(r, cmd)
<1>4. c \in Commands /\ May(f, c)
  BY <1>1, LightTypes DEF Lights, May, Doors
<1>5. Switch(w, <<c>>) \/ Switch(w, <<>>)
  BY <1>3
<1> HIDE DEF c
<1>6. ASSUME Switch(w, <<c>>) PROVE JobsType' /\ Stay(w) /\ Tells(w, f, <<c>>)
  <2>1. <<c>> # <<>>
    OBVIOUS
  <2> QED
    BY <1>1, <1>4, <1>6, <2>1, SwitchesOne
<1>7. ASSUME Switch(w, <<>>) PROVE JobsType' /\ Stay(w) /\ job'[w] = Idle
  BY <1>1, <1>4, <1>7, SwitchesOne
<1> QED
  BY <1>1, <1>5, <1>6, <1>7 DEF Tells

LEMMA PressDecides ==
    ASSUME TypeInv, NEW w \in Workers, Press(w)
    PROVE  /\ JobsType' /\ Stay(w)
           /\ job[w].pc = "enter" /\ job[w].frame.kind = "press" /\ crossed'
           /\ job'[w] = Idle \/ (job'[w].pc = "switch" /\ job'[w].frame = job[w].frame)
<1> DEFINE f == job[w].frame
           todo == [i \in DOMAIN OffList |-> Light(OffList[i], 0)]
<1>1. f \in Frames /\ f.kind = "press" /\ job[w].pc = "enter" /\ crossed' /\ Switch(w, todo)
  BY AtEnter DEF Press
<1>2. OffList \in Seq(Lights)
  BY LightAssumption
<1>3. /\ DOMAIN OffList = 1 .. Len(OffList) /\ Len(OffList) \in Nat
      /\ \A i \in 1 .. Len(OffList) : OffList[i] \in Lights
  BY <1>2, LenProperties, ElementOfSeq
<1>4. \A i \in 1 .. Len(OffList) : Light(OffList[i], 0) \in Commands /\ Light(OffList[i], 0).cmd = 0
  BY <1>3, LightTypes
<1>5. todo \in [1 .. Len(OffList) -> Commands]
  BY <1>3, <1>4
<1>6. todo \in Seq(Commands) /\ Len(todo) = Len(OffList)
  BY <1>3, <1>5
<1>7. \A i \in 1 .. Len(todo) : todo[i].cmd = 0
  BY <1>3, <1>4, <1>6
<1>8. \A i \in 1 .. Len(todo) : May(f, todo[i])
  BY <1>1, <1>7 DEF May
<1> HIDE DEF todo
<1>9. f.kind \in {"motion", "door", "press"} /\ f.kind # "motion"
  BY <1>1
<1>10. /\ JobsType'
       /\ job'[w] = IF todo = <<>> THEN Idle
                    ELSE [pc |-> "switch", frame |-> job[w].frame, todo |-> todo]
       /\ \A v \in Workers \ {w} : job'[v] = job[v]
  BY <1>1, <1>6, <1>8, <1>9, Switches
<1> QED
  BY <1>1, <1>10 DEF Stay

\* A command is sent; the next one of the list is its turn.
LEMMA Sent ==
    ASSUME TypeInv, NEW w \in Workers, Send(w)
    PROVE  LET todo == job[w].todo IN
           /\ JobsType' /\ Stay(w) /\ job[w].pc = "switch"
           /\ Head(todo) \in Commands /\ May(job[w].frame, Head(todo))
           /\ IF Tail(todo) = <<>> THEN job'[w] = Idle ELSE Tells(w, job[w].frame, Tail(todo))
<1> DEFINE todo == job[w].todo
<1>1. /\ job[w].pc = "switch" /\ job[w].frame \in Frames
      /\ todo \in Seq(Commands) /\ todo # <<>>
      /\ job[w].frame.kind \in {"motion", "door", "press"}
      /\ job[w].frame.kind = "motion" => job[w].frame.of \in {"corridor", "hall", "kitchen"}
      /\ \A i \in 1 .. Len(todo) : May(job[w].frame, todo[i])
  BY AtSwitch DEF Send
<1>2. Switch(w, Tail(todo))
  BY DEF Send
<1> HIDE DEF todo
<1>3. /\ Head(todo) \in Commands /\ Head(todo) = todo[1] /\ 1 \in 1 .. Len(todo)
      /\ Tail(todo) \in Seq(Commands) /\ Len(Tail(todo)) = Len(todo) - 1
      /\ \A i \in 1 .. Len(Tail(todo)) : Tail(todo)[i] = todo[i + 1]
  BY <1>1, HeadTailProperties, EmptySeq, LenProperties
<1>4. Len(todo) \in Nat
  BY <1>1, LenProperties
<1>5. \A i \in 1 .. Len(Tail(todo)) : May(job[w].frame, Tail(todo)[i])
  <2>1. \A i \in 1 .. Len(Tail(todo)) : i + 1 \in 1 .. Len(todo)
    BY <1>3, <1>4
  <2> QED
    BY <1>1, <1>3, <2>1
<1>6. /\ JobsType'
      /\ job'[w] = IF Tail(todo) = <<>> THEN Idle
                   ELSE [pc |-> "switch", frame |-> job[w].frame, todo |-> Tail(todo)]
      /\ \A v \in Workers \ {w} : job'[v] = job[v]
  BY <1>1, <1>2, <1>3, <1>5, Switches
<1>7. May(job[w].frame, Head(todo))
  BY <1>1, <1>3
<1>8. Stay(w) /\ IF Tail(todo) = <<>> THEN job'[w] = Idle ELSE Tells(w, job[w].frame, Tail(todo))
  BY <1>6 DEF Stay, Tells, Idle
<1> QED
  BY <1>1, <1>3, <1>6, <1>7, <1>8 DEF todo

\* A frame is taken.
LEMMA Taken ==
    ASSUME TypeInv, NEW w \in Workers, Take(w)
    PROVE  /\ JobsType' /\ Stay(w) /\ job[w].pc = "idle"
           /\ Head(pool) \in Frames /\ pool' \in Seq(Frames)
           /\ job'[w].pc = "enter" /\ job'[w].frame = Head(pool)
<1>1. Head(pool) \in Frames /\ pool' \in Seq(Frames)
  BY HeadTailProperties DEF Take, TypeInv
<1>2. job' = [job EXCEPT ![w] = [pc |-> "enter", frame |-> Head(pool)]]
  BY DEF Take
<1>3. job'[w] = [pc |-> "enter", frame |-> Head(pool)] /\ Stay(w)
  BY <1>2, OneMoves DEF Stay
<1>4. [pc |-> "enter", frame |-> Head(pool)] \in Entered
  BY <1>1 DEF Entered
<1>5. JobType(w)'
  BY <1>3, <1>4 DEF JobType
<1>6. JobsType'
  BY <1>2, <1>5, JobsKept
<1> QED
  BY <1>1, <1>3, <1>6 DEF Take, Busy

LEMMA Finishes ==
    ASSUME TypeInv, NEW w \in Workers, Finish(w)
    PROVE  JobsType' /\ Stay(w) /\ job'[w] = Idle
<1>1. job' = [job EXCEPT ![w] = Idle]
  BY DEF Finish
<1>2. job'[w] = Idle /\ Stay(w)
  BY <1>1, OneMoves DEF Stay
<1>3. JobType(w)'
  BY <1>2 DEF JobType
<1> QED
  BY <1>1, <1>2, <1>3, JobsKept

\* A sensor's state is stored.
LEMMA Moves ==
    ASSUME TypeInv, NEW w \in Workers, Motion(w)
    PROVE  LET f == job[w].frame IN
           /\ JobsType' /\ Stay(w) /\ job[w].pc = "enter"
           /\ f \in MotionFrames /\ HasDevice(f) /\ motion' = [motion EXCEPT ![f.of] = f.cmd]
           /\ job'[w].pc = CASE f.of = "corridor" -> "decide"
                             [] f.of \in {"hall", "kitchen"} -> "look"
                             [] f.of = "ikea" -> "asleep"
           /\ job'[w].frame = f /\ job'[w].before = motion[f.of]
<1> DEFINE f == job[w].frame
           p == CASE f.of = "corridor" -> "decide"
                  [] f.of \in {"hall", "kitchen"} -> "look"
                  [] f.of = "ikea" -> "asleep"
           j == [pc |-> p, frame |-> f, before |-> motion[f.of]]
<1>1. f \in Frames /\ f.kind = "motion" /\ f \in MotionFrames /\ f.of \in Motions
  BY AtEnter, FrameFields DEF Motion
<1>2. job' = [job EXCEPT ![w] = j] /\ motion' = [motion EXCEPT ![f.of] = f.cmd]
      /\ HasDevice(f) /\ job[w].pc = "enter"
  BY DEF Motion
<1>3. job'[w] = j /\ Stay(w)
  BY <1>2, OneMoves DEF Stay
<1>4. j \in Moved /\ j.pc = p /\ j.frame = f /\ j.before = motion[f.of]
  <2>1. p \in {"decide", "look", "asleep"}
    BY <1>1 DEF Motions
  <2>2. motion[f.of] \in States
    BY <1>1 DEF TypeInv
  <2> QED
    BY <1>1, <2>1, <2>2 DEF Moved
<1>5. /\ p = "decide" => f.of = "corridor"
      /\ p = "look" => f.of \in {"hall", "kitchen"}
      /\ p = "asleep" => f.of = "ikea"
  BY <1>1 DEF Motions
<1> HIDE DEF j, p
<1>6. JobType(w)'
  BY <1>3, <1>4, <1>5 DEF JobType
<1>7. JobsType'
  BY <1>2, <1>6, JobsKept
<1> QED
  BY <1>1, <1>2, <1>3, <1>4, <1>7 DEF p

\* The relay of a rule.
RelayOf(f) == IF f.of = "kitchen" THEN "kitchen" ELSE "corridor"

\* A relay's state is read, or there is no relay.
LEMMA Looks ==
    ASSUME TypeInv, NEW w \in Workers, Look(w)
    PROVE  LET f == job[w].frame IN
           /\ JobsType' /\ Stay(w) /\ job[w].pc = "look"
           /\ f \in MotionFrames /\ f.of \in {"hall", "kitchen"}
           /\ \/ /\ ~HasRelay(RelayOf(f)) /\ job' = job
                 /\ disordered' = disordered
              \/ /\ job'[w].pc = "decide" /\ job'[w].frame = f
                 /\ job'[w].before = job[w].before
                 /\ job'[w].relay = known[RelayOf(f)] /\ crashed' = crashed
                 /\ disordered' = (disordered \/ (known[RelayOf(f)] # Unknown /\ OutOfDate(RelayOf(f))))
<1> DEFINE f == job[w].frame
           j == [pc |-> "decide", frame |-> f, before |-> job[w].before,
                 relay |-> known[RelayOf(f)]]
<1>1. f \in MotionFrames /\ f.of \in {"hall", "kitchen"} /\ job[w].before \in States
  BY AtLook DEF Look
<1>2. CASE ~HasRelay(RelayOf(f))
  <2>1. job' = job /\ disordered' = disordered /\ job[w].pc = "look"
    BY <1>2 DEF Look, RelayOf
  <2>2. JobsType'
    BY <2>1 DEF TypeInv, JobsType, JobType
  <2> QED
    BY <1>1, <1>2, <2>1, <2>2 DEF Stay
<1>3. CASE HasRelay(RelayOf(f))
  <2>1. /\ job' = [job EXCEPT ![w] = j] /\ crashed' = crashed /\ job[w].pc = "look"
        /\ disordered' = (disordered \/ (known[RelayOf(f)] # Unknown /\ OutOfDate(RelayOf(f))))
    BY <1>3 DEF Look, RelayOf
  <2>2. job'[w] = j /\ Stay(w)
    BY <2>1, OneMoves DEF Stay
  <2>3. j \in Looked /\ j.pc = "decide" /\ j.frame = f /\ j.before = job[w].before
        /\ j.relay = known[RelayOf(f)]
    BY <1>1 DEF Looked, TypeInv, RelayOf, Lights
  <2> HIDE DEF j
  <2>4. JobType(w)'
    BY <1>1, <2>2, <2>3 DEF JobType
  <2>5. JobsType'
    BY <2>1, <2>4, JobsKept
  <2> QED
    BY <1>1, <2>1, <2>2, <2>3, <2>5
<1> QED
  BY <1>2, <1>3

LEMMA TypeInit == Init => TypeInv
<1> SUFFICES ASSUME Init PROVE TypeInv
  OBVIOUS
<1>1. job = [w \in Workers |-> Idle] /\ \A w \in Workers : job[w] = Idle
  BY DEF Init
<1>2. /\ motion \in [Motions -> States] /\ known \in [Lights -> States]
      /\ lamp \in [Lights -> {0, 1}] /\ presence \in [{"corridor", "hall"} -> {0, 1}]
      /\ luminocity \in States
  BY DEF Init, States
<1>3. registered \subseteq Absentees
  BY LightAssumption DEF Init
<1>4. pool \in Seq(Frames) /\ line \in Seq(Commands) /\ reports \in Nat
  BY DEF Init
<1>5. job = [w \in Workers |-> job[w]] /\ \A w \in Workers : JobType(w)
  BY <1>1 DEF JobType
<1>6. /\ crashed \in BOOLEAN /\ disordered \in BOOLEAN /\ crossed \in BOOLEAN
      /\ dark \in BOOLEAN
  BY DEF Init
<1> QED
  BY <1>2, <1>3, <1>4, <1>5, <1>6 DEF TypeInv

LEMMA TypeStep == TypeInv /\ [Next]_vars => TypeInv'
<1> SUFFICES ASSUME TypeInv, [Next]_vars PROVE TypeInv'
  OBVIOUS
<1>0. JobsType
  BY DEF TypeInv, JobsType
<1>s. ASSUME UNCHANGED job PROVE JobsType'
  BY <1>0, <1>s DEF JobsType, JobType
<1>1. ASSUME NEW s \in Motions, NEW v \in {0, 1}, Sense(s, v) PROVE TypeInv'
  <2>1. [kind |-> "motion", of |-> s, cmd |-> v] \in Frames
    BY DEF Frames
  <2>2. pool' \in Seq(Frames)
    BY <1>1, <2>1, AppendProperties DEF Sense, TypeInv
  <2>3. reports' \in Nat
    <3>1. Weight(s) \in Nat
      BY LightAssumption
    <3> QED
      BY <1>1, <3>1 DEF Sense, TypeInv
  <2>4. presence' \in [{"corridor", "hall"} -> {0, 1}]
    BY <1>1 DEF Sense, TypeInv
  <2> QED
    BY <1>1, <1>s, <2>2, <2>3, <2>4 DEF Sense, TypeInv, JobsType, house, history
<1>2. ASSUME NEW f \in Frames, Signal(f) PROVE TypeInv'
  <2>2. pool' \in Seq(Frames)
    BY <1>2, AppendProperties DEF Signal, TypeInv
  <2>3. reports' \in Nat
    <3>1. Weight(f.kind) \in Nat
      BY <1>2, LightAssumption DEF Signal
    <3> QED
      BY <1>2, <3>1 DEF Signal, TypeInv
  <2> QED
    BY <1>2, <1>s, <2>2, <2>3 DEF Signal, TypeInv, JobsType, house, history
<1>3. ASSUME Obey PROVE TypeInv'
  <2>1. Head(line) \in Commands /\ line' \in Seq(Commands)
    BY <1>3, HeadTailProperties DEF Obey, TypeInv
  <2>2. [kind |-> "relay", of |-> Head(line).to, cmd |-> Head(line).cmd] \in Frames
    BY <2>1 DEF Frames, Commands
  <2>3. pool' \in Seq(Frames)
    BY <1>3, <2>2, AppendProperties DEF Obey, TypeInv
  <2>4. lamp' \in [Lights -> {0, 1}]
    BY <1>3, <2>1 DEF Obey, TypeInv, Commands
  <2> QED
    BY <1>3, <1>s, <2>1, <2>3, <2>4 DEF Obey, TypeInv, JobsType, house, history
<1>4. ASSUME Lose PROVE TypeInv'
  <2>1. Head(line) \in Commands /\ line' \in Seq(Commands)
    BY <1>4, HeadTailProperties DEF Lose, TypeInv
  <2>4. lamp' \in [Lights -> {0, 1}]
    BY <1>4, <2>1 DEF Lose, TypeInv, Commands
  <2> QED
    BY <1>4, <1>s, <2>1, <2>4 DEF Lose, TypeInv, JobsType, house, history
<1>5. ASSUME NEW w \in Workers, Take(w) PROVE TypeInv'
  <2>1. disordered' \in BOOLEAN /\ crossed' \in BOOLEAN
    BY <1>5 DEF Take, TypeInv
  <2> QED
    BY <1>5, <2>1, Taken DEF Take, TypeInv, JobsType, house, world
<1>6. ASSUME NEW w \in Workers, Drop(w) PROVE TypeInv'
  BY <1>6, Finishes DEF Drop, TypeInv, JobsType, house, world, history
<1>7. ASSUME NEW w \in Workers, Motion(w) PROVE TypeInv'
  <2>1. motion' \in [Motions -> States] /\ JobsType'
    <3>1. job[w].frame.of \in Motions /\ job[w].frame.cmd \in States
      BY <1>7, Moves, FrameSources DEF States
    <3> QED
      BY <1>7, <3>1, Moves DEF TypeInv
  <2> QED
    BY <1>7, <2>1 DEF Motion, TypeInv, JobsType, world, history
<1>8. ASSUME NEW w \in Workers, Wake(w) PROVE TypeInv'
  <2>1. motion' \in [Motions -> States]
    BY <1>8 DEF Wake, TypeInv, States
  <2> QED
    BY <1>8, <2>1, Finishes DEF Wake, TypeInv, JobsType, world, history
<1>9. ASSUME NEW w \in Workers, Look(w) PROVE TypeInv'
  <2>1. JobsType'
    BY <1>9, Looks
  <2>2. disordered' \in BOOLEAN /\ crashed' \in BOOLEAN
    BY <1>9 DEF Look, TypeInv
  <2> QED
    BY <1>9, <2>1, <2>2 DEF Look, TypeInv, JobsType, world
<1>10. ASSUME NEW w \in Workers, Corridor(w) PROVE TypeInv'
  <2>1. JobsType'
    BY <1>10, CorridorDecides
  <2>2. dark' \in BOOLEAN
    BY <1>10 DEF Corridor
  <2> QED
    BY <1>10, <2>1, <2>2 DEF Corridor, TypeInv, JobsType, house, world
<1>11. ASSUME NEW w \in Workers, Hall(w) PROVE TypeInv'
  <2>1. JobsType'
    BY <1>11, HallDecides
  <2> QED
    BY <1>11, <2>1 DEF Hall, TypeInv, JobsType, house, world, history
<1>12. ASSUME NEW w \in Workers, Kitchen(w) PROVE TypeInv'
  <2>1. JobsType'
    BY <1>12, KitchenDecides
  <2> QED
    BY <1>12, <2>1 DEF Kitchen, TypeInv, JobsType, house, world, history
<1>13. ASSUME NEW w \in Workers, Door(w) PROVE TypeInv'
  BY <1>13, DoorDecides DEF Door, TypeInv, JobsType, house, world, history
<1>14. ASSUME NEW w \in Workers, Press(w) PROVE TypeInv'
  BY <1>14, PressDecides DEF Press, TypeInv, JobsType, house, world
<1>15. ASSUME NEW w \in Workers, RelayReport(w) PROVE TypeInv'
  <2>1. job[w].frame.of \in Lights /\ job[w].frame.cmd \in States
    BY <1>15, AtEnter, FrameFields DEF RelayReport, States
  <2>2. known' \in [Lights -> States]
    BY <1>15, <2>1 DEF RelayReport, TypeInv
  <2>3. JobsType'
    BY <1>15, Finishes DEF RelayReport
  <2> QED
    BY <1>15, <2>2, <2>3 DEF RelayReport, TypeInv, JobsType, world, history
<1>16. ASSUME NEW w \in Workers, LightReport(w) PROVE TypeInv'
  <2>1. luminocity' \in States
    BY <1>16, AtEnter, FrameFields DEF LightReport, States
  <2>2. JobsType'
    BY <1>16, Finishes DEF LightReport
  <2> QED
    BY <1>16, <2>1, <2>2 DEF LightReport, TypeInv, JobsType, world, history
<1>17. ASSUME NEW w \in Workers, Send(w) PROVE TypeInv'
  <2>1. JobsType' /\ Head(job[w].todo) \in Commands
    BY <1>17, Sent
  <2>2. line' \in Seq(Commands)
    BY <1>17, <2>1, AppendProperties DEF Send, TypeInv
  <2> QED
    BY <1>17, <2>1, <2>2 DEF Send, TypeInv, JobsType, house, world, history
<1>18. ASSUME UNCHANGED vars PROVE TypeInv'
  BY <1>18, <1>s DEF vars, TypeInv, JobsType, house, world, history
<1> QED
  BY <1>1, <1>2, <1>3, <1>4, <1>5, <1>6, <1>7, <1>8, <1>9, <1>10, <1>11, <1>12, <1>13,
     <1>14, <1>15, <1>16, <1>17, <1>18, StepCases

\* Every variable keeps its type: a rule tells its own relay, and no other.
THEOREM TypeCorrect == Spec => []TypeInv
BY TypeInit, TypeStep, PTL DEF Spec

-----------------------------------------------------------------------------
(* What a relay will be when the commands on their way have come.          *)

WillBe(r, v) ==
    \/ lamp[r] = v /\ \A i \in 1 .. Len(line) : line[i].to # r
    \/ \E i \in 1 .. Len(line) :
          /\ line[i].to = r /\ line[i].cmd = v
          /\ \A k \in (i + 1) .. Len(line) : line[k].to # r

LEMMA WillBeSent ==
    ASSUME line \in Seq(Commands), NEW c \in Commands, line' = Append(line, c), lamp' = lamp,
           NEW r, NEW v
    PROVE  /\ c.to = r /\ c.cmd = v => WillBe(r, v)'
           /\ c.to # r /\ WillBe(r, v) => WillBe(r, v)'
<1>1. /\ Len(line) \in Nat /\ Len(line') = Len(line) + 1
      /\ \A i \in 1 .. Len(line) : line'[i] = line[i]
      /\ line'[Len(line) + 1] = c
  BY AppendProperties, LenProperties
<1> DEFINE n == Len(line)
<1>2. n \in Nat /\ Len(line') = n + 1 /\ line'[n + 1] = c /\ \A i \in 1 .. n : line'[i] = line[i]
  BY <1>1
<1> HIDE DEF n
<1>3. ASSUME c.to = r, c.cmd = v PROVE WillBe(r, v)'
  <2>1. n + 1 \in 1 .. Len(line') /\ \A k \in ((n + 1) + 1) .. Len(line') : FALSE
    BY <1>2
  <2> QED
    BY <1>2, <1>3, <2>1 DEF WillBe
<1>4. ASSUME c.to # r, WillBe(r, v) PROVE WillBe(r, v)'
  <2>1. \A k \in 1 .. Len(line') : k \in 1 .. n \/ k = n + 1
    BY <1>2
  <2>2. CASE lamp[r] = v /\ \A i \in 1 .. n : line[i].to # r
    BY <1>2, <1>4, <2>1, <2>2 DEF WillBe
  <2>3. ASSUME NEW i \in 1 .. n, line[i].to = r, line[i].cmd = v,
               \A k \in (i + 1) .. n : line[k].to # r
        PROVE  WillBe(r, v)'
    <3>1. i \in 1 .. Len(line') /\ line'[i] = line[i]
      BY <1>2
    <3>2. ASSUME NEW k \in (i + 1) .. Len(line') PROVE line'[k].to # r
      <4>1. (k \in (i + 1) .. n /\ k \in 1 .. n) \/ k = n + 1
        BY <1>2
      <4> QED
        BY <1>2, <1>4, <2>3, <4>1
    <3> QED
      BY <2>3, <3>1, <3>2 DEF WillBe
  <2> QED
    BY <1>4, <2>2, <2>3 DEF WillBe, n
<1> QED
  BY <1>3, <1>4

LEMMA WillBeObeyed ==
    ASSUME TypeInv, Obey, NEW r \in Lights, NEW v, WillBe(r, v)
    PROVE  WillBe(r, v)'
<1> DEFINE c == Head(line)
           n == Len(line)
<1>1. line \in Seq(Commands) /\ line # <<>>
  BY DEF TypeInv, Obey
<1>2. /\ c \in Commands /\ c = line[1] /\ n \in Nat \ {0} /\ line' = Tail(line)
      /\ Len(line') = n - 1 /\ \A i \in 1 .. Len(line') : line'[i] = line[i + 1]
  BY <1>1, HeadTailProperties, LenProperties, EmptySeq DEF Obey
<1>3. lamp' = [lamp EXCEPT ![c.to] = c.cmd]
  BY DEF Obey
<1>4. lamp'[r] = IF r = c.to THEN c.cmd ELSE lamp[r]
  BY <1>2, <1>3 DEF TypeInv, Commands
<1> HIDE DEF c
<1>5. CASE lamp[r] = v /\ \A i \in 1 .. n : line[i].to # r
  <2>1. c.to # r
    BY <1>2, <1>5
  <2>2. \A i \in 1 .. Len(line') : i + 1 \in 1 .. n
    BY <1>2
  <2> QED
    BY <1>2, <1>4, <1>5, <2>1, <2>2 DEF WillBe
<1>6. ASSUME NEW i \in 1 .. n, line[i].to = r, line[i].cmd = v,
             \A k \in (i + 1) .. n : line[k].to # r
      PROVE  WillBe(r, v)'
  <2>1. CASE i = 1
    <3>1. \A k \in 1 .. Len(line') : k + 1 \in (i + 1) .. n
      BY <1>2, <2>1
    <3> QED
      BY <1>2, <1>4, <1>6, <2>1, <3>1 DEF WillBe
  <2>2. CASE i # 1
    <3>1. i - 1 \in 1 .. Len(line') /\ (i - 1) + 1 = i
      BY <1>2, <2>2
    <3>2. line'[i - 1] = line[i]
      BY <1>2, <3>1
    <3>3. \A k \in ((i - 1) + 1) .. Len(line') : k \in 1 .. Len(line') /\ k + 1 \in (i + 1) .. n
      BY <1>2, <3>1
    <3>4. \A k \in ((i - 1) + 1) .. Len(line') : line'[k].to # r
      BY <1>2, <1>6, <3>3
    <3> QED
      BY <1>6, <3>1, <3>2, <3>4 DEF WillBe
  <2> QED
    BY <2>1, <2>2
<1> QED
  BY <1>5, <1>6 DEF WillBe, n

\* Nothing on the way: the relay is what it will be.
LEMMA WillBeSettled == \A r \in Lights, v \in {0, 1} : line = <<>> /\ WillBe(r, v) => lamp[r] = v
BY DEF WillBe

-----------------------------------------------------------------------------
(* One rule at a time.                                                     *)

Ruled == {"corridor", "hall", "kitchen"}
\* Worker w has a report of sensor s, and has stored it.
Moving(w, s) == Busy(w) /\ job[w].frame.kind = "motion" /\ job[w].frame.of = s
Rules(w, s) == Moving(w, s) /\ job[w].pc # "enter"

Alone(s) == \A v, w \in Workers : Moving(v, s) /\ Moving(w, s) => v = w
Follows(s) == \A w \in Workers : Rules(w, s) => motion[s] = job[w].frame.cmd

\* While frames of a source are handled one after the other, or rules run one at a time, the
\* sensor's state is the one of the report whose rule runs.
Order ==
    /\ ~crossed => \A v, w \in Workers : InRule(v) /\ InRule(w) => v = w
    /\ ~disordered => \A s \in Ruled : Alone(s)
    /\ ~disordered \/ ~crossed => \A s \in Ruled : Follows(s)
    /\ \A w \in Workers : job[w].pc = "switch" /\ job[w].frame.kind = "press" => crossed
    /\ motion["corridor"] # Unknown => "corridor" \in registered

OrderInv == TypeInv /\ Order

\* Apart from the one that takes a frame every worker goes on with its own; one that is
\* asleep does not go back to a rule, a rule begins with the sensor's state, the button is
\* noticed, and the hall's relay is switched when the hall's rule says so.
Keeps(w) ==
    Busy(w)' =>
        /\ Busy(w) /\ job'[w].frame = job[w].frame
        /\ job[w].pc # "enter" => job'[w].pc # "enter"
        /\ job[w].pc = "asleep" => job'[w].pc = "asleep"
        /\ job[w].pc = "enter" /\ job'[w].pc # "enter" /\ job[w].frame.kind = "motion" => Motion(w)
        /\ job[w].pc # "switch" /\ job'[w].pc = "switch" =>
              /\ job[w].frame.kind = "press" => crossed'
              /\ job[w].frame.kind = "motion" /\ job[w].frame.of = "hall" => Hall(w)

LEMMA AtAsleep ==
    ASSUME TypeInv, NEW w \in Workers, job[w].pc = "asleep"
    PROVE  job[w].frame.of = "ikea"
<1>1. JobType(w)
  BY DEF TypeInv
<1>2. job[w] # Idle /\ job[w] \notin Entered /\ job[w] \notin Looked /\ job[w] \notin Switching
  BY DEF Idle, Entered, Looked, Switching
<1> QED
  BY <1>1, <1>2 DEF JobType

LEMMA KeepsFrames ==
    ASSUME TypeInv, [Next]_vars, \A w \in Workers : ~Take(w)
    PROVE  \A w \in Workers : Keeps(w)
<1> DEFINE P == \A w \in Workers : Keeps(w)
<1>i. Idle.pc = "idle"
  BY DEF Idle
<1>s. ASSUME UNCHANGED job PROVE P
  BY <1>s DEF Keeps, Busy
\* Worker w goes on with its frame, or is done.
<1>g. ASSUME NEW w \in Workers, Stay(w), Keeps(w) PROVE P
  BY <1>g DEF Keeps, Busy, Stay
<1>1. ASSUME NEW s \in Motions, NEW v \in {0, 1}, Sense(s, v) PROVE P
  BY <1>1, <1>s DEF Sense
<1>2. ASSUME NEW f \in Frames, Signal(f) PROVE P
  BY <1>2, <1>s DEF Signal
<1>3. ASSUME Obey \/ Lose PROVE P
  BY <1>3, <1>s DEF Obey, Lose
<1>f. ASSUME NEW w \in Workers, Finish(w) PROVE P
  <2>1. Stay(w) /\ job'[w] = Idle
    BY <1>f, Finishes
  <2> QED
    BY <1>g, <1>i, <2>1 DEF Keeps, Busy
<1>6. ASSUME NEW w \in Workers, Drop(w) \/ Wake(w) \/ RelayReport(w) \/ LightReport(w) PROVE P
  BY <1>6, <1>f DEF Drop, Wake, RelayReport, LightReport
<1>7. ASSUME NEW w \in Workers, Motion(w) PROVE P
  <2>1. /\ Stay(w) /\ job[w].pc = "enter" /\ job'[w].frame = job[w].frame
        /\ job[w].frame.kind = "motion" /\ job'[w].pc # "switch"
    BY <1>7, Moves, FrameSources DEF Motions
  <2> QED
    BY <1>7, <1>g, <2>1 DEF Keeps, Busy
<1>9. ASSUME NEW w \in Workers, Look(w) PROVE P
  <2>1. /\ Stay(w) /\ job[w].pc = "look"
        /\ job' = job \/ (job'[w].pc = "decide" /\ job'[w].frame = job[w].frame)
    BY <1>9, Looks
  <2> QED
    BY <1>g, <1>s, <2>1 DEF Keeps, Busy
<1>t. ASSUME NEW w \in Workers, Stay(w),
             job'[w] = Idle \/ (job'[w].pc = "switch" /\ job'[w].frame = job[w].frame),
             \/ job[w].pc = "decide" /\ job[w].frame.kind = "motion"
             \/ job[w].pc = "enter" /\ job[w].frame.kind = "door"
             \/ job[w].pc = "enter" /\ job[w].frame.kind = "press" /\ crossed',
             job[w].frame.kind = "motion" /\ job[w].frame.of = "hall" => Hall(w)
      PROVE  P
  BY <1>t, <1>g, <1>i DEF Keeps, Busy
<1>10. ASSUME NEW w \in Workers, Corridor(w) PROVE P
  BY <1>10, <1>t, CorridorDecides, FrameSources DEF Tells
<1>11. ASSUME NEW w \in Workers, Hall(w) PROVE P
  BY <1>11, <1>t, HallDecides, FrameSources DEF Tells
<1>12. ASSUME NEW w \in Workers, Kitchen(w) PROVE P
  BY <1>12, <1>t, KitchenDecides, FrameSources DEF Tells
<1>13. ASSUME NEW w \in Workers, Door(w) PROVE P
  BY <1>13, <1>t, DoorDecides
<1>14. ASSUME NEW w \in Workers, Press(w) PROVE P
  BY <1>14, <1>t, PressDecides
<1>17. ASSUME NEW w \in Workers, Send(w) PROVE P
  <2>1. Stay(w) /\ job[w].pc = "switch"
        /\ (job'[w] = Idle \/ (job'[w].pc = "switch" /\ job'[w].frame = job[w].frame))
    BY <1>17, Sent DEF Tells
  <2> QED
    BY <1>g, <1>i, <2>1 DEF Keeps, Busy
<1>18. ASSUME UNCHANGED vars PROVE P
  BY <1>18, <1>s DEF vars
<1> HIDE DEF P
<1>19. P
  BY <1>1, <1>2, <1>3, <1>6, <1>7, <1>9, <1>10, <1>11, <1>12, <1>13, <1>14, <1>17, <1>18,
     StepCases
<1> QED
  BY <1>19 DEF P

\* What went wrong stays wrong.
LEMMA Remembered ==
    ASSUME TypeInv, [Next]_vars
    PROVE  (disordered => disordered') /\ (crossed => crossed')
<1> DEFINE P == (disordered => disordered') /\ (crossed => crossed')
<1> USE DEF history
<1>1. ASSUME NEW s \in Motions, NEW v \in {0, 1}, Sense(s, v) PROVE P
  BY <1>1 DEF Sense
<1>2. ASSUME NEW f \in Frames, Signal(f) PROVE P
  BY <1>2 DEF Signal
<1>3. ASSUME Obey \/ Lose PROVE P
  BY <1>3 DEF Obey, Lose
<1>5. ASSUME NEW w \in Workers, Take(w) PROVE P
  BY <1>5 DEF Take
<1>6. ASSUME NEW w \in Workers, Drop(w) \/ Wake(w) \/ RelayReport(w) \/ LightReport(w) PROVE P
  BY <1>6 DEF Drop, Wake, RelayReport, LightReport
<1>7. ASSUME NEW w \in Workers, Motion(w) PROVE P
  BY <1>7 DEF Motion
<1>9. ASSUME NEW w \in Workers, Look(w) PROVE P
  BY <1>9 DEF Look
<1>10. ASSUME NEW w \in Workers, Corridor(w) PROVE P
  BY <1>10 DEF Corridor
<1>11. ASSUME NEW w \in Workers, Hall(w) PROVE P
  BY <1>11 DEF Hall
<1>12. ASSUME NEW w \in Workers, Kitchen(w) PROVE P
  BY <1>12 DEF Kitchen
<1>13. ASSUME NEW w \in Workers, Door(w) PROVE P
  BY <1>13 DEF Door
<1>14. ASSUME NEW w \in Workers, Press(w) PROVE P
  BY <1>14 DEF Press
<1>17. ASSUME NEW w \in Workers, Send(w) PROVE P
  BY <1>17 DEF Send
<1>18. ASSUME UNCHANGED vars PROVE P
  BY <1>18 DEF vars
<1> HIDE DEF P
<1>19. P
  BY <1>1, <1>2, <1>3, <1>5, <1>6, <1>7, <1>9, <1>10, <1>11, <1>12, <1>13, <1>14, <1>17,
     <1>18, StepCases
<1> QED
  BY <1>19 DEF P

\* The state of a sensor changes when its report is handled, and only then; what is
\* registered does not change.
LEMMA MotionChanges ==
    ASSUME TypeInv, [Next]_vars, NEW s \in Ruled
    PROVE  /\ motion'[s] = motion[s] \/ \E w \in Workers : Motion(w) /\ job[w].frame.of = s
           /\ registered' = registered
<1> DEFINE P == /\ motion'[s] = motion[s] \/ \E w \in Workers : Motion(w) /\ job[w].frame.of = s
                /\ registered' = registered
<1> USE DEF house
<1>1. ASSUME NEW x \in Motions, NEW v \in {0, 1}, Sense(x, v) PROVE P
  BY <1>1 DEF Sense
<1>2. ASSUME NEW f \in Frames, Signal(f) PROVE P
  BY <1>2 DEF Signal
<1>3. ASSUME Obey \/ Lose PROVE P
  BY <1>3 DEF Obey, Lose
<1>5. ASSUME NEW w \in Workers, Take(w) PROVE P
  BY <1>5 DEF Take
<1>6. ASSUME NEW w \in Workers, Drop(w) \/ RelayReport(w) \/ LightReport(w) PROVE P
  BY <1>6 DEF Drop, RelayReport, LightReport
<1>7. ASSUME NEW w \in Workers, Motion(w) PROVE P
  <2>1. motion' = [motion EXCEPT ![job[w].frame.of] = job[w].frame.cmd] /\ registered' = registered
    BY <1>7 DEF Motion
  <2>2. s \in DOMAIN motion
    BY DEF TypeInv, Ruled, Motions
  <2> QED
    BY <1>7, <2>1, <2>2
<1>8. ASSUME NEW w \in Workers, Wake(w) PROVE P
  <2>1. s # "ikea"
    BY DEF Ruled
  <2> QED
    BY <1>8, <2>1 DEF Wake, TypeInv
<1>9. ASSUME NEW w \in Workers, Look(w) PROVE P
  BY <1>9 DEF Look
<1>10. ASSUME NEW w \in Workers, Corridor(w) PROVE P
  BY <1>10 DEF Corridor
<1>11. ASSUME NEW w \in Workers, Hall(w) PROVE P
  BY <1>11 DEF Hall
<1>12. ASSUME NEW w \in Workers, Kitchen(w) PROVE P
  BY <1>12 DEF Kitchen
<1>13. ASSUME NEW w \in Workers, Door(w) PROVE P
  BY <1>13 DEF Door
<1>14. ASSUME NEW w \in Workers, Press(w) PROVE P
  BY <1>14 DEF Press
<1>17. ASSUME NEW w \in Workers, Send(w) PROVE P
  BY <1>17 DEF Send
<1>18. ASSUME UNCHANGED vars PROVE P
  BY <1>18 DEF vars
<1> HIDE DEF P
<1>19. P
  BY <1>1, <1>2, <1>3, <1>5, <1>6, <1>7, <1>8, <1>9, <1>10, <1>11, <1>12, <1>13, <1>14,
     <1>17, <1>18, StepCases
<1> QED
  BY <1>19 DEF P

\* A rule that runs after a step ran before it, or has just begun.
LEMMA RulesGoOn ==
    ASSUME TypeInv, [Next]_vars, NEW w \in Workers, NEW s, Rules(w, s)'
    PROVE  job'[w].frame = job[w].frame /\ (Rules(w, s) \/ Motion(w))
<1>1. ASSUME NEW v \in Workers, Take(v) PROVE job' [w] = job[w]
  <2>1. job'[v].pc = "enter" /\ Stay(v)
    BY <1>1, Taken
  <2> QED
    BY <2>1 DEF Stay, Rules
<1>2. CASE \E v \in Workers : Take(v)
  BY <1>1, <1>2 DEF Rules, Moving, Busy
<1>3. CASE \A v \in Workers : ~Take(v)
  <2>1. Keeps(w)
    BY <1>3, KeepsFrames
  <2> QED
    BY <2>1 DEF Keeps, Rules, Moving
<1> QED
  BY <1>2, <1>3

LEMMA FollowsStep ==
    ASSUME TypeInv, [Next]_vars, NEW s \in Ruled, Alone(s), Follows(s)
    PROVE  Follows(s)'
<1> SUFFICES ASSUME NEW w \in Workers, Rules(w, s)' PROVE motion'[s] = job'[w].frame.cmd
  BY DEF Follows
<1>1. job'[w].frame = job[w].frame /\ (Rules(w, s) \/ Motion(w))
  BY RulesGoOn
<1>2. job[w].frame.of = s
  BY <1>1 DEF Rules, Moving
<1>3. CASE Motion(w)
  <2>1. motion' = [motion EXCEPT ![s] = job[w].frame.cmd]
    BY <1>2, <1>3, Moves
  <2> QED
    BY <1>1, <2>1 DEF TypeInv, Ruled, Motions
<1>4. CASE Rules(w, s) /\ ~Motion(w)
  <2>1. ASSUME NEW v \in Workers, Motion(v), job[v].frame.of = s PROVE FALSE
    <3>1. Moving(v, s)
      BY <2>1, Moves, FrameSources DEF Moving, Busy
    <3>2. v = w
      BY <1>4, <3>1 DEF Alone, Rules
    <3> QED
      BY <1>4, <2>1, <3>2
  <2>2. motion'[s] = motion[s]
    BY <2>1, MotionChanges
  <2> QED
    BY <1>1, <1>4, <2>2 DEF Follows
<1> QED
  BY <1>1, <1>3, <1>4

LEMMA OrderInit == Init => OrderInv
<1> SUFFICES ASSUME Init PROVE OrderInv
  OBVIOUS
<1>1. \A w \in Workers : ~Busy(w) /\ job[w].pc = "idle"
  BY DEF Init, Busy, Idle
<1>2. motion["corridor"] = Unknown
  BY DEF Init, Motions
<1> QED
  BY <1>1, <1>2, TypeInit DEF OrderInv, Order, InRule, Alone, Follows, Moving, Rules

\* One rule at a time is one report of each sensor at a time.
LEMMA OneRuleIsAlone ==
    ASSUME TypeInv, \A v, w \in Workers : InRule(v) /\ InRule(w) => v = w, NEW s \in Ruled
    PROVE  Alone(s)
<1>1. ASSUME NEW w \in Workers, Moving(w, s) PROVE InRule(w)
  BY <1>1, AtAsleep DEF Moving, InRule, Ruled
<1> QED
  BY <1>1 DEF Alone

LEMMA OrderStep == OrderInv /\ [Next]_vars => OrderInv'
<1> SUFFICES ASSUME OrderInv, [Next]_vars PROVE OrderInv'
  OBVIOUS
<1>0. TypeInv /\ TypeInv' /\ Order
  BY TypeStep DEF OrderInv
<1>m. (disordered => disordered') /\ (crossed => crossed')
  BY <1>0, Remembered
<1>t. ASSUME NEW w \in Workers, Take(w)
      PROVE  /\ job'[w].pc = "enter" /\ Stay(w)
             /\ ~crossed' => \A x \in Workers \ {w} : ~InRule(x)
             /\ ~disordered' => \A x \in Workers \ {w} :
                                    Busy(x) => ~SameSource(job'[w].frame, job[x].frame)
  BY <1>0, <1>t, Taken DEF Take, InRule
<1>k. (\A w \in Workers : ~Take(w)) => \A w \in Workers : Keeps(w)
  BY <1>0, KeepsFrames
<1>1. ASSUME ~crossed', NEW v \in Workers, NEW w \in Workers, InRule(v)', InRule(w)' PROVE v = w
  <2>1. \A x, y \in Workers : InRule(x) /\ InRule(y) => x = y
    BY <1>0, <1>1, <1>m DEF Order
  <2>2. ASSUME NEW x \in Workers, Take(x) PROVE v = w
    <3>1. \A y \in Workers \ {x} : ~InRule(y) /\ job'[y] = job[y]
      BY <1>1, <1>t, <2>2 DEF Stay
    <3>2. \A y \in Workers \ {x} : ~InRule(y)'
      BY <3>1 DEF InRule, Busy
    <3> QED
      BY <1>1, <3>2
  <2>3. ASSUME \A x \in Workers : Keeps(x) PROVE v = w
    <3>1. InRule(v) /\ InRule(w)
      BY <1>1, <2>3 DEF Keeps, InRule
    <3> QED
      BY <2>1, <3>1
  <2> QED
    BY <1>k, <2>2, <2>3
<1>2. ASSUME ~disordered', NEW s \in Ruled PROVE Alone(s)'
  <2>1. Alone(s)
    BY <1>0, <1>2, <1>m DEF Order
  <2>2. ASSUME NEW v \in Workers, NEW w \in Workers, Moving(v, s)', Moving(w, s)' PROVE v = w
    <3>1. ASSUME NEW x \in Workers, Take(x) PROVE v = w
      <4>1. \A y \in Workers \ {x} : job'[y] = job[y] /\ (Busy(y) => ~SameSource(job'[x].frame, job[y].frame))
        BY <1>2, <1>t, <3>1 DEF Stay
      <4>2. \A y \in Workers \ {x} : Moving(y, s)' => Moving(y, s)
        BY <4>1 DEF Moving, Busy
      <4>3. \A y \in Workers \ {x} : Moving(x, s)' => ~Moving(y, s)
        BY <4>1 DEF Moving, SameSource
      <4> QED
        BY <2>1, <2>2, <4>2, <4>3 DEF Alone
    <3>2. ASSUME \A x \in Workers : Keeps(x) PROVE v = w
      <4>1. Moving(v, s) /\ Moving(w, s)
        BY <2>2, <3>2 DEF Keeps, Moving
      <4> QED
        BY <2>1, <4>1 DEF Alone
    <3> QED
      BY <1>k, <3>1, <3>2
  <2> QED
    BY <2>2 DEF Alone
<1>3. ASSUME ~disordered' \/ ~crossed', NEW s \in Ruled PROVE Follows(s)'
  <2>1. Alone(s)
    BY <1>0, <1>3, <1>m, OneRuleIsAlone DEF Order
  <2>2. Follows(s)
    BY <1>0, <1>3, <1>m DEF Order
  <2> QED
    BY <1>0, <2>1, <2>2, FollowsStep
<1>4. ASSUME NEW w \in Workers, job'[w].pc = "switch", job'[w].frame.kind = "press" PROVE crossed'
  <2>1. ASSUME NEW x \in Workers, Take(x) PROVE crossed'
    <3>1. job'[w] = job[w]
      BY <1>4, <1>t, <2>1 DEF Stay
    <3> QED
      BY <1>0, <1>4, <1>m, <3>1 DEF Order
  <2>2. ASSUME Keeps(w) PROVE crossed'
    BY <1>0, <1>4, <1>m, <2>2 DEF Keeps, Busy, Order
  <2> QED
    BY <1>k, <2>1, <2>2
<1>5. motion'["corridor"] # Unknown => "corridor" \in registered'
  <2>1. "corridor" \in Ruled
    BY DEF Ruled
  <2>2. ASSUME NEW w \in Workers, Motion(w), job[w].frame.of = "corridor" PROVE "corridor" \in registered
    BY <1>0, <2>2, Moves, FrameSources DEF HasDevice, Absentees
  <2> QED
    BY <1>0, <2>1, <2>2, MotionChanges DEF Order
<1> QED
  BY <1>0, <1>1, <1>2, <1>3, <1>4, <1>5 DEF OrderInv, Order

LEMMA OrderHolds == Spec => []OrderInv
BY OrderInit, OrderStep, PTL DEF Spec

-----------------------------------------------------------------------------
(* What the rules of a sensor do to a light.                               *)

LEMMA WillBeKept ==
    ASSUME UNCHANGED <<lamp, line>>, NEW r, NEW v, WillBe(r, v)
    PROVE  WillBe(r, v)'
BY DEF WillBe

\* A command that is sent decides what its relay will be; the others are not concerned.
LEMMA SendDecides ==
    ASSUME TypeInv, NEW w \in Workers, Send(w), NEW r, NEW v
    PROVE  LET c == Head(job[w].todo) IN
           /\ c.to = r /\ c.cmd = v /\ HasRelay(r) => WillBe(r, v)'
           /\ (c.to # r \/ c.cmd = v) /\ WillBe(r, v) => WillBe(r, v)'
<1> DEFINE c == Head(job[w].todo)
<1>1. c \in Commands
  BY Sent
<1>2. lamp' = lamp /\ line' = IF HasRelay(c.to) THEN Append(line, c) ELSE line
  BY DEF Send, world
<1>3. line \in Seq(Commands)
  BY DEF TypeInv
<1> HIDE DEF c
<1>4. ASSUME line' = line, WillBe(r, v) PROVE WillBe(r, v)'
  BY <1>2, <1>4, WillBeKept
<1>5. ASSUME line' = Append(line, c)
      PROVE  /\ c.to = r /\ c.cmd = v => WillBe(r, v)'
             /\ c.to # r /\ WillBe(r, v) => WillBe(r, v)'
  BY <1>1, <1>2, <1>3, <1>5, WillBeSent
<1>6. c.to = r /\ c.cmd = v /\ HasRelay(r) => WillBe(r, v)'
  BY <1>2, <1>5
<1>7. (c.to # r \/ c.cmd = v) /\ WillBe(r, v) => WillBe(r, v)'
  BY <1>2, <1>4, <1>5
<1> QED
  BY <1>6, <1>7 DEF c

\* Apart from what the lemmas below look at, a step leaves the lights, their sensors and
\* their rules alone.
Aside ==
    /\ UNCHANGED job \/ \E w \in Workers : Stay(w) /\ \A s \in Ruled : ~Rules(w, s)
    /\ \A s \in Ruled : motion'[s] = motion[s]
    /\ UNCHANGED <<lamp, line, registered, disordered, dark>>
       \/ (UNCHANGED <<lamp, line, registered, dark>> /\ \E w \in Workers : Take(w))

LEMMA Steps ==
    ASSUME TypeInv, [Next]_vars
    PROVE  \/ Obey \/ Lose \/ Aside
           \/ \E w \in Workers :
                 Motion(w) \/ Look(w) \/ Corridor(w) \/ Hall(w) \/ Kitchen(w) \/ Send(w)
<1> DEFINE P == \/ Obey \/ Lose \/ Aside
                \/ \E w \in Workers :
                      Motion(w) \/ Look(w) \/ Corridor(w) \/ Hall(w) \/ Kitchen(w) \/ Send(w)
<1> USE DEF house, world, history
<1>1. ASSUME NEW s \in Motions, NEW v \in {0, 1}, Sense(s, v) PROVE P
  BY <1>1 DEF Sense, Aside
<1>2. ASSUME NEW f \in Frames, Signal(f) PROVE P
  BY <1>2 DEF Signal, Aside
<1>5. ASSUME NEW w \in Workers, Take(w) PROVE P
  <2>1. Stay(w) /\ \A s \in Ruled : ~Rules(w, s)
    BY <1>5, Taken DEF Rules, Moving, Busy
  <2> QED
    BY <1>5, <2>1 DEF Take, Aside
<1>e. ASSUME NEW w \in Workers, job[w].pc = "enter" PROVE \A s \in Ruled : ~Rules(w, s)
  BY <1>e DEF Rules
<1>6. ASSUME NEW w \in Workers, Drop(w) \/ RelayReport(w) \/ LightReport(w) PROVE P
  <2>1. Stay(w) /\ \A s \in Ruled : ~Rules(w, s)
    BY <1>6, <1>e, Finishes DEF Drop, RelayReport, LightReport
  <2> QED
    BY <1>6, <2>1 DEF Drop, RelayReport, LightReport, Aside
<1>8. ASSUME NEW w \in Workers, Wake(w) PROVE P
  <2>1. Stay(w) /\ \A s \in Ruled : ~Rules(w, s)
    BY <1>8, AtAsleep, Finishes DEF Wake, Rules, Moving, Ruled
  <2>2. \A s \in Ruled : motion'[s] = motion[s]
    BY <1>8 DEF Wake, TypeInv, Ruled
  <2> QED
    BY <1>8, <2>1, <2>2 DEF Wake, Aside
<1>13. ASSUME NEW w \in Workers, Door(w) PROVE P
  <2>1. Stay(w) /\ \A s \in Ruled : ~Rules(w, s)
    BY <1>13, <1>e, DoorDecides
  <2> QED
    BY <1>13, <2>1 DEF Door, Aside
<1>14. ASSUME NEW w \in Workers, Press(w) PROVE P
  <2>1. Stay(w) /\ \A s \in Ruled : ~Rules(w, s)
    BY <1>14, <1>e, PressDecides
  <2> QED
    BY <1>14, <2>1 DEF Press, Aside
<1>18. ASSUME UNCHANGED vars PROVE P
  BY <1>18 DEF vars, Aside
<1> HIDE DEF P
<1>19. ASSUME Obey \/ Lose \/ \E w \in Workers :
                 Motion(w) \/ Look(w) \/ Corridor(w) \/ Hall(w) \/ Kitchen(w) \/ Send(w)
       PROVE  P
  BY <1>19 DEF P
<1>20. P
  BY <1>1, <1>2, <1>5, <1>6, <1>8, <1>13, <1>14, <1>18, <1>19, StepCases
<1> QED
  BY <1>20 DEF P

-----------------------------------------------------------------------------
(* The kitchen.                                                            *)

\* A worker will tell the kitchen's relay, or looks whether it has to.
KitchenDue ==
    \E w \in Workers :
        Rules(w, "kitchen") /\ (job[w].pc = "decide" => job[w].relay # job[w].frame.cmd)

\* Unless a rule is due, the kitchen's relay, if there is one, will be what the sensor says.
KitchenInv ==
    HasRelay("kitchen") /\ ~disordered /\ ~KitchenDue =>
        \A v \in {0, 1} : motion["kitchen"] = v /\ (v = 1 => ~crossed) => WillBe("kitchen", v)

LEMMA KitchenStep == OrderInv /\ KitchenInv /\ [Next]_vars => KitchenInv'
<1> SUFFICES ASSUME OrderInv, KitchenInv, [Next]_vars, HasRelay("kitchen")', ~disordered', ~KitchenDue',
                    NEW v \in {0, 1}, motion'["kitchen"] = v, v = 1 => ~crossed'
             PROVE  WillBe("kitchen", v)'
  BY DEF KitchenInv
<1>0. TypeInv /\ Order /\ "kitchen" \in Ruled /\ "kitchen" \in Lights
  BY DEF OrderInv, Ruled, Lights
<1>1. HasRelay("kitchen") /\ ~disordered /\ (v = 1 => ~crossed)
  BY <1>0, Remembered, MotionChanges DEF HasRelay
<1>2. Follows("kitchen")
  BY <1>0, <1>1 DEF Order
\* Nothing that is due is done, and the relay will be what it would be.
<1>k. ASSUME motion'["kitchen"] = motion["kitchen"], KitchenDue => KitchenDue'
      PROVE  WillBe("kitchen", v)
  BY <1>1, <1>k DEF KitchenInv
<1>d. ASSUME UNCHANGED job PROVE KitchenDue => KitchenDue'
  BY <1>d DEF KitchenDue, Rules, Moving, Busy
<1>s. ASSUME NEW w \in Workers, Stay(w),
             Rules(w, "kitchen") => job[w].pc = "decide" /\ job[w].relay = job[w].frame.cmd
      PROVE  KitchenDue => KitchenDue'
  BY <1>s DEF KitchenDue, Rules, Moving, Busy, Stay
<1>3. CASE Obey
  <2>1. WillBe("kitchen", v)
    BY <1>3, <1>d, <1>k DEF Obey, house
  <2> QED
    BY <1>0, <1>3, <2>1, WillBeObeyed
<1>4. CASE Lose
  BY <1>4 DEF Lose
<1>5. CASE Aside
  BY <1>0, <1>5, <1>d, <1>k, <1>s, WillBeKept DEF Aside
<1>6. ASSUME NEW w \in Workers, Motion(w) PROVE WillBe("kitchen", v)'
  <2>1. /\ Stay(w) /\ job[w].pc = "enter" /\ job'[w].frame = job[w].frame
        /\ job[w].frame \in MotionFrames
        /\ motion' = [motion EXCEPT ![job[w].frame.of] = job[w].frame.cmd]
        /\ job[w].frame.of = "kitchen" => job'[w].pc = "look"
    BY <1>0, <1>6, Moves
  <2>2. job[w].frame.of # "kitchen"
    BY <2>1, FrameSources DEF KitchenDue, Rules, Moving, Busy
  <2>3. motion'["kitchen"] = motion["kitchen"]
    BY <1>0, <2>1, <2>2 DEF TypeInv, Motions
  <2>4. WillBe("kitchen", v)
    BY <2>1, <2>3, <1>s, <1>k DEF Rules
  <2> QED
    BY <1>6, <2>4, WillBeKept DEF Motion, world
<1>7. ASSUME NEW w \in Workers, Look(w) PROVE WillBe("kitchen", v)'
  <2>0. UNCHANGED <<lamp, line, motion>> /\ Stay(w)
    BY <1>0, <1>7, Looks DEF Look, world
  <2>1. CASE job[w].frame.of # "kitchen"
    <3>1. ~Rules(w, "kitchen")
      BY <2>1 DEF Rules, Moving
    <3> QED
      BY <2>0, <3>1, <1>k, <1>s, WillBeKept
  <2>2. CASE job[w].frame.of = "kitchen"
    <3>1. /\ job[w].pc = "look" /\ job[w].frame \in MotionFrames
          /\ job'[w].pc = "decide" /\ job'[w].frame = job[w].frame
          /\ job'[w].relay = known["kitchen"]
          /\ disordered' = (disordered \/ (known["kitchen"] # Unknown /\ OutOfDate("kitchen")))
      BY <1>0, <1>1, <1>7, <2>2, Looks DEF RelayOf
    <3>2. job[w].frame.cmd = v
      BY <1>2, <2>0, <2>2, <3>1, FrameSources DEF Follows, Rules, Moving, Busy
    <3>3. known["kitchen"] = v
      BY <2>2, <3>1, <3>2, FrameSources DEF KitchenDue, Rules, Moving, Busy
    <3>4. ~OutOfDate("kitchen")
      <4>1. known["kitchen"] # Unknown
        BY <3>3 DEF Unknown
      <4> QED
        BY <3>1, <4>1, Zenon
    <3>5. lamp["kitchen"] = v /\ \A i \in 1 .. Len(line) : line[i].to # "kitchen"
      BY <1>0, <3>3, <3>4, LenProperties DEF OutOfDate, TypeInv
    <3> QED
      BY <2>0, <3>5 DEF WillBe
  <2> QED
    BY <2>1, <2>2
<1>8. ASSUME NEW w \in Workers, Corridor(w) \/ Hall(w) PROVE WillBe("kitchen", v)'
  <2>1. Stay(w) /\ job[w].frame.of # "kitchen"
    BY <1>0, <1>8, CorridorDecides, HallDecides
  <2>2. ~Rules(w, "kitchen") /\ UNCHANGED <<lamp, line, motion>>
    BY <1>8, <2>1 DEF Corridor, Hall, house, world, Rules, Moving
  <2> QED
    BY <2>1, <2>2, <1>k, <1>s, WillBeKept
<1>9. ASSUME NEW w \in Workers, Kitchen(w) PROVE WillBe("kitchen", v)'
  <2>1. /\ Stay(w) /\ job[w].pc = "decide" /\ UNCHANGED <<lamp, line, motion>>
        /\ job[w].frame \in MotionFrames /\ job[w].frame.of = "kitchen"
    BY <1>0, <1>9, KitchenDecides DEF Kitchen, house, world
  <2>2. job[w].relay = job[w].frame.cmd
    <3>1. ASSUME job[w].relay # job[w].frame.cmd
          PROVE  job'[w].pc = "switch" /\ job'[w].frame = job[w].frame
      BY <1>0, <1>9, <3>1, KitchenDecides DEF Tells
    <3> QED
      BY <2>1, <3>1, FrameSources DEF KitchenDue, Rules, Moving, Busy
  <2> QED
    BY <2>1, <2>2, <1>k, <1>s, WillBeKept
<1>10. ASSUME NEW w \in Workers, Send(w) PROVE WillBe("kitchen", v)'
  <2> DEFINE c == Head(job[w].todo)
             f == job[w].frame
  <2>1. /\ Stay(w) /\ job[w].pc = "switch" /\ c \in Commands /\ May(f, c) /\ f \in Frames
        /\ f.kind \in {"motion", "door", "press"} /\ UNCHANGED motion
    BY <1>0, <1>10, Sent, AtSwitch DEF Send, house
  <2> HIDE DEF c
  <2>2. CASE f.kind = "motion" /\ f.of = "kitchen"
    <3>1. f.cmd = v
      BY <1>2, <2>1, <2>2 DEF Follows, Rules, Moving, Busy
    <3> QED
      BY <1>0, <1>1, <1>10, <2>1, <2>2, <3>1, SendDecides DEF May, c
  <2>3. CASE ~(f.kind = "motion" /\ f.of = "kitchen")
    <3>1. WillBe("kitchen", v)
      BY <2>1, <2>3, <1>k, <1>s DEF Rules, Moving
    <3>2. c.to # "kitchen" \/ c.cmd = v
      <4>1. f.kind = "press" => v = 0
        BY <1>0, <1>1, <2>1 DEF Order
      <4> QED
        BY <2>1, <2>3, <4>1 DEF May, Doors
    <3> QED
      BY <1>0, <1>10, <3>1, <3>2, SendDecides DEF c
  <2> QED
    BY <2>2, <2>3
<1> QED
  BY <1>0, <1>3, <1>4, <1>5, <1>6, <1>7, <1>8, <1>9, <1>10, Steps

-----------------------------------------------------------------------------
(* The corridor, when nobody is there.                                     *)

\* A worker will switch the corridor's light off, or looks whether it has to.
DarkDue ==
    \E w \in Workers :
        \/ Rules(w, "corridor")
        \/ Rules(w, "hall") /\ (job[w].pc = "decide" => job[w].relay # 0)

\* Once both sensors say that nobody is there the light will be off, unless a rule is due:
\* the last of the two rules to store its state sees the other's.
DarkInv ==
    Complete /\ ~disordered /\ motion["corridor"] = 0 /\ motion["hall"] = 0 /\ ~DarkDue
    => WillBe("corridor", 0)

LEMMA DarkStep == OrderInv /\ DarkInv /\ [Next]_vars => DarkInv'
<1> SUFFICES ASSUME OrderInv, DarkInv, [Next]_vars, Complete', ~disordered', ~DarkDue',
                    motion'["corridor"] = 0, motion'["hall"] = 0
             PROVE  WillBe("corridor", 0)'
  BY DEF DarkInv
<1>0. /\ TypeInv /\ Order /\ "corridor" \in Ruled /\ "hall" \in Ruled
      /\ "corridor" \in Lights
  BY DEF OrderInv, Ruled, Lights
<1>1. ~disordered /\ Complete /\ registered = Absentees
  BY <1>0, Remembered, MotionChanges DEF Complete
<1>2. Follows("corridor") /\ Follows("hall")
  BY <1>0, <1>1 DEF Order
<1>k. ASSUME motion'["corridor"] = motion["corridor"], motion'["hall"] = motion["hall"],
             DarkDue => DarkDue'
      PROVE  WillBe("corridor", 0)
  BY <1>1, <1>k DEF DarkInv
<1>d. ASSUME UNCHANGED job PROVE DarkDue => DarkDue'
  BY <1>d DEF DarkDue, Rules, Moving, Busy
<1>s. ASSUME NEW w \in Workers, Stay(w), ~Rules(w, "corridor"),
             Rules(w, "hall") => job[w].pc = "decide" /\ job[w].relay = 0
      PROVE  DarkDue => DarkDue'
  BY <1>s DEF DarkDue, Rules, Moving, Busy, Stay
<1>3. CASE Obey
  <2>1. WillBe("corridor", 0)
    BY <1>3, <1>d, <1>k DEF Obey, house
  <2> QED
    BY <1>0, <1>3, <2>1, WillBeObeyed
<1>4. CASE Lose
  BY <1>4 DEF Lose
<1>5. CASE Aside
  <2>1. DarkDue => DarkDue'
    BY <1>0, <1>5, <1>d, <1>s DEF Aside
  <2> QED
    BY <1>0, <1>5, <1>k, <2>1, WillBeKept DEF Aside
<1>6. ASSUME NEW w \in Workers, Motion(w) PROVE WillBe("corridor", 0)'
  <2>1. /\ Stay(w) /\ job[w].pc = "enter" /\ job'[w].frame = job[w].frame
        /\ job[w].frame \in MotionFrames
        /\ motion' = [motion EXCEPT ![job[w].frame.of] = job[w].frame.cmd]
        /\ job[w].frame.of = "corridor" => job'[w].pc = "decide"
        /\ job[w].frame.of = "hall" => job'[w].pc = "look"
    BY <1>0, <1>6, Moves
  <2>2. job[w].frame.of # "corridor" /\ job[w].frame.of # "hall"
    BY <2>1, FrameSources DEF DarkDue, Rules, Moving, Busy
  <2>3. motion'["corridor"] = motion["corridor"] /\ motion'["hall"] = motion["hall"]
    BY <1>0, <2>1, <2>2 DEF TypeInv, Motions
  <2>4. WillBe("corridor", 0)
    BY <2>1, <2>3, <1>s, <1>k DEF Rules
  <2> QED
    BY <1>6, <2>4, WillBeKept DEF Motion, world
<1>7. ASSUME NEW w \in Workers, Look(w) PROVE WillBe("corridor", 0)'
  <2>0. UNCHANGED <<lamp, line, motion>> /\ Stay(w) /\ job[w].frame.of \in {"hall", "kitchen"}
    BY <1>0, <1>7, Looks DEF Look, world
  <2>1. CASE job[w].frame.of = "kitchen"
    <3>1. ~Rules(w, "corridor") /\ ~Rules(w, "hall")
      BY <2>1 DEF Rules, Moving
    <3> QED
      BY <2>0, <3>1, <1>k, <1>s, WillBeKept
  <2>2. CASE job[w].frame.of = "hall"
    <3>1. /\ job[w].pc = "look" /\ job[w].frame \in MotionFrames
          /\ job'[w].pc = "decide" /\ job'[w].frame = job[w].frame
          /\ job'[w].relay = known["corridor"]
          /\ disordered' = (disordered \/ (known["corridor"] # Unknown /\ OutOfDate("corridor")))
      BY <1>0, <1>1, <1>7, <2>2, Looks DEF RelayOf, HasRelay, Absentees
    <3>3. known["corridor"] = 0
      BY <2>2, <3>1, FrameSources DEF DarkDue, Rules, Moving, Busy
    <3>4. ~OutOfDate("corridor")
      <4>1. known["corridor"] # Unknown
        BY <3>3 DEF Unknown
      <4> QED
        BY <3>1, <4>1, Zenon
    <3>5. lamp["corridor"] = 0 /\ \A i \in 1 .. Len(line) : line[i].to # "corridor"
      BY <1>0, <3>3, <3>4, LenProperties DEF OutOfDate, TypeInv
    <3> QED
      BY <2>0, <3>5 DEF WillBe
  <2> QED
    BY <2>0, <2>1, <2>2
<1>8. ASSUME NEW w \in Workers, Corridor(w) PROVE FALSE
  <2>1. /\ job[w].pc = "decide" /\ job[w].frame \in MotionFrames
        /\ job[w].frame.of = "corridor" /\ UNCHANGED motion
    BY <1>0, <1>8, CorridorDecides DEF Corridor, house
  <2>2. job[w].frame.cmd = 0
    BY <1>2, <2>1, FrameSources DEF Follows, Rules, Moving, Busy
  <2>3. Other(w, "hall") = 0
    BY <1>1, <2>1 DEF Other, Absentees
  <2>4. job'[w].pc = "switch" /\ job'[w].frame = job[w].frame
    BY <1>0, <1>8, <2>2, <2>3, CorridorDecides DEF Tells
  <2> QED
    BY <2>1, <2>4, FrameSources DEF DarkDue, Rules, Moving, Busy
<1>9. ASSUME NEW w \in Workers, Hall(w) PROVE WillBe("corridor", 0)'
  <2>1. /\ Stay(w) /\ job[w].pc = "decide" /\ UNCHANGED <<lamp, line, motion>>
        /\ job[w].frame \in MotionFrames /\ job[w].frame.of = "hall"
    BY <1>0, <1>9, HallDecides DEF Hall, house, world
  <2>2. job[w].frame.cmd = 0
    BY <1>2, <2>1, FrameSources DEF Follows, Rules, Moving, Busy
  <2>3. Other(w, "corridor") = 0
    BY <1>1, <2>1 DEF Other, Absentees
  <2>4. job[w].relay = 0
    <3>1. ASSUME job'[w] # Idle PROVE job'[w].pc = "switch" /\ job'[w].frame = job[w].frame
      BY <1>0, <1>9, <3>1, HallDecides DEF Tells
    <3>2. job'[w] = Idle
      BY <2>1, <3>1, FrameSources DEF DarkDue, Rules, Moving, Busy
    <3>3. Other(w, "corridor") # 1
      BY <2>3
    <3>4. job[w].relay = 0 \/ Other(w, "corridor") = 1
      BY <1>0, <1>9, <2>2, <3>2, HallDecides
    <3> QED
      BY <3>3, <3>4
  <2>5. ~Rules(w, "corridor")
    BY <2>1 DEF Rules, Moving
  <2> QED
    BY <2>1, <2>4, <2>5, <1>k, <1>s, WillBeKept
<1>10. ASSUME NEW w \in Workers, Kitchen(w) PROVE WillBe("corridor", 0)'
  <2>1. /\ Stay(w) /\ UNCHANGED <<lamp, line, motion>> /\ job[w].frame.of = "kitchen"
    BY <1>0, <1>10, KitchenDecides DEF Kitchen, house, world
  <2>2. ~Rules(w, "corridor") /\ ~Rules(w, "hall")
    BY <2>1 DEF Rules, Moving
  <2> QED
    BY <2>1, <2>2, <1>k, <1>s, WillBeKept
<1>11. ASSUME NEW w \in Workers, Send(w) PROVE WillBe("corridor", 0)'
  <2> DEFINE c == Head(job[w].todo)
             f == job[w].frame
  <2>1. /\ Stay(w) /\ job[w].pc = "switch" /\ c \in Commands /\ May(f, c) /\ f \in Frames
        /\ f.kind \in {"motion", "door", "press"} /\ UNCHANGED motion
    BY <1>0, <1>11, Sent, AtSwitch DEF Send, house
  <2> HIDE DEF c
  <2>2. CASE f.kind = "motion" /\ f.of \in {"corridor", "hall"}
    <3>1. f.cmd = 0
      BY <1>2, <2>1, <2>2 DEF Follows, Rules, Moving, Busy
    <3>2. c.to = "corridor" /\ c.cmd = 0 /\ HasRelay("corridor")
      BY <1>1, <2>1, <2>2, <3>1 DEF May, HasRelay, Absentees
    <3> QED
      BY <1>0, <1>11, <3>2, SendDecides DEF c
  <2>3. CASE ~(f.kind = "motion" /\ f.of \in {"corridor", "hall"})
    <3>1. WillBe("corridor", 0)
      BY <2>1, <2>3, <1>k, <1>s DEF Rules, Moving
    <3>2. c.to # "corridor" \/ c.cmd = 0
      <4>1. f.kind = "motion" => f.of = "kitchen"
        BY <1>0, <2>1, <2>3, AtSwitch
      <4> QED
        BY <2>1, <4>1 DEF May, Doors
    <3> QED
      BY <1>0, <1>11, <3>1, <3>2, SendDecides DEF c
  <2> QED
    BY <2>2, <2>3
<1> QED
  BY <1>0, <1>3, <1>4, <1>5, <1>6, <1>7, <1>8, <1>9, <1>10, <1>11, Steps

-----------------------------------------------------------------------------
(* The corridor, when somebody is there.                                   *)

\* One rule at a time, the hall's does not switch off the light of the corridor's motion,
\* and that light will be on, unless the corridor's rule is due.
HallWaits ==
    \A w \in Workers :
        Rules(w, "hall") /\ job[w].pc = "switch" /\ job[w].frame.cmd = 0 => motion["corridor"] # 1

LitInv ==
    ~crossed =>
        /\ HallWaits
        /\ "light" \in registered /\ motion["corridor"] = 1 /\ dark
              /\ (\A w \in Workers : ~Rules(w, "corridor"))
           => WillBe("corridor", 1)

LEMMA HallWaitsStep == OrderInv /\ LitInv /\ [Next]_vars /\ ~crossed' => HallWaits'
<1> SUFFICES ASSUME OrderInv, LitInv, [Next]_vars, ~crossed', NEW w \in Workers,
                    Rules(w, "hall")', job'[w].pc = "switch", job'[w].frame.cmd = 0
             PROVE  motion'["corridor"] # 1
  BY DEF HallWaits
<1>0. TypeInv /\ Order /\ "corridor" \in Ruled /\ ~crossed
  BY Remembered DEF OrderInv, Ruled
<1>1. job'[w].frame = job[w].frame /\ (Rules(w, "hall") \/ Motion(w))
  BY <1>0, RulesGoOn
<1>2. Rules(w, "hall")
  <2>1. ~Motion(w)
    BY <1>0, Moves DEF Motions, MotionFrames
  <2> QED
    BY <1>1, <2>1
<1>3. motion'["corridor"] = motion["corridor"]
  <2>1. InRule(w)
    BY <1>0, <1>2, AtAsleep DEF InRule, Rules, Moving
  <2>2. ASSUME NEW x \in Workers, Motion(x), job[x].frame.of = "corridor" PROVE FALSE
    <3>1. InRule(x)
      BY <1>0, <2>2, Moves, FrameSources DEF InRule, Busy
    <3>2. x = w
      BY <1>0, <2>1, <3>1 DEF Order
    <3> QED
      BY <1>2, <2>2, <3>2 DEF Rules, Moving
  <2> QED
    BY <1>0, <2>2, MotionChanges
<1>4. CASE job[w].pc = "switch"
  BY <1>0, <1>1, <1>2, <1>3, <1>4 DEF LitInv, HallWaits
<1>5. CASE job[w].pc # "switch"
  <2>1. \A x \in Workers : ~Take(x)
    <3>1. ASSUME NEW x \in Workers, Take(x) PROVE FALSE
      BY <1>0, <1>5, <3>1, Taken DEF Stay
    <3> QED
      BY <3>1
  <2>2. Hall(w)
    BY <1>0, <1>2, <1>5, <2>1, KeepsFrames DEF Keeps, Rules, Moving, Busy
  <2>3. Other(w, "corridor") # 1
    <3>1. job'[w] # Idle /\ job[w].frame.cmd = 0
      BY <1>1 DEF Idle
    <3> QED
      BY <1>0, <2>2, <3>1, HallDecides
  <2>4. motion["corridor"] # 1
    BY <1>0, <2>3 DEF Other, Order, Unknown
  <2> QED
    BY <1>3, <2>4
<1> QED
  BY <1>4, <1>5

LEMMA LitStep == OrderInv /\ LitInv /\ [Next]_vars => LitInv'
<1> SUFFICES ASSUME OrderInv, LitInv, [Next]_vars, ~crossed', "light" \in registered',
                    motion'["corridor"] = 1, dark', \A w \in Workers : ~Rules(w, "corridor")'
             PROVE  WillBe("corridor", 1)'
  BY HallWaitsStep DEF LitInv
<1>0. TypeInv /\ Order /\ "corridor" \in Ruled /\ "corridor" \in Lights
  BY DEF OrderInv, Ruled, Lights
<1>1. ~crossed /\ "light" \in registered
  BY <1>0, Remembered, MotionChanges
<1>2. Follows("corridor") /\ HallWaits
  BY <1>0, <1>1 DEF Order, LitInv
<1>k. ASSUME motion'["corridor"] = motion["corridor"], dark' = dark,
             \A w \in Workers : Rules(w, "corridor") => Rules(w, "corridor")'
      PROVE  WillBe("corridor", 1)
  BY <1>1, <1>k DEF LitInv
<1>d. ASSUME UNCHANGED job PROVE \A w \in Workers : Rules(w, "corridor") => Rules(w, "corridor")'
  BY <1>d DEF Rules, Moving, Busy
<1>s. ASSUME NEW w \in Workers, Stay(w), ~Rules(w, "corridor")
      PROVE  \A x \in Workers : Rules(x, "corridor") => Rules(x, "corridor")'
  BY <1>s DEF Rules, Moving, Busy, Stay
<1>3. CASE Obey
  <2>1. WillBe("corridor", 1)
    BY <1>3, <1>d, <1>k DEF Obey, house, history
  <2> QED
    BY <1>0, <1>3, <2>1, WillBeObeyed
<1>4. CASE Lose
  BY <1>4 DEF Lose
<1>5. CASE Aside
  <2>1. \A w \in Workers : Rules(w, "corridor") => Rules(w, "corridor")'
    BY <1>0, <1>5, <1>d, <1>s DEF Aside
  <2> QED
    BY <1>0, <1>5, <1>k, <2>1, WillBeKept DEF Aside
<1>6. ASSUME NEW w \in Workers, Motion(w) PROVE WillBe("corridor", 1)'
  <2>1. /\ Stay(w) /\ job[w].pc = "enter" /\ job'[w].frame = job[w].frame
        /\ job[w].frame \in MotionFrames /\ dark' = dark
        /\ motion' = [motion EXCEPT ![job[w].frame.of] = job[w].frame.cmd]
        /\ job[w].frame.of = "corridor" => job'[w].pc = "decide"
    BY <1>0, <1>6, Moves DEF Motion, history
  <2>2. job[w].frame.of # "corridor"
    BY <2>1, FrameSources DEF Rules, Moving, Busy
  <2>3. motion'["corridor"] = motion["corridor"]
    BY <1>0, <2>1, <2>2 DEF TypeInv, Motions
  <2>4. WillBe("corridor", 1)
    BY <2>1, <2>3, <1>s, <1>k DEF Rules
  <2> QED
    BY <1>6, <2>4, WillBeKept DEF Motion, world
<1>7. ASSUME NEW w \in Workers, Look(w) \/ Hall(w) \/ Kitchen(w) PROVE WillBe("corridor", 1)'
  <2>1. /\ Stay(w) /\ UNCHANGED <<lamp, line, motion, dark>>
        /\ job[w].frame.of \in {"hall", "kitchen"}
    BY <1>0, <1>7, Looks, HallDecides, KitchenDecides
    DEF Look, Hall, Kitchen, house, world, history
  <2>2. ~Rules(w, "corridor")
    BY <2>1 DEF Rules, Moving
  <2> QED
    BY <2>1, <2>2, <1>k, <1>s, WillBeKept
<1>8. ASSUME NEW w \in Workers, Corridor(w) PROVE FALSE
  <2>1. /\ job[w].pc = "decide" /\ job[w].frame \in MotionFrames
        /\ job[w].frame.of = "corridor" /\ UNCHANGED motion
    BY <1>0, <1>8, CorridorDecides DEF Corridor, house
  <2>2. job[w].frame.cmd = 1
    BY <1>2, <2>1, FrameSources DEF Follows, Rules, Moving, Busy
  <2>3. job'[w].pc = "switch" /\ job'[w].frame = job[w].frame
    BY <1>0, <1>8, <2>2, CorridorDecides DEF Tells
  <2> QED
    BY <2>1, <2>3, FrameSources DEF Rules, Moving, Busy
<1>9. ASSUME NEW w \in Workers, Send(w) PROVE WillBe("corridor", 1)'
  <2> DEFINE c == Head(job[w].todo)
             f == job[w].frame
  <2>1. /\ Stay(w) /\ job[w].pc = "switch" /\ c \in Commands /\ May(f, c) /\ f \in Frames
        /\ f.kind \in {"motion", "door"} /\ UNCHANGED <<motion, dark>>
        /\ f.kind = "motion" => f.of \in {"corridor", "hall", "kitchen"}
    BY <1>0, <1>1, <1>9, Sent, AtSwitch DEF Send, house, history, Order
  <2> HIDE DEF c
  <2>2. CASE f.kind = "motion" /\ f.of = "corridor"
    <3>1. f.cmd = 1
      BY <1>2, <2>1, <2>2 DEF Follows, Rules, Moving, Busy
    <3>2. c.to = "corridor" /\ c.cmd = 1
      BY <2>1, <2>2, <3>1 DEF May
    <3> QED
      BY <1>0, <1>1, <1>9, <3>2, SendDecides DEF c, HasRelay
  <2>3. CASE ~(f.kind = "motion" /\ f.of = "corridor")
    <3>1. WillBe("corridor", 1)
      BY <2>1, <2>3, <1>k, <1>s DEF Rules, Moving
    <3>2. f.kind = "motion" /\ f.of = "hall" => f.cmd = 1
      BY <1>2, <2>1, FrameFields DEF HallWaits, Rules, Moving, Busy
    <3>3. c.to # "corridor" \/ c.cmd = 1
      BY <2>1, <2>3, <3>2 DEF May, Doors
    <3> QED
      BY <1>0, <1>9, <3>1, <3>3, SendDecides DEF c
  <2> QED
    BY <2>2, <2>3
<1> QED
  BY <1>0, <1>3, <1>4, <1>5, <1>6, <1>7, <1>8, <1>9, Steps

-----------------------------------------------------------------------------
(* What it comes to when nothing is under way.                             *)

LightInv == OrderInv /\ KitchenInv /\ DarkInv /\ LitInv

LEMMA LightInit == Init => LightInv
<1> SUFFICES ASSUME Init PROVE LightInv
  OBVIOUS
<1>1. OrderInv
  BY OrderInit
<1>2. motion["kitchen"] = Unknown /\ motion["corridor"] = Unknown
  BY DEF Init, Motions
<1>3. \A w \in Workers, s \in Ruled : ~Rules(w, s)
  BY DEF Init, Rules, Moving, Busy, Idle
<1>4. KitchenInv /\ DarkInv
  BY <1>2 DEF KitchenInv, DarkInv, Unknown
<1>5. LitInv
  BY <1>2 DEF LitInv, HallWaits, Unknown
<1> QED
  BY <1>1, <1>4, <1>5 DEF LightInv

LEMMA LightStep == LightInv /\ [Next]_vars => LightInv'
BY OrderStep, KitchenStep, DarkStep, LitStep DEF LightInv

LEMMA LightHolds == Spec => []LightInv
BY LightInit, LightStep, PTL DEF Spec

LEMMA AtRest ==
    ASSUME TypeInv, Settled
    PROVE  /\ \A w \in Workers, s \in Ruled : ~Rules(w, s)
           /\ \A r \in Lights, v \in {0, 1} : WillBe(r, v) => lamp[r] = v
<1>1. ASSUME NEW w \in Workers, NEW s \in Ruled PROVE ~Rules(w, s)
  BY <1>1, AtAsleep DEF Settled, Rules, Moving, Busy, Ruled
<1> QED
  BY <1>1, WillBeSettled DEF Settled

\* KitchenFollowsPresence for any number of workers and reports: the kitchen's light is what
\* its sensor last said, although the rule goes by the relay's last report.
THEOREM KitchenLight == Spec => []KitchenFollowsPresence
<1>1. LightInv => KitchenFollowsPresence
  <2> SUFFICES ASSUME LightInv, Settled, HasRelay("kitchen"), ~disordered, NEW v \in {0, 1},
                      motion["kitchen"] = v, v = 1 => ~crossed
               PROVE  lamp["kitchen"] = v
    BY DEF KitchenFollowsPresence
  <2>1. TypeInv /\ KitchenInv /\ "kitchen" \in Lights /\ "kitchen" \in Ruled
    BY DEF LightInv, OrderInv, Lights, Ruled
  <2>2. WillBe("kitchen", v)
    BY <2>1, AtRest DEF KitchenInv, KitchenDue
  <2> QED
    BY <2>1, <2>2, AtRest
<1> QED
  BY <1>1, LightHolds, PTL

\* DarkWhenEmpty for any number of workers and reports: of the two rules of the corridor, which
\* may run at the same time, one sees that both sensors are quiet.
THEOREM CorridorDark == Spec => []DarkWhenEmpty
<1>1. LightInv => DarkWhenEmpty
  <2> SUFFICES ASSUME LightInv, Settled, Complete, ~disordered,
                      motion["corridor"] = 0, motion["hall"] = 0
               PROVE  lamp["corridor"] = 0
    BY DEF DarkWhenEmpty
  <2>1. TypeInv /\ DarkInv /\ "corridor" \in Lights /\ "corridor" \in Ruled /\ "hall" \in Ruled
    BY DEF LightInv, OrderInv, Lights, Ruled
  <2>2. WillBe("corridor", 0)
    BY <2>1, AtRest DEF DarkInv, DarkDue
  <2> QED
    BY <2>1, <2>2, AtRest
<1> QED
  BY <1>1, LightHolds, PTL

\* LitWhileMotion for any number of workers and reports: when rules run one at a time the light
\* of the corridor's motion stays on.
THEOREM CorridorLit == Spec => []LitWhileMotion
<1>1. LightInv => LitWhileMotion
  <2> SUFFICES ASSUME LightInv, Settled, "light" \in registered, ~crossed,
                      motion["corridor"] = 1, dark
               PROVE  lamp["corridor"] = 1
    BY DEF LitWhileMotion, HasRelay
  <2>1. TypeInv /\ LitInv /\ "corridor" \in Lights /\ "corridor" \in Ruled
    BY DEF LightInv, OrderInv, Lights, Ruled
  <2>2. WillBe("corridor", 1)
    BY <2>1, AtRest DEF LitInv
  <2> QED
    BY <2>1, <2>2, AtRest
<1> QED
  BY <1>1, LightHolds, PTL
=============================================================================
