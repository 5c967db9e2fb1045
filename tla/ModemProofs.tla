----------------------------- MODULE ModemProofs -----------------------------
(***************************************************************************)
(* Proofs about Modem: what any number of workers and one more thread,     *)
(* which send commands that each other's answers wake, make of calls,      *)
(* messages and balances.                                                  *)
(***************************************************************************)
EXTENDS Modem, SequenceTheorems, TLAPS

StepNames == Names \cup Effects \cup {"cleared"}
\* The events that answers emit: ATA and CMGS, for one, are waited for in vain.
Emitted == {EmitOf(cmd) : cmd \in Names}

Simple == [kind : {"hangup", "battery", "arrived", "balance"}, val : {""}]
Answers == [kind : {"answer"}, val : Emitted]
Rings == [kind : {"ring"}, val : {"own", "other"}]
Messages == [kind : {"sms"}, val : Codes \cup {"other"}]
ToneFrames == [kind : {"tones"}, val : Chunks]
Frames == Simple \cup Answers \cup Rings \cup Messages \cup ToneFrames

Modems == [mode : {"text", "pdu"}, prompt : BOOLEAN, call : {"none", "own", "other", "active"},
           ussd : BOOLEAN, inbox : Codes \cup {"other"}]

\* The steps that end the handling of a call.
Ends == {"answered", "hungup"}

\* What follows and what precedes a step of a list.
Follows(t, i) ==
    /\ t[i] = "CMGF0" => i < Len(t) /\ t[i + 1] = "CMGS"
    /\ t[i] = "CMGS" => i < Len(t) /\ t[i + 1] = "text"
    /\ t[i] = "text" => i < Len(t) /\ t[i + 1] = "CMGF1"
    /\ t[i] = "ATA" => i < Len(t) /\ t[i + 1] = "answered"
    /\ t[i] \in Effects => i = Len(t)
Precedes(t, i) ==
    /\ t[i + 1] = "CMGS" => t[i] = "CMGF0"
    /\ t[i + 1] = "text" => t[i] = "CMGS"
    /\ t[i + 1] = "answered" => t[i] = "ATA"
    /\ t[i + 1] = "hungup" => t[i] = "ATH0"
    /\ t[i + 1] = "texted" => t[i] = "CMGF1"

\* A list of steps, or what is left of one.
Lists ==
    {t \in Seq(StepNames) : /\ \A i \in 1 .. Len(t) : Follows(t, i)
                            /\ \A i \in 1 .. Len(t) - 1 : Precedes(t, i)}
Elems(t) == {t[i] : i \in 1 .. Len(t)}

RunType(j) == j = [pc |-> "run", todo |-> j.todo] /\ j.todo \in Lists /\ j.todo # <<>>
WaitType(j) ==
    /\ j = [pc |-> "wait", todo |-> j.todo, done |-> j.done, quiet |-> j.quiet]
    /\ j.todo \in Lists /\ j.todo # <<>> /\ Head(j.todo) \in Names
    /\ j.done \in BOOLEAN /\ j.quiet \in BOOLEAN
EnterType(j) == j = [pc |-> "enter", frame |-> j.frame] /\ j.frame \in Frames
JobType(a) ==
    LET j == job[a] IN
    \/ j = Idle
    \/ EnterType(j) /\ a \in Workers
    \/ (RunType(j) \/ WaitType(j)) /\ (a = App => Elems(j.todo) \cap Effects = {})
JobsType == job = [a \in Actors |-> job[a]] /\ \A a \in Actors : JobType(a)

TypeInv ==
    /\ events \subseteq Emitted
    /\ isCall \in BOOLEAN /\ toneStarted \in BOOLEAN /\ balanceToSms \in BOOLEAN
    /\ open \in BOOLEAN /\ (open \/ lost)
    /\ pool \in Seq(Frames) /\ line \in Seq([cmd : Names, by : Actors])
    /\ JobsType
    /\ modem \in Modems
    /\ stimuli \in Nat
    /\ lost \in BOOLEAN /\ overlapped \in BOOLEAN /\ eaten \in BOOLEAN /\ crossed \in BOOLEAN
    /\ doubled \in BOOLEAN /\ owed \in BOOLEAN /\ extra \in BOOLEAN /\ garbled \in BOOLEAN
    /\ hungUp \in BOOLEAN

\* The steps that a thread has not finished, and those among them that it has not begun.
Held(a) == IF job[a].pc \in {"run", "wait"} THEN Elems(job[a].todo) ELSE {}
Unsent(a) == CASE job[a].pc = "run" -> Elems(job[a].todo)
               [] job[a].pc = "wait" -> Elems(Tail(job[a].todo))
               [] OTHER -> {}

-----------------------------------------------------------------------------
(* Lists of steps.                                                         *)

LEMMA ListParts ==
    ASSUME NEW t \in Lists, t # <<>>
    PROVE  /\ Head(t) = t[1] /\ Head(t) \in StepNames /\ Len(t) \in Nat \ {0}
           /\ Tail(t) \in Lists /\ Len(Tail(t)) = Len(t) - 1
           /\ \A i \in 1 .. Len(Tail(t)) : Tail(t)[i] = t[i + 1]
           /\ Elems(t) = {Head(t)} \cup Elems(Tail(t))
<1>1. t \in Seq(StepNames)
  BY DEF Lists
<1>2. /\ Head(t) = t[1] /\ Head(t) \in StepNames /\ Len(t) \in Nat \ {0}
      /\ Tail(t) \in Seq(StepNames) /\ Len(Tail(t)) = Len(t) - 1
      /\ \A i \in 1 .. Len(Tail(t)) : Tail(t)[i] = t[i + 1]
  BY <1>1, HeadTailProperties, LenProperties, EmptySeq
<1> DEFINE u == Tail(t)
<1> HIDE DEF u
<1>3. /\ u \in Seq(StepNames) /\ Len(u) = Len(t) - 1
      /\ \A i \in 1 .. Len(u) : u[i] = t[i + 1]
  BY <1>2 DEF u
<1>n. Len(t) \in Nat /\ Len(u) = Len(t) - 1
  BY <1>2, <1>3
<1>4. ASSUME NEW i \in 1 .. Len(u) PROVE Follows(u, i)
  <2>1. i + 1 \in 1 .. Len(t) /\ u[i] = t[i + 1] /\ i \in Nat
    BY <1>2, <1>3
  <2>2. Follows(t, i + 1)
    BY <2>1 DEF Lists
  <2>3. i + 1 < Len(t) => i < Len(u) /\ u[i + 1] = t[(i + 1) + 1]
    BY <1>2, <1>3, <2>1
  <2>4. i + 1 = Len(t) => i = Len(u)
    BY <1>n
  <2> QED
    BY <2>1, <2>2, <2>3, <2>4 DEF Follows
<1>5. ASSUME NEW i \in 1 .. Len(u) - 1 PROVE Precedes(u, i)
  <2>1. i + 1 \in 1 .. Len(t) - 1 /\ i \in 1 .. Len(u) /\ i + 1 \in 1 .. Len(u)
    BY <1>2, <1>3
  <2>2. Precedes(t, i + 1) /\ u[i] = t[i + 1] /\ u[i + 1] = t[(i + 1) + 1]
    BY <1>3, <2>1 DEF Lists
  <2> QED
    BY <2>2 DEF Precedes
<1>6. u \in Lists
  BY <1>3, <1>4, <1>5 DEF Lists
<1>7. Elems(t) = {t[1]} \cup Elems(u)
  <2>1. \A i \in 1 .. Len(t) : i = 1 \/ (i - 1 \in 1 .. Len(u) /\ u[i - 1] = t[i])
    BY <1>2, <1>3
  <2>2. \A i \in 1 .. Len(u) : i + 1 \in 1 .. Len(t) /\ u[i] = t[i + 1]
    BY <1>2, <1>3
  <2>3. 1 \in 1 .. Len(t)
    BY <1>2
  <2>4. ASSUME NEW e \in Elems(t) PROVE e \in {t[1]} \cup Elems(u)
    BY <2>1, <2>4 DEF Elems
  <2>5. ASSUME NEW e \in Elems(u) PROVE e \in Elems(t)
    BY <2>2, <2>5 DEF Elems
  <2>6. t[1] \in Elems(t)
    BY <2>3 DEF Elems
  <2> QED
    BY <2>4, <2>5, <2>6
<1> QED
  BY <1>2, <1>6, <1>7 DEF u

LEMMA EmptyList == <<>> \in Lists /\ Elems(<<>>) = {} /\ Len(<<>>) = 0
BY DEF Lists, Elems

LEMMA Programs ==
    /\ InitModem \in Lists /\ Elems(InitModem) \cap Effects = {} /\ "CMGF1" \in Elems(InitModem)
    /\ GetBalance \in Lists /\ Elems(GetBalance) = {"CMGF1", "CUSD"}
    /\ \A cmd \in {"CBC", "ATD", "CMGR", "ATH0", "CMGD"} : <<cmd>> \in Lists /\ Elems(<<cmd>>) = {cmd}
BY DEF Lists, Elems, InitModem, GetBalance, Follows, Precedes, StepNames, Names, Effects

LEMMA SmsLists ==
    /\ SendSms \o <<"texted">> \in Lists /\ "texted" \in Elems(SendSms \o <<"texted">>)
    /\ Elems(SendSms \o <<"texted">>) \cap Ends = {}
    /\ \A cmd \in {"ATH0", "CMGD"} :
          SendSms \o <<cmd>> \in Lists /\ Elems(SendSms \o <<cmd>>) \cap Effects = {}
<1>1. ASSUME NEW s \in StepNames
      PROVE  SendSms \o <<s>> = <<"CMGF0", "CMGS", "text", "CMGF1", s>>
  <2> DEFINE t == <<"CMGF0", "CMGS", "text", "CMGF1">>
             u == <<"CMGF0", "CMGS", "text", "CMGF1", s>>
             v == Append(t, s)
  <2>0. Len(t) = 4 /\ Len(u) = 5
    OBVIOUS
  <2>1. t \in Seq(StepNames) /\ u \in Seq(StepNames)
    BY DEF StepNames, Names, Effects
  <2>2. s \in StepNames
    BY DEF StepNames, Names, Effects
  <2>3. (\A i \in 1 .. 4 : u[i] = t[i]) /\ u[5] = s
    OBVIOUS
  <2> HIDE DEF t, u, v
  <2>4. /\ v \in Seq(StepNames) /\ Len(v) = 5 /\ v[5] = s
        /\ \A i \in 1 .. 4 : v[i] = t[i]
    <3>1. /\ v \in Seq(StepNames) /\ Len(v) = Len(t) + 1 /\ v[Len(t) + 1] = s
          /\ \A i \in 1 .. Len(t) : v[i] = t[i]
      BY <2>1, <2>2, AppendProperties DEF v
    <3> QED
      BY <2>0, <3>1
  <2>5. \A i \in 1 .. Len(v) : v[i] = u[i]
    BY <2>3, <2>4
  <2>6. v = u
    BY <2>0, <2>1, <2>4, <2>5, SeqEqual
  <2>7. t \o <<s>> = v
    BY <2>1, <2>2, AppendIsConcat DEF v
  <2> QED
    BY <2>6, <2>7 DEF t, u, SendSms
<1>2. /\ <<"CMGF0", "CMGS", "text", "CMGF1", "texted">> \in Lists
      /\ "texted" \in Elems(<<"CMGF0", "CMGS", "text", "CMGF1", "texted">>)
      /\ Elems(<<"CMGF0", "CMGS", "text", "CMGF1", "texted">>) \cap Ends = {}
  BY DEF Lists, Elems, Follows, Precedes, StepNames, Names, Effects, Ends
<1>3. ASSUME NEW cmd \in {"ATH0", "CMGD"}
      PROVE  /\ <<"CMGF0", "CMGS", "text", "CMGF1", cmd>> \in Lists
             /\ Elems(<<"CMGF0", "CMGS", "text", "CMGF1", cmd>>) \cap Effects = {}
  BY DEF Lists, Elems, Follows, Precedes, StepNames, Names, Effects
<1>4. \A s \in {"ATH0", "CMGD", "texted"} : s \in StepNames
  BY DEF StepNames, Names, Effects
<1> QED
  BY <1>1, <1>2, <1>3, <1>4

LEMMA BalanceLists ==
    \A cmd \in {"ATH0", "CMGD"} :
        /\ GetBalance \o <<cmd>> \in Lists /\ Elems(GetBalance \o <<cmd>>) \cap Effects = {}
        /\ "CUSD" \in Elems(GetBalance \o <<cmd>>)
<1> SUFFICES ASSUME NEW cmd \in {"ATH0", "CMGD"}
             PROVE  /\ GetBalance \o <<cmd>> \in Lists
                    /\ Elems(GetBalance \o <<cmd>>) \cap Effects = {}
                    /\ "CUSD" \in Elems(GetBalance \o <<cmd>>)
  OBVIOUS
<1>1. GetBalance \o <<cmd>> = <<"CMGF1", "CUSD", cmd>>
  <2> DEFINE t == <<"CMGF1", "CUSD">>
             u == <<"CMGF1", "CUSD", cmd>>
             v == Append(t, cmd)
  <2>0. Len(t) = 2 /\ Len(u) = 3
    OBVIOUS
  <2>1. t \in Seq(StepNames) /\ u \in Seq(StepNames)
    BY DEF StepNames, Names, Effects
  <2>2. cmd \in StepNames
    BY DEF StepNames, Names, Effects
  <2>3. (\A i \in 1 .. 2 : u[i] = t[i]) /\ u[3] = cmd
    OBVIOUS
  <2> HIDE DEF t, u, v
  <2>4. /\ v \in Seq(StepNames) /\ Len(v) = 3 /\ v[3] = cmd
        /\ \A i \in 1 .. 2 : v[i] = t[i]
    <3>1. /\ v \in Seq(StepNames) /\ Len(v) = Len(t) + 1 /\ v[Len(t) + 1] = cmd
          /\ \A i \in 1 .. Len(t) : v[i] = t[i]
      BY <2>1, <2>2, AppendProperties DEF v
    <3> QED
      BY <2>0, <3>1
  <2>5. \A i \in 1 .. Len(v) : v[i] = u[i]
    BY <2>3, <2>4
  <2>6. v = u
    BY <2>0, <2>1, <2>4, <2>5, SeqEqual
  <2>7. t \o <<cmd>> = v
    BY <2>1, <2>2, AppendIsConcat DEF v
  <2> QED
    BY <2>6, <2>7 DEF t, u, GetBalance
<1>2. /\ <<"CMGF1", "CUSD", cmd>> \in Lists
      /\ Elems(<<"CMGF1", "CUSD", cmd>>) \cap Effects = {}
      /\ "CUSD" \in Elems(<<"CMGF1", "CUSD", cmd>>)
  BY DEF Lists, Elems, Follows, Precedes, StepNames, Names, Effects
<1> QED
  BY <1>1, <1>2

\* What tones or a message make a worker do, up to the command cmd that ends it.
LEMMA CodeLists ==
    ASSUME NEW codes, NEW cmd \in {"ATH0", "CMGD"}
    PROVE  /\ Steps(codes) \o <<cmd>> \in Lists /\ Elems(Steps(codes) \o <<cmd>>) \cap Effects = {}
           /\ "401" \in codes => "CUSD" \in Elems(Steps(codes) \o <<cmd>>)
<1>1. <<>> \o <<cmd>> = <<cmd>>
  OBVIOUS
<1>2. <<cmd>> \in Lists /\ Elems(<<cmd>>) \cap Effects = {}
  BY Programs DEF Effects
<1> QED
  BY <1>1, <1>2, SmsLists, BalanceLists DEF Steps

\* A list with two more steps.
LEMMA TwoMore ==
    ASSUME NEW t \in Seq(StepNames), NEW u \in Seq(StepNames), NEW r \in StepNames, NEW s \in StepNames,
           Len(u) = Len(t) + 2, u[Len(t) + 1] = r, u[Len(t) + 2] = s,
           \A i \in 1 .. Len(t) : u[i] = t[i]
    PROVE  t \o <<r, s>> = u
<1> DEFINE v == <<r, s>>
<1>1. v \in Seq(StepNames) /\ Len(v) = 2 /\ v[1] = r /\ v[2] = s
  OBVIOUS
<1> HIDE DEF v
<1>2. /\ t \o v \in Seq(StepNames) /\ Len(t \o v) = Len(t) + Len(v)
      /\ \A i \in 1 .. Len(t) + Len(v) :
            (t \o v)[i] = IF i <= Len(t) THEN t[i] ELSE v[i - Len(t)]
  BY <1>1, ConcatProperties
<1>3. Len(t) \in Nat
  BY LenProperties
<1>4. ASSUME NEW i \in 1 .. Len(t) + Len(v) PROVE (t \o v)[i] = u[i]
  <2>1. CASE i <= Len(t)
    <3>1. i \in 1 .. Len(t)
      BY <1>3, <2>1
    <3> QED
      BY <1>2, <2>1, <3>1
  <2>2. CASE i = Len(t) + 1
    <3>1. i - Len(t) = 1 /\ ~(i <= Len(t))
      BY <1>3, <2>2
    <3> QED
      BY <1>1, <1>2, <2>2, <3>1
  <2>3. CASE i = Len(t) + 2
    <3>1. i - Len(t) = 2 /\ ~(i <= Len(t))
      BY <1>3, <2>3
    <3> QED
      BY <1>1, <1>2, <2>3, <3>1
  <2>4. i <= Len(t) \/ i = Len(t) + 1 \/ i = Len(t) + 2
    <3> DEFINE n == Len(t)
    <3>1. n \in Nat /\ i \in 1 .. n + 2
      BY <1>1, <1>3
    <3> HIDE DEF n
    <3>2. i <= n \/ i = n + 1 \/ i = n + 2
      BY <3>1
    <3> QED
      BY <3>2 DEF n
  <2> QED
    BY <2>1, <2>2, <2>3, <2>4, Zenon
<1>5. t \o v = u
  BY <1>1, <1>2, <1>4, SeqEqual
<1> QED
  BY <1>5 DEF v

\* What tones make a worker do, and that they begin no message.
LEMMA ToneLists ==
    ASSUME NEW codes
    PROVE  /\ ToneSteps(codes) \in Lists /\ Elems(ToneSteps(codes)) \cap Effects = {}
           /\ "401" \in codes => "CUSD" \in Elems(ToneSteps(codes))
           /\ Head(ToneSteps(codes)) \notin {"CMGS", "text"}
<1> DEFINE Good(t) == t \in Lists /\ Elems(t) \cap Effects = {} /\ Head(t) \notin {"CMGS", "text"}
<1>0. "cleared" \in StepNames /\ "ATH0" \in StepNames
  BY DEF StepNames, Names
<1>1. Good(<<"ATH0">>)
  BY Programs DEF Effects
<1>2. Good(GetBalance \o <<"cleared", "ATH0">>) /\ "CUSD" \in Elems(GetBalance \o <<"cleared", "ATH0">>)
  <2> DEFINE t == <<"CMGF1", "CUSD">>
             u == <<"CMGF1", "CUSD", "cleared", "ATH0">>
  <2>1. /\ t \in Seq(StepNames) /\ u \in Seq(StepNames) /\ Len(t) = 2 /\ Len(u) = 4
        /\ u[1] = t[1] /\ u[2] = t[2] /\ u[3] = "cleared" /\ u[4] = "ATH0"
    BY DEF StepNames, Names
  <2>2. \A i \in 1 .. Len(t) : u[i] = t[i]
    <3> HIDE DEF t, u
    <3>1. \A i \in 1 .. Len(t) : i = 1 \/ i = 2
      BY <2>1
    <3> QED
      BY <2>1, <3>1
  <2>3. t \o <<"cleared", "ATH0">> = u
    <3> HIDE DEF t, u
    <3>1. Len(u) = Len(t) + 2 /\ u[Len(t) + 1] = "cleared" /\ u[Len(t) + 2] = "ATH0"
      BY <2>1
    <3> QED
      BY <1>0, <2>1, <2>2, <3>1, TwoMore
  <2>4. Good(u) /\ "CUSD" \in Elems(u)
    BY DEF Lists, Elems, Follows, Precedes, StepNames, Names, Effects
  <2>5. GetBalance \o <<"cleared", "ATH0">> = u
    BY <2>3 DEF GetBalance
  <2> QED
    BY <2>4, <2>5
<1>3. Good(SendSms \o <<"cleared", "ATH0">>)
  <2> DEFINE t == <<"CMGF0", "CMGS", "text", "CMGF1">>
             u == <<"CMGF0", "CMGS", "text", "CMGF1", "cleared", "ATH0">>
  <2>1. /\ t \in Seq(StepNames) /\ u \in Seq(StepNames) /\ Len(t) = 4 /\ Len(u) = 6
        /\ u[1] = t[1] /\ u[2] = t[2] /\ u[3] = t[3] /\ u[4] = t[4]
        /\ u[5] = "cleared" /\ u[6] = "ATH0"
    BY DEF StepNames, Names
  <2>2. \A i \in 1 .. Len(t) : u[i] = t[i]
    <3> HIDE DEF t, u
    <3>1. \A i \in 1 .. Len(t) : i = 1 \/ i = 2 \/ i = 3 \/ i = 4
      BY <2>1
    <3> QED
      BY <2>1, <3>1
  <2>3. t \o <<"cleared", "ATH0">> = u
    <3> HIDE DEF t, u
    <3>1. Len(u) = Len(t) + 2 /\ u[Len(t) + 1] = "cleared" /\ u[Len(t) + 2] = "ATH0"
      BY <2>1
    <3> QED
      BY <1>0, <2>1, <2>2, <3>1, TwoMore
  <2>4. Good(u)
    BY DEF Lists, Elems, Follows, Precedes, StepNames, Names, Effects
  <2>5. SendSms \o <<"cleared", "ATH0">> = u
    BY <2>3 DEF SendSms
  <2> QED
    BY <2>4, <2>5
<1>4. Good(<<>> \o <<"cleared", "ATH0">>)
  <2>1. <<>> \o <<"cleared", "ATH0">> = <<"cleared", "ATH0">>
    OBVIOUS
  <2>2. Good(<<"cleared", "ATH0">>)
    BY DEF Lists, Elems, Follows, Precedes, StepNames, Names, Effects
  <2> QED
    BY <2>1, <2>2
<1> HIDE DEF Good
<1>5. Good(ToneSteps(codes)) /\ ("401" \in codes => "CUSD" \in Elems(ToneSteps(codes)))
  BY <1>1, <1>2, <1>3, <1>4 DEF ToneSteps, Steps
<1> QED
  BY <1>5 DEF Good

LEMMA RingLists ==
    ASSUME NEW val
    PROVE  /\ RingSteps(val) \in Lists /\ Elems(RingSteps(val)) \subseteq {"ATA", "ATH0"} \cup Ends
           /\ "answered" \in Elems(RingSteps(val)) \/ "hungup" \in Elems(RingSteps(val))
           /\ "hungup" \in Elems(RingSteps(val)) => "ATH0" \in Elems(RingSteps(val))
<1>1. <<"ATA", "answered">> \in Lists /\ Elems(<<"ATA", "answered">>) = {"ATA", "answered"}
  BY DEF Lists, Elems, Follows, Precedes, StepNames, Names, Effects
<1>2. <<"ATH0", "hungup">> \in Lists /\ Elems(<<"ATH0", "hungup">>) = {"ATH0", "hungup"}
  BY DEF Lists, Elems, Follows, Precedes, StepNames, Names, Effects
<1> QED
  BY <1>1, <1>2 DEF RingSteps, Ends

\* A list that a thread begins with does not begin within a message.
Begins(t) == t # <<>> => Head(t) \notin {"CMGS", "text"}

LEMMA Starts ==
    ASSUME NEW codes, NEW cmd \in {"ATH0", "CMGD"}, NEW val
    PROVE  /\ Begins(Steps(codes) \o <<cmd>>) /\ Begins(RingSteps(val)) /\ Begins(SendSms \o <<"texted">>)
           /\ Begins(<<>>) /\ Begins(<<"CMGR">>) /\ Begins(<<"CBC">>) /\ Begins(<<"ATD">>)
           /\ Begins(GetBalance) /\ Begins(InitModem)
<1>1. ASSUME NEW s \in StepNames, NEW t \in {SendSms, GetBalance}
      PROVE  Head(t \o <<s>>) \in {"CMGF0", "CMGF1"}
  <2>1. t \in Seq(StepNames) /\ <<s>> \in Seq(StepNames)
    <3>1. SendSms \in Seq(StepNames)
      BY DEF SendSms, StepNames, Names, Effects
    <3>2. GetBalance \in Seq(StepNames)
      BY DEF GetBalance, StepNames, Names, Effects
    <3> QED
      BY <3>1, <3>2
  <2>2. t[1] \in {"CMGF0", "CMGF1"} /\ 1 \in 1 .. Len(t)
    BY DEF SendSms, GetBalance
  <2>3. (t \o <<s>>)[1] = t[1] /\ t \o <<s>> \in Seq(StepNames)
    BY <2>1, <2>2, ConcatProperties
  <2>4. Head(t \o <<s>>) = (t \o <<s>>)[1]
    OBVIOUS
  <2> QED
    BY <2>2, <2>3, <2>4
<1>2. \A s \in {"ATH0", "CMGD", "texted"} : s \in StepNames
  BY DEF StepNames, Names, Effects
<1>3. Begins(Steps(codes) \o <<cmd>>)
  <2>1. Head(<<>> \o <<cmd>>) = cmd
    OBVIOUS
  <2> QED
    BY <1>1, <1>2, <2>1 DEF Steps, Begins
<1>4. Begins(SendSms \o <<"texted">>)
  BY <1>1, <1>2 DEF Begins
<1>5. /\ Begins(<<>>) /\ Begins(<<"CMGR">>) /\ Begins(<<"CBC">>) /\ Begins(<<"ATD">>)
      /\ Begins(GetBalance) /\ Begins(InitModem)
  BY DEF Begins, GetBalance, InitModem
<1>6. Begins(RingSteps(val))
  BY DEF Begins, RingSteps
<1> QED
  BY <1>3, <1>4, <1>5, <1>6

-----------------------------------------------------------------------------
(* What an action does to the threads.                                     *)

SameJob(x) ==
    /\ job'[x].pc = job[x].pc
    /\ job[x].pc = "enter" => job'[x].frame = job[x].frame
    /\ job[x].pc \in {"run", "wait"} => job'[x].todo = job[x].todo
Others(a) == \A x \in Actors \ {a} : SameJob(x)
\* Thread a is at the step of that name.
At(a, pc, step) == job[a].pc = pc /\ Head(job[a].todo) = step

\* What a thread holds at each place.
LEMMA Places ==
    ASSUME JobsType, NEW a \in Actors
    PROVE  /\ job[a].pc \in {"idle", "enter", "run", "wait"}
           /\ job[a].pc = "idle" => job[a] = Idle
           /\ job[a].pc = "enter" => EnterType(job[a]) /\ a \in Workers
           /\ job[a].pc = "run" => RunType(job[a])
           /\ job[a].pc = "wait" => WaitType(job[a])
           /\ job[a].pc \in {"run", "wait"} =>
                 /\ job[a].todo \in Lists /\ job[a].todo # <<>>
                 /\ a = App => Elems(job[a].todo) \cap Effects = {}
<1>1. JobType(a)
  BY DEF JobsType
<1>2. /\ Idle.pc = "idle"
      /\ EnterType(job[a]) => job[a].pc = "enter"
      /\ RunType(job[a]) => job[a].pc = "run"
      /\ WaitType(job[a]) => job[a].pc = "wait"
  BY DEF Idle, EnterType, RunType, WaitType
<1>3. /\ RunType(job[a]) => job[a].todo \in Lists /\ job[a].todo # <<>>
      /\ WaitType(job[a]) => job[a].todo \in Lists /\ job[a].todo # <<>>
  BY DEF RunType, WaitType
<1> QED
  BY <1>1, <1>2, <1>3 DEF JobType

LEMMA Moved ==
    ASSUME JobsType, NEW a \in Actors, NEW j, job' = [job EXCEPT ![a] = j]
    PROVE  /\ job'[a] = j /\ Others(a)
           /\ \A x \in Actors \ {a} : job'[x] = job[x]
           /\ JobType(a)' => JobsType'
<1>1. job = [x \in Actors |-> job[x]]
  BY DEF JobsType
<1>2. job' = [x \in Actors |-> IF x = a THEN j ELSE job[x]]
  BY <1>1
<1>3. /\ job' = [x \in Actors |-> job'[x]] /\ job'[a] = j
      /\ \A x \in Actors \ {a} : job'[x] = job[x]
  BY <1>2
<1>4. ASSUME NEW x \in Actors \ {a} PROVE JobType(x)'
  <2>1. JobType(x)
    BY DEF JobsType
  <2> QED
    BY <1>3, <2>1 DEF JobType
<1> QED
  BY <1>3, <1>4 DEF Others, SameJob, JobsType

\* Thread a has steps t to do.
LEMMA Runs ==
    ASSUME JobsType, NEW a \in Actors, NEW t \in Lists, job' = [job EXCEPT ![a] = Run(t)],
           a = App => Elems(t) \cap Effects = {}
    PROVE  /\ JobsType' /\ Others(a) /\ job'[a] = Run(t)
           /\ Held(a)' = Elems(t) /\ Unsent(a)' = Elems(t)
           /\ job'[a].pc \in {"idle", "run"}
           /\ job'[a].pc = "run" => job'[a].todo = t
<1>1. job'[a] = Run(t) /\ Others(a) /\ (JobType(a)' => JobsType')
  BY Moved
<1>2. CASE t = <<>>
  <2>1. job'[a] = Idle /\ job'[a].pc = "idle"
    BY <1>1, <1>2 DEF Run, Idle
  <2> QED
    BY <1>1, <1>2, <2>1, EmptyList DEF JobType, Held, Unsent
<1>3. CASE t # <<>>
  <2>1. job'[a] = [pc |-> "run", todo |-> t]
    BY <1>1, <1>3 DEF Run
  <2>2. job'[a].pc = "run" /\ job'[a].todo = t /\ RunType(job'[a])
    BY <1>3, <2>1 DEF RunType
  <2>3. JobType(a)'
    BY <2>2 DEF JobType
  <2> QED
    BY <1>1, <2>2, <2>3 DEF Held, Unsent
<1> QED
  BY <1>2, <1>3

\* Thread a is done with a step.
LEMMA GoesOn ==
    ASSUME JobsType, NEW a \in Actors, job[a].pc \in {"run", "wait"}, Next1(a)
    PROVE  LET t == job[a].todo IN
           /\ JobsType' /\ Others(a) /\ job'[a] = Run(Tail(t)) /\ t \in Lists /\ t # <<>>
           /\ Held(a)' = Elems(Tail(t)) /\ Unsent(a)' = Elems(Tail(t))
           /\ Held(a) = {Head(t)} \cup Elems(Tail(t))
           /\ job[a].pc = "wait" => Unsent(a) = Elems(Tail(t)) /\ Head(t) \in Names
           /\ job[a].pc = "run" => Unsent(a) = Held(a)
           /\ job'[a].pc \in {"idle", "run"}
           /\ job'[a].pc = "run" => job'[a].todo = Tail(t)
<1> DEFINE t == job[a].todo
<1>1. /\ t \in Lists /\ t # <<>> /\ (a = App => Elems(t) \cap Effects = {})
      /\ job[a].pc = "wait" => WaitType(job[a])
  BY Places
<1>2. /\ Tail(t) \in Lists /\ Elems(t) = {Head(t)} \cup Elems(Tail(t))
  BY <1>1, ListParts
<1>3. /\ JobsType' /\ Others(a) /\ job'[a] = Run(Tail(t))
      /\ Held(a)' = Elems(Tail(t)) /\ Unsent(a)' = Elems(Tail(t))
      /\ job'[a].pc \in {"idle", "run"}
      /\ job'[a].pc = "run" => job'[a].todo = Tail(t)
  <2>1. a = App => Elems(Tail(t)) \cap Effects = {}
    BY <1>1, <1>2
  <2>2. job' = [job EXCEPT ![a] = Run(Tail(t))]
    BY DEF Next1
  <2> QED
    BY <1>2, <2>1, <2>2, Runs
<1>4. Held(a) = Elems(t)
  BY DEF Held
<1>5. job[a].pc = "wait" => Unsent(a) = Elems(Tail(t)) /\ Head(t) \in Names
  BY <1>1 DEF Unsent, WaitType
<1>6. job[a].pc = "run" => Unsent(a) = Elems(t)
  BY DEF Unsent
<1> QED
  BY <1>1, <1>2, <1>3, <1>4, <1>5, <1>6

\* Thread a has sent a command.
LEMMA Sends ==
    ASSUME JobsType, NEW a \in Actors, Send(a)
    PROVE  LET t == job[a].todo IN
           /\ JobsType' /\ Others(a) /\ job[a].pc = "run" /\ Head(t) \in Names
           /\ t \in Lists /\ t # <<>>
           /\ job'[a].pc = "wait" /\ job'[a].todo = t /\ job'[a].done = FALSE
           /\ job'[a].quiet = ~Answering(WaitOf(Head(t)))
           /\ Held(a)' = Held(a) /\ Unsent(a) = Held(a) /\ Held(a) = Elems(t)
           /\ Unsent(a)' = Elems(Tail(t)) /\ Unsent(a) = {Head(t)} \cup Elems(Tail(t))
<1> DEFINE t == job[a].todo
           q == ~Answering(WaitOf(Head(t)))
           new(x) == IF x = a THEN [pc |-> "wait", todo |-> t, done |-> FALSE, quiet |-> q]
                     ELSE IF job[x].pc = "wait" /\ WaitOf(Head(job[x].todo)) = EmitOf(Head(t))
                     THEN [job[x] EXCEPT !.quiet = FALSE] ELSE job[x]
<1>1. /\ job[a].pc = "run" /\ Head(t) \in Names /\ job' = [x \in Actors |-> new(x)]
  BY DEF Send, AtCommand
<1>2. t \in Lists /\ t # <<>> /\ (a = App => Elems(t) \cap Effects = {})
  BY <1>1, Places
<1>q. q \in BOOLEAN
  BY DEF Answering
<1>3. job'[a] = [pc |-> "wait", todo |-> t, done |-> FALSE, quiet |-> q]
  BY <1>1
<1> HIDE DEF q
<1>4. /\ job'[a].pc = "wait" /\ job'[a].todo = t /\ job'[a].done = FALSE /\ job'[a].quiet = q
      /\ WaitType(job'[a])
  BY <1>1, <1>2, <1>3, <1>q DEF WaitType
<1>5. JobType(a)'
  BY <1>2, <1>4 DEF JobType
<1>6. ASSUME NEW x \in Actors \ {a} PROVE SameJob(x) /\ JobType(x)'
  <2>0. JobType(x)
    BY DEF JobsType
  <2>1. CASE job'[x] = job[x]
    BY <2>0, <2>1 DEF SameJob, JobType
  <2>2. CASE job[x].pc = "wait" /\ job'[x] = [job[x] EXCEPT !.quiet = FALSE]
    <3>1. WaitType(job[x]) /\ (x = App => Elems(job[x].todo) \cap Effects = {})
      BY <2>2, Places
    <3>2. /\ job'[x].pc = "wait" /\ job'[x].todo = job[x].todo /\ WaitType(job'[x])
      BY <2>2, <3>1 DEF WaitType
    <3> QED
      BY <2>2, <3>1, <3>2 DEF SameJob, JobType
  <2>3. job'[x] = new(x)
    BY <1>1
  <2> QED
    BY <2>1, <2>2, <2>3
<1>7. job' = [x \in Actors |-> job'[x]]
  BY <1>1
<1>8. JobsType' /\ Others(a)
  BY <1>5, <1>6, <1>7 DEF JobsType, Others
<1>9. Elems(t) = {Head(t)} \cup Elems(Tail(t))
  BY <1>2, ListParts
<1>10. /\ Held(a) = Elems(t) /\ Unsent(a) = Elems(t)
       /\ Held(a)' = Elems(t) /\ Unsent(a)' = Elems(Tail(t))
  BY <1>1, <1>4 DEF Held, Unsent
<1> QED
  BY <1>1, <1>2, <1>4, <1>8, <1>9, <1>10 DEF q

\* A worker takes the oldest frame.
LEMMA Takes ==
    ASSUME JobsType, pool \in Seq(Frames), NEW w \in Workers, Take(w)
    PROVE  /\ JobsType' /\ Others(w) /\ job[w].pc = "idle"
           /\ job'[w].pc = "enter" /\ job'[w].frame = Head(pool)
           /\ Head(pool) = pool[1] /\ Head(pool) \in Frames /\ pool' \in Seq(Frames)
           /\ Len(pool) \in Nat \ {0} /\ Len(pool') = Len(pool) - 1
           /\ \A i \in 1 .. Len(pool') : pool'[i] = pool[i + 1]
<1>1. /\ Head(pool) = pool[1] /\ Head(pool) \in Frames /\ pool' \in Seq(Frames)
      /\ Len(pool) \in Nat \ {0} /\ Len(pool') = Len(pool) - 1
      /\ \A i \in 1 .. Len(pool') : pool'[i] = pool[i + 1]
  BY HeadTailProperties, LenProperties, EmptySeq DEF Take
<1>2. job' = [job EXCEPT ![w] = [pc |-> "enter", frame |-> Head(pool)]] /\ w \in Actors
  BY DEF Take, Actors
<1>3. job'[w] = [pc |-> "enter", frame |-> Head(pool)] /\ Others(w) /\ (JobType(w)' => JobsType')
  BY <1>2, Moved
<1>4. job'[w].pc = "enter" /\ job'[w].frame = Head(pool) /\ EnterType(job'[w])
  BY <1>1, <1>3 DEF EnterType
<1>5. JobType(w)'
  BY <1>4 DEF JobType
<1> QED
  BY <1>1, <1>3, <1>4, <1>5, Places DEF Take, Busy, Actors

\* A worker handles its frame: it has steps t to do.
LEMMA Handles ==
    ASSUME JobsType, NEW w \in Workers, job[w].pc = "enter", NEW t \in Lists, Continue(w, t)
    PROVE  /\ JobsType' /\ Others(w) /\ job[w].frame \in Frames
           /\ Held(w) = {} /\ Unsent(w) = {} /\ Held(w)' = Elems(t) /\ Unsent(w)' = Elems(t)
           /\ job'[w].pc \in {"idle", "run"} /\ (job'[w].pc = "run" => job'[w].todo = t)
<1>1. w \in Actors /\ w # App /\ job' = [job EXCEPT ![w] = Run(t)]
  BY ModemAssumption DEF Continue, Actors
<1>2. EnterType(job[w])
  BY <1>1, Places
<1> QED
  BY <1>1, <1>2, Runs DEF EnterType, Held, Unsent

\* The modem obeys, or a call ends: only who waits is concerned.
LEMMA Noticed ==
    ASSUME JobsType, job' = [x \in Actors |-> job'[x]],
           \A x \in Actors :
               \/ job'[x] = job[x]
               \/ job[x].pc = "wait" /\ (\/ job'[x] = [job[x] EXCEPT !.quiet = FALSE]
                                         \/ job'[x] = [job[x] EXCEPT !.done = TRUE])
    PROVE  JobsType' /\ \A x \in Actors : SameJob(x)
<1>1. ASSUME NEW x \in Actors PROVE JobType(x)' /\ SameJob(x)
  <2>0. JobType(x)
    BY DEF JobsType
  <2>1. CASE job'[x] = job[x]
    BY <2>0, <2>1 DEF SameJob, JobType
  <2>2. CASE /\ job[x].pc = "wait"
             /\ \/ job'[x] = [job[x] EXCEPT !.quiet = FALSE]
                \/ job'[x] = [job[x] EXCEPT !.done = TRUE]
    <3>1. WaitType(job[x]) /\ (x = App => Elems(job[x].todo) \cap Effects = {})
      BY <2>2, Places
    <3>2. /\ job'[x].pc = "wait" /\ job'[x].todo = job[x].todo /\ WaitType(job'[x])
      BY <2>2, <3>1 DEF WaitType
    <3> QED
      BY <2>2, <3>1, <3>2 DEF SameJob, JobType
  <2> QED
    BY <2>1, <2>2
<1> QED
  BY <1>1 DEF JobsType

\* The oldest command.
LEMMA Oldest ==
    ASSUME line \in Seq([cmd : Names, by : Actors]), line # <<>>, line' = Tail(line)
    PROVE  /\ Head(line) = line[1] /\ line[1].cmd \in Names /\ line[1].by \in Actors
           /\ Len(line) \in Nat \ {0} /\ Len(line') = Len(line) - 1
           /\ line' \in Seq([cmd : Names, by : Actors])
           /\ \A i \in 1 .. Len(line') : line'[i] = line[i + 1]
<1>1. Head(line) \in [cmd : Names, by : Actors]
  BY HeadTailProperties
<1> QED
  BY <1>1, HeadTailProperties, LenProperties, EmptySeq

LEMMA Obeys ==
    ASSUME JobsType, line \in Seq([cmd : Names, by : Actors]), Obey
    PROVE  /\ JobsType' /\ \A x \in Actors : SameJob(x)
           /\ line[1].cmd \in Names /\ line[1].by \in Actors
           /\ Head(line) = line[1] /\ line # <<>> /\ line' = Tail(line)
           /\ \A a \in Actors : /\ job'[a].quiet = job[a].quiet
                                /\ job'[a].done = job[a].done \/ job'[a].done = TRUE
<1>1. line # <<>> /\ line' = Tail(line) /\ line[1].by \in Actors /\ Head(line) = line[1]
      /\ line[1].cmd \in Names
  BY Oldest DEF Obey
<1>2. job' = job \/ (/\ job[line[1].by].pc = "wait"
                     /\ job' = [job EXCEPT ![line[1].by] = [job[line[1].by] EXCEPT !.done = TRUE]])
  BY <1>1 DEF Obey
<1>3. /\ job' = [x \in Actors |-> job'[x]]
      /\ \A x \in Actors : \/ job'[x] = job[x]
                           \/ job[x].pc = "wait" /\ job'[x] = [job[x] EXCEPT !.done = TRUE]
  <2>1. job = [x \in Actors |-> job[x]]
    BY DEF JobsType
  <2> QED
    BY <1>1, <1>2, <2>1
<1>4. \A x \in Actors : job[x].pc = "wait" => WaitType(job[x])
  BY Places
<1>5. \A x \in Actors : job'[x].quiet = job[x].quiet
                        /\ (job'[x].done = job[x].done \/ job'[x].done = TRUE)
  BY <1>3, <1>4 DEF WaitType
<1> QED
  BY <1>1, <1>3, <1>5, Noticed

LEMMA StepCases ==
    ASSUME [Next]_vars, NEW P,
           \A a \in Actors : Send(a) => P,
           \A a \in Actors : SendFails(a) => P,
           \A a \in Actors : Woken(a) => P,
           \A a \in Actors : TimeOut(a) => P,
           \A a \in Actors : Effect(a) => P,
           \A a \in Actors : ClearTones(a) => P,
           \A w \in Workers : Take(w) => P,
           \A w \in Workers : Answer(w) => P,
           \A w \in Workers : Ring(w) => P,
           \A w \in Workers : Tones(w) => P,
           \A w \in Workers : Message(w) => P,
           \A w \in Workers : Balance(w) => P,
           Obey => P, Ussd => P,
           \A s \in Stimuli : Stimulate(s) => P,
           UNCHANGED vars => P
    PROVE  P
BY DEF Next, Thread, Worker

\* The program's own commands.
Asked == {GetBalance, <<"CBC">>, <<"ATD">>}

\* What happens outside, and what App begins.
LEMMA Stimulated ==
    ASSUME JobsType, modem \in Modems, stimuli \in Nat, NEW s \in Stimuli, Stimulate(s)
    PROVE  /\ UNCHANGED <<events, isCall, toneCmd, toneStarted, balanceToSms, line, overlapped,
                          eaten, crossed, doubled, owed, extra, garbled>>
           /\ stimuli' \in Nat /\ (lost => lost') /\ (lost' = lost \/ lost' = TRUE)
           /\ open' \in BOOLEAN /\ (open => open' \/ lost')
           /\ modem' \in Modems
           /\ modem'.mode = modem.mode /\ modem'.prompt = modem.prompt /\ modem'.ussd = modem.ussd
           /\ modem'.call = "active" => modem.call = "active"
           /\ JobsType'
           /\ \/ \A x \in Actors : SameJob(x)
              \/ /\ job[App].pc = "idle" /\ Others(App)
                 /\ \E t \in Lists : /\ Elems(t) \cap Effects = {} /\ Begins(t)
                                     /\ job' = [job EXCEPT ![App] = Run(t)]
                                     /\ Held(App)' = Elems(t) /\ Unsent(App)' = Elems(t)
                                     /\ job'[App].pc \in {"idle", "run"}
                                     /\ job'[App].pc = "run" => job'[App].todo = t
           /\ pool' = pool \/ \E f \in Frames : pool' = Append(pool, f) /\ f.kind # "answer"
                                                /\ (f.kind = "hangup" => HangUp)
           /\ hungUp' \in {hungUp, TRUE, FALSE}
<1>1. /\ UNCHANGED <<events, isCall, toneCmd, toneStarted, balanceToSms, line, overlapped, eaten,
                     crossed, doubled, owed, extra, garbled>>
      /\ open' = (open /\ s # "disconnect") /\ stimuli' = stimuli + Weight(s)
  BY DEF Stimulate, flags
<1>2. stimuli' \in Nat
  BY <1>1, ModemAssumption
<1> DEFINE Jobs == \/ \A x \in Actors : SameJob(x)
                   \/ /\ job[App].pc = "idle" /\ Others(App)
                      /\ \E t \in Lists :
                            /\ Elems(t) \cap Effects = {} /\ Begins(t)
                            /\ job' = [job EXCEPT ![App] = Run(t)]
                            /\ Held(App)' = Elems(t) /\ Unsent(App)' = Elems(t)
                            /\ job'[App].pc \in {"idle", "run"}
                            /\ job'[App].pc = "run" => job'[App].todo = t
           Pool == pool' = pool \/ \E f \in Frames : /\ pool' = Append(pool, f) /\ f.kind # "answer"
                                                     /\ f.kind = "hangup" => HangUp
           World == /\ modem' \in Modems /\ modem'.mode = modem.mode
                    /\ modem'.prompt = modem.prompt /\ modem'.ussd = modem.ussd
                    /\ modem'.call = "active" => modem.call = "active"
           P == World /\ JobsType' /\ Jobs /\ Pool /\ hungUp' \in {hungUp, TRUE, FALSE}
                /\ (lost' = lost \/ (lost' = TRUE /\ s = "disconnect"))
                /\ (s = "disconnect" => lost' = TRUE)
<1>s. ASSUME UNCHANGED job PROVE JobsType' /\ Jobs
  BY <1>s DEF JobsType, JobType, SameJob
<1>f. ASSUME NEW f \in Frames, Say(f), f.kind # "answer", f.kind = "hangup" => HangUp PROVE Pool
  BY <1>f DEF Say
<1>3. ASSUME s = "call", NEW who \in {"own", "other"}, Call(who) PROVE P
  <2>1. [kind |-> "ring", val |-> who] \in Frames
    BY DEF Frames, Rings
  <2>2. Pool
    BY <1>3, <1>f, <2>1 DEF Call
  <2>3. World
    BY <1>3 DEF Call, Modems
  <2> QED
    BY <1>3, <1>s, <2>2, <2>3 DEF Call
<1>4. ASSUME s = "hangup", HangUp PROVE P
  <2>1. [kind |-> "hangup", val |-> ""] \in Frames
    BY DEF Frames, Simple
  <2>2. Pool
    BY <1>4, <1>f, <2>1 DEF HangUp
  <2>3. World /\ hungUp' \in {hungUp, TRUE, FALSE}
    BY <1>4 DEF HangUp, Modems
  <2>4. JobsType' /\ \A x \in Actors : SameJob(x)
    <3>1. job' = [x \in Actors |-> job'[x]]
          /\ \A x \in Actors : \/ job'[x] = job[x]
                               \/ job[x].pc = "wait" /\ job'[x] = [job[x] EXCEPT !.quiet = FALSE]
      BY <1>4 DEF HangUp
    <3> QED
      BY <3>1, Noticed
  <2> QED
    BY <1>4, <2>2, <2>3, <2>4 DEF HangUp
<1>5. ASSUME s = "tones", NEW chunk \in Chunks, Dial(chunk) PROVE P
  <2>1. [kind |-> "tones", val |-> chunk] \in Frames
    BY DEF Frames, ToneFrames
  <2>2. Pool
    BY <1>5, <1>f, <2>1 DEF Dial
  <2> QED
    BY <1>5, <1>s, <2>2 DEF Dial
<1>6. ASSUME s = "sms", NEW val \in Codes \cup {"other"}, Sms(val) PROVE P
  <2>1. [kind |-> "arrived", val |-> ""] \in Frames
    BY DEF Frames, Simple
  <2>2. Pool
    BY <1>6, <1>f, <2>1 DEF Sms
  <2>3. World
    BY <1>6 DEF Sms, Modems
  <2> QED
    BY <1>6, <1>s, <2>2, <2>3 DEF Sms
<1>7. ASSUME s # "disconnect", NEW t \in Asked, Program(t) PROVE P
  <2>1. t \in Lists /\ Elems(t) \cap Effects = {} /\ Begins(t)
    BY Programs, Starts DEF Asked, Effects
  <2>2. job' = [job EXCEPT ![App] = Run(t)] /\ App \in Actors /\ job[App].pc = "idle"
    BY <1>7, Places DEF Program, Actors, Busy
  <2>3. JobsType' /\ Jobs
    BY <2>1, <2>2, Runs
  <2> QED
    BY <1>7, <2>3 DEF Program
<1>8. ASSUME s = "disconnect", Disconnect PROVE P
  BY <1>8, <1>s DEF Disconnect
<1> HIDE DEF P
<1>9. P
  BY <1>3, <1>4, <1>5, <1>6, <1>7, <1>8 DEF Stimulate, Asked
<1>10. World /\ JobsType' /\ Jobs /\ Pool /\ hungUp' \in {hungUp, TRUE, FALSE}
  BY <1>9 DEF P
<1>11. (lost => lost') /\ (lost' = lost \/ lost' = TRUE) /\ (s = "disconnect" => lost' = TRUE)
  BY <1>9 DEF P
<1> HIDE DEF World, Jobs, Pool
<1>12. open' \in BOOLEAN /\ (open => open' \/ lost')
  BY <1>1, <1>11, Zenon
<1> QED
  BY <1>1, <1>2, <1>10, <1>11, <1>12 DEF World, Jobs, Pool

-----------------------------------------------------------------------------
(* Types.                                                                  *)

LEMMA TypeInit == Init => TypeInv
<1> SUFFICES ASSUME Init PROVE TypeInv
  OBVIOUS
<1>1. \A a \in Actors : job[a] = IF a = App THEN Run(InitModem) ELSE Idle
  BY DEF Init
<1>2. RunType(Run(InitModem))
  <2>1. InitModem # <<>> /\ InitModem \in Lists
    BY Programs DEF InitModem
  <2> QED
    BY <2>1 DEF Run, RunType
<1>3. Run(InitModem).todo = InitModem
  BY DEF Run, InitModem
<1>4. \A a \in Actors : JobType(a)
  BY <1>1, <1>2, <1>3, Programs DEF JobType
<1>5. job = [a \in Actors |-> job[a]]
  BY DEF Init
<1>6. modem \in Modems
  BY DEF Init, Modems
<1>7. pool \in Seq(Frames) /\ line \in Seq([cmd : Names, by : Actors]) /\ events \subseteq Emitted
  BY DEF Init
<1> QED
  BY <1>4, <1>5, <1>6, <1>7 DEF Init, TypeInv, JobsType

LEMMA TypeStep == TypeInv /\ [Next]_vars => TypeInv'
<1> SUFFICES ASSUME TypeInv, [Next]_vars PROVE TypeInv'
  OBVIOUS
<1>0. JobsType /\ pool \in Seq(Frames) /\ line \in Seq([cmd : Names, by : Actors])
  BY DEF TypeInv
<1> USE DEF flags, history
<1>1. ASSUME NEW a \in Actors, Send(a) PROVE TypeInv'
  <2>1. JobsType' /\ Head(job[a].todo) \in Names
    BY <1>0, <1>1, Sends
  <2>2. line' \in Seq([cmd : Names, by : Actors])
    BY <1>0, <1>1, <2>1, AppendProperties DEF Send
  <2>3. overlapped' \in BOOLEAN /\ events' \subseteq Emitted
    BY <1>1 DEF Send, TypeInv
  <2> QED
    BY <1>1, <2>1, <2>2, <2>3 DEF Send, TypeInv
<1>2. ASSUME NEW a \in Actors, SendFails(a) PROVE TypeInv'
  <2>1. JobsType'
    BY <1>0, <1>2, GoesOn DEF SendFails, AtCommand
  <2> QED
    BY <1>2, <2>1 DEF SendFails, TypeInv
<1>3. ASSUME NEW a \in Actors, Woken(a) \/ TimeOut(a) \/ ClearTones(a) PROVE TypeInv'
  <2>1. JobsType'
    BY <1>0, <1>3, GoesOn DEF Woken, TimeOut, ClearTones
  <2> QED
    BY <1>3, <2>1 DEF Woken, TimeOut, ClearTones, TypeInv
<1>4. ASSUME NEW a \in Actors, Effect(a) PROVE TypeInv'
  <2>1. JobsType'
    BY <1>0, <1>4, GoesOn DEF Effect
  <2>2. isCall' \in BOOLEAN /\ balanceToSms' \in BOOLEAN
    BY <1>4 DEF Effect, TypeInv
  <2> QED
    BY <1>4, <2>1, <2>2 DEF Effect, TypeInv
<1>5. ASSUME NEW w \in Workers, Take(w) PROVE TypeInv'
  <2>1. JobsType' /\ pool' \in Seq(Frames)
    BY <1>0, <1>5, Takes
  <2>2. UNCHANGED <<events, flags, open, line, modem, stimuli, history>>
    BY <1>5 DEF Take
  <2> QED
    BY <2>1, <2>2 DEF TypeInv
<1>6. ASSUME NEW w \in Workers, Answer(w) PROVE TypeInv'
  <2>1. JobsType' /\ job[w].frame \in Frames
    BY <1>0, <1>6, EmptyList, Handles DEF Answer, Entered
  <2>2. events' \subseteq Emitted
    <3>1. Entered(w, "answer") => job[w].frame.val \in Emitted
      BY <2>1 DEF Entered, Frames, Answers, Simple, Rings, Messages, ToneFrames
    <3>2. "OK" \in Emitted
      <4>1. "text" \in Names /\ EmitOf("text") = "OK"
        BY DEF Names, EmitOf
      <4> QED
        BY <4>1 DEF Emitted
    <3> QED
      BY <1>6, <3>1, <3>2 DEF Answer, TypeInv
  <2> QED
    BY <1>6, <2>1, <2>2 DEF Answer, TypeInv
<1>7. ASSUME NEW w \in Workers, Ring(w) PROVE TypeInv'
  <2>1. JobsType'
    BY <1>0, <1>7, RingLists, Handles DEF Ring, Entered
  <2>2. crossed' \in BOOLEAN
    BY <1>7 DEF Ring, TypeInv
  <2> QED
    BY <1>7, <2>1, <2>2 DEF Ring, TypeInv
<1>8. ASSUME NEW w \in Workers, Tones(w) PROVE TypeInv'
  <2>1. JobsType'
    BY <1>0, <1>8, ToneLists, EmptyList, Handles DEF Tones, Entered
  <2>2. toneStarted' \in BOOLEAN /\ balanceToSms' \in BOOLEAN /\ owed' \in BOOLEAN
        /\ doubled' \in BOOLEAN
    BY <1>8 DEF Tones, Execute, TypeInv
  <2> QED
    BY <1>8, <2>1, <2>2 DEF Tones, TypeInv
<1>9. ASSUME NEW w \in Workers, Message(w) PROVE TypeInv'
  <2>1. JobsType'
    BY <1>0, <1>9, CodeLists, Programs, Handles DEF Message, Entered
  <2>2. balanceToSms' \in BOOLEAN /\ owed' \in BOOLEAN /\ doubled' \in BOOLEAN
    BY <1>9 DEF Message, Execute, TypeInv
  <2> QED
    BY <1>9, <2>1, <2>2 DEF Message, TypeInv
<1>10. ASSUME NEW w \in Workers, Balance(w) PROVE TypeInv'
  <2>1. JobsType'
    BY <1>0, <1>10, SmsLists, EmptyList, Handles DEF Balance, Entered
  <2>2. owed' \in BOOLEAN /\ extra' \in BOOLEAN /\ doubled' \in BOOLEAN
    BY <1>10 DEF Balance, TypeInv
  <2> QED
    BY <1>10, <2>1, <2>2 DEF Balance, TypeInv
<1>11. ASSUME Obey PROVE TypeInv'
  <2> DEFINE item == Head(line)
  <2>1. /\ JobsType' /\ item.cmd \in Names /\ line' \in Seq([cmd : Names, by : Actors])
    BY <1>0, <1>11, Obeys, Oldest
  <2> HIDE DEF item
  <2>2. modem' \in Modems
    <3>1. State(item) \in Modems
      BY DEF State, TypeInv, Modems
    <3> QED
      BY <1>11, <3>1 DEF Obey, TypeInv, item
  <2>3. pool' \in Seq(Frames)
    <3>1. Reply(item) \in Frames
      <4>1. [kind |-> "sms", val |-> modem.inbox] \in Messages
        BY DEF TypeInv, Modems, Messages
      <4>2. [kind |-> "battery", val |-> ""] \in Simple
        BY DEF Simple
      <4>3. [kind |-> "answer", val |-> EmitOf(item.cmd)] \in Answers
        BY <2>1 DEF Answers, Emitted
      <4>4. [kind |-> "ring", val |-> "other"] \in Rings
        BY DEF Rings
      <4> QED
        BY <4>1, <4>2, <4>3, <4>4 DEF Reply, Frames
    <3>2. pool' = pool \/ pool' = Append(pool, Reply(item))
      BY <1>11 DEF Obey, item
    <3> QED
      BY <1>0, <3>1, <3>2, AppendProperties
  <2>4. eaten' \in BOOLEAN /\ garbled' \in BOOLEAN /\ lost' \in BOOLEAN
    BY <1>11 DEF Obey, TypeInv
  <2>5. open' \/ lost'
    BY <1>11 DEF Obey, TypeInv
  <2> QED
    BY <1>11, <2>1, <2>2, <2>3, <2>4, <2>5 DEF Obey, TypeInv
<1>12. ASSUME Ussd PROVE TypeInv'
  <2>1. [kind |-> "balance", val |-> ""] \in Frames
    BY DEF Frames, Simple
  <2>2. pool' \in Seq(Frames)
    BY <1>0, <1>12, <2>1, AppendProperties DEF Ussd, Say
  <2>3. modem' \in Modems
    BY <1>12 DEF Ussd, TypeInv, Modems
  <2>4. JobsType'
    BY <1>0, <1>12 DEF Ussd, JobsType, JobType
  <2>5. UNCHANGED <<events, flags, open, line, stimuli, history>>
    BY <1>12 DEF Ussd
  <2> QED
    BY <2>2, <2>3, <2>4, <2>5 DEF TypeInv
<1>13. ASSUME NEW s \in Stimuli, Stimulate(s) PROVE TypeInv'
  <2>0. modem \in Modems /\ stimuli \in Nat
    BY DEF TypeInv
  <2>1. /\ UNCHANGED <<events, isCall, toneCmd, toneStarted, balanceToSms, line, overlapped,
                       eaten, crossed, doubled, owed, extra, garbled>>
        /\ stimuli' \in Nat /\ lost' \in {lost, TRUE} /\ (lost => lost')
        /\ open' \in BOOLEAN /\ (open => open' \/ lost')
        /\ modem' \in Modems /\ JobsType'
        /\ pool' = pool \/ \E f \in Frames : pool' = Append(pool, f)
        /\ hungUp' \in {hungUp, TRUE, FALSE}
    BY <1>0, <1>13, <2>0, Stimulated
  <2>2. pool' \in Seq(Frames)
    BY <1>0, <2>1, AppendProperties
  <2>3. lost' \in BOOLEAN /\ hungUp' \in BOOLEAN /\ (open' \/ lost')
    BY <2>1, Zenon DEF TypeInv
  <2> QED
    BY <2>1, <2>2, <2>3 DEF TypeInv
<1>14. ASSUME UNCHANGED vars PROVE TypeInv'
  <2>1. JobsType'
    BY <1>0, <1>14 DEF vars, JobsType, JobType
  <2> QED
    BY <1>14, <2>1 DEF vars, TypeInv
<1> QED
  BY <1>1, <1>2, <1>3, <1>4, <1>5, <1>6, <1>7, <1>8, <1>9, <1>10, <1>11, <1>12, <1>13, <1>14,
     StepCases

\* Every variable keeps its type: what a thread still has to do is the end of one of the lists of
\* the code, and no event is emitted that only a wait knows.
THEOREM TypeCorrect == Spec => []TypeInv
BY TypeInit, TypeStep, PTL DEF Spec

-----------------------------------------------------------------------------
(* Which steps a thread gets, and which it gets rid of.                    *)

LEMMA Unmoved ==
    ASSUME JobsType, NEW x \in Actors, SameJob(x)
    PROVE  /\ Held(x)' = Held(x) /\ Unsent(x)' = Unsent(x)
           /\ \A pc \in {"run", "wait"} : \A step : At(x, pc, step)' <=> At(x, pc, step)
<1>1. job[x].pc \in {"idle", "enter", "run", "wait"}
  BY Places
<1> QED
  BY <1>1 DEF SameJob, Held, Unsent, At

\* A command that has to be sent is sent, or something is lost; an effect takes place; only
\* a ring and a balance bring effects.
Carries(a) ==
    /\ \A s \in Names :
          s \in Unsent(a) => s \in Unsent(a)' \/ (Send(a) /\ s = Head(job[a].todo)) \/ lost'
    /\ \A s \in Effects :
          s \in Held(a) => s \in Held(a)' \/ (Effect(a) /\ s = Head(job[a].todo))
    /\ \A s \in Effects :
          s \in Held(a)' => s \in Held(a) \/ (a \in Workers /\ (Ring(a) \/ Balance(a)))

LEMMA Carried == TypeInv /\ [Next]_vars => \A a \in Actors : Carries(a)
<1> SUFFICES ASSUME TypeInv, [Next]_vars PROVE \A a \in Actors : Carries(a)
  OBVIOUS
<1> DEFINE P == \A a \in Actors : Carries(a)
<1>0. JobsType /\ pool \in Seq(Frames) /\ line \in Seq([cmd : Names, by : Actors])
  BY DEF TypeInv
<1>d. (\A s : ~(s \in Names /\ s \in Effects)) /\ "cleared" \notin Names \cup Effects
  BY DEF Names, Effects
<1>u. ASSUME NEW x \in Actors, SameJob(x) PROVE Carries(x)
  BY <1>0, <1>u, Unmoved DEF Carries
<1>a. ASSUME NEW a \in Actors, Others(a), Carries(a) PROVE P
  BY <1>a, <1>u DEF Others
<1>1. ASSUME NEW a \in Actors, Send(a) PROVE P
  BY <1>0, <1>1, <1>a, Sends DEF Carries
<1>2. ASSUME NEW a \in Actors, SendFails(a) PROVE P
  BY <1>0, <1>2, <1>a, <1>d, GoesOn DEF SendFails, AtCommand, Carries
<1>3. ASSUME NEW a \in Actors, Woken(a) \/ TimeOut(a) \/ ClearTones(a) PROVE P
  BY <1>0, <1>3, <1>a, <1>d, GoesOn DEF Woken, TimeOut, ClearTones, Carries
<1>4. ASSUME NEW a \in Actors, Effect(a) PROVE P
  <2>1. /\ Others(a) /\ Head(job[a].todo) \in Effects
        /\ Held(a)' = Unsent(a)' /\ Unsent(a) = Held(a)
        /\ Held(a) = {Head(job[a].todo)} \cup Held(a)'
    BY <1>0, <1>4, GoesOn DEF Effect
  <2> QED
    BY <1>4, <1>a, <1>d, <2>1 DEF Carries
<1>5. ASSUME NEW w \in Workers, Take(w) PROVE P
  <2>1. Others(w) /\ Held(w) = {} /\ Unsent(w) = {} /\ Held(w)' = {}
    BY <1>0, <1>5, Takes DEF Held, Unsent
  <2> QED
    BY <1>a, <2>1 DEF Carries, Actors
\* A worker gets a list without effects.
<1>h. ASSUME NEW w \in Workers, job[w].pc = "enter", NEW t \in Lists, Continue(w, t),
             Elems(t) \cap Effects = {} \/ Ring(w) \/ Balance(w)
      PROVE  P
  <2>1. Others(w) /\ Held(w) = {} /\ Unsent(w) = {} /\ Held(w)' = Elems(t)
    BY <1>0, <1>h, Handles
  <2>2. Carries(w)
    BY <1>h, <2>1 DEF Carries
  <2> QED
    BY <1>a, <2>1, <2>2 DEF Actors
<1>6. ASSUME NEW w \in Workers, Answer(w) PROVE P
  BY <1>6, <1>h, EmptyList DEF Answer, Entered
<1>7. ASSUME NEW w \in Workers, Ring(w) PROVE P
  BY <1>7, <1>h, RingLists DEF Ring, Entered
<1>8. ASSUME NEW w \in Workers, Tones(w) PROVE P
  BY <1>8, <1>h, ToneLists, EmptyList DEF Tones, Entered
<1>9. ASSUME NEW w \in Workers, Message(w) PROVE P
  <2>1. <<"CMGR">> \in Lists /\ Elems(<<"CMGR">>) \cap Effects = {}
    BY Programs DEF Effects
  <2> QED
    BY <1>9, <1>h, <2>1, CodeLists DEF Message, Entered
<1>10. ASSUME NEW w \in Workers, Balance(w) PROVE P
  BY <1>10, <1>h, SmsLists, EmptyList DEF Balance, Entered
<1>11. ASSUME Obey PROVE P
  BY <1>0, <1>11, <1>u, Obeys
<1>12. ASSUME Ussd PROVE P
  BY <1>12, <1>u DEF Ussd, SameJob
<1>13. ASSUME NEW s \in Stimuli, Stimulate(s) PROVE P
  <2>0. modem \in Modems /\ stimuli \in Nat /\ App \in Actors
    BY DEF TypeInv, Actors
  <2>1. CASE \A x \in Actors : SameJob(x)
    BY <2>1, <1>u
  <2>2. ASSUME job[App].pc = "idle", Others(App), NEW t \in Lists, Elems(t) \cap Effects = {},
               Held(App)' = Elems(t)
        PROVE  P
    <3>1. Held(App) = {} /\ Unsent(App) = {}
      BY <2>2 DEF Held, Unsent
    <3>2. Carries(App)
      BY <2>2, <3>1 DEF Carries
    <3> QED
      BY <1>a, <2>0, <2>2, <3>2
  <2> HIDE DEF P
  <2> QED
    BY <1>0, <1>13, <2>0, <2>1, <2>2, Stimulated
<1>14. ASSUME UNCHANGED vars PROVE P
  BY <1>14, <1>u DEF vars, SameJob
<1> HIDE DEF P
<1>15. P
  BY <1>1, <1>2, <1>3, <1>4, <1>5, <1>6, <1>7, <1>8, <1>9, <1>10, <1>11, <1>12, <1>13, <1>14,
     StepCases
<1> QED
  BY <1>15 DEF P

\* Commands are sent and obeyed; nothing else concerns the line and the modem's modes.
LEMMA Elsewhere ==
    ASSUME TypeInv, [Next]_vars, ~Obey, \A a \in Actors : ~Send(a)
    PROVE  UNCHANGED <<line, overlapped, eaten, garbled>> /\ modem'.mode = modem.mode /\ modem'.prompt = modem.prompt
<1> DEFINE P == UNCHANGED <<line, overlapped, eaten, garbled>> /\ modem'.mode = modem.mode
                /\ modem'.prompt = modem.prompt
<1> USE DEF history
<1>2. ASSUME NEW a \in Actors, SendFails(a) PROVE P
  BY <1>2 DEF SendFails
<1>3. ASSUME NEW a \in Actors, Woken(a) \/ TimeOut(a) \/ ClearTones(a) PROVE P
  BY <1>3 DEF Woken, TimeOut, ClearTones
<1>4. ASSUME NEW a \in Actors, Effect(a) PROVE P
  BY <1>4 DEF Effect
<1>5. ASSUME NEW w \in Workers, Take(w) PROVE P
  BY <1>5 DEF Take
<1>6. ASSUME NEW w \in Workers, Answer(w) PROVE P
  BY <1>6 DEF Answer
<1>7. ASSUME NEW w \in Workers, Ring(w) PROVE P
  BY <1>7 DEF Ring
<1>8. ASSUME NEW w \in Workers, Tones(w) PROVE P
  BY <1>8 DEF Tones
<1>9. ASSUME NEW w \in Workers, Message(w) PROVE P
  BY <1>9 DEF Message
<1>10. ASSUME NEW w \in Workers, Balance(w) PROVE P
  BY <1>10 DEF Balance
<1>12. ASSUME Ussd PROVE P
  BY <1>12 DEF Ussd, TypeInv, Modems
<1>13. ASSUME NEW s \in Stimuli, Stimulate(s) PROVE P
  BY <1>13, Stimulated DEF TypeInv
<1>14. ASSUME UNCHANGED vars PROVE P
  BY <1>14 DEF vars
<1> HIDE DEF P
<1>15. P
  BY <1>2, <1>3, <1>4, <1>5, <1>6, <1>7, <1>8, <1>9, <1>10, <1>12, <1>13, <1>14, StepCases
<1> QED
  BY <1>15 DEF P

\* What went wrong stays wrong.
LEMMA Remembered ==
    ASSUME TypeInv, [Next]_vars
    PROVE  /\ lost => lost'
           /\ eaten => eaten'
           /\ overlapped => overlapped'
           /\ crossed => crossed'
           /\ doubled => doubled'
<1> DEFINE P == /\ lost => lost'
                /\ eaten => eaten'
                /\ overlapped => overlapped'
                /\ crossed => crossed'
                /\ doubled => doubled'
<1> USE DEF history
<1>e. ASSUME NEW w, NEW codes, Execute(w, codes), doubled PROVE doubled'
  BY <1>e, Zenon DEF Execute
<1>1. ASSUME NEW a \in Actors, Send(a) PROVE P
  BY <1>1 DEF Send
<1>2. ASSUME NEW a \in Actors, SendFails(a) PROVE P
  BY <1>2 DEF SendFails
<1>3. ASSUME NEW a \in Actors, Woken(a) \/ TimeOut(a) \/ ClearTones(a) PROVE P
  BY <1>3 DEF Woken, TimeOut, ClearTones
<1>4. ASSUME NEW a \in Actors, Effect(a) PROVE P
  BY <1>4 DEF Effect
<1>5. ASSUME NEW w \in Workers, Take(w) PROVE P
  BY <1>5 DEF Take
<1>6. ASSUME NEW w \in Workers, Answer(w) PROVE P
  BY <1>6 DEF Answer
<1>7. ASSUME NEW w \in Workers, Ring(w) PROVE P
  BY <1>7 DEF Ring
<1>8. ASSUME NEW w \in Workers, Tones(w) PROVE P
  <2>1. (\E codes : Execute(w, codes))
    BY <1>8 DEF Tones
  <2>2. doubled => doubled'
    BY <1>e, <2>1
  <2>3. UNCHANGED <<lost, eaten, overlapped, crossed>>
    BY <1>8 DEF Tones
  <2> QED
    BY <2>2, <2>3
<1>9. ASSUME NEW w \in Workers, Message(w) PROVE P
  <2>1. (\E codes : Execute(w, codes)) \/ UNCHANGED doubled
    BY <1>9 DEF Message
  <2>2. doubled => doubled'
    BY <1>e, <2>1
  <2>3. UNCHANGED <<lost, eaten, overlapped, crossed>>
    BY <1>9 DEF Message
  <2> QED
    BY <2>2, <2>3
<1>10. ASSUME NEW w \in Workers, Balance(w) PROVE P
  <2>1. doubled' = (doubled \/ Texting(w)) /\ UNCHANGED <<lost, eaten, overlapped, crossed>>
    BY <1>10 DEF Balance
  <2>2. doubled => doubled'
    BY <2>1, Zenon
  <2> QED
    BY <2>1, <2>2
<1>11. ASSUME Obey PROVE P
  <2>1. /\ eaten' = (eaten \/ Eats(Head(line))) /\ (lost' = lost \/ lost' = TRUE)
        /\ UNCHANGED <<overlapped, crossed, doubled>>
    BY <1>11 DEF Obey
  <2>2. eaten => eaten'
    BY <2>1, Zenon
  <2>3. lost => lost'
    BY <2>1, Zenon
  <2> QED
    BY <2>1, <2>2, <2>3
<1>12. ASSUME Ussd PROVE P
  BY <1>12 DEF Ussd
<1>13. ASSUME NEW s \in Stimuli, Stimulate(s) PROVE P
  BY <1>13, Stimulated DEF TypeInv
<1>14. ASSUME UNCHANGED vars PROVE P
  BY <1>14 DEF vars
<1> HIDE DEF P
<1>15. P
  BY <1>1, <1>2, <1>3, <1>4, <1>5, <1>6, <1>7, <1>8, <1>9, <1>10, <1>11, <1>12, <1>13, <1>14,
     StepCases
<1> QED
  BY <1>15 DEF P

\* What the oldest command makes of the modem, unless it is taken for a text.
LEMMA ObeysCommand ==
    ASSUME TypeInv, Obey
    PROVE  LET c == line[1].cmd IN
           /\ eaten' = (eaten \/ (modem.prompt /\ c # "text"))
           /\ garbled' = (garbled \/ (c = "text" /\ (~modem.prompt \/ modem.mode # "pdu")))
           /\ ~eaten' =>
                 /\ modem.prompt => c = "text"
                 /\ modem'.mode = IF c = "CMGF0" THEN "pdu" ELSE IF c = "CMGF1" THEN "text" ELSE modem.mode
                 /\ modem'.prompt = IF c = "CMGS" THEN TRUE ELSE IF c = "text" THEN FALSE ELSE modem.prompt
                 /\ modem'.ussd = IF c = "CUSD" THEN TRUE ELSE modem.ussd
                 /\ modem'.call = IF c = "ATH0" THEN "none"
                                  ELSE IF c = "ATA" /\ modem.call # "none" THEN "active" ELSE modem.call
<1>1. line # <<>> /\ Head(line) = line[1]
  BY Oldest DEF Obey, TypeInv
<1>2. /\ eaten' = (eaten \/ (modem.prompt /\ line[1].cmd # "text"))
      /\ garbled' = (garbled \/ (line[1].cmd = "text" /\ (~modem.prompt \/ modem.mode # "pdu")))
      /\ modem' = IF modem.prompt /\ line[1].cmd # "text" THEN modem ELSE State(line[1])
  BY <1>1 DEF Obey, Eats
<1>3. ASSUME ~eaten' PROVE modem' = State(line[1]) /\ (modem.prompt => line[1].cmd = "text")
  BY <1>2, <1>3
<1> DEFINE c == line[1].cmd
<1>4. /\ State(line[1]).mode = IF c = "CMGF0" THEN "pdu" ELSE IF c = "CMGF1" THEN "text" ELSE modem.mode
      /\ State(line[1]).prompt = IF c = "CMGS" THEN TRUE ELSE IF c = "text" THEN FALSE ELSE modem.prompt
      /\ State(line[1]).ussd = IF c = "CUSD" THEN TRUE ELSE modem.ussd
      /\ State(line[1]).call = IF c = "ATH0" THEN "none"
                               ELSE IF c = "ATA" /\ modem.call # "none" THEN "active" ELSE modem.call
  BY DEF State, TypeInv, Modems
<1> QED
  BY <1>2, <1>3, <1>4

-----------------------------------------------------------------------------
(* What the modem will be when it has obeyed the first n commands of a     *)
(* line l: a command sets it, another one clears it.                       *)

Items == [cmd : Names, by : Actors]

EndsIn(l, set, clear, now, n) ==
    \/ now /\ \A i \in 1 .. n : l[i].cmd # clear
    \/ \E i \in 1 .. n : l[i].cmd = set /\ \A k \in (i + 1) .. n : l[k].cmd # clear

LEMMA EndsTail ==
    ASSUME NEW l \in Seq(Items), l # <<>>, NEW set, NEW clear, NEW now, NEW later,
           NEW n \in 1 .. Len(l), EndsIn(l, set, clear, now, n),
           l[1].cmd = set => later, l[1].cmd # clear /\ now => later
    PROVE  EndsIn(Tail(l), set, clear, later, n - 1)
<1> DEFINE u == Tail(l)
<1>1. Len(l) \in Nat \ {0} /\ Len(u) = Len(l) - 1 /\ \A i \in 1 .. Len(u) : u[i] = l[i + 1]
  BY HeadTailProperties, LenProperties, EmptySeq
<1> HIDE DEF u
<1>2. \A i \in 1 .. n - 1 : i + 1 \in 1 .. n /\ u[i] = l[i + 1]
  BY <1>1
<1>3. CASE now /\ \A i \in 1 .. n : l[i].cmd # clear
  BY <1>1, <1>2, <1>3 DEF EndsIn, u
<1>4. ASSUME NEW i \in 1 .. n, l[i].cmd = set, \A k \in (i + 1) .. n : l[k].cmd # clear
      PROVE  EndsIn(u, set, clear, later, n - 1)
  <2>1. CASE i = 1
    <3>1. \A k \in 1 .. n - 1 : k + 1 \in (i + 1) .. n
      BY <2>1
    <3>2. \A k \in 1 .. n - 1 : u[k].cmd # clear
      BY <1>2, <1>4, <3>1
    <3> QED
      BY <1>4, <2>1, <3>2 DEF EndsIn
  <2>2. CASE i # 1
    <3>1. i - 1 \in 1 .. n - 1 /\ (i - 1) + 1 = i
      BY <2>2
    <3>2. \A k \in ((i - 1) + 1) .. n - 1 : k \in 1 .. n - 1 /\ k + 1 \in (i + 1) .. n
      BY <3>1
    <3>3. \A k \in ((i - 1) + 1) .. n - 1 : u[k].cmd # clear
      BY <1>2, <1>4, <3>2
    <3>4. u[i - 1].cmd = set
      BY <1>2, <1>4, <3>1
    <3> QED
      BY <3>1, <3>3, <3>4 DEF EndsIn
  <2> QED
    BY <2>1, <2>2
<1> QED
  BY <1>3, <1>4 DEF EndsIn, u

LEMMA EndsAppend ==
    ASSUME NEW l \in Seq(Items), NEW c \in Items, NEW set, NEW clear, NEW now
    PROVE  LET u == Append(l, c) IN
           /\ Len(l) \in Nat /\ Len(u) = Len(l) + 1 /\ u \in Seq(Items)
           /\ \A i \in 1 .. Len(l) : u[i] = l[i]
           /\ u[Len(l) + 1] = c
           /\ \A n \in 0 .. Len(l) : EndsIn(l, set, clear, now, n) => EndsIn(u, set, clear, now, n)
           /\ c.cmd = set => EndsIn(u, set, clear, now, Len(u))
           /\ c.cmd # clear /\ EndsIn(l, set, clear, now, Len(l)) => EndsIn(u, set, clear, now, Len(u))
<1> DEFINE u == Append(l, c)
<1>1. /\ u \in Seq(Items) /\ Len(u) = Len(l) + 1 /\ Len(l) \in Nat
      /\ \A i \in 1 .. Len(l) : u[i] = l[i]
      /\ u[Len(l) + 1] = c
  BY AppendProperties, LenProperties
<1> HIDE DEF u
<1>2. ASSUME NEW n \in 0 .. Len(l), EndsIn(l, set, clear, now, n) PROVE EndsIn(u, set, clear, now, n)
  <2>1. \A i \in 1 .. n : i \in 1 .. Len(l) /\ u[i] = l[i]
    BY <1>1
  <2>2. \A i \in 1 .. n : \A k \in (i + 1) .. n : k \in 1 .. n
    OBVIOUS
  <2>3. CASE now /\ \A i \in 1 .. n : l[i].cmd # clear
    BY <2>1, <2>3 DEF EndsIn
  <2>4. ASSUME NEW i \in 1 .. n, l[i].cmd = set, \A k \in (i + 1) .. n : l[k].cmd # clear
        PROVE  EndsIn(u, set, clear, now, n)
    <3>1. u[i].cmd = set /\ \A k \in (i + 1) .. n : u[k].cmd # clear
      BY <2>1, <2>2, <2>4
    <3> QED
      BY <3>1 DEF EndsIn
  <2> QED
    BY <1>2, <2>3, <2>4 DEF EndsIn
<1>3. ASSUME c.cmd = set PROVE EndsIn(u, set, clear, now, Len(u))
  <2>1. Len(u) \in 1 .. Len(u) /\ u[Len(u)] = c /\ \A k \in (Len(u) + 1) .. Len(u) : FALSE
    BY <1>1
  <2> QED
    BY <1>3, <2>1 DEF EndsIn
<1>4. ASSUME c.cmd # clear, EndsIn(l, set, clear, now, Len(l)) PROVE EndsIn(u, set, clear, now, Len(u))
  <2>1. \A k \in 1 .. Len(u) : (k \in 1 .. Len(l) /\ u[k] = l[k]) \/ u[k] = c
    BY <1>1
  <2>2. CASE now /\ \A i \in 1 .. Len(l) : l[i].cmd # clear
    BY <1>4, <2>1, <2>2 DEF EndsIn
  <2>3. ASSUME NEW i \in 1 .. Len(l), l[i].cmd = set, \A k \in (i + 1) .. Len(l) : l[k].cmd # clear
        PROVE  EndsIn(u, set, clear, now, Len(u))
    <3>1. i \in 1 .. Len(u) /\ u[i] = l[i]
      BY <1>1
    <3>2. \A k \in (i + 1) .. Len(u) : k \in 1 .. Len(u) /\ (k \in 1 .. Len(l) => k \in (i + 1) .. Len(l))
      BY <1>1
    <3>3. \A k \in (i + 1) .. Len(u) : u[k].cmd # clear
      BY <1>4, <2>1, <2>3, <3>2
    <3> QED
      BY <2>3, <3>1, <3>3 DEF EndsIn
  <2> QED
    BY <1>4, <2>2, <2>3 DEF EndsIn
<1> QED
  BY <1>1, <1>2, <1>3, <1>4 DEF u

-----------------------------------------------------------------------------
(* The answer to a command.                                                *)

Waits(a) == job[a].pc = "wait" /\ job[a].quiet /\ ~job[a].done
\* Nothing but a command can bring the event id.
Silent(id) ==
    /\ id \notin events
    /\ \A i \in 1 .. Len(pool) : ~Emits(pool[i], id)
    /\ \A w \in Workers : job[w].pc = "enter" => ~Emits(job[w].frame, id)
\* Only the command of thread a on its way to the modem can bring it.
OnlyFrom(a, cmd) ==
    \A i \in 1 .. Len(line) :
        EmitOf(line[i].cmd) = WaitOf(cmd) => line[i].by = a /\ line[i].cmd = cmd

AnswerInv ==
    \A a \in Actors :
        Waits(a) => Silent(WaitOf(Head(job[a].todo))) /\ OnlyFrom(a, Head(job[a].todo))

LEMMA AnswerInit == Init => AnswerInv
<1>1. ASSUME Init, NEW a \in Actors PROVE job[a].pc # "wait"
  <2>1. job[a] \in {Run(InitModem), Idle}
    BY <1>1 DEF Init
  <2> QED
    BY <2>1 DEF Run, Idle
<1> QED
  BY <1>1 DEF AnswerInv, Waits

\* What happens outside wakes nobody; the end of a call brings what ATA, for one, waits for.
LEMMA Undisturbed ==
    ASSUME JobsType, NEW s \in Stimuli, Stimulate(s), NEW a \in Actors, Waits(a)'
    PROVE  job'[a] = job[a] /\ (HangUp => WaitOf(Head(job[a].todo)) # "OK")
<1>3. ASSUME HangUp PROVE job'[a] = job[a] /\ WaitOf(Head(job[a].todo)) # "OK"
  <2>1. job'[a] = IF job[a].pc = "wait" /\ WaitOf(Head(job[a].todo)) = "OK"
                  THEN [job[a] EXCEPT !.quiet = FALSE] ELSE job[a]
    BY <1>3 DEF HangUp
  <2>2. job[a].pc = "wait" => WaitType(job[a])
    BY Places
  <2>3. ~(job[a].pc = "wait" /\ WaitOf(Head(job[a].todo)) = "OK")
    BY <2>1, <2>2 DEF Waits, WaitType
  <2>4. job'[a] = job[a]
    BY <2>1, <2>3
  <2> QED
    BY <2>3, <2>4 DEF Waits
<1>4. ASSUME NEW t \in Asked, Program(t) PROVE job'[a] = job[a]
  <2>1. t \in Lists /\ Elems(t) \cap Effects = {} /\ job' = [job EXCEPT ![App] = Run(t)] /\ App \in Actors
    BY <1>4, Programs DEF Asked, Program, Actors, Effects
  <2>2. job'[App].pc # "wait" /\ Others(App)
    BY <2>1, Runs
  <2>3. a # App /\ job = [x \in Actors |-> job[x]]
    BY <2>2 DEF Waits, JobsType
  <2> QED
    BY <2>1, <2>3
<1>5. ASSUME NEW who, Call(who) PROVE job'[a] = job[a]
  BY <1>5 DEF Call
<1>6. ASSUME NEW val, Sms(val) \/ Dial(val) \/ Disconnect PROVE job'[a] = job[a]
  BY <1>6 DEF Sms, Dial, Disconnect
<1>7. job'[a] = job[a]
  BY <1>3, <1>4, <1>5, <1>6 DEF Stimulate, Asked
<1> QED
  BY <1>3, <1>7

LEMMA AnswerStep == TypeInv /\ AnswerInv /\ [Next]_vars => AnswerInv'
<1> SUFFICES ASSUME TypeInv, AnswerInv, [Next]_vars, NEW a \in Actors, Waits(a)'
             PROVE  Silent(WaitOf(Head(job[a].todo)))' /\ OnlyFrom(a, Head(job[a].todo))'
  BY DEF AnswerInv
<1> DEFINE cmd == Head(job[a].todo)
           id == WaitOf(cmd)
           P == Silent(WaitOf(Head(job[a].todo)))' /\ OnlyFrom(a, Head(job[a].todo))'
<1>0. JobsType /\ pool \in Seq(Frames) /\ line \in Seq([cmd : Names, by : Actors])
  BY DEF TypeInv
<1>i. Waits(a) => Silent(id) /\ OnlyFrom(a, cmd)
  BY DEF AnswerInv
\* The worker w does not begin to handle a frame.
<1>s. ASSUME Waits(a), job'[a].todo = job[a].todo, events' \subseteq events, UNCHANGED line,
             \A w \in Workers : job'[w].pc = "enter" => SameJob(w),
             UNCHANGED pool \/ \E f \in Frames : pool' = Append(pool, f) /\ ~Emits(f, id)
      PROVE  P
  <2>1. \A i \in 1 .. Len(pool') : ~Emits(pool'[i], id)
    BY <1>0, <1>i, <1>s, AppendProperties DEF Silent
  <2>2. \A w \in Workers : job'[w].pc = "enter" => ~Emits(job'[w].frame, id)
    BY <1>i, <1>s DEF Silent, SameJob
  <2> QED
    BY <1>i, <1>s, <2>1, <2>2 DEF Silent, OnlyFrom
\* Thread b goes on, or a worker gets steps; the thread a is another one.
<1>o. ASSUME NEW b \in Actors, Others(b), \A x \in Actors \ {b} : job'[x] = job[x],
             job'[b].pc \in {"idle", "run"}, events' \subseteq events, UNCHANGED <<pool, line>>
      PROVE  P
  <2>1. a # b
    BY <1>o DEF Waits
  <2>2. Waits(a) /\ job'[a].todo = job[a].todo
    BY <1>o, <2>1 DEF Waits
  <2>3. \A w \in Workers : job'[w].pc = "enter" => SameJob(w)
    BY <1>o DEF Others, Actors
  <2> QED
    BY <1>o, <1>s, <2>2, <2>3
<1>g. ASSUME NEW b \in Actors, job[b].pc \in {"run", "wait"}, Next1(b), UNCHANGED <<events, pool, line>>
      PROVE  P
  <2>1. Others(b) /\ job'[b].pc \in {"idle", "run"}
    BY <1>0, <1>g, GoesOn
  <2>2. \A x \in Actors \ {b} : job'[x] = job[x]
    BY <1>g DEF Next1, JobsType
  <2> QED
    BY <1>g, <1>o, <2>1, <2>2
<1>w. ASSUME NEW w \in Workers, job[w].pc = "enter", NEW t \in Lists, Continue(w, t),
             UNCHANGED <<events, pool, line>>
      PROVE  P
  <2>1. Others(w) /\ job'[w].pc \in {"idle", "run"} /\ w \in Actors
    BY <1>0, <1>w, Handles DEF Actors
  <2>2. \A x \in Actors \ {w} : job'[x] = job[x]
    BY <1>0, <1>w DEF Continue, JobsType
  <2> QED
    BY <1>o, <1>w, <2>1, <2>2
<1> USE DEF flags, history
<1>1. ASSUME NEW b \in Actors, Send(b) PROVE P
  <2> DEFINE c == Head(job[b].todo)
  <2>1. /\ JobsType' /\ Others(b) /\ job'[b].pc = "wait" /\ job'[b].todo = job[b].todo
        /\ job'[b].quiet = ~Answering(WaitOf(c)) /\ c \in Names
    BY <1>0, <1>1, Sends
  <2>2. events' = events \ {WaitOf(c)} /\ pool' = pool /\ line' = Append(line, [cmd |-> c, by |-> b])
    BY <1>1 DEF Send
  <2>3. /\ \A i \in 1 .. Len(line) : line'[i] = line[i]
        /\ Len(line) \in Nat /\ Len(line') = Len(line) + 1 /\ line'[Len(line')] = [cmd |-> c, by |-> b]
    <3>1. [cmd |-> c, by |-> b] \in [cmd : Names, by : Actors]
      BY <2>1
    <3> QED
      BY <1>0, <2>2, <3>1, AppendProperties, LenProperties
  <2>4. \A i \in 1 .. Len(line') : i \in 1 .. Len(line) \/ i = Len(line')
    BY <2>3
  <2>5. \A w \in Workers : job'[w].pc = "enter" => SameJob(w)
    BY <2>1 DEF Others, Actors
  <2>6. CASE a = b
    <3>1. ~Answering(WaitOf(c)) /\ job'[a].todo = job[a].todo
      BY <2>1, <2>6 DEF Waits
    <3>2. /\ \A i \in 1 .. Len(line) : EmitOf(line[i].cmd) # WaitOf(c)
          /\ \A i \in 1 .. Len(pool) : ~Emits(pool[i], WaitOf(c))
          /\ \A w \in Workers : job[w].pc = "enter" => ~Emits(job[w].frame, WaitOf(c))
      <4>1. DOMAIN line = 1 .. Len(line) /\ DOMAIN pool = 1 .. Len(pool)
        BY <1>0, LenProperties
      <4> QED
        BY <3>1, <4>1 DEF Answering
    <3>3. \A w \in Workers : job'[w].pc = "enter" => ~Emits(job'[w].frame, WaitOf(c))
      BY <2>5, <3>2 DEF SameJob
    <3>4. Silent(WaitOf(c))'
      BY <2>1, <2>2, <2>6, <3>2, <3>3 DEF Silent
    <3>5. OnlyFrom(a, c)'
      BY <2>1, <2>3, <2>4, <2>6, <3>2 DEF OnlyFrom
    <3> QED
      BY <2>1, <2>6, <3>1, <3>4, <3>5
  <2>7. CASE a # b
    <3>1. job'[a] = IF job[a].pc = "wait" /\ WaitOf(Head(job[a].todo)) = EmitOf(c)
                    THEN [job[a] EXCEPT !.quiet = FALSE] ELSE job[a]
      BY <1>1, <2>7 DEF Send
    <3>2. job[a].pc = "wait" => WaitType(job[a])
      BY <1>0, Places
    <3>3. job'[a] = job[a] /\ (job[a].pc = "wait" => id # EmitOf(c))
      BY <3>1, <3>2 DEF Waits, WaitType
    <3>4. Waits(a) /\ job'[a].todo = job[a].todo /\ id # EmitOf(c)
      BY <3>3 DEF Waits
    <3>5. Silent(id)'
      <4>1. \A w \in Workers : job'[w].pc = "enter" => ~Emits(job'[w].frame, id)
        BY <1>i, <2>5, <3>4 DEF Silent, SameJob
      <4> QED
        BY <1>i, <2>2, <3>4, <4>1 DEF Silent
    <3>6. \A i \in 1 .. Len(line') : EmitOf(line'[i].cmd) = id => line'[i].by = a /\ line'[i].cmd = cmd
      BY <1>i, <2>3, <2>4, <3>4 DEF OnlyFrom
    <3> QED
      BY <3>4, <3>5, <3>6 DEF OnlyFrom
  <2> QED
    BY <2>6, <2>7
<1>2. ASSUME NEW b \in Actors, SendFails(b) PROVE P
  BY <1>2, <1>g DEF SendFails, AtCommand
<1>3. ASSUME NEW b \in Actors, Woken(b) \/ TimeOut(b) \/ ClearTones(b) PROVE P
  BY <1>3, <1>g DEF Woken, TimeOut, ClearTones
<1>4. ASSUME NEW b \in Actors, Effect(b) PROVE P
  BY <1>4, <1>g DEF Effect
<1>5. ASSUME NEW w \in Workers, Take(w) PROVE P
  <2>1. /\ Others(w) /\ job'[w].pc = "enter" /\ job'[w].frame = pool[1]
        /\ Len(pool) \in Nat \ {0} /\ Len(pool') = Len(pool) - 1
        /\ \A i \in 1 .. Len(pool') : pool'[i] = pool[i + 1]
    BY <1>0, <1>5, Takes
  <2>2. w \in Actors /\ \A x \in Actors \ {w} : job'[x] = job[x]
    BY <1>0, <1>5 DEF Take, JobsType, Actors
  <2>3. Waits(a) /\ job'[a].todo = job[a].todo
    BY <2>1, <2>2 DEF Waits
  <2>4. \A i \in 1 .. Len(pool') : ~Emits(pool'[i], id)
    <3>1. \A i \in 1 .. Len(pool') : i + 1 \in 1 .. Len(pool)
      BY <2>1
    <3> QED
      BY <1>i, <2>1, <2>3, <3>1 DEF Silent
  <2>5. \A x \in Workers : job'[x].pc = "enter" => ~Emits(job'[x].frame, id)
    <3>1. 1 \in 1 .. Len(pool)
      BY <2>1
    <3> QED
      BY <1>i, <2>1, <2>2, <2>3, <3>1 DEF Silent, Actors
  <2>6. UNCHANGED <<events, line>>
    BY <1>5 DEF Take
  <2> QED
    BY <1>i, <2>3, <2>4, <2>5, <2>6 DEF Silent, OnlyFrom
<1>6. ASSUME NEW w \in Workers, Answer(w) PROVE P
  <2>1. /\ job[w].pc = "enter" /\ Continue(w, <<>>) /\ UNCHANGED <<pool, line>>
        /\ \A x \in events' : x \in events \/ Emits(job[w].frame, x)
    BY <1>6 DEF Answer, Entered, Emits
  <2>2. Others(w) /\ job'[w].pc \in {"idle", "run"} /\ w \in Actors
    BY <1>0, <2>1, EmptyList, Handles DEF Actors
  <2>3. \A x \in Actors \ {w} : job'[x] = job[x]
    BY <1>0, <2>1 DEF Continue, JobsType
  <2>4. Waits(a) /\ job'[a].todo = job[a].todo
    BY <2>2, <2>3 DEF Waits
  <2>5. id \notin events'
    BY <1>i, <2>1, <2>4 DEF Silent
  <2>6. \A x \in Workers : job'[x].pc = "enter" => ~Emits(job'[x].frame, id)
    BY <1>i, <2>2, <2>3, <2>4 DEF Silent, Actors
  <2> QED
    BY <1>i, <2>1, <2>4, <2>5, <2>6 DEF Silent, OnlyFrom
<1>7. ASSUME NEW w \in Workers, Ring(w) PROVE P
  BY <1>7, <1>w, RingLists DEF Ring, Entered
<1>8. ASSUME NEW w \in Workers, Tones(w) PROVE P
  BY <1>8, <1>w, ToneLists, EmptyList DEF Tones, Entered
<1>9. ASSUME NEW w \in Workers, Message(w) PROVE P
  BY <1>9, <1>w, CodeLists, Programs DEF Message, Entered
<1>10. ASSUME NEW w \in Workers, Balance(w) PROVE P
  BY <1>10, <1>w, SmsLists, EmptyList DEF Balance, Entered
<1>11. ASSUME Obey PROVE P
  <2> DEFINE item == line[1]
  <2>1. /\ \A x \in Actors : SameJob(x)
        /\ item.cmd \in Names /\ item.by \in Actors /\ Head(line) = item
        /\ Len(line) \in Nat \ {0} /\ Len(line') = Len(line) - 1
        /\ \A i \in 1 .. Len(line') : line'[i] = line[i + 1]
        /\ \A x \in Actors : /\ job'[x].quiet = job[x].quiet
                             /\ job'[x].done = job[x].done \/ job'[x].done = TRUE
    BY <1>0, <1>11, Obeys, Oldest
  <2>2. UNCHANGED events /\ (pool' = pool \/ (pool' = Append(pool, Reply(item)) /\ ~Eats(item)))
    BY <1>11, <2>1 DEF Obey
  <2>3. Waits(a) /\ job'[a].todo = job[a].todo
    BY <2>1 DEF Waits, SameJob
  <2>4. 1 \in 1 .. Len(line) /\ \A i \in 1 .. Len(line') : i + 1 \in 1 .. Len(line)
    BY <2>1
  <2>5. OnlyFrom(a, cmd)'
    BY <1>i, <2>1, <2>3, <2>4 DEF OnlyFrom
  <2>6. ~Eats(item) => ~Emits(Reply(item), id)
    <3>1. SUFFICES ASSUME ~Eats(item), Emits(Reply(item), id) PROVE FALSE
      OBVIOUS
    <3>2. EmitOf(item.cmd) = id
      BY <3>1 DEF Reply, Emits
    <3>3. item.by = a /\ item.cmd = cmd
      BY <1>i, <2>3, <2>4, <3>2 DEF OnlyFrom
    <3>4. job' = [job EXCEPT ![a].done = TRUE]
      BY <1>11, <2>1, <2>3, <3>1, <3>3 DEF Obey, Waits
    <3>5. job'[a].done = TRUE
      BY <1>0, <2>3, <3>4, Places DEF JobsType, Waits, WaitType
    <3> QED
      BY <3>5 DEF Waits
  <2>7. \A i \in 1 .. Len(pool') : ~Emits(pool'[i], id)
    <3>1. CASE pool' = pool
      BY <1>i, <2>3, <3>1 DEF Silent
    <3>2. CASE pool' = Append(pool, Reply(item)) /\ ~Eats(item)
      <4>1. \A i \in 1 .. Len(pool') : (i \in 1 .. Len(pool) /\ pool'[i] = pool[i]) \/ pool'[i] = Reply(item)
        <5>1. Len(pool) \in Nat /\ Len(pool') = Len(pool) + 1 /\ pool'[Len(pool) + 1] = Reply(item)
              /\ \A i \in 1 .. Len(pool) : pool'[i] = pool[i]
          <6>1. pool \in Seq(Frames \cup {Reply(item)})
            BY <1>0
          <6> QED
            BY <3>2, <6>1, AppendProperties, LenProperties
        <5> QED
          BY <5>1
      <4> QED
        BY <1>i, <2>3, <2>6, <3>2, <4>1 DEF Silent
    <3> QED
      BY <2>2, <3>1, <3>2
  <2>8. \A w \in Workers : job'[w].pc = "enter" => ~Emits(job'[w].frame, id)
    BY <1>i, <2>1, <2>3 DEF Silent, SameJob, Actors
  <2> QED
    BY <1>i, <2>2, <2>3, <2>5, <2>7, <2>8 DEF Silent
<1>12. ASSUME Ussd PROVE P
  <2>1. [kind |-> "balance", val |-> ""] \in Frames /\ ~Emits([kind |-> "balance", val |-> ""], id)
    BY DEF Frames, Simple, Emits
  <2>2. pool' = pool \/ pool' = Append(pool, [kind |-> "balance", val |-> ""])
    BY <1>12 DEF Ussd, Say
  <2>3. UNCHANGED <<events, line, job>>
    BY <1>12 DEF Ussd
  <2>4. Waits(a) /\ \A w \in Workers : SameJob(w)
    BY <2>3 DEF Waits, SameJob
  <2> QED
    BY <1>s, <2>1, <2>2, <2>3, <2>4
<1>13. ASSUME NEW s \in Stimuli, Stimulate(s) PROVE P
  <2>0. modem \in Modems /\ stimuli \in Nat
    BY DEF TypeInv
  <2>1. job'[a] = job[a] /\ (HangUp => id # "OK")
    BY <1>0, <1>13, Undisturbed
  <2>2. /\ UNCHANGED <<events, line>>
        /\ pool' = pool \/ \E f \in Frames : pool' = Append(pool, f) /\ f.kind # "answer"
                                             /\ (f.kind = "hangup" => HangUp)
        /\ \/ \A x \in Actors : SameJob(x)
           \/ Others(App) /\ job'[App].pc \in {"idle", "run"}
    BY <1>0, <1>13, <2>0, Stimulated
  <2>3. Waits(a) /\ job'[a].todo = job[a].todo
    BY <2>1 DEF Waits
  <2>4. \A w \in Workers : job'[w].pc = "enter" => SameJob(w)
    BY <2>2 DEF Others, Actors
  <2>5. UNCHANGED pool \/ \E f \in Frames : pool' = Append(pool, f) /\ ~Emits(f, id)
    BY <2>1, <2>2 DEF Emits
  <2> QED
    BY <1>s, <2>2, <2>3, <2>4, <2>5
<1>14. ASSUME UNCHANGED vars PROVE P
  BY <1>14, <1>s DEF vars, Waits, SameJob
<1> HIDE DEF P
<1>15. P
  BY <1>1, <1>2, <1>3, <1>4, <1>5, <1>6, <1>7, <1>8, <1>9, <1>10, <1>11, <1>12, <1>13, <1>14,
     StepCases
<1> QED
  BY <1>15 DEF P

\* A send_command that returns an answer returns the answer to its own command, when no other
\* command or late answer of that event was under way: nobody but the modem can bring the event
\* then, and nobody but the command itself can make the modem.
THEOREM AnswersAreOwn == Spec => []AnswerIsOwn
<1>1. AnswerInv => AnswerIsOwn
  BY DEF AnswerInv, AnswerIsOwn, Waits, Silent
<1> QED
  BY <1>1, AnswerInit, AnswerStep, TypeInit, TypeStep, PTL DEF Spec

-----------------------------------------------------------------------------
(* Text mode.                                                              *)

\* The step after a step.
LEMMA NextStep ==
    ASSUME NEW t \in Lists, t # <<>>
    PROVE  LET u == Tail(t) IN
           /\ u \in Lists
           /\ Head(t) = "CMGF0" => u # <<>> /\ Head(u) = "CMGS"
           /\ Head(t) = "CMGS" => u # <<>> /\ Head(u) = "text"
           /\ Head(t) = "text" => u # <<>> /\ Head(u) = "CMGF1"
           /\ Head(t) = "ATA" => u # <<>> /\ Head(u) = "answered"
           /\ Head(t) \in Effects => u = <<>>
           /\ u # <<>> /\ Head(u) = "CMGS" => Head(t) = "CMGF0"
           /\ u # <<>> /\ Head(u) = "text" => Head(t) = "CMGS"
           /\ u # <<>> /\ Head(u) = "answered" => Head(t) = "ATA"
           /\ u # <<>> /\ Head(u) = "hungup" => Head(t) = "ATH0"
           /\ u # <<>> /\ Head(u) = "texted" => Head(t) = "CMGF1"
<1> DEFINE u == Tail(t)
<1>1. /\ Head(t) = t[1] /\ Len(t) \in Nat \ {0} /\ u \in Lists /\ Len(u) = Len(t) - 1
      /\ \A i \in 1 .. Len(u) : u[i] = t[i + 1]
  BY ListParts
<1> HIDE DEF u
<1>2. 1 \in 1 .. Len(t) /\ Follows(t, 1)
  BY <1>1 DEF Lists
<1>3. u # <<>> => Head(u) = u[1] /\ Len(u) \in Nat \ {0}
  BY <1>1, ListParts
<1>4. u # <<>> => 1 \in 1 .. Len(t) - 1 /\ u[1] = t[1 + 1] /\ Precedes(t, 1)
  <2>1. ASSUME u # <<>> PROVE 1 \in 1 .. Len(u) /\ 1 \in 1 .. Len(t) - 1
    BY <1>1, <1>3, <2>1
  <2> QED
    BY <1>1, <2>1 DEF Lists
<1>5. 1 < Len(t) => u # <<>>
  BY <1>1, EmptyList
<1>6. Len(t) = 1 => u = <<>>
  BY <1>1, EmptySeq DEF Lists
<1> QED
  BY <1>1, <1>2, <1>3, <1>4, <1>5, <1>6 DEF Follows, Precedes, u

LEMMA SetAgain ==
    ASSUME NEW t \in Lists, t # <<>>
    PROVE  /\ Head(t) = "CMGF0" => "CMGF1" \in Elems(Tail(t))
           /\ Head(t) = "CMGS" => "text" \in Elems(Tail(t))
<1>1. ASSUME NEW x \in Lists, x # <<>> PROVE Head(x) \in Elems(x) /\ Elems(Tail(x)) \subseteq Elems(x)
  BY <1>1, ListParts
<1>2. CASE Head(t) = "CMGS"
  BY <1>1, <1>2, NextStep
<1>3. CASE Head(t) = "CMGF0"
  <2>1. Tail(t) \in Lists /\ Tail(t) # <<>> /\ Head(Tail(t)) = "CMGS"
    BY <1>3, NextStep
  <2>2. Tail(Tail(t)) \in Lists /\ Tail(Tail(t)) # <<>> /\ Head(Tail(Tail(t))) = "text"
    BY <2>1, NextStep
  <2>3. Tail(Tail(Tail(t))) \in Lists /\ Tail(Tail(Tail(t))) # <<>> /\ Head(Tail(Tail(Tail(t)))) = "CMGF1"
    BY <2>2, NextStep
  <2> QED
    BY <1>1, <1>3, <2>1, <2>2, <2>3
<1> QED
  BY <1>2, <1>3

\* The modem will be in the state that the command set brings, or a thread will send set.
Restored(set, clear, now) ==
    EndsIn(line, set, clear, now, Len(line)) \/ \E a \in Actors : set \in Unsent(a)

ModeInv ==
    ~lost /\ ~eaten => /\ Restored("CMGF1", "CMGF0", modem.mode = "text")
                       /\ Restored("text", "CMGS", ~modem.prompt)

LEMMA ModeInit == Init => ModeInv
<1> SUFFICES ASSUME Init PROVE ModeInv
  OBVIOUS
<1>1. job[App] = Run(InitModem) /\ App \in Actors
  BY DEF Init, Actors
<1>2. Unsent(App) = Elems(InitModem)
  <2>1. job[App].pc = "run" /\ job[App].todo = InitModem
    BY <1>1 DEF Run, InitModem
  <2> QED
    BY <2>1 DEF Unsent
<1>3. \E a \in Actors : "CMGF1" \in Unsent(a)
  BY <1>1, <1>2, Programs
<1>4. EndsIn(line, "text", "CMGS", ~modem.prompt, Len(line))
  <2>1. line = <<>> /\ ~modem.prompt /\ Len(line) = 0
    BY DEF Init
  <2> QED
    BY <2>1 DEF EndsIn
<1> QED
  BY <1>3, <1>4 DEF ModeInv, Restored

\* A pair of commands of which the second one is always followed by the first one.
Pairs == {<<"CMGF1", "CMGF0">>, <<"text", "CMGS">>}

LEMMA StaysRestored ==
    ASSUME TypeInv, [Next]_vars, ~lost', ~eaten', NEW set, NEW clear, <<set, clear>> \in Pairs,
           NEW now, NEW later, Restored(set, clear, now),
           ~Obey => (now <=> later),
           Obey => (line[1].cmd = set => later) /\ (line[1].cmd # clear /\ now => later)
    PROVE  \/ EndsIn(line', set, clear, later, Len(line'))
           \/ \E a \in Actors : set \in Unsent(a)'
<1> DEFINE P == \/ EndsIn(line', set, clear, later, Len(line'))
                \/ \E a \in Actors : set \in Unsent(a)'
<1>0. JobsType /\ line \in Seq(Items) /\ set \in Names /\ clear \in Names /\ set # clear
  BY DEF TypeInv, Items, Pairs, Names
<1>1. ASSUME NEW a \in Actors, Send(a), ~Obey PROVE P
  <2> DEFINE t == job[a].todo
             c == [cmd |-> Head(t), by |-> a]
  <2>1. /\ Others(a) /\ Head(t) \in Names /\ t \in Lists /\ t # <<>>
        /\ Unsent(a)' = Elems(Tail(t)) /\ Unsent(a) = {Head(t)} \cup Elems(Tail(t))
    BY <1>0, <1>1, Sends
  <2>2. c \in Items /\ line' = Append(line, c) /\ c.cmd = Head(t)
    BY <1>1, <2>1 DEF Send, Items
  <2> HIDE DEF c
  <2>3. /\ c.cmd = set => EndsIn(line', set, clear, now, Len(line'))
        /\ c.cmd # clear /\ EndsIn(line, set, clear, now, Len(line)) => EndsIn(line', set, clear, now, Len(line'))
    BY <1>0, <2>2, EndsAppend
  <2>4. EndsIn(line', set, clear, now, Len(line')) => EndsIn(line', set, clear, later, Len(line'))
    BY <1>1 DEF EndsIn
  <2>5. CASE Head(t) = set
    BY <2>2, <2>3, <2>4, <2>5
  <2>6. CASE Head(t) = clear
    BY <2>1, <2>6, SetAgain DEF Pairs
  <2>7. CASE Head(t) # set /\ Head(t) # clear
    <3>1. ASSUME NEW x \in Actors, set \in Unsent(x) PROVE set \in Unsent(x)'
      BY <1>0, <2>1, <2>7, <3>1, Unmoved DEF Others
    <3> QED
      BY <2>2, <2>3, <2>4, <2>7, <3>1 DEF Restored
  <2> QED
    BY <2>5, <2>6, <2>7
<1>2. ASSUME Obey PROVE P
  <2>1. \A x \in Actors : Unsent(x)' = Unsent(x)
    BY <1>0, <1>2, Obeys, Unmoved DEF Items
  <2>2. CASE \E a \in Actors : set \in Unsent(a)
    BY <2>1, <2>2
  <2>3. CASE EndsIn(line, set, clear, now, Len(line))
    <3>1. line # <<>> /\ line' = Tail(line) /\ Len(line) \in 1 .. Len(line) /\ Len(line') = Len(line) - 1
      BY <1>0, <1>2, Oldest DEF Obey, Items
    <3> QED
      BY <1>0, <1>2, <2>3, <3>1, EndsTail
  <2> QED
    BY <2>2, <2>3 DEF Restored
<1>3. ASSUME ~Obey, \A a \in Actors : ~Send(a) PROVE P
  <2>1. line' = line
    BY <1>3, Elsewhere
  <2>2. \A a \in Actors : set \in Unsent(a) => set \in Unsent(a)'
    BY <1>0, <1>3, Carried DEF Carries
  <2>3. EndsIn(line, set, clear, now, Len(line)) => EndsIn(line', set, clear, later, Len(line'))
    BY <1>3, <2>1 DEF EndsIn
  <2> QED
    BY <2>2, <2>3 DEF Restored
<1> QED
  BY <1>1, <1>2, <1>3

LEMMA ModeStep == TypeInv /\ ModeInv /\ [Next]_vars => ModeInv'
<1> SUFFICES ASSUME TypeInv, ModeInv, [Next]_vars, ~lost', ~eaten'
             PROVE  /\ Restored("CMGF1", "CMGF0", modem.mode = "text")'
                    /\ Restored("text", "CMGS", ~modem.prompt)'
  BY DEF ModeInv
<1>1. ~lost /\ ~eaten
  BY Remembered
<1>2. Restored("CMGF1", "CMGF0", modem.mode = "text") /\ Restored("text", "CMGS", ~modem.prompt)
  BY <1>1 DEF ModeInv
<1>3. ASSUME ~Obey PROVE modem'.mode = modem.mode /\ modem'.prompt = modem.prompt
  <2>1. CASE \A a \in Actors : ~Send(a)
    BY <1>3, <2>1, Elsewhere
  <2>2. ASSUME NEW a \in Actors, Send(a) PROVE modem' = modem
    BY <2>2 DEF Send
  <2> QED
    BY <2>1, <2>2
<1>4. ASSUME Obey
      PROVE  /\ line[1].cmd = "CMGF1" => modem'.mode = "text"
             /\ line[1].cmd # "CMGF0" /\ modem.mode = "text" => modem'.mode = "text"
             /\ line[1].cmd = "text" => ~modem'.prompt
             /\ line[1].cmd # "CMGS" /\ ~modem.prompt => ~modem'.prompt
  BY <1>4, ObeysCommand
<1>5. \/ EndsIn(line', "CMGF1", "CMGF0", modem'.mode = "text", Len(line'))
      \/ \E a \in Actors : "CMGF1" \in Unsent(a)'
  <2>1. <<"CMGF1", "CMGF0">> \in Pairs
    BY DEF Pairs
  <2> QED
    BY <1>2, <1>3, <1>4, <2>1, StaysRestored
<1>6. \/ EndsIn(line', "text", "CMGS", ~modem'.prompt, Len(line'))
      \/ \E a \in Actors : "text" \in Unsent(a)'
  <2>1. <<"text", "CMGS">> \in Pairs
    BY DEF Pairs
  <2> QED
    BY <1>2, <1>3, <1>4, <2>1, StaysRestored
<1> QED
  BY <1>5, <1>6 DEF Restored

\* The modem is back in text mode when nothing is under way, unless a command was lost or taken
\* for a text: each AT+CMGF=0 is followed by an AT+CMGF=1 on the line, or there is a thread that
\* will still send one.
THEOREM TextModeIsSetAgain == Spec => []TextModeAtRest
<1>1. TypeInv /\ ModeInv => TextModeAtRest
  <2> SUFFICES ASSUME TypeInv, ModeInv, Settled, ~lost, ~eaten
               PROVE  modem.mode = "text" /\ ~modem.prompt
    BY DEF TextModeAtRest
  <2>1. \A a \in Actors : Unsent(a) = {}
    BY DEF Settled, Busy, Unsent
  <2>2. Len(line) = 0
    BY DEF Settled
  <2>3. /\ EndsIn(line, "CMGF1", "CMGF0", modem.mode = "text", 0)
        /\ EndsIn(line, "text", "CMGS", ~modem.prompt, 0)
    BY <2>1, <2>2 DEF ModeInv, Restored
  <2> QED
    BY <2>3 DEF EndsIn
<1> QED
  BY <1>1, ModeInit, ModeStep, TypeInit, TypeStep, PTL DEF Spec

-----------------------------------------------------------------------------
(* Texts.                                                                  *)

\* A thread is about to send the text; a thread has asked for PDU mode and not yet sent the text.
Opened(a) == At(a, "wait", "CMGS") \/ At(a, "run", "text")
InPdu(a) == At(a, "wait", "CMGF0") \/ At(a, "run", "CMGS") \/ Opened(a)

\* The modem expects a text before command i of the line l, if it expects one now, or not.
Prompt(l, now, i) == IF i = 1 THEN now ELSE l[i - 1].cmd = "CMGS"
\* The modem will be in PDU mode when it has obeyed n commands.
EndsInPdu(l, now, n) == EndsIn(l, "CMGF0", "CMGF1", now, n)

\* Every text on the line comes when it is expected, in PDU mode, and nothing else does.
Ordered(l, prompt, pdu) ==
    \A i \in 1 .. Len(l) :
        /\ Prompt(l, prompt, i) <=> l[i].cmd = "text"
        /\ l[i].cmd = "text" => EndsInPdu(l, pdu, i - 1)

TextInv ==
    ~overlapped /\ ~lost =>
        /\ ~garbled /\ ~eaten
        /\ Ordered(line, modem.prompt, modem.mode = "pdu")
        /\ Prompt(line, modem.prompt, Len(line) + 1) <=> \E a \in Actors : Opened(a)
        /\ \A a \in Actors : InPdu(a) => EndsInPdu(line, modem.mode = "pdu", Len(line))

LEMMA TextInit == Init => TextInv
<1> SUFFICES ASSUME Init PROVE TextInv
  OBVIOUS
<1>1. ASSUME NEW a \in Actors PROVE ~InPdu(a) /\ ~Opened(a)
  <2>1. job[a] \in {Run(InitModem), Idle}
    BY DEF Init
  <2>2. /\ Run(InitModem).pc = "run" /\ Head(Run(InitModem).todo) = "AT" /\ Idle.pc = "idle"
    BY DEF Run, Idle, InitModem
  <2> QED
    BY <2>1, <2>2 DEF InPdu, Opened, At
<1>2. line = <<>> /\ Len(line) = 0 /\ ~modem.prompt /\ ~garbled /\ ~eaten
  BY DEF Init
<1> QED
  BY <1>1, <1>2 DEF TextInv, Ordered, Prompt

\* A thread that has begun a message holds its text.
LEMMA HoldsText ==
    ASSUME JobsType, NEW a \in Actors, InPdu(a)
    PROVE  Has(a, "text")
<1> DEFINE t == job[a].todo
<1>1. job[a].pc \in {"run", "wait"} /\ t \in Lists /\ t # <<>> /\ Head(t) \in {"CMGF0", "CMGS", "text"}
  BY Places DEF InPdu, Opened, At
<1>2. ASSUME NEW x \in Lists, x # <<>> PROVE Head(x) \in Elems(x) /\ Elems(Tail(x)) \subseteq Elems(x)
  BY <1>2, ListParts
<1>3. "text" \in Elems(t)
  <2>1. CASE Head(t) = "CMGF0"
    <3>1. Tail(t) \in Lists /\ Tail(t) # <<>> /\ Head(Tail(t)) = "CMGS"
      BY <1>1, <2>1, NextStep
    <3>2. "text" \in Elems(Tail(Tail(t)))
      BY <3>1, SetAgain
    <3> QED
      BY <1>1, <1>2, <3>1, <3>2
  <2> QED
    BY <1>1, <1>2, <2>1, SetAgain
<1>4. t \in Seq(StepNames)
  BY <1>1 DEF Lists
<1> QED
  BY <1>1, <1>3, <1>4, LenProperties DEF Has, Elems

\* Nobody begins, goes on with, or gives up a message, but by sending its commands.
Steady(a) == (Opened(a)' <=> Opened(a)) /\ (InPdu(a)' => InPdu(a))

LEMMA MessagesSteady ==
    ASSUME TypeInv, [Next]_vars, ~lost', \A a \in Actors : ~Send(a)
    PROVE  \A a \in Actors : Steady(a)
<1> DEFINE P == \A a \in Actors : Steady(a)
<1>0. JobsType /\ pool \in Seq(Frames) /\ line \in Seq([cmd : Names, by : Actors])
  BY DEF TypeInv
<1>u. ASSUME NEW x \in Actors, SameJob(x) PROVE Steady(x)
  BY <1>0, <1>u, Unmoved DEF Steady, Opened, InPdu
<1>a. ASSUME NEW a \in Actors, Others(a), Steady(a) PROVE P
  BY <1>a, <1>u DEF Others
\* Thread a begins with t.
<1>b. ASSUME NEW a \in Actors, job[a].pc \in {"idle", "enter"}, job'[a].pc \in {"idle", "run", "enter"},
             NEW t \in Lists, job'[a].pc = "run" => job'[a].todo = t /\ t # <<>>, Begins(t)
      PROVE  Steady(a)
  BY <1>b DEF Steady, Opened, InPdu, At, Begins
<1>g. ASSUME NEW a \in Actors, job[a].pc \in {"run", "wait"}, Next1(a),
             job[a].pc = "run" => Head(job[a].todo) \in Effects \cup {"cleared"}
      PROVE  P
  <2> DEFINE t == job[a].todo
  <2>1. /\ Others(a) /\ t \in Lists /\ t # <<>> /\ job'[a].pc \in {"idle", "run"}
        /\ job'[a] = Run(Tail(t))
        /\ job'[a].pc = "run" => job'[a].todo = Tail(t)
    BY <1>0, <1>g, GoesOn
  <2>2. Tail(t) # <<>> <=> job'[a].pc = "run"
    BY <2>1 DEF Run, Idle
  <2> HIDE DEF t
  <2>3. CASE job[a].pc = "run"
    <3>1. /\ Head(t) \in Effects \cup {"cleared"}
          /\ Tail(t) = <<>> \/ Head(Tail(t)) \notin {"CMGS", "text"}
      BY <1>g, <2>1, <2>3, NextStep DEF t, Effects
    <3>2. ~InPdu(a) /\ ~Opened(a)
      BY <2>3, <3>1 DEF InPdu, Opened, At, Effects, t
    <3>3. ~InPdu(a)' /\ ~Opened(a)'
      BY <2>1, <2>2, <3>1 DEF InPdu, Opened, At
    <3> QED
      BY <1>a, <2>1, <3>2, <3>3 DEF Steady
  <2>4. CASE job[a].pc = "wait"
    <3>1. /\ Opened(a) <=> Head(t) = "CMGS"
          /\ InPdu(a) <=> Head(t) \in {"CMGF0", "CMGS"}
      BY <2>4 DEF InPdu, Opened, At, t
    <3>2. /\ Opened(a)' <=> Tail(t) # <<>> /\ Head(Tail(t)) = "text"
          /\ InPdu(a)' <=> Tail(t) # <<>> /\ Head(Tail(t)) \in {"CMGS", "text"}
      BY <2>1, <2>2 DEF InPdu, Opened, At
    <3>3. Steady(a)
      BY <2>1, <3>1, <3>2, NextStep DEF Steady
    <3> QED
      BY <1>a, <2>1, <3>3
  <2> QED
    BY <1>g, <2>3, <2>4
<1>h. ASSUME NEW w \in Workers, job[w].pc = "enter", NEW t \in Lists, Continue(w, t), Begins(t)
      PROVE  P
  <2>1. /\ Others(w) /\ w \in Actors /\ job'[w].pc \in {"idle", "run"}
        /\ job'[w].pc = "run" => job'[w].todo = t
    BY <1>0, <1>h, Handles DEF Actors
  <2>2. job'[w].pc = "run" => t # <<>>
    BY <1>0, <1>h DEF Continue, Run, Idle, JobsType, Actors
  <2> QED
    BY <1>a, <1>b, <1>h, <2>1, <2>2
<1>2. ASSUME NEW a \in Actors, SendFails(a) PROVE P
  BY <1>2 DEF SendFails
<1>3. ASSUME NEW a \in Actors, Woken(a) \/ TimeOut(a) \/ ClearTones(a) PROVE P
  BY <1>3, <1>g DEF Woken, TimeOut, ClearTones
<1>4. ASSUME NEW a \in Actors, Effect(a) PROVE P
  BY <1>4, <1>g DEF Effect
<1>5. ASSUME NEW w \in Workers, Take(w) PROVE P
  <2>1. Others(w) /\ w \in Actors /\ job[w].pc = "idle" /\ job'[w].pc = "enter"
    BY <1>0, <1>5, Takes DEF Actors
  <2> QED
    BY <1>a, <1>b, <2>1, EmptyList, Starts
<1>6. ASSUME NEW w \in Workers, Answer(w) PROVE P
  BY <1>6, <1>h, EmptyList, Starts DEF Answer, Entered
<1>7. ASSUME NEW w \in Workers, Ring(w) PROVE P
  BY <1>7, <1>h, RingLists, Starts DEF Ring, Entered
<1>8. ASSUME NEW w \in Workers, Tones(w) PROVE P
  BY <1>8, <1>h, ToneLists, EmptyList, Starts DEF Tones, Entered, Begins
<1>9. ASSUME NEW w \in Workers, Message(w) PROVE P
  BY <1>9, <1>h, CodeLists, Programs, Starts DEF Message, Entered
<1>10. ASSUME NEW w \in Workers, Balance(w) PROVE P
  BY <1>10, <1>h, SmsLists, EmptyList, Starts DEF Balance, Entered
<1>11. ASSUME Obey PROVE P
  BY <1>0, <1>11, <1>u, Obeys
<1>12. ASSUME Ussd PROVE P
  BY <1>12, <1>u DEF Ussd, SameJob
<1>13. ASSUME NEW s \in Stimuli, Stimulate(s) PROVE P
  <2>0. modem \in Modems /\ stimuli \in Nat /\ App \in Actors
    BY DEF TypeInv, Actors
  <2>1. CASE \A x \in Actors : SameJob(x)
    BY <2>1, <1>u
  <2>2. ASSUME job[App].pc = "idle", Others(App), NEW t \in Lists, Begins(t),
               job' = [job EXCEPT ![App] = Run(t)],
               job'[App].pc \in {"idle", "run"}, job'[App].pc = "run" => job'[App].todo = t
        PROVE  P
    <3>1. job'[App].pc = "run" => t # <<>>
      BY <1>0, <2>0, <2>2 DEF Run, Idle, JobsType
    <3> QED
      BY <1>a, <1>b, <2>0, <2>2, <3>1
  <2> HIDE DEF P
  <2> QED
    BY <1>0, <1>13, <2>0, <2>1, <2>2, Stimulated
<1>14. ASSUME UNCHANGED vars PROVE P
  BY <1>14, <1>u DEF vars, SameJob
<1> HIDE DEF P
<1>15. P
  BY <1>2, <1>3, <1>4, <1>5, <1>6, <1>7, <1>8, <1>9, <1>10, <1>11, <1>12, <1>13, <1>14,
     StepCases
<1> QED
  BY <1>15 DEF P

LEMMA TextStep == TypeInv /\ TextInv /\ [Next]_vars => TextInv'
<1> DEFINE Texts == /\ ~garbled /\ ~eaten
                    /\ Ordered(line, modem.prompt, modem.mode = "pdu")
                    /\ Prompt(line, modem.prompt, Len(line) + 1) <=> \E a \in Actors : Opened(a)
                    /\ \A a \in Actors : InPdu(a) => EndsInPdu(line, modem.mode = "pdu", Len(line))
           P == /\ ~garbled' /\ ~eaten'
                /\ Ordered(line', modem'.prompt, modem'.mode = "pdu")
                /\ Prompt(line', modem'.prompt, Len(line') + 1) <=> \E a \in Actors : Opened(a)'
                /\ \A a \in Actors : InPdu(a)' => EndsInPdu(line', modem'.mode = "pdu", Len(line'))
<1> SUFFICES ASSUME TypeInv, TextInv, [Next]_vars, ~overlapped', ~lost' PROVE P
  BY DEF TextInv
<1>0. JobsType /\ line \in Seq(Items) /\ Len(line) \in Nat
  BY LenProperties DEF TypeInv, Items
<1>i. Texts /\ ~overlapped /\ ~lost
  <2>1. ~overlapped /\ ~lost
    BY Remembered
  <2> QED
    BY <2>1 DEF TextInv
<1>1. ASSUME NEW a \in Actors, Send(a) PROVE P
  <2> DEFINE t == job[a].todo
             c == [cmd |-> Head(t), by |-> a]
             pdu == modem.mode = "pdu"
             n == Len(line)
  <2>1. /\ Others(a) /\ job[a].pc = "run" /\ Head(t) \in Names /\ t \in Lists /\ t # <<>>
        /\ job'[a].pc = "wait" /\ job'[a].todo = t
    BY <1>0, <1>1, Sends
  <2>2. /\ c \in Items /\ line' = Append(line, c) /\ c.cmd = Head(t)
        /\ modem' = modem /\ garbled' = garbled /\ eaten' = eaten
    BY <1>1, <2>1 DEF Send, Items
  <2>3. ASSUME NEW x \in Actors \ {a} PROVE ~InPdu(x) /\ ~Opened(x) /\ ~InPdu(x)' /\ ~Opened(x)'
    <3>1. ~Has(x, "text")
      BY <1>1 DEF Send
    <3>2. ~InPdu(x) /\ ~Opened(x)
      BY <1>0, <3>1, HoldsText DEF InPdu
    <3>3. SameJob(x)
      BY <2>1 DEF Others
    <3> QED
      BY <1>0, <3>2, <3>3, Unmoved DEF InPdu, Opened
  <2>4. /\ Opened(a) <=> Head(t) = "text"
        /\ InPdu(a) <=> Head(t) \in {"CMGS", "text"}
        /\ Opened(a)' <=> Head(t) = "CMGS"
        /\ InPdu(a)' <=> Head(t) \in {"CMGF0", "CMGS"}
    BY <2>1 DEF InPdu, Opened, At
  <2> HIDE DEF t, c, pdu
  <2>5. /\ Len(line') = n + 1 /\ \A i \in 1 .. n : line'[i] = line[i]
        /\ line'[n + 1] = c
        /\ \A i \in 0 .. n : EndsInPdu(line, pdu, i) => EndsInPdu(line', pdu, i)
        /\ c.cmd = "CMGF0" => EndsInPdu(line', pdu, Len(line'))
        /\ c.cmd # "CMGF1" /\ EndsInPdu(line, pdu, n) => EndsInPdu(line', pdu, Len(line'))
    BY <1>0, <2>2, EndsAppend DEF EndsInPdu
  <2>6. \A i \in 1 .. n + 1 : Prompt(line', modem'.prompt, i) = Prompt(line, modem.prompt, i)
    BY <1>0, <2>2, <2>5 DEF Prompt
  <2>7. Prompt(line, modem.prompt, n + 1) <=> Head(t) = "text"
    BY <1>i, <2>3, <2>4
  <2>8. Ordered(line', modem'.prompt, pdu)
    <3>1. ASSUME NEW i \in 1 .. Len(line')
          PROVE  /\ Prompt(line', modem'.prompt, i) <=> line'[i].cmd = "text"
                 /\ line'[i].cmd = "text" => EndsInPdu(line', pdu, i - 1)
      <4>1. CASE i \in 1 .. n
        <5>1. /\ Prompt(line, modem.prompt, i) <=> line[i].cmd = "text"
              /\ line[i].cmd = "text" => EndsInPdu(line, pdu, i - 1)
          BY <1>i, <4>1 DEF Ordered, pdu
        <5>2. line'[i] = line[i] /\ i - 1 \in 0 .. n /\ i \in 1 .. n + 1
          BY <1>0, <2>5, <4>1
        <5> QED
          BY <2>5, <2>6, <5>1, <5>2
      <4>2. CASE i = n + 1
        <5>1. Head(t) = "text" => EndsInPdu(line, pdu, n)
          BY <1>i, <2>4 DEF pdu
        <5>2. line'[i].cmd = Head(t) /\ i - 1 = n /\ n \in 0 .. n /\ i \in 1 .. n + 1
          BY <1>0, <2>2, <2>5, <4>2
        <5> QED
          BY <2>5, <2>6, <2>7, <4>2, <5>1, <5>2
      <4> QED
        BY <1>0, <2>5, <4>1, <4>2
    <3> QED
      BY <3>1 DEF Ordered
  <2>9. Prompt(line', modem'.prompt, Len(line') + 1) <=> \E x \in Actors : Opened(x)'
    <3>1. (\E x \in Actors : Opened(x)') <=> Head(t) = "CMGS"
      BY <2>3, <2>4
    <3>2. Len(line') + 1 # 1 /\ (Len(line') + 1) - 1 = n + 1
      BY <1>0, <2>5
    <3>3. Prompt(line', modem'.prompt, Len(line') + 1) <=> Head(t) = "CMGS"
      BY <2>2, <2>5, <3>2 DEF Prompt
    <3> QED
      BY <3>1, <3>3
  <2>10. ASSUME NEW x \in Actors, InPdu(x)' PROVE EndsInPdu(line', pdu, Len(line'))
    BY <1>i, <2>2, <2>3, <2>4, <2>5, <2>10 DEF pdu
  <2>11. ~garbled' /\ ~eaten'
    BY <1>i, <2>2
  <2> QED
    BY <2>2, <2>8, <2>9, <2>10, <2>11 DEF pdu
<1>2. ASSUME Obey PROVE P
  <2> DEFINE n == Len(line)
             c == line[1].cmd
  <2>1. \A a \in Actors : SameJob(a) /\ (Opened(a)' <=> Opened(a)) /\ (InPdu(a)' <=> InPdu(a))
    <3>1. \A a \in Actors : SameJob(a)
      BY <1>0, <1>2, Obeys DEF Items
    <3> QED
      BY <1>0, <3>1, Unmoved DEF Opened, InPdu
  <2>2. /\ n \in Nat \ {0} /\ Len(line') = n - 1 /\ line # <<>> /\ line' = Tail(line)
        /\ \A i \in 1 .. Len(line') : line'[i] = line[i + 1]
    BY <1>0, <1>2, Oldest DEF Obey, Items
  <2>3. /\ modem.prompt <=> c = "text"
        /\ c = "text" => modem.mode = "pdu"
    <3>1. 1 \in 1 .. n
      BY <2>2
    <3>2. Prompt(line, modem.prompt, 1) <=> modem.prompt
      BY DEF Prompt
    <3>3. c = "text" => EndsInPdu(line, modem.mode = "pdu", 0)
      <4>1. 1 - 1 = 0
        OBVIOUS
      <4> QED
        BY <1>i, <3>1, <4>1 DEF Ordered
    <3>4. EndsInPdu(line, modem.mode = "pdu", 0) => modem.mode = "pdu"
      BY DEF EndsInPdu, EndsIn
    <3> QED
      BY <1>i, <3>1, <3>2, <3>3, <3>4 DEF Ordered
  <2>4. ~garbled' /\ ~eaten'
    <3>1. /\ eaten' = (eaten \/ (modem.prompt /\ c # "text"))
          /\ garbled' = (garbled \/ (c = "text" /\ (~modem.prompt \/ modem.mode # "pdu")))
      BY <1>2, ObeysCommand
    <3> QED
      BY <1>i, <2>3, <3>1
  <2>5. /\ modem'.mode = IF c = "CMGF0" THEN "pdu" ELSE IF c = "CMGF1" THEN "text" ELSE modem.mode
        /\ modem'.prompt = IF c = "CMGS" THEN TRUE ELSE IF c = "text" THEN FALSE ELSE modem.prompt
    BY <1>2, <2>4, ObeysCommand
  <2>6. \A i \in 1 .. n : Prompt(line', modem'.prompt, i) <=> Prompt(line, modem.prompt, i + 1)
    <3>1. modem'.prompt <=> c = "CMGS"
      BY <2>3, <2>5
    <3>2. ASSUME NEW i \in 1 .. n, i # 1 PROVE i - 1 \in 1 .. Len(line') /\ (i - 1) + 1 = (i + 1) - 1
      BY <2>2, <3>2
    <3>3. \A i \in 1 .. n : i + 1 # 1
      BY <2>2
    <3> QED
      BY <2>2, <3>1, <3>2, <3>3 DEF Prompt
  <2>7. ASSUME NEW i \in 1 .. n, EndsInPdu(line, modem.mode = "pdu", i)
        PROVE  EndsInPdu(line', modem'.mode = "pdu", i - 1)
    <3>1. /\ c = "CMGF0" => modem'.mode = "pdu"
          /\ c # "CMGF1" /\ modem.mode = "pdu" => modem'.mode = "pdu"
      BY <2>5
    <3> QED
      BY <1>0, <2>2, <2>7, <3>1, EndsTail DEF EndsInPdu
  <2>8. Ordered(line', modem'.prompt, modem'.mode = "pdu")
    <3>1. ASSUME NEW i \in 1 .. Len(line')
          PROVE  /\ Prompt(line', modem'.prompt, i) <=> line'[i].cmd = "text"
                 /\ line'[i].cmd = "text" => EndsInPdu(line', modem'.mode = "pdu", i - 1)
      <4>1. i \in 1 .. n /\ i + 1 \in 1 .. n /\ (i + 1) - 1 = i /\ line'[i] = line[i + 1]
        BY <2>2
      <4>2. /\ Prompt(line, modem.prompt, i + 1) <=> line[i + 1].cmd = "text"
            /\ line[i + 1].cmd = "text" => EndsInPdu(line, modem.mode = "pdu", i)
        BY <1>i, <4>1 DEF Ordered
      <4> QED
        BY <2>6, <2>7, <4>1, <4>2
    <3> QED
      BY <3>1 DEF Ordered
  <2>9. Prompt(line', modem'.prompt, Len(line') + 1) <=> \E a \in Actors : Opened(a)'
    <3>1. Len(line') + 1 = n /\ n \in 1 .. n
      BY <2>2
    <3> QED
      BY <1>i, <2>1, <2>6, <3>1
  <2>10. \A a \in Actors : InPdu(a)' => EndsInPdu(line', modem'.mode = "pdu", Len(line'))
    <3>1. Len(line') = n - 1 /\ n \in 1 .. n
      BY <2>2
    <3> QED
      BY <1>i, <2>1, <2>7, <3>1
  <2> QED
    BY <2>4, <2>8, <2>9, <2>10
<1>3. ASSUME ~Obey, \A a \in Actors : ~Send(a) PROVE P
  <2>1. /\ UNCHANGED <<line, eaten, garbled>>
        /\ modem'.mode = modem.mode /\ modem'.prompt = modem.prompt
    BY <1>3, Elsewhere
  <2>2. \A a \in Actors : Steady(a)
    BY <1>3, MessagesSteady
  <2>3. ~garbled' /\ ~eaten'
    BY <1>i, <2>1
  <2> QED
    BY <1>i, <2>1, <2>2, <2>3 DEF Steady
<1> QED
  BY <1>1, <1>2, <1>3

\* The text of a message comes after its AT+CMGS and in PDU mode, unless another thread sent
\* something meanwhile or a command was lost: the modem expects a text before a command exactly
\* if that command is a text, and behind the last one exactly if a thread is about to send one.
THEOREM TextsAreIntact == Spec => []TextsIntact
<1>1. TextInv => TextsIntact
  BY DEF TextInv, TextsIntact
<1> QED
  BY <1>1, TextInit, TextStep, TypeInit, TypeStep, PTL DEF Spec

-----------------------------------------------------------------------------
(* Balances.                                                               *)

\* The answer to a request for the balance is still to come, or has not been handled.
BalanceDue ==
    \/ \E a \in Actors : "CUSD" \in Unsent(a)
    \/ \E i \in 1 .. Len(line) : line[i].cmd = "CUSD"
    \/ modem.ussd
    \/ \E i \in 1 .. Len(pool) : pool[i].kind = "balance"
    \/ \E w \in Workers : Entered(w, "balance")

BalanceInv ==
    /\ extra => doubled
    /\ ~doubled =>
        /\ \A v, w \in Actors : "texted" \in Held(v) /\ "texted" \in Held(w) => v = w
        /\ \A w \in Actors : "texted" \in Held(w) => balanceToSms /\ ~owed
        /\ balanceToSms => owed \/ \E w \in Actors : "texted" \in Held(w)
        /\ owed => balanceToSms
        /\ owed /\ ~lost /\ ~eaten => BalanceDue

LEMMA Holds ==
    ASSUME JobsType, NEW a \in Actors
    PROVE  /\ \A s \in StepNames : Has(a, s) <=> s \in Held(a)
           /\ Held(App) \cap Effects = {}
<1>1. job[a].pc \in {"run", "wait"} => DOMAIN job[a].todo = 1 .. Len(job[a].todo)
  BY Places, LenProperties DEF Lists
<1>2. App \in Actors
  BY DEF Actors
<1> QED
  BY <1>1, <1>2, Places DEF Has, Held, Elems

LEMMA BalanceInit == Init => BalanceInv
<1> SUFFICES ASSUME Init PROVE BalanceInv
  OBVIOUS
<1>1. ~extra /\ ~owed /\ ~balanceToSms
  BY DEF Init
<1>2. ASSUME NEW a \in Actors PROVE "texted" \notin Held(a)
  <2>1. job[a] \in {Run(InitModem), Idle}
    BY DEF Init
  <2>2. Run(InitModem).todo = InitModem /\ Idle.pc = "idle"
    BY DEF Run, Idle, InitModem
  <2>3. "texted" \notin Elems(InitModem)
    BY Programs DEF Effects
  <2> QED
    BY <2>1, <2>2, <2>3 DEF Held
<1> QED
  BY <1>1, <1>2 DEF BalanceInv

\* A balance that is due stays due until a worker handles it, unless a command is lost or eaten.
LEMMA StaysDue ==
    ASSUME TypeInv, [Next]_vars, ~lost', ~eaten', BalanceDue, \A w \in Workers : ~Balance(w)
    PROVE  BalanceDue'
<1> DEFINE Waiting == \E i \in 1 .. Len(pool) : pool[i].kind = "balance"
           Waiting2 == \E i \in 1 .. Len(pool') : pool'[i].kind = "balance"
           Coming == \E i \in 1 .. Len(line) : line[i].cmd = "CUSD"
           Coming2 == \E i \in 1 .. Len(line') : line'[i].cmd = "CUSD"
           P == BalanceDue'
<1>0. JobsType /\ pool \in Seq(Frames) /\ line \in Seq(Items) /\ "CUSD" \in Names
  BY DEF TypeInv, Items, Names
<1>k. ASSUME \A x \in Actors : "CUSD" \in Unsent(x) => "CUSD" \in Unsent(x)' \/ Coming2,
             Coming => Coming2 \/ modem'.ussd, modem.ussd => modem'.ussd \/ Waiting2,
             Waiting => Waiting2 \/ \E w \in Workers : Entered(w, "balance")',
             \A w \in Workers : Entered(w, "balance") => Entered(w, "balance")'
      PROVE  P
  BY <1>k DEF BalanceDue
<1>e. ASSUME NEW w \in Workers, SameJob(w), Entered(w, "balance") PROVE Entered(w, "balance")'
  BY <1>e DEF SameJob, Entered
<1>p. ASSUME NEW f \in Frames, pool' = Append(pool, f), Waiting \/ f.kind = "balance" PROVE Waiting2
  <2>1. /\ Len(pool) \in Nat /\ Len(pool') = Len(pool) + 1 /\ pool'[Len(pool) + 1] = f
        /\ \A i \in 1 .. Len(pool) : pool'[i] = pool[i]
    BY <1>0, <1>p, AppendProperties, LenProperties
  <2>2. Len(pool) + 1 \in 1 .. Len(pool') /\ \A i \in 1 .. Len(pool) : i \in 1 .. Len(pool')
    BY <2>1
  <2> QED
    BY <1>p, <2>1, <2>2
<1> HIDE DEF Waiting, Waiting2
<1>1. ASSUME NEW a \in Actors, Send(a) PROVE P
  <2> DEFINE c == [cmd |-> Head(job[a].todo), by |-> a]
  <2>1. Others(a) /\ Head(job[a].todo) \in Names /\ job[a].pc = "run"
    BY <1>0, <1>1, Sends
  <2>2. line' = Append(line, c) /\ c \in Items /\ modem' = modem /\ pool' = pool
        /\ c.cmd = Head(job[a].todo)
    BY <1>1, <2>1 DEF Send, Items
  <2> HIDE DEF c
  <2>3. /\ Len(line) \in Nat /\ Len(line') = Len(line) + 1 /\ line'[Len(line) + 1] = c
        /\ \A i \in 1 .. Len(line) : line'[i] = line[i]
    BY <1>0, <2>2, AppendProperties, LenProperties
  <2>4. Len(line) + 1 \in 1 .. Len(line') /\ \A i \in 1 .. Len(line) : i \in 1 .. Len(line')
    BY <2>3
  <2>5. (Coming => Coming2) /\ (Head(job[a].todo) = "CUSD" => Coming2)
    BY <2>2, <2>3, <2>4
  <2>6. \A x \in Actors : "CUSD" \in Unsent(x) => "CUSD" \in Unsent(x)' \/ Coming2
    <3>1. ASSUME NEW x \in Actors \ {a} PROVE Unsent(x)' = Unsent(x)
      BY <1>0, <2>1, Unmoved DEF Others
    <3>2. "CUSD" \in Unsent(a) => "CUSD" \in Unsent(a)' \/ Head(job[a].todo) = "CUSD"
      BY <1>0, <1>1, Sends
    <3> QED
      BY <2>5, <3>1, <3>2
  <2>7. \A w \in Workers : Entered(w, "balance") => Entered(w, "balance")'
    BY <1>e, <2>1 DEF Others, Actors, Entered
  <2>8. Waiting => Waiting2
    BY <2>2 DEF Waiting, Waiting2
  <2> HIDE DEF Coming, Coming2, P
  <2> QED
    BY <1>k, <2>2, <2>5, <2>6, <2>7, <2>8
<1>2. ASSUME \A a \in Actors : ~Send(a) PROVE \A x \in Actors : "CUSD" \in Unsent(x) => "CUSD" \in Unsent(x)'
  BY <1>0, <1>2, Carried DEF Carries
<1> HIDE DEF P
<1>o. ASSUME \A a \in Actors : ~Send(a), NEW b \in Actors, Others(b), UNCHANGED <<pool, line, modem>>,
             job[b].pc = "enter" => job[b].frame.kind # "balance"
      PROVE  P
  <2>1. \A w \in Workers : Entered(w, "balance") => Entered(w, "balance")'
    BY <1>e, <1>o DEF Others, Actors, Entered
  <2>2. Waiting => Waiting2
    BY <1>o DEF Waiting, Waiting2
  <2> QED
    BY <1>2, <1>k, <1>o, <2>1, <2>2
<1>g. ASSUME \A a \in Actors : ~Send(a), NEW b \in Actors, job[b].pc \in {"run", "wait"}, Next1(b),
             UNCHANGED <<pool, line, modem>>
      PROVE  P
  BY <1>0, <1>g, <1>o, GoesOn
<1>w. ASSUME \A a \in Actors : ~Send(a), NEW w \in Workers, job[w].pc = "enter",
             job[w].frame.kind # "balance", NEW t \in Lists, Continue(w, t), UNCHANGED <<pool, line, modem>>
      PROVE  P
  BY <1>0, <1>o, <1>w, Handles DEF Actors
<1>3. ASSUME \A a \in Actors : ~Send(a) PROVE P
  <2>1. ASSUME NEW b \in Actors, SendFails(b) PROVE P
    BY <1>3, <1>g, <2>1 DEF SendFails, AtCommand
  <2>2. ASSUME NEW b \in Actors, Woken(b) \/ TimeOut(b) \/ ClearTones(b) PROVE P
    BY <1>3, <1>g, <2>2 DEF Woken, TimeOut, ClearTones
  <2>3. ASSUME NEW b \in Actors, Effect(b) PROVE P
    BY <1>3, <1>g, <2>3 DEF Effect
  <2>4. ASSUME NEW w \in Workers, Take(w) PROVE P
    <3>1. /\ Others(w) /\ job[w].pc = "idle" /\ job'[w].pc = "enter" /\ job'[w].frame = pool[1]
          /\ Len(pool) \in Nat \ {0} /\ Len(pool') = Len(pool) - 1
          /\ \A i \in 1 .. Len(pool') : pool'[i] = pool[i + 1]
      BY <1>0, <2>4, Takes
    <3>2. ASSUME NEW i \in 1 .. Len(pool), pool[i].kind = "balance"
          PROVE  Waiting2 \/ Entered(w, "balance")'
      <4>1. CASE i = 1
        BY <3>1, <3>2, <4>1 DEF Entered
      <4>2. CASE i # 1
        <5>1. i - 1 \in 1 .. Len(pool') /\ (i - 1) + 1 = i
          BY <3>1, <4>2
        <5> QED
          BY <3>1, <3>2, <5>1 DEF Waiting2
      <4> QED
        BY <4>1, <4>2
    <3>3. \A x \in Workers : Entered(x, "balance") => Entered(x, "balance")'
      BY <1>e, <3>1 DEF Others, Actors, Entered
    <3>4. UNCHANGED <<line, modem>>
      BY <2>4 DEF Take
    <3>5. Waiting => Waiting2 \/ \E x \in Workers : Entered(x, "balance")'
      BY <3>2 DEF Waiting
    <3> QED
      BY <1>2, <1>3, <1>k, <3>3, <3>4, <3>5
  <2>5. ASSUME NEW w \in Workers, Answer(w) PROVE P
    BY <1>3, <1>w, <2>5, EmptyList DEF Answer, Entered
  <2>6. ASSUME NEW w \in Workers, Ring(w) PROVE P
    BY <1>3, <1>w, <2>6, RingLists DEF Ring, Entered
  <2>7. ASSUME NEW w \in Workers, Tones(w) PROVE P
    BY <1>3, <1>w, <2>7, ToneLists, EmptyList DEF Tones, Entered
  <2>8. ASSUME NEW w \in Workers, Message(w) PROVE P
    BY <1>3, <1>w, <2>8, CodeLists, Programs DEF Message, Entered
  <2>9. ASSUME Obey PROVE P
    <3>1. /\ \A x \in Actors : SameJob(x)
          /\ Len(line) \in Nat \ {0} /\ Len(line') = Len(line) - 1
          /\ \A i \in 1 .. Len(line') : line'[i] = line[i + 1]
      BY <1>0, <2>9, Obeys, Oldest DEF Obey, Items
    <3>2. \A x \in Workers : Entered(x, "balance") => Entered(x, "balance")'
      BY <1>e, <3>1 DEF Actors
    <3>3. modem'.ussd = IF line[1].cmd = "CUSD" THEN TRUE ELSE modem.ussd
      BY <2>9, ObeysCommand
    <3>4. Coming => Coming2 \/ modem'.ussd
      <4> SUFFICES ASSUME NEW i \in 1 .. Len(line), line[i].cmd = "CUSD"
                   PROVE  Coming2 \/ modem'.ussd
        OBVIOUS
      <4>1. CASE i = 1
        BY <3>3, <4>1
      <4>2. CASE i # 1
        <5>1. i - 1 \in 1 .. Len(line') /\ (i - 1) + 1 = i
          BY <3>1, <4>2
        <5>2. line'[i - 1] = line[i]
          BY <3>1, <5>1
        <5> QED
          BY <5>1, <5>2
      <4> QED
        BY <4>1, <4>2
    <3>5. Waiting => Waiting2
      <4>1. pool' = pool \/ \E f : pool' = Append(pool, f)
        BY <2>9 DEF Obey
      <4>2. ASSUME NEW f, pool' = Append(pool, f), Waiting PROVE Waiting2
        <5>1. pool \in Seq(Frames \cup {f}) /\ f \in Frames \cup {f}
          BY <1>0
        <5>2. /\ Len(pool) \in Nat /\ Len(pool') = Len(pool) + 1
              /\ \A i \in 1 .. Len(pool) : pool'[i] = pool[i]
          BY <4>2, <5>1, AppendProperties, LenProperties
        <5>3. \A i \in 1 .. Len(pool) : i \in 1 .. Len(pool')
          BY <5>2
        <5> QED
          BY <4>2, <5>2, <5>3 DEF Waiting, Waiting2
      <4> QED
        BY <4>1, <4>2 DEF Waiting, Waiting2
    <3> QED
      BY <1>2, <1>3, <1>k, <3>2, <3>3, <3>4, <3>5
  <2>10. ASSUME Ussd PROVE P
    <3>1. [kind |-> "balance", val |-> ""] \in Frames
      BY DEF Frames, Simple
    <3>2. open /\ UNCHANGED <<line, job>>
      BY <2>10 DEF Ussd, history, TypeInv
    <3>3. Waiting2
      BY <1>p, <2>10, <3>1, <3>2 DEF Ussd, Say
    <3>4. \A w \in Workers : Entered(w, "balance") => Entered(w, "balance")'
      BY <3>2 DEF Entered
    <3> QED
      BY <1>2, <1>3, <1>k, <3>2, <3>3, <3>4
  <2>11. ASSUME NEW s \in Stimuli, Stimulate(s) PROVE P
    <3>0. modem \in Modems /\ stimuli \in Nat
      BY DEF TypeInv
    <3>1. /\ line' = line /\ modem'.ussd = modem.ussd
          /\ \/ \A x \in Actors : SameJob(x)
             \/ job[App].pc = "idle" /\ Others(App)
          /\ pool' = pool \/ \E f \in Frames : pool' = Append(pool, f)
      BY <1>0, <2>11, <3>0, Stimulated
    <3>2. \A w \in Workers : Entered(w, "balance") => Entered(w, "balance")'
      BY <1>e, <3>1, ModemAssumption DEF Others, Actors, Entered
    <3>3. Waiting => Waiting2
      <4>1. CASE pool' = pool
        BY <4>1 DEF Waiting, Waiting2
      <4> QED
        BY <1>p, <3>1, <4>1
    <3> QED
      BY <1>2, <1>3, <1>k, <3>1, <3>2, <3>3
  <2>12. ASSUME UNCHANGED vars PROVE P
    BY <1>2, <1>3, <1>k, <2>12 DEF vars, Entered, Waiting, Waiting2
  <2>13. \A w \in Workers : Balance(w) => P
    OBVIOUS
  <2>14. \A a \in Actors : Send(a) => P
    BY <1>3
  <2> QED
    BY <2>1, <2>2, <2>3, <2>4, <2>5, <2>6, <2>7, <2>8, <2>9, <2>10, <2>11, <2>12, <2>13, <2>14,
       StepCases
<1> QED
  BY <1>1, <1>3 DEF P

LEMMA BalanceStep == TypeInv /\ BalanceInv /\ [Next]_vars => BalanceInv'
<1> SUFFICES ASSUME TypeInv, BalanceInv, [Next]_vars PROVE BalanceInv'
  OBVIOUS
<1> DEFINE Holder(x) == "texted" \in Held(x)
           Once == \A v, w \in Actors : Holder(v)' /\ Holder(w)' => v = w
           Now == \A w \in Actors : Holder(w)' => balanceToSms' /\ ~owed'
           Why == balanceToSms' => owed' \/ \E w \in Actors : Holder(w)'
           Due == owed' => balanceToSms' /\ (lost' \/ eaten' \/ BalanceDue')
           P == (extra' => doubled') /\ (~doubled' => Once /\ Now /\ Why /\ Due)
<1>q. P => BalanceInv'
  BY DEF BalanceInv
<1>0. JobsType /\ pool \in Seq(Frames) /\ line \in Seq(Items)
  BY DEF TypeInv, Items
<1>r. (doubled => doubled') /\ (lost => lost') /\ (eaten => eaten')
  BY Remembered
<1>x. \A x \in Actors : Has(x, "texted") <=> Holder(x)
  BY <1>0, Holds DEF StepNames, Effects
<1>y. ~Holder(App)
  BY <1>0, Holds, ModemAssumption DEF Effects, Actors
<1>b. owed \in BOOLEAN /\ balanceToSms \in BOOLEAN /\ extra \in BOOLEAN /\ doubled \in BOOLEAN
  BY DEF TypeInv
\* Nothing happens to the balance.
<1>s. ASSUME balanceToSms' = balanceToSms, owed' = owed, extra' = extra,
             \A x \in Actors : Holder(x)' <=> Holder(x), \A w \in Workers : ~Balance(w)
      PROVE  P
  <2>1. ASSUME owed, ~lost', ~eaten', ~doubled' PROVE BalanceDue'
    <3>1. BalanceDue
      BY <1>r, <2>1 DEF BalanceInv
    <3> QED
      BY <1>s, <2>1, <3>1, StaysDue
  <2> QED
    BY <1>r, <1>s, <2>1 DEF BalanceInv
\* Thread a does one of its steps.
<1>o. ASSUME NEW a \in Actors, Others(a), Holder(a)' <=> Holder(a)
      PROVE  \A x \in Actors : Holder(x)' <=> Holder(x)
  BY <1>0, <1>o, Unmoved DEF Others
<1>d. "texted" \notin Names
  BY DEF Names
\* A worker begins what does not text.
<1>h. ASSUME NEW w \in Workers, job[w].pc = "enter", NEW t \in Lists, Continue(w, t),
             "texted" \notin Elems(t)
      PROVE  (\A x \in Actors : Holder(x)' <=> Holder(x)) /\ ~Holder(w)' /\ w \in Actors
  BY <1>0, <1>h, <1>o, Handles DEF Actors
<1>e. "texted" \in Effects
  BY DEF Effects
\* A worker executes codes.
<1>c. ASSUME NEW w \in Workers, job[w].pc = "enter", NEW t \in Lists, Continue(w, t),
             Elems(t) \cap Effects = {}, NEW codes, Execute(w, codes), extra' = extra,
             "401" \in codes => "CUSD" \in Elems(t), \A x \in Workers : ~Balance(x)
      PROVE  P
  <2>1. (\A x \in Actors : Holder(x)' <=> Holder(x)) /\ ~Holder(w)' /\ w \in Actors
    BY <1>c, <1>e, <1>h
  <2>2. CASE "401" \notin codes
    <3>1. balanceToSms' = balanceToSms /\ owed' = owed
      BY <1>b, <1>c, <2>2 DEF Execute
    <3> HIDE DEF P
    <3> QED
      BY <1>c, <1>s, <2>1, <3>1
  <2>3. CASE "401" \in codes
    <3>1. balanceToSms' /\ owed' /\ (doubled' \/ ~Texting(w))
      BY <1>c, <2>3, Zenon DEF Execute
    <3>2. ASSUME ~doubled', NEW x \in Actors, Holder(x)' PROVE FALSE
      <4>1. Holder(x) /\ x # w /\ x # App
        BY <1>y, <2>1, <3>2
      <4> QED
        BY <1>x, <3>1, <3>2, <4>1 DEF Texting, Actors
    <3>3. BalanceDue'
      <4>1. Unsent(w)' = Elems(t)
        BY <1>0, <1>c, Handles
      <4> QED
        BY <1>c, <2>1, <2>3, <4>1 DEF BalanceDue
    <3>4. extra' => doubled'
      BY <1>c, <1>r DEF BalanceInv
    <3> QED
      BY <3>1, <3>2, <3>3, <3>4
  <2> QED
    BY <2>2, <2>3
<1> HIDE DEF P
<1>1. ASSUME \E w \in Workers : Balance(w) PROVE P
  <2> PICK w \in Workers : Balance(w)
    BY <1>1
  <2>1. job[w].pc = "enter" /\ w \in Actors /\ w # App
    BY ModemAssumption DEF Balance, Entered, Actors
  <2>2. balanceToSms' = balanceToSms /\ (doubled' \/ ~Texting(w))
    <3>1. UNCHANGED flags /\ doubled' = (doubled \/ Texting(w))
      BY DEF Balance
    <3>2. doubled' \/ ~Texting(w)
      BY <3>1, Zenon
    <3> QED
      BY <3>1, <3>2 DEF flags
  <2>3. CASE ~balanceToSms
    <3>1. Continue(w, <<>>) /\ owed' = owed /\ extra' = extra
      BY <2>3 DEF Balance
    <3>2. \A x \in Actors : Holder(x)' <=> Holder(x)
      BY <1>h, <2>1, <3>1, EmptyList
    <3> QED
      BY <1>r, <2>2, <2>3, <3>1, <3>2 DEF BalanceInv, P
  <2>4. CASE balanceToSms
    <3>1. /\ Continue(w, SendSms \o <<"texted">>) /\ owed' = FALSE /\ extra' = (extra \/ ~owed)
      BY <2>4 DEF Balance
    <3>2. Others(w) /\ Holder(w)' /\ ~Holder(w)
      BY <1>0, <2>1, <3>1, Handles, SmsLists
    <3>3. ASSUME ~doubled', NEW x \in Actors, Holder(x) PROVE FALSE
      <4>1. x # w /\ x # App
        BY <1>y, <3>2, <3>3
      <4> QED
        BY <1>x, <2>2, <3>3, <4>1 DEF Texting, Actors
    <3>4. ASSUME ~doubled', NEW x \in Actors, Holder(x)' PROVE x = w
      <4>1. x # w => (Holder(x)' <=> Holder(x))
        BY <1>0, <3>2, Unmoved DEF Others
      <4> QED
        BY <3>3, <3>4, <4>1
    <3>5. ASSUME ~doubled' PROVE owed /\ ~extra
      BY <1>r, <2>4, <3>3, <3>5 DEF BalanceInv
    <3>6. extra' => doubled'
      BY <3>1, <3>5, Zenon
    <3>7. balanceToSms' /\ ~owed'
      BY <2>2, <2>4, <3>1
    <3>8. ~doubled' => \A x, y \in Actors : Holder(x)' /\ Holder(y)' => x = y
      BY <3>4
    <3> QED
      BY <2>1, <3>2, <3>6, <3>7, <3>8 DEF P
  <2> QED
    BY <2>3, <2>4
<1>2. ASSUME \A w \in Workers : ~Balance(w) PROVE P
  <2> USE DEF flags, history
  <2>1. ASSUME NEW a \in Actors, Send(a) PROVE P
    <3>1. \A x \in Actors : Holder(x)' <=> Holder(x)
      BY <1>0, <1>o, <2>1, Sends
    <3> QED
      BY <1>2, <1>s, <2>1, <3>1 DEF Send
  \* A command is done with.
  <2>g. ASSUME NEW a \in Actors, job[a].pc \in {"run", "wait"}, Next1(a),
               Head(job[a].todo) \in Names \cup {"cleared"}
        PROVE  \A x \in Actors : Holder(x)' <=> Holder(x)
    BY <1>0, <1>d, <1>o, <2>g, GoesOn
  <2>2. ASSUME NEW a \in Actors, SendFails(a) PROVE P
    BY <1>2, <1>s, <2>2, <2>g DEF SendFails, AtCommand
  <2>3. ASSUME NEW a \in Actors, Woken(a) \/ TimeOut(a) \/ ClearTones(a) PROVE P
    <3>1. Head(job[a].todo) \in Names \cup {"cleared"}
      BY <1>0, <2>3, Places DEF Woken, TimeOut, ClearTones, WaitType
    <3> QED
      BY <1>2, <1>s, <2>3, <2>g, <3>1 DEF Woken, TimeOut, ClearTones
  <2>4. ASSUME NEW a \in Actors, Effect(a) PROVE P
    <3> DEFINE t == job[a].todo
    <3>1. /\ job[a].pc = "run" /\ Head(t) \in Effects /\ t \in Lists /\ t # <<>> /\ Others(a)
          /\ Held(a)' = Elems(Tail(t)) /\ Held(a) = {Head(t)} \cup Elems(Tail(t))
      BY <1>0, <2>4, GoesOn DEF Effect
    <3>2. Tail(t) = <<>>
      BY <3>1, NextStep
    <3>3. Held(a)' = {} /\ Held(a) = {Head(t)}
      BY <3>1, <3>2, EmptyList
    <3>4. /\ balanceToSms' = IF Head(t) = "texted" THEN FALSE ELSE balanceToSms
          /\ owed' = owed /\ extra' = extra
      BY <2>4 DEF Effect
    <3>5. CASE Head(t) # "texted"
      <4>1. \A x \in Actors : Holder(x)' <=> Holder(x)
        BY <1>o, <3>1, <3>3, <3>5
      <4> QED
        BY <1>2, <1>s, <3>4, <3>5, <4>1
    <3>6. CASE Head(t) = "texted"
      <4>1. ASSUME ~doubled', NEW x \in Actors, Holder(x)' PROVE FALSE
        <5>1. x # a
          BY <3>3, <4>1
        <5>2. Holder(x)
          BY <1>0, <3>1, <4>1, <5>1, Unmoved DEF Others
        <5> QED
          BY <1>r, <3>3, <3>6, <4>1, <5>1, <5>2 DEF BalanceInv
      <4>2. ~doubled' => ~owed
        BY <1>r, <3>3, <3>6 DEF BalanceInv
      <4>3. extra' => doubled'
        BY <1>r, <3>4 DEF BalanceInv
      <4> QED
        BY <3>4, <3>6, <4>1, <4>2, <4>3 DEF P
    <3> QED
      BY <3>5, <3>6
  <2>5. ASSUME NEW w \in Workers, Take(w) PROVE P
    <3>1. Others(w) /\ w \in Actors /\ ~Holder(w)' /\ ~Holder(w)
      BY <1>0, <2>5, Takes DEF Actors, Held
    <3> QED
      BY <1>2, <1>o, <1>s, <2>5, <3>1 DEF Take
  <2>6. ASSUME NEW w \in Workers, Answer(w) PROVE P
    BY <1>2, <1>h, <1>s, <2>6, EmptyList DEF Answer, Entered
  <2>7. ASSUME NEW w \in Workers, Ring(w) PROVE P
    <3>1. job[w].pc = "enter" /\ Continue(w, RingSteps(job[w].frame.val))
      BY <2>7 DEF Ring, Entered
    <3>2. RingSteps(job[w].frame.val) \in Lists /\ "texted" \notin Elems(RingSteps(job[w].frame.val))
      BY RingLists DEF Ends
    <3>3. \A x \in Actors : Holder(x)' <=> Holder(x)
      BY <1>h, <3>1, <3>2
    <3> QED
      BY <1>2, <1>s, <2>7, <3>3 DEF Ring
  <2>8. ASSUME NEW w \in Workers, Tones(w) PROVE P
    <3>1. job[w].pc = "enter" /\ extra' = extra
      BY <2>8 DEF Tones, Entered
    <3>2. \E codes : /\ Execute(w, codes)
                     /\ \/ Continue(w, ToneSteps(codes))
                        \/ Continue(w, <<>>) /\ codes = {}
      BY <2>8 DEF Tones
    <3> QED
      BY <1>2, <1>c, <3>1, <3>2, ToneLists, EmptyList
  <2>9. ASSUME NEW w \in Workers, Message(w) PROVE P
    <3>1. job[w].pc = "enter" /\ extra' = extra
      BY <2>9 DEF Message, Entered
    <3>2. CASE Continue(w, <<"CMGR">>) /\ UNCHANGED <<balanceToSms, owed>>
      <4>1. <<"CMGR">> \in Lists /\ "texted" \notin Elems(<<"CMGR">>)
        BY Programs
      <4>2. \A x \in Actors : Holder(x)' <=> Holder(x)
        BY <1>h, <3>1, <3>2, <4>1
      <4> QED
        BY <1>2, <1>s, <3>1, <3>2, <4>2
    <3>3. CASE \E codes : Execute(w, codes) /\ Continue(w, Steps(codes) \o <<"CMGD">>)
      BY <1>2, <1>c, <3>1, <3>3, CodeLists
    <3> QED
      BY <2>9, <3>2, <3>3 DEF Message
  <2>10. ASSUME Obey PROVE P
    <3>1. \A x \in Actors : Holder(x)' <=> Holder(x)
      BY <1>0, <2>10, Obeys, Unmoved DEF Items
    <3> QED
      BY <1>2, <1>s, <2>10, <3>1 DEF Obey
  <2>11. ASSUME Ussd PROVE P
    <3>1. \A x \in Actors : Holder(x)' <=> Holder(x)
      BY <2>11 DEF Ussd, Held
    <3> QED
      BY <1>2, <1>s, <2>11, <3>1 DEF Ussd
  <2>12. ASSUME NEW s \in Stimuli, Stimulate(s) PROVE P
    <3>0. modem \in Modems /\ stimuli \in Nat /\ App \in Actors
      BY DEF TypeInv, Actors
    <3>1. /\ balanceToSms' = balanceToSms /\ owed' = owed /\ extra' = extra
          /\ \/ \A x \in Actors : SameJob(x)
             \/ /\ job[App].pc = "idle" /\ Others(App)
                /\ \E t : Elems(t) \cap Effects = {} /\ Held(App)' = Elems(t)
      BY <1>0, <2>12, <3>0, Stimulated
    <3>2. CASE \A x \in Actors : SameJob(x)
      BY <1>0, <1>2, <1>s, <3>1, <3>2, Unmoved
    <3>3. CASE Others(App) /\ \E t : Elems(t) \cap Effects = {} /\ Held(App)' = Elems(t)
      <4>1. ~Holder(App)'
        BY <1>e, <3>3
      <4> QED
        BY <1>2, <1>o, <1>s, <1>y, <3>0, <3>1, <3>3, <4>1
    <3> QED
      BY <3>1, <3>2, <3>3
  <2>13. ASSUME UNCHANGED vars PROVE P
    BY <1>2, <1>s, <2>13 DEF vars, Held
  <2>14. \A w \in Workers : Balance(w) => P
    BY <1>2
  <2> QED
    BY <2>1, <2>2, <2>3, <2>4, <2>5, <2>6, <2>7, <2>8, <2>9, <2>10, <2>11, <2>12, <2>13, <2>14,
       StepCases
<1> QED
  BY <1>1, <1>2, <1>q

\* A balance that was asked for by a code is texted, and no other one: balance_to_sms is set
\* exactly while one is owed or being texted, and one that is owed is still on its way.
THEOREM BalanceIsTexted == Spec => []BalanceTextedIfAsked
<1>1. TypeInv /\ BalanceInv => BalanceTextedIfAsked
  <2> SUFFICES ASSUME TypeInv, BalanceInv, Settled, ~lost, ~eaten, ~doubled
               PROVE  ~owed /\ ~balanceToSms
    BY DEF BalanceTextedIfAsked, BalanceInv
  <2>1. \A a \in Actors : Unsent(a) = {} /\ Held(a) = {} /\ job[a].pc = "idle"
    BY DEF Settled, Busy, Unsent, Held
  <2>2. Len(line) = 0 /\ Len(pool) = 0 /\ ~modem.ussd
    BY DEF Settled
  <2>3. ~BalanceDue
    BY <2>1, <2>2 DEF BalanceDue, Entered, Actors
  <2> QED
    BY <2>1, <2>3 DEF BalanceInv
<1> QED
  BY <1>1, BalanceInit, BalanceStep, TypeInit, TypeStep, PTL DEF Spec

-----------------------------------------------------------------------------
(* Calls.                                                                  *)

Ending(a) == Held(a) \cap Ends # {}
HangingUp == \E i \in 1 .. Len(line) : line[i].cmd = "ATH0"

\* One call is handled at a time; an ATA on its way is still waited for; when a call is active,
\* the flag is set or will be, or the call is being ended.
CallInv ==
    /\ ~crossed => \A v, w \in Actors : Ending(v) /\ Ending(w) => v = w
    /\ \A i \in 1 .. Len(line) : line[i].cmd = "ATA" => At(line[i].by, "wait", "ATA")
    /\ ~crossed /\ ~lost /\ ~eaten /\ modem.call = "active" =>
          /\ isCall \/ HangingUp \/ \E a \in Actors : "answered" \in Held(a)
          /\ \A a \in Actors : "hungup" \in Held(a) /\ "ATH0" \notin Unsent(a) => HangingUp

LEMMA CallInit == Init => CallInv
<1> SUFFICES ASSUME Init PROVE CallInv
  OBVIOUS
<1>1. ASSUME NEW a \in Actors PROVE ~Ending(a)
  <2>1. job[a] \in {Run(InitModem), Idle}
    BY DEF Init
  <2>2. Run(InitModem).todo = InitModem /\ Idle.pc = "idle"
    BY DEF Run, Idle, InitModem
  <2> QED
    BY <2>1, <2>2, Programs DEF Ending, Ends, Held, Effects
<1>2. Len(line) = 0 /\ modem.call = "none"
  BY DEF Init
<1> QED
  BY <1>1, <1>2 DEF CallInv

\* A wait for the answer to ATA ends with a time-out: no answer brings that event.
LEMMA StillWaits ==
    ASSUME TypeInv, [Next]_vars, NEW x \in Actors, At(x, "wait", "ATA"), ~TimeOut(x)
    PROVE  At(x, "wait", "ATA")'
<1> DEFINE P == At(x, "wait", "ATA")'
<1>0. JobsType /\ pool \in Seq(Frames) /\ line \in Seq([cmd : Names, by : Actors])
  BY DEF TypeInv
<1>u. ASSUME SameJob(x) PROVE P
  BY <1>0, <1>u, Unmoved
<1>a. ASSUME NEW a \in Actors, Others(a), job[a].pc # "wait" PROVE P
  BY <1>a, <1>u DEF Others, At
<1> HIDE DEF P
<1>h. ASSUME NEW w \in Workers, job[w].pc = "enter", NEW t \in Lists, Continue(w, t) PROVE P
  BY <1>0, <1>a, <1>h, Handles DEF Actors
<1>1. ASSUME NEW a \in Actors, Send(a) PROVE P
  BY <1>0, <1>1, <1>a, Sends
<1>2. ASSUME NEW a \in Actors, SendFails(a) PROVE P
  BY <1>0, <1>2, <1>a, GoesOn DEF SendFails, AtCommand
<1>3. ASSUME NEW a \in Actors, Woken(a) \/ TimeOut(a) \/ ClearTones(a) PROVE P
  <2>1. CASE a = x
    <3>1. "ATA" \in events
      <4>1. WaitOf("ATA") = "ATA"
        BY DEF WaitOf
      <4> QED
        BY <1>3, <2>1, <4>1 DEF Woken, ClearTones, At
    <3>2. "ATA" \notin Emitted
      BY DEF Emitted, EmitOf, Names
    <3> QED
      BY <3>1, <3>2 DEF TypeInv
  <2>2. CASE a # x
    BY <1>0, <1>3, <1>u, <2>2, GoesOn DEF Woken, TimeOut, ClearTones, Others
  <2> QED
    BY <2>1, <2>2
<1>4. ASSUME NEW a \in Actors, Effect(a) PROVE P
  BY <1>0, <1>4, <1>a, GoesOn DEF Effect
<1>5. ASSUME NEW w \in Workers, Take(w) PROVE P
  BY <1>0, <1>5, <1>a, Takes DEF Actors
<1>6. ASSUME NEW w \in Workers, Answer(w) PROVE P
  BY <1>6, <1>h, EmptyList DEF Answer, Entered
<1>7. ASSUME NEW w \in Workers, Ring(w) PROVE P
  BY <1>7, <1>h, RingLists DEF Ring, Entered
<1>8. ASSUME NEW w \in Workers, Tones(w) PROVE P
  BY <1>8, <1>h, ToneLists, EmptyList DEF Tones, Entered
<1>9. ASSUME NEW w \in Workers, Message(w) PROVE P
  BY <1>9, <1>h, CodeLists, Programs DEF Message, Entered
<1>10. ASSUME NEW w \in Workers, Balance(w) PROVE P
  BY <1>10, <1>h, SmsLists, EmptyList DEF Balance, Entered
<1>11. ASSUME Obey PROVE P
  BY <1>0, <1>11, <1>u, Obeys
<1>12. ASSUME Ussd PROVE P
  BY <1>12, <1>u DEF Ussd, SameJob
<1>13. ASSUME NEW s \in Stimuli, Stimulate(s) PROVE P
  <2>0. modem \in Modems /\ stimuli \in Nat /\ App \in Actors
    BY DEF TypeInv, Actors
  <2>1. \/ \A a \in Actors : SameJob(a)
        \/ job[App].pc = "idle" /\ Others(App)
    BY <1>0, <1>13, <2>0, Stimulated
  <2> QED
    BY <1>a, <1>u, <2>0, <2>1
<1>14. ASSUME UNCHANGED vars PROVE P
  BY <1>14, <1>u DEF vars, SameJob
<1>15. P
  BY <1>1, <1>2, <1>3, <1>4, <1>5, <1>6, <1>7, <1>8, <1>9, <1>10, <1>11, <1>12, <1>13, <1>14,
     StepCases
<1> QED
  BY <1>15 DEF P

\* The flag is set and cleared only after a command; a call becomes active only by a command.
LEMMA CallKept ==
    ASSUME TypeInv, [Next]_vars, ~Obey
    PROVE  /\ isCall' = isCall \/ \E a \in Actors : Effect(a)
           /\ modem'.call = "active" => modem.call = "active"
<1> DEFINE P == /\ isCall' = isCall \/ \E a \in Actors : Effect(a)
                /\ modem'.call = "active" => modem.call = "active"
<1> USE DEF flags, history
<1>1. ASSUME NEW a \in Actors, Send(a) PROVE P
  BY <1>1 DEF Send
<1>2. ASSUME NEW a \in Actors, SendFails(a) PROVE P
  BY <1>2 DEF SendFails
<1>3. ASSUME NEW a \in Actors, Woken(a) \/ TimeOut(a) \/ ClearTones(a) PROVE P
  BY <1>3 DEF Woken, TimeOut, ClearTones
<1>4. ASSUME NEW a \in Actors, Effect(a) PROVE P
  <2>1. modem' = modem
    BY <1>4 DEF Effect
  <2> QED
    BY <1>4, <2>1
<1>5. ASSUME NEW w \in Workers, Take(w) PROVE P
  BY <1>5 DEF Take
<1>6. ASSUME NEW w \in Workers, Answer(w) PROVE P
  BY <1>6 DEF Answer
<1>7. ASSUME NEW w \in Workers, Ring(w) PROVE P
  BY <1>7 DEF Ring
<1>8. ASSUME NEW w \in Workers, Tones(w) PROVE P
  BY <1>8 DEF Tones
<1>9. ASSUME NEW w \in Workers, Message(w) PROVE P
  BY <1>9 DEF Message
<1>10. ASSUME NEW w \in Workers, Balance(w) PROVE P
  BY <1>10 DEF Balance
<1>12. ASSUME Ussd PROVE P
  BY <1>12 DEF Ussd, TypeInv, Modems
<1>13. ASSUME NEW s \in Stimuli, Stimulate(s) PROVE P
  BY <1>13, Stimulated DEF TypeInv
<1>14. ASSUME UNCHANGED vars PROVE P
  BY <1>14 DEF vars
<1> HIDE DEF P
<1>15. P
  BY <1>1, <1>2, <1>3, <1>4, <1>5, <1>6, <1>7, <1>8, <1>9, <1>10, <1>12, <1>13, <1>14, StepCases
<1> QED
  BY <1>15 DEF P

LEMMA CallStep == TypeInv /\ CallInv /\ [Next]_vars => CallInv'
<1> DEFINE Alone == \A v, w \in Actors : Ending(v)' /\ Ending(w)' => v = w
           Awaits(a) == job'[a].pc = "wait" /\ Head(job'[a].todo) = "ATA"
           Heard == isCall' \/ HangingUp' \/ \E a \in Actors : "answered" \in Held(a)'
           Ended == \A a \in Actors : "hungup" \in Held(a)' /\ "ATH0" \notin Unsent(a)' => HangingUp'
           Calm == ~crossed' /\ ~lost' /\ ~eaten' /\ modem'.call = "active"
           P == (~crossed' => Alone) /\ (Calm => Heard /\ Ended)
<1> SUFFICES ASSUME TypeInv, CallInv, [Next]_vars
             PROVE  P /\ \A i \in 1 .. Len(line') : line'[i].cmd = "ATA" => Awaits(line'[i].by)
  BY DEF CallInv, At
<1>0. JobsType /\ line \in Seq(Items)
  BY DEF TypeInv, Items
<1>r. (crossed => crossed') /\ (lost => lost') /\ (eaten => eaten')
  BY Remembered
<1>e. Ends \subseteq Effects /\ Ends = {"answered", "hungup"} /\ "ATH0" \in Names
      /\ \A s \in Ends : s \in StepNames /\ s \notin Names
  BY DEF Ends, Effects, StepNames, Names
\* Who waits for the answer to ATA will set the flag, and not clear it.
<1>w. ASSUME NEW a \in Actors, At(a, "wait", "ATA") PROVE "answered" \in Held(a) /\ "hungup" \notin Held(a)
  <2> DEFINE t == job[a].todo
             u == Tail(t)
  <2>1. t \in Lists /\ t # <<>> /\ Head(t) = "ATA" /\ Held(a) = Elems(t)
    BY <1>0, <1>w, Places DEF At, Held
  <2>2. u \in Lists /\ u # <<>> /\ Head(u) = "answered" /\ Elems(t) = {"ATA"} \cup Elems(u)
    BY <2>1, NextStep, ListParts
  <2>3. Elems(u) = {"answered"}
    BY <2>2, NextStep, ListParts, EmptyList DEF Effects
  <2> QED
    BY <2>1, <2>2, <2>3
<1>1. ASSUME NEW a \in Actors, Send(a), ~Obey
      PROVE  P /\ \A i \in 1 .. Len(line') : line'[i].cmd = "ATA" => Awaits(line'[i].by)
  <2> DEFINE t == job[a].todo
             c == [cmd |-> Head(t), by |-> a]
  <2>1. /\ Others(a) /\ Head(t) \in Names /\ job[a].pc = "run" /\ job'[a].pc = "wait" /\ job'[a].todo = t
        /\ Held(a)' = Held(a) /\ Unsent(a) = {Head(t)} \cup Unsent(a)'
    BY <1>0, <1>1, Sends
  <2>2. /\ line' = Append(line, c) /\ c \in Items /\ c.cmd = Head(t) /\ c.by = a
        /\ isCall' = isCall /\ modem' = modem
    BY <1>1, <2>1 DEF Send, Items, flags
  <2> HIDE DEF c
  <2>3. /\ Len(line) \in Nat /\ Len(line') = Len(line) + 1 /\ line'[Len(line) + 1] = c
        /\ \A i \in 1 .. Len(line) : line'[i] = line[i]
    BY <1>0, <2>2, AppendProperties, LenProperties
  <2>4. /\ Len(line) + 1 \in 1 .. Len(line') /\ \A i \in 1 .. Len(line) : i \in 1 .. Len(line')
        /\ \A i \in 1 .. Len(line') : i \in 1 .. Len(line) \/ i = Len(line) + 1
    BY <2>3
  <2>5. (HangingUp => HangingUp') /\ (Head(t) = "ATH0" => HangingUp')
    BY <2>2, <2>3, <2>4 DEF HangingUp
  <2>6. \A x \in Actors : Held(x)' = Held(x)
    BY <1>0, <2>1, Unmoved DEF Others
  <2>7. \A x \in Actors : "ATH0" \in Unsent(x) => "ATH0" \in Unsent(x)' \/ HangingUp'
    BY <1>0, <2>1, <2>5, Unmoved DEF Others
  <2>8. ASSUME NEW i \in 1 .. Len(line'), line'[i].cmd = "ATA" PROVE Awaits(line'[i].by)
    <3>1. CASE i \in 1 .. Len(line)
      <4>1. line'[i] = line[i] /\ line[i].by \in Actors /\ At(line[i].by, "wait", "ATA")
        <5>1. line[i] \in Items
          BY <1>0, <3>1, ElementOfSeq
        <5> QED
          BY <2>3, <2>8, <3>1, <5>1 DEF CallInv, Items
      <4>2. line[i].by # a
        BY <2>1, <4>1 DEF At
      <4> QED
        BY <1>0, <2>1, <4>1, <4>2, Unmoved DEF Others, At, SameJob
    <3>2. CASE i = Len(line) + 1
      BY <2>1, <2>2, <2>3, <2>8, <3>2 DEF At
    <3> QED
      BY <2>4, <3>1, <3>2
  <2>9. ~crossed' => Alone
    BY <1>r, <2>6 DEF CallInv, Ending
  <2>10. ASSUME Calm PROVE Heard /\ Ended
    <3>1. /\ isCall \/ HangingUp \/ \E x \in Actors : "answered" \in Held(x)
          /\ \A x \in Actors : "hungup" \in Held(x) /\ "ATH0" \notin Unsent(x) => HangingUp
      BY <1>r, <2>2, <2>10 DEF CallInv
    <3> QED
      BY <2>2, <2>5, <2>6, <2>7, <3>1
  <2> QED
    BY <2>8, <2>9, <2>10
<1>2. ASSUME Obey
      PROVE  P /\ \A i \in 1 .. Len(line') : line'[i].cmd = "ATA" => Awaits(line'[i].by)
  <2> DEFINE c == line[1].cmd
  <2>1. /\ \A x \in Actors : SameJob(x)
        /\ Len(line) \in Nat \ {0} /\ Len(line') = Len(line) - 1
        /\ \A i \in 1 .. Len(line') : line'[i] = line[i + 1]
        /\ line[1].by \in Actors /\ line' \in Seq(Items)
    BY <1>0, <1>2, Obeys, Oldest DEF Obey, Items
  <2>2. \A x \in Actors : Held(x)' = Held(x) /\ Unsent(x)' = Unsent(x)
    BY <1>0, <2>1, Unmoved
  <2>3. 1 \in 1 .. Len(line) /\ \A i \in 1 .. Len(line') : i + 1 \in 1 .. Len(line)
    BY <2>1
  <2>4. ASSUME NEW i \in 1 .. Len(line'), line'[i].cmd = "ATA" PROVE Awaits(line'[i].by)
    <3>1. At(line'[i].by, "wait", "ATA")
      BY <2>1, <2>3, <2>4 DEF CallInv
    <3>2. line'[i].by \in Actors
      <4>1. line'[i] \in Items
        BY <2>1, <2>4, ElementOfSeq
      <4> QED
        BY <4>1 DEF Items
    <3> QED
      BY <2>1, <3>1, <3>2 DEF At, SameJob
  <2>5. ~crossed' => Alone
    BY <1>r, <2>2 DEF CallInv, Ending
  <2>6. isCall' = isCall
    BY <1>2 DEF Obey, flags
  <2>7. ASSUME Calm PROVE Heard /\ Ended
    <3>1. modem'.call = IF c = "ATH0" THEN "none"
                        ELSE IF c = "ATA" /\ modem.call # "none" THEN "active" ELSE modem.call
      BY <1>2, <2>7, ObeysCommand
    <3>2. CASE c = "ATA"
      <4>1. "answered" \in Held(line[1].by) /\ "hungup" \notin Held(line[1].by)
        BY <1>w, <2>1, <2>3, <3>2 DEF CallInv
      <4>2. ASSUME NEW x \in Actors, "hungup" \in Held(x) PROVE FALSE
        <5>1. Ending(x) /\ Ending(line[1].by)
          BY <1>e, <4>1, <4>2 DEF Ending
        <5>2. x = line[1].by
          BY <1>r, <2>1, <2>7, <5>1 DEF CallInv
        <5> QED
          BY <4>1, <4>2, <5>2
      <4> QED
        BY <2>1, <2>2, <4>1, <4>2
    <3>3. CASE c # "ATA"
      <4>1. modem.call = "active" /\ c # "ATH0"
        BY <2>7, <3>1, <3>3
      <4>2. HangingUp => HangingUp'
        <5>1. ASSUME NEW i \in 1 .. Len(line), line[i].cmd = "ATH0"
              PROVE  \E k \in 1 .. Len(line') : line'[k].cmd = "ATH0"
          <6>1. i # 1
            BY <4>1, <5>1
          <6>2. i - 1 \in 1 .. Len(line') /\ (i - 1) + 1 = i
            BY <2>1, <6>1
          <6> QED
            BY <2>1, <5>1, <6>2
        <5> QED
          BY <5>1 DEF HangingUp
      <4>3. /\ isCall \/ HangingUp \/ \E x \in Actors : "answered" \in Held(x)
            /\ \A x \in Actors : "hungup" \in Held(x) /\ "ATH0" \notin Unsent(x) => HangingUp
        BY <1>r, <2>7, <4>1 DEF CallInv
      <4> QED
        BY <2>2, <2>6, <4>2, <4>3
    <3> QED
      BY <3>2, <3>3
  <2> QED
    BY <2>4, <2>5, <2>7
<1>3. ASSUME ~Obey, \A a \in Actors : ~Send(a)
      PROVE  P /\ \A i \in 1 .. Len(line') : line'[i].cmd = "ATA" => Awaits(line'[i].by)
  <2>1. line' = line /\ (modem'.call = "active" => modem.call = "active")
    BY <1>3, Elsewhere, CallKept
  <2>2. HangingUp' <=> HangingUp
    BY <2>1 DEF HangingUp
  <2>3. ASSUME NEW i \in 1 .. Len(line'), line'[i].cmd = "ATA" PROVE Awaits(line'[i].by)
    <3>1. line[i].by \in Actors /\ At(line[i].by, "wait", "ATA") /\ i \in DOMAIN line
      <4>1. line[i] \in Items /\ i \in DOMAIN line
        BY <1>0, <2>1, <2>3, ElementOfSeq, LenProperties
      <4> QED
        BY <2>1, <2>3, <4>1 DEF CallInv, Items
    <3>2. ~TimeOut(line[i].by)
      BY <3>1 DEF TimeOut
    <3>3. Awaits(line[i].by)
      <4> DEFINE x == line[i].by
      <4> HIDE DEF x
      <4>1. x \in Actors /\ At(x, "wait", "ATA") /\ ~TimeOut(x)
        BY <3>1, <3>2 DEF x
      <4>2. job'[x].pc = "wait" /\ Head(job'[x].todo) = "ATA"
        BY <4>1, StillWaits DEF At
      <4> QED
        BY <4>2 DEF x
    <3> QED
      BY <2>1, <3>3
  <2>4. Calm => /\ isCall \/ HangingUp \/ \E x \in Actors : "answered" \in Held(x)
                /\ \A x \in Actors : "hungup" \in Held(x) /\ "ATH0" \notin Unsent(x) => HangingUp
    BY <1>r, <2>1 DEF CallInv
  <2>5. ASSUME NEW w \in Workers, Ring(w) PROVE P
    <3> DEFINE t == RingSteps(job[w].frame.val)
    <3>1. job[w].pc = "enter" /\ Continue(w, t) /\ w \in Actors /\ isCall' = isCall
      BY <2>5 DEF Ring, Entered, Actors, flags
    <3>2. /\ Others(w) /\ Held(w) = {} /\ Unsent(w) = {} /\ Held(w)' = Elems(t) /\ Unsent(w)' = Elems(t)
      BY <1>0, <3>1, Handles, RingLists
    <3>3. ASSUME ~crossed', NEW x \in Actors \ {w} PROVE ~Ending(x) /\ ~Ending(x)'
      <4>1. x \in Workers => ~Has(x, "answered") /\ ~Has(x, "hungup")
        BY <2>5, <3>3 DEF Ring
      <4>2. ~Ending(x)
        BY <1>0, <1>e, <4>1, Holds DEF Ending, Actors
      <4>3. Held(x)' = Held(x)
        BY <1>0, <3>2, Unmoved DEF Others
      <4> QED
        BY <4>2, <4>3 DEF Ending
    <3>4. ASSUME Calm PROVE Heard /\ Ended
      <4>1. isCall' \/ HangingUp'
        BY <1>e, <2>2, <2>4, <3>1, <3>2, <3>3, <3>4 DEF Ending
      <4>2. ASSUME NEW x \in Actors, "hungup" \in Held(x)' PROVE "ATH0" \in Unsent(x)'
        BY <1>e, <3>2, <3>3, <3>4, <4>2, RingLists DEF Ending
      <4> QED
        BY <4>1, <4>2
    <3> QED
      BY <3>3, <3>4
  <2>6. ASSUME NEW a \in Actors, Effect(a) PROVE P
    <3> DEFINE t == job[a].todo
    <3>1. /\ job[a].pc = "run" /\ Head(t) \in Effects /\ t \in Lists /\ t # <<>> /\ Others(a)
          /\ Held(a)' = Elems(Tail(t)) /\ Held(a) = {Head(t)} \cup Elems(Tail(t)) /\ Unsent(a) = Held(a)
      BY <1>0, <2>6, GoesOn DEF Effect
    <3>2. Tail(t) = <<>>
      BY <3>1, NextStep
    <3>3. Held(a)' = {} /\ Held(a) = {Head(t)} /\ Unsent(a) = {Head(t)}
      BY <3>1, <3>2, EmptyList
    <3>4. \A x \in Actors \ {a} : Held(x)' = Held(x) /\ Unsent(x)' = Unsent(x)
      BY <1>0, <3>1, Unmoved DEF Others
    <3>5. isCall' = IF Head(t) = "texted" THEN isCall ELSE Head(t) = "answered"
      BY <2>6 DEF Effect
    <3>6. ~crossed' => Alone
      BY <1>r, <3>3, <3>4 DEF CallInv, Ending
    <3>7. ASSUME Calm PROVE Heard
      <4>1. CASE Head(t) = "answered"
        BY <3>5, <4>1
      <4>2. CASE Head(t) = "hungup"
        <5>1. "hungup" \in Held(a) /\ "ATH0" \notin Unsent(a)
          BY <3>3, <4>2
        <5> QED
          BY <2>2, <2>4, <3>7, <5>1
      <4>3. CASE Head(t) = "texted"
        BY <2>2, <2>4, <3>3, <3>4, <3>5, <3>7, <4>3
      <4> QED
        BY <3>1, <4>1, <4>2, <4>3 DEF Effects
    <3>8. ASSUME Calm PROVE Ended
      BY <2>2, <2>4, <3>3, <3>4, <3>8
    <3> QED
      BY <3>6, <3>7, <3>8
  <2>7. ASSUME \A w \in Workers : ~Ring(w), \A a \in Actors : ~Effect(a) PROVE P
    <3>1. isCall' = isCall
      BY <1>3, <2>7, CallKept
    <3>2. \A x \in Actors : Carries(x)
      BY Carried
    <3>3. ASSUME NEW x \in Actors, NEW s \in Ends PROVE s \in Held(x)' <=> s \in Held(x)
      <4>1. s \in Held(x) => s \in Held(x)'
        BY <1>e, <2>7, <3>2 DEF Carries
      <4>2. s \in Held(x)' => s \in Held(x) \/ (x \in Workers /\ Balance(x))
        BY <1>e, <2>7, <3>2 DEF Carries
      <4>3. ASSUME x \in Workers, Balance(x) PROVE s \notin Held(x)'
        BY <1>0, <1>e, <4>3, EmptyList, SmsLists, Handles DEF Balance, Entered
      <4> QED
        BY <4>1, <4>2, <4>3
    <3>4. \A x \in Actors : "ATH0" \in Unsent(x) => "ATH0" \in Unsent(x)' \/ lost'
      BY <1>3, <1>e, <3>2 DEF Carries
    <3>5. \A x \in Actors : Ending(x)' <=> Ending(x)
      BY <3>3 DEF Ending
    <3>6. ~crossed' => Alone
      BY <1>r, <3>5 DEF CallInv
    <3>7. ASSUME Calm PROVE Heard /\ Ended
      BY <1>e, <2>2, <2>4, <3>1, <3>3, <3>4, <3>7
    <3> QED
      BY <3>6, <3>7
  <2> HIDE DEF P
  <2> QED
    BY <2>3, <2>5, <2>6, <2>7
<1> HIDE DEF P
<1> QED
  BY <1>1, <1>2, <1>3

\* In a call that was answered tones are heard, when the handlers of two calls did not overlap
\* and no command was lost or eaten: as long as the call is active, the flag is set, or the
\* worker that answered will set it, or an ATH0 is on its way.
THEOREM AnsweredCallsAreHeard == Spec => []AnsweredCallIsHeard
<1>1. TypeInv /\ CallInv => AnsweredCallIsHeard
  <2> SUFFICES ASSUME CallInv, Settled, modem.call = "active", ~crossed, ~lost, ~eaten PROVE isCall
    BY DEF AnsweredCallIsHeard
  <2>1. \A a \in Actors : Held(a) = {}
    BY DEF Settled, Busy, Held
  <2>2. Len(line) = 0
    BY DEF Settled
  <2> QED
    BY <2>1, <2>2 DEF CallInv, HangingUp
<1> QED
  BY <1>1, CallInit, CallStep, TypeInit, TypeStep, PTL DEF Spec
=============================================================================
