------------------------- MODULE AppLifecycleProofs --------------------------
(***************************************************************************)
(* Proofs about AppLifecycle, for any environments and bounds: the types   *)
(* of its variables; that stop_app leaves no thread behind; that the fan   *)
(* follows the board's temperature; and what a complete program dies of.   *)
(***************************************************************************)
EXTENDS AppLifecycle, TLAPS

\* A thread that stop_app waited for has ended: the places that come after each join.
AfterTlg == {"exited"}
AfterHttp == {"stoptlg", "tlg"} \cup AfterTlg
AfterTemp == {"stophttp", "http"} \cup AfterHttp
AfterExposer == {"temp"} \cup AfterTemp
AfterCmdin == {"stopexposer", "exposer"} \cup AfterExposer
AfterPower == {"port", "chans", "cmdin"} \cup AfterCmdin
AfterCmd == {"disconnect", "gpioflag", "chip"} \cup AfterPower

Joined ==
    /\ pc \in AfterCmd => Ended("cmd")
    /\ pc \in AfterPower => Ended("power")
    /\ pc \in AfterCmdin => Ended("cmdin")
    /\ pc \in AfterExposer => Ended("exposer")
    /\ pc \in AfterTemp => Ended("temp")
    /\ pc \in AfterHttp => Ended("http")
    /\ pc \in AfterTlg => Ended("tlg")

\* A join that stop_app leaves out is one of a thread that was never started: the flag or the
\* configuration by which it decides says so.
BeforeModem == {"parse", "create", "run", "zhub", "adapter"}
AfterAdapter == {"modem", "gpio", "init", "network", "web"}

NotStarted ==
    /\ pc \in BeforeModem \cup {"modem", "gpio"} => thread["power"] = "none"
    /\ pc \in BeforeModem \cup {"modem", "gpio", "init"} => thread["cmdin"] = "none"
    /\ pc \in BeforeModem \cup AfterAdapter => thread["exposer"] = "none"
    /\ pc \in AfterAdapter => ~with.noAdapter
    /\ pc = "cmd" /\ with.noAdapter =>
         \A t \in {"power", "cmdin", "exposer"} : thread[t] = "none"
    /\ thread["power"] # "none" => with.gpio
    /\ thread["exposer"] # "none" => env.prometheus

StopInv == TypeOK /\ Joined /\ NotStarted

-----------------------------------------------------------------------------
(* Types.                                                                  *)

\* A switch, a device, a thread changes within its type.
LEMMA SwitchSet ==
    ASSUME NEW w \in Switches, NEW b \in BOOLEAN
    PROVE  /\ [w EXCEPT !.tlg = b] \in Switches
           /\ [w EXCEPT !.noAdapter = b] \in Switches
           /\ [w EXCEPT !.gpio = b] \in Switches
BY DEF Switches

LEMMA DeviceFlagSet ==
    ASSUME NEW d \in Devices, NEW b \in BOOLEAN
    PROVE  /\ [d EXCEPT !.port = b] \in Devices
           /\ [d EXCEPT !.gpioFlag = b] \in Devices
           /\ [d EXCEPT !.exFlag = b] \in Devices
           /\ [d EXCEPT !.httpFlag = b] \in Devices
BY DEF Devices

LEMMA DeviceSet ==
    ASSUME NEW d \in Devices, NEW c \in {"none", "open", "stopped"},
           NEW g \in {"none", "open", "closed"}
    PROVE  /\ [d EXCEPT !.chans = c] \in Devices
           /\ [d EXCEPT !.tlgIn = c] \in Devices
           /\ [d EXCEPT !.chip = g] \in Devices
BY DEF Devices

LEMMA ThreadSet ==
    ASSUME NEW f \in [Threads -> Spots], NEW t \in Threads, NEW p \in Spots
    PROVE  [f EXCEPT ![t] = p] \in [Threads -> Spots]
OBVIOUS

LEMMA TypeInit == Init => TypeOK
<1> SUFFICES ASSUME Init PROVE TypeOK
  OBVIOUS
<1>1. thread \in [Threads -> Spots]
  BY DEF Init, Spots
<1>2. dev \in Devices
  BY DEF Init, Devices
<1>3. with \in Switches
  BY DEF Init, Switches
<1> QED
  BY <1>1, <1>2, <1>3 DEF Init, TypeOK, Starting, Readings, Extremes

\* What object_create and start_app do keeps the types.
LEMMA TypeStart == TypeOK /\ Start /\ UNCHANGED <<env, board>> => TypeOK'
<1> SUFFICES ASSUME TypeOK, Start, UNCHANGED <<env, board>> PROVE TypeOK'
  OBVIOUS
<1>0. env \in AllEnvironments /\ env.adapter \in BOOLEAN
  BY LifeAssumption DEF TypeOK, AllEnvironments
<1> USE DEF Main
<1>1. pc' \in Starting \cup Stopping \cup {"cmd", "exited"}
  BY DEF Start, ParseConfig, CreateTelegram, RunTelegram, CreateZhub, InitAdapter, InitModem,
         InitGpio, InitZhub, StartHttp, Starting
<1>2. Flag' \in BOOLEAN /\ crash' = crash
  BY <1>0, Zenon DEF TypeOK, Start, ParseConfig, CreateTelegram, RunTelegram, CreateZhub, InitAdapter,
         InitModem, InitGpio, InitZhub, StartHttp
<1>3. made' \subseteq {"zhub", "modem", "gpio", "http", "exposer"}
  BY DEF TypeOK, Start, ParseConfig, CreateTelegram, RunTelegram, CreateZhub, InitAdapter,
         InitModem, InitGpio, InitZhub, StartHttp
<1>4. with' \in Switches
  <2>1. with \in Switches
    BY DEF TypeOK
  <2>2. \/ with' = with
        \/ \E b \in BOOLEAN : \/ with' = [with EXCEPT !.tlg = b]
                              \/ with' = [with EXCEPT !.noAdapter = b]
                              \/ with' = [with EXCEPT !.gpio = b]
    BY <1>0, Zenon DEF Start, ParseConfig, CreateTelegram, RunTelegram, CreateZhub, InitAdapter,
         InitModem, InitGpio, InitZhub, StartHttp
  <2> QED
    BY <2>1, <2>2, SwitchSet
<1>5. dev' \in Devices
  <2>1. dev \in Devices
    BY DEF TypeOK
  <2>2. CASE dev' = dev
    BY <2>1, <2>2
  <2>3. CASE CreateTelegram
    BY <2>1, <2>3, DeviceSet DEF CreateTelegram
  <2>4. CASE InitAdapter
    <3> DEFINE c == IF env.adapter THEN "open" ELSE "stopped"
    <3>1. dev' = [[dev EXCEPT !.port = env.adapter] EXCEPT !.chans = c]
      BY <2>1, <2>4 DEF InitAdapter, Devices
    <3>2. c \in {"none", "open", "stopped"}
      OBVIOUS
    <3> QED
      BY <1>0, <2>1, <3>1, <3>2, DeviceSet, DeviceFlagSet
  <2>5. CASE InitGpio
    BY <2>1, <2>5 DEF InitGpio, Devices, TypeOK, Switches
  <2>6. CASE StartHttp
    BY <2>1, <2>6, DeviceFlagSet DEF StartHttp
  <2> QED
    BY <2>2, <2>3, <2>4, <2>5, <2>6
    DEF Start, ParseConfig, RunTelegram, CreateZhub, InitModem, InitZhub
<1>6. thread' \in [Threads -> Spots]
  <2>1. thread \in [Threads -> Spots]
    BY DEF TypeOK
  <2>2. \/ thread' = thread
        \/ \E t \in Threads, p \in Spots : thread' = [thread EXCEPT ![t] = p]
        \/ \E p \in Spots, q \in Spots : thread' = [thread EXCEPT !["http"] = p, !["exposer"] = q, !["temp"] = "look"]
    BY DEF Start, ParseConfig, CreateTelegram, RunTelegram, CreateZhub, InitAdapter,
           InitModem, InitGpio, InitZhub, StartHttp, Goes, Threads, Spots
  <2> QED
    BY <2>1, <2>2 DEF Threads, Spots
<1> QED
  BY <1>1, <1>2, <1>3, <1>4, <1>5, <1>6 DEF TypeOK, board

\* So does what stop_app does,
LEMMA TypeStop == TypeOK /\ (Stop \/ StopExposer) /\ UNCHANGED <<env, board>> => TypeOK'
<1> SUFFICES ASSUME TypeOK, Stop \/ StopExposer, UNCHANGED <<env, board>> PROVE TypeOK'
  OBVIOUS
<1> USE DEF Main, Set, Call, Join
<1>1. pc' \in Starting \cup Stopping \cup {"cmd", "exited"}
  BY DEF TypeOK, Stop, JoinCmd, DisconnectModem, CloseGpio, StopZdo, StopExposer, StopRest, StopHttp, Stopping
<1>2. Flag' \in BOOLEAN
  BY Zenon DEF TypeOK, Stop, JoinCmd, DisconnectModem, CloseGpio, StopZdo, StopExposer, StopRest, StopHttp
<1>3. crash' \in {"no", "zhub", "modem", "gpio", "http", "exposer", "chip", "port"}
  BY DEF TypeOK, Stop, JoinCmd, DisconnectModem, CloseGpio, StopZdo, StopExposer, StopRest, StopHttp
<1>4. with' = with /\ made' = made /\ thread' = thread
  BY Zenon DEF Stop, JoinCmd, DisconnectModem, CloseGpio, StopZdo, StopExposer, StopRest, StopHttp
<1>5. dev' \in Devices
  <2>1. dev \in Devices
    BY DEF TypeOK
  <2>2. \/ dev' = dev
        \/ dev' = [dev EXCEPT !.gpioFlag = FALSE] \/ dev' = [dev EXCEPT !.chip = "closed"]
        \/ dev' = [dev EXCEPT !.port = FALSE] \/ dev' = [dev EXCEPT !.chans = "stopped"]
        \/ dev' = [dev EXCEPT !.exFlag = FALSE] \/ dev' = [dev EXCEPT !.tlgIn = "stopped"]
        \/ dev' = [dev EXCEPT !.httpFlag = FALSE]
    BY Zenon DEF Stop, JoinCmd, DisconnectModem, CloseGpio, StopZdo, StopExposer, StopRest, StopHttp
  <2> QED
    BY <2>1, <2>2, DeviceSet, DeviceFlagSet
<1> QED
  BY <1>1, <1>2, <1>3, <1>4, <1>5 DEF TypeOK, board

\* what signals, keys and messages do,
Stimuli == Signal \/ KeyQuit \/ KeyZigbee \/ KeyFan \/ TelegramMessage

LEMMA TypeStimuli == TypeOK /\ Stimuli => TypeOK'
<1> SUFFICES ASSUME TypeOK, Stimuli PROVE TypeOK'
  OBVIOUS
<1> USE DEF Stimuli, Pressed, Stimulus, At
<1>1. UNCHANGED <<env, pc, with, made, dev, high, reading, band>>
  BY Zenon DEF Signal, KeyQuit, KeyZigbee, KeyFan, TelegramMessage, board
<1>2. Flag' \in BOOLEAN
  BY Zenon DEF TypeOK, Signal, KeyQuit, KeyZigbee, KeyFan, TelegramMessage
<1>3. crash' \in {"no", "zhub", "modem", "gpio", "http", "exposer", "chip", "port"}
  BY DEF TypeOK, Signal, KeyQuit, KeyZigbee, KeyFan, TelegramMessage, PinDies
<1>4. fan' \in {0, 1}
  BY DEF TypeOK, Signal, KeyQuit, KeyZigbee, KeyFan, TelegramMessage, board
<1>5. thread' \in [Threads -> Spots]
  <2>1. \/ thread' = thread
        \/ thread' = [thread EXCEPT !["cmd"] = "done"]
        \/ thread' = [thread EXCEPT !["tlg"] = "look"]
    BY Zenon DEF Signal, KeyQuit, KeyZigbee, KeyFan, TelegramMessage, Goes
  <2> QED
    BY <2>1 DEF TypeOK, Threads, Spots
<1> QED
  BY <1>1, <1>2, <1>3, <1>4, <1>5 DEF TypeOK

\* and what the threads do.
LEMMA TypeThreads ==
    ASSUME NEW t \in Threads, TypeOK, ThreadSteps(t)
    PROVE  TypeOK'
<1> USE DEF ThreadSteps, At, Goes
<1>1. UNCHANGED <<env, pc, Flag, with, high, fan, reading, band>>
  BY DEF board
<1>2. made' \subseteq {"zhub", "modem", "gpio", "http", "exposer"}
  BY DEF TypeOK, CmdEnds, TelegramLoop, CmdinLoop, UartLoop, ExposerLoop, PowerLoop, HttpEnds
<1>3. crash' \in {"no", "zhub", "modem", "gpio", "http", "exposer", "chip", "port"}
  BY DEF TypeOK, CmdEnds, TelegramLoop, CmdinLoop, UartLoop, ExposerLoop, PowerLoop, HttpEnds
<1>4. dev' \in Devices
  <2>1. dev' = dev \/ dev' = [dev EXCEPT !.exFlag = TRUE]
    BY Zenon DEF CmdEnds, TelegramLoop, CmdinLoop, UartLoop, ExposerLoop, PowerLoop, HttpEnds
  <2> QED
    BY <2>1, DeviceFlagSet DEF TypeOK
<1>5. thread' \in [Threads -> Spots]
  <2>1. \/ thread' = thread
        \/ \E x \in Threads, p \in Spots : thread' = [thread EXCEPT ![x] = p]
        \/ thread' = [thread EXCEPT !["cmdin"] = "look", !["uart"] = "wait"]
    BY DEF CmdEnds, TelegramLoop, CmdinLoop, UartLoop, ExposerLoop, PowerLoop, HttpEnds, Threads, Spots
  <2> QED
    BY <2>1 DEF TypeOK, Threads, Spots
<1> QED
  BY <1>1, <1>2, <1>3, <1>4, <1>5 DEF TypeOK

LEMMA TypeBoards == TypeOK /\ Boards => TypeOK'
<1> SUFFICES ASSUME TypeOK, Boards PROVE TypeOK'
  OBVIOUS
<1> USE DEF Boards, BoardSteps, At, Goes
<1>1. UNCHANGED <<env, pc, Flag, with, made, dev>>
  BY Zenon
<1>2. fan' \in {0, 1} /\ high' \in BOOLEAN /\ reading' \in Readings /\ band' \in Extremes
  BY DEF TypeOK, TempReads, TempEnds, TempPin, board
<1>3. crash' \in {"no", "zhub", "modem", "gpio", "http", "exposer", "chip", "port"}
  BY DEF TypeOK, TempReads, TempEnds, TempPin
<1>4. thread' \in [Threads -> Spots]
  <2>1. thread' = thread \/ \E p \in Spots : thread' = [thread EXCEPT !["temp"] = p]
    BY DEF TempReads, TempEnds, TempPin, Spots
  <2> QED
    BY <2>1 DEF TypeOK, Threads
<1> QED
  BY <1>1, <1>2, <1>3, <1>4 DEF TypeOK

LEMMA TypeStep == TypeOK /\ [Next]_vars => TypeOK'
<1> SUFFICES ASSUME TypeOK, [Next]_vars PROVE TypeOK'
  OBVIOUS
<1>1. CASE Mains
  <2>1. CASE Start
    BY <1>1, <2>1, TypeStart DEF Mains, MainSteps
  <2>2. CASE StartNetwork
    BY <1>1, <2>2 DEF Mains, MainSteps, StartNetwork, Main, TypeOK, Starting, board
  <2>3. CASE Stop
    BY <1>1, <2>3, TypeStop DEF Mains, MainSteps
  <2> QED
    BY <1>1, <2>1, <2>2, <2>3 DEF Mains, MainSteps
<1>2. CASE Stops
  BY <1>2, TypeStop DEF Stops
<1>3. CASE Boards
  BY <1>3, TypeBoards
<1>4. CASE \E t \in Threads : Runs(t)
  BY <1>4, TypeThreads DEF Runs
<1>5. CASE Alive /\ Stimuli
  BY <1>5, TypeStimuli
<1>6. CASE UNCHANGED vars
  BY <1>6 DEF vars, TypeOK, board
<1> QED
  BY <1>1, <1>2, <1>3, <1>4, <1>5, <1>6 DEF Next, Stimuli

\* Every variable keeps its type, whatever the environment.
THEOREM TypeCorrect == Spec => []TypeOK
BY TypeInit, TypeStep, PTL DEF Spec

-----------------------------------------------------------------------------
(* Nothing is left behind.                                                 *)

LEMMA StopInit == Init => Joined /\ NotStarted
BY DEF Init, Joined, NotStarted, Ended, Threads, AfterCmd, AfterPower, AfterCmdin, AfterExposer,
       AfterTemp, AfterHttp, AfterTlg, BeforeModem, AfterAdapter

\* While main stays where it is, a thread that has ended does not run again.
LEMMA EndedStays ==
    ASSUME StopInv, UNCHANGED <<env, pc, with>>,
           \A t \in Threads : Ended(t) => thread'[t] = thread[t]
    PROVE  Joined' /\ NotStarted'
<1>1. \A t \in Threads : Ended(t) => Ended(t)' /\ (thread[t] = "none" => thread'[t] = "none")
  BY DEF Ended
<1>2. Joined'
  BY <1>1 DEF StopInv, Joined, Threads
<1>3. NotStarted'
  BY <1>1 DEF StopInv, NotStarted, Threads, Ended
<1> QED
  BY <1>2, <1>3

\* A step of a thread is a step of one that runs.
LEMMA ThreadsKeep ==
    ASSUME StopInv, NEW t \in Threads, ThreadSteps(t)
    PROVE  Joined' /\ NotStarted'
<1>1. thread \in [Threads -> Spots]
  BY DEF StopInv, TypeOK
<1>2. UNCHANGED <<env, pc, with>>
  BY DEF ThreadSteps
<1>3. \A x \in Threads : Ended(x) => thread'[x] = thread[x]
  BY <1>1 DEF ThreadSteps, At, Goes, CmdEnds, TelegramLoop, CmdinLoop, UartLoop, ExposerLoop, PowerLoop,
              HttpEnds, Ended, Threads
<1> QED
  BY <1>2, <1>3, EndedStays

LEMMA BoardsKeep == StopInv /\ Boards => Joined' /\ NotStarted'
<1> SUFFICES ASSUME StopInv, Boards PROVE Joined' /\ NotStarted'
  OBVIOUS
<1>1. thread \in [Threads -> Spots]
  BY DEF StopInv, TypeOK
<1>2. UNCHANGED <<env, pc, with>>
  BY DEF Boards, BoardSteps
<1>3. \A x \in Threads : Ended(x) => thread'[x] = thread[x]
  BY <1>1 DEF Boards, BoardSteps, At, Goes, TempReads, TempEnds, TempPin, Ended, Threads
<1> QED
  BY <1>2, <1>3, EndedStays

LEMMA StimuliKeep == StopInv /\ Stimuli => Joined' /\ NotStarted'
<1> SUFFICES ASSUME StopInv, Stimuli PROVE Joined' /\ NotStarted'
  OBVIOUS
<1>1. thread \in [Threads -> Spots]
  BY DEF StopInv, TypeOK
<1>2. UNCHANGED <<env, pc, with>>
  BY Zenon DEF Stimuli, Signal, KeyQuit, KeyZigbee, KeyFan, TelegramMessage, Pressed, Stimulus
<1>3. \A x \in Threads : Ended(x) => thread'[x] = thread[x]
  BY <1>1 DEF Stimuli, Signal, KeyQuit, KeyZigbee, KeyFan, TelegramMessage, Pressed, At, Goes, Ended,
              Threads
<1> QED
  BY <1>2, <1>3, EndedStays

\* At the start no thread has been waited for, and each is started at its own place.
LEMMA StartKeeps == StopInv /\ (Start \/ StartNetwork) /\ UNCHANGED env => Joined' /\ NotStarted'
<1> SUFFICES ASSUME StopInv, Start \/ StartNetwork, UNCHANGED env PROVE Joined' /\ NotStarted'
  OBVIOUS
<1> USE DEF Main, Goes, BeforeModem, AfterAdapter
<1>1. thread \in [Threads -> Spots] /\ with \in Switches
  BY DEF StopInv, TypeOK
<1>2. pc' \notin AfterCmd
  BY DEF Start, StartNetwork, ParseConfig, CreateTelegram, RunTelegram, CreateZhub, InitAdapter,
         InitModem, InitGpio, InitZhub, StartHttp, AfterCmd, AfterPower, AfterCmdin, AfterExposer,
         AfterTemp, AfterHttp, AfterTlg
<1>3. Joined'
  BY <1>2 DEF Joined, AfterCmd, AfterPower, AfterCmdin, AfterExposer, AfterTemp, AfterHttp
<1> SUFFICES NotStarted'
  BY <1>3
<1>4. NotStarted
  BY DEF StopInv
<1>5. CASE ParseConfig
  BY <1>4, <1>5 DEF ParseConfig, NotStarted
<1>6. CASE CreateTelegram
  BY <1>1, <1>4, <1>6 DEF CreateTelegram, NotStarted, Threads, Switches
<1>7. CASE RunTelegram
  BY <1>1, <1>4, <1>7 DEF RunTelegram, NotStarted, Threads, Switches
<1>8. CASE CreateZhub
  BY <1>4, <1>8 DEF CreateZhub, NotStarted
<1>9. CASE InitAdapter
  BY <1>1, <1>4, <1>9 DEF InitAdapter, NotStarted, Threads, Switches
<1>10. CASE InitModem
  BY <1>1, <1>4, <1>10 DEF InitModem, NotStarted, Threads, Switches
<1>11. CASE InitGpio
  BY <1>1, <1>4, <1>11 DEF InitGpio, NotStarted, Threads, Switches
<1>12. CASE InitZhub
  BY <1>1, <1>4, <1>12 DEF InitZhub, NotStarted, Threads
<1>13. CASE StartNetwork
  BY <1>4, <1>13 DEF StartNetwork, NotStarted
<1>14. CASE StartHttp
  BY <1>1, <1>4, <1>14 DEF StartHttp, NotStarted, Threads
<1> QED
  BY <1>5, <1>6, <1>7, <1>8, <1>9, <1>10, <1>11, <1>12, <1>13, <1>14 DEF Start

\* stop_app goes on past a join only when the thread has ended, or was never started.
LEMMA StopKeeps == StopInv /\ (Stop \/ StopExposer) /\ UNCHANGED env => Joined' /\ NotStarted'
<1> SUFFICES ASSUME StopInv, Stop \/ StopExposer, UNCHANGED env PROVE Joined' /\ NotStarted'
  OBVIOUS
<1> USE DEF Main, Set, Call, Join
<1>1. UNCHANGED <<with, thread>>
  BY Zenon DEF Stop, JoinCmd, DisconnectModem, CloseGpio, StopZdo, StopExposer, StopRest, StopHttp
<1>2. Joined /\ NotStarted
  BY DEF StopInv
<1>3. NotStarted'
  <2>1. pc' \notin BeforeModem \cup AfterAdapter \cup {"cmd"} \/ pc' = pc
    BY DEF Stop, JoinCmd, DisconnectModem, CloseGpio, StopZdo, StopExposer, StopRest, StopHttp,
           BeforeModem, AfterAdapter
  <2> QED
    BY <1>1, <1>2, <2>1 DEF NotStarted, BeforeModem, AfterAdapter
<1>4. \A t \in Threads : Ended(t)' = Ended(t)
  BY <1>1 DEF Ended
<1> USE DEF AfterCmd, AfterPower, AfterCmdin, AfterExposer, AfterTemp, AfterHttp, AfterTlg
<1>5. Joined'
  <2>1. CASE JoinCmd
    BY <1>1, <1>2, <2>1 DEF JoinCmd, Joined, NotStarted, Ended
  <2>2. CASE DisconnectModem
    BY <1>1, <1>2, <2>2 DEF DisconnectModem, Joined, NotStarted, Ended
  <2>3. CASE CloseGpio
    BY <1>1, <1>2, <2>3 DEF CloseGpio, Joined, Ended
  <2>4. CASE StopZdo
    BY <1>1, <1>2, <2>4 DEF StopZdo, Joined, NotStarted, Ended
  <2>5. CASE StopExposer
    BY <1>1, <1>2, <2>5 DEF StopExposer, Joined, Ended
  <2>6. CASE StopRest
    BY <1>1, <1>2, <2>6 DEF StopRest, Joined, Ended
  <2>7. CASE StopHttp
    BY <1>1, <1>2, <2>7 DEF StopHttp, Joined, Ended
  <2> QED
    BY <2>1, <2>2, <2>3, <2>4, <2>5, <2>6, <2>7 DEF Stop
<1> QED
  BY <1>3, <1>5

LEMMA StopStep == StopInv /\ [Next]_vars => StopInv'
<1> SUFFICES ASSUME StopInv, [Next]_vars PROVE Joined' /\ NotStarted'
  BY TypeStep DEF StopInv
<1>1. CASE Mains
  BY <1>1, StartKeeps, StopKeeps DEF Mains, MainSteps
<1>2. CASE Stops
  BY <1>2, StopKeeps DEF Stops
<1>3. CASE Boards
  BY <1>3, BoardsKeep
<1>4. CASE \E t \in Threads : Runs(t)
  BY <1>4, ThreadsKeep DEF Runs
<1>5. CASE Alive /\ Stimuli
  BY <1>5, StimuliKeep
<1>6. CASE UNCHANGED vars
  BY <1>6, EndedStays DEF vars
<1> QED
  BY <1>1, <1>2, <1>3, <1>4, <1>5, <1>6 DEF Next, Stimuli

\* When stop_app returns every thread but the Uart's has ended, in any environment, at
\* whatever moment of the start the signal came.
THEOREM LeavesNothing == Spec => []ExitsAlone
<1>1. Init => StopInv
  BY TypeInit, StopInit DEF StopInv
<1>2. StopInv => ExitsAlone
  BY DEF StopInv, Joined, ExitsAlone, Threads, AfterCmd, AfterPower, AfterCmdin, AfterExposer, AfterTemp,
         AfterHttp, AfterTlg
<1> QED
  BY <1>1, <1>2, StopStep, PTL DEF Spec

-----------------------------------------------------------------------------
(* The fan.                                                                *)

\* notify_high_send is the last band, so that each new band is acted on; when the thread is
\* not at it the fan does what the band says, or was touched since.
FanInv ==
    /\ TypeOK
    /\ high = (band = "hot")
    /\ thread["temp"] \notin {"pin", "write"} /\ ~touched => fan = IF band = "hot" THEN 1 ELSE 0
    /\ pc \in Starting => thread["temp"] = "none"

LEMMA FanInit == Init => FanInv
BY TypeInit DEF Init, FanInv, Threads

\* A step that neither touches the board nor moves its thread.
LEMMA FanStays ==
    ASSUME FanInv, TypeOK', UNCHANGED board, thread'["temp"] = thread["temp"], pc' \in Starting => pc \in Starting
    PROVE  FanInv'
BY DEF FanInv, board

LEMMA FanMains ==
    ASSUME FanInv, TypeOK', UNCHANGED board, Start \/ StartNetwork \/ Stop \/ StopExposer
    PROVE  FanInv'
<1> USE DEF Main, Set, Call, Join, Goes
<1>0. thread \in [Threads -> Spots] /\ "temp" \in Threads
  BY DEF FanInv, TypeOK, Threads
<1>1. CASE StartHttp
  <2>1. pc \in Starting /\ pc' = "cmd" /\ thread'["temp"] = "look" /\ thread["temp"] = "none"
    BY <1>0, <1>1 DEF StartHttp, Threads, Starting, FanInv
  <2> QED
    BY <2>1 DEF FanInv, board, Starting
<1>2. CASE ~StartHttp /\ (Start \/ StartNetwork)
  <2>1. thread'["temp"] = thread["temp"]
    BY <1>0, <1>2 DEF Start, StartNetwork, ParseConfig, CreateTelegram, RunTelegram, CreateZhub, InitAdapter,
         InitModem, InitGpio, InitZhub
  <2>2. pc \in Starting
    BY <1>2 DEF Start, StartNetwork, ParseConfig, CreateTelegram, RunTelegram, CreateZhub, InitAdapter,
         InitModem, InitGpio, InitZhub, Starting
  <2> QED
    BY <2>1, <2>2, FanStays
<1>3. CASE Stop \/ StopExposer
  <2>1. UNCHANGED thread
    BY <1>3, Zenon DEF Stop, JoinCmd, DisconnectModem, CloseGpio, StopZdo, StopExposer, StopRest, StopHttp
  <2>2. pc' \notin Starting \/ pc' = pc
    BY <1>3 DEF Stop, JoinCmd, DisconnectModem, CloseGpio, StopZdo, StopExposer, StopRest, StopHttp, Starting
  <2> QED
    BY <2>1, <2>2, FanStays
<1> QED
  BY <1>1, <1>2, <1>3

LEMMA FanStimuli == FanInv /\ TypeOK' /\ Stimuli => FanInv'
<1> SUFFICES ASSUME FanInv, TypeOK', Stimuli PROVE FanInv'
  OBVIOUS
<1>0. thread \in [Threads -> Spots] /\ "temp" \in Threads
  BY DEF FanInv, TypeOK, Threads
<1>1. UNCHANGED pc /\ thread'["temp"] = thread["temp"]
  BY <1>0 DEF Stimuli, Signal, KeyQuit, KeyZigbee, KeyFan, TelegramMessage, Pressed, Stimulus, Goes
<1>2. UNCHANGED board \/ (UNCHANGED <<high, band>> /\ touched')
  BY Zenon DEF Stimuli, Signal, KeyQuit, KeyZigbee, KeyFan, TelegramMessage
<1>3. CASE UNCHANGED board
  BY <1>1, <1>3, FanStays
<1>4. CASE UNCHANGED <<high, band>> /\ touched'
  BY <1>1, <1>4 DEF FanInv
<1> QED
  BY <1>2, <1>3, <1>4

LEMMA FanThreads ==
    ASSUME FanInv, TypeOK', NEW t \in Threads, ThreadSteps(t)
    PROVE  FanInv'
<1>0. thread \in [Threads -> Spots] /\ "temp" \in Threads
  BY DEF FanInv, TypeOK, Threads
<1>1. UNCHANGED <<pc, board>>
  BY DEF ThreadSteps
<1>2. thread'["temp"] = thread["temp"]
  BY <1>0 DEF ThreadSteps, Goes, CmdEnds, TelegramLoop, CmdinLoop, UartLoop, ExposerLoop, PowerLoop, HttpEnds
<1> QED
  BY <1>1, <1>2, FanStays

\* The thread of the board itself.
LEMMA FanBoards == FanInv /\ TypeOK' /\ Boards => FanInv'
<1> SUFFICES ASSUME FanInv, TypeOK', Boards PROVE FanInv'
  OBVIOUS
<1> USE DEF At, Goes
<1>0. thread \in [Threads -> Spots] /\ "temp" \in Threads /\ pc' = pc
  BY DEF FanInv, TypeOK, Threads, Boards, BoardSteps
<1>a. \A p : thread' = [thread EXCEPT !["temp"] = p] => thread'["temp"] = p
  BY <1>0
<1>b. band \in {"hot", "cold"} /\ high \in BOOLEAN
  BY DEF FanInv, TypeOK, Extremes
<1>1. CASE TempReads
  <2>1. PICK b \in Readings :
            /\ band' = IF b \in Extremes THEN b ELSE band
            /\ IF NewBand(b) THEN high' = (b = "hot") /\ thread' = [thread EXCEPT !["temp"] = "pin"]
               ELSE UNCHANGED <<high, thread>>
    BY <1>1 DEF TempReads
  <2>2. CASE NewBand(b)
    <3>1. b \in Extremes
      BY <2>2 DEF NewBand, Extremes
    <3>2. high' = (band' = "hot")
      BY <2>1, <2>2, <3>1, Zenon
    <3>3. thread'["temp"] = "pin" /\ thread["temp"] = "look"
      BY <1>1, <1>a, <2>1, <2>2 DEF TempReads
    <3> QED
      BY <1>0, <3>2, <3>3 DEF FanInv
  \* What it does not act on is the band it acted on last, or none.
  <2>3. CASE ~NewBand(b)
    <3>1. UNCHANGED <<high, thread, fan, touched>>
      BY <1>1, <2>1, <2>3, Zenon DEF TempReads
    <3>2. band' = band
      BY <1>b, <2>1, <2>3 DEF NewBand, Extremes, FanInv
    <3> QED
      BY <1>0, <3>1, <3>2 DEF FanInv
  <2> QED
    BY <2>2, <2>3
<1>2. CASE TempEnds
  <2>1. thread["temp"] = "look" /\ thread'["temp"] = "done" /\ UNCHANGED <<high, fan, band, touched>>
    BY <1>2, <1>a DEF TempEnds, board
  <2> QED
    BY <1>0, <2>1 DEF FanInv
<1>3. CASE TempPin
  <2>1. \/ /\ thread["temp"] = "pin" /\ touched' /\ UNCHANGED <<high, band>> /\ thread'["temp"] = "look"
        \/ /\ thread["temp"] = "pin" /\ UNCHANGED <<high, band>> /\ thread'["temp"] = "write"
        \/ /\ thread["temp"] = "write" /\ UNCHANGED <<high, band>> /\ thread'["temp"] = "look"
           /\ fan' = IF high THEN 1 ELSE 0
        \/ UNCHANGED <<board, thread>>
    BY <1>3, <1>a DEF TempPin
  <2> QED
    BY <1>0, <2>1 DEF FanInv, board
<1> QED
  BY <1>1, <1>2, <1>3 DEF Boards, BoardSteps

LEMMA FanStep == FanInv /\ [Next]_vars => FanInv'
<1> SUFFICES ASSUME FanInv, [Next]_vars PROVE FanInv'
  OBVIOUS
<1>0. TypeOK'
  BY TypeStep DEF FanInv
<1>1. CASE Mains \/ Stops
  BY <1>0, <1>1, FanMains DEF Mains, MainSteps, Stops
<1>2. CASE Boards
  BY <1>0, <1>2, FanBoards
<1>3. CASE \E t \in Threads : Runs(t)
  BY <1>0, <1>3, FanThreads DEF Runs
<1>4. CASE Alive /\ Stimuli
  BY <1>0, <1>4, FanStimuli
<1>5. CASE UNCHANGED vars
  BY <1>0, <1>5, FanStays DEF vars
<1> QED
  BY <1>1, <1>2, <1>3, <1>4, <1>5 DEF Next, Stimuli

\* Whatever the readings and the keys, at rest the fan blows on a hot board and only there,
\* unless it was touched, or could not be switched.
THEOREM FanFollows == Spec => []FanFollowsTemperature
<1>1. FanInv => FanFollowsTemperature
  BY DEF FanInv, FanFollowsTemperature, At
<1> QED
  BY <1>1, FanInit, FanStep, PTL DEF Spec

-----------------------------------------------------------------------------
(* A complete program lives.                                               *)

\* Everything that the program is configured for is there.
Complete == env.config /\ env.tlg # "invalid" /\ env.adapter /\ env.gpio = "chip"

Early == {"parse", "create", "run", "zhub", "adapter", "modem", "gpio"}
AtEnd == Stopping \cup {"exited"}

\* What object_create and start_app have made when main is at a place.
Built ==
    /\ pc \in {"adapter", "modem", "gpio"} => "zhub" \in made
    /\ pc \in {"modem", "gpio"} => dev.chans = "open" /\ ~with.noAdapter
    /\ pc = "gpio" => {"modem", "gpio"} \subseteq made /\ with.gpio
    /\ pc \notin Early => {"zhub", "modem", "gpio"} \subseteq made /\ dev.chans # "none" /\ ~with.noAdapter
    /\ pc \in {"cmd"} \cup AtEnd =>
         "http" \in made /\ (env.prometheus => "exposer" \in made \/ At("exposer", "make"))
    /\ pc = "stopexposer" => env.prometheus

\* The port and the chip are open until stop_app closes them, the chip after its flag is
\* cleared and its thread has ended; the thread of the board starts when they are.
Opened ==
    /\ pc \notin Early => dev.chip = "open" \/ (~dev.gpioFlag /\ pc \in AtEnd)
    /\ pc = "chip" => ~dev.gpioFlag
    /\ ~Ended("power") => dev.chip = "open"
    /\ thread["uart"] # "none" => dev.port \/ pc \in AtEnd
    /\ thread["temp"] # "none" => pc \notin Early

LifeInv == StopInv /\ (Complete => Built /\ Opened) /\ CompleteProgramLives

LEMMA LifeInit == Init => LifeInv
<1> SUFFICES ASSUME Init PROVE LifeInv
  OBVIOUS
<1>1. StopInv
  BY TypeInit, StopInit DEF StopInv
<1>2. Built /\ Opened
  BY DEF Init, Built, Opened, Early, AtEnd, Stopping, Ended, Threads
<1>3. CompleteProgramLives
  BY DEF Init, CompleteProgramLives
<1> QED
  BY <1>1, <1>2, <1>3 DEF LifeInv

\* The start makes each object before the place that needs it.
LEMMA LifeStart ==
    ASSUME StopInv, Complete, Built, Opened, UNCHANGED env, Start \/ StartNetwork
    PROVE  Built' /\ Opened'
<1> USE DEF Main, Goes, At, Early, AtEnd, Stopping
<1>1. thread \in [Threads -> Spots] /\ with \in Switches /\ dev \in Devices
  BY DEF StopInv, TypeOK
<1>2. \A t \in {"power", "uart", "temp", "cmd", "tlg", "cmdin", "exposer", "http"} : t \in Threads
  BY DEF Threads
<1>3. pc \in BeforeModem \cup {"modem", "gpio"} => thread["power"] = "none"
  BY DEF StopInv, NotStarted
<1>4. env.config /\ env.tlg # "invalid" /\ env.adapter /\ env.gpio = "chip"
  BY DEF Complete
<1>5. CASE ParseConfig
  BY <1>1, <1>4, <1>5 DEF ParseConfig, Built, Opened, Ended
<1>6. CASE CreateTelegram
  BY <1>1, <1>2, <1>6 DEF CreateTelegram, Built, Opened, Ended, Devices
<1>7. CASE RunTelegram
  BY <1>1, <1>2, <1>4, <1>7 DEF RunTelegram, Built, Opened, Ended
<1>8. CASE CreateZhub
  BY <1>1, <1>8 DEF CreateZhub, Built, Opened, Ended
<1>9. CASE InitAdapter
  BY <1>1, <1>2, <1>3, <1>4, <1>9 DEF InitAdapter, Built, Opened, Ended, Devices, Switches, BeforeModem
<1>10. CASE InitModem
  BY <1>1, <1>4, <1>10 DEF InitModem, Built, Opened, Ended, Switches
<1>11. CASE InitGpio
  BY <1>1, <1>2, <1>4, <1>11 DEF InitGpio, Built, Opened, Ended, Devices, Switches
<1>12. CASE InitZhub
  BY <1>1, <1>2, <1>12 DEF InitZhub, Built, Opened, Ended
<1>13. CASE StartNetwork
  BY <1>1, <1>13 DEF StartNetwork, Built, Opened, Ended
<1>14. CASE StartHttp
  BY <1>1, <1>2, <1>14 DEF StartHttp, Built, Opened, Ended, Devices
<1> QED
  BY <1>5, <1>6, <1>7, <1>8, <1>9, <1>10, <1>11, <1>12, <1>13, <1>14 DEF Start

\* The stop closes the chip only after its thread and its flag.
LEMMA LifeStop ==
    ASSUME StopInv, Complete, Built, Opened, UNCHANGED env, Stop \/ StopExposer
    PROVE  Built' /\ Opened'
<1> USE DEF Main, Set, Call, Join, At, Early, AtEnd, Stopping
<1>1. dev \in Devices
  BY DEF StopInv, TypeOK
<1>2. UNCHANGED <<with, made, thread>>
  BY Zenon DEF Stop, JoinCmd, DisconnectModem, CloseGpio, StopZdo, StopExposer, StopRest, StopHttp
<1>3. pc \notin Early /\ pc' \notin Early /\ (pc \in {"cmd"} \cup AtEnd) /\ (pc' \in AtEnd)
  BY DEF Stop, JoinCmd, DisconnectModem, CloseGpio, StopZdo, StopExposer, StopRest, StopHttp
<1>4. Built'
  <2>1. dev'.chans = dev.chans \/ dev'.chans = "stopped"
    BY <1>1 DEF Stop, JoinCmd, DisconnectModem, CloseGpio, StopZdo, StopExposer, StopRest, StopHttp, Devices
  <2>2. pc' = "stopexposer" => env.prometheus
    BY DEF Stop, JoinCmd, DisconnectModem, CloseGpio, StopZdo, StopExposer, StopRest, StopHttp, Built
  <2> QED
    BY <1>2, <1>3, <2>1, <2>2 DEF Built
<1>5. Opened'
  <2>1. CASE CloseGpio
    BY <1>1, <1>2, <1>3, <2>1 DEF CloseGpio, Opened, Ended, Devices
  <2>2. CASE ~CloseGpio
    <3>1. UNCHANGED <<dev.chip, dev.gpioFlag>>
      BY <1>1, <2>2 DEF Stop, JoinCmd, DisconnectModem, StopZdo, StopExposer, StopRest, StopHttp, Devices
    <3>2. pc' = "chip" => pc = "chip"
      BY <2>2 DEF Stop, JoinCmd, DisconnectModem, StopZdo, StopExposer, StopRest, StopHttp
    <3>3. Ended("power")' = Ended("power")
      BY <1>2 DEF Ended
    <3> QED
      BY <1>2, <1>3, <3>1, <3>2, <3>3 DEF Opened
  <2> QED
    BY <2>1, <2>2
<1> QED
  BY <1>4, <1>5

\* While main stays where it is and no device is closed, what is there stays there.
LEMMA LifeStays ==
    ASSUME Built, Opened, UNCHANGED <<env, pc, with>>, made \subseteq made',
           UNCHANGED <<dev.chans, dev.chip, dev.gpioFlag, dev.port>>,
           \A t \in Threads : Ended(t) => thread'[t] = thread[t],
           At("exposer", "make") => At("exposer", "make")' \/ "exposer" \in made'
    PROVE  Built' /\ Opened'
<1>1. \A t \in Threads : Ended(t) => Ended(t)' /\ (thread[t] = "none" => thread'[t] = "none")
  BY DEF Ended
<1>2. Built'
  BY DEF Built
<1>3. Opened'
  BY <1>1 DEF Opened, Threads, Ended
<1> QED
  BY <1>2, <1>3

LEMMA LifeThreads ==
    ASSUME StopInv, Built, Opened, NEW t \in Threads, ThreadSteps(t)
    PROVE  Built' /\ Opened'
<1>1. thread \in [Threads -> Spots] /\ dev \in Devices
  BY DEF StopInv, TypeOK
<1>2. UNCHANGED <<env, pc, with>>
  BY DEF ThreadSteps
<1>3. \A x \in Threads : Ended(x) => thread'[x] = thread[x]
  BY <1>1 DEF ThreadSteps, At, Goes, CmdEnds, TelegramLoop, CmdinLoop, UartLoop, ExposerLoop, PowerLoop,
              HttpEnds, Ended, Threads
<1>4. UNCHANGED <<dev.chans, dev.chip, dev.gpioFlag, dev.port>>
  BY <1>1 DEF ThreadSteps, CmdEnds, TelegramLoop, CmdinLoop, UartLoop, ExposerLoop, PowerLoop, HttpEnds, Devices
<1>5. made \subseteq made' /\ (At("exposer", "make") => At("exposer", "make")' \/ "exposer" \in made')
  BY <1>1 DEF ThreadSteps, At, Goes, CmdEnds, TelegramLoop, CmdinLoop, UartLoop, ExposerLoop, PowerLoop,
              HttpEnds, Threads
<1> QED
  BY <1>2, <1>3, <1>4, <1>5, LifeStays

LEMMA LifeBoards == StopInv /\ Built /\ Opened /\ Boards => Built' /\ Opened'
<1> SUFFICES ASSUME StopInv, Built, Opened, Boards PROVE Built' /\ Opened'
  OBVIOUS
<1>1. thread \in [Threads -> Spots]
  BY DEF StopInv, TypeOK
<1>2. UNCHANGED <<env, pc, with, made, dev>>
  BY DEF Boards, BoardSteps
<1>3. \A x \in Threads : /\ Ended(x) => thread'[x] = thread[x]
                         /\ x = "exposer" => thread'[x] = thread[x]
  BY <1>1 DEF Boards, BoardSteps, At, Goes, TempReads, TempEnds, TempPin, Ended, Threads
<1>4. At("exposer", "make")' = At("exposer", "make")
  BY <1>3 DEF At, Threads
<1> QED
  BY <1>2, <1>3, <1>4, LifeStays

LEMMA LifeStimuli == StopInv /\ Built /\ Opened /\ Stimuli => Built' /\ Opened'
<1> SUFFICES ASSUME StopInv, Built, Opened, Stimuli PROVE Built' /\ Opened'
  OBVIOUS
<1>1. thread \in [Threads -> Spots]
  BY DEF StopInv, TypeOK
<1>2. UNCHANGED <<env, pc, with, made, dev>>
  BY Zenon DEF Stimuli, Signal, KeyQuit, KeyZigbee, KeyFan, TelegramMessage, Pressed, Stimulus
<1>3. \A x \in Threads : /\ Ended(x) => thread'[x] = thread[x]
                         /\ x = "exposer" => thread'[x] = thread[x]
  BY <1>1 DEF Stimuli, Signal, KeyQuit, KeyZigbee, KeyFan, TelegramMessage, Pressed, At, Goes, Ended,
              Threads
<1>4. At("exposer", "make")' = At("exposer", "make")
  BY <1>3 DEF At, Threads
<1> QED
  BY <1>2, <1>3, <1>4, LifeStays

\* What ends the program: a call of stop_app on what is not there, in Prometheus' race,
LEMMA MainLives ==
    ASSUME Built, Alive, UNCHANGED env, Start \/ StartNetwork \/ Stop \/ StopExposer
    PROVE  crash' = "no" \/ (pc' \in Stopping /\ At("exposer", "make")')
<1> USE DEF Main, Set, Call, Join
<1>1. CASE Start \/ StartNetwork \/ JoinCmd \/ CloseGpio \/ StopZdo \/ StopRest
  BY <1>1 DEF Alive, Start, StartNetwork, ParseConfig, CreateTelegram, RunTelegram, CreateZhub, InitAdapter,
         InitModem, InitGpio, InitZhub, StartHttp, JoinCmd, CloseGpio, StopZdo, StopRest
<1>2. CASE DisconnectModem
  BY <1>2 DEF DisconnectModem, Alive, Built, Early
<1>3. CASE StopHttp
  BY <1>3 DEF StopHttp, Alive, Built, AtEnd, Stopping
<1>4. CASE StopExposer
  <2>1. pc = "stopexposer" /\ thread' = thread
    BY <1>4 DEF StopExposer
  <2>2. CASE "exposer" \in made
    BY <1>4, <2>2 DEF StopExposer, Alive
  <2>3. CASE "exposer" \notin made
    BY <1>4, <2>1, <2>3 DEF StopExposer, Built, AtEnd, Stopping, At
  <2> QED
    BY <2>2, <2>3
<1> QED
  BY <1>1, <1>2, <1>3, <1>4 DEF Stop

\* a key or a message that came early,
LEMMA StimuliLive ==
    ASSUME TypeOK, Built, Opened, Alive, Stimuli
    PROVE  crash' = "no" \/ early'
<1>1. pc \in Early => pc \in Starting \ {"init", "network", "web"}
  BY DEF Early, Starting
<1>2. CASE Signal \/ KeyQuit
  BY <1>2 DEF Signal, KeyQuit, Alive
<1>3. CASE KeyZigbee
  BY <1>1, <1>3 DEF KeyZigbee, Pressed, Stimulus, Built, Alive
<1>4. CASE KeyFan
  BY <1>1, <1>4 DEF KeyFan, Pressed, Stimulus, PinDies, Built, Opened
<1>5. CASE TelegramMessage
  BY <1>1, <1>5 DEF TelegramMessage, Stimulus, Built
<1> QED
  BY <1>2, <1>3, <1>4, <1>5 DEF Stimuli

\* the port closed under the Uart's thread,
LEMMA ThreadsLive ==
    ASSUME Opened, Alive, NEW t \in Threads, ThreadSteps(t)
    PROVE  crash' = "no" \/ (pc' \in Stopping /\ At("uart", "read")')
<1>1. crash = "no" /\ pc # "exited" /\ pc' = pc
  BY DEF Alive, ThreadSteps
<1>2. CASE t = "uart"
  BY <1>1, <1>2 DEF ThreadSteps, UartLoop, Opened, AtEnd, At
<1>3. CASE t = "power"
  BY <1>1, <1>3 DEF ThreadSteps, PowerLoop, Opened, Ended, At
<1>4. CASE t \notin {"uart", "power"}
  BY <1>1, <1>4 DEF ThreadSteps, CmdEnds, TelegramLoop, CmdinLoop, ExposerLoop, HttpEnds
<1> QED
  BY <1>2, <1>3, <1>4

\* and the chip closed under the thread of the board.
LEMMA BoardsLive ==
    ASSUME Built, Opened, Boards
    PROVE  crash' = "no" \/ (pc' \in Stopping /\ At("temp", "write")')
<1>1. crash = "no" /\ pc # "exited" /\ pc' = pc
  BY DEF Boards, Alive, BoardSteps
<1>2. CASE TempReads \/ TempEnds
  BY <1>1, <1>2 DEF TempReads, TempEnds
<1>3. CASE TempPin
  BY <1>1, <1>3 DEF TempPin, Built, Opened, AtEnd, At
<1> QED
  BY <1>2, <1>3 DEF Boards, BoardSteps

LEMMA LifeStep == LifeInv /\ [Next]_vars => LifeInv'
<1> SUFFICES ASSUME LifeInv, [Next]_vars PROVE LifeInv'
  OBVIOUS
<1>1. StopInv /\ StopInv' /\ TypeOK
  BY StopStep DEF LifeInv, StopInv
<1>2. CASE UNCHANGED vars
  <2>1. UNCHANGED <<env, pc, with, made, dev, thread, crash, early>>
    BY <1>2, Zenon DEF vars, stimuli
  <2> QED
    BY <1>1, <2>1 DEF LifeInv, Complete, Built, Opened, CompleteProgramLives, At, Ended
<1>3. CASE Next
  <2>1. env' = env
    BY <1>3, Zenon DEF Next, Mains, MainSteps, Stops, Boards, BoardSteps, Runs, ThreadSteps, Signal, KeyQuit, KeyZigbee,
           KeyFan, TelegramMessage, Pressed, Stimulus
  <2>2. CASE ~Complete
    <3>1. ~Complete'
      BY <2>1, <2>2 DEF Complete
    <3> QED
      BY <1>1, <3>1 DEF LifeInv, CompleteProgramLives, Complete
  <2>3. CASE Complete
    <3> SUFFICES /\ Built' /\ Opened'
                 /\ \/ crash' = "no" \/ early'
                    \/ pc' \in Stopping /\ (At("exposer", "make")' \/ At("uart", "read")' \/ At("temp", "write")')
      BY <1>1 DEF LifeInv, CompleteProgramLives
    <3>1. Built /\ Opened
      BY <2>3 DEF LifeInv
    <3>2. CASE Mains \/ Stops
      <4>1. Alive /\ (Start \/ StartNetwork \/ Stop \/ StopExposer)
        BY <3>2 DEF Mains, MainSteps, Stops
      <4> QED
        BY <1>1, <2>1, <2>3, <3>1, <4>1, LifeStart, LifeStop, MainLives
    <3>3. CASE Boards
      BY <1>1, <3>1, <3>3, LifeBoards, BoardsLive
    <3>4. CASE \E t \in Threads : Runs(t)
      <4>1. PICK t \in Threads : Alive /\ ThreadSteps(t)
        BY <3>4 DEF Runs
      <4>2. Built' /\ Opened'
        BY <1>1, <3>1, <4>1, LifeThreads
      <4> QED
        BY <3>1, <4>1, <4>2, ThreadsLive
    <3>5. CASE Alive /\ Stimuli
      BY <1>1, <3>1, <3>5, LifeStimuli, StimuliLive
    <3> QED
      BY <1>3, <3>2, <3>3, <3>4, <3>5 DEF Next, Stimuli
  <2> QED
    BY <2>2, <2>3
<1> QED
  BY <1>2, <1>3

\* With everything there that it is configured for the program dies only of a stimulus that
\* came early and of the three races of its stop, at whatever moment of the start it is told
\* to stop and with any number of keys, messages and readings.
THEOREM CompleteLives == Spec => []CompleteProgramLives
<1>1. LifeInv => CompleteProgramLives
  BY DEF LifeInv
<1> QED
  BY <1>1, LifeInit, LifeStep, PTL DEF Spec
=============================================================================
