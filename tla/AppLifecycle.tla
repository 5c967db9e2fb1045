---------------------------- MODULE AppLifecycle ----------------------------
(***************************************************************************)
(* The start and the stop of zhub2.  main creates the objects and their    *)
(* threads in an order, waits for the keyboard's thread, and takes them    *)
(* down in another order.                                                  *)
(*                                                                         *)
(* What there is at a moment depends on the configuration, on the hardware *)
(* that is found and on how far the start went when q or a signal cleared  *)
(* Flag.  A thread may use an object that is not there yet, that is never  *)
(* there or that is being taken down; each such use ends the program, and  *)
(* the model records in "crash" what it died of.                           *)
(***************************************************************************)
EXTENDS Naturals, FiniteSets

CONSTANTS
    Environments, \* what may be configured and found
    MaxKeys,      \* bound: keys and Telegram messages
    MaxReadings   \* bound: changes of the board's temperature

AllEnvironments ==
    [config : BOOLEAN,                     \* config.txt can be read
     tlg : {"invalid", "silent", "runs"},  \* tlg32->run() throws, returns false, true
     adapter : BOOLEAN,                    \* the serial port opens
     gpio : {"none", "nochip", "chip"},    \* config.Gpio, and gpiod_chip_open
     prometheus : BOOLEAN,                 \* config.Prometheus
     ports : BOOLEAN]                      \* the ports of the two servers can be opened

ASSUME LifeAssumption ==
    Environments \subseteq AllEnvironments /\ MaxKeys \in Nat /\ MaxReadings \in Nat

Threads == {"cmd", "tlg", "cmdin", "uart", "power", "temp", "exposer", "http"}
Starting == {"parse", "create", "run", "zhub", "adapter", "modem", "gpio", "init", "network", "web"}
Stopping == {"disconnect", "gpioflag", "chip", "port", "chans", "cmdin", "stopexposer",
             "exposer", "temp", "stophttp", "http", "stoptlg", "tlg"}

VARIABLES
    env,      \* the environment
    pc,       \* what main does next
    Flag,     \* App::Flag
    with,     \* withTlg, noAdapter (set by object_create only), withGpio
    made,     \* the pointers that are set: zhub, gsmModem, gpio, http, exposer
    dev,      \* port (the adapter's, open or not), chans and tlgIn (channels), chip, and the
              \* flags of Pi4Gpio, Exposer and HttpServer
    thread,   \* where each thread is
    high,     \* notify_high_send of get_main_temperature
    fan,      \* external: pin 16
    crash,    \* what the program died of
    keys,     \* auxiliary: keys and messages so far
    readings, \* auxiliary: changes of the temperature so far
    reading,  \* external: the board's temperature when it was last read
    band,     \* history: the last reading above 70 or below 50 degrees
    touched,  \* history: the fan was switched by hand since, or could not be switched
    early,    \* history: a key or a message came before the objects were there
    late      \* history: stop_exposer came before Exposer::start

board == <<high, fan, readings, reading, band, touched>>
stimuli == <<keys, early>>
vars == <<env, pc, Flag, with, made, dev, thread, board, crash, stimuli, late>>

Ended(t) == thread[t] \in {"none", "done"}
At(t, p) == thread[t] = p
Goes(t, p) == thread' = [thread EXCEPT ![t] = p]

-----------------------------------------------------------------------------
(* object_create and start_app.                                            *)

Main(from, to) == pc = from /\ pc' = to

\* Without a configuration main returns, and atexit calls stop_app.
ParseConfig ==
    /\ Main("parse", IF env.config THEN "create" ELSE "cmd")
    /\ UNCHANGED <<Flag, with, made, dev, thread, crash>>

\* The Telegram thread starts before run() has said whether there is a bot.
CreateTelegram ==
    /\ Main("create", "run")
    /\ Flag' = TRUE /\ with' = [with EXCEPT !.tlg = FALSE]
    /\ dev' = [dev EXCEPT !.tlgIn = "open"] /\ Goes("tlg", "look")
    /\ UNCHANGED <<made, crash>>

RunTelegram ==
    LET valid == env.tlg # "invalid" IN
    /\ Main("run", IF valid THEN "zhub" ELSE "cmd")
    /\ with' = IF valid THEN [with EXCEPT !.tlg = (env.tlg = "runs")]
               ELSE [with EXCEPT !.noAdapter = TRUE]
    /\ IF valid THEN Goes("cmd", "select") ELSE UNCHANGED thread
    /\ UNCHANGED <<Flag, made, dev, crash>>

CreateZhub ==
    /\ Main("zhub", "adapter")
    /\ made' = made \cup {"zhub"}
    /\ UNCHANGED <<Flag, with, dev, thread, crash>>

\* Zdo::connect makes the channels, opens the port and starts the Uart's threads.
InitAdapter ==
    /\ Main("adapter", IF env.adapter THEN "modem" ELSE "cmd")
    /\ with' = [with EXCEPT !.noAdapter = ~env.adapter]
    /\ dev' = [dev EXCEPT !.port = env.adapter, !.chans = IF env.adapter THEN "open" ELSE "stopped"]
    /\ Flag' = (Flag /\ env.adapter)
    /\ IF env.adapter THEN Goes("uart", "wait") ELSE UNCHANGED thread
    /\ UNCHANGED <<made, crash>>

InitModem ==
    /\ Main("modem", "gpio")
    /\ made' = made \cup {"modem"} \cup (IF env.gpio = "none" THEN {} ELSE {"gpio"})
    /\ with' = [with EXCEPT !.gpio = (env.gpio # "none")]
    /\ UNCHANGED <<Flag, dev, thread, crash>>

\* initialize_gpio sets its flag even when there is no chip.
InitGpio ==
    LET works == with.gpio /\ env.gpio = "chip" IN
    /\ Main("gpio", "init")
    /\ dev' = [dev EXCEPT !.gpioFlag = with.gpio, !.chip = IF works THEN "open" ELSE "none"]
    /\ with' = [with EXCEPT !.gpio = works]
    /\ IF works THEN Goes("power", "look") ELSE UNCHANGED thread
    /\ UNCHANGED <<Flag, made, crash>>

\* Zhub::start: thr_cmdin ...
InitZhub ==
    /\ Main("init", "network")
    /\ Goes("cmdin", "look")
    /\ UNCHANGED <<Flag, with, made, dev, crash>>

\* ... and one attempt after another until the network is up, or Flag is cleared.
StartNetwork ==
    /\ Main("network", "web")
    /\ UNCHANGED <<Flag, with, made, dev, thread, crash>>

\* The web server, whose thread ends at once without its port, and the last two threads.
StartHttp ==
    /\ Main("web", "cmd")
    /\ made' = made \cup {"http"} /\ dev' = [dev EXCEPT !.httpFlag = TRUE]
    /\ thread' = [thread EXCEPT !["http"] = IF env.ports THEN "select" ELSE "none",
                                !["exposer"] = IF env.prometheus THEN "make" ELSE "none",
                                !["temp"] = "look"]
    /\ UNCHANGED <<Flag, with, crash>>

Start == ParseConfig \/ CreateTelegram \/ RunTelegram \/ CreateZhub \/ InitAdapter \/ InitModem
         \/ InitGpio \/ InitZhub \/ StartHttp

-----------------------------------------------------------------------------
(* stop_app.                                                               *)

Join(t, to) == Ended(t) /\ Main(t, to) /\ UNCHANGED <<Flag, with, made, dev, thread, crash>>
Set(from, f, v, to) ==
    /\ Main(from, to) /\ dev' = [dev EXCEPT ![f] = v]
    /\ UNCHANGED <<Flag, with, made, thread, crash>>
\* A call through a pointer: to a null one it ends the program.
Call(from, object, to) ==
    /\ pc = from
    /\ IF object \in made THEN pc' = to /\ UNCHANGED crash ELSE UNCHANGED pc /\ crash' = object

\* main waits here while the program runs: the keyboard's thread ends with Flag.
JoinCmd ==
    /\ Main("cmd", IF with.noAdapter THEN "temp" ELSE "disconnect") /\ Ended("cmd")
    /\ Flag' = FALSE
    /\ UNCHANGED <<with, made, dev, thread, crash>>

DisconnectModem ==
    /\ Call("disconnect", "modem", IF with.gpio THEN "gpioflag" ELSE "port")
    /\ UNCHANGED <<Flag, with, made, dev, thread>>

\* Mutant: the chip is closed under the thread that reads it.
CloseGpioAtOnce == Set("gpioflag", "gpioFlag", FALSE, "chip") \/ Set("chip", "chip", "closed", "port")
\* close_gpio: the flag, the thread, and then the chip.
CloseGpio == \/ Set("gpioflag", "gpioFlag", FALSE, "chip")
             \/ Ended("power") /\ Set("chip", "chip", "closed", "port")

\* stop_zdo: the port, the channels, thr_cmdin.  The Uart's threads are left to the
\* destructor.
StopZdo == \/ Set("port", "port", FALSE, "chans") \/ Set("chans", "chans", "stopped", "cmdin")
           \/ Join("cmdin", IF env.prometheus THEN "stopexposer" ELSE "temp")

StopExposer ==
    /\ Call("stopexposer", "exposer", "exposer")
    /\ dev' = [dev EXCEPT !.exFlag = FALSE]
    /\ late' = At("exposer", "start")
    /\ UNCHANGED <<Flag, with, made, thread>>

\* Mutant: Prometheus' thread is not waited for.
StopRestEarly ==
    \/ Set("exposer", "exFlag", FALSE, "temp") \/ Join("temp", "stophttp")
    \/ Join("http", "stoptlg") \/ Set("stoptlg", "tlgIn", "stopped", "tlg") \/ Join("tlg", "exited")
StopRest ==
    \/ Join("exposer", "temp") \/ Join("temp", "stophttp")
    \/ Join("http", "stoptlg") \/ Set("stoptlg", "tlgIn", "stopped", "tlg") \/ Join("tlg", "exited")

StopHttp ==
    /\ Call("stophttp", "http", "http")
    /\ dev' = [dev EXCEPT !.httpFlag = FALSE]
    /\ UNCHANGED <<Flag, with, made, thread>>

Stop == JoinCmd \/ DisconnectModem \/ CloseGpio \/ StopZdo \/ StopHttp \/ StopRest

MainSteps == (Start \/ StartNetwork \/ Stop) /\ UNCHANGED <<env, board, stimuli, late>>

-----------------------------------------------------------------------------
(* Signals, the keyboard and Telegram.                                     *)

\* SIGTERM, from the creation of App on.
Signal ==
    /\ Flag /\ Flag' = FALSE
    /\ UNCHANGED <<env, pc, with, made, dev, thread, board, crash, stimuli, late>>

Stimulus ==
    /\ keys < MaxKeys /\ keys' = keys + 1
    /\ early' = (early \/ pc \in Starting \ {"init", "network", "web"})
    /\ UNCHANGED <<env, pc, with, made, dev, late>>

Pressed == At("cmd", "select") /\ Stimulus

KeyQuit ==
    /\ Pressed /\ Flag' = FALSE /\ Goes("cmd", "done")
    /\ UNCHANGED <<board, crash>>

\* P and R look for a relay; j writes to the output channel.
KeyZigbee ==
    /\ Pressed
    /\ \E writes \in BOOLEAN :
        crash' = IF "zhub" \notin made \/ (writes /\ dev.chans = "none") THEN "zhub" ELSE crash
    /\ UNCHANGED <<Flag, thread, board>>

\* write_pin works on an open chip, fails without its flag, and dies otherwise.
PinDies == IF "gpio" \notin made THEN "gpio" ELSE IF dev.gpioFlag /\ dev.chip # "open" THEN "chip" ELSE "no"
PinWorks == dev.gpioFlag /\ dev.chip = "open"

\* F and f.
KeyFan ==
    /\ Pressed
    /\ crash' = PinDies
    /\ \E v \in {0, 1} : fan' = IF PinWorks THEN v ELSE fan
    /\ touched' = TRUE
    /\ UNCHANGED <<Flag, thread, high, readings, reading, band>>

\* /stat asks zhub.
TelegramMessage ==
    /\ At("tlg", "read") /\ dev.tlgIn = "open" /\ with.tlg /\ Stimulus
    /\ crash' = IF "zhub" \in made THEN "no" ELSE "zhub"
    /\ Goes("tlg", "look")
    /\ UNCHANGED <<Flag, board>>

-----------------------------------------------------------------------------
(* The threads.                                                            *)

CmdEnds == At("cmd", "select") /\ ~Flag /\ Goes("cmd", "done") /\ UNCHANGED <<made, dev, crash>>

\* Mutant: a stopped channel does not wake its reader.
TelegramLoopSleeps ==
    /\ At("tlg", "look") /\ Goes("tlg", IF Flag /\ with.tlg THEN "read" ELSE "done")
    /\ UNCHANGED <<made, dev, crash>>

\* App::handle: while (Flag && withTlg) tlgIn->read().
TelegramLoop ==
    /\ \/ At("tlg", "look") /\ Goes("tlg", IF Flag /\ with.tlg THEN "read" ELSE "done")
       \/ At("tlg", "read") /\ dev.tlgIn = "stopped" /\ Goes("tlg", "look")
    /\ UNCHANGED <<made, dev, crash>>

\* thr_cmdin: while (Flag) chan_in->read().
CmdinLoop ==
    /\ \/ At("cmdin", "look") /\ Goes("cmdin", IF Flag THEN "read" ELSE "done")
       \/ At("cmdin", "read") /\ dev.chans = "stopped" /\ Goes("cmdin", "look")
       \/ At("cmdin", "read") /\ At("uart", "write") /\ dev.chans = "open"
          /\ thread' = [thread EXCEPT !["cmdin"] = "look", !["uart"] = "wait"]
    /\ UNCHANGED <<made, dev, crash>>

\* Uart::loop: on a closed port waitReadable() is false, but read() throws, and the loop
\* lets it out of the thread.
UartLoop ==
    /\ \/ At("uart", "wait") /\ dev.port /\ Goes("uart", "read") /\ UNCHANGED crash
       \/ At("uart", "read") /\ dev.port /\ Goes("uart", "write") /\ UNCHANGED crash
       \/ At("uart", "read") /\ ~dev.port /\ crash' = "port" /\ UNCHANGED thread
    /\ UNCHANGED <<made, dev>>

\* exposer_handler: the object, start(), which sets the flag, and its loop.
ExposerLoop ==
    /\ \/ At("exposer", "make") /\ Goes("exposer", "start")
          /\ made' = made \cup {"exposer"} /\ UNCHANGED dev
       \/ At("exposer", "start") /\ dev' = [dev EXCEPT !.exFlag = TRUE] /\ UNCHANGED made
          /\ Goes("exposer", IF env.ports THEN "select" ELSE "done")
       \/ At("exposer", "select") /\ ~dev.exFlag /\ Goes("exposer", "done") /\ UNCHANGED <<made, dev>>
    /\ UNCHANGED crash

HttpEnds == At("http", "select") /\ ~dev.httpFlag /\ Goes("http", "done") /\ UNCHANGED <<made, dev, crash>>

\* power_detect reads pin 20; the messages it sends are left out.
PowerLoop ==
    /\ \/ At("power", "look") /\ Goes("power", IF dev.gpioFlag THEN "get" ELSE "done")
          /\ UNCHANGED crash
       \/ At("power", "get") /\ dev.chip = "open" /\ Goes("power", "look") /\ UNCHANGED crash
       \/ At("power", "get") /\ dev.chip # "open" /\ crash' = "chip" /\ UNCHANGED thread
    /\ UNCHANGED <<made, dev>>

ThreadSteps(t) ==
    /\ CASE t = "cmd" -> CmdEnds
         [] t = "tlg" -> TelegramLoop
         [] t = "cmdin" -> CmdinLoop
         [] t = "uart" -> UartLoop
         [] t = "exposer" -> ExposerLoop
         [] t = "power" -> PowerLoop
         [] t = "http" -> HttpEnds
         [] OTHER -> FALSE
    /\ UNCHANGED <<env, pc, Flag, with, board, stimuli, late>>

\* Mutant: it acts on every hot reading and forgets to act on the cold one.
NewBandHot(b) == b = "hot"
\* Above 70 degrees, or below 50 after that.
NewBand(b) == IF high THEN b = "cold" ELSE b = "hot"

\* Above 70 degrees, from 50 to 60, and below 50.  Between 60 and 70 nothing is done and
\* nothing is asked: these readings are left out.
Readings == {"hot", "mild", "cold"}
Extremes == {"hot", "cold"}

\* get_main_temperature: it acts on a new band, and on nothing between the two.
TempReads ==
    /\ At("temp", "look") /\ Flag /\ readings < MaxReadings
    /\ readings' = readings + 1
    /\ \E b \in Readings \ {reading} :
        /\ reading' = b
        /\ band' = IF b \in Extremes THEN b ELSE band
        /\ IF NewBand(b) THEN high' = (b = "hot") /\ Goes("temp", "pin") ELSE UNCHANGED <<high, thread>>
    /\ UNCHANGED <<fan, touched, crash>>

TempEnds ==
    /\ At("temp", "look") /\ ~Flag /\ Goes("temp", "done")
    /\ UNCHANGED <<board, crash>>

\* handle_board_temperature: write_pin tests its flag, and then uses the chip.
TempPin ==
    \/ /\ At("temp", "pin") /\ "gpio" \in made
       /\ Goes("temp", IF dev.gpioFlag THEN "write" ELSE "look")
       /\ touched' = (touched \/ ~dev.gpioFlag)
       /\ UNCHANGED <<high, fan, readings, reading, band, crash>>
    \/ /\ At("temp", "write") /\ dev.chip = "open"
       /\ fan' = (IF high THEN 1 ELSE 0) /\ touched' = FALSE /\ Goes("temp", "look")
       /\ UNCHANGED <<high, readings, reading, band, crash>>
    \/ /\ \/ At("temp", "pin") /\ "gpio" \notin made /\ crash' = "gpio"
          \/ At("temp", "write") /\ dev.chip # "open" /\ crash' = "chip"
       /\ UNCHANGED <<board, thread>>

BoardSteps(A) == A /\ UNCHANGED <<env, pc, Flag, with, made, dev, stimuli, late>>

-----------------------------------------------------------------------------
Init ==
    /\ env \in Environments
    /\ pc = "parse" /\ Flag = TRUE
    /\ with \in [tlg : {FALSE}, noAdapter : BOOLEAN, gpio : {FALSE}]
    /\ made = {} /\ thread = [t \in Threads |-> "none"]
    /\ dev = [port |-> FALSE, chans |-> "none", tlgIn |-> "none", chip |-> "none",
              gpioFlag |-> FALSE, exFlag |-> FALSE, httpFlag |-> FALSE]
    /\ high = FALSE /\ fan = 0 /\ touched = FALSE
    /\ reading = "cold" /\ band = "cold"
    /\ crash = "no" /\ keys = 0 /\ readings = 0 /\ early = FALSE /\ late = FALSE

Alive == crash = "no" /\ pc # "exited"

Stops == Alive /\ StopExposer /\ UNCHANGED <<env, board, stimuli>>
Mains == Alive /\ MainSteps
Runs(t) == Alive /\ ThreadSteps(t)
Boards == Alive /\ (BoardSteps(TempReads) \/ BoardSteps(TempEnds) \/ BoardSteps(TempPin))

Next ==
    \/ Mains \/ Stops \/ Boards
    \/ \E t \in Threads : Runs(t)
    \/ Alive /\ (Signal \/ KeyQuit \/ KeyZigbee \/ KeyFan \/ TelegramMessage)

\* main and the threads keep running; nothing makes the network come up, but an attempt
\* ends, and with Flag cleared there is no other one.
Fairness ==
    /\ WF_vars(Mains /\ (pc = "network" => ~Flag)) /\ WF_vars(Stops)
    /\ \A t \in Threads : WF_vars(Runs(t))
    /\ WF_vars(Alive /\ BoardSteps(TempEnds \/ TempPin))

Spec == Init /\ [][Next]_vars
FairSpec == Spec /\ Fairness

-----------------------------------------------------------------------------
Switches == [tlg : BOOLEAN, noAdapter : BOOLEAN, gpio : BOOLEAN]
Devices == [port : BOOLEAN, chans : {"none", "open", "stopped"}, tlgIn : {"none", "open", "stopped"},
            chip : {"none", "open", "closed"}, gpioFlag : BOOLEAN, exFlag : BOOLEAN, httpFlag : BOOLEAN]
Spots == {"none", "done", "look", "read", "write", "wait", "select", "make", "start", "get", "pin"}

\* Every variable keeps its type.
TypeOK ==
    /\ env \in Environments /\ pc \in Starting \cup Stopping \cup {"cmd", "exited"}
    /\ Flag \in BOOLEAN /\ with \in Switches
    /\ made \subseteq {"zhub", "modem", "gpio", "http", "exposer"}
    /\ dev \in Devices /\ thread \in [Threads -> Spots]
    /\ fan \in {0, 1} /\ high \in BOOLEAN /\ reading \in Readings /\ band \in Extremes
    /\ crash \in {"no", "zhub", "modem", "gpio", "http", "exposer", "chip", "port"}

\* A program that found all it was configured for does not die, at its start, at work or at
\* its end, except of a key or a message that came before the objects were there, and of
\* three races while it stops: Prometheus' thread that has not made its object, a byte
\* from the adapter as the port is closed, and the fan switched as the chip is.
CompleteProgramLives ==
    crash # "no" =>
        \/ ~env.config \/ env.tlg = "invalid" \/ ~env.adapter \/ env.gpio # "chip"
        \/ early
        \/ pc \in Stopping /\ (At("exposer", "make") \/ At("uart", "read") \/ At("temp", "write"))

\* When the program returns from stop_app none of its threads runs any more, but for those
\* of the Uart.
ExitsAlone == pc = "exited" => \A t \in Threads \ {"uart"} : Ended(t)

\* The fan blows on a board that was above 70 degrees and has not been below 50 since, and
\* on no other one, unless somebody switched it with a key, or it could not be switched.  (The
\* bounds are those of the code and of README.md:7; the comment at app.cpp:347 says 60 for 50.)
FanFollowsTemperature ==
    At("temp", "look") /\ ~touched => fan = IF band = "hot" THEN 1 ELSE 0

\* Once Flag is cleared stop_app comes to its end: no thread waits for one that waits for
\* it.  An exposer that starts after it was stopped never ends.
StopEnds == (~Flag /\ pc \notin {"parse", "create"}) ~> (pc = "exited" \/ crash # "no" \/ late)
=============================================================================
