# Verification of zhub2

zhub2 is a home controller for a Zigbee network: a multi-threaded C++ program
that talks to a CC2531/CC2538 adapter over a serial port, keeps the registry of
the devices, applies the automation rules of one house (lights, leak guard,
absence timer), and is reached through Telegram, a GSM modem, the keyboard and a
small web server. This directory holds TLA+ models of its core, the TLC runs that
check them and TLAPS proofs about them. Source lines below are relative to the
repository.

## The system

| Part | State | Operations | Hard behaviour |
|---|---|---|---|
| Synchronous requests: `event_emitter.h`, `Zdo::syncRequest`, `Zdo::asyncRequest` | one `Event` and one argument per command identifier | clear, write to `chan_out`, wait; emit | callers share an event per identifier, late answers, a test and a read under different locks |
| Frame pipeline: `uart.cpp`, threads of `zdo.cpp` | serial buffer, `chan_in`, `chan_out`, the pool's queue, the command of each worker | parse, queue, take, handle, send | bounded channels; handlers wait in a worker for answers that need a worker; frames handled out of order |
| Device registry: `controller.cpp` | `devices_`, `end_devices_address_map_`, the map file, `isReady_` | join, leave, look-up, load | unlocked maps changed by the pool and the main thread, reused addresses, restart |
| Network start: `Controller::start_network`, `Zdo::reset`, NV items, `startup`, `registerEndpoint` | adapter configuration, `network_address_` | reset, read and write channels, start, register, retry every 10 s | time-outs at each request, partial failure, an unsolicited reset |
| Message handling: `Controller::on_message`, `cluster/`, `attribute.cpp` | the fields of an `EndDevice` | decode attributes, cast them, walk over strings of tags | bounds of the decoder, an exception at one attribute that takes the others with it |
| Automation rules: `zhub.cpp`, `controller.cpp` | motion states, relay states, `lastMotionSensorActivity`, the static flag of the absence timer | motion lights, absence timer, leak guard, door sensors, buttons, charger | rules run in several workers and read each other's sensors; a 120 s sleep in a worker; detached threads |
| GSM modem: `modem.cpp` | `is_call_`, `tone_cmd`, `balance_to_sms`, its own events | call, tone command, SMS, balance, battery | events named after commands, four commands that belong together, unsolicited lines between answers |
| Application: `app.cpp`, `main.cpp` | `Flag`, threads, `withTlg`, `noAdapter` | create, start, stop | threads started before their data, objects used before they are made and after they are closed |
| Board: `pi4-gpio.cpp`, temperature thread | the chip and its flag, `notify_high_send` | poll, switch the fan | the flag is tested in one thread while another one closes the chip |
| Web: `httpserver.cpp`, `http.cpp`, `exposer.cpp` | sockets and flags | accept, answer, stop | a stop that comes before the start |
| Serial port: `comport/`, `Uart::parseReceivedData` | file descriptor, buffer | open, read, parse, write | a read cuts a stream of frames anywhere; an exception ends the program |

They interact like this. `Uart::loop` reads frames and writes them to `chan_in`;
`thr_cmdin` moves them into the pool; a worker runs `Zdo::handle_command`, which
emits the event of a synchronous answer, or calls the registry (`on_join`,
`on_leave`) or the message handler and through it the rules. Rules and joins send
commands with `syncRequest`, in the same worker: a command goes to `chan_out`,
`Uart::snd_loop` sends it, and its answer comes back the same way. Timers,
Telegram, the modem and the web server call the same operations from their own
threads.

What makes each part correct:

- a request returns its own answer, or says that it has none, in bounded time;
- no frame is lost or handled twice between the serial port and a handler, and
  the pool never starves for ever;
- a message is taken for the device that sent it; both maps agree with the
  network once joins have settled; nobody sees a half-built device for ever;
- an attempt to start the network that meets no fault configures the adapter and
  succeeds, whatever earlier attempts left behind, and the retries end;
- a frame that arrives whole becomes the command that was sent, a damaged one none;
- the fields of a device are what it reported last, whatever else the message held;
- when all has settled the lights agree with the sensors, an empty house is dark,
  and each valve does what was asked for last;
- a command of the modem gets its own answer, the modem is back in text mode when
  it rests, and a call that was answered is heard;
- a complete program does not die of an object that is not there, `stop_app` ends,
  and leaves no thread behind.

`PROJECT.json` lists the hazards behind these at their lines.

## Modules

**SyncCall** says what a caller of `syncRequest` may rely on: a call returns
nullopt, or an answer that arrived for its identifier while it was open; only if
another thread called for the same identifier meanwhile, the empty command.

**SyncRequest** is `EventCommand` with its callers. `antiSpur` and `argument` are
`Event::antiSpur_` and `*Listener::argument`; a thread goes through
`ClearEvent` (zdo.cpp:864-865), `WriteRequest` (867), then `Awake` and
`ReadArgument`, or `TimeOut` (868 and event_emitter.h:72-86). `Emit` and `Clear`
hold `argument_mutex` throughout and are one step each. `wait` tests the flag
under the event's mutex and reads the argument under `argument_mutex`: two steps.
`Answer`, `SendFails` and `LoseAnswer` are the sending thread, the adapter and the
line. An answer carries, besides its identifier and status, the number of the
call it answers: the wire does not carry it, no guard reads it, and the
properties use it to tell whose answer was returned. A time-out may strike at
any moment. `heard`, `contended` and `quiet` are history.

**AdapterPipeline** composes it with the receiving side: `rx` (sent by the adapter,
not yet queued by `Uart::loop`), `chan_in`, `carried` (in the hands of `thr_cmdin`),
the queue `pool` and the `job` of each worker. It instantiates SyncRequest with the
set of answers anywhere on that path as its `wire`, and `ImplementsSyncRequest` says
that every behaviour is then one of SyncRequest: no queue loses, copies or invents
an answer. Handlers of messages make up to
`CallsPerMessage` requests and may stay in the worker for as long as they like
(`handle_motion` sleeps two minutes). As in SyncRequest a time-out may strike at any moment.

**DeviceRegistry** is `join_device` in the workers and in the loading main thread,
one step per operation on a map or on an `EndDevice`: `FindDevice`,
`SetNetworkAddress`, `EraseOld`, `InsertAddress`, or `InsertDevice`,
`InsertAddress`, `InitDevice`. Map presence and the object's `shortAddr_` are one
variable, `devices`, because both are set by the same insertion. `Announce`,
`Leave` and `Report` are the network, `LoadNext` and `Loaded` are
`getDevicesMapFromFile` and the end of `start_network`, `StateChange` is
`ZDO_STATE_CHANGE_IND`, `OnMessage` is the look-up of `on_message`, `Restart` loses all
but the file. The file never changes: nothing that runs calls
`setDevicesMapToFile`. `orderly` records whether all went in order since the start
(see the comment in the module); a file that names a device twice is not in order.

**NetworkStart** is `Zhub::start` with `Controller::start_network`. `pc` is the request the
main thread is at, from `STARTUP_OPTION` to `permitJoin`; `OnSuccess` and `OnFailure` are
the code's control flow, ignored results included; `GoOn` adds the comparison of the
channel lists and the dereference of a value that was not read (`crashed`, or any
list). A call is coarser here than in SyncRequest (one thread calls, so `wait` is not
torn), but keeps what matters to a sequence: one event for the five writes, one for
the two resets, answers handled out of order. The adapter keeps its channel list,
runs on the list of its last reset, and executes requests in order. The faults are
`Refuse`, `LoseRequest`, `LoseAnswer`, `TimeOutTooSoon` and `ResetsItself`, each counted. `clean`
is history: the attempt began with nothing under way, and no fault since.

**MotionLight** is the rules of `Zhub` that switch lights. A worker takes a frame (`Take`),
sets the state of its sensor (`Motion`) and then reads, in the code's order, the other
sensor and the last reported state of the relay (`Look`, `Corridor`, `Hall`, `Kitchen`); a
command goes through `Send` onto the `line`, where `Lose` may take it, and `Obey` switches the
`lamp` and makes it report. Unregistered devices are in `Registries`; the hall's rule and the
kitchen's each follow the pointer to their relay without asking whether it is there (`HasRelay`),
and a null one is the state `crashed`. `disordered`, `crossed` and `dark` are history.

**HouseGuard** is what follows every message: `Minute`, `Scan`, `Late`, `Claim` and `SwitchOff` are
`after_message_action` and `switch_off_with_timeout`, cut wherever another worker may change
`last`, `checked` or `off`; `Zone` and `Command` are the leak guard's detached threads, `Water` and
`WebLamp` the commands of the web page, `ChargerRule` the charger's plug. Time is in minutes.

**Modem** is `GsmModem` with its pool of two. A thread's `job` is what it has still to do: commands
that it sends and waits for (`Send`, `Woken`, `TimeOut`) and what it sets between them (`Effect`).
`WaitOf` and `EmitOf` are the names under which a command waits and its answer emits; they are
not always the same, and the answer to `AT+CLIP=1` emits none: it contains `+CLIP` and takes the
branch of an incoming call. `Ring`, `Tones`, `Message`, `Balance` and `Answer` are the branches of
`command_handler`; an executed tone code stays in `tone_cmd` until its execution has returned
(`ClearTones`). `Obey` is the modem itself: mode, prompt for a text, call, inbox.

**AppLifecycle** is `object_create`, `start_app` and `stop_app` as one list of places (`pc`) that `main`
goes through, with the eight threads beside it, each at the place where it looks at a flag or
waits. `env` is what is configured and found; `made` holds the pointers that are set. Use
of an object that is not there, or of a closed chip or port, ends the program and is
recorded in `crash`.

**SerialLink** is `SerialImpl::read` and `Uart::parseReceivedData`, byte for byte: a read takes any
part of the `line` (`Loop`), the parser walks over it, one action for each way through its loop
(`SkipByte`, `Break`, `SkipHead`, `Abort`, `Check`), and forgets it. Each byte knows the frame and
the place it was sent at, which no guard reads. Exclusive or is a constant, `ExclOr`, of which the
module assumes only that an operand is found again (`XorAssumption`); TLC evaluates the
assumption for the real one on all pairs of bytes. The names of the specification begin with `Link`
because its proofs share a module with those of AdapterPipeline.

**Reports** is `parseAttributesPayload` over the bytes of a message, one action for each way through its
loop (`SkipFailed`, `ParseStops`, `ParseThrows`, `ParseValue`), the handlers of eight clusters (`PassOver`,
`WrongCast`, `SetField`, `Handled`) and the three walks over strings of tags (`StartTags`, `HandleTag`,
`TagCut`, `EndTags`), with the exceptions at the level that catches them. A device may send what
`FromDevice` says: values as long as their types, an attribute once in a message, a failed read only in an
answer. `Says` is what a message says of a field, from what was sent and not from the bytes: the last of
its attributes, or of their tags, that says anything, if its type is the one its handler casts to
(`Expected`, see Divergences for the one that is wrong); a current says something if it is above the setter's limit (`Above`). `DeviceType` is the
device's type in the program's table: 11, the relay with two channels, whose second endpoint has
a state of its own, in the runs; the reports of motion sensors' ON_OFF are MotionLight's. It promises nothing after a message with a float of
16 bits, of which the program reads four bytes (attribute.cpp:250-254). The names of the specification
begin with `Report` because its proofs share a module with those of DeviceRegistry.

The theorems about a component are in a module of their own: **SyncRequestProofs**,
**AdapterPipelineProofs**, **DeviceRegistryProofs**, **NetworkStartProofs**, **MotionLightProofs**,
**HouseGuardProofs**, **ModemProofs** and **AppLifecycleProofs**; SerialLink's are in
AdapterPipelineProofs, those of Reports in DeviceRegistryProofs. The modules `MC...` give TLC its
constants and symmetry sets.

## Runs

| Run | Question | Bounds |
|---|---|---|
| `sync` | may a call return something it should not; does it return; do calls implement SyncCall | 2 threads, 2 identifiers, 3 calls, channel of 2 |
| `pipeline` | does the path lose, copy or invent answers; does the pool drain when handlers hold every worker | 2 workers, 1 other caller, 2 messages, 2 calls, channels of 1 |
| `registry` | do the maps stay consistent, and agree with the network when all goes in order | 2 devices, 2 addresses, 2 workers and the main thread, 3 frames, 1 restart |
| `start` | does an attempt without faults succeed and configure the adapter; do the retries end | 2 channel lists, 3 faults |
| `lights` | do the lights agree with the sensors once all has settled; do they go out | 2 workers, 4 reports of the corridor's sensors (others count twice), one device missing at most |
| `guard` | is the empty house dark and only the empty one; do the valves obey | 2 workers and the web server, 3 motions, or 2 leaks or web commands, 3 minutes |
| `guard_charger` | is the plug switched off after the charge (violated) | 1 worker, 2 currents |
| `modem` | whose answer is returned; modes, texts, balances and calls | 2 workers and a thread of the program, 3 events outside, 1 loss |
| `modem_hangup` | does the end of a call stop its tones (violated) | one call and its end |
| `life` | what can the program die of; does it end, and what is left; does the fan follow the board | every environment that lacks one thing at most, 1 key or message, 2 changes of temperature |
| `serial` | what does the parser take, lose and die of | 2 frames of 5 kinds, 1 damaged byte, longest payload 5, buffer of 12 |
| `reports` | is what is parsed what was sent; do the fields follow the reports | 2 messages of one or two attributes, of 8 clusters |

Why the bounds are enough: two threads and two calls give every way for one call
to disturb another, the third lets a late answer of the first meet a call of
another thread; a channel of one place is full as soon as it is used; two workers
are both held by two messages; two
devices and two addresses are what it takes for an address to pass from one device
to the other, three frames for an announcement each and a message after them, or
for two announcements of one device with another between them; three faults are
enough for an attempt to fail, leave an answer of its own behind, and lose the
request that would replace it. Four reports let the corridor's two sensors come and
go in two workers at once; three minutes hold a motion, an absence and its end, with
the code's 20 minutes as one; three events put a ring, tones and the end of a call, or a
balance and a request for another, into two workers. A buffer of twelve bytes holds one of
the longer frames and part of another, so that every cut of two frames happens; the longest
payload is five instead of 250, and the frames reach it; two damaged bytes were also tried, once, and
the run holds. Two messages are enough because a handler
keeps nothing between them but the fields.

Where two actors meet in a window that the code leaves open, the outcome is what the code does, and
most properties excuse it by a history variable (`orderly`, `clean`, `crossed`, `disordered`,
`touched`, `tangled`, `quiet`, `overlapped`, `doubled`, `eaten`, `late`). Such a property describes the
window, it does not forbid it: the notes in "hazards" say for each what is excused and what
remains checked.

Deadlock is not checked: with a bounded number of calls, messages and frames
every behaviour of the models ends, and the program waits for input there.

Fairness. `sync` assumes that `snd_loop` keeps reading `chan_out` and that a
thread which can go on in `syncRequest` does: these threads only block on the
channel and on the event, and the wait has a time-out. `pipeline` assumes
the same of the three receiving loops and of each worker. Neither assumes that
the adapter answers, that an answer survives, or that a message arrives.
`start` assumes that the main thread goes on (its waits have time-outs, its pause is
ten seconds), that the adapter executes what reaches it and that workers handle its
answers; losses are faults, whose number is bounded. `lights` assumes that each worker
goes on and that a command is delivered or lost. `life` assumes that main and each thread go
on when they can; of the network it assumes only that an attempt ends, so that main sees
a cleared `Flag`.

## Divergences

Two runs find what a comment excludes, see "findings" in PROJECT.json: the charger's plug
stays on (electrical_measurements.cpp:73, the flag is kept in the object of one report), and the
end of a call does not stop its tones (modem.cpp:219-220, `NO_CARRIER` for `NO CARRIER`).
Three more disagreements are modelled as the code has them; TLC found each with a property of its
own, from the comment, which is not kept as a run:

- modem.cpp:290 and 321-325: the first says its branch is for an incoming call, the second lists AT+CLIP
  among the answers to commands. The answer to the program's own `AT+CLIP=1` takes the first (288): a
  worker sends `ATH0` and clears `is_call_` before anybody has called, and `set_aon` waits in vain.
- attribute.h:133 says that the mains voltage is a uint16; power_configuration.cpp:43 casts it to uint8,
  and the exception ends its message (`Expected` leaves such messages out of `FieldsFollowReports`).
- app.cpp:347 says the fan goes off below 60 degrees; the code (app.cpp:364) waits for less than 50, as
  README.md:7 of the repository says (`FanFollowsTemperature` has the code's limits).

The other places where the code and its comments part are excused, each by name, in the
properties that hold:

- event_emitter.h:71 says `wait` returns the stored command or nullopt; with two callers of one
  identifier it may return `Command()` (`EmptyOnlyIfContended` says when), which
  `asyncRequest` takes for success.
- zdo.cpp:872 says `asyncRequest` waits for the confirmation of the command itself; it may get that of
  another one (`QuietCallGetsOwnAnswer` says when it does not).
- controller.h:56 calls the map pairs of addresses; two joins of one device at a time leave it two
  (`RegistryMatchesNetwork` is about announcements in order).
- zdo.cpp:407-408 says messages are ignored until the configuration is read; zdo.cpp:435 lets them in when
  the coordinator has started (`MessageFromItsSender` allows an unknown sender).
- controller.cpp:677 says the map file is written when a device joins; nothing that runs writes it.
- controller.cpp:760-762 says a join saves a reference in the map; `insert` does not replace the entry of
  a device that had the address (`orderly` turns false there).
- uart.cpp:136 lets through the length that command.h:116 asserts against (`ReaderDiesOnlyOf`).
- xiaomi.cpp:54-66 lists the tags 0c and 65; line 171 skips a tag without a case but not its value, and
  the walk goes on in the middle of it (`Plain` leaves such messages out).

## Proofs

Each theorem holds for every value of its module's constants that the named assumption
allows. An invariant that the runs check is seldom inductive; below is what had to be added,
because it says why the code works.

SyncRequest: any sets of threads and identifiers, any capacity, any bound on the number of calls,
from `CapAssumption` (a channel has room for at least one command) and `NotAnswers` (nullopt, the
empty command and the answers differ, which the types guarantee).

- `TypeCorrect`: the type invariant.
- `FreshResults`, `NoUncontendedEmpty`: `ResultInv` adds that an event is set exactly while it
  holds a command (`SetWithCommand`), that what an open call can find was heard during the
  call (`ArgumentHeard`), and that a woken caller finds the event still set unless another
  thread cleared it (`WokenSet`): the last is where the torn `wait` shows.
- `KeepsPromise`: SyncRequest implements SyncCall. A step maps to `Begin`, `Arrive`,
  `Return` or a stutter; the guard of `Return` is `ArgumentHeard` and `WokenSet`.
- `OwnAnswers`: while a call is quiet, every request and answer of its identifier
  under way, and the argument of its event, carry its number.

AdapterPipeline: any workers, other callers, frames and calls, from `PipelineAssumption` (the channels
and the pool's queue hold at least one item, the marks for nothing are no answers).

- `Refines` (`ImplementsSyncRequest`): the queues between the adapter and the pool are one queue,
  `Path`, whose head is what a worker takes and whose end is what the adapter sends; a move from
  one queue to the next leaves it as it is (`MovesKeepPath`). An answer leaves the set that is
  SyncRequest's `wire` only if no second copy of it is under way. That is `OnceInv`: the
  number of a call is held once, by its caller, by its request, or by an answer in one place.
- `RequestsThroughThePipeline`: with `Refines`, the theorems about SyncRequest hold of the
  pipeline.

DeviceRegistry: any devices, addresses, workers and files, from `RegistryAssumption` (short addresses are
positive, the main thread is not a worker, files name known devices, the bounds are natural).

- `TypeCorrect`: the invariant adds that a thread in `join_device`, and an announcement
  in the queue, name a device and an address.
- `AddressesAlwaysResolve`, `HalfBuiltHasBuilder`: `MapInv` adds that a joining thread past
  the search or the creation has its device registered (`Registered`), so that
  `InsertAddress` and `SetNetworkAddress` never refer to a device that is not there.
- `MapsFollowNetwork` (`RegistryMatchesNetwork`), `MessagesFromTheirSenders`: the argument goes by the
  table `K` that says under which address each device is known once the joins that have begun,
  and the entries of the file that are left, are done (`Replayed`). Ahead of it is the queue: its
  announcements, handled in order, lead from `K` to the network, each message comes from the
  device that is known under its address when its turn comes, and an address is free when it is
  announced (`Leads`). Behind it are the maps: every device that nobody is joining stands in both
  as `K` says (`Replays`), and one that is being joined is `Halfway`, place by place. `orderly`
  ends at a restart, so the theorem is about the time from a first start to the next one.

NetworkStart: any channels, sequences and bounds, from `StartAssumption` and `NoAnswerAssumption`.

- `StartConfigures`, `StartSucceeds`: `CleanInv` is about clean attempts only. There is
  one request, or one answer, or one event under way at a time (`OneAtATime`), and the adapter has
  kept what the requests before this one set (`Kept`); what earlier attempts left plays no part.

MotionLight: any number of workers and reports, from `LightAssumption`.

- All three follow the line to its end: `WillBe(r, v)` says that the last command to relay `r`, or its lamp if
  there is none, is `v`. `Order` says what `crossed` and `disordered` leave: rules of one source, or all of
  them, run one at a time, and the state of their sensor is the one they were called for.
- `KitchenLight` (`KitchenInv`): if its relay is registered, and unless a rule is due, the lamp will be what
  the sensor says.
- `CorridorDark`, `CorridorLit` (`DarkInv`, `LitInv`): the last of the two rules to store its sensor's state sees the
  other's, so that one of them switches off; with one rule at a time, none switches off the
  light of the other's motion (`HallWaits`).

HouseGuard: any number of workers and minutes, from `GuardAssumption`.

- `FlagIsForThisAbsence` (`OffMeansDone`), `NoMotionAtClaim` (`OnlyWhenNobodyMoves`): `TimerInv`. A worker that is past
  the look at the clock did so in this minute or the one before (`Clock`); a sensor that says
  motion has moved `last` since the last scan, or a scan is going on (`Seen`); and while `crossed` is
  false one worker is at it (`Alone`).
- `DarkAfterAbsence` (`EmptyHouseIsDark`): `LampInv`. After the lamps were switched off the lamp is off, or told to be,
  or the worker that knows that it is on is about to tell it.
- `WaterIsShut` (`LeakShutsWater`): `ZoneInv`. While no two commands overlap one list of devices is walked over, for
  what was asked for last (`OneList`); every device obeys, has missed its command, or has it on
  the way or ahead (`Reached`).

Modem: any number of workers and of the program's threads, from `ModemAssumption`. The jobs are
ends of a fixed set of lists (`Lists`), which is the type invariant and lets a proof ask what
follows a command (`Follows`) and what came before it (`Precedes`).

- `AnswersAreOwn` (`AnswerIsOwn`): during a quiet wait nothing in the pool or in a worker's hands brings the event,
  and on the line only the waiting thread's own command does (`AnswerInv`).
- `TextModeIsSetAgain` (`TextModeAtRest`): the commands on the line will leave the modem in text mode and without a
  prompt, or a thread has the command that does so still to send (`ModeInv`).
- `TextsAreIntact` (`TextsIntact`): on the line a text comes right after its `AT+CMGS`, in PDU mode, and nothing else
  does (`TextInv`).
- `BalanceIsTexted` (`BalanceTextedIfAsked`): `balance_to_sms` is set exactly while a balance that was asked for is
  owed or about to be texted, and its answer is due somewhere between the thread that asks and
  the worker that handles it (`BalanceInv`).
- `AnsweredCallsAreHeard` (`AnsweredCallIsHeard`): `CallInv`. The answer is waited for as long as its command is on the
  line, and while the call is active the flag is set, or about to be, or the call is being
  ended. The proof showed that an earlier form of the property was
  false in an instance larger than the run's: the ring of a refused call, handled late, sends an
  `ATH0` that the modem takes for the text of a message while another call is active. The
  property now leaves such calls out (`eaten`).

SerialLink: any frames the protocol allows, any sizes of buffer and payload, any number of damaged bytes,
from `SerialAssumption` (the longest payload and what damages a byte are bytes; the adapter
sends no payload longer than the longest) and `XorAssumption`. The proofs are in
AdapterPipelineProofs.

- `LinkTypeCorrect`: the types of its variables.
- What was read last and what is under way are one `stream`, in the order it was sent (`Sound`): a byte is
  followed by its frame's next, or, at the end of a frame, by the start of a later one. So a
  frame that is all in the buffer lies there in one piece (`WholeEnds`).
- `OnlySentIsParsed` (`ParsedAreSent`): a command is checked where the parser read it. If the frame's first two
  bytes are its own the parser reads all its other bytes in their places, and one of them that
  differs changes one side of the comparison and not the other (`FcsTells`), so that the check
  refuses it. Two damaged bytes may cancel each other; the property leaves them out.
- `NothingElseIsLost` (`LostOnlyIfOutOfStep`): `NeverInside`. While everything before it that looks like a start is in a
  frame that is all there, the parser is never inside such a frame: it comes to each at its
  first byte, and leaves it after its last one (`TurnNeverInside`).
- `NothingElseKillsTheReader` (`ReaderDiesOnlyOf`): in step, the length that the constructor's assertion fails on is
  the one that was sent.
- The check sum is a recursive function and a stream has any length. Where an induction is called for the
  proofs take the least counterexample (`Least`): the first place at which two check
  sums agree again, the first byte that is out of order.

Reports: any messages that a device may send, with any attributes, tags and values, from `ReportsAssumption`
(every message is `FromDevice`; the device's type is a number from 1 to 11; the bound is natural). The proofs are in DeviceRegistryProofs.

- A message is a sequence of pieces, and a string of tags another one. All that is used of the folds
  which join them is where the n-th piece begins and ends in the whole (`Flattened`); with it the
  walks go from piece to piece, and no induction is left but for that one lemma, which takes the
  least counterexample.
- `ParserReadsWhatWasSent` (`ParsedAreSent`), `ParserReadsAll` (`WholeMessageIsParsed`): `ParserInv`. The cursor is
  where an attribute ends, and the attributes before it whose read did not fail are the list.
  What a turn of the loop sees at such a place is the head and the value of the next attribute
  (`NextIsSeen`, `ExtentIs`), so that it ends where that one ends.
- `FieldsAreReported` (`FieldsFollowReports`): `FieldsInv`. What was reported last of a field is what the device
  has, or it is ahead: an attribute, or a tag of the string that is walked over, says it, nothing
  after that one says anything (`Ahead`, `AheadTags`), and AnalogInput's two locals are those of the
  attributes it has seen (`Locals`). The tables come in twice: what a handler casts to is read
  exactly (`ExactlyRead`), and a tag is as long as its case takes it for (`TagLengths`).

AppLifecycle: every environment, from `LifeAssumption` (environments are records of the right kind, the
bounds are natural).

- `TypeCorrect`: the types of its variables.
- `LeavesNothing` (`ExitsAlone`): `StopInv`. `Joined` lists, for each place of `stop_app`, the threads that were
  waited for; they cannot run again (`EndedStays`). `NotStarted` covers the joins that are left
  out: `noAdapter`, `withGpio` and the configuration say truly that the thread was never started.
- `FanFollows` (`FanFollowsTemperature`): `notify_high_send` is always the band of the last reading, so every new
  band is acted on, a reading between 50 and 60 degrees changes nothing, and between readings only a
  key switches the fan (`FanInv`).
- `CompleteLives` (`CompleteProgramLives`): `Built` says which objects are there at each place of main, `Opened` that
  port and chip are open until `stop_app` closes them, and the chip until after its poller has
  ended. What is left is the three races that the property names.

Only model-checked: liveness (`CallReturns`, `Drains`, `StartEnds`, `LightsGoOut`, `StopEnds`), which this prover
cannot do. Every invariant and action property that a passing run checks is a theorem.

## Not modelled

- Data races inside `std::map` and on plain variables: operations are ordered, at the grain of one
  variable.
- The short presses of buttons, which switch one relay each; Tuya, simple metering, time and RSSI, whose
  handlers log, or set what nothing reads; the tables of known devices.
- The texts of messages, pages and logs; `convert_sms`; the figures of the battery and of `/stat`.
- Termios settings, partial writes, sockets; the configuration file's syntax, and a malformed map file
  (`readMapFromFile` then uses variables that `fscanf` did not set).
- `init_adapter`'s reset on request of Telegram or the keyboard while the network starts; the
  configuration requests that `on_join` makes (they are the calls of a handler in AdapterPipeline).
- `gsb_utils` (channels, pool) and `telebot32`: submodules that are not in this tree,
  modelled as a bounded blocking queue and a queue with workers.

## Plan

1. A composition of DeviceRegistry and MotionLight: a sensor that re-joins under another address while
   its reports are in the pool.
2. The resets on request while the network starts.
3. Proofs of the safety half of `Drains` and `StopEnds`: in which states no thread can move.
