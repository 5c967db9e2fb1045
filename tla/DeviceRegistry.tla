--------------------------- MODULE DeviceRegistry ---------------------------
(***************************************************************************)
(* The two maps of Controller: devices_ (IEEE address -> EndDevice, which  *)
(* holds the device's short address) and end_devices_address_map_ (short   *)
(* address -> IEEE address), the file they are loaded from, and the        *)
(* threads that use them: the main thread in getDevicesMapFromFile and the *)
(* pool workers in on_join and on_message.                                 *)
(*                                                                         *)
(* No lock protects the maps: join_device runs with norec = true, and the  *)
(* lock_guard of its `if (!norec)' would be released at once anyway.  Each *)
(* operation on a map or an EndDevice is one step here.  Operations that   *)
(* overlap in time are a data race in C++, whose outcomes are unbounded;   *)
(* the model covers the orders in which they do not overlap.               *)
(***************************************************************************)
EXTENDS Naturals, Sequences

CONSTANTS
    Macs,          \* IEEE addresses of the devices
    Addrs,         \* short addresses the network hands out
    Workers, Main, \* threads of the pool, the main thread
    Files,         \* contents the map file may have at the start
    NoMac,
    MaxFrames,     \* bound: frames that reach the pool
    MaxRestarts    \* bound: restarts of the program

ASSUME RegistryAssumption ==
    /\ Addrs \subseteq Nat \ {0}
    /\ Main \notin Workers /\ NoMac \notin Macs
    /\ Files \subseteq [Addrs -> Macs \cup {NoMac}]
    /\ MaxFrames \in Nat /\ MaxRestarts \in Nat

Threads == Workers \cup {Main}
NoAddr == 0
Empty == [a \in Addrs |-> NoMac]

VARIABLES
    netAddr,   \* external: the short address each device has in the network
    queue,     \* frames waiting in the pool
    frames,    \* auxiliary: frames so far
    devices,   \* devices_: the EndDevice's shortAddr_, NoAddr when absent
    inited,    \* EndDevice::init has run on the registered object
    addrMap,   \* end_devices_address_map_
    file,      \* the map file
    itemData,  \* entries of it that the main thread has still to join
    loaded,    \* getDevicesMapFromFile is finished
    ready,     \* isReady_
    pc, cur, old, mine,  \* each thread: place, frame, shortAddr, "created the object"
    restarts,  \* auxiliary: restarts so far
    orderly,   \* history, see below
    lastSeen   \* history: sender and registered device of the latest message

network  == <<netAddr, queue, frames>>
registry == <<devices, inited, addrMap>>
startup  == <<file, itemData, loaded, ready>>
local    == <<pc, cur, old, mine>>
history  == <<orderly, lastSeen>>
vars == <<network, registry, startup, local, restarts, history>>

NoFrame == [kind |-> "none", addr |-> NoAddr, mac |-> NoMac]
Frame(k, m) == [kind |-> k, addr |-> netAddr[m], mac |-> m]

Busy(t) == pc[t] # "idle"

-----------------------------------------------------------------------------
(* The network.  orderly is true at the start if the file names no device   *)
(* twice, and stays true while                                             *)
(*   - no device loses its address without announcing another one,         *)
(*   - no device announces itself before the file is loaded,               *)
(*   - no announcement is taken from the pool while a thread is busy,      *)
(*   - the program is not restarted.                                       *)

Send(f) ==
    /\ frames < MaxFrames
    /\ frames' = frames + 1
    /\ queue' = Append(queue, f)

\* A device joins, or is given another free address, and announces itself;
\* it may also announce the address it has.
Announce(m, a) ==
    /\ \A n \in Macs \ {m} : netAddr[n] # a
    /\ netAddr' = [netAddr EXCEPT ![m] = a]
    /\ Send([kind |-> "annce", addr |-> a, mac |-> m])
    /\ orderly' = (orderly /\ loaded)
    /\ UNCHANGED <<registry, startup, local, restarts, lastSeen>>

\* ZDO_LEAVE_IND: on_leave only prints a message.
Leave(m) ==
    /\ netAddr[m] # NoAddr
    /\ netAddr' = [netAddr EXCEPT ![m] = NoAddr]
    /\ orderly' = FALSE
    /\ UNCHANGED <<queue, frames, registry, startup, local, restarts, lastSeen>>

Report(m) ==
    /\ netAddr[m] # NoAddr
    /\ Send(Frame("message", m))
    /\ UNCHANGED <<netAddr, registry, startup, local, restarts, history>>

\* The adapter reports state 9 while startup() runs, before the file is read.
CoordinatorStarted ==
    /\ ~loaded
    /\ Send([kind |-> "state", addr |-> NoAddr, mac |-> NoMac])
    /\ UNCHANGED <<netAddr, registry, startup, local, restarts, history>>

-----------------------------------------------------------------------------
(* The steps of join_device(cur.addr, cur.mac), in any thread.             *)

Go(t, place) == pc' = [pc EXCEPT ![t] = place]

\* Mutant: the new object reaches the address map and not devices_.
FindDeviceSkipsCreate(t) ==
    /\ pc[t] = "find"
    /\ LET known == devices[cur[t].mac]
       IN /\ old' = [old EXCEPT ![t] = known]
          /\ Go(t, IF known = NoAddr THEN "insertnew"
                   ELSE IF known = cur[t].addr THEN "joined" ELSE "readdress")
    /\ UNCHANGED <<network, registry, startup, cur, mine, restarts, history>>

\* devices_.find, and the address of the object it found.
FindDevice(t) ==
    /\ pc[t] = "find"
    /\ LET known == devices[cur[t].mac]
       IN /\ old' = [old EXCEPT ![t] = known]
          /\ Go(t, IF known = NoAddr THEN "create"
                   ELSE IF known = cur[t].addr THEN "joined" ELSE "readdress")
    /\ UNCHANGED <<network, registry, startup, cur, mine, restarts, history>>

SetNetworkAddress(t) ==
    /\ pc[t] = "readdress"
    /\ devices' = [devices EXCEPT ![cur[t].mac] = cur[t].addr]
    /\ Go(t, "erase")
    /\ UNCHANGED <<network, inited, addrMap, startup, cur, old, mine, restarts, history>>

\* Mutant: the old address keeps its entry.
EraseOldForgotten(t) ==
    /\ pc[t] = "erase"
    /\ Go(t, "insert")
    /\ UNCHANGED <<network, registry, startup, cur, old, mine, restarts, history>>

EraseOld(t) ==
    /\ pc[t] = "erase"
    /\ addrMap' = [addrMap EXCEPT ![old[t]] = NoMac]
    /\ Go(t, "insert")
    /\ UNCHANGED <<network, devices, inited, startup, cur, old, mine, restarts, history>>

\* devices_.insert keeps the object of a thread that was faster.
InsertDevice(t) ==
    /\ pc[t] = "create"
    /\ LET m == cur[t].mac
       IN /\ mine' = [mine EXCEPT ![t] = devices[m] = NoAddr]
          /\ devices' = [devices EXCEPT ![m] = IF @ = NoAddr THEN cur[t].addr ELSE @]
    /\ Go(t, "insertnew")
    /\ UNCHANGED <<network, inited, addrMap, startup, cur, old, restarts, history>>

\* Mutant: the pair is inserted with the short address in both places.
InsertAddressSwapped(t) ==
    /\ pc[t] \in {"insert", "insertnew"}
    /\ addrMap' = [addrMap EXCEPT ![cur[t].addr] = cur[t].addr]
    /\ Go(t, IF pc[t] = "insert" THEN "joined" ELSE "init")
    /\ UNCHANGED <<network, devices, inited, startup, cur, old, mine, restarts, history>>

\* end_devices_address_map_.insert does not replace the owner of an address.
InsertAddress(t) ==
    /\ pc[t] \in {"insert", "insertnew"}
    /\ addrMap' = [addrMap EXCEPT ![cur[t].addr] = IF @ = NoMac THEN cur[t].mac ELSE @]
    /\ Go(t, IF pc[t] = "insert" THEN "joined" ELSE "init")
    /\ UNCHANGED <<network, devices, inited, startup, cur, old, mine, restarts, history>>

\* Mutant: a new object is never initialised.
InitDeviceForgotten(t) ==
    /\ pc[t] = "init"
    /\ Go(t, "joined")
    /\ UNCHANGED <<network, registry, startup, cur, old, mine, restarts, history>>

\* ed->init() on the object this thread created, registered or not.
InitDevice(t) ==
    /\ pc[t] = "init"
    /\ inited' = [inited EXCEPT ![cur[t].mac] = @ \/ mine[t]]
    /\ Go(t, "joined")
    /\ UNCHANGED <<network, devices, addrMap, startup, cur, old, mine, restarts, history>>

JoinStep(t) ==
    \/ FindDevice(t) \/ SetNetworkAddress(t) \/ EraseOld(t)
    \/ InsertDevice(t) \/ InsertAddress(t) \/ InitDevice(t)

\* setDevicesMapToFile has no caller that runs: both callers of join_device
\* pass or default norec to true.  on_join goes on to configure the device.
EndJoin(t) ==
    /\ pc[t] = "joined"
    /\ Go(t, "idle")
    /\ cur' = [cur EXCEPT ![t] = NoFrame]
    /\ UNCHANGED <<network, registry, startup, old, mine, restarts, history>>

-----------------------------------------------------------------------------
(* The workers.                                                            *)

Place(f) == CASE f.kind = "annce" -> "find" [] f.kind = "state" -> "state"
              [] OTHER -> "message"

GetCommand(w) ==
    /\ pc[w] = "idle" /\ queue # <<>>
    /\ cur' = [cur EXCEPT ![w] = Head(queue)]
    /\ queue' = Tail(queue)
    /\ Go(w, Place(Head(queue)))
    /\ orderly' = (orderly /\ (Head(queue).kind = "annce" =>
                                  \A t \in Threads : ~Busy(t)))
    /\ UNCHANGED <<netAddr, frames, registry, startup, old, mine, restarts, lastSeen>>

StateChange(w) ==
    /\ pc[w] = "state"
    /\ ready' = TRUE
    /\ Go(w, "idle")
    /\ cur' = [cur EXCEPT ![w] = NoFrame]
    /\ UNCHANGED <<network, registry, file, itemData, loaded, old, mine, restarts, history>>

\* get_device_by_short_addr: the device a short address stands for.
DeviceOf(a) == addrMap[a]

\* AF_INCOMING_MSG: dropped until isReady_, else handled for DeviceOf(address).
OnMessage(w) ==
    /\ pc[w] = "message"
    /\ lastSeen' = IF ready THEN <<cur[w].mac, DeviceOf(cur[w].addr)>> ELSE lastSeen
    /\ Go(w, "idle")
    /\ cur' = [cur EXCEPT ![w] = NoFrame]
    /\ UNCHANGED <<network, registry, startup, old, mine, restarts, orderly>>

-----------------------------------------------------------------------------
(* The main thread and the process.                                        *)

\* getDevicesMapFromFile joins the entries of the file in address order.
LoadNext ==
    /\ ~loaded /\ pc[Main] = "idle"
    /\ \E a \in Addrs :
        /\ itemData[a] # NoMac
        /\ \A b \in Addrs : itemData[b] # NoMac => a <= b
        /\ cur' = [cur EXCEPT ![Main] = [kind |-> "file", addr |-> a, mac |-> itemData[a]]]
        /\ itemData' = [itemData EXCEPT ![a] = NoMac]
    /\ Go(Main, "find")
    /\ UNCHANGED <<network, registry, file, loaded, ready, old, mine, restarts, history>>

Loaded ==
    /\ ~loaded /\ pc[Main] = "idle" /\ itemData = Empty
    /\ loaded' = TRUE /\ ready' = TRUE
    /\ UNCHANGED <<network, registry, file, itemData, local, restarts, history>>

\* The process ends and starts again: only the file is left.
Restart ==
    /\ restarts < MaxRestarts
    /\ restarts' = restarts + 1
    /\ queue' = <<>>
    /\ devices' = [m \in Macs |-> NoAddr]
    /\ inited' = [m \in Macs |-> FALSE]
    /\ addrMap' = Empty
    /\ itemData' = file
    /\ loaded' = FALSE /\ ready' = FALSE
    /\ pc' = [t \in Threads |-> "idle"]
    /\ cur' = [t \in Threads |-> NoFrame]
    /\ old' = [t \in Threads |-> NoAddr]
    /\ mine' = [t \in Threads |-> FALSE]
    /\ orderly' = FALSE
    /\ lastSeen' = <<>>
    /\ UNCHANGED <<netAddr, frames, file>>

-----------------------------------------------------------------------------
\* No device has two entries.
NamedOnce == \A a, b \in Addrs : file[a] = file[b] /\ file[a] # NoMac => a = b

\* At the first start the devices of the file have the addresses it names.
Init ==
    /\ file \in Files /\ itemData = file
    /\ netAddr = [m \in Macs |-> IF \E a \in Addrs : file[a] = m
                                 THEN CHOOSE a \in Addrs : file[a] = m ELSE NoAddr]
    /\ queue = <<>> /\ frames = 0 /\ restarts = 0
    /\ devices = [m \in Macs |-> NoAddr]
    /\ inited = [m \in Macs |-> FALSE]
    /\ addrMap = Empty
    /\ loaded = FALSE /\ ready = FALSE
    /\ pc = [t \in Threads |-> "idle"]
    /\ cur = [t \in Threads |-> NoFrame]
    /\ old = [t \in Threads |-> NoAddr]
    /\ mine = [t \in Threads |-> FALSE]
    /\ orderly = NamedOnce /\ lastSeen = <<>>

Network ==
    \/ \E m \in Macs : Leave(m) \/ Report(m) \/ \E a \in Addrs : Announce(m, a)
    \/ CoordinatorStarted

Next ==
    \/ Network
    \/ \E t \in Threads : JoinStep(t) \/ EndJoin(t)
    \/ \E w \in Workers : GetCommand(w) \/ StateChange(w) \/ OnMessage(w)
    \/ LoadNext \/ Loaded \/ Restart

Spec == Init /\ [][Next]_vars

-----------------------------------------------------------------------------
FrameKinds == {"none", "annce", "message", "state", "file"}
AllFrames == [kind : FrameKinds, addr : Addrs \cup {NoAddr}, mac : Macs \cup {NoMac}]

TypeOK ==
    /\ netAddr \in [Macs -> Addrs \cup {NoAddr}]
    /\ queue \in Seq(AllFrames)
    /\ frames \in 0..MaxFrames
    /\ devices \in [Macs -> Addrs \cup {NoAddr}]
    /\ inited \in [Macs -> BOOLEAN]
    /\ addrMap \in [Addrs -> Macs \cup {NoMac}]
    /\ file \in Files
    /\ itemData \in [Addrs -> Macs \cup {NoMac}]
    /\ loaded \in BOOLEAN /\ ready \in BOOLEAN /\ orderly \in BOOLEAN
    /\ pc \in [Threads -> {"idle", "find", "readdress", "erase", "create", "insert",
                           "insertnew", "init", "joined", "message", "state"}]
    /\ cur \in [Threads -> AllFrames]
    /\ old \in [Threads -> Addrs \cup {NoAddr}]
    /\ mine \in [Threads -> BOOLEAN]

\* devices_ is filled before the address map, in every thread and order: a
\* short address never stands for a device that devices_.at would not find.
AddressesResolve ==
    \A a \in Addrs : addrMap[a] # NoMac => devices[addrMap[a]] # NoAddr

\* A registered object whose init() has not run (its type is uninitialised, and
\* other threads can reach it) belongs to a join that is still going on.
HalfBuiltOnlyInJoin ==
    \A m \in Macs : devices[m] # NoAddr /\ ~inited[m] =>
        \E t \in Threads :
            cur[t].mac = m /\ mine[t] /\ pc[t] \in {"insertnew", "init"}

Quiescent ==
    /\ loaded
    /\ \A t \in Threads : ~Busy(t)
    /\ \A k \in 1..Len(queue) : queue[k].kind # "annce"

\* When every announcement has been handled in order, the registry is the
\* network: each device is known under its address, in both maps.
RegistryMatchesNetwork ==
    orderly /\ Quiescent =>
        \A m \in Macs : netAddr[m] # NoAddr =>
            /\ devices[m] = netAddr[m]
            /\ addrMap[netAddr[m]] = m

\* While things happen in order a message is never taken for another device's,
\* even if its sender uses an address another device had before.
MessageFromItsSender ==
    orderly /\ lastSeen # <<>> => lastSeen[2] \in {lastSeen[1], NoMac}
=============================================================================
