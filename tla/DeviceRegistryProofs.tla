------------------------ MODULE DeviceRegistryProofs ------------------------
(***************************************************************************)
(* TLAPS proofs about DeviceRegistry, for every set of devices, addresses, *)
(* workers and file contents; and about Reports, for every message that a  *)
(* device may send.                                                        *)
(***************************************************************************)
EXTENDS DeviceRegistry, Reports, SequenceTheorems, FiniteSetTheorems, WellFoundedInduction, TLAPS

JoinPlaces == {"find", "readdress", "erase", "create", "insert", "insertnew", "init", "joined"}

\* Every action, so that a step splits the same way in each proof.
LEMMA StepCases ==
    ASSUME [Next]_vars,
           NEW P,
           \A m \in Macs : Leave(m) => P,
           \A m \in Macs : Report(m) => P,
           \A m \in Macs, a \in Addrs : Announce(m, a) => P,
           CoordinatorStarted => P,
           \A t \in Threads : FindDevice(t) => P,
           \A t \in Threads : SetNetworkAddress(t) => P,
           \A t \in Threads : EraseOld(t) => P,
           \A t \in Threads : InsertDevice(t) => P,
           \A t \in Threads : InsertAddress(t) => P,
           \A t \in Threads : InitDevice(t) => P,
           \A t \in Threads : EndJoin(t) => P,
           \A w \in Workers : GetCommand(w) => P,
           \A w \in Workers : StateChange(w) => P,
           \A w \in Workers : OnMessage(w) => P,
           LoadNext => P, Loaded => P, Restart => P,
           UNCHANGED vars => P
    PROVE  P
  BY DEF Next, Network, JoinStep

-----------------------------------------------------------------------------
(* Types.  A thread in join_device has a device and an address in hand,    *)
(* and so has every announcement in the queue.                             *)

JoinFramesNamed ==
    /\ \A t \in Threads : pc[t] \in JoinPlaces =>
            cur[t].mac \in Macs /\ cur[t].addr \in Addrs
    /\ \A k \in 1..Len(queue) : queue[k].kind = "annce" =>
            queue[k].mac \in Macs /\ queue[k].addr \in Addrs

TypeInv == TypeOK /\ JoinFramesNamed

LEMMA TypeInit == Init => TypeInv
<1> SUFFICES ASSUME Init PROVE TypeInv
  OBVIOUS
<1> USE RegistryAssumption DEF Init, NoFrame, Empty, NoAddr
<1>1. file \in [Addrs -> Macs \cup {NoMac}]
  OBVIOUS
<1>2. netAddr \in [Macs -> Addrs \cup {NoAddr}]
  <2>1. \A m \in Macs : (\E a \in Addrs : file[a] = m) =>
            (CHOOSE a \in Addrs : file[a] = m) \in Addrs
    OBVIOUS
  <2> QED
    BY <2>1
<1>3. NoFrame \in AllFrames
  BY DEF AllFrames, FrameKinds
<1>4. /\ queue = <<>> /\ frames = 0 /\ loaded = FALSE /\ ready = FALSE
      /\ devices = [m \in Macs |-> NoAddr] /\ inited = [m \in Macs |-> FALSE]
      /\ addrMap = [a \in Addrs |-> NoMac] /\ file \in Files /\ itemData = file
      /\ pc = [t \in Threads |-> "idle"] /\ cur = [t \in Threads |-> NoFrame]
      /\ old = [t \in Threads |-> NoAddr] /\ mine = [t \in Threads |-> FALSE]
  BY Zenon
<1> HIDE DEF Init, NoFrame, Empty
<1>5. TypeOK
  <2>1. inited \in [Macs -> BOOLEAN] /\ mine \in [Threads -> BOOLEAN]
        /\ loaded \in BOOLEAN /\ ready \in BOOLEAN
    BY <1>4, Zenon
  <2>5. orderly \in BOOLEAN
    BY DEF Init, NamedOnce
  <2>2. queue \in Seq(AllFrames) /\ frames \in 0..MaxFrames
    BY <1>4
  <2>3. /\ devices \in [Macs -> Addrs \cup {NoAddr}]
        /\ old \in [Threads -> Addrs \cup {NoAddr}]
        /\ addrMap \in [Addrs -> Macs \cup {NoMac}]
    BY <1>4
  <2>4. cur \in [Threads -> AllFrames]
    BY <1>3, <1>4
  <2> QED
    BY <1>1, <1>2, <1>4, <2>1, <2>2, <2>3, <2>4, <2>5 DEF TypeOK
<1>6. JoinFramesNamed
  BY <1>4 DEF JoinFramesNamed, JoinPlaces
<1> QED
  BY <1>5, <1>6 DEF TypeInv

\* A frame at the end of the queue.
LEMMA AppendFrame ==
    ASSUME TypeInv, NEW f \in AllFrames, queue' = Append(queue, f),
           f.kind = "annce" => f.mac \in Macs /\ f.addr \in Addrs,
           UNCHANGED <<pc, cur>>
    PROVE  queue' \in Seq(AllFrames) /\ JoinFramesNamed'
<1>1. queue \in Seq(AllFrames) /\ queue' \in Seq(AllFrames)
  BY DEF TypeInv, TypeOK
<1>2. ASSUME NEW k \in 1..Len(queue'), queue'[k].kind = "annce"
      PROVE  queue'[k].mac \in Macs /\ queue'[k].addr \in Addrs
  <2>1. CASE k = Len(queue) + 1
    BY <1>1, <1>2, <2>1
  <2>2. CASE k \in 1..Len(queue)
    BY <1>1, <1>2, <2>2 DEF TypeInv, JoinFramesNamed
  <2> QED
    BY <1>1, <2>1, <2>2
<1> QED
  BY <1>1, <1>2 DEF TypeInv, JoinFramesNamed

\* The parts of TypeOK that the steps of joining threads disturb.
LEMMA TypeStep == TypeInv /\ [Next]_vars => TypeInv'
<1> SUFFICES ASSUME TypeInv, [Next]_vars PROVE TypeInv'
  OBVIOUS
<1> USE RegistryAssumption DEF TypeInv, NoAddr
<1> DEFINE Places == {"idle", "find", "readdress", "erase", "create", "insert",
                      "insertnew", "init", "joined", "message", "state"}
<1>0. NoFrame \in AllFrames /\ NoFrame.kind = "none"
  BY DEF AllFrames, FrameKinds, NoFrame
<1>1. ASSUME NEW m \in Macs, Leave(m) PROVE TypeInv'
  BY <1>1 DEF Leave, TypeOK, JoinFramesNamed, registry, startup, local
<1>2. ASSUME NEW m \in Macs, Report(m) PROVE TypeInv'
  <2>1. Frame("message", m) \in AllFrames /\ Frame("message", m).kind = "message"
    BY <1>2 DEF Report, Frame, AllFrames, FrameKinds, TypeOK
  <2>2. queue' = Append(queue, Frame("message", m)) /\ frames' = frames + 1 /\ frames < MaxFrames
    BY <1>2 DEF Report, Send
  <2>3. UNCHANGED <<netAddr, registry, startup, local, restarts, history>>
    BY <1>2, Zenon DEF Report
  <2>4. queue' \in Seq(AllFrames) /\ JoinFramesNamed'
    BY <2>1, <2>2, <2>3, AppendFrame DEF local
  <2> QED
    BY <2>2, <2>3, <2>4 DEF TypeOK, registry, startup, local, history
<1>3. ASSUME NEW m \in Macs, NEW a \in Addrs, Announce(m, a) PROVE TypeInv'
  <2> DEFINE f == [kind |-> "annce", addr |-> a, mac |-> m]
  <2>1. f \in AllFrames /\ f.mac \in Macs /\ f.addr \in Addrs
    BY DEF AllFrames, FrameKinds
  <2>2. queue' = Append(queue, f) /\ frames' = frames + 1 /\ frames < MaxFrames
    BY <1>3, Zenon DEF Announce, Send
  <2>3. netAddr' = [netAddr EXCEPT ![m] = a]
    BY <1>3, Zenon DEF Announce
  <2>4. UNCHANGED <<registry, startup, local, restarts>>
    BY <1>3, Zenon DEF Announce
  <2>5. orderly' \in BOOLEAN
    BY <1>3, Zenon DEF Announce
  <2> HIDE DEF f
  <2>6. queue' \in Seq(AllFrames) /\ JoinFramesNamed'
    BY <2>1, <2>2, <2>4, AppendFrame DEF local
  <2> QED
    BY <2>2, <2>3, <2>4, <2>5, <2>6 DEF TypeOK, registry, startup, local
<1>4. ASSUME CoordinatorStarted PROVE TypeInv'
  <2> DEFINE f == [kind |-> "state", addr |-> NoAddr, mac |-> NoMac]
  <2>1. f \in AllFrames /\ f.kind = "state"
    BY DEF AllFrames, FrameKinds
  <2>2. queue' = Append(queue, f) /\ frames' = frames + 1 /\ frames < MaxFrames
    BY <1>4 DEF CoordinatorStarted, Send
  <2>3. UNCHANGED <<netAddr, registry, startup, local, restarts, history>>
    BY <1>4, Zenon DEF CoordinatorStarted
  <2> HIDE DEF f
  <2>4. queue' \in Seq(AllFrames) /\ JoinFramesNamed'
    BY <2>1, <2>2, <2>3, AppendFrame DEF local
  <2> QED
    BY <2>2, <2>3, <2>4 DEF TypeOK, registry, startup, local, history
<1>5. ASSUME NEW t \in Threads, FindDevice(t) PROVE TypeInv'
  BY <1>5 DEF FindDevice, Go, TypeOK, JoinFramesNamed, JoinPlaces, network, registry, startup, history
<1>6. ASSUME NEW t \in Threads, SetNetworkAddress(t) PROVE TypeInv'
  BY <1>6 DEF SetNetworkAddress, Go, TypeOK, JoinFramesNamed, JoinPlaces, network, startup, history
<1>7. ASSUME NEW t \in Threads, EraseOld(t) PROVE TypeInv'
  BY <1>7 DEF EraseOld, Go, TypeOK, JoinFramesNamed, JoinPlaces, network, startup, history
<1>8. ASSUME NEW t \in Threads, InsertDevice(t) PROVE TypeInv'
  <2>1. /\ pc[t] = "create" /\ pc' = [pc EXCEPT ![t] = "insertnew"]
        /\ mine' = [mine EXCEPT ![t] = devices[cur[t].mac] = NoAddr]
        /\ devices' = [devices EXCEPT ![cur[t].mac] = IF @ = NoAddr THEN cur[t].addr ELSE @]
        /\ UNCHANGED <<network, inited, addrMap, startup, cur, old, restarts, history>>
    BY <1>8, Zenon DEF InsertDevice, Go
  <2>2. mine' \in [Threads -> BOOLEAN]
    BY <2>1, Zenon DEF TypeOK
  <2>3. devices' \in [Macs -> Addrs \cup {NoAddr}]
    BY <2>1 DEF TypeOK, JoinFramesNamed, JoinPlaces
  <2>4. pc' \in [Threads -> Places]
    BY <2>1 DEF TypeOK
  <2>5. UNCHANGED <<netAddr, queue, frames, inited, addrMap, file, itemData, loaded, ready,
                    cur, old, orderly>>
    BY <2>1 DEF network, startup, history
  <2>6. JoinFramesNamed'
    BY <2>1, <2>5 DEF TypeOK, JoinFramesNamed, JoinPlaces
  <2> QED
    BY <2>2, <2>3, <2>4, <2>5, <2>6 DEF TypeOK
<1>9. ASSUME NEW t \in Threads, InsertAddress(t) PROVE TypeInv'
  BY <1>9 DEF InsertAddress, Go, TypeOK, JoinFramesNamed, JoinPlaces, network, startup, history
<1>10. ASSUME NEW t \in Threads, InitDevice(t) PROVE TypeInv'
  <2>1. /\ pc[t] = "init" /\ pc' = [pc EXCEPT ![t] = "joined"]
        /\ inited' = [inited EXCEPT ![cur[t].mac] = @ \/ mine[t]]
        /\ UNCHANGED <<network, devices, addrMap, startup, cur, old, mine, restarts, history>>
    BY <1>10, Zenon DEF InitDevice, Go
  <2>2. inited' \in [Macs -> BOOLEAN]
    BY <2>1, Zenon DEF TypeOK
  <2>3. pc' \in [Threads -> Places]
    BY <2>1 DEF TypeOK
  <2>4. UNCHANGED <<netAddr, queue, frames, devices, addrMap, file, itemData, loaded, ready,
                    cur, old, mine, orderly>>
    BY <2>1 DEF network, startup, history
  <2>5. JoinFramesNamed'
    BY <2>1, <2>4 DEF TypeOK, JoinFramesNamed, JoinPlaces
  <2> QED
    BY <2>2, <2>3, <2>4, <2>5 DEF TypeOK
<1>11. ASSUME NEW t \in Threads, EndJoin(t) PROVE TypeInv'
  BY <1>0, <1>11 DEF EndJoin, Go, TypeOK, JoinFramesNamed, JoinPlaces, network, registry, startup, history
<1>12. ASSUME NEW w \in Workers, GetCommand(w) PROVE TypeInv'
  <2> w \in Threads
    BY DEF Threads
  <2> DEFINE f == Head(queue)
  <2>1. /\ queue # <<>> /\ queue' = Tail(queue)
        /\ cur' = [cur EXCEPT ![w] = f]
        /\ pc' = [pc EXCEPT ![w] = Place(f)]
        /\ UNCHANGED <<netAddr, frames, registry, startup, old, mine, restarts, lastSeen>>
    BY <1>12, Zenon DEF GetCommand, Go
  <2>2. orderly' \in BOOLEAN
    BY <1>12, Zenon DEF GetCommand
  <2>3. f = queue[1] /\ 1 \in 1..Len(queue) /\ f \in AllFrames
    BY <2>1 DEF TypeOK
  <2>4. /\ Place(f) \in Places
        /\ Place(f) \in JoinPlaces => f.kind = "annce"
    BY DEF Place, JoinPlaces
  <2>5. queue' \in Seq(AllFrames)
    BY <2>1 DEF TypeOK
  <2>6. \A k \in 1..Len(queue') : k + 1 \in 1..Len(queue) /\ queue'[k] = queue[k + 1]
    BY <2>1 DEF TypeOK
  <2>7. pc' \in [Threads -> Places] /\ cur' \in [Threads -> AllFrames]
    BY <2>1, <2>3, <2>4 DEF TypeOK
  <2> HIDE DEF f
  <2>8. JoinFramesNamed'
    <3>1. ASSUME NEW u \in Threads, pc'[u] \in JoinPlaces
          PROVE  cur'[u].mac \in Macs /\ cur'[u].addr \in Addrs
      BY <2>1, <2>3, <2>4, <3>1 DEF TypeOK, JoinFramesNamed
    <3>2. ASSUME NEW k \in 1..Len(queue'), queue'[k].kind = "annce"
          PROVE  queue'[k].mac \in Macs /\ queue'[k].addr \in Addrs
      BY <2>6, <3>2 DEF JoinFramesNamed
    <3> QED
      BY <3>1, <3>2 DEF JoinFramesNamed
  <2> QED
    BY <2>1, <2>2, <2>5, <2>7, <2>8 DEF TypeOK, registry, startup
<1>13. ASSUME NEW w \in Workers, StateChange(w) PROVE TypeInv'
  BY <1>0, <1>13 DEF StateChange, Go, Threads, TypeOK, JoinFramesNamed, JoinPlaces, network, registry, history
<1>14. ASSUME NEW w \in Workers, OnMessage(w) PROVE TypeInv'
  <2>1. /\ cur' = [cur EXCEPT ![w] = NoFrame] /\ pc' = [pc EXCEPT ![w] = "idle"]
        /\ UNCHANGED <<network, registry, startup, old, mine, restarts, orderly>>
    BY <1>14, Zenon DEF OnMessage, Go
  <2> QED
    BY <1>0, <2>1 DEF Threads, TypeOK, JoinFramesNamed, JoinPlaces, network, registry, startup
<1>15. ASSUME LoadNext PROVE TypeInv'
  <2>1. PICK a \in Addrs :
            /\ itemData[a] # NoMac
            /\ cur' = [cur EXCEPT ![Main] = [kind |-> "file", addr |-> a, mac |-> itemData[a]]]
            /\ itemData' = [itemData EXCEPT ![a] = NoMac]
    BY <1>15, Zenon DEF LoadNext
  <2>2. /\ pc' = [pc EXCEPT ![Main] = "find"]
        /\ UNCHANGED <<network, registry, file, loaded, ready, old, mine, restarts, history>>
    BY <1>15, Zenon DEF LoadNext, Go
  <2>3. itemData[a] \in Macs /\ Main \in Threads
    BY <2>1 DEF TypeOK, Threads
  <2>4. [kind |-> "file", addr |-> a, mac |-> itemData[a]] \in AllFrames
    BY <2>3 DEF AllFrames, FrameKinds
  <2>5. cur' \in [Threads -> AllFrames] /\ itemData' \in [Addrs -> Macs \cup {NoMac}]
        /\ pc' \in [Threads -> Places]
    BY <2>1, <2>2, <2>3, <2>4 DEF TypeOK
  <2>6. JoinFramesNamed'
    BY <2>1, <2>2, <2>3 DEF TypeOK, JoinFramesNamed, JoinPlaces, network
  <2> QED
    BY <2>2, <2>5, <2>6 DEF TypeOK, network, registry, history
<1>16. ASSUME Loaded PROVE TypeInv'
  BY <1>16 DEF Loaded, TypeOK, JoinFramesNamed, network, registry, local, history
<1>17. ASSUME Restart PROVE TypeInv'
  <2>1. /\ queue' = <<>> /\ itemData' = file
        /\ devices' = [m \in Macs |-> NoAddr] /\ inited' = [m \in Macs |-> FALSE]
        /\ addrMap' = [a \in Addrs |-> NoMac]
        /\ loaded' = FALSE /\ ready' = FALSE /\ orderly' = FALSE
        /\ pc' = [t \in Threads |-> "idle"] /\ cur' = [t \in Threads |-> NoFrame]
        /\ old' = [t \in Threads |-> NoAddr] /\ mine' = [t \in Threads |-> FALSE]
        /\ UNCHANGED <<netAddr, frames, file>>
    BY <1>17, Zenon DEF Restart, Empty
  <2>2. file \in [Addrs -> Macs \cup {NoMac}]
    BY DEF TypeOK
  <2>3. TypeOK'
    <3>1. inited' \in [Macs -> BOOLEAN] /\ mine' \in [Threads -> BOOLEAN]
          /\ loaded' \in BOOLEAN /\ ready' \in BOOLEAN /\ orderly' \in BOOLEAN
      BY <2>1, Zenon
    <3>2. queue' \in Seq(AllFrames)
      BY <2>1
    <3>3. /\ devices' \in [Macs -> Addrs \cup {NoAddr}]
          /\ old' \in [Threads -> Addrs \cup {NoAddr}]
          /\ addrMap' \in [Addrs -> Macs \cup {NoMac}]
      BY <2>1
    <3>4. cur' \in [Threads -> AllFrames]
      BY <1>0, <2>1
    <3> QED
      BY <2>1, <2>2, <3>1, <3>2, <3>3, <3>4 DEF TypeOK
  <2>4. JoinFramesNamed'
    BY <2>1 DEF JoinFramesNamed, JoinPlaces
  <2> QED
    BY <2>3, <2>4
<1>18. ASSUME UNCHANGED vars PROVE TypeInv'
  BY <1>18 DEF vars, TypeOK, JoinFramesNamed, network, registry, startup, local, history
<1> QED
  BY <1>1, <1>2, <1>3, <1>4, <1>5, <1>6, <1>7, <1>8, <1>9, <1>10, <1>11, <1>12, <1>13,
     <1>14, <1>15, <1>16, <1>17, <1>18, StepCases

\* The maps, the file, the queue and every thread's locals keep their types,
\* whatever the threads do to the maps.
THEOREM TypeCorrect == Spec => []TypeOK
BY TypeInit, TypeStep, PTL DEF Spec, TypeInv

-----------------------------------------------------------------------------
(* A device is in devices_ before any thread writes its address.           *)

\* Past find and create, a joining thread's device is registered.
Registered ==
    \A t \in Threads : pc[t] \in {"readdress", "erase", "insert", "insertnew", "init"} =>
        devices[cur[t].mac] # NoAddr

MapInv ==
    /\ TypeInv
    /\ Registered
    /\ AddressesResolve
    /\ HalfBuiltOnlyInJoin

LEMMA MapInit == Init => MapInv
BY TypeInit, RegistryAssumption
   DEF Init, MapInv, Registered, AddressesResolve, HalfBuiltOnlyInJoin, Empty

LEMMA MapStep == MapInv /\ [Next]_vars => MapInv'
<1> SUFFICES ASSUME MapInv, [Next]_vars PROVE MapInv'
  OBVIOUS
<1>0. TypeInv /\ TypeInv'
  BY TypeStep DEF MapInv
<1> USE RegistryAssumption DEF NoAddr, Registered, AddressesResolve, HalfBuiltOnlyInJoin
<1> DEFINE Rest == UNCHANGED <<devices, inited, addrMap, cur, mine>>
\* A thread that only changes its place, and not to one that needs a device.
<1>a. ASSUME NEW t \in Threads, NEW p, pc' = [pc EXCEPT ![t] = p], Rest,
             pc[t] \notin {"insertnew", "init"},
             p \in {"readdress", "erase", "insert", "insertnew", "init"} =>
                devices[cur[t].mac] # NoAddr
      PROVE  MapInv'
  BY <1>0, <1>a DEF MapInv, TypeInv, TypeOK
\* A thread that becomes idle or busy with another frame.
<1>b. ASSUME NEW t \in Threads, NEW p, NEW f, pc' = [pc EXCEPT ![t] = p],
             cur' = [cur EXCEPT ![t] = f], UNCHANGED <<devices, inited, addrMap, mine>>,
             pc[t] \notin {"insertnew", "init"},
             p \notin {"readdress", "erase", "insert", "insertnew", "init"}
      PROVE  MapInv'
  BY <1>0, <1>b DEF MapInv, TypeInv, TypeOK
<1>1. ASSUME NEW m \in Macs, Leave(m) PROVE MapInv'
  BY <1>0, <1>1 DEF Leave, MapInv, registry, local
<1>2. ASSUME NEW m \in Macs, Report(m) PROVE MapInv'
  BY <1>0, <1>2 DEF Report, MapInv, registry, local
<1>3. ASSUME NEW m \in Macs, NEW a \in Addrs, Announce(m, a) PROVE MapInv'
  <2>1. UNCHANGED <<registry, local>>
    BY <1>3, Zenon DEF Announce
  <2> QED
    BY <1>0, <2>1 DEF MapInv, registry, local
<1>4. ASSUME CoordinatorStarted PROVE MapInv'
  BY <1>0, <1>4 DEF CoordinatorStarted, MapInv, registry, local
<1>5. ASSUME NEW t \in Threads, FindDevice(t) PROVE MapInv'
  <2> DEFINE p == IF devices[cur[t].mac] = NoAddr THEN "create"
                  ELSE IF devices[cur[t].mac] = cur[t].addr THEN "joined" ELSE "readdress"
  <2>1. pc[t] = "find" /\ pc' = [pc EXCEPT ![t] = p] /\ Rest
    BY <1>5 DEF FindDevice, Go, registry
  <2> QED
    BY <1>a, <2>1
<1>6. ASSUME NEW t \in Threads, SetNetworkAddress(t) PROVE MapInv'
  <2>1. /\ pc[t] = "readdress" /\ pc' = [pc EXCEPT ![t] = "erase"]
        /\ devices' = [devices EXCEPT ![cur[t].mac] = cur[t].addr]
        /\ UNCHANGED <<inited, addrMap, cur, mine>>
    BY <1>6, Zenon DEF SetNetworkAddress, Go
  <2>2. cur[t].mac \in Macs /\ cur[t].addr \in Addrs
    BY <1>0, <2>1 DEF TypeInv, JoinFramesNamed, JoinPlaces
  <2>3. \A m \in Macs : devices'[m] # NoAddr <=> devices[m] # NoAddr
    BY <1>0, <2>1, <2>2 DEF MapInv, TypeInv, TypeOK
  <2>4. Registered' /\ AddressesResolve'
    BY <1>0, <2>1, <2>2, <2>3 DEF MapInv, TypeInv, TypeOK, JoinFramesNamed, JoinPlaces
  <2>5. HalfBuiltOnlyInJoin'
    BY <1>0, <2>1, <2>3 DEF MapInv, TypeInv, TypeOK
  <2> QED
    BY <1>0, <2>4, <2>5 DEF MapInv
<1>7. ASSUME NEW t \in Threads, EraseOld(t) PROVE MapInv'
  <2>1. /\ pc[t] = "erase" /\ pc' = [pc EXCEPT ![t] = "insert"]
        /\ addrMap' = [addrMap EXCEPT ![old[t]] = NoMac]
        /\ UNCHANGED <<devices, inited, cur, mine>>
    BY <1>7, Zenon DEF EraseOld, Go
  <2> QED
    BY <1>0, <2>1, SMTT(30) DEF MapInv, TypeInv, TypeOK
<1>8. ASSUME NEW t \in Threads, InsertDevice(t) PROVE MapInv'
  <2>1. /\ pc[t] = "create" /\ pc' = [pc EXCEPT ![t] = "insertnew"]
        /\ devices' = [devices EXCEPT ![cur[t].mac] = IF @ = NoAddr THEN cur[t].addr ELSE @]
        /\ UNCHANGED <<inited, addrMap, cur>>
    BY <1>8, Zenon DEF InsertDevice, Go
  <2>2. mine' = [mine EXCEPT ![t] = devices[cur[t].mac] = NoAddr]
    BY <1>8, Zenon DEF InsertDevice
  <2>3. cur[t].mac \in Macs /\ cur[t].addr \in Addrs
    BY <1>0, <2>1 DEF TypeInv, JoinFramesNamed, JoinPlaces
  <2>4. /\ devices'[cur[t].mac] # NoAddr
        /\ \A m \in Macs : devices[m] # NoAddr => devices'[m] # NoAddr
        /\ \A m \in Macs : devices'[m] # NoAddr => devices[m] # NoAddr \/ m = cur[t].mac
    BY <1>0, <2>1, <2>3 DEF TypeInv, TypeOK
  <2>5. Registered' /\ AddressesResolve'
    BY <1>0, <2>1, <2>3, <2>4 DEF MapInv, TypeInv, TypeOK, JoinFramesNamed, JoinPlaces
  <2>6. mine'[t] <=> devices[cur[t].mac] = NoAddr
    BY <1>0, <2>2, Zenon DEF TypeInv, TypeOK
  <2>7. \A u \in Threads : u # t => mine'[u] = mine[u] /\ pc'[u] = pc[u]
    BY <1>0, <2>1, <2>2, Zenon DEF TypeInv, TypeOK
  <2>8. HalfBuiltOnlyInJoin'
    <3> SUFFICES ASSUME NEW m \in Macs, devices'[m] # NoAddr, ~inited'[m]
                 PROVE  \E u \in Threads : cur'[u].mac = m /\ mine'[u]
                                          /\ pc'[u] \in {"insertnew", "init"}
      BY Zenon
    <3>1. CASE devices[m] # NoAddr
      <4>1. PICK u \in Threads : cur[u].mac = m /\ mine[u] /\ pc[u] \in {"insertnew", "init"}
        BY <2>1, <3>1 DEF MapInv
      <4>2. u # t
        BY <2>1, <4>1
      <4> QED
        BY <2>1, <2>7, <4>1, <4>2
    <3>2. CASE devices[m] = NoAddr
      <4>1. m = cur[t].mac /\ pc'[t] = "insertnew"
        BY <1>0, <2>1, <2>4, <3>2 DEF TypeInv, TypeOK
      <4> QED
        BY <2>1, <2>6, <3>2, <4>1
    <3> QED
      BY <3>1, <3>2
  <2> QED
    BY <1>0, <2>5, <2>8 DEF MapInv
<1>9. ASSUME NEW t \in Threads, InsertAddress(t) PROVE MapInv'
  <2> DEFINE p == IF pc[t] = "insert" THEN "joined" ELSE "init"
  <2>1. /\ pc[t] \in {"insert", "insertnew"} /\ pc' = [pc EXCEPT ![t] = p]
        /\ addrMap' = [addrMap EXCEPT ![cur[t].addr] = IF @ = NoMac THEN cur[t].mac ELSE @]
        /\ UNCHANGED <<devices, inited, cur, mine>>
    BY <1>9, Zenon DEF InsertAddress, Go
  <2>2. devices[cur[t].mac] # NoAddr /\ cur[t].mac \in Macs /\ cur[t].addr \in Addrs
    BY <1>0, <2>1 DEF MapInv, TypeInv, JoinFramesNamed, JoinPlaces
  <2>3. AddressesResolve'
    BY <1>0, <2>1, <2>2 DEF MapInv, TypeInv, TypeOK
  <2>4. \A u \in Threads : pc'[u] = IF u = t THEN p ELSE pc[u]
    BY <1>0, <2>1 DEF TypeInv, TypeOK
  <2>5. Registered'
    BY <2>1, <2>2, <2>4 DEF MapInv
  <2>6. \A u \in Threads : pc[u] \in {"insertnew", "init"} => pc'[u] \in {"insertnew", "init"}
    BY <2>1, <2>4
  <2>7. HalfBuiltOnlyInJoin'
    BY <2>1, <2>6 DEF MapInv
  <2> QED
    BY <1>0, <2>3, <2>5, <2>7 DEF MapInv
<1>10. ASSUME NEW t \in Threads, InitDevice(t) PROVE MapInv'
  <2>1. /\ pc[t] = "init" /\ pc' = [pc EXCEPT ![t] = "joined"]
        /\ inited' = [inited EXCEPT ![cur[t].mac] = @ \/ mine[t]]
        /\ UNCHANGED <<devices, addrMap, cur, mine>>
    BY <1>10, Zenon DEF InitDevice, Go
  <2>2. cur[t].mac \in Macs
    BY <1>0, <2>1 DEF TypeInv, JoinFramesNamed, JoinPlaces
  <2>3. /\ inited'[cur[t].mac] <=> (inited[cur[t].mac] \/ mine[t])
        /\ \A m \in Macs : m # cur[t].mac => inited'[m] = inited[m]
    BY <1>0, <2>1, <2>2, Zenon DEF TypeInv, TypeOK
  <2>4. \A u \in Threads : u # t => pc'[u] = pc[u]
    BY <1>0, <2>1 DEF TypeInv, TypeOK
  <2>5. Registered' /\ AddressesResolve'
    BY <1>0, <2>1, <2>4 DEF MapInv, TypeInv, TypeOK
  <2>6. HalfBuiltOnlyInJoin'
    <3> SUFFICES ASSUME NEW m \in Macs, devices'[m] # NoAddr, ~inited'[m]
                 PROVE  \E u \in Threads : cur'[u].mac = m /\ mine'[u]
                                          /\ pc'[u] \in {"insertnew", "init"}
      BY Zenon
    <3>1. ~inited[m] /\ (m = cur[t].mac => ~mine[t])
      BY <2>3
    <3>2. PICK u \in Threads : cur[u].mac = m /\ mine[u] /\ pc[u] \in {"insertnew", "init"}
      BY <2>1, <3>1 DEF MapInv
    <3>3. u # t
      BY <3>1, <3>2
    <3> QED
      BY <2>1, <2>4, <3>2, <3>3
  <2> QED
    BY <1>0, <2>5, <2>6 DEF MapInv
<1>11. ASSUME NEW t \in Threads, EndJoin(t) PROVE MapInv'
  <2>1. /\ pc[t] = "joined" /\ pc' = [pc EXCEPT ![t] = "idle"]
        /\ cur' = [cur EXCEPT ![t] = NoFrame] /\ UNCHANGED <<devices, inited, addrMap, mine>>
    BY <1>11, Zenon DEF EndJoin, Go, registry
  <2> QED
    BY <1>b, <2>1
<1>12. ASSUME NEW w \in Workers, GetCommand(w) PROVE MapInv'
  <2>1. /\ pc[w] = "idle" /\ pc' = [pc EXCEPT ![w] = Place(Head(queue))]
        /\ cur' = [cur EXCEPT ![w] = Head(queue)] /\ UNCHANGED <<devices, inited, addrMap, mine>>
    BY <1>12, Zenon DEF GetCommand, Go, registry
  <2>2. Place(Head(queue)) \in {"find", "state", "message"}
    BY DEF Place
  <2> QED
    BY <1>b, <2>1, <2>2 DEF Threads
<1>13. ASSUME NEW w \in Workers, StateChange(w) PROVE MapInv'
  <2>1. /\ pc[w] = "state" /\ pc' = [pc EXCEPT ![w] = "idle"]
        /\ cur' = [cur EXCEPT ![w] = NoFrame] /\ UNCHANGED <<devices, inited, addrMap, mine>>
    BY <1>13, Zenon DEF StateChange, Go, registry
  <2> QED
    BY <1>b, <2>1 DEF Threads
<1>14. ASSUME NEW w \in Workers, OnMessage(w) PROVE MapInv'
  <2>1. /\ pc[w] = "message" /\ pc' = [pc EXCEPT ![w] = "idle"]
        /\ cur' = [cur EXCEPT ![w] = NoFrame] /\ UNCHANGED <<devices, inited, addrMap, mine>>
    BY <1>14, Zenon DEF OnMessage, Go, registry
  <2> QED
    BY <1>b, <2>1 DEF Threads
<1>15. ASSUME LoadNext PROVE MapInv'
  <2>1. PICK a \in Addrs :
            cur' = [cur EXCEPT ![Main] = [kind |-> "file", addr |-> a, mac |-> itemData[a]]]
    BY <1>15, Zenon DEF LoadNext
  <2>2. /\ pc[Main] = "idle" /\ pc' = [pc EXCEPT ![Main] = "find"]
        /\ UNCHANGED <<devices, inited, addrMap, mine>>
    BY <1>15, Zenon DEF LoadNext, Go, registry
  <2> QED
    BY <1>b, <2>1, <2>2 DEF Threads
<1>16. ASSUME Loaded PROVE MapInv'
  BY <1>0, <1>16 DEF Loaded, MapInv, registry, local
<1>17. ASSUME Restart PROVE MapInv'
  <2>1. /\ devices' = [m \in Macs |-> NoAddr] /\ addrMap' = [a \in Addrs |-> NoMac]
        /\ pc' = [t \in Threads |-> "idle"]
    BY <1>17, Zenon DEF Restart, Empty
  <2> QED
    BY <1>0, <2>1 DEF MapInv
<1>18. ASSUME UNCHANGED vars PROVE MapInv'
  BY <1>0, <1>18 DEF vars, MapInv, registry, local
<1> QED
  BY <1>1, <1>2, <1>3, <1>4, <1>5, <1>6, <1>7, <1>8, <1>9, <1>10, <1>11, <1>12, <1>13,
     <1>14, <1>15, <1>16, <1>17, <1>18, StepCases

\* join_device fills devices_ before the address map, in every thread: a short
\* address always stands for a registered device.
THEOREM AddressesAlwaysResolve == Spec => []AddressesResolve
BY MapInit, MapStep, PTL DEF Spec, MapInv

\* Whoever inserted an object in devices_ is still on its way to init() it as
\* long as it is not initialised.
THEOREM HalfBuiltHasBuilder == Spec => []HalfBuiltOnlyInJoin
BY MapInit, MapStep, PTL DEF Spec, MapInv

-----------------------------------------------------------------------------
(* The registry is the network, some announcements late.  K says under     *)
(* which address each device is known once the joins that have begun, and  *)
(* the entries of the file, are finished; the announcements in the queue   *)
(* lead from K to the network.                                             *)

\* The k-th frame of q announces m under a, or under another address than a.
Announces(q, k, m, a) == q[k].kind = "annce" /\ q[k].mac = m /\ q[k].addr = a
Moves(q, k, m, a) == q[k].kind = "annce" /\ q[k].mac = m /\ q[k].addr # a

\* Once the frames before the k-th are handled m is known under a ...
Reaches(q, K, m, a, k) ==
    /\ K[m] # a => \E i \in 1..(k - 1) : Announces(q, i, m, a)
    /\ \A j \in 1..(k - 1) : Moves(q, j, m, a) => \E i \in (j + 1)..(k - 1) : Announces(q, i, m, a)

\* ... or it is not.
Frees(q, K, m, a, k) ==
    /\ K[m] = a => \E i \in 1..(k - 1) : Moves(q, i, m, a)
    /\ \A j \in 1..(k - 1) : Announces(q, j, m, a) => \E i \in (j + 1)..(k - 1) : Moves(q, i, m, a)

\* All the frames lead to the addresses N; a message comes from the device that is known
\* under its address when it is its turn, and an announcement finds its address free.
Leads(q, K, N) ==
    /\ \A m \in Macs : Reaches(q, K, m, N[m], Len(q) + 1)
    /\ \A k \in 1..Len(q) : q[k].kind = "message" => Reaches(q, K, q[k].mac, q[k].addr, k)
    /\ \A k \in 1..Len(q), m \in Macs : q[k].kind = "annce" /\ m # q[k].mac =>
            Frees(q, K, m, q[k].addr, k)

OneOwner(A) == \A m, n \in Macs : A[m] = A[n] /\ A[m] # NoAddr => m = n

\* What is known after the frame f.
After(K, f) == IF f.kind = "annce" THEN [K EXCEPT ![f.mac] = f.addr] ELSE K

Known == [Macs -> Addrs \cup {NoAddr}]

LEMMA ReachesFrees ==
    ASSUME NEW q, NEW K, NEW m, NEW a, NEW b, NEW k, a # b, Reaches(q, K, m, a, k)
    PROVE  Frees(q, K, m, b, k)
BY DEF Reaches, Frees, Announces, Moves

\* A frame at the end changes nothing for those before it,
LEMMA AppendKeeps ==
    ASSUME NEW q \in Seq(AllFrames), NEW f \in AllFrames, NEW K, NEW m, NEW a, NEW k \in 1..(Len(q) + 1)
    PROVE  /\ Reaches(q, K, m, a, k) => Reaches(Append(q, f), K, m, a, k)
           /\ Frees(q, K, m, a, k) => Frees(Append(q, f), K, m, a, k)
<1> DEFINE s == Append(q, f)
<1>1. \A i \in 1..(k - 1) : s[i] = q[i]
  BY AppendProperties
<1> HIDE DEF s
<1>2. \A i \in 1..(k - 1) : Announces(s, i, m, a) = Announces(q, i, m, a) /\ Moves(s, i, m, a) = Moves(q, i, m, a)
  BY <1>1 DEF Announces, Moves
<1>3. k \in Nat
  BY LenProperties
<1>4. \A j \in 1..(k - 1) : \A i \in (j + 1)..(k - 1) : i \in 1..(k - 1)
  BY <1>3
<1>5. Reaches(q, K, m, a, k) => Reaches(s, K, m, a, k)
  BY <1>2, <1>4 DEF Reaches
<1>6. Frees(q, K, m, a, k) => Frees(s, K, m, a, k)
  BY <1>2, <1>4 DEF Frees
<1> QED
  BY <1>5, <1>6 DEF s

\* nor for a device that it does not announce.
LEMMA AppendPasses ==
    ASSUME NEW q \in Seq(AllFrames), NEW f \in AllFrames, NEW K, NEW m, NEW a,
           f.kind = "annce" => f.mac # m, Reaches(q, K, m, a, Len(q) + 1)
    PROVE  Reaches(Append(q, f), K, m, a, Len(Append(q, f)) + 1)
<1> DEFINE s == Append(q, f)
           n == Len(q)
<1>1. n \in Nat /\ Len(s) = n + 1 /\ s[n + 1] = f /\ \A i \in 1..n : s[i] = q[i]
  BY AppendProperties, LenProperties
<1> HIDE DEF s, n
<1>2. \A i \in 1..n : Announces(s, i, m, a) = Announces(q, i, m, a) /\ Moves(s, i, m, a) = Moves(q, i, m, a)
  BY <1>1 DEF Announces, Moves
<1>3. ~Moves(s, n + 1, m, a)
  BY <1>1 DEF Moves
<1>4. /\ K[m] # a => \E i \in 1..n : Announces(q, i, m, a)
      /\ \A j \in 1..n : Moves(q, j, m, a) => \E i \in (j + 1)..n : Announces(q, i, m, a)
  BY <1>1 DEF Reaches, n
<1>5. K[m] # a => \E i \in 1..(n + 1) : Announces(s, i, m, a)
  BY <1>1, <1>2, <1>4
<1>6. ASSUME NEW j \in 1..(n + 1), Moves(s, j, m, a) PROVE \E i \in (j + 1)..(n + 1) : Announces(s, i, m, a)
  <2>1. j \in 1..n
    BY <1>1, <1>3, <1>6
  <2>2. PICK i \in (j + 1)..n : Announces(q, i, m, a)
    BY <1>2, <1>4, <1>6, <2>1
  <2>3. i \in 1..n /\ i \in (j + 1)..(n + 1)
    BY <1>1, <2>1
  <2> QED
    BY <1>2, <2>2, <2>3
<1>7. Len(s) + 1 - 1 = n + 1
  BY <1>1
<1> QED
  BY <1>5, <1>6, <1>7 DEF Reaches, s

\* An announcement at the end leads to its address.
LEMMA AppendAnnounces ==
    ASSUME NEW q \in Seq(AllFrames), NEW f \in AllFrames, NEW K, f.kind = "annce"
    PROVE  Reaches(Append(q, f), K, f.mac, f.addr, Len(Append(q, f)) + 1)
<1> DEFINE s == Append(q, f)
           n == Len(q)
<1>1. n \in Nat /\ Len(s) = n + 1 /\ s[n + 1] = f
  BY AppendProperties, LenProperties
<1> HIDE DEF s, n
<1>2. Announces(s, n + 1, f.mac, f.addr) /\ ~Moves(s, n + 1, f.mac, f.addr)
  BY <1>1 DEF Announces, Moves
<1>3. \A j \in 1..(n + 1) : Moves(s, j, f.mac, f.addr) => n + 1 \in (j + 1)..(n + 1)
  BY <1>1, <1>2
<1>4. Len(s) + 1 - 1 = n + 1 /\ n + 1 \in 1..(n + 1)
  BY <1>1
<1> QED
  BY <1>2, <1>3, <1>4 DEF Reaches, s

\* A frame taken from the queue,
LEMMA TailKeeps ==
    ASSUME NEW q \in Seq(AllFrames), q # <<>>, NEW K \in Known, NEW m \in Macs, NEW a,
           NEW k \in 1..Len(q), Head(q).kind = "annce" => Head(q).mac \in Macs
    PROVE  /\ Reaches(q, K, m, a, k + 1) => Reaches(Tail(q), After(K, Head(q)), m, a, k)
           /\ Frees(q, K, m, a, k + 1) => Frees(Tail(q), After(K, Head(q)), m, a, k)
<1> DEFINE s == Tail(q)
           L == After(K, Head(q))
<1>1. k \in Nat /\ Head(q) = q[1] /\ \A i \in 1..(k - 1) : s[i] = q[i + 1]
  BY HeadTailProperties, LenProperties
<1>2. IF q[1].kind = "annce" /\ q[1].mac = m THEN L[m] = q[1].addr ELSE L[m] = K[m]
  BY <1>1 DEF After, Known
<1> HIDE DEF s, L
<1>3. \A i \in 1..(k - 1) : /\ Announces(s, i, m, a) = Announces(q, i + 1, m, a)
                            /\ Moves(s, i, m, a) = Moves(q, i + 1, m, a)
  BY <1>1 DEF Announces, Moves
<1>4. \A i \in 1..k : i # 1 => i - 1 \in 1..(k - 1) /\ i - 1 + 1 = i
  BY <1>1
<1>5. \A j \in 1..(k - 1) : j + 1 \in 1..k /\ \A i \in (j + 1 + 1)..k : i \in 1..k /\ i # 1 /\ i - 1 \in (j + 1)..(k - 1)
  BY <1>1
<1>6. (k + 1) - 1 = k /\ \A i \in (1 + 1)..k : i \in 1..k /\ i # 1
  BY <1>1
<1>a. 1 \in 1..k
  BY <1>1
<1>7. ASSUME Reaches(q, K, m, a, k + 1) PROVE Reaches(s, L, m, a, k)
  <2>1. /\ K[m] # a => \E i \in 1..k : Announces(q, i, m, a)
        /\ \A j \in 1..k : Moves(q, j, m, a) => \E i \in (j + 1)..k : Announces(q, i, m, a)
    BY <1>6, <1>7 DEF Reaches
  <2>2. ASSUME L[m] # a PROVE \E i \in 1..(k - 1) : Announces(s, i, m, a)
    <3>1. CASE q[1].kind = "annce" /\ q[1].mac = m
      <4>1. Moves(q, 1, m, a)
        BY <1>2, <2>2, <3>1 DEF Moves
      <4>2. PICK i \in (1 + 1)..k : Announces(q, i, m, a)
        BY <1>a, <2>1, <4>1
      <4> QED
        BY <1>3, <1>4, <1>6, <4>2
    <3>2. CASE ~(q[1].kind = "annce" /\ q[1].mac = m)
      <4>1. PICK i \in 1..k : Announces(q, i, m, a)
        BY <1>2, <2>1, <2>2, <3>2
      <4>2. i # 1
        BY <3>2, <4>1 DEF Announces
      <4> QED
        BY <1>3, <1>4, <4>1, <4>2
    <3> QED
      BY <3>1, <3>2
  <2>3. ASSUME NEW j \in 1..(k - 1), Moves(s, j, m, a) PROVE \E i \in (j + 1)..(k - 1) : Announces(s, i, m, a)
    <3>1. PICK i \in (j + 1 + 1)..k : Announces(q, i, m, a)
      BY <1>3, <1>5, <2>1, <2>3
    <3> QED
      BY <1>3, <1>4, <1>5, <3>1
  <2> QED
    BY <2>2, <2>3 DEF Reaches
<1>8. ASSUME Frees(q, K, m, a, k + 1) PROVE Frees(s, L, m, a, k)
  <2>1. /\ K[m] = a => \E i \in 1..k : Moves(q, i, m, a)
        /\ \A j \in 1..k : Announces(q, j, m, a) => \E i \in (j + 1)..k : Moves(q, i, m, a)
    BY <1>6, <1>8 DEF Frees
  <2>2. ASSUME L[m] = a PROVE \E i \in 1..(k - 1) : Moves(s, i, m, a)
    <3>1. CASE q[1].kind = "annce" /\ q[1].mac = m
      <4>1. Announces(q, 1, m, a)
        BY <1>2, <2>2, <3>1 DEF Announces
      <4>2. PICK i \in (1 + 1)..k : Moves(q, i, m, a)
        BY <1>a, <2>1, <4>1
      <4> QED
        BY <1>3, <1>4, <1>6, <4>2
    <3>2. CASE ~(q[1].kind = "annce" /\ q[1].mac = m)
      <4>1. PICK i \in 1..k : Moves(q, i, m, a)
        BY <1>2, <2>1, <2>2, <3>2
      <4>2. i # 1
        BY <3>2, <4>1 DEF Moves
      <4> QED
        BY <1>3, <1>4, <4>1, <4>2
    <3> QED
      BY <3>1, <3>2
  <2>3. ASSUME NEW j \in 1..(k - 1), Announces(s, j, m, a) PROVE \E i \in (j + 1)..(k - 1) : Moves(s, i, m, a)
    <3>1. PICK i \in (j + 1 + 1)..k : Moves(q, i, m, a)
      BY <1>3, <1>5, <2>1, <2>3
    <3> QED
      BY <1>3, <1>4, <1>5, <3>1
  <2> QED
    BY <2>2, <2>3 DEF Frees
<1> QED
  BY <1>7, <1>8 DEF s, L

\* The queue's invariant follows each thing that may happen to the queue.
LEMMA AppendLeads ==
    ASSUME NEW q \in Seq(AllFrames), NEW f \in AllFrames, NEW K \in Known, NEW N \in Known,
           NEW M \in Known, Leads(q, K, N),
           f.kind = "annce" => /\ f.mac \in Macs /\ M = [N EXCEPT ![f.mac] = f.addr]
                               /\ \A m \in Macs \ {f.mac} : N[m] # f.addr,
           f.kind # "annce" => M = N,
           f.kind = "message" => f.mac \in Macs /\ f.addr = N[f.mac]
    PROVE  Leads(Append(q, f), K, M)
<1> DEFINE s == Append(q, f)
           n == Len(q)
<1>1. n \in Nat /\ Len(s) = n + 1 /\ s[n + 1] = f /\ \A i \in 1..n : s[i] = q[i]
  BY AppendProperties, LenProperties
<1>2. \A m \in Macs : Reaches(q, K, m, N[m], n + 1)
  BY DEF Leads
<1>3. ASSUME NEW m \in Macs PROVE Reaches(s, K, m, M[m], Len(s) + 1)
  <2>1. CASE f.kind = "annce" /\ f.mac = m
    BY <2>1, AppendAnnounces DEF Known
  <2>2. CASE ~(f.kind = "annce" /\ f.mac = m)
    <3>1. M[m] = N[m]
      BY <2>2 DEF Known
    <3> QED
      BY <1>2, <2>2, <3>1, AppendPasses
  <2> QED
    BY <2>1, <2>2
<1>4. ASSUME NEW k \in 1..Len(s), s[k].kind = "message" PROVE Reaches(s, K, s[k].mac, s[k].addr, k)
  <2>1. CASE k = n + 1
    <3>1. Reaches(q, K, f.mac, f.addr, n + 1) /\ n + 1 \in 1..(Len(q) + 1)
      BY <1>1, <1>2, <1>4, <2>1
    <3> QED
      BY <1>1, <2>1, <3>1, AppendKeeps
  <2>2. CASE k \in 1..n
    <3>1. Reaches(q, K, q[k].mac, q[k].addr, k) /\ k \in 1..(Len(q) + 1)
      BY <1>1, <1>4, <2>2 DEF Leads
    <3> QED
      BY <1>1, <2>2, <3>1, AppendKeeps
  <2> QED
    BY <1>1, <2>1, <2>2
<1>5. ASSUME NEW k \in 1..Len(s), NEW m \in Macs, s[k].kind = "annce", m # s[k].mac
      PROVE  Frees(s, K, m, s[k].addr, k)
  <2>1. CASE k = n + 1
    <3>1. Reaches(q, K, m, N[m], n + 1) /\ N[m] # f.addr /\ n + 1 \in 1..(Len(q) + 1)
      BY <1>1, <1>2, <1>5, <2>1
    <3>2. Frees(q, K, m, f.addr, n + 1)
      BY <3>1, ReachesFrees
    <3> QED
      BY <1>1, <2>1, <3>1, <3>2, AppendKeeps
  <2>2. CASE k \in 1..n
    <3>1. Frees(q, K, m, q[k].addr, k) /\ k \in 1..(Len(q) + 1)
      BY <1>1, <1>5, <2>2 DEF Leads
    <3> QED
      BY <1>1, <2>2, <3>1, AppendKeeps
  <2> QED
    BY <1>1, <2>1, <2>2
<1> HIDE DEF s, n
<1> QED
  BY <1>3, <1>4, <1>5 DEF Leads, s

LEMMA TailLeads ==
    ASSUME NEW q \in Seq(AllFrames), q # <<>>, NEW K \in Known, NEW N, Leads(q, K, N),
           \A k \in 1..Len(q) : q[k].kind \in {"annce", "message"} => q[k].mac \in Macs
    PROVE  Leads(Tail(q), After(K, Head(q)), N)
<1> DEFINE s == Tail(q)
           L == After(K, Head(q))
           n == Len(s)
<1>1. /\ n \in Nat /\ Len(q) = n + 1 /\ Head(q) = q[1]
      /\ \A i \in 1..n : s[i] = q[i + 1] /\ i + 1 \in 1..Len(q) /\ i \in 1..Len(q)
  BY HeadTailProperties, LenProperties
<1>2. Head(q).kind = "annce" => Head(q).mac \in Macs
  BY <1>1
<1>3. \A a : \A m \in Macs, k \in 1..Len(q) :
            /\ Reaches(q, K, m, a, k + 1) => Reaches(s, L, m, a, k)
            /\ Frees(q, K, m, a, k + 1) => Frees(s, L, m, a, k)
  BY <1>2, TailKeeps
<1> HIDE DEF s, n, L
<1>4. \A m \in Macs : Reaches(s, L, m, N[m], n + 1)
  <2>1. \A m \in Macs : Reaches(q, K, m, N[m], Len(q) + 1)
    BY DEF Leads
  <2>2. Len(q) \in 1..Len(q) /\ n + 1 = Len(q)
    BY <1>1
  <2> QED
    BY <1>3, <2>1, <2>2, Zenon
<1>5. \A k \in 1..n : s[k].kind = "message" => Reaches(s, L, s[k].mac, s[k].addr, k)
  <2> SUFFICES ASSUME NEW k \in 1..n, s[k].kind = "message" PROVE Reaches(s, L, s[k].mac, s[k].addr, k)
    OBVIOUS
  <2>1. s[k] = q[k + 1] /\ k + 1 \in 1..Len(q) /\ k \in 1..Len(q)
    BY <1>1
  <2>2. Reaches(q, K, q[k + 1].mac, q[k + 1].addr, k + 1) /\ q[k + 1].mac \in Macs
    BY <2>1 DEF Leads
  <2>3. Reaches(s, L, q[k + 1].mac, q[k + 1].addr, k)
    BY <1>3, <2>1, <2>2, Zenon
  <2> QED
    BY <2>1, <2>3, Zenon
<1>6. \A k \in 1..n, m \in Macs : s[k].kind = "annce" /\ m # s[k].mac => Frees(s, L, m, s[k].addr, k)
  <2> SUFFICES ASSUME NEW k \in 1..n, NEW m \in Macs, s[k].kind = "annce", m # s[k].mac
               PROVE  Frees(s, L, m, s[k].addr, k)
    OBVIOUS
  <2>1. s[k] = q[k + 1] /\ k + 1 \in 1..Len(q) /\ k \in 1..Len(q)
    BY <1>1
  <2>2. Frees(q, K, m, q[k + 1].addr, k + 1)
    BY <2>1 DEF Leads
  <2>3. Frees(s, L, m, q[k + 1].addr, k)
    BY <1>3, <2>1, <2>2, Zenon
  <2> QED
    BY <2>1, <2>3, Zenon
<1> QED
  BY <1>4, <1>5, <1>6 DEF Leads, s, n, L

\* What the head of the queue says holds of K already, or becomes so.
LEMMA HeadLeads ==
    ASSUME NEW q \in Seq(AllFrames), q # <<>>, NEW K \in Known, NEW N, Leads(q, K, N),
           Head(q).kind = "annce" => Head(q).mac \in Macs /\ Head(q).addr \in Addrs, OneOwner(K)
    PROVE  /\ After(K, Head(q)) \in Known /\ OneOwner(After(K, Head(q)))
           /\ Head(q).kind = "message" => K[Head(q).mac] = Head(q).addr
<1> DEFINE f == Head(q)
<1>1. f = q[1] /\ 1 \in 1..Len(q)
  BY HeadTailProperties, LenProperties, EmptySeq
<1>2. f.kind = "message" => K[f.mac] = f.addr
  BY <1>1 DEF Leads, Reaches
<1>3. ASSUME f.kind = "annce", NEW m \in Macs \ {f.mac} PROVE K[m] # f.addr
  <2>1. Frees(q, K, m, q[1].addr, 1)
    BY <1>1, <1>3 DEF Leads
  <2> QED
    BY <1>1, <2>1 DEF Frees
<1> HIDE DEF f
<1>4. After(K, f) \in Known /\ OneOwner(After(K, f))
  BY <1>3 DEF After, Known, OneOwner, f
<1> QED
  BY <1>2, <1>4 DEF f

Joining(t) == pc[t] \in JoinPlaces
Unmapped(m) == \A x \in Addrs : addrMap[x] # m
MappedAt(m, a) == \A x \in Addrs : addrMap[x] = m <=> x = a
InFile(m) == \E a \in Addrs : itemData[a] = m

\* What both maps say of a device that is being joined under a.
Halfway(t, m, a) ==
    /\ pc[t] = "find" => MappedAt(m, devices[m])
    /\ pc[t] \in {"create", "insertnew", "insert"} => Unmapped(m)
    /\ pc[t] = "create" => devices[m] = NoAddr
    /\ pc[t] \in {"readdress", "erase"} => old[t] \in Addrs \ {a} /\ MappedAt(m, old[t])
    /\ pc[t] = "readdress" => devices[m] = old[t]
    /\ pc[t] \in {"insertnew", "init", "erase", "insert", "joined"} => devices[m] = a
    /\ pc[t] \in {"init", "joined"} => MappedAt(m, a)

\* One thread joins at a time, and whatever it is not joining and has not yet to join from
\* the file is in both maps as K says.
Replays(K) ==
    /\ \A t, u \in Threads : Joining(t) /\ Joining(u) => t = u
    /\ \A t \in Threads : Joining(t) => /\ K[cur[t].mac] = cur[t].addr /\ ~InFile(cur[t].mac)
                                        /\ Halfway(t, cur[t].mac, cur[t].addr)
    /\ \A a \in Addrs : itemData[a] # NoMac =>
            K[itemData[a]] = a /\ devices[itemData[a]] = NoAddr /\ Unmapped(itemData[a])
    /\ \A m \in Macs : ~InFile(m) /\ (\A t \in Threads : Joining(t) => cur[t].mac # m) =>
            devices[m] = K[m] /\ MappedAt(m, K[m])

\* A message in a worker's hands comes from the device that is known under its address.
Held(K) == \A w \in Workers : pc[w] = "message" =>
                cur[w].mac \in Macs /\ cur[w].addr \in Addrs /\ K[cur[w].mac] = cur[w].addr

Loading ==
    /\ ~loaded => /\ \A k \in 1..Len(queue) : queue[k].kind # "annce"
                  /\ \A w \in Workers : ~Joining(w)
                  /\ pc[Main] \notin {"readdress", "erase", "insert"}
                  /\ pc[Main] = "find" => devices[cur[Main].mac] = NoAddr
    /\ loaded => itemData = Empty /\ pc[Main] = "idle"
    /\ pc[Main] \in JoinPlaces \cup {"idle"}

MessagesNamed ==
    \A k \in 1..Len(queue) :
        /\ queue[k].kind \in {"annce", "message", "state"}
        /\ queue[k].kind = "message" => queue[k].mac \in Macs /\ queue[k].addr \in Addrs

Replayed(K) == OneOwner(K) /\ Leads(queue, K, netAddr) /\ Replays(K) /\ Held(K)

OrderInv ==
    /\ TypeInv
    /\ orderly => /\ OneOwner(netAddr) /\ Loading /\ MessagesNamed /\ MessageFromItsSender
                  /\ \E K \in Known : Replayed(K)

LEMMA OrderInit == Init => OrderInv
<1> SUFFICES ASSUME Init, orderly
             PROVE  /\ OneOwner(netAddr) /\ Loading /\ MessagesNamed /\ MessageFromItsSender
                    /\ \E K \in Known : Replayed(K)
  BY TypeInit DEF OrderInv
<1> USE RegistryAssumption DEF NoAddr
<1>1. netAddr \in Known
  BY TypeInit DEF TypeInv, TypeOK, Known
<1>2. /\ queue = <<>> /\ loaded = FALSE /\ NamedOnce /\ lastSeen = <<>> /\ itemData = file
      /\ file \in [Addrs -> Macs \cup {NoMac}]
      /\ devices = [m \in Macs |-> NoAddr] /\ addrMap = [a \in Addrs |-> NoMac]
      /\ pc = [t \in Threads |-> "idle"]
      /\ netAddr = [m \in Macs |-> IF \E a \in Addrs : file[a] = m
                                   THEN CHOOSE a \in Addrs : file[a] = m ELSE NoAddr]
  BY DEF Init, Empty
<1>3. \A m \in Macs : IF InFile(m) THEN netAddr[m] \in Addrs /\ file[netAddr[m]] = m ELSE netAddr[m] = NoAddr
  BY <1>2 DEF InFile
<1>4. OneOwner(netAddr)
  BY <1>3 DEF OneOwner
<1>5. \A t \in Threads : pc[t] = "idle"
  BY <1>2
<1>6. Loading /\ MessagesNamed /\ MessageFromItsSender
  BY <1>2, <1>5 DEF Loading, MessagesNamed, MessageFromItsSender, Threads, Joining, JoinPlaces
<1>7. Leads(queue, netAddr, netAddr)
  BY <1>2 DEF Leads, Reaches
<1>8. Replays(netAddr) /\ Held(netAddr)
  <2>1. \A t \in Threads : ~Joining(t) /\ pc[t] # "message"
    BY <1>5 DEF Joining, JoinPlaces
  <2>2. ASSUME NEW a \in Addrs, itemData[a] # NoMac
        PROVE  netAddr[itemData[a]] = a /\ devices[itemData[a]] = NoAddr /\ Unmapped(itemData[a])
    BY <1>2, <1>3, <2>2 DEF Unmapped, NamedOnce, InFile
  <2>3. ASSUME NEW m \in Macs, ~InFile(m) PROVE devices[m] = netAddr[m] /\ MappedAt(m, netAddr[m])
    BY <1>2, <1>3, <2>3 DEF MappedAt
  <2> QED
    BY <2>1, <2>2, <2>3 DEF Replays, Held, Threads
<1> QED
  BY <1>1, <1>4, <1>6, <1>7, <1>8 DEF Replayed

\* A thread goes on with its join, and touches only its own device.
LEMMA JoinKeeps ==
    ASSUME NEW K, TypeInv, Replays(K), NEW t \in Threads, Joining(t), NEW p \in JoinPlaces,
           pc' = [pc EXCEPT ![t] = p], UNCHANGED <<cur, itemData>>,
           \A n \in Macs : n # cur[t].mac => /\ devices'[n] = devices[n]
                                             /\ \A x \in Addrs : addrMap'[x] = n <=> addrMap[x] = n,
           Halfway(t, cur[t].mac, cur[t].addr)'
    PROVE  Replays(K)'
<1> DEFINE m == cur[t].mac
<1>0. m \in Macs /\ itemData \in [Addrs -> Macs \cup {NoMac}] 
      /\ \A u \in Threads : pc'[u] = IF u = t THEN p ELSE pc[u]
  BY DEF TypeInv, TypeOK, JoinFramesNamed, Joining
<1>1. \A u \in Threads : (Joining(u) <=> u = t) /\ (Joining(u)' <=> u = t)
  BY <1>0 DEF Replays, Joining
<1>2. ~InFile(m) /\ K[m] = cur[t].addr
  BY DEF Replays
<1>3. \A n : InFile(n)' = InFile(n)
  BY DEF InFile
<1>4. \A n \in Macs \ {m} : /\ Unmapped(n) => Unmapped(n)'
                            /\ \A a : MappedAt(n, a) => MappedAt(n, a)'
  BY DEF Unmapped, MappedAt
<1>5. ASSUME NEW a \in Addrs, itemData'[a] # NoMac
      PROVE  K[itemData'[a]] = a /\ devices'[itemData'[a]] = NoAddr /\ Unmapped(itemData[a])'
  BY <1>0, <1>2, <1>4, <1>5 DEF Replays, InFile
<1>6. ASSUME NEW n \in Macs, ~InFile(n)', \A u \in Threads : Joining(u)' => cur'[u].mac # n
      PROVE  devices'[n] = K[n] /\ MappedAt(n, K[n])'
  BY <1>1, <1>3, <1>4, <1>6 DEF Replays
<1> QED
  BY <1>1, <1>2, <1>3, <1>5, <1>6 DEF Replays, Unmapped

LEMMA MainNamed == TypeInv => NoAddr \notin Addrs /\ Main \in Threads /\ \A w \in Workers : w \in Threads /\ w # Main
BY RegistryAssumption DEF Threads, NoAddr

\* Each step of join_device,
LEMMA ReplayJoinStep ==
    ASSUME NEW K \in Known, TypeInv, OneOwner(K), Replays(K), NEW t \in Threads, JoinStep(t)
    PROVE  Replays(K)'
<1> DEFINE m == cur[t].mac
           a == cur[t].addr
<1> USE MainNamed DEF Go
<1>0. Joining(t)
  BY DEF JoinStep, FindDevice, SetNetworkAddress, EraseOld, InsertDevice, InsertAddress, InitDevice,
         Joining, JoinPlaces
<1>1. m \in Macs /\ a \in Addrs /\ a # NoAddr /\ m # NoMac
  BY <1>0, RegistryAssumption DEF TypeInv, JoinFramesNamed, Joining
<1>2. K[m] = a /\ ~InFile(m) /\ Halfway(t, m, a)
  BY <1>0 DEF Replays
<1>3. /\ \A u \in Threads : \A p : pc' = [pc EXCEPT ![u] = p] => pc'[u] = p
      /\ devices \in [Macs -> Addrs \cup {NoAddr}] /\ addrMap \in [Addrs -> Macs \cup {NoMac}]
      /\ old \in [Threads -> Addrs \cup {NoAddr}]
  BY DEF TypeInv, TypeOK
<1> DEFINE Aside == \A n \in Macs : n # m => /\ devices'[n] = devices[n]
                                             /\ \A x \in Addrs : addrMap'[x] = n <=> addrMap[x] = n
<1>4. CASE FindDevice(t)
  <2> DEFINE p == IF devices[m] = NoAddr THEN "create" ELSE IF devices[m] = a THEN "joined" ELSE "readdress"
  <2>1. /\ pc[t] = "find" /\ pc' = [pc EXCEPT ![t] = p] /\ old' = [old EXCEPT ![t] = devices[m]]
        /\ UNCHANGED <<cur, itemData, devices, addrMap>>
    BY <1>4, Zenon DEF FindDevice, registry, startup
  <2>2. pc'[t] = p /\ p \in JoinPlaces /\ old'[t] = devices[m] /\ MappedAt(m, devices[m])
    BY <1>2, <1>3, <2>1 DEF JoinPlaces, Halfway
  <2>3. Halfway(t, m, a)'
    BY <1>1, <1>3, <2>1, <2>2 DEF Halfway, MappedAt, Unmapped
  <2> QED
    BY <1>0, <2>1, <2>2, <2>3, JoinKeeps
<1>5. CASE SetNetworkAddress(t)
  <2>1. /\ pc[t] = "readdress" /\ pc' = [pc EXCEPT ![t] = "erase"] /\ "erase" \in JoinPlaces
        /\ devices' = [devices EXCEPT ![m] = a] /\ UNCHANGED <<cur, itemData, old, addrMap>>
    BY <1>5 DEF SetNetworkAddress, startup, JoinPlaces
  <2>2. pc'[t] = "erase" /\ devices'[m] = a /\ Aside
    BY <1>1, <1>3, <2>1
  <2>3. Halfway(t, m, a)'
    BY <1>2, <2>1, <2>2 DEF Halfway, MappedAt, Unmapped
  <2> QED
    BY <1>0, <2>1, <2>2, <2>3, JoinKeeps
<1>6. CASE EraseOld(t)
  <2>1. /\ pc[t] = "erase" /\ pc' = [pc EXCEPT ![t] = "insert"] /\ "insert" \in JoinPlaces
        /\ addrMap' = [addrMap EXCEPT ![old[t]] = NoMac] /\ UNCHANGED <<cur, itemData, old, devices>>
    BY <1>6 DEF EraseOld, startup, JoinPlaces
  <2>2. pc'[t] = "insert" /\ old[t] \in Addrs /\ devices[m] = a /\ MappedAt(m, old[t])
    BY <1>2, <1>3, <2>1 DEF Halfway
  <2>3. Aside /\ \A x \in Addrs : addrMap'[x] # m
    BY <1>1, <1>3, <2>1, <2>2, RegistryAssumption DEF MappedAt
  <2>4. Halfway(t, m, a)'
    BY <2>1, <2>2, <2>3 DEF Halfway, Unmapped
  <2> QED
    BY <1>0, <2>1, <2>3, <2>4, JoinKeeps
<1>7. CASE InsertDevice(t)
  <2>1. /\ pc[t] = "create" /\ pc' = [pc EXCEPT ![t] = "insertnew"] /\ "insertnew" \in JoinPlaces
        /\ devices' = [devices EXCEPT ![m] = IF @ = NoAddr THEN a ELSE @]
        /\ UNCHANGED <<cur, itemData, old, addrMap>>
    BY <1>7 DEF InsertDevice, startup, JoinPlaces
  <2>2. pc'[t] = "insertnew" /\ devices'[m] = a /\ Aside /\ Unmapped(m)
    BY <1>1, <1>2, <1>3, <2>1 DEF Halfway
  <2>3. Halfway(t, m, a)'
    BY <2>1, <2>2 DEF Halfway, Unmapped
  <2> QED
    BY <1>0, <2>1, <2>2, <2>3, JoinKeeps
<1>8. CASE InsertAddress(t)
  <2> DEFINE p == IF pc[t] = "insert" THEN "joined" ELSE "init"
  <2>1. /\ pc[t] \in {"insert", "insertnew"} /\ pc' = [pc EXCEPT ![t] = p] /\ p \in JoinPlaces
        /\ addrMap' = [addrMap EXCEPT ![a] = IF @ = NoMac THEN m ELSE @]
        /\ UNCHANGED <<cur, itemData, old, devices>>
    BY <1>8 DEF InsertAddress, startup, JoinPlaces
  <2>2. pc'[t] = p /\ Unmapped(m) /\ devices[m] = a
    BY <1>2, <1>3, <2>1 DEF Halfway
  <2>3. addrMap[a] = NoMac
    <3> SUFFICES ASSUME NEW n \in Macs, addrMap[a] = n PROVE FALSE
      BY <1>1, <1>3
    <3>1. n # m
      BY <1>1, <2>2 DEF Unmapped
    <3>2. \A u \in Threads : Joining(u) => cur[u].mac # n
      BY <1>0, <3>1 DEF Replays
    <3>3. ~InFile(n)
      BY <1>1, RegistryAssumption DEF Replays, InFile, Unmapped
    <3>4. MappedAt(n, K[n])
      BY <3>2, <3>3 DEF Replays
    <3>5. K[n] = a
      BY <1>1, <3>4 DEF MappedAt
    <3> QED
      BY <1>1, <1>2, <3>1, <3>5 DEF OneOwner
  <2>4. Aside /\ \A x \in Addrs : addrMap'[x] = m <=> x = a
    BY <1>1, <1>3, <2>1, <2>2, <2>3, RegistryAssumption DEF Unmapped
  <2>5. Halfway(t, m, a)'
    BY <2>1, <2>2, <2>4 DEF Halfway, MappedAt
  <2> QED
    BY <1>0, <2>1, <2>4, <2>5, JoinKeeps
<1>9. CASE InitDevice(t)
  <2>1. /\ pc[t] = "init" /\ pc' = [pc EXCEPT ![t] = "joined"] /\ "joined" \in JoinPlaces
    BY <1>9 DEF InitDevice, JoinPlaces
  <2>2. UNCHANGED <<cur, itemData, old, devices, addrMap>>
    BY <1>9, Zenon DEF InitDevice, startup
  <2>3. pc'[t] = "joined" /\ devices[m] = a /\ MappedAt(m, a)
    BY <1>2, <1>3, <2>1 DEF Halfway
  <2>4. Halfway(t, m, a)'
    BY <2>2, <2>3 DEF Halfway, MappedAt
  <2> QED
    BY <1>0, <2>1, <2>2, <2>4, JoinKeeps
<1> QED
  BY <1>4, <1>5, <1>6, <1>7, <1>8, <1>9 DEF JoinStep

\* its end,
LEMMA ReplayEndJoin ==
    ASSUME NEW K \in Known, TypeInv, Replays(K), NEW t \in Threads, EndJoin(t)
    PROVE  Replays(K)'
<1> DEFINE m == cur[t].mac
<1>1. /\ pc[t] = "joined" /\ pc' = [pc EXCEPT ![t] = "idle"] /\ cur' = [cur EXCEPT ![t] = NoFrame]
      /\ UNCHANGED <<devices, addrMap, itemData>>
  BY DEF EndJoin, Go, registry, startup
<1>2. Joining(t) /\ m \in Macs
  BY <1>1 DEF TypeInv, JoinFramesNamed, Joining, JoinPlaces
<1>3. \A u \in Threads : (Joining(u) <=> u = t) /\ ~Joining(u)'
  BY <1>1, <1>2 DEF Replays, Joining, JoinPlaces, TypeInv, TypeOK
<1>4. \A n : InFile(n)' = InFile(n) /\ Unmapped(n)' = Unmapped(n) /\ \A a : MappedAt(n, a)' = MappedAt(n, a)
  BY <1>1 DEF InFile, Unmapped, MappedAt
<1>5. devices[m] = K[m] /\ MappedAt(m, K[m])
  BY <1>1, <1>2 DEF Replays, Halfway
<1>6. \A n \in Macs : ~InFile(n) => devices[n] = K[n] /\ MappedAt(n, K[n])
  BY <1>3, <1>5 DEF Replays
<1>7. \A a \in Addrs : itemData'[a] # NoMac =>
            K[itemData'[a]] = a /\ devices'[itemData'[a]] = NoAddr /\ Unmapped(itemData[a])'
  BY <1>1, <1>4 DEF Replays
<1> QED
  BY <1>1, <1>3, <1>4, <1>6, <1>7 DEF Replays, Unmapped

\* and its begin, with an entry of the file
LEMMA ReplayLoadNext ==
    ASSUME NEW K \in Known, TypeInv, Replays(K), Loading, LoadNext
    PROVE  Replays(K)' /\ devices[cur'[Main].mac] = NoAddr
<1> USE RegistryAssumption, MainNamed
<1>1. PICK a \in Addrs :
            /\ itemData[a] # NoMac
            /\ cur' = [cur EXCEPT ![Main] = [kind |-> "file", addr |-> a, mac |-> itemData[a]]]
            /\ itemData' = [itemData EXCEPT ![a] = NoMac]
  BY Zenon DEF LoadNext
<1>0. PICK m : m = itemData[a]
  OBVIOUS
<1>2. /\ ~loaded /\ pc[Main] = "idle" /\ pc' = [pc EXCEPT ![Main] = "find"]
      /\ UNCHANGED <<devices, addrMap>>
  BY DEF LoadNext, Go, registry
<1>3. /\ itemData \in [Addrs -> Macs \cup {NoMac}] /\ m \in Macs
      /\ cur'[Main].mac = m /\ cur'[Main].addr = a /\ pc'[Main] = "find"
  BY <1>0, <1>1, <1>2 DEF TypeInv, TypeOK
<1>4. \A u \in Threads : ~Joining(u) /\ (Joining(u)' <=> u = Main)
  BY <1>2 DEF Loading, Threads, Joining, JoinPlaces, TypeInv, TypeOK
<1>5. K[m] = a /\ devices[m] = NoAddr /\ Unmapped(m)
  BY <1>0, <1>1 DEF Replays
<1>6. ~InFile(m)'
  <2> SUFFICES ASSUME NEW b \in Addrs, itemData'[b] = m PROVE FALSE
    BY DEF InFile
  <2>1. b # a /\ itemData[b] = m
    BY <1>1, <1>3, RegistryAssumption
  <2> QED
    BY <1>1, <1>3, <1>5, <2>1, RegistryAssumption DEF Replays
<1>7. \A n \in Macs \ {m} : InFile(n)' = InFile(n)
  BY <1>0, <1>1, <1>3 DEF InFile
<1>8. \A n : Unmapped(n)' = Unmapped(n) /\ \A b : MappedAt(n, b)' = MappedAt(n, b)
  BY <1>2 DEF Unmapped, MappedAt
<1>9. Halfway(Main, m, a)'
  BY <1>2, <1>3, <1>5 DEF Halfway, Unmapped, MappedAt
<1>10. ASSUME NEW b \in Addrs, itemData'[b] # NoMac
       PROVE  K[itemData'[b]] = b /\ devices'[itemData'[b]] = NoAddr /\ Unmapped(itemData[b])'
              /\ itemData'[b] = itemData[b]
  BY <1>1, <1>2, <1>3, <1>8, <1>10 DEF Replays
<1>11. ASSUME NEW n \in Macs, ~InFile(n)', n # m PROVE devices'[n] = K[n] /\ MappedAt(n, K[n])'
  BY <1>2, <1>4, <1>7, <1>8, <1>11 DEF Replays
<1> QED
  BY <1>3, <1>4, <1>5, <1>6, <1>9, <1>10, <1>11, <1>2 DEF Replays, Unmapped

\* or an announcement.
LEMMA ReplayGetCommand ==
    ASSUME NEW K \in Known, TypeInv, Replays(K), Held(K), Loading, MessagesNamed, NEW w \in Workers,
           GetCommand(w), orderly', Head(queue).kind = "message" => K[Head(queue).mac] = Head(queue).addr,
           NEW L, L = After(K, Head(queue))
    PROVE  Replays(L)' /\ Held(L)'
<1> USE MainNamed
<1>0. PICK f : f = Head(queue)
  OBVIOUS
<1>1. /\ pc[w] = "idle" /\ pc' = [pc EXCEPT ![w] = Place(f)] /\ cur' = [cur EXCEPT ![w] = f] /\ queue # <<>>
      /\ UNCHANGED <<devices, addrMap, itemData>>
      /\ f.kind = "annce" => \A t \in Threads : pc[t] = "idle"
  BY <1>0 DEF GetCommand, Go, registry, startup, Busy
<1>2. f = queue[1] /\ 1 \in 1..Len(queue)
  BY <1>0, <1>1, HeadTailProperties, LenProperties, EmptySeq DEF TypeInv, TypeOK
<1>3. /\ f.kind = "annce" => f.mac \in Macs /\ f.addr \in Addrs /\ loaded
      /\ f.kind = "message" => f.mac \in Macs /\ f.addr \in Addrs
      /\ f.kind \in {"annce", "message", "state"}
  BY <1>2 DEF TypeInv, JoinFramesNamed, Loading, MessagesNamed
<1>4. \A t \in Threads : /\ pc'[t] = IF t = w THEN Place(f) ELSE pc[t]
                         /\ cur'[t] = IF t = w THEN f ELSE cur[t]
  BY <1>1 DEF TypeInv, TypeOK
<1>5. \A n : InFile(n)' = InFile(n) /\ Unmapped(n)' = Unmapped(n) /\ \A a : MappedAt(n, a)' = MappedAt(n, a)
  BY <1>1 DEF InFile, Unmapped, MappedAt
<1>6. CASE f.kind # "annce"
  <2>1. L = K /\ Place(f) \notin JoinPlaces
    BY <1>0, <1>6 DEF After, Place, JoinPlaces
  <2>2. \A t \in Threads : (Joining(t)' <=> Joining(t)) /\ (Joining(t) => cur'[t] = cur[t] /\ pc'[t] = pc[t])
    BY <1>1, <1>4, <2>1 DEF Joining, JoinPlaces
  <2>3. ASSUME NEW t \in Threads, Joining(t)' PROVE Halfway(t, cur[t].mac, cur[t].addr)' /\ K[cur'[t].mac] = cur'[t].addr /\ ~InFile(cur[t].mac)
    <3>1. UNCHANGED old
      BY DEF GetCommand
    <3>2. Halfway(t, cur[t].mac, cur[t].addr) /\ K[cur[t].mac] = cur[t].addr /\ ~InFile(cur[t].mac)
      BY <2>2, <2>3 DEF Replays
    <3> QED
      BY <1>1, <2>2, <2>3, <3>1, <3>2 DEF Halfway, MappedAt, Unmapped
  <2>4. Held(K)'
    BY <1>0, <1>3, <1>4 DEF Held, Place
  <2>5. Replays(K)'
    BY <1>1, <1>5, <2>2, <2>3 DEF Replays, Halfway, MappedAt, Unmapped
  <2> QED
    BY <2>1, <2>4, <2>5
<1>7. CASE f.kind = "annce"
  <2> DEFINE m == f.mac
             a == f.addr
  <2>1. L = [K EXCEPT ![m] = a] /\ Place(f) = "find" /\ m \in Macs /\ a \in Addrs
    BY <1>0, <1>3, <1>7 DEF After, Place
  <2>2. \A t \in Threads : ~Joining(t) /\ (Joining(t)' <=> t = w) /\ pc'[t] # "message"
    BY <1>1, <1>4, <1>7, <2>1 DEF Joining, JoinPlaces
  <2>3. itemData' = Empty /\ itemData = Empty
    BY <1>1, <1>3, <1>7 DEF Loading
  <2>4. \A n : (~InFile(n) /\ ~InFile(n)') \/ n = NoMac
    BY <2>3 DEF InFile, Empty
  <2>5. \A n \in Macs : devices[n] = K[n] /\ MappedAt(n, K[n])
    BY <2>2, <2>4, RegistryAssumption DEF Replays
  <2>6. L[m] = a /\ \A n \in Macs \ {m} : L[n] = K[n]
    BY <2>1 DEF Known
  <2>7. Halfway(w, m, a)'
    BY <1>1, <1>4, <2>1, <2>5 DEF Halfway, MappedAt
  <2>8. Replays(L)'
    <3>1. cur'[w].mac = m /\ cur'[w].addr = a /\ w \in Threads
      BY <1>4
    <3>2. \A b \in Addrs : itemData'[b] = NoMac
      BY <2>3 DEF Empty
    <3>3. \A n \in Macs : n # m => devices'[n] = L[n] /\ MappedAt(n, L[n])'
      BY <1>1, <1>5, <2>5, <2>6
    <3>4. ~InFile(m)'
      BY <2>1, <2>4, RegistryAssumption
    <3> QED
      BY <2>2, <2>6, <2>7, <3>1, <3>2, <3>3, <3>4 DEF Replays
  <2>9. Held(L)'
    BY <2>2 DEF Held
  <2> QED
    BY <2>8, <2>9
<1> QED
  BY <1>6, <1>7

\* A step that leaves the maps and the threads alone, and one that leaves the frames.
LEMMA MapsStay ==
    ASSUME NEW K, Replays(K), Held(K), UNCHANGED <<devices, addrMap, itemData, pc, cur, old>>
    PROVE  Replays(K)' /\ Held(K)'
<1>1. \A t, m, a : Halfway(t, m, a)' = Halfway(t, m, a)
  BY DEF Halfway, MappedAt, Unmapped
<1>2. \A t, m, a : /\ Joining(t)' = Joining(t) /\ InFile(m)' = InFile(m)
                   /\ Unmapped(m)' = Unmapped(m) /\ MappedAt(m, a)' = MappedAt(m, a)
  BY DEF Joining, InFile, MappedAt, Unmapped
<1>3. Held(K)'
  BY DEF Held
<1>4. \A t \in Threads : Joining(t)' => K[cur'[t].mac] = cur'[t].addr /\ ~InFile(cur[t].mac)'
                                         /\ Halfway(t, cur[t].mac, cur[t].addr)'
  BY <1>1, <1>2 DEF Replays
<1>5. \A a \in Addrs : itemData'[a] # NoMac =>
            K[itemData'[a]] = a /\ devices'[itemData'[a]] = NoAddr /\ Unmapped(itemData[a])'
  BY <1>2 DEF Replays
<1>6. \A m \in Macs : ~InFile(m)' /\ (\A t \in Threads : Joining(t)' => cur'[t].mac # m) =>
            devices'[m] = K[m] /\ MappedAt(m, K[m])'
  BY <1>2 DEF Replays
<1>7. \A t, u \in Threads : Joining(t)' /\ Joining(u)' => t = u
  BY <1>2 DEF Replays
<1> QED
  BY <1>3, <1>4, <1>5, <1>6, <1>7 DEF Replays, Halfway, MappedAt, Unmapped

LEMMA FramesStay ==
    ASSUME NEW K, Leads(queue, K, netAddr), OneOwner(netAddr), MessagesNamed, UNCHANGED <<queue, netAddr>>
    PROVE  Leads(queue, K, netAddr)' /\ OneOwner(netAddr)' /\ MessagesNamed'
BY DEF MessagesNamed

\* The loading of the file is not disturbed while no other thread begins to join.
LEMMA LoadingStays ==
    ASSUME TypeInv, Loading, UNCHANGED <<devices, itemData, loaded>>,
           pc'[Main] = pc[Main], cur'[Main] = cur[Main],
           \A w \in Workers : Joining(w)' => Joining(w),
           \A k \in 1..Len(queue') : queue'[k].kind = "annce" => loaded \/ \E i \in 1..Len(queue) : queue[i].kind = "annce"
    PROVE  Loading'
BY DEF Loading

\* The network speaks.
LEMMA OrderSpeaks ==
    ASSUME OrderInv, orderly, NEW f \in AllFrames, queue' = Append(queue, f), netAddr' \in Known,
           f.kind = "annce" => /\ f.mac \in Macs /\ f.addr \in Addrs /\ loaded
                               /\ netAddr' = [netAddr EXCEPT ![f.mac] = f.addr]
                               /\ \A m \in Macs \ {f.mac} : netAddr[m] # f.addr,
           f.kind # "annce" => netAddr' = netAddr,
           f.kind = "message" => f.mac \in Macs /\ f.addr \in Addrs /\ f.addr = netAddr[f.mac],
           f.kind \in {"annce", "message", "state"},
           UNCHANGED <<registry, startup, local, lastSeen>>
    PROVE  /\ OneOwner(netAddr)' /\ Loading' /\ MessagesNamed'
           /\ \E K \in Known : Replayed(K)'
<1>1. PICK K \in Known : Replayed(K)
  BY DEF OrderInv
<1>2. TypeInv /\ queue \in Seq(AllFrames) /\ netAddr \in Known /\ OneOwner(netAddr) /\ Loading /\ MessagesNamed
  BY DEF OrderInv, TypeInv, TypeOK, Known
<1>3. /\ Len(queue') = Len(queue) + 1 /\ Len(queue) \in Nat /\ queue'[Len(queue) + 1] = f
      /\ \A k \in 1..Len(queue) : queue'[k] = queue[k]
  BY <1>2, AppendProperties, LenProperties
<1>4. \A k \in 1..Len(queue') : k \in 1..Len(queue) \/ k = Len(queue) + 1
  BY <1>3
<1>5. OneOwner(netAddr)'
  BY <1>2 DEF OneOwner, Known
<1>6. MessagesNamed'
  BY <1>2, <1>3, <1>4 DEF MessagesNamed
<1>7. /\ UNCHANGED <<devices, addrMap, itemData, loaded, pc, cur, old>>
      /\ Replays(K) /\ Held(K)
  BY <1>1, Zenon DEF registry, startup, local, Replayed
<1>8. Loading'
  <2>1. \A w \in Workers : Joining(w)' => Joining(w)
    BY <1>7 DEF Joining
  <2>2. \A k \in 1..Len(queue') : queue'[k].kind = "annce" => loaded \/ \E i \in 1..Len(queue) : queue[i].kind = "annce"
    BY <1>3, <1>4
  <2> QED
    BY <1>2, <1>7, <2>1, <2>2, LoadingStays
<1>9. Replays(K)' /\ Held(K)'
  BY <1>7, MapsStay
<1>10. Leads(queue', K, netAddr')
  <2>1. Leads(queue, K, netAddr)
    BY <1>1 DEF Replayed
  <2> QED
    BY <1>2, <2>1, AppendLeads
<1>11. Replayed(K)'
  BY <1>1, <1>9, <1>10 DEF Replayed, OneOwner
<1> QED
  BY <1>5, <1>6, <1>8, <1>11

\* A thread works, and no frame comes or goes.
LEMMA OrderWorks ==
    ASSUME OrderInv, orderly, UNCHANGED <<network, lastSeen>>, Loading',
           \A K \in Known : OneOwner(K) /\ Replays(K) /\ Held(K) => Replays(K)' /\ Held(K)'
    PROVE  /\ OneOwner(netAddr)' /\ Loading' /\ MessagesNamed'
           /\ \E K \in Known : Replayed(K)'
<1>1. PICK K \in Known : Replayed(K)
  BY DEF OrderInv
<1>2. UNCHANGED <<queue, netAddr>>
  BY DEF network
<1>3. OneOwner(netAddr)' /\ MessagesNamed'
  BY <1>2 DEF OrderInv, OneOwner, MessagesNamed
<1>4. Replayed(K)'
  BY <1>1, <1>2 DEF Replayed, OneOwner
<1> QED
  BY <1>3, <1>4

LEMMA OrderJoinStep ==
    ASSUME OrderInv, orderly, NEW t \in Threads, JoinStep(t)
    PROVE  /\ OneOwner(netAddr)' /\ Loading' /\ MessagesNamed'
           /\ \E K \in Known : Replayed(K)'
<1> USE MainNamed
<1>1. TypeInv /\ Loading /\ UNCHANGED <<network, lastSeen>>
  BY Zenon DEF OrderInv, JoinStep, FindDevice, SetNetworkAddress, EraseOld, InsertDevice, InsertAddress,
               InitDevice, history
<1>2. UNCHANGED <<cur, itemData, loaded>>
  BY Zenon DEF JoinStep, FindDevice, SetNetworkAddress, EraseOld, InsertDevice, InsertAddress,
               InitDevice, startup
<1>3. Joining(t) /\ (\E p \in JoinPlaces : pc' = [pc EXCEPT ![t] = p])
  BY DEF JoinStep, FindDevice, SetNetworkAddress, EraseOld, InsertDevice, InsertAddress,
         InitDevice, Go, JoinPlaces, Joining
<1>4. \A u \in Threads : (u # t => pc'[u] = pc[u]) /\ (pc'[u] = "message" => pc[u] = "message")
  BY <1>3 DEF TypeInv, TypeOK, JoinPlaces
<1>5. \A K \in Known : OneOwner(K) /\ Replays(K) /\ Held(K) => Replays(K)' /\ Held(K)'
  BY <1>1, <1>2, <1>4, ReplayJoinStep DEF Held
<1>6. Loading'
  <2>1. UNCHANGED queue
    BY <1>1 DEF network
  <2>2. CASE t # Main
    <3>1. loaded
      BY <1>1, <1>3, <2>2 DEF Loading, Threads
    <3> QED
      BY <1>1, <1>2, <1>4, <2>2, <3>1 DEF Loading
  <2>3. CASE t = Main
    <3>1. ~loaded /\ pc[Main] \in JoinPlaces
      BY <1>1, <1>3, <2>3 DEF Loading, Joining, JoinPlaces
    <3>2. \A w \in Workers : Joining(w)' => Joining(w)
      BY <1>1, <1>4, <2>3 DEF Joining
    <3>3. pc'[Main] \in {"create", "insertnew", "init", "joined"}
      <4>1. pc[Main] \notin {"readdress", "erase", "insert"} /\ (pc[Main] = "find" => devices[cur[Main].mac] = NoAddr)
        BY <1>1, <3>1 DEF Loading
      <4> QED
        BY <1>1, <2>3, <4>1 DEF JoinStep, FindDevice, SetNetworkAddress, EraseOld, InsertDevice,
                    InsertAddress, InitDevice, Go, TypeInv, TypeOK
    <3> QED
      BY <1>1, <1>2, <2>1, <3>1, <3>2, <3>3 DEF Loading, JoinPlaces
  <2> QED
    BY <2>2, <2>3
<1> QED
  BY <1>1, <1>5, <1>6, OrderWorks

LEMMA OrderEndJoin ==
    ASSUME OrderInv, orderly, NEW t \in Threads, EndJoin(t)
    PROVE  /\ OneOwner(netAddr)' /\ Loading' /\ MessagesNamed'
           /\ \E K \in Known : Replayed(K)'
<1> USE MainNamed
<1>1. TypeInv /\ Loading /\ UNCHANGED <<network, lastSeen>>
  BY Zenon DEF OrderInv, EndJoin, history
<1>2. /\ UNCHANGED <<queue, devices, itemData, loaded>>
      /\ pc[t] = "joined" /\ pc' = [pc EXCEPT ![t] = "idle"] /\ cur' = [cur EXCEPT ![t] = NoFrame]
  BY Zenon DEF EndJoin, Go, network, registry, startup
<1>3. \A u \in Threads : /\ pc'[u] = IF u = t THEN "idle" ELSE pc[u]
                         /\ u # t => cur'[u] = cur[u]
  BY <1>1, <1>2 DEF TypeInv, TypeOK
<1>4. \A K \in Known : OneOwner(K) /\ Replays(K) /\ Held(K) => Replays(K)' /\ Held(K)'
  BY <1>1, <1>3, ReplayEndJoin DEF Held
<1>5. Loading'
  BY <1>1, <1>2, <1>3 DEF Loading, Joining, JoinPlaces
<1> QED
  BY <1>1, <1>4, <1>5, OrderWorks

LEMMA OrderLoads ==
    ASSUME OrderInv, orderly, LoadNext \/ Loaded
    PROVE  /\ OneOwner(netAddr)' /\ Loading' /\ MessagesNamed'
           /\ \E K \in Known : Replayed(K)'
<1> USE MainNamed
<1>1. TypeInv /\ Loading /\ UNCHANGED <<network, lastSeen>>
  BY Zenon DEF OrderInv, LoadNext, Loaded, history
<1>2. CASE LoadNext
  <2>1. /\ UNCHANGED <<queue, devices, loaded>> /\ ~loaded
        /\ pc' = [pc EXCEPT ![Main] = "find"]
    BY <1>2, Zenon DEF LoadNext, Go, network, registry
  <2>2. \E f : cur' = [cur EXCEPT ![Main] = f]
    BY <1>2, Zenon DEF LoadNext
  <2>3. pc'[Main] = "find" /\ \A w \in Workers : pc'[w] = pc[w] /\ cur'[w] = cur[w]
    BY <1>1, <2>1, <2>2 DEF TypeInv, TypeOK
  <2>4. \A K \in Known : OneOwner(K) /\ Replays(K) /\ Held(K) => Replays(K)' /\ Held(K)'
    BY <1>1, <1>2, <2>3, ReplayLoadNext DEF Held
  <2>5. devices[cur'[Main].mac] = NoAddr
    BY <1>1, <1>2, ReplayLoadNext DEF OrderInv, Replayed
  <2>6. Loading'
    BY <1>1, <2>1, <2>3, <2>5 DEF Loading, Joining, JoinPlaces
  <2> QED
    BY <1>1, <2>4, <2>6, OrderWorks
<1>3. CASE Loaded
  <2>1. /\ UNCHANGED <<devices, addrMap, itemData, pc, cur, old>>
        /\ itemData = Empty /\ pc[Main] = "idle" /\ loaded'
    BY <1>3, Zenon DEF Loaded, registry, local
  <2>2. Loading'
    BY <2>1 DEF Loading
  <2> QED
    BY <1>1, <2>1, <2>2, MapsStay, OrderWorks
<1> QED
  BY <1>2, <1>3

\* A worker takes a frame,
LEMMA OrderTakes ==
    ASSUME OrderInv, orderly, NEW w \in Workers, GetCommand(w), orderly'
    PROVE  /\ OneOwner(netAddr)' /\ Loading' /\ MessagesNamed'
           /\ \E K \in Known : Replayed(K)'
<1> USE MainNamed
<1>1. PICK K \in Known : Replayed(K)
  BY DEF OrderInv
<1>2. TypeInv /\ Loading /\ MessagesNamed /\ OneOwner(netAddr) /\ queue \in Seq(AllFrames)
  BY DEF OrderInv, TypeInv, TypeOK
<1>3. /\ queue # <<>> /\ queue' = Tail(queue) /\ pc' = [pc EXCEPT ![w] = Place(Head(queue))]
      /\ cur' = [cur EXCEPT ![w] = Head(queue)]
      /\ UNCHANGED <<netAddr, devices, itemData, loaded>>
  BY DEF GetCommand, Go, registry, startup
<1>4. /\ Head(queue) = queue[1] /\ 1 \in 1..Len(queue)
      /\ \A k \in 1..Len(queue') : queue'[k] = queue[k + 1] /\ k + 1 \in 1..Len(queue)
  BY <1>2, <1>3, HeadTailProperties, LenProperties, EmptySeq
<1>5. \A k \in 1..Len(queue) : queue[k].kind \in {"annce", "message"} => queue[k].mac \in Macs /\ queue[k].addr \in Addrs
  BY <1>2 DEF TypeInv, JoinFramesNamed, MessagesNamed
<1>6. PICK L : L = After(K, Head(queue))
  OBVIOUS
<1>7. L \in Known /\ OneOwner(L) /\ (Head(queue).kind = "message" => K[Head(queue).mac] = Head(queue).addr)
  BY <1>1, <1>2, <1>3, <1>4, <1>5, <1>6, HeadLeads DEF Replayed
<1>8. Leads(queue', L, netAddr')
  BY <1>1, <1>2, <1>3, <1>5, <1>6, TailLeads DEF Replayed
<1>9. Replays(L)' /\ Held(L)'
  BY <1>1, <1>2, <1>6, <1>7, ReplayGetCommand DEF Replayed
<1>10. Replayed(L)'
  BY <1>7, <1>8, <1>9 DEF Replayed, OneOwner
<1>11. MessagesNamed'
  BY <1>2, <1>4 DEF MessagesNamed
<1>12. OneOwner(netAddr)'
  BY <1>2, <1>3 DEF OneOwner
<1>13. Loading'
  <2>1. pc'[Main] = pc[Main] /\ cur'[Main] = cur[Main]
    BY <1>2, <1>3 DEF TypeInv, TypeOK
  <2>2. ASSUME ~loaded, NEW u \in Workers, Joining(u)' PROVE Joining(u)
    <3>1. Place(Head(queue)) \notin JoinPlaces
      BY <1>2, <1>4, <2>2 DEF Loading, Place, JoinPlaces
    <3> QED
      BY <1>2, <1>3, <2>2, <3>1 DEF Joining, TypeInv, TypeOK
  <2> QED
    BY <1>2, <1>3, <1>4, <2>1, <2>2 DEF Loading
<1> QED
  BY <1>7, <1>10, <1>11, <1>12, <1>13

\* and has done with one that is no announcement.
LEMMA OrderDone ==
    ASSUME OrderInv, orderly, NEW w \in Workers, pc[w] \in {"state", "message"},
           pc' = [pc EXCEPT ![w] = "idle"], cur' = [cur EXCEPT ![w] = NoFrame],
           UNCHANGED <<network, devices, addrMap, itemData, loaded, old>>
    PROVE  /\ OneOwner(netAddr)' /\ Loading' /\ MessagesNamed'
           /\ \E K \in Known : Replayed(K)'
<1> USE MainNamed
<1>1. PICK K \in Known : Replayed(K)
  BY DEF OrderInv
<1>2. TypeInv /\ Loading /\ OneOwner(netAddr) /\ MessagesNamed /\ UNCHANGED <<queue, netAddr>>
  BY DEF OrderInv, network
<1>3. \A u \in Threads : /\ pc'[u] = IF u = w THEN "idle" ELSE pc[u]
                         /\ u # w => cur'[u] = cur[u]
  BY <1>2 DEF TypeInv, TypeOK
<1>4. \A u \in Threads : (Joining(u)' <=> Joining(u)) /\ (Joining(u) => u # w)
  BY <1>3 DEF Joining, JoinPlaces
<1>5. \A n : InFile(n)' = InFile(n) /\ Unmapped(n)' = Unmapped(n) /\ \A a : MappedAt(n, a)' = MappedAt(n, a)
  BY DEF InFile, Unmapped, MappedAt
<1>6. \A u \in Threads : \A m, a : u # w => Halfway(u, m, a)' = Halfway(u, m, a)
  BY <1>3 DEF Halfway, Unmapped, MappedAt
<1>7. Replays(K)'
  <2>1. ASSUME NEW u \in Threads, Joining(u)'
        PROVE  K[cur'[u].mac] = cur'[u].addr /\ ~InFile(cur[u].mac)' /\ Halfway(u, cur[u].mac, cur[u].addr)' /\ cur'[u] = cur[u]
    BY <1>1, <1>3, <1>4, <1>5, <1>6, <2>1 DEF Replayed, Replays
  <2> QED
    BY <1>1, <1>4, <1>5, <2>1 DEF Replayed, Replays, Halfway, Unmapped, MappedAt, InFile
<1>8. Held(K)' /\ Loading'
  BY <1>1, <1>2, <1>3, <1>4 DEF Replayed, Held, Loading, JoinPlaces
<1>9. Replayed(K)' /\ OneOwner(netAddr)' /\ MessagesNamed'
  BY <1>1, <1>2, <1>7, <1>8 DEF Replayed, OneOwner, MessagesNamed
<1> QED
  BY <1>8, <1>9

LEMMA SenderStays ==
    ASSUME OrderInv, orderly, UNCHANGED lastSeen
    PROVE  MessageFromItsSender'
BY DEF OrderInv, MessageFromItsSender

\* A message is taken for its sender's while a device that moves is in between.
LEMMA OrderSender ==
    ASSUME OrderInv, orderly, NEW w \in Workers, OnMessage(w)
    PROVE  MessageFromItsSender'
<1> USE MainNamed, RegistryAssumption
<1> DEFINE m == cur[w].mac
           a == cur[w].addr
<1>1. PICK K \in Known : Replayed(K)
  BY DEF OrderInv
<1>2. TypeInv /\ Loading
  BY DEF OrderInv
<1>3. m \in Macs /\ a \in Addrs /\ K[m] = a /\ w \in Threads
  BY <1>1, <1>2 DEF OnMessage, Replayed, Held
<1> HIDE DEF m, a
<1>4. addrMap[a] \in {m, NoMac}
  <2> SUFFICES ASSUME NEW n \in Macs, addrMap[a] = n, n # m PROVE FALSE
    BY <1>2, <1>3 DEF TypeInv, TypeOK
  <2>1. ~InFile(n)
    BY <1>1, <1>3 DEF Replayed, Replays, InFile, Unmapped
  <2>2. K[n] # a
    BY <1>1, <1>2, <1>3 DEF Replayed, OneOwner
  <2>3. PICK t \in Threads : Joining(t) /\ cur[t].mac = n
    <3>1. ~MappedAt(n, K[n])
      BY <1>3, <2>2 DEF MappedAt
    <3> QED
      BY <1>1, <2>1, <3>1 DEF Replayed, Replays
  <2>4. K[n] = cur[t].addr /\ Halfway(t, n, K[n])
    BY <1>1, <2>3 DEF Replayed, Replays
  <2>5. CASE loaded
    <3>1. ~InFile(m)
      BY <1>2, <1>3, <2>5 DEF Loading, InFile, Empty
    <3>2. \A u \in Threads : Joining(u) => cur[u].mac # m
      BY <1>1, <2>3 DEF Replayed, Replays
    <3>3. MappedAt(m, a)
      BY <1>1, <1>3, <3>1, <3>2 DEF Replayed, Replays
    <3> QED
      BY <1>3, <3>3 DEF MappedAt
  <2>6. CASE ~loaded
    <3>1. t = Main /\ pc[t] \notin {"readdress", "erase", "insert"} /\ (pc[t] = "find" => devices[n] = NoAddr)
      BY <1>2, <2>3, <2>6 DEF Loading, Threads
    <3>2. pc[t] \in {"find", "create", "insertnew", "init", "joined"}
      BY <2>3, <3>1 DEF Joining, JoinPlaces
    <3>3. CASE pc[t] = "find"
      BY <1>2, <1>3, <2>4, <3>1, <3>3 DEF Halfway, MappedAt
    <3>4. CASE pc[t] \in {"create", "insertnew"}
      BY <1>3, <2>4, <3>4 DEF Halfway, Unmapped
    <3>5. CASE pc[t] \in {"init", "joined"}
      BY <1>3, <2>2, <2>4, <3>5 DEF Halfway, MappedAt
    <3> QED
      BY <3>2, <3>3, <3>4, <3>5
  <2> QED
    BY <2>5, <2>6
<1>5. lastSeen' = <<m, addrMap[a]>> \/ lastSeen' = lastSeen
  BY DEF OnMessage, DeviceOf, m, a
<1>6. CASE lastSeen' = lastSeen
  BY <1>6, SenderStays
<1>7. CASE lastSeen' = <<m, addrMap[a]>>
  BY <1>4, <1>7 DEF MessageFromItsSender
<1> QED
  BY <1>5, <1>6, <1>7

LEMMA OrderStep == OrderInv /\ [Next]_vars => OrderInv'
<1> SUFFICES ASSUME OrderInv, [Next]_vars, orderly'
             PROVE  /\ OneOwner(netAddr)' /\ Loading' /\ MessagesNamed' /\ MessageFromItsSender'
                    /\ \E K \in Known : Replayed(K)'
  BY TypeStep DEF OrderInv
<1> DEFINE P == /\ OneOwner(netAddr)' /\ Loading' /\ MessagesNamed' /\ MessageFromItsSender'
                /\ \E K \in Known : Replayed(K)'
<1> SUFFICES P
  OBVIOUS
<1>0. TypeInv /\ TypeInv' /\ orderly \in BOOLEAN
  BY TypeStep DEF OrderInv, TypeInv, TypeOK
<1>a. netAddr \in Known /\ netAddr' \in Known
  BY <1>0 DEF TypeInv, TypeOK, Known
<1>1. ASSUME NEW m \in Macs, Leave(m) PROVE P
  BY <1>1 DEF Leave
<1>2. ASSUME NEW m \in Macs, Report(m) PROVE P
  <2> DEFINE f == Frame("message", m)
  <2>1. UNCHANGED <<netAddr, registry, startup, local, orderly, lastSeen>>
    BY <1>2, Zenon DEF Report, history
  <2>2. queue' = Append(queue, f) /\ netAddr[m] \in Addrs
    BY <1>0, <1>2 DEF Report, Send, TypeInv, TypeOK
  <2>3. f \in AllFrames /\ f.kind = "message" /\ f.mac = m /\ f.addr = netAddr[m]
    BY <2>2 DEF Frame, AllFrames, FrameKinds
  <2> HIDE DEF f
  <2> QED
    BY <1>a, <2>1, <2>2, <2>3, OrderSpeaks, SenderStays
<1>3. ASSUME NEW m \in Macs, NEW a \in Addrs, Announce(m, a) PROVE P
  <2> DEFINE f == [kind |-> "annce", addr |-> a, mac |-> m]
  <2>1. UNCHANGED <<registry, startup, local, lastSeen>>
    BY <1>3, Zenon DEF Announce
  <2>2. orderly /\ loaded
    BY <1>3, Zenon DEF Announce
  <2>3. queue' = Append(queue, f) /\ netAddr' = [netAddr EXCEPT ![m] = a] /\ \A n \in Macs \ {m} : netAddr[n] # a
    BY <1>3 DEF Announce, Send
  <2>4. f \in AllFrames /\ f.kind = "annce" /\ f.mac = m /\ f.addr = a
    BY DEF AllFrames, FrameKinds
  <2> HIDE DEF f
  <2> QED
    BY <1>a, <2>1, <2>2, <2>3, <2>4, OrderSpeaks, SenderStays
<1>4. ASSUME CoordinatorStarted PROVE P
  <2> DEFINE f == [kind |-> "state", addr |-> NoAddr, mac |-> NoMac]
  <2>1. UNCHANGED <<netAddr, registry, startup, local, orderly, lastSeen>>
    BY <1>4, Zenon DEF CoordinatorStarted, history
  <2>2. queue' = Append(queue, f)
    BY <1>4 DEF CoordinatorStarted, Send
  <2>3. f \in AllFrames /\ f.kind = "state"
    BY DEF AllFrames, FrameKinds
  <2> HIDE DEF f
  <2> QED
    BY <1>a, <2>1, <2>2, <2>3, OrderSpeaks, SenderStays
<1>5. ASSUME NEW t \in Threads, JoinStep(t) PROVE P
  <2>1. UNCHANGED history
    BY <1>5, Zenon DEF JoinStep, FindDevice, SetNetworkAddress, EraseOld, InsertDevice, InsertAddress, InitDevice
  <2> QED
    BY <1>5, <2>1, OrderJoinStep, SenderStays DEF history
<1>6. ASSUME NEW t \in Threads, EndJoin(t) PROVE P
  <2>1. UNCHANGED history
    BY <1>6, Zenon DEF EndJoin
  <2> QED
    BY <1>6, <2>1, OrderEndJoin, SenderStays DEF history
<1>7. ASSUME NEW w \in Workers, GetCommand(w) PROVE P
  <2>1. UNCHANGED lastSeen
    BY <1>7, Zenon DEF GetCommand
  <2>2. orderly
    BY <1>7, Zenon DEF GetCommand
  <2> QED
    BY <1>7, <2>1, <2>2, OrderTakes, SenderStays
<1>8. ASSUME NEW w \in Workers, StateChange(w) PROVE P
  <2>1. /\ pc[w] = "state" /\ pc' = [pc EXCEPT ![w] = "idle"] /\ cur' = [cur EXCEPT ![w] = NoFrame]
        /\ UNCHANGED <<network, devices, addrMap, itemData, loaded, old>>
    BY <1>8, Zenon DEF StateChange, Go, registry
  <2>2. UNCHANGED history
    BY <1>8, Zenon DEF StateChange
  <2> QED
    BY <2>1, <2>2, OrderDone, SenderStays DEF history
<1>9. ASSUME NEW w \in Workers, OnMessage(w) PROVE P
  <2>1. /\ pc[w] = "message" /\ pc' = [pc EXCEPT ![w] = "idle"] /\ cur' = [cur EXCEPT ![w] = NoFrame]
        /\ UNCHANGED <<network, devices, addrMap, itemData, loaded, old>> /\ orderly' = orderly
    BY <1>9, Zenon DEF OnMessage, Go, registry, startup
  <2> QED
    BY <1>9, <2>1, OrderDone, OrderSender
<1>10. ASSUME LoadNext \/ Loaded PROVE P
  <2>1. UNCHANGED history
    BY <1>10, Zenon DEF LoadNext, Loaded
  <2> QED
    BY <1>10, <2>1, OrderLoads, SenderStays DEF history
<1>11. ASSUME Restart PROVE P
  BY <1>11 DEF Restart
<1>12. ASSUME UNCHANGED vars PROVE P
  <2>1. UNCHANGED <<network, registry, startup, local, history>>
    BY <1>12, Zenon DEF vars
  <2>2. UNCHANGED <<devices, addrMap, itemData, loaded, pc, cur, old, orderly, lastSeen>>
    BY <2>1, Zenon DEF registry, startup, local, history
  <2>3. Loading'
    BY <2>1, <2>2 DEF OrderInv, Loading, Joining, network
  <2> QED
    BY <2>1, <2>2, <2>3, MapsStay, OrderWorks, SenderStays
<1> QED
  BY <1>1, <1>2, <1>3, <1>4, <1>5, <1>6, <1>7, <1>8, <1>9, <1>10, <1>11, <1>12 DEF Next, Network

LEMMA OrderMatches == OrderInv => RegistryMatchesNetwork
<1> SUFFICES ASSUME OrderInv, orderly, Quiescent, NEW m \in Macs, netAddr[m] # NoAddr
             PROVE  devices[m] = netAddr[m] /\ addrMap[netAddr[m]] = m
  BY DEF RegistryMatchesNetwork
<1>1. PICK K \in Known : Replayed(K)
  BY DEF OrderInv
<1>2. TypeInv /\ Loading /\ netAddr[m] \in Addrs
  BY DEF OrderInv, TypeInv, TypeOK
<1>3. \A t \in Threads : ~Joining(t)
  BY DEF Quiescent, Busy, Joining, JoinPlaces
<1>4. ~InFile(m)
  BY <1>2, RegistryAssumption DEF Loading, Quiescent, InFile, Empty
<1>5. devices[m] = K[m] /\ MappedAt(m, K[m])
  BY <1>1, <1>3, <1>4 DEF Replayed, Replays
<1>6. K[m] = netAddr[m]
  <2>1. Reaches(queue, K, m, netAddr[m], Len(queue) + 1) /\ Len(queue) \in Nat
    BY <1>1, <1>2, LenProperties DEF Replayed, Leads, TypeInv, TypeOK
  <2>2. \A i \in 1..(Len(queue) + 1 - 1) : ~Announces(queue, i, m, netAddr[m])
    BY <2>1 DEF Quiescent, Announces
  <2> QED
    BY <2>1, <2>2 DEF Reaches
<1> QED
  BY <1>2, <1>5, <1>6 DEF MappedAt

\* As long as announcements come one after the other the maps follow the network, however
\* late: with none left to handle each device is in both under the address it has.
THEOREM MapsFollowNetwork == Spec => []RegistryMatchesNetwork
BY OrderInit, OrderStep, OrderMatches, PTL DEF Spec

\* And a message is taken for the device that sent it, or for an unknown one, even while a
\* device moves to another address.
THEOREM MessagesFromTheirSenders == Spec => []MessageFromItsSender
<1>1. OrderInv => MessageFromItsSender
  BY DEF OrderInv, MessageFromItsSender
<1> QED
  BY <1>1, OrderInit, OrderStep, PTL DEF Spec

-----------------------------------------------------------------------------
(***************************************************************************)
(* Reports: a message of the device as a sequence of pieces, attributes and *)
(* then tags, joined one after another.  Where a piece begins and ends in the *)
(* whole is all that the proofs below need of the folds that make it.      *)
(***************************************************************************)

\* Every nonempty set of naturals has a least element: the proofs below that would be by
\* induction take the least counterexample.
LEMMA Least ==
    ASSUME NEW T, T \subseteq Nat, T # {}
    PROVE  \E n \in T : \A m \in T : n <= m
<1>1. PICK k \in T : TRUE
  OBVIOUS
<1> DEFINE F == {0..n : n \in {n \in T : n <= k}}
<1>2. IsWellFoundedOn(StrictSubsetOrdering(0..k), SUBSET (0..k))
  <2>1. IsFiniteSet(0..k)
    BY FS_Interval
  <2>2. FiniteSubsetsOf(0..k) = SUBSET (0..k)
    BY <2>1, FS_FiniteSubsetsOfFinite
  <2> QED
    BY <2>2, FS_StrictSubsetOrderingWellFounded
<1>3. F \subseteq SUBSET (0..k) /\ F # {}
  OBVIOUS
<1>4. PICK X \in F : \A Y \in F : <<Y, X>> \notin StrictSubsetOrdering(0..k)
  BY <1>2, <1>3, WFMin
<1>5. PICK n \in T : n <= k /\ X = 0..n
  OBVIOUS
<1>6. ASSUME NEW m \in T, m < n PROVE FALSE
  <2>1. 0..m \in F
    BY <1>5, <1>6
  <2>2. 0..m \in SUBSET (0..k) /\ X \in SUBSET (0..k) /\ 0..m \subseteq X /\ 0..m # X
    BY <1>5, <1>6
  <2> QED
    BY <1>4, <2>1, <2>2 DEF StrictSubsetOrdering
<1> QED
  BY <1>5, <1>6

-----------------------------------------------------------------------------
(* Sequences of sequences, one after the other.                            *)

\* s[n] is the first n of them.
JoinedTo(m, S, pieces, s) ==
    /\ s \in [0..m -> Seq(S)] /\ s[0] = <<>>
    /\ \A n \in 1..m : s[n] = s[n - 1] \o pieces[n]

\* Pieces can be joined one after another.
LEMMA JoinsExist ==
    ASSUME NEW S, NEW pieces \in Seq(Seq(S)), NEW m \in 0..Len(pieces)
    PROVE  \E s : JoinedTo(m, S, pieces, s)
<1> DEFINE T == {n \in 0..Len(pieces) : ~\E s : JoinedTo(n, S, pieces, s)}
<1> SUFFICES ASSUME T # {} PROVE FALSE
  OBVIOUS
<1>1. PICK n \in T : \A n2 \in T : n <= n2
  <2>1. T \subseteq Nat
    BY LenProperties
  <2> HIDE DEF T
  <2> QED
    BY <2>1, Least
<1>2. Len(pieces) \in Nat /\ n \in 0..Len(pieces)
  BY <1>1, LenProperties
<1>3. CASE n = 0
  <2>1. <<>> \in Seq(S)
    OBVIOUS
  <2>2. JoinedTo(0, S, pieces, [x \in 0..0 |-> <<>>])
    BY <2>1 DEF JoinedTo
  <2> QED
    BY <1>1, <1>3, <2>2
<1>4. CASE n # 0
  <2> HIDE DEF T
  <2>a. n - 1 \in 0..Len(pieces) /\ n \in 1..Len(pieces) /\ ~(n <= n - 1)
    BY <1>2, <1>4
  <2>b. n - 1 \notin T
    BY <1>1, <2>a
  <2>1. n - 1 \in 0..Len(pieces) /\ n - 1 \notin T /\ n \in 1..Len(pieces)
    BY <2>a, <2>b
  <2> USE DEF T
  <2>2. PICK s : JoinedTo(n - 1, S, pieces, s)
    BY <2>1
  <2> DEFINE s2 == [x \in 0..n |-> IF x = n THEN s[n - 1] \o pieces[n] ELSE s[x]]
  <2>3. s[n - 1] \in Seq(S) /\ pieces[n] \in Seq(S)
    BY <1>2, <2>1, <2>2, ElementOfSeq DEF JoinedTo
  <2>4. s[n - 1] \o pieces[n] \in Seq(S)
    BY <2>3, ConcatProperties
  <2>5. s2 \in [0..n -> Seq(S)]
    BY <1>2, <2>1, <2>2, <2>4 DEF JoinedTo
  <2>6. s2[0] = <<>>
    BY <1>2, <1>4, <2>2 DEF JoinedTo
  <2>7. ASSUME NEW x \in 1..n PROVE s2[x] = s2[x - 1] \o pieces[x]
    <3>1. x - 1 \in 0..n /\ x - 1 # n /\ s2[x - 1] = s[x - 1]
      BY <1>2
    <3>2. CASE x = n
      <4>1. x \in 0..n
        BY <1>2
      <4>2. s2[x] = s[n - 1] \o pieces[n]
        BY <3>2, <4>1
      <4>3. s2[x - 1] = s[n - 1]
        BY <3>1, <3>2
      <4> QED
        BY <3>2, <4>2, <4>3
    <3>3. CASE x # n
      <4>1. x \in 1..(n - 1) /\ s2[x] = s[x]
        BY <1>2, <3>3
      <4> QED
        BY <2>2, <3>1, <4>1 DEF JoinedTo
    <3> QED
      BY <3>2, <3>3
  <2>8. JoinedTo(n, S, pieces, s2)
    BY <2>5, <2>6, <2>7 DEF JoinedTo
  <2> QED
    BY <1>1, <2>8
<1> QED
  BY <1>3, <1>4

\* The first n pieces, and where they end.
Joined(S, pieces) == CHOOSE s : JoinedTo(Len(pieces), S, pieces, s)
EndOf(S, pieces, n) == Len(Joined(S, pieces)[n])

\* Joined is such a sequence.
LEMMA JoinedIs ==
    ASSUME NEW S, NEW pieces \in Seq(Seq(S))
    PROVE  JoinedTo(Len(pieces), S, pieces, Joined(S, pieces))
<1>1. Len(pieces) \in 0..Len(pieces)
  BY LenProperties
<1> QED
  BY <1>1, JoinsExist DEF Joined

\* FlattenSeq gives the last of them.
LEMMA FlattenIsJoined ==
    ASSUME NEW S, NEW pieces \in Seq(Seq(S))
    PROVE  FlattenSeq(pieces) = Joined(S, pieces)[Len(pieces)]
<1> DEFINE m == Len(pieces)
           s == Joined(S, pieces)
           Is(f) == f = [i \in 1..m |-> IF i = 1 THEN pieces[i] ELSE f[i - 1] \o pieces[i]]
           flatten == CHOOSE f : Is(f)
<1>1. m \in Nat /\ DOMAIN pieces = 1..m
  BY LenProperties
<1>2. JoinedTo(m, S, pieces, s)
  BY JoinedIs
<1>3. CASE m = 0
  <2>1. pieces = <<>>
    BY <1>3, EmptySeq
  <2>2. FlattenSeq(pieces) = pieces
    BY <1>3 DEF FlattenSeq
  <2>3. s[m] = <<>>
    BY <1>2, <1>3 DEF JoinedTo
  <2> QED
    BY <2>1, <2>2, <2>3
<1>4. CASE m # 0
  <2>1. FlattenSeq(pieces) = flatten[m]
    BY <1>4 DEF FlattenSeq
  <2> DEFINE g == [i \in 1..m |-> s[i]]
  <2> HIDE DEF s
  <2>2. ASSUME NEW i \in 1..m PROVE g[i] = IF i = 1 THEN pieces[i] ELSE g[i - 1] \o pieces[i]
    <3>1. CASE i = 1
      <4>1. s[1] = s[0] \o pieces[1] /\ s[0] = <<>>
        <5>1. 1 \in 1..m /\ 1 - 1 = 0
          BY <1>1, <3>1
        <5> QED
          BY <1>2, <5>1 DEF JoinedTo
      <4>2. pieces[1] \in Seq(S)
        BY <1>1, <3>1, ElementOfSeq
      <4>3. <<>> \o pieces[1] = pieces[1]
        BY <4>2, ConcatEmptySeq
      <4> QED
        BY <3>1, <4>1, <4>3
    <3>2. CASE i # 1
      <4>1. i - 1 \in 1..m /\ g[i - 1] = s[i - 1] /\ s[i] = s[i - 1] \o pieces[i]
        BY <1>1, <1>2, <3>2 DEF JoinedTo
      <4> QED
        BY <3>2, <4>1
    <3> QED
      BY <3>1, <3>2
  <2>3. Is(g)
    BY <2>2
  <2>4. Is(flatten)
    BY <2>3
  <2> HIDE DEF flatten
  <2>5. \A i \in 1..m : flatten[i] = IF i = 1 THEN pieces[i] ELSE flatten[i - 1] \o pieces[i]
    BY <2>4
  <2> DEFINE T == {i \in 1..m : flatten[i] # s[i]}
  <2>6. T = {}
    <3> SUFFICES ASSUME T # {} PROVE FALSE
      OBVIOUS
    <3>1. PICK i \in T : \A i2 \in T : i <= i2
      <4>1. T \subseteq Nat
        BY <1>1
      <4> HIDE DEF T
      <4> QED
        BY <4>1, Least
    <3>2. g[i] = s[i] /\ flatten[i] # s[i] /\ i \in 1..m
      BY <3>1
    <3>3. CASE i = 1
      <4>1. g[i] = pieces[i] /\ flatten[i] = pieces[i]
        BY <2>2, <2>5, <3>2, <3>3, Zenon
      <4> QED
        BY <3>2, <4>1
    <3>4. CASE i # 1
      <4>1. i - 1 \in 1..m /\ i - 1 \notin T /\ g[i - 1] = s[i - 1]
        BY <1>1, <3>1, <3>4
      <4>2. flatten[i - 1] = g[i - 1]
        BY <4>1
      <4>3. g[i] = g[i - 1] \o pieces[i] /\ flatten[i] = flatten[i - 1] \o pieces[i]
        BY <2>2, <2>5, <3>2, <3>4, Zenon
      <4> QED
        BY <3>2, <4>2, <4>3
    <3> QED
      BY <3>3, <3>4
  <2>7. flatten[m] = s[m]
    BY <1>1, <1>4, <2>6
  <2> QED
    BY <2>1, <2>7 DEF s
<1> QED
  BY <1>3, <1>4

\* Each has its piece at its end.
LEMMA JoinedGrows ==
    ASSUME NEW S, NEW pieces \in Seq(Seq(S)), NEW n \in 1..Len(pieces)
    PROVE  /\ Joined(S, pieces)[n - 1] \in Seq(S) /\ Joined(S, pieces)[n] \in Seq(S) /\ pieces[n] \in Seq(S)
           /\ Len(pieces[n]) \in Nat /\ EndOf(S, pieces, n - 1) \in Nat
           /\ EndOf(S, pieces, n) = EndOf(S, pieces, n - 1) + Len(pieces[n])
           /\ \A p \in 1..EndOf(S, pieces, n - 1) : Joined(S, pieces)[n][p] = Joined(S, pieces)[n - 1][p]
           /\ \A p \in 1..Len(pieces[n]) :
                Joined(S, pieces)[n][EndOf(S, pieces, n - 1) + p] = pieces[n][p]
<1> DEFINE s == Joined(S, pieces)
<1>1. Len(pieces) \in Nat /\ n - 1 \in 0..Len(pieces) /\ n \in 0..Len(pieces) /\ pieces[n] \in Seq(S)
  BY LenProperties, ElementOfSeq
<1>2. s[n - 1] \in Seq(S) /\ s[n] \in Seq(S) /\ s[n] = s[n - 1] \o pieces[n]
  BY <1>1, JoinedIs DEF JoinedTo
<1>3. Len(pieces[n]) \in Nat /\ Len(s[n - 1]) \in Nat
  BY <1>1, <1>2, LenProperties
<1> HIDE DEF s
<1>4. Len(s[n]) = Len(s[n - 1]) + Len(pieces[n])
  BY <1>1, <1>2, ConcatProperties
<1>5. \A p \in 1..Len(s[n - 1]) + Len(pieces[n]) :
         s[n][p] = IF p <= Len(s[n - 1]) THEN s[n - 1][p] ELSE pieces[n][p - Len(s[n - 1])]
  BY <1>1, <1>2, ConcatProperties
<1> DEFINE a == Len(s[n - 1])
           b == Len(pieces[n])
<1>a. a \in Nat /\ b \in Nat
  BY <1>3
<1> HIDE DEF a, b
<1>6. \A p \in 1..a : p \in 1..a + b /\ p <= a
  BY <1>a
<1>7. \A p \in 1..b : a + p \in 1..a + b /\ ~(a + p <= a) /\ (a + p) - a = p
  BY <1>a
<1>8. \A p \in 1..a : s[n][p] = s[n - 1][p]
  BY <1>5, <1>6 DEF a, b
<1>9. \A p \in 1..b : s[n][a + p] = pieces[n][p]
  BY <1>5, <1>7 DEF a, b
<1> QED
  BY <1>1, <1>2, <1>3, <1>4, <1>8, <1>9 DEF s, a, b, EndOf

\* What follows leaves what is there as it is.
LEMMA JoinedKeeps ==
    ASSUME NEW S, NEW pieces \in Seq(Seq(S)), NEW n \in 0..Len(pieces), NEW m \in n..Len(pieces)
    PROVE  /\ EndOf(S, pieces, n) \in Nat /\ EndOf(S, pieces, n) <= EndOf(S, pieces, m)
           /\ \A p \in 1..EndOf(S, pieces, n) : Joined(S, pieces)[m][p] = Joined(S, pieces)[n][p]
<1> DEFINE s == Joined(S, pieces)
           Kept1(x) == /\ EndOf(S, pieces, n) <= EndOf(S, pieces, x)
                       /\ \A p \in 1..EndOf(S, pieces, n) : s[x][p] = s[n][p]
           T == {x \in n..Len(pieces) : ~Kept1(x)}
<1>1. Len(pieces) \in Nat /\ n \in Nat
  BY LenProperties
<1>2. s[n] \in Seq(S)
  BY <1>1, JoinedIs DEF JoinedTo
<1>3. EndOf(S, pieces, n) \in Nat
  BY <1>2, LenProperties DEF EndOf
<1>4. Kept1(n)
  BY <1>3
<1>5. T = {}
  <2> SUFFICES ASSUME T # {} PROVE FALSE
    OBVIOUS
  <2>1. PICK x \in T : \A y \in T : x <= y
    <3>1. T \subseteq Nat
      BY <1>1
    <3> HIDE DEF T
    <3> QED
      BY <3>1, Least
  <2>2. x \in n..Len(pieces) /\ ~Kept1(x)
    BY <2>1
  <2> HIDE DEF Kept1
  <2>3. x # n
    BY <1>4, <2>2
  <2>4. x \in 1..Len(pieces) /\ x - 1 \in n..Len(pieces) /\ ~(x <= x - 1)
    BY <1>1, <2>2, <2>3
  <2> HIDE DEF T
  <2>5. x - 1 \notin T
    BY <2>1, <2>4
  <2>6. Kept1(x - 1)
    BY <2>4, <2>5 DEF T
  <2> USE DEF Kept1
  <2>7. /\ EndOf(S, pieces, x - 1) \in Nat /\ Len(pieces[x]) \in Nat
        /\ EndOf(S, pieces, x) = EndOf(S, pieces, x - 1) + Len(pieces[x])
        /\ \A p \in 1..EndOf(S, pieces, x - 1) : s[x][p] = s[x - 1][p]
    BY <2>4, JoinedGrows
  <2> HIDE DEF s
  <2>8. EndOf(S, pieces, n) <= EndOf(S, pieces, x)
    BY <1>3, <2>6, <2>7
  <2>9. ASSUME NEW p \in 1..EndOf(S, pieces, n) PROVE s[x][p] = s[n][p]
    <3>1. p \in 1..EndOf(S, pieces, x - 1)
      BY <1>3, <2>6, <2>7
    <3> QED
      BY <2>6, <2>7, <3>1
  <2> QED
    BY <2>2, <2>8, <2>9
<1> HIDE DEF Kept1
<1>6. m \in n..Len(pieces) /\ m \notin T
  BY <1>5
<1>7. Kept1(m)
  BY <1>6 DEF T
<1> QED
  BY <1>3, <1>7 DEF Kept1, s

\* Where the n-th piece is in the whole.
LEMMA Flattened ==
    ASSUME NEW S, NEW pieces \in Seq(Seq(S))
    PROVE  /\ FlattenSeq(pieces) \in Seq(S) /\ Len(FlattenSeq(pieces)) \in Nat /\ Len(pieces) \in Nat
           /\ EndOf(S, pieces, 0) = 0 /\ EndOf(S, pieces, Len(pieces)) = Len(FlattenSeq(pieces))
           /\ \A n \in 0..Len(pieces) : EndOf(S, pieces, n) \in 0..Len(FlattenSeq(pieces))
           /\ \A n \in 1..Len(pieces) :
                /\ pieces[n] \in Seq(S) /\ Len(pieces[n]) \in Nat
                /\ EndOf(S, pieces, n) = EndOf(S, pieces, n - 1) + Len(pieces[n])
                /\ \A p \in 1..Len(pieces[n]) :
                      FlattenSeq(pieces)[EndOf(S, pieces, n - 1) + p] = pieces[n][p]
<1> DEFINE s == Joined(S, pieces)
           m == Len(pieces)
           all == FlattenSeq(pieces)
<1>1. m \in Nat /\ m \in 0..m /\ 0 \in 0..m
  BY LenProperties
<1>2. all = s[m] /\ s[0] = <<>> /\ s[m] \in Seq(S)
  BY <1>1, FlattenIsJoined, JoinedIs DEF JoinedTo
<1>3. all \in Seq(S) /\ Len(all) \in Nat
  BY <1>2, LenProperties
<1>4. EndOf(S, pieces, 0) = 0 /\ EndOf(S, pieces, m) = Len(all)
  BY <1>2 DEF EndOf
<1> HIDE DEF all
<1>5. ASSUME NEW n \in 0..m PROVE EndOf(S, pieces, n) \in 0..Len(all)
  <2>1. m \in n..m
    BY <1>1
  <2>2. EndOf(S, pieces, n) \in Nat /\ EndOf(S, pieces, n) <= EndOf(S, pieces, m)
    BY <2>1, JoinedKeeps
  <2> QED
    BY <1>3, <1>4, <2>2
<1>6. ASSUME NEW n \in 1..m
      PROVE  /\ pieces[n] \in Seq(S) /\ Len(pieces[n]) \in Nat
             /\ EndOf(S, pieces, n) = EndOf(S, pieces, n - 1) + Len(pieces[n])
             /\ \A p \in 1..Len(pieces[n]) : all[EndOf(S, pieces, n - 1) + p] = pieces[n][p]
  <2>1. /\ pieces[n] \in Seq(S) /\ Len(pieces[n]) \in Nat /\ EndOf(S, pieces, n - 1) \in Nat
        /\ EndOf(S, pieces, n) = EndOf(S, pieces, n - 1) + Len(pieces[n])
        /\ \A p \in 1..Len(pieces[n]) : s[n][EndOf(S, pieces, n - 1) + p] = pieces[n][p]
    <3> DEFINE grows(x) ==
                 /\ pieces[x] \in Seq(S) /\ Len(pieces[x]) \in Nat /\ EndOf(S, pieces, x - 1) \in Nat
                 /\ EndOf(S, pieces, x) = EndOf(S, pieces, x - 1) + Len(pieces[x])
                 /\ \A p \in 1..Len(pieces[x]) :
                      Joined(S, pieces)[x][EndOf(S, pieces, x - 1) + p] = pieces[x][p]
    <3>1. \A x \in 1..Len(pieces) : grows(x)
      <4> TAKE x \in 1..Len(pieces)
      <4>1. pieces[x] \in Seq(S) /\ Len(pieces[x]) \in Nat /\ EndOf(S, pieces, x - 1) \in Nat
        BY JoinedGrows
      <4>2. EndOf(S, pieces, x) = EndOf(S, pieces, x - 1) + Len(pieces[x])
        BY JoinedGrows
      <4>3. \A p \in 1..Len(pieces[x]) :
              Joined(S, pieces)[x][EndOf(S, pieces, x - 1) + p] = pieces[x][p]
        BY JoinedGrows
      <4> QED
        BY <4>1, <4>2, <4>3
    <3> HIDE DEF grows
    <3>2. grows(n)
      BY <3>1
    <3> QED
      BY <3>2 DEF grows
  <2>2. n \in 0..m /\ m \in n..m
    BY <1>1
  <2>3. \A p \in 1..EndOf(S, pieces, n) : s[m][p] = s[n][p]
    <3> HIDE DEF m
    <3>1. \A x \in 0..Len(pieces) : \A y \in x..Len(pieces) :
             \A p \in 1..EndOf(S, pieces, x) : s[y][p] = s[x][p]
      BY JoinedKeeps
    <3> QED
      BY <2>2, <3>1 DEF m
  <2>4. ASSUME NEW p \in 1..Len(pieces[n]) PROVE all[EndOf(S, pieces, n - 1) + p] = pieces[n][p]
    <3>1. EndOf(S, pieces, n - 1) + p \in 1..EndOf(S, pieces, n)
      BY <2>1
    <3> QED
      BY <1>2, <2>1, <2>3, <3>1
  <2> QED
    BY <2>1, <2>4
<1> QED
  BY <1>1, <1>3, <1>4, <1>5, <1>6 DEF all

\* Sequences with one domain have one length.
LEMMA EqualIntervals ==
    ASSUME NEW m \in Nat, NEW n \in Nat, 1..m = 1..n
    PROVE  m = n
<1>1. m > n => m \in 1..m /\ m \notin 1..n
  OBVIOUS
<1>2. n > m => n \in 1..n /\ n \notin 1..m
  OBVIOUS
<1> QED
  BY <1>1, <1>2

-----------------------------------------------------------------------------
(* Reports: the bytes of an attribute, and what the parser makes of them.  *)

\* What the table of the number types gives.
LEMMA NumbersAre ==
    ASSUME NEW t \in NumberTypes
    PROVE  /\ t \in Nat /\ NumberOf(t).size \in 1..8 /\ NumberOf(t).reads \in 1..8
           /\ NumberOf(t).size <= NumberOf(t).reads
<1>1. t \in Nat
  BY DEF NumberTypes, UnsignedTypes
<1>2. ASSUME NEW n \in 1..8
      PROVE  /\ Unsigned(n).size \in 1..8 /\ Unsigned(n).reads \in 1..8
             /\ Unsigned(n).size <= Unsigned(n).reads
  BY <1>2 DEF Unsigned, Entry
<1>3. ASSUME NEW n \in 1..8
      PROVE  /\ Signed(n).size \in 1..8 /\ Signed(n).reads \in 1..8
             /\ Signed(n).size <= Signed(n).reads
  BY <1>3 DEF Signed, Entry
<1>4. CASE t \in UnsignedTypes
  <2>1. (t % 8) + 1 \in 1..8
    BY <1>1
  <2>2. t \in 8..39 /\ t # 16
    BY <1>4 DEF UnsignedTypes
  <2>a. /\ t \notin 40..47 /\ t # 48 /\ t \notin {49, 232, 233} /\ t \notin {224, 225, 226, 234}
        /\ t # 240 /\ t # 56 /\ t # 57 /\ t # 58
    BY <2>2
  <2> HIDE DEF UnsignedTypes, Unsigned
  <2>3. NumberOf(t) = Unsigned((t % 8) + 1)
    BY <1>4, <2>2, <2>a DEF NumberOf
  <2> QED
    BY <1>1, <1>2, <2>1, <2>3
<1>5. CASE t \notin UnsignedTypes /\ t \in 40..47
  <2>1. t - 39 \in 1..8
    BY <1>5
  <2>2. NumberOf(t) = Signed(t - 39)
    BY <1>5 DEF NumberOf
  <2> QED
    BY <1>1, <1>3, <2>1, <2>2
<1>6. CASE t \notin UnsignedTypes /\ t \notin 40..47
  <2>1. t \in {16, 48, 49, 56, 57, 58, 224, 225, 226, 232, 233, 234, 240}
    BY <1>6 DEF NumberTypes
  <2>2. CASE t \in {48, 49, 224, 225, 226, 232, 233, 234, 240}
    <3>1. \/ NumberOf(t) = Unsigned(1) \/ NumberOf(t) = Unsigned(2)
          \/ NumberOf(t) = Unsigned(4) \/ NumberOf(t) = Unsigned(8)
      BY <1>6, <2>2 DEF NumberOf
    <3> QED
      BY <1>1, <1>2, <3>1
  <2>3. CASE t \in {16, 56, 57, 58}
    BY <1>1, <1>6, <2>3 DEF NumberOf, Entry
  <2> QED
    BY <2>1, <2>2, <2>3
<1> QED
  BY <1>4, <1>5, <1>6

\* The kinds of types exclude each other.
LEMMA TypesDiffer ==
    ASSUME NEW t \in KnownTypes
    PROVE  /\ \/ t \in NumberTypes /\ t \notin StringTypes \cup LongTypes \cup VectorTypes \cup {Key}
              \/ t \in StringTypes /\ t \notin NumberTypes \cup LongTypes \cup VectorTypes \cup {Key}
              \/ t \in LongTypes /\ t \notin NumberTypes \cup StringTypes \cup VectorTypes \cup {Key}
              \/ t \in VectorTypes /\ t \notin NumberTypes \cup StringTypes \cup LongTypes \cup {Key}
              \/ t = Key /\ t \notin NumberTypes \cup StringTypes \cup LongTypes \cup VectorTypes
           /\ t # NoData
<1>1. \A x \in UnsignedTypes : x \in 8..39
  BY DEF UnsignedTypes
<1>2. \A x \in NumberTypes : x \in 8..58 \cup 224..240 /\ x \notin {65, 66, 67, 68, 72, 76, 80, 81, 241}
  BY <1>1 DEF NumberTypes
<1> HIDE DEF NumberTypes
<1> QED
  BY <1>2 DEF KnownTypes, StringTypes, LongTypes, VectorTypes, Key, NoData

\* A string of tags is made of bytes.
LEMMA TagsBytes ==
    ASSUME NEW a \in AttributeSet
    PROVE  ValueOf(a) \in Seq(Byte) /\ Len(ValueOf(a)) \in Nat
<1> DEFINE pieces == [j \in DOMAIN a.tags |-> TagBytes(a.tags[j])]
<1>1. a.val \in Seq(Byte) /\ a.tags \in Seq([tag : Byte, type : Byte, val : Seq(Byte)])
  BY DEF AttributeSet
<1>2. DOMAIN a.tags = 1..Len(a.tags) /\ Len(a.tags) \in Nat
  BY <1>1, LenProperties
<1>3. ASSUME NEW j \in DOMAIN a.tags PROVE TagBytes(a.tags[j]) \in Seq(Byte)
  <2>1. a.tags[j] \in [tag : Byte, type : Byte, val : Seq(Byte)]
    BY <1>1, <1>2, ElementOfSeq
  <2>2. <<a.tags[j].tag, a.tags[j].type>> \in Seq(Byte) /\ a.tags[j].val \in Seq(Byte)
    BY <2>1
  <2> QED
    BY <2>2, ConcatProperties DEF TagBytes
<1>4. pieces \in Seq(Seq(Byte))
  BY <1>2, <1>3
<1>5. FlattenSeq(pieces) \in Seq(Byte)
  BY <1>4, Flattened
<1>6. ValueOf(a) \in Seq(Byte)
  BY <1>1, <1>5 DEF ValueOf
<1> QED
  BY <1>6, LenProperties

\* What an attribute looks like: its id, the status in an answer, and unless the read failed its
\* type, the length of a string, and the value.
HeadOf(m) == IF m.answer THEN 3 ELSE 2
LenPrefix(a) == Len(Prefix(a.type, ValueOf(a)))
LenValue(a) == Len(ValueOf(a))
LooksLike(m, a, bytes) ==
    /\ bytes[1] = a.id[1] /\ bytes[2] = a.id[2]
    /\ m.answer => bytes[3] = a.status
    /\ a.status # SUCCESS => Len(bytes) = 3
    /\ a.status = SUCCESS =>
        /\ Len(bytes) = HeadOf(m) + 1 + LenPrefix(a) + LenValue(a)
        /\ bytes[HeadOf(m) + 1] = a.type
        /\ \A j \in 1..LenPrefix(a) : bytes[HeadOf(m) + 1 + j] = Prefix(a.type, ValueOf(a))[j]
        /\ \A j \in 1..LenValue(a) : bytes[HeadOf(m) + 1 + LenPrefix(a) + j] = ValueOf(a)[j]

\* A value's length is in the bytes before it.
LEMMA PrefixIs ==
    ASSUME NEW t \in Byte, NEW v \in Seq(Byte), AsLong(t, v)
    PROVE  /\ Prefix(t, v) \in Seq(Byte) /\ Len(Prefix(t, v)) \in Nat
           /\ t \in StringTypes => Len(Prefix(t, v)) = 1 /\ Prefix(t, v)[1] = Len(v)
           /\ t \in LongTypes \cup VectorTypes =>
                /\ Len(Prefix(t, v)) = 2
                /\ Prefix(t, v)[1] = Len(v) % 256 /\ Prefix(t, v)[2] = Len(v) \div 256
                /\ Len(v) = Prefix(t, v)[1] + 256 * Prefix(t, v)[2]
           /\ t \notin StringTypes \cup LongTypes \cup VectorTypes => Prefix(t, v) = <<>>
<1>1. Len(v) \in Nat
  BY LenProperties
<1>a. \A x \in LongTypes \cup VectorTypes : x \in KnownTypes
  BY DEF KnownTypes
<1>2. CASE t \in StringTypes
  <2>1. t \notin LongTypes \cup VectorTypes
    BY <1>2 DEF StringTypes, LongTypes, VectorTypes
  <2>2. Prefix(t, v) = <<Len(v)>>
    BY <1>2, <2>1 DEF Prefix
  <2>4. Len(v) < 256
    BY <1>2 DEF AsLong
  <2>5. Len(v) \in Byte
    <3> DEFINE n == Len(v)
    <3>1. n \in Nat /\ n < 256
      BY <1>1, <2>4
    <3> HIDE DEF n
    <3>2. n \in Byte
      BY <3>1 DEF Byte
    <3> QED
      BY <3>2 DEF n
  <2> HIDE DEF Byte
  <2>3. <<Len(v)>> \in Seq(Byte) /\ Len(<<Len(v)>>) = 1 /\ <<Len(v)>>[1] = Len(v)
    BY <2>5
  <2> QED
    BY <1>2, <2>1, <2>2, <2>3
<1>3. CASE t \in LongTypes \cup VectorTypes
  <2>1. t \notin StringTypes
    BY <1>3 DEF StringTypes, LongTypes, VectorTypes
  <2>2. Prefix(t, v) = <<Len(v) % 256, Len(v) \div 256>>
    BY <1>3, <2>1 DEF Prefix
  <2> DEFINE n == Len(v)
             lo == n % 256
             hi == n \div 256
  <2>3. n < 65536 /\ n \in Nat
    BY <1>1, <1>3 DEF AsLong
  <2> HIDE DEF n
  <2>4. lo \in 0..255 /\ hi \in 0..255 /\ n = lo + 256 * hi
    BY <2>3
  <2> HIDE DEF lo, hi
  <2>5. lo \in Byte /\ hi \in Byte
    BY <2>4 DEF Byte
  <2>6. <<lo, hi>> \in Seq(Byte) /\ Len(<<lo, hi>>) = 2 /\ <<lo, hi>>[1] = lo /\ <<lo, hi>>[2] = hi
    BY <2>5
  <2> QED
    BY <1>3, <2>1, <2>2, <2>4, <2>6 DEF n, lo, hi
<1>4. CASE t \notin StringTypes \cup LongTypes \cup VectorTypes
  <2>1. Prefix(t, v) = <<>>
    BY <1>4 DEF Prefix
  <2>2. <<>> \in Seq(Byte) /\ Len(<<>>) = 0
    OBVIOUS
  <2> QED
    BY <1>4, <2>1, <2>2
<1> QED
  BY <1>2, <1>3, <1>4

\* The bytes of an attribute are these parts, one after another.
LEMMA AttributeIs ==
    ASSUME NEW m, NEW a \in AttributeSet, m.answer \in BOOLEAN, IsFormed(m, a)
    PROVE  /\ AttributeBytes(m, a) \in Seq(Byte) /\ Len(AttributeBytes(m, a)) \in Nat
           /\ 2 <= Len(AttributeBytes(m, a))
           /\ LenValue(a) \in Nat /\ (a.status = SUCCESS => LenPrefix(a) \in Nat)
           /\ LooksLike(m, a, AttributeBytes(m, a))
<1> DEFINE v == ValueOf(a)
           pre == Prefix(a.type, v)
           status == IF m.answer THEN <<a.status>> ELSE <<>>
           body == IF a.status = SUCCESS THEN <<a.type>> \o pre \o v ELSE <<>>
<1>1. v \in Seq(Byte) /\ Len(v) \in Nat
  BY TagsBytes
<1>2. /\ a.id \in [1..2 -> Byte] /\ a.status \in Byte /\ a.type \in Byte
      /\ a.status # SUCCESS => m.answer
      /\ a.status = SUCCESS => AsLong(a.type, v)
  BY DEF AttributeSet, IsFormed
<1>3. a.id \in Seq(Byte) /\ Len(a.id) = 2
  <2>1. a.id \in Seq(Byte)
    BY <1>2, SeqDef
  <2> DEFINE n == Len(a.id)
  <2>2. DOMAIN a.id = 1..2 /\ DOMAIN a.id = 1..n /\ n \in Nat
    BY <1>2, <2>1, LenProperties
  <2> HIDE DEF n
  <2>3. n = 2
    BY <2>2, EqualIntervals
  <2> QED
    BY <2>1, <2>3 DEF n
<1>4. status \in Seq(Byte) /\ Len(status) = HeadOf(m) - 2 /\ (m.answer => status[1] = a.status)
  <2>1. CASE m.answer
    <3>1. status = <<a.status>>
      BY <2>1
    <3> QED
      BY <1>2, <2>1, <3>1 DEF HeadOf
  <2>2. CASE ~m.answer
    <3>1. status = <<>>
      BY <2>2
    <3> QED
      BY <2>2, <3>1 DEF HeadOf
  <2> QED
    BY <2>1, <2>2
<1> HIDE DEF v, status
<1>5. /\ body \in Seq(Byte) /\ Len(body) \in Nat
      /\ a.status # SUCCESS => Len(body) = 0
      /\ a.status = SUCCESS =>
            /\ Len(pre) \in Nat
            /\ Len(body) = 1 + Len(pre) + Len(v) /\ body[1] = a.type
            /\ \A j \in 1..Len(pre) : body[1 + j] = pre[j]
            /\ \A j \in 1..Len(v) : body[1 + Len(pre) + j] = v[j]
  <2>1. CASE a.status = SUCCESS
    <3>1. pre \in Seq(Byte) /\ Len(pre) \in Nat
      BY <1>1, <1>2, <2>1, PrefixIs
    <3> HIDE DEF pre
    <3> DEFINE rest == pre \o v
    <3>2. body = <<a.type>> \o pre \o v
      BY <2>1
    <3>3. <<a.type>> \in Seq(Byte) /\ Len(<<a.type>>) = 1 /\ <<a.type>>[1] = a.type
      BY <1>2
    <3> DEFINE one == <<a.type>>
               both == one \o pre
    <3> HIDE DEF one
    <3>4. /\ both \in Seq(Byte) /\ Len(both) = 1 + Len(pre)
          /\ \A j \in 1..1 + Len(pre) : both[j] = IF j <= 1 THEN one[j] ELSE pre[j - 1]
      BY <3>1, <3>3, ConcatProperties DEF one
    <3> HIDE DEF both
    <3>5. /\ body \in Seq(Byte) /\ Len(body) = 1 + Len(pre) + Len(v)
          /\ \A j \in 1..1 + Len(pre) + Len(v) : body[j] = IF j <= 1 + Len(pre) THEN both[j] ELSE v[j - (1 + Len(pre))]
      <4>1. body = both \o v
        BY <3>2 DEF both, one
      <4> HIDE DEF body
      <4>2. /\ body \in Seq(Byte) /\ Len(body) = Len(both) + Len(v)
            /\ \A j \in 1..Len(both) + Len(v) : body[j] = IF j <= Len(both) THEN both[j] ELSE v[j - Len(both)]
        BY <1>1, <3>4, <4>1, ConcatProperties
      <4>3. Len(both) = 1 + Len(pre)
        BY <3>4
      <4> QED
        BY <4>2, <4>3, Zenon
    <3> HIDE DEF body
    <3>6. body[1] = a.type
      <4>1. 1 \in 1..1 + Len(pre) /\ 1 \in 1..1 + Len(pre) + Len(v)
        BY <1>1, <3>1
      <4>2. body[1] = both[1] /\ both[1] = one[1]
        BY <3>1, <3>4, <3>5, <4>1
      <4> QED
        BY <3>3, <4>2 DEF one
    <3>7. ASSUME NEW j \in 1..Len(pre) PROVE body[1 + j] = pre[j]
      <4>1. /\ 1 + j \in 1..1 + Len(pre) + Len(v) /\ 1 + j \in 1..1 + Len(pre) /\ 1 + j <= 1 + Len(pre)
            /\ ~(1 + j <= 1) /\ (1 + j) - 1 = j
        BY <1>1, <3>1
      <4> QED
        BY <3>4, <3>5, <4>1
    <3>8. ASSUME NEW j \in 1..Len(v) PROVE body[1 + Len(pre) + j] = v[j]
      <4>1. /\ 1 + Len(pre) + j \in 1..1 + Len(pre) + Len(v) /\ ~(1 + Len(pre) + j <= 1 + Len(pre))
            /\ (1 + Len(pre) + j) - (1 + Len(pre)) = j
        BY <1>1, <3>1
      <4> QED
        BY <3>5, <4>1
    <3>9. Len(body) \in Nat
      BY <1>1, <3>1, <3>5
    <3> QED
      BY <2>1, <3>1, <3>5, <3>6, <3>7, <3>8, <3>9
  <2>2. CASE a.status # SUCCESS
    <3>1. body = <<>>
      BY <2>2
    <3> QED
      BY <2>2, <3>1
  <2> QED
    BY <2>1, <2>2
<1>6. AttributeBytes(m, a) = a.id \o status \o body
  BY DEF AttributeBytes, status, v
<1> HIDE DEF body
<1> DEFINE head == a.id \o status
           h == HeadOf(m)
           all == AttributeBytes(m, a)
<1>7. h \in {2, 3} /\ (m.answer => h = 3)
  BY DEF HeadOf
<1> HIDE DEF h
<1>8. /\ head \in Seq(Byte) /\ Len(head) = h
      /\ head[1] = a.id[1] /\ head[2] = a.id[2] /\ (m.answer => head[3] = a.status)
  <2>1. Len(status) = h - 2
    BY <1>4 DEF h
  <2>a. head \in Seq(Byte) /\ Len(head) = Len(a.id) + Len(status)
        /\ \A j \in 1..Len(a.id) + Len(status) : head[j] = IF j <= Len(a.id) THEN a.id[j] ELSE status[j - Len(a.id)]
    BY <1>3, <1>4, ConcatProperties
  <2> HIDE DEF head
  <2>2. head \in Seq(Byte) /\ Len(head) = 2 + (h - 2)
        /\ \A j \in 1..2 + (h - 2) : head[j] = IF j <= 2 THEN a.id[j] ELSE status[j - 2]
    BY <1>3, <2>1, <2>a, Zenon
  <2>3. m.answer => h = 3 /\ status[1] = a.status
    BY <1>4, <1>7
  <2> HIDE DEF head, status
  <2> QED
    BY <1>7, <2>2, <2>3
<1> HIDE DEF head
<1>9. /\ all \in Seq(Byte) /\ Len(all) = h + Len(body)
      /\ \A j \in 1..h + Len(body) : all[j] = IF j <= h THEN head[j] ELSE body[j - h]
  <2>1. all = head \o body
    BY <1>6 DEF head
  <2> HIDE DEF all
  <2>2. /\ all \in Seq(Byte) /\ Len(all) = Len(head) + Len(body)
        /\ \A j \in 1..Len(head) + Len(body) : all[j] = IF j <= Len(head) THEN head[j] ELSE body[j - Len(head)]
    <3>1. head \in Seq(Byte) /\ body \in Seq(Byte)
      BY <1>5, <1>8
    <3> QED
      BY <2>1, <3>1, ConcatProperties
  <2>3. Len(head) = h
    BY <1>8
  <2> QED
    BY <2>2, <2>3, Zenon
<1> HIDE DEF all, pre
<1>10. all[1] = a.id[1] /\ all[2] = a.id[2] /\ (m.answer => all[3] = a.status) /\ Len(all) \in Nat /\ 2 <= Len(all)
  BY <1>5, <1>7, <1>8, <1>9
<1>11. a.status # SUCCESS => Len(all) = 3
  BY <1>2, <1>5, <1>7, <1>9
<1>12. ASSUME a.status = SUCCESS
       PROVE  /\ Len(pre) \in Nat /\ Len(all) = h + 1 + Len(pre) + Len(v) /\ all[h + 1] = a.type
              /\ \A j \in 1..Len(pre) : all[h + 1 + j] = pre[j]
              /\ \A j \in 1..Len(v) : all[h + 1 + Len(pre) + j] = v[j]
  <2>1. Len(pre) \in Nat /\ Len(body) = 1 + Len(pre) + Len(v) /\ body[1] = a.type
    BY <1>5, <1>12
  <2>2. \A j \in 1..Len(body) : all[h + j] = body[j]
    <3> SUFFICES ASSUME NEW j \in 1..Len(body) PROVE all[h + j] = body[j]
      OBVIOUS
    <3>1. h + j \in 1..h + Len(body) /\ ~(h + j <= h) /\ (h + j) - h = j
      BY <1>5, <1>7
    <3> QED
      BY <1>9, <3>1
  <2>3. all[h + 1] = a.type
    BY <1>1, <2>1, <2>2
  <2>4. ASSUME NEW j \in 1..Len(pre) PROVE all[h + 1 + j] = pre[j]
    <3>1. 1 + j \in 1..Len(body) /\ h + (1 + j) = h + 1 + j
      BY <1>1, <1>7, <2>1
    <3>2. body[1 + j] = pre[j]
      BY <1>5, <1>12
    <3> QED
      BY <2>2, <3>1, <3>2
  <2>5. ASSUME NEW j \in 1..Len(v) PROVE all[h + 1 + Len(pre) + j] = v[j]
    <3>1. 1 + Len(pre) + j \in 1..Len(body) /\ h + (1 + Len(pre) + j) = h + 1 + Len(pre) + j
      BY <1>1, <1>7, <2>1
    <3>2. body[1 + Len(pre) + j] = v[j]
      BY <1>5, <1>12
    <3> QED
      BY <2>2, <3>1, <3>2
  <2>6. Len(all) = h + 1 + Len(pre) + Len(v)
    BY <1>1, <1>7, <1>9, <2>1
  <2> QED
    BY <2>1, <2>3, <2>4, <2>5, <2>6
<1> QED
  BY <1>1, <1>9, <1>10, <1>11, <1>12 DEF LooksLike, LenPrefix, LenValue, all, h, pre, v

\* What the lemma Flattened says.
IsFlattened(S, pieces) ==
    /\ FlattenSeq(pieces) \in Seq(S) /\ Len(FlattenSeq(pieces)) \in Nat /\ Len(pieces) \in Nat
    /\ EndOf(S, pieces, 0) = 0 /\ EndOf(S, pieces, Len(pieces)) = Len(FlattenSeq(pieces))
    /\ \A n \in 0..Len(pieces) : EndOf(S, pieces, n) \in 0..Len(FlattenSeq(pieces))
    /\ \A n \in 1..Len(pieces) :
         /\ pieces[n] \in Seq(S) /\ Len(pieces[n]) \in Nat
         /\ EndOf(S, pieces, n) = EndOf(S, pieces, n - 1) + Len(pieces[n])
         /\ \A p \in 1..Len(pieces[n]) : FlattenSeq(pieces)[EndOf(S, pieces, n - 1) + p] = pieces[n][p]

\* Where the bytes of the first n attributes of a message end, and how many of them were read.
BytesPieces(m) == [j \in DOMAIN m.attrs |-> AttributeBytes(m, m.attrs[j])]
SentPieces(m) == [j \in DOMAIN m.attrs |-> IF m.attrs[j].status = SUCCESS THEN <<m.attrs[j]>> ELSE <<>>]
Starts(m, n) == EndOf(Byte, BytesPieces(m), n)
SentBefore(m, n) == EndOf(AttributeSet, SentPieces(m), n)

\* A message of the device has such pieces.
LEMMA MessageIs ==
    ASSUME NEW m, FromDevice(m)
    PROVE  /\ m.attrs \in Seq(AttributeSet) /\ Len(m.attrs) \in Nat /\ m.answer \in BOOLEAN
           /\ WithStatus(m) = m.answer
           /\ \A n \in 1..Len(m.attrs) : m.attrs[n] \in AttributeSet /\ IsFormed(m, m.attrs[n])
<1>1. /\ m.attrs \in Seq(AttributeSet) /\ m.answer \in BOOLEAN
      /\ m.answer => m.cluster \notin {"ANALOG_INPUT", "XIAOMI_SWITCH"}
  BY DEF FromDevice
<1>2. Len(m.attrs) \in Nat /\ DOMAIN m.attrs = 1..Len(m.attrs)
  BY <1>1, LenProperties
<1>3. \A n \in 1..Len(m.attrs) : m.attrs[n] \in AttributeSet
  BY <1>1, ElementOfSeq
<1>4. \A n \in 1..Len(m.attrs) : IsFormed(m, m.attrs[n])
  BY <1>2 DEF FromDevice
<1> QED
  BY <1>1, <1>2, <1>3, <1>4 DEF WithStatus

\* The bytes of the n-th attribute are between Starts(m, n - 1) and Starts(m, n).
LEMMA StartsAre ==
    ASSUME NEW m, FromDevice(m)
    PROVE  /\ Encode(m) \in Seq(Byte) /\ Len(Encode(m)) \in Nat
           /\ Starts(m, 0) = 0 /\ Starts(m, Len(m.attrs)) = Len(Encode(m))
           /\ \A n \in 0..Len(m.attrs) : Starts(m, n) \in 0..Len(Encode(m))
           /\ \A n \in 1..Len(m.attrs) :
                /\ Starts(m, n) = Starts(m, n - 1) + Len(AttributeBytes(m, m.attrs[n]))
                /\ \A p \in 1..Len(AttributeBytes(m, m.attrs[n])) :
                      Encode(m)[Starts(m, n - 1) + p] = AttributeBytes(m, m.attrs[n])[p]
<1> DEFINE pieces == BytesPieces(m)
<1>1. /\ m.attrs \in Seq(AttributeSet) /\ Len(m.attrs) \in Nat /\ m.answer \in BOOLEAN
      /\ \A n \in 1..Len(m.attrs) : m.attrs[n] \in AttributeSet /\ IsFormed(m, m.attrs[n])
  BY MessageIs
<1>2. DOMAIN m.attrs = 1..Len(m.attrs)
  BY <1>1, LenProperties
<1>3. \A n \in 1..Len(m.attrs) : AttributeBytes(m, m.attrs[n]) \in Seq(Byte)
  BY <1>1, AttributeIs
<1> DEFINE len == Len(m.attrs)
<1>4. pieces = [j \in 1..len |-> AttributeBytes(m, m.attrs[j])]
  BY <1>2 DEF BytesPieces
<1>5. pieces \in [1..len -> Seq(Byte)]
  BY <1>3, <1>4
<1> HIDE DEF pieces, len
<1>6. pieces \in Seq(Seq(Byte)) /\ Len(pieces) = len
  <2>1. len \in Nat
    BY <1>1 DEF len
  <2>2. pieces \in Seq(Seq(Byte))
    BY <1>5, <2>1, SeqDef
  <2>3. Len(pieces) \in Nat /\ DOMAIN pieces = 1..Len(pieces) /\ DOMAIN pieces = 1..len
    BY <1>5, <2>2, LenProperties
  <2> DEFINE l == Len(pieces)
  <2>4. l \in Nat /\ 1..l = 1..len
    BY <2>3
  <2> HIDE DEF l
  <2>5. l = len
    BY <2>1, <2>4, EqualIntervals
  <2> QED
    BY <2>2, <2>5 DEF l
<1>7. Encode(m) = FlattenSeq(pieces)
  BY DEF Encode, pieces, BytesPieces
<1>8. \A n \in 1..len : pieces[n] = AttributeBytes(m, m.attrs[n])
  BY <1>4
<1>9. /\ FlattenSeq(pieces) \in Seq(Byte) /\ Len(FlattenSeq(pieces)) \in Nat
      /\ EndOf(Byte, pieces, 0) = 0 /\ EndOf(Byte, pieces, Len(pieces)) = Len(FlattenSeq(pieces))
      /\ \A n \in 0..Len(pieces) : EndOf(Byte, pieces, n) \in 0..Len(FlattenSeq(pieces))
      /\ \A n \in 1..Len(pieces) :
           /\ EndOf(Byte, pieces, n) = EndOf(Byte, pieces, n - 1) + Len(pieces[n])
           /\ \A p \in 1..Len(pieces[n]) : FlattenSeq(pieces)[EndOf(Byte, pieces, n - 1) + p] = pieces[n][p]
  BY <1>6, Flattened
<1>10. \A n : Starts(m, n) = EndOf(Byte, pieces, n)
  BY DEF Starts, pieces
<1>11. Encode(m) \in Seq(Byte) /\ Len(Encode(m)) \in Nat
  BY <1>7, <1>9
<1>12. Starts(m, 0) = 0 /\ Starts(m, len) = Len(Encode(m))
  BY <1>6, <1>7, <1>9, <1>10
<1>13. \A n \in 0..len : Starts(m, n) \in 0..Len(Encode(m))
  BY <1>6, <1>7, <1>9, <1>10
<1>14. ASSUME NEW n \in 1..len
       PROVE  /\ Starts(m, n) = Starts(m, n - 1) + Len(AttributeBytes(m, m.attrs[n]))
              /\ \A p \in 1..Len(AttributeBytes(m, m.attrs[n])) :
                    Encode(m)[Starts(m, n - 1) + p] = AttributeBytes(m, m.attrs[n])[p]
  <2>1. Starts(m, n) = EndOf(Byte, pieces, n) /\ Starts(m, n - 1) = EndOf(Byte, pieces, n - 1)
    BY <1>10
  <2>2. pieces[n] = AttributeBytes(m, m.attrs[n])
    BY <1>8
  <2> QED
    BY <1>6, <1>7, <1>9, <2>1, <2>2
<1> QED
  BY <1>11, <1>12, <1>13, <1>14 DEF len

\* An attribute is in Sent if its read did not fail.
LEMMA SentIs ==
    ASSUME NEW m, FromDevice(m)
    PROVE  /\ Sent(m) \in Seq(AttributeSet) /\ Len(Sent(m)) \in Nat
           /\ SentBefore(m, 0) = 0 /\ SentBefore(m, Len(m.attrs)) = Len(Sent(m))
           /\ \A n \in 0..Len(m.attrs) : SentBefore(m, n) \in 0..Len(Sent(m))
           /\ \A n \in 1..Len(m.attrs) :
                /\ m.attrs[n].status = SUCCESS =>
                     SentBefore(m, n) = SentBefore(m, n - 1) + 1 /\ Sent(m)[SentBefore(m, n)] = m.attrs[n]
                /\ m.attrs[n].status # SUCCESS => SentBefore(m, n) = SentBefore(m, n - 1)
<1> DEFINE pieces == SentPieces(m)
           piece(a) == IF a.status = SUCCESS THEN <<a>> ELSE <<>>
           len == Len(m.attrs)
<1>1. m.attrs \in Seq(AttributeSet) /\ len \in Nat /\ \A n \in 1..len : m.attrs[n] \in AttributeSet
  BY MessageIs
<1>2. DOMAIN m.attrs = 1..len
  BY <1>1, LenProperties
<1>3. pieces = [j \in 1..len |-> piece(m.attrs[j])]
  BY <1>2 DEF SentPieces
<1>4. ASSUME NEW a \in AttributeSet
      PROVE  /\ piece(a) \in Seq(AttributeSet)
             /\ a.status = SUCCESS => Len(piece(a)) = 1 /\ piece(a)[1] = a
             /\ a.status # SUCCESS => Len(piece(a)) = 0
  <2>1. CASE a.status = SUCCESS
    <3>1. piece(a) = <<a>>
      BY <2>1
    <3> HIDE DEF AttributeSet
    <3> QED
      BY <2>1, <3>1
  <2>2. CASE a.status # SUCCESS
    <3>1. piece(a) = <<>>
      BY <2>2
    <3> QED
      BY <2>2, <3>1
  <2> QED
    BY <2>1, <2>2
<1> HIDE DEF pieces, len, piece
<1>5. pieces \in [1..len -> Seq(AttributeSet)]
  BY <1>1, <1>3, <1>4
<1>6. pieces \in Seq(Seq(AttributeSet)) /\ Len(pieces) = len
  <2>2. pieces \in Seq(Seq(AttributeSet))
    BY <1>1, <1>5, SeqDef
  <2>3. Len(pieces) \in Nat /\ DOMAIN pieces = 1..Len(pieces) /\ DOMAIN pieces = 1..len
    BY <1>5, <2>2, LenProperties
  <2> DEFINE l == Len(pieces)
  <2>4. l \in Nat /\ 1..l = 1..len
    BY <2>3
  <2> HIDE DEF l
  <2>5. l = len
    BY <1>1, <2>4, EqualIntervals
  <2> QED
    BY <2>2, <2>5 DEF l
<1>7. Sent(m) = FlattenSeq(pieces)
  BY DEF Sent, pieces, SentPieces
<1>8. \A n \in 1..len : pieces[n] = piece(m.attrs[n])
  BY <1>3
<1>a. /\ FlattenSeq(pieces) \in Seq(AttributeSet) /\ Len(FlattenSeq(pieces)) \in Nat
      /\ EndOf(AttributeSet, pieces, 0) = 0
      /\ EndOf(AttributeSet, pieces, Len(pieces)) = Len(FlattenSeq(pieces))
      /\ \A n \in 0..Len(pieces) : EndOf(AttributeSet, pieces, n) \in 0..Len(FlattenSeq(pieces))
      /\ \A n \in 1..Len(pieces) :
           /\ EndOf(AttributeSet, pieces, n) = EndOf(AttributeSet, pieces, n - 1) + Len(pieces[n])
           /\ \A p \in 1..Len(pieces[n]) :
                 FlattenSeq(pieces)[EndOf(AttributeSet, pieces, n - 1) + p] = pieces[n][p]
  <2>1. \A S : \A x \in Seq(Seq(S)) : IsFlattened(S, x)
    BY Flattened DEF IsFlattened
  <2>2. IsFlattened(AttributeSet, pieces)
    BY <1>6, <2>1
  <2> QED
    BY <2>2 DEF IsFlattened
<1> DEFINE end(n) == EndOf(AttributeSet, pieces, n)
<1>9. /\ Sent(m) \in Seq(AttributeSet) /\ Len(Sent(m)) \in Nat
      /\ end(0) = 0 /\ end(len) = Len(Sent(m))
      /\ \A n \in 0..len : end(n) \in 0..Len(Sent(m))
      /\ \A n \in 1..len : /\ end(n) = end(n - 1) + Len(pieces[n])
                           /\ \A p \in 1..Len(pieces[n]) : Sent(m)[end(n - 1) + p] = pieces[n][p]
  BY <1>6, <1>7, <1>a
<1>10. \A n : SentBefore(m, n) = end(n)
  BY DEF SentBefore, pieces
<1> HIDE DEF end
<1>11. ASSUME NEW n \in 1..len
       PROVE  /\ m.attrs[n].status = SUCCESS => end(n) = end(n - 1) + 1 /\ Sent(m)[end(n)] = m.attrs[n]
              /\ m.attrs[n].status # SUCCESS => end(n) = end(n - 1)
  <2>1. n - 1 \in 0..len /\ m.attrs[n] \in AttributeSet
    BY <1>1
  <2>2. end(n - 1) \in Nat
    BY <1>9, <2>1
  <2>3. CASE m.attrs[n].status = SUCCESS
    <3>1. Len(pieces[n]) = 1 /\ pieces[n][1] = m.attrs[n]
      BY <1>4, <1>8, <2>1, <2>3
    <3>2. 1 \in 1..Len(pieces[n])
      BY <3>1
    <3> QED
      BY <1>9, <2>3, <3>1, <3>2
  <2>4. CASE m.attrs[n].status # SUCCESS
    <3>1. Len(pieces[n]) = 0
      BY <1>4, <1>8, <2>1, <2>4
    <3> QED
      BY <1>9, <2>2, <2>4, <3>1
  <2> QED
    BY <2>3, <2>4
<1> QED
  BY <1>9, <1>10, <1>11, Zenon DEF len

\* The next attribute of a message, after the first n of them: a is read from the payload p.
NextOf(m, n) == m.attrs[n + 1]
StandsAt(m, n, a, p, from) ==
    /\ from + 2 <= Starts(m, n + 1) /\ Starts(m, n + 1) <= Len(p)
    /\ p[from + 1] = a.id[1] /\ p[from + 2] = a.id[2]
    /\ m.answer => from + 3 <= Len(p) /\ p[from + 3] = a.status
    /\ a.status # SUCCESS => m.answer /\ Starts(m, n + 1) = from + 3 /\ SentBefore(m, n + 1) = SentBefore(m, n)
    /\ a.status = SUCCESS =>
         /\ Starts(m, n + 1) = from + HeadOf(m) + 1 + LenPrefix(a) + LenValue(a)
         /\ p[from + HeadOf(m) + 1] = a.type
         /\ \A j \in 1..LenPrefix(a) : p[from + HeadOf(m) + 1 + j] = Prefix(a.type, ValueOf(a))[j]
         /\ \A j \in 1..LenValue(a) : p[from + HeadOf(m) + 1 + LenPrefix(a) + j] = ValueOf(a)[j]
         /\ SentBefore(m, n + 1) = SentBefore(m, n) + 1 /\ SentBefore(m, n + 1) \in 1..Len(Sent(m))
         /\ Sent(m)[SentBefore(m, n + 1)] = a

\* The bytes after the first n attributes are those of the next one.
LEMMA NextStands ==
    ASSUME NEW m, FromDevice(m), NEW n \in 0..Len(m.attrs), n # Len(m.attrs)
    PROVE  /\ NextOf(m, n) \in AttributeSet /\ IsFormed(m, NextOf(m, n))
           /\ StandsAt(m, n, NextOf(m, n), Encode(m), Starts(m, n))
<1> DEFINE a == m.attrs[n + 1]
           bytes == AttributeBytes(m, a)
           from == Starts(m, n)
           p == Encode(m)
           h == HeadOf(m)
           lp == LenPrefix(a)
           lv == LenValue(a)
           next == Starts(m, n + 1)
           len == Len(m.attrs)
           size == Len(bytes)
<1>1. len \in Nat /\ n \in 0..len /\ n # len /\ m.answer \in BOOLEAN
  BY MessageIs
<1>2. n + 1 \in 1..len /\ (n + 1) - 1 = n /\ n + 1 \in 0..len /\ n \in 0..len
  BY <1>1
<1>3. a \in AttributeSet /\ IsFormed(m, a)
  BY <1>2, MessageIs DEF len
<1>4. /\ size \in Nat /\ 2 <= size /\ lv \in Nat /\ (a.status = SUCCESS => lp \in Nat)
      /\ LooksLike(m, a, bytes)
  BY <1>1, <1>3, AttributeIs
<1>5. /\ from \in Nat /\ next \in Nat /\ next <= Len(p) /\ Len(p) \in Nat
      /\ next = from + size /\ \A j \in 1..size : p[from + j] = bytes[j]
  <2>1. from \in 0..Len(p) /\ next \in 0..Len(p) /\ Len(p) \in Nat
    BY <1>2, StartsAre DEF len
  <2>2. Starts(m, n + 1) = Starts(m, (n + 1) - 1) + Len(AttributeBytes(m, m.attrs[n + 1]))
        /\ \A j \in 1..Len(AttributeBytes(m, m.attrs[n + 1])) :
              Encode(m)[Starts(m, (n + 1) - 1) + j] = AttributeBytes(m, m.attrs[n + 1])[j]
    BY <1>2, StartsAre DEF len
  <2>3. next = from + size /\ \A j \in 1..size : p[from + j] = bytes[j]
    BY <1>2, <2>2
  <2> HIDE DEF next, from, size, p
  <2> QED
    BY <2>1, <2>3
<1>6. h \in {2, 3} /\ (m.answer => h = 3)
  BY DEF HeadOf
<1>7. /\ bytes[1] = a.id[1] /\ bytes[2] = a.id[2] /\ (m.answer => bytes[3] = a.status)
      /\ a.status # SUCCESS => size = 3
  BY <1>4 DEF LooksLike
<1>8. a.status = SUCCESS =>
        /\ lp \in Nat /\ size = h + 1 + lp + lv /\ bytes[h + 1] = a.type
        /\ \A j \in 1..lp : bytes[h + 1 + j] = Prefix(a.type, ValueOf(a))[j]
        /\ \A j \in 1..lv : bytes[h + 1 + lp + j] = ValueOf(a)[j]
  BY <1>4 DEF LooksLike
<1>9. a.status # SUCCESS => m.answer
  BY <1>3 DEF IsFormed
<1>10. /\ a.status = SUCCESS =>
            /\ SentBefore(m, n + 1) = SentBefore(m, n) + 1 /\ SentBefore(m, n + 1) \in 1..Len(Sent(m))
            /\ Sent(m)[SentBefore(m, n + 1)] = a
       /\ a.status # SUCCESS => SentBefore(m, n + 1) = SentBefore(m, n)
  <2>1. /\ a.status = SUCCESS =>
             SentBefore(m, n + 1) = SentBefore(m, (n + 1) - 1) + 1 /\ Sent(m)[SentBefore(m, n + 1)] = a
        /\ a.status # SUCCESS => SentBefore(m, n + 1) = SentBefore(m, (n + 1) - 1)
    BY <1>2, SentIs DEF len
  <2>2. SentBefore(m, n) \in 0..Len(Sent(m)) /\ SentBefore(m, n + 1) \in 0..Len(Sent(m)) /\ Len(Sent(m)) \in Nat
    BY <1>2, SentIs DEF len
  <2> DEFINE b1 == SentBefore(m, n)
             b2 == SentBefore(m, n + 1)
             ls == Len(Sent(m))
  <2>3. b1 \in 0..ls /\ b2 \in 0..ls /\ ls \in Nat /\ (a.status = SUCCESS => b2 = b1 + 1)
    BY <1>2, <2>1, <2>2
  <2>4. a.status # SUCCESS => b2 = b1
    BY <1>2, <2>1
  <2> HIDE DEF b1, b2, ls
  <2>5. a.status = SUCCESS => b2 = b1 + 1 /\ b2 \in 1..ls
    BY <2>3
  <2> QED
    BY <2>1, <2>4, <2>5 DEF b1, b2, ls
<1> HIDE DEF a, bytes, from, p, h, lp, lv, next, len, size
<1>11. 1 \in 1..size /\ 2 \in 1..size
  BY <1>4
<1>12. /\ from + 2 <= next
       /\ p[from + 1] = a.id[1] /\ p[from + 2] = a.id[2]
  BY <1>4, <1>5, <1>7, <1>11
<1>13. a.status = SUCCESS => 3 <= size
  BY <1>4, <1>6, <1>8
<1>14. m.answer => from + 3 <= Len(p) /\ p[from + 3] = a.status
  BY <1>4, <1>5, <1>7, <1>13
<1>15. a.status # SUCCESS => next = from + 3
  BY <1>5, <1>7
<1>16. ASSUME a.status = SUCCESS
       PROVE  /\ next = from + h + 1 + lp + lv /\ p[from + h + 1] = a.type
              /\ \A j \in 1..lp : p[from + h + 1 + j] = Prefix(a.type, ValueOf(a))[j]
              /\ \A j \in 1..lv : p[from + h + 1 + lp + j] = ValueOf(a)[j]
  <2>1. lp \in Nat /\ size = h + 1 + lp + lv
    BY <1>8, <1>16
  <2>2. next = from + h + 1 + lp + lv
    BY <1>4, <1>5, <1>6, <2>1
  <2>3. p[from + h + 1] = a.type
    <3>1. h + 1 \in 1..size /\ from + (h + 1) = from + h + 1
      BY <1>4, <1>5, <1>6, <2>1
    <3> QED
      BY <1>5, <1>8, <1>16, <3>1
  <2>4. ASSUME NEW j \in 1..lp PROVE p[from + h + 1 + j] = Prefix(a.type, ValueOf(a))[j]
    <3>1. h + 1 + j \in 1..size /\ from + (h + 1 + j) = from + h + 1 + j
      BY <1>4, <1>5, <1>6, <2>1
    <3>2. bytes[h + 1 + j] = Prefix(a.type, ValueOf(a))[j]
      BY <1>8, <1>16
    <3> QED
      BY <1>5, <3>1, <3>2
  <2>5. ASSUME NEW j \in 1..lv PROVE p[from + h + 1 + lp + j] = ValueOf(a)[j]
    <3>1. h + 1 + lp + j \in 1..size /\ from + (h + 1 + lp + j) = from + h + 1 + lp + j
      BY <1>4, <1>5, <1>6, <2>1
    <3>2. bytes[h + 1 + lp + j] = ValueOf(a)[j]
      BY <1>8, <1>16
    <3> QED
      BY <1>5, <3>1, <3>2
  <2> QED
    BY <2>2, <2>3, <2>4, <2>5
<1>17. StandsAt(m, n, a, p, from)
  BY <1>5, <1>9, <1>10, <1>12, <1>14, <1>15, <1>16 DEF StandsAt, next, h, lp, lv
<1> QED
  BY <1>3, <1>17 DEF NextOf, a, p, from

\* Where the bytes of a message end, all its attributes were read.
LEMMA NothingAfterLast ==
    ASSUME NEW m, FromDevice(m), NEW n \in 0..Len(m.attrs)
    PROVE  Starts(m, n) = Len(Encode(m)) <=> n = Len(m.attrs)
<1>1. n = Len(m.attrs) => Starts(m, n) = Len(Encode(m))
  BY StartsAre
<1>2. CASE n # Len(m.attrs)
  <2>1. StandsAt(m, n, NextOf(m, n), Encode(m), Starts(m, n))
    BY <1>2, NextStands
  <2>2. Starts(m, n) + 2 <= Starts(m, n + 1) /\ Starts(m, n + 1) <= Len(Encode(m))
    BY <2>1 DEF StandsAt
  <2>3. n + 1 \in 0..Len(m.attrs)
    BY <1>2, MessageIs
  <2>4. Starts(m, n) \in Nat /\ Starts(m, n + 1) \in Nat /\ Len(Encode(m)) \in Nat
    BY <2>3, StartsAre
  <2> DEFINE s1 == Starts(m, n)
             s2 == Starts(m, n + 1)
             l == Len(Encode(m))
  <2>5. s1 \in Nat /\ s2 \in Nat /\ l \in Nat /\ s1 + 2 <= s2 /\ s2 <= l
    BY <2>2, <2>4
  <2> HIDE DEF s1, s2, l
  <2>6. s1 # l
    BY <2>5
  <2> QED
    BY <1>2, <2>6 DEF s1, l
<1> QED
  BY <1>1, <1>2

\* The value of an attribute of a known type is found where it is, unless it is an empty or a
\* long one at the end of the payload.
ReadAs(a, e, v, p) ==
    /\ e.from <= Len(p) /\ e.from = v + LenPrefix(a)
    /\ e.size = LenValue(a) /\ e.reads \in Nat /\ e.size <= e.reads /\ e.cast = Cast(a)
    /\ a.type \in NumberTypes => e.size = NumberOf(a.type).size /\ e.reads = NumberOf(a.type).reads
    /\ a.type \notin NumberTypes => e.reads = e.size
ReadPastTheEnd(a, e, p) ==
    /\ e.from = Len(p) + 1
    /\ a.type \in LongTypes \/ (a.type \in StringTypes \cup VectorTypes /\ ValueOf(a) = <<>>)

\* The bytes at v are the prefix and the value of a, and the payload ends no sooner.
ValueIsAt(a, p, v) ==
    /\ v + LenPrefix(a) + LenValue(a) - 1 <= Len(p)
    /\ \A j \in 1..LenPrefix(a) : p[v + j - 1] = Prefix(a.type, ValueOf(a))[j]

\* At such bytes Extent gives the place of the value, and its size.
LEMMA ExtentIs ==
    ASSUME NEW a \in AttributeSet, AsLong(a.type, ValueOf(a)), a.type \in KnownTypes,
           NEW p \in Seq(Byte), NEW v \in Nat, ValueIsAt(a, p, v)
    PROVE  /\ v <= Len(p)
           /\ \/ ReadAs(a, Extent(p, a.type, v), v, p)
              \/ /\ ReadPastTheEnd(a, Extent(p, a.type, v), p)
                 /\ v + LenPrefix(a) + LenValue(a) - 1 = Len(p)
<1> DEFINE t == a.type
           val == ValueOf(a)
           e == Extent(p, t, v)
           lp == LenPrefix(a)
           lv == LenValue(a)
           l == Len(p)
           pre == Prefix(t, val)
           n == Len(val)
<1>1. val \in Seq(Byte) /\ n \in Nat /\ l \in Nat
  BY TagsBytes, LenProperties
<1>2. t \in Byte
  BY DEF AttributeSet
<1>3. /\ pre \in Seq(Byte) /\ Len(pre) \in Nat
      /\ t \in StringTypes => Len(pre) = 1 /\ pre[1] = n
      /\ t \in LongTypes \cup VectorTypes => Len(pre) = 2 /\ n = pre[1] + 256 * pre[2]
      /\ t \notin StringTypes \cup LongTypes \cup VectorTypes => pre = <<>>
  BY <1>1, <1>2, PrefixIs
<1>4. lp = Len(pre) /\ lv = n
  BY DEF LenPrefix, LenValue
<1>5. /\ v + lp + lv - 1 <= l
      /\ \A j \in 1..lp : p[v + j - 1] = pre[j]
  BY DEF ValueIsAt
<1> HIDE DEF l, n, val, pre, lp, lv
<1>6. CASE t \in NumberTypes
  <2>1. t \notin StringTypes \cup LongTypes \cup VectorTypes
    BY <1>6, TypesDiffer
  <2>2. lp = 0 /\ lv = NumberOf(t).size
    BY <1>3, <1>4, <1>6, <2>1 DEF AsLong, n, val
  <2>3. NumberOf(t).size \in 1..8 /\ NumberOf(t).reads \in 1..8 /\ NumberOf(t).size <= NumberOf(t).reads
    BY <1>6, NumbersAre
  <2>4. e = [from |-> v, size |-> NumberOf(t).size, reads |-> NumberOf(t).reads, cast |-> NumberOf(t).cast]
    BY <1>6, <2>1, Zenon DEF Extent
  <2>5. Cast(a) = NumberOf(t).cast
    BY <1>6 DEF Cast
  <2> HIDE DEF e, t
  <2>6. v <= l /\ v = v + lp
    BY <1>1, <1>5, <2>2, <2>3
  <2>7. ReadAs(a, e, v, p)
    BY <1>6, <2>2, <2>3, <2>4, <2>5, <2>6 DEF ReadAs, l, lp, lv, t
  <2> QED
    BY <2>6, <2>7 DEF e, t, l
<1>7. CASE t \in StringTypes
  <2>1. t \notin NumberTypes /\ t \notin LongTypes /\ t \notin VectorTypes
    BY <1>7, TypesDiffer
  <2>2. lp = 1 /\ p[v + 1 - 1] = pre[1] /\ pre[1] = lv
    BY <1>3, <1>4, <1>5, <1>7
  <2>3. p[v] = lv
    BY <2>2
  <2>4. e = [from |-> v + 1, size |-> lv, reads |-> lv, cast |-> "string"]
    BY <1>7, <2>1, <2>3, Zenon DEF Extent
  <2>5. Cast(a) = "string"
    BY <1>7, <2>1 DEF Cast
  <2> HIDE DEF e, t
  <2>6. v <= l
    BY <1>1, <1>4, <1>5, <2>2
  <2>7. CASE v + 1 <= l
    <3>1. ReadAs(a, e, v, p)
      BY <1>1, <1>4, <2>1, <2>2, <2>4, <2>5, <2>7 DEF ReadAs, l, lp, lv, t
    <3> QED
      BY <2>6, <3>1 DEF e, t, l
  <2>8. CASE ~(v + 1 <= l)
    <3>1. v + 1 = l + 1 /\ lv = 0 /\ v + lp + lv - 1 = l
      BY <1>1, <1>4, <1>5, <2>2, <2>8
    <3>2. val = <<>>
      BY <1>1, <1>4, <3>1, EmptySeq DEF n
    <3>3. ReadPastTheEnd(a, e, p)
      BY <1>7, <2>4, <3>1, <3>2 DEF ReadPastTheEnd, l, val, t
    <3> QED
      BY <2>6, <3>1, <3>3 DEF e, t, l, lp, lv
  <2> QED
    BY <2>7, <2>8
<1>8. CASE t \in LongTypes \cup VectorTypes
  <2>1. t \notin NumberTypes /\ t \notin StringTypes /\ (t \in LongTypes => t \notin VectorTypes)
    BY <1>8, TypesDiffer
  <2>2. lp = 2 /\ p[v + 1 - 1] = pre[1] /\ p[v + 2 - 1] = pre[2] /\ lv = pre[1] + 256 * pre[2]
    BY <1>3, <1>4, <1>5, <1>8
  <2>3. p[v] + 256 * p[v + 1] = lv
    <3>1. v + 1 - 1 = v /\ v + 2 - 1 = v + 1
      OBVIOUS
    <3> QED
      BY <2>2, <3>1
  <2>4. v <= l /\ v + 1 <= l /\ v + 1 + lv <= l
    BY <1>1, <1>4, <1>5, <2>2
  <2>5. Cast(a) = IF t \in LongTypes THEN "string" ELSE "vector"
    BY <1>8, <2>1 DEF Cast
  <2> DEFINE none == [from |-> Len(p) + 1, size |-> 0, reads |-> 0, cast |-> "none"]
             found(c) == [from |-> v + 2, size |-> lv, reads |-> lv, cast |-> c]
  <2>6. CASE t \in LongTypes
    <3>1. e = IF v + 1 >= Len(p) \/ v + 2 + lv > Len(p) THEN none ELSE found("string")
      BY <2>1, <2>3, <2>6, Zenon DEF Extent
    <3> HIDE DEF e, t
    <3>2. CASE v + 1 >= l \/ v + 2 + lv > l
      <4>1. e = none
        BY <3>1, <3>2 DEF l
      <4>a. lp = 2 /\ lv \in Nat /\ l \in Nat
        BY <1>1, <1>4, <2>2
      <4>2. v + lp + lv - 1 = l
        BY <2>4, <3>2, <4>a
      <4>b. e.from = l + 1
        BY <4>1 DEF l
      <4>3. ReadPastTheEnd(a, e, p)
        BY <2>6, <4>b DEF ReadPastTheEnd, l, t
      <4> QED
        BY <2>4, <4>2, <4>3 DEF e, t, l, lp, lv
    <3>3. CASE ~(v + 1 >= l \/ v + 2 + lv > l)
      <4>1. e = found("string")
        BY <3>1, <3>3 DEF l
      <4>2. ReadAs(a, e, v, p)
        BY <1>1, <1>4, <2>1, <2>2, <2>5, <2>6, <3>3, <4>1 DEF ReadAs, l, lp, lv, t
      <4> QED
        BY <2>4, <4>2 DEF e, t, l
    <3> QED
      BY <3>2, <3>3
  <2>7. CASE t \notin LongTypes
    <3>0. t \in VectorTypes
      BY <1>8, <2>7
    <3>1. e = IF v + 1 >= Len(p) THEN none ELSE found("vector")
      BY <2>1, <2>3, <2>7, <3>0, Zenon DEF Extent
    <3> HIDE DEF e, t
    <3>2. CASE v + 1 >= l
      <4>1. e = none
        BY <3>1, <3>2 DEF l
      <4>2. v + lp + lv - 1 = l /\ lv = 0
        BY <1>1, <1>4, <2>2, <2>4, <3>2
      <4>3. val = <<>>
        BY <1>1, <1>4, <4>2, EmptySeq DEF n
      <4>4. ReadPastTheEnd(a, e, p)
        BY <1>1, <3>0, <4>1, <4>3 DEF ReadPastTheEnd, l, t, val
      <4> QED
        BY <2>4, <4>2, <4>4 DEF e, t, l, lp, lv
    <3>3. CASE ~(v + 1 >= l)
      <4>1. e = found("vector")
        BY <3>1, <3>3 DEF l
      <4>2. ReadAs(a, e, v, p)
        BY <1>1, <1>4, <2>1, <2>2, <2>5, <2>7, <3>3, <4>1 DEF ReadAs, l, lp, lv, t
      <4> QED
        BY <2>4, <4>2 DEF e, t, l
    <3> QED
      BY <3>2, <3>3
  <2> QED
    BY <2>6, <2>7
<1>9. CASE t = Key
  <2>1. t \notin NumberTypes /\ t \notin StringTypes /\ t \notin LongTypes /\ t \notin VectorTypes
    BY <1>9, TypesDiffer
  <2>2. lp = 0 /\ lv = 16
    BY <1>3, <1>4, <1>9, <2>1 DEF AsLong, n, val
  <2>3. e = [from |-> v, size |-> 16, reads |-> 16, cast |-> "vector"]
    BY <2>1 DEF Extent
  <2>4. Cast(a) = "vector"
    BY <2>1 DEF Cast
  <2> HIDE DEF e, t
  <2>5. v <= l
    BY <1>1, <1>5, <2>2
  <2>6. ReadAs(a, e, v, p)
    BY <2>1, <2>2, <2>3, <2>4, <2>5 DEF ReadAs, l, lp, lv, t
  <2> QED
    BY <2>5, <2>6 DEF e, t, l
<1> QED
  BY <1>6, <1>7, <1>8, <1>9 DEF KnownTypes

\* What the parser sees at the cursor, after the first n attributes of the message.
LEMMA NextIsSeen ==
    ASSUME FromDevice(msg), payload = Encode(msg), NEW n \in 0..Len(msg.attrs),
           cursor = Starts(msg, n) + 1
    PROVE  /\ HeadSize = HeadOf(msg) /\ HeadSize \in {2, 3} /\ cursor \in Nat /\ Len(payload) \in Nat
           /\ payload \in Seq(Byte)
           /\ n = Len(msg.attrs) => cursor + HeadSize > Len(payload)
           /\ n # Len(msg.attrs) =>
                LET a == NextOf(msg, n) IN
                /\ a \in AttributeSet /\ IsFormed(msg, a)
                /\ Starts(msg, n + 1) \in Nat /\ Starts(msg, n + 1) <= Len(payload)
                /\ payload[cursor] = a.id[1] /\ payload[cursor + 1] = a.id[2] /\ cursor + 1 <= Len(payload)
                /\ (cursor + HeadSize <= Len(payload) /\ Failed(payload, cursor, WithStatus(msg))) => a.status # SUCCESS
                /\ (a.status # SUCCESS /\ cursor + HeadSize <= Len(payload)) => Failed(payload, cursor, WithStatus(msg))
                /\ a.status # SUCCESS =>
                     /\ cursor + 3 = Starts(msg, n + 1) + 1
                     /\ (cursor + HeadSize > Len(payload)) => Starts(msg, n + 1) = Len(payload)
                     /\ SentBefore(msg, n + 1) = SentBefore(msg, n)
                /\ a.status = SUCCESS =>
                     /\ cursor + HeadSize <= Len(payload) /\ DataType = a.type
                     /\ ValueAt \in Nat
                     /\ LenPrefix(a) \in Nat /\ LenValue(a) \in Nat
                     /\ Starts(msg, n + 1) = ValueAt + LenPrefix(a) + LenValue(a) - 1
                     /\ ValueIsAt(a, payload, ValueAt)
                     /\ \A j \in 1..LenValue(a) : payload[ValueAt + LenPrefix(a) + j - 1] = ValueOf(a)[j]
                     /\ SentBefore(msg, n + 1) = SentBefore(msg, n) + 1
                     /\ SentBefore(msg, n + 1) \in 1..Len(Sent(msg))
                     /\ Sent(msg)[SentBefore(msg, n + 1)] = a
<1> DEFINE h == HeadOf(msg)
           from == Starts(msg, n)
           next == Starts(msg, n + 1)
           l == Len(payload)
           len == Len(msg.attrs)
           a == NextOf(msg, n)
           lp == LenPrefix(a)
           lv == LenValue(a)
           v == from + h + 2
<1>1. msg.answer \in BOOLEAN /\ WithStatus(msg) = msg.answer /\ len \in Nat
  BY MessageIs
<1>2. HeadSize = h /\ h \in {2, 3} /\ (msg.answer => h = 3) /\ (~msg.answer => h = 2)
  BY <1>1 DEF HeadSize, HeadOf
<1>3. from \in Nat /\ payload \in Seq(Byte) /\ l \in Nat /\ cursor = from + 1 /\ from <= l
  <2>1. from \in 0..l /\ l \in Nat /\ payload \in Seq(Byte)
    BY StartsAre
  <2> HIDE DEF from, l
  <2> QED
    BY <2>1 DEF from
<1>4. n = len => from = l
  BY StartsAre DEF len
<1>5. ASSUME n # len
      PROVE  /\ a \in AttributeSet /\ IsFormed(msg, a)
             /\ next \in Nat
             /\ StandsAt(msg, n, a, payload, from)
             /\ lv \in Nat /\ (a.status = SUCCESS => lp \in Nat)
  <2>1. n + 1 \in 0..len
    BY <1>1, <1>5
  <2>2. next \in 0..l
    BY <2>1, StartsAre DEF len
  <2>3. a \in AttributeSet /\ IsFormed(msg, a) /\ StandsAt(msg, n, a, payload, from)
    BY <1>5, NextStands DEF len
  <2>4. lv \in Nat /\ (a.status = SUCCESS => lp \in Nat)
    BY <1>1, <2>3, AttributeIs
  <2> HIDE DEF next, l
  <2> QED
    BY <1>3, <2>2, <2>3, <2>4
<1>6. ASSUME n # len
      PROVE  /\ from + 2 <= next /\ next <= l
             /\ payload[from + 1] = a.id[1] /\ payload[from + 2] = a.id[2]
             /\ msg.answer => from + 3 <= l /\ payload[from + 3] = a.status
             /\ a.status # SUCCESS =>
                   msg.answer /\ next = from + 3 /\ SentBefore(msg, n + 1) = SentBefore(msg, n)
             /\ a.status = SUCCESS =>
                   /\ next = from + h + 1 + lp + lv
                   /\ payload[from + h + 1] = a.type
                   /\ \A j \in 1..lp : payload[from + h + 1 + j] = Prefix(a.type, ValueOf(a))[j]
                   /\ \A j \in 1..lv : payload[from + h + 1 + lp + j] = ValueOf(a)[j]
                   /\ SentBefore(msg, n + 1) = SentBefore(msg, n) + 1
                   /\ SentBefore(msg, n + 1) \in 1..Len(Sent(msg))
                   /\ Sent(msg)[SentBefore(msg, n + 1)] = a
  BY <1>5, <1>6 DEF StandsAt
<1> HIDE DEF h, from, next, l, len, a, lp, lv
<1>7. cursor \in Nat /\ (n = len => cursor + HeadSize > l)
  BY <1>2, <1>3, <1>4
<1>8. DataType = payload[from + h + 1] /\ ValueAt = v
  <2>1. from + 1 + h = from + h + 1 /\ from + 1 + h + 1 = v
    BY <1>2, <1>3
  <2> QED
    BY <1>2, <1>3, <2>1 DEF DataType, ValueAt
<1>9. ASSUME n # len
      PROVE  /\ next <= l
             /\ payload[cursor] = a.id[1] /\ payload[cursor + 1] = a.id[2] /\ cursor + 1 <= l
             /\ (cursor + HeadSize <= l /\ Failed(payload, cursor, WithStatus(msg))) => a.status # SUCCESS
             /\ (a.status # SUCCESS /\ cursor + HeadSize <= l) => Failed(payload, cursor, WithStatus(msg))
             /\ a.status # SUCCESS => cursor + 3 = next + 1 /\ ((cursor + HeadSize > l) => next = l)
  <2>1. cursor + 1 = from + 2 /\ cursor + 2 = from + 3 /\ cursor = from + 1
    BY <1>3
  <2>2. payload[cursor] = a.id[1] /\ payload[cursor + 1] = a.id[2] /\ next <= l
    BY <1>6, <1>9, <2>1
  <2>3. cursor + 1 <= l
    BY <1>3, <1>5, <1>6, <1>9
  <2>4. Failed(payload, cursor, WithStatus(msg)) <=> a.status # SUCCESS
    <3>1. CASE msg.answer
      <4>1. payload[cursor + 2] = a.status
        BY <1>6, <1>9, <2>1, <3>1
      <4> QED
        BY <1>1, <3>1, <4>1 DEF Failed
    <3>2. CASE ~msg.answer
      <4>1. a.status = SUCCESS
        BY <1>6, <1>9, <3>2
      <4> QED
        BY <1>1, <3>2, <4>1 DEF Failed
    <3> QED
      BY <3>1, <3>2
  <2>5. a.status # SUCCESS => cursor + 3 = next + 1 /\ ((cursor + HeadSize > l) => next = l)
    BY <1>2, <1>3, <1>5, <1>6, <1>9
  <2> QED
    BY <2>2, <2>3, <2>4, <2>5
<1>10. ASSUME n # len, a.status = SUCCESS
       PROVE  /\ cursor + HeadSize <= l /\ DataType = a.type /\ ValueAt \in Nat
              /\ next = ValueAt + lp + lv - 1
              /\ ValueIsAt(a, payload, ValueAt)
              /\ \A j \in 1..lv : payload[ValueAt + lp + j - 1] = ValueOf(a)[j]
  <2>1. lp \in Nat /\ lv \in Nat /\ next = from + h + 1 + lp + lv /\ next \in Nat /\ next <= l
    BY <1>5, <1>6, <1>10
  <2>2. cursor + HeadSize <= l /\ v \in Nat /\ next = v + lp + lv - 1
    BY <1>2, <1>3, <2>1
  <2>3. DataType = a.type
    BY <1>6, <1>8, <1>10
  <2>4. \A j \in 1..lp : payload[v + j - 1] = Prefix(a.type, ValueOf(a))[j]
    <3> SUFFICES ASSUME NEW j \in 1..lp PROVE payload[v + j - 1] = Prefix(a.type, ValueOf(a))[j]
      OBVIOUS
    <3>1. v + j - 1 = from + h + 1 + j
      BY <1>2, <1>3, <2>1
    <3> QED
      BY <1>6, <1>10, <3>1
  <2>5. ASSUME NEW j \in 1..lv PROVE payload[v + lp + j - 1] = ValueOf(a)[j]
    <3>1. v + lp + j - 1 = from + h + 1 + lp + j
      BY <1>2, <1>3, <2>1
    <3> QED
      BY <1>6, <1>10, <3>1
  <2>6. ValueIsAt(a, payload, v)
    BY <2>1, <2>2, <2>4 DEF ValueIsAt, lp, lv, l
  <2> QED
    BY <1>8, <2>2, <2>3, <2>5, <2>6
<1> QED
  BY <1>2, <1>3, <1>5, <1>6, <1>7, <1>9, <1>10 DEF h, from, next, l, len, a, lp, lv

\* An attribute that was parsed, and one that is what was sent; of some numbers it has more bytes.
Parsed == [id : [1..2 -> 0..256], type : Byte, cast : {Cast(a) : a \in AttributeSet}, value : Seq(0..256)]
ReadExactly(a) == a.type \in NumberTypes => NumberOf(a.type).reads = NumberOf(a.type).size
AsSent(got, a) ==
    /\ got.id = a.id /\ got.type = a.type /\ got.cast = Cast(a)
    /\ IsPrefix(ValueOf(a), got.value)
    /\ ReadExactly(a) => got.value = ValueOf(a)

\* The bytes that are read from the payload.
LEMMA BytesAre ==
    ASSUME NEW p \in Seq(Byte), NEW from \in Nat \ {0}, NEW n \in Nat
    PROVE  /\ Bytes(p, from, n) \in Seq(0..256) /\ Len(Bytes(p, from, n)) = n
           /\ \A j \in 1..n : from + j - 1 <= Len(p) => Bytes(p, from, n)[j] = p[from + j - 1]
<1> DEFINE b == Bytes(p, from, n)
<1>1. Len(p) \in Nat
  BY LenProperties
<1>2. \A x \in Byte : x \in 0..256
  BY DEF Byte
<1>3. ASSUME NEW j \in 1..n PROVE (IF from + j - 1 <= Len(p) THEN p[from + j - 1] ELSE Beyond) \in 0..256
  <2>1. CASE from + j - 1 <= Len(p)
    <3>1. from + j - 1 \in 1..Len(p)
      BY <1>1, <2>1
    <3>2. p[from + j - 1] \in Byte
      BY <3>1, ElementOfSeq
    <3> QED
      BY <1>2, <2>1, <3>2, Zenon
  <2>2. CASE ~(from + j - 1 <= Len(p))
    <3>1. Beyond \in 0..256
      BY DEF Beyond
    <3> QED
      BY <2>2, <3>1, Zenon
  <2> QED
    BY <2>1, <2>2
<1>4. b = [j \in 1..n |-> IF from + j - 1 <= Len(p) THEN p[from + j - 1] ELSE Beyond]
  BY DEF Bytes
<1> HIDE DEF b
<1>5. b \in [1..n -> 0..256]
  BY <1>3, <1>4
<1>6. b \in Seq(0..256)
  BY <1>5, SeqDef
<1>7. Len(b) \in Nat /\ DOMAIN b = 1..Len(b) /\ DOMAIN b = 1..n
  BY <1>5, <1>6, LenProperties
<1> DEFINE l == Len(b)
<1>8. l \in Nat /\ 1..l = 1..n
  BY <1>7
<1> HIDE DEF l
<1>9. l = n
  BY <1>8, EqualIntervals
<1>10. \A j \in 1..n : from + j - 1 <= Len(p) => b[j] = p[from + j - 1]
  BY <1>4, Zenon
<1> QED
  BY <1>6, <1>9, <1>10 DEF b, l

\* A sequence with the bytes of another begins with it.
LEMMA PrefixOf ==
    ASSUME NEW S, NEW s \in Seq(S), NEW t \in Seq(S), Len(s) <= Len(t), \A j \in 1..Len(s) : t[j] = s[j]
    PROVE  IsPrefix(s, t) /\ (Len(s) = Len(t) => s = t)
<1> DEFINE n == Len(s)
           s1 == SubSeq(s, 1, n)
           t1 == SubSeq(t, 1, n)
<1>1. n \in Nat /\ Len(t) \in Nat
  BY LenProperties
<1>2. ASSUME NEW j \in 1..n PROVE s[j] \in S /\ t[j] \in S
  <2>1. s[j] \in S
    BY ElementOfSeq
  <2> QED
    BY <2>1
<1>3. 1 \in Int /\ n \in Int
  BY <1>1
<1>4. /\ s1 \in Seq(S) /\ Len(s1) = IF 1 <= n THEN n - 1 + 1 ELSE 0
      /\ \A j \in 1..n - 1 + 1 : s1[j] = s[1 + j - 1]
  BY <1>2, <1>3, SubSeqProperties
<1>5. /\ t1 \in Seq(S) /\ Len(t1) = IF 1 <= n THEN n - 1 + 1 ELSE 0
      /\ \A j \in 1..n - 1 + 1 : t1[j] = t[1 + j - 1]
  BY <1>2, <1>3, SubSeqProperties
<1> HIDE DEF n, s1, t1
<1>6. Len(s1) = n /\ Len(t1) = n
  BY <1>1, <1>4, <1>5
<1>7. ASSUME NEW j \in 1..n PROVE s1[j] = t1[j]
  <2>1. j \in 1..n - 1 + 1 /\ 1 + j - 1 = j
    BY <1>1
  <2>2. t[j] = s[j]
    BY DEF n
  <2> QED
    BY <1>4, <1>5, <2>1, <2>2
<1>8. s1 = t1
  BY <1>4, <1>5, <1>6, <1>7, SeqEqual
<1>9. IsPrefix(s, t)
  BY <1>8 DEF IsPrefix, s1, t1, n
<1>10. Len(s) = Len(t) => s = t
  <2> SUFFICES ASSUME Len(s) = Len(t) PROVE s = t
    OBVIOUS
  <2>1. \A j \in 1..Len(s) : s[j] = t[j]
    OBVIOUS
  <2> QED
    BY <2>1, SeqEqual
<1> QED
  BY <1>9, <1>10

\* What is read at the cursor is the value that was sent, with some bytes more.
LEMMA ValueIsRead ==
    ASSUME NEW a \in AttributeSet, a.type \in KnownTypes, NEW p \in Seq(Byte), NEW v \in Nat \ {0},
           NEW e, ReadAs(a, e, v, p), LenPrefix(a) \in Nat,
           v + LenPrefix(a) + LenValue(a) - 1 <= Len(p),
           \A j \in 1..LenValue(a) : p[v + LenPrefix(a) + j - 1] = ValueOf(a)[j]
    PROVE  /\ Bytes(p, e.from, e.reads) \in Seq(0..256)
           /\ IsPrefix(ValueOf(a), Bytes(p, e.from, e.reads))
           /\ ReadExactly(a) => Bytes(p, e.from, e.reads) = ValueOf(a)
<1> DEFINE b == Bytes(p, e.from, e.reads)
           lp == LenPrefix(a)
           lv == LenValue(a)
           val == ValueOf(a)
           S == 0..256
<1>1. val \in Seq(Byte) /\ lv \in Nat /\ lv = Len(val) /\ Len(p) \in Nat
  BY TagsBytes, LenProperties DEF LenValue
<1>2. val \in Seq(S)
  <2>1. Byte \subseteq S
    BY DEF Byte
  <2> HIDE DEF S
  <2> QED
    BY <1>1, <2>1, SeqMonotonic
<1>3. e.from = v + lp /\ e.size = lv /\ e.reads \in Nat /\ lv <= e.reads
  BY DEF ReadAs
<1>4. e.from \in Nat \ {0}
  BY <1>3
<1>5. /\ b \in Seq(S) /\ Len(b) = e.reads
      /\ \A j \in 1..e.reads : e.from + j - 1 <= Len(p) => b[j] = p[e.from + j - 1]
  BY <1>3, <1>4, BytesAre
<1> HIDE DEF b, val, S, lv, lp
<1>6. ASSUME NEW j \in 1..lv PROVE b[j] = val[j]
  <2>1. j \in 1..e.reads /\ e.from + j - 1 = v + lp + j - 1 /\ e.from + j - 1 <= Len(p)
    BY <1>1, <1>3 DEF lp, lv
  <2>2. p[v + lp + j - 1] = val[j]
    BY DEF lp, lv, val
  <2> QED
    BY <1>5, <2>1, <2>2
<1>7. Len(val) <= Len(b) /\ \A j \in 1..Len(val) : b[j] = val[j]
  BY <1>1, <1>3, <1>5, <1>6
<1>8. IsPrefix(val, b) /\ (Len(val) = Len(b) => val = b)
  BY <1>2, <1>5, <1>7, PrefixOf
<1>9. ReadExactly(a) => e.reads = lv
  BY <1>3 DEF ReadAs, ReadExactly
<1>10. ReadExactly(a) => b = val
  BY <1>1, <1>5, <1>8, <1>9
<1> QED
  BY <1>5, <1>8, <1>10 DEF b, val, S

\* What was parsed of a message: the first n attributes, or all that can be.
ReadSoFar(m, got, n) ==
    /\ Len(got) = SentBefore(m, n)
    /\ \A j \in 1..Len(got) : AsSent(got[j], Sent(m)[j])
ParsingAt(m, got, p, c) ==
    /\ p = Encode(m)
    /\ \E n \in 0..Len(m.attrs) : c = Starts(m, n) + 1 /\ ReadSoFar(m, got, n)
WasParsed(m, got) ==
    \E n \in 0..Len(m.attrs) : ReadSoFar(m, got, n) /\ (Whole(m) => SentBefore(m, n) = Len(Sent(m)))
\* While the parser walks the cursor is where an attribute ends, and those before it are in the
\* list; afterwards the list has all that can be read, unless something cannot.
ParserInv ==
    /\ FromDevice(msg) /\ attributes \in Seq(Parsed)
    /\ stage = "parse" => ParsingAt(msg, attributes, payload, cursor)
    /\ stage # "parse" => WasParsed(msg, attributes)

\* One attribute more.
LEMMA ReadOneMore ==
    ASSUME NEW m, NEW got \in Seq(Parsed), NEW x \in Parsed, NEW n, ReadSoFar(m, got, n),
           SentBefore(m, n + 1) = SentBefore(m, n) + 1, AsSent(x, Sent(m)[SentBefore(m, n + 1)])
    PROVE  Append(got, x) \in Seq(Parsed) /\ ReadSoFar(m, Append(got, x), n + 1)
<1> DEFINE list == Append(got, x)
           l == Len(got)
<1>1. l \in Nat /\ l = SentBefore(m, n) /\ \A j \in 1..l : AsSent(got[j], Sent(m)[j])
  BY LenProperties DEF ReadSoFar
<1>2. /\ list \in Seq(Parsed) /\ Len(list) = l + 1
      /\ \A j \in 1..l + 1 : list[j] = IF j <= l THEN got[j] ELSE x
  <2> HIDE DEF Parsed
  <2>1. list = got \o <<x>>
    OBVIOUS
  <2>2. <<x>> \in Seq(Parsed) /\ Len(<<x>>) = 1 /\ <<x>>[1] = x
    OBVIOUS
  <2> DEFINE one == <<x>>
  <2> HIDE DEF one, list
  <2>3. /\ list \in Seq(Parsed) /\ Len(list) = l + 1
        /\ \A j \in 1..l + 1 : list[j] = IF j <= l THEN got[j] ELSE one[j - l]
    <3>1. list = got \o one
      BY <2>1 DEF one
    <3>2. one \in Seq(Parsed) /\ Len(one) = 1
      BY <2>2 DEF one
    <3> QED
      BY <3>1, <3>2, ConcatProperties
  <2>4. ASSUME NEW j \in 1..l + 1, ~(j <= l) PROVE one[j - l] = x
    <3>1. j - l = 1
      BY <1>1, <2>4
    <3> QED
      BY <2>2, <3>1 DEF one
  <2> QED
    BY <2>3, <2>4
<1> HIDE DEF list, l
<1>3. ASSUME NEW j \in 1..l + 1 PROVE AsSent(list[j], Sent(m)[j])
  <2>1. CASE j <= l
    <3>1. j \in 1..l
      BY <1>1, <2>1
    <3>2. list[j] = got[j]
      BY <1>2, <2>1, Zenon
    <3> QED
      BY <1>1, <3>1, <3>2
  <2>2. CASE ~(j <= l)
    <3>1. j = SentBefore(m, n + 1)
      BY <1>1, <2>2
    <3>2. list[j] = x
      BY <1>2, <2>2, Zenon
    <3> QED
      BY <3>1, <3>2
  <2> QED
    BY <2>1, <2>2
<1>4. ReadSoFar(m, list, n + 1)
  BY <1>1, <1>2, <1>3 DEF ReadSoFar
<1> QED
  BY <1>2, <1>4 DEF list

\* Before the first message.
LEMMA ParserInitially == ReportInit => ParserInv
<1> SUFFICES ASSUME ReportInit PROVE ParserInv
  OBVIOUS
<1>1. /\ msg = [cluster |-> "BASIC", endpoint |-> 1, answer |-> FALSE, attrs |-> <<>>]
      /\ stage = "idle" /\ attributes = <<>>
  BY DEF ReportInit
<1>2. msg.attrs = <<>> /\ DOMAIN msg.attrs = {} /\ Len(msg.attrs) = 0 /\ msg.answer = FALSE
  BY <1>1
<1>3. Len(Sent(msg)) = 0 /\ DOMAIN Sent(msg) = {}
  <2> DEFINE pieces == SentPieces(msg)
  <2>1. pieces = <<>>
    BY <1>2 DEF SentPieces
  <2>2. pieces \in Seq(Seq(AttributeSet)) /\ Len(pieces) = 0
    BY <2>1
  <2>3. Sent(msg) = FlattenSeq(pieces)
    BY DEF Sent, SentPieces
  <2> HIDE DEF pieces
  <2>4. /\ Sent(msg) \in Seq(AttributeSet)
        /\ EndOf(AttributeSet, pieces, 0) = 0 /\ EndOf(AttributeSet, pieces, Len(pieces)) = Len(Sent(msg))
    <3>1. \A S : \A x \in Seq(Seq(S)) : IsFlattened(S, x)
      BY Flattened DEF IsFlattened
    <3>2. IsFlattened(AttributeSet, pieces)
      BY <2>2, <3>1
    <3> QED
      BY <2>3, <3>2 DEF IsFlattened
  <2>5. Len(Sent(msg)) = 0
    BY <2>2, <2>4
  <2>6. DOMAIN Sent(msg) = 1..Len(Sent(msg))
    BY <2>4, LenProperties
  <2> QED
    BY <2>5, <2>6
<1>4. FromDevice(msg)
  <2>1. msg \in [cluster : Clusters, endpoint : {1, 2}, answer : BOOLEAN, attrs : Seq(AttributeSet)]
    <3>1. "BASIC" \in Clusters /\ <<>> \in Seq(AttributeSet)
      BY DEF Clusters
    <3> HIDE DEF AttributeSet
    <3> QED
      BY <1>1, <3>1
  <2>2. msg.cluster # "ON_OFF"
    BY <1>1
  <2> QED
    BY <1>2, <1>3, <2>1, <2>2 DEF FromDevice
<1>5. WasParsed(msg, attributes)
  <2>1. 0 \in 0..Len(msg.attrs)
    BY <1>2
  <2>2. SentBefore(msg, 0) = 0
    BY <1>4, SentIs
  <2>3. Len(attributes) = 0
    BY <1>1
  <2>4. ReadSoFar(msg, attributes, 0)
    BY <2>2, <2>3 DEF ReadSoFar
  <2> QED
    BY <1>3, <2>1, <2>2, <2>4 DEF WasParsed
<1>6. attributes \in Seq(Parsed)
  BY <1>1
<1> QED
  BY <1>1, <1>4, <1>5, <1>6 DEF ParserInv

\* A value of a known type takes a byte at least.
LEMMA ValueTakesBytes ==
    ASSUME NEW a \in AttributeSet, AsLong(a.type, ValueOf(a)), a.type \in KnownTypes
    PROVE  LenPrefix(a) \in Nat /\ LenValue(a) \in Nat /\ 1 <= LenPrefix(a) + LenValue(a)
<1> DEFINE t == a.type
           val == ValueOf(a)
           lp == LenPrefix(a)
           lv == LenValue(a)
<1>1. val \in Seq(Byte) /\ lv \in Nat /\ lv = Len(val) /\ t \in Byte
  BY TagsBytes DEF LenValue, AttributeSet
<1>2. /\ lp \in Nat
      /\ t \in StringTypes => lp = 1
      /\ t \in LongTypes \cup VectorTypes => lp = 2
  BY <1>1, PrefixIs DEF LenPrefix
<1>3. (t \in NumberTypes => lv = NumberOf(t).size) /\ (t = Key => lv = 16)
  BY <1>1 DEF AsLong
<1> HIDE DEF lp, lv
<1>4. CASE t \in NumberTypes
  <2>1. NumberOf(t).size \in 1..8
    BY <1>4, NumbersAre
  <2> QED
    BY <1>1, <1>2, <1>3, <1>4, <2>1 DEF lp, lv
<1>5. CASE t \notin NumberTypes
  BY <1>1, <1>2, <1>3, <1>5 DEF lp, lv, KnownTypes
<1> QED
  BY <1>4, <1>5

\* A message that on_message does not look into has nothing that could be read.
LEMMA ShortIsEmpty ==
    ASSUME NEW m, FromDevice(m), Whole(m), Len(Encode(m)) < 4
    PROVE  Len(Sent(m)) = 0
<1> DEFINE len == Len(m.attrs)
           T == {n \in 0..len : SentBefore(m, n) # 0}
<1> SUFFICES ASSUME Len(Sent(m)) # 0 PROVE FALSE
  OBVIOUS
<1>1. len \in Nat /\ Len(Sent(m)) \in Nat /\ SentBefore(m, 0) = 0 /\ SentBefore(m, len) = Len(Sent(m))
  BY MessageIs, SentIs
<1>2. PICK n \in T : \A n2 \in T : n <= n2
  <2>1. T \subseteq Nat /\ len \in T
    BY <1>1
  <2> HIDE DEF T
  <2> QED
    BY <2>1, Least
<1>3. n \in 0..len /\ n # 0
  BY <1>1, <1>2
<1>4. n - 1 \in 0..len /\ n - 1 # len /\ (n - 1) + 1 = n /\ n \in 1..len /\ ~(n <= n - 1)
  BY <1>1, <1>3
<1>5. SentBefore(m, n - 1) = 0
  BY <1>2, <1>4
<1> HIDE DEF len, T
<1> DEFINE a == NextOf(m, n - 1)
<1>6. /\ a \in AttributeSet /\ IsFormed(m, a) /\ StandsAt(m, n - 1, a, Encode(m), Starts(m, n - 1))
  BY <1>4, NextStands DEF len
<1>7. SentBefore(m, n) # 0
  BY <1>2 DEF T
<1> HIDE DEF a
<1>8. a.status = SUCCESS
  BY <1>4, <1>5, <1>6, <1>7 DEF StandsAt
<1>9. /\ Starts(m, n) = Starts(m, n - 1) + HeadOf(m) + 1 + LenPrefix(a) + LenValue(a)
      /\ Starts(m, n) <= Len(Encode(m)) /\ SentBefore(m, n) \in 1..Len(Sent(m)) /\ Sent(m)[SentBefore(m, n)] = a
  BY <1>4, <1>6, <1>8 DEF StandsAt
<1>10. a.type \in KnownTypes
  <2>1. DOMAIN Sent(m) = 1..Len(Sent(m))
    BY SentIs, LenProperties
  <2> QED
    BY <1>9, <2>1 DEF Whole
<1>11. LenPrefix(a) \in Nat /\ LenValue(a) \in Nat /\ 1 <= LenPrefix(a) + LenValue(a)
  BY <1>6, <1>8, <1>10, ValueTakesBytes DEF IsFormed
<1>12. Starts(m, n - 1) \in Nat /\ Len(Encode(m)) \in Nat /\ HeadOf(m) \in {2, 3}
  <2>1. Starts(m, n - 1) \in 0..Len(Encode(m)) /\ Len(Encode(m)) \in Nat
    BY <1>4, StartsAre DEF len
  <2> QED
    BY <2>1 DEF HeadOf
<1> DEFINE s1 == Starts(m, n - 1)
           s2 == Starts(m, n)
           l == Len(Encode(m))
           lp == LenPrefix(a)
           lv == LenValue(a)
           h == HeadOf(m)
<1>13. /\ s1 \in Nat /\ lp \in Nat /\ lv \in Nat /\ 1 <= lp + lv /\ h \in {2, 3} /\ l \in Nat /\ l < 4
       /\ s2 = s1 + h + 1 + lp + lv /\ s2 <= l
  BY <1>9, <1>11, <1>12
<1> HIDE DEF s1, s2, l, lp, lv, h
<1> QED
  BY <1>13

\* At the start of a message the parser stands before the first attribute.
LEMMA ReceiveParser ==
    ASSUME NEW m \in Messages, ReportsAssumption PROVE  Receive(m) => ParserInv'
<1> SUFFICES ASSUME Receive(m) PROVE ParserInv'
  OBVIOUS
<1>1. /\ msg' = m /\ payload' = Encode(m) /\ cursor' = 1 /\ attributes' = <<>>
      /\ stage' = IF Len(Encode(m)) < 4 THEN "idle" ELSE "parse"
  BY DEF Receive
<1>2. FromDevice(m)
  BY ReportsAssumption
<1>3. /\ Len(m.attrs) \in Nat /\ Starts(m, 0) = 0 /\ SentBefore(m, 0) = 0
  BY <1>2, MessageIs, StartsAre, SentIs
<1>4. 0 \in 0..Len(m.attrs)
  BY <1>3
<1>5. Len(<<>>) = 0 /\ <<>> \in Seq(Parsed)
  OBVIOUS
<1>6. ReadSoFar(m, <<>>, 0)
  BY <1>3, <1>5 DEF ReadSoFar
<1>7. ParsingAt(m, <<>>, Encode(m), 1)
  <2>1. 1 = Starts(m, 0) + 1
    BY <1>3
  <2> QED
    BY <1>4, <1>6, <2>1 DEF ParsingAt
<1>8. Len(Encode(m)) < 4 => WasParsed(m, <<>>)
  BY <1>2, <1>3, <1>4, <1>6, ShortIsEmpty DEF WasParsed
<1>9. (stage' = "parse" => ParsingAt(m, <<>>, Encode(m), 1)) /\ (stage' # "parse" => WasParsed(m, <<>>))
  BY <1>1, <1>7, <1>8
<1> QED
  BY <1>1, <1>2, <1>5, <1>9 DEF ParserInv

\* The parser stands after some of the attributes of the message.
LEMMA Parsing ==
    ASSUME ParserInv, stage = "parse"
    PROVE  /\ FromDevice(msg) /\ attributes \in Seq(Parsed) /\ payload = Encode(msg)
           /\ \E n \in 0..Len(msg.attrs) : cursor = Starts(msg, n) + 1 /\ ReadSoFar(msg, attributes, n)
  BY DEF ParserInv, ParsingAt

\* A failed read is one attribute of the message, and none of Sent.
LEMMA SkipFailedParser == ParserInv /\ SkipFailed => ParserInv'
<1> SUFFICES ASSUME ParserInv, SkipFailed PROVE ParserInv'
  OBVIOUS
<1>1. /\ stage = "parse" /\ cursor + HeadSize <= Len(payload) /\ Failed(payload, cursor, WithStatus(msg))
      /\ cursor' = cursor + 3 /\ UNCHANGED <<msg, stage, payload, attributes>>
  BY DEF SkipFailed
<1>2. FromDevice(msg) /\ attributes \in Seq(Parsed) /\ payload = Encode(msg)
  BY <1>1, Parsing
<1>3. PICK n \in 0..Len(msg.attrs) : cursor = Starts(msg, n) + 1 /\ ReadSoFar(msg, attributes, n)
  BY <1>1, Parsing
<1>4. /\ cursor \in Nat /\ HeadSize \in {2, 3} /\ Len(payload) \in Nat
      /\ n = Len(msg.attrs) => cursor + HeadSize > Len(payload)
  BY <1>2, <1>3, NextIsSeen
<1>5. n # Len(msg.attrs)
  BY <1>1, <1>4
<1>6. NextOf(msg, n).status # SUCCESS
  BY <1>1, <1>2, <1>3, <1>5, NextIsSeen
<1>7. cursor + 3 = Starts(msg, n + 1) + 1 /\ SentBefore(msg, n + 1) = SentBefore(msg, n)
  BY <1>2, <1>3, <1>5, <1>6, NextIsSeen
<1>8. n + 1 \in 0..Len(msg.attrs)
  BY <1>2, <1>5, MessageIs
<1>9. ReadSoFar(msg, attributes, n + 1)
  BY <1>3, <1>7 DEF ReadSoFar
<1>10. ParsingAt(msg, attributes, payload, cursor + 3)
  BY <1>2, <1>7, <1>8, <1>9 DEF ParsingAt
<1> QED
  BY <1>1, <1>2, <1>10 DEF ParserInv

\* An attribute whose value is read, in a message that is whole.
LEMMA SentIsKnown ==
    ASSUME NEW m, FromDevice(m), Whole(m), NEW j \in 1..Len(Sent(m))
    PROVE  /\ Sent(m)[j].type \in KnownTypes
           /\ j = Len(Sent(m)) =>
                /\ Sent(m)[j].type \notin LongTypes
                /\ Sent(m)[j].type \in StringTypes \cup VectorTypes => ValueOf(Sent(m)[j]) # <<>>
<1>1. DOMAIN Sent(m) = 1..Len(Sent(m))
  BY SentIs, LenProperties
<1> QED
  BY <1>1 DEF Whole

\* Where the loop ends, nothing is left of a message that is whole.
LEMMA ParseStopsParser == ParserInv /\ ParseStops => ParserInv'
<1> SUFFICES ASSUME ParserInv, ParseStops PROVE ParserInv'
  OBVIOUS
<1>1. /\ stage = "parse"
      /\ \/ cursor + HeadSize > Len(payload)
         \/ HasType /\ ~HasValue
         \/ HasValue /\ (DataType \notin KnownTypes \/ Value.from > Len(payload))
  BY DEF ParseStops, HasValue, HasType
<1>2. attributes' = attributes /\ stage' # "parse" /\ UNCHANGED <<msg, payload, cursor>>
  BY DEF ParseStops, Apply
<1>3. FromDevice(msg) /\ attributes \in Seq(Parsed) /\ payload = Encode(msg)
  BY <1>1, Parsing
<1>4. PICK n \in 0..Len(msg.attrs) : cursor = Starts(msg, n) + 1 /\ ReadSoFar(msg, attributes, n)
  BY <1>1, Parsing
<1> DEFINE a == NextOf(msg, n)
<1>5. WasParsed(msg, attributes)
  <2>1. CASE n = Len(msg.attrs)
    <3>1. SentBefore(msg, n) = Len(Sent(msg))
      BY <1>3, <2>1, SentIs
    <3> QED
      BY <1>4, <3>1 DEF WasParsed
  <2>2. CASE n # Len(msg.attrs) /\ a.status # SUCCESS
    <3>1. cursor + HeadSize <= Len(payload) => Failed(payload, cursor, WithStatus(msg))
      BY <1>3, <1>4, <2>2, NextIsSeen
    <3>2. cursor + HeadSize > Len(payload)
      BY <1>1, <3>1 DEF HasType, HasValue
    <3>3. Starts(msg, n + 1) = Len(payload) /\ SentBefore(msg, n + 1) = SentBefore(msg, n)
      BY <1>3, <1>4, <2>2, <3>2, NextIsSeen
    <3>4. n + 1 \in 0..Len(msg.attrs)
      BY <1>3, <2>2, MessageIs
    <3>5. n + 1 = Len(msg.attrs)
      BY <1>3, <3>3, <3>4, NothingAfterLast
    <3>6. SentBefore(msg, n + 1) = Len(Sent(msg))
      BY <1>3, <3>5, SentIs
    <3>7. ReadSoFar(msg, attributes, n + 1)
      BY <1>4, <3>3 DEF ReadSoFar
    <3> QED
      BY <3>4, <3>6, <3>7 DEF WasParsed
  <2>3. CASE n # Len(msg.attrs) /\ a.status = SUCCESS
    <3> SUFFICES ASSUME Whole(msg) PROVE FALSE
      BY <1>4 DEF WasParsed
    <3>1. a \in AttributeSet /\ IsFormed(msg, a)
      BY <1>3, <1>4, <2>3, NextIsSeen
    <3>2. /\ cursor + HeadSize <= Len(payload) /\ DataType = a.type /\ ValueAt \in Nat
          /\ Starts(msg, n + 1) = ValueAt + LenPrefix(a) + LenValue(a) - 1
          /\ ValueIsAt(a, payload, ValueAt) /\ payload \in Seq(Byte)
      BY <1>3, <1>4, <2>3, NextIsSeen
    <3>3. SentBefore(msg, n + 1) \in 1..Len(Sent(msg)) /\ Sent(msg)[SentBefore(msg, n + 1)] = a
      BY <1>3, <1>4, <2>3, NextIsSeen
    <3>4. ~Failed(payload, cursor, WithStatus(msg))
      BY <1>3, <1>4, <2>3, <3>2, NextIsSeen
    <3> HIDE DEF a
    <3>5. a.type \in KnownTypes
      BY <1>3, <3>3, SentIsKnown
    <3>6. AsLong(a.type, ValueOf(a))
      BY <2>3, <3>1 DEF IsFormed
    <3>7. Value = Extent(payload, a.type, ValueAt)
      BY <3>2 DEF Value
    <3>8. /\ ValueAt <= Len(payload)
          /\ \/ ReadAs(a, Value, ValueAt, payload)
             \/ /\ ReadPastTheEnd(a, Value, payload)
                /\ ValueAt + LenPrefix(a) + LenValue(a) - 1 = Len(payload)
      BY <3>1, <3>2, <3>5, <3>6, <3>7, ExtentIs
    <3>9. Len(payload) \in Nat /\ cursor \in Nat /\ HeadSize \in {2, 3}
      BY <1>3, <1>4, NextIsSeen
    <3>10. HasType /\ HasValue
      BY <1>1, <3>2, <3>4, <3>8 DEF HasType, HasValue
    <3>11. Value.from > Len(payload)
      <4>1. ~(cursor + HeadSize > Len(payload))
        BY <3>2, <3>9
      <4> QED
        BY <1>1, <3>2, <3>5, <3>10, <4>1
    <3>12. ~ReadAs(a, Value, ValueAt, payload)
      <4>1. ReadAs(a, Value, ValueAt, payload) => Value.from <= Len(payload) /\ Value.from \in Nat
        <5>1. LenPrefix(a) \in Nat
          BY <3>1, <3>5, <3>6, ValueTakesBytes
        <5> QED
          BY <3>2, <5>1 DEF ReadAs
      <4> QED
        BY <3>9, <3>11, <4>1
    <3>13. ReadPastTheEnd(a, Value, payload) /\ Starts(msg, n + 1) = Len(payload)
      BY <3>2, <3>8, <3>12
    <3>14. n + 1 \in 0..Len(msg.attrs)
      BY <1>3, <2>3, MessageIs
    <3>15. n + 1 = Len(msg.attrs)
      BY <1>3, <3>13, <3>14, NothingAfterLast
    <3>16. SentBefore(msg, n + 1) = Len(Sent(msg))
      BY <1>3, <3>15, SentIs
    <3>17. a.type \notin LongTypes /\ (a.type \in StringTypes \cup VectorTypes => ValueOf(a) # <<>>)
      <4> DEFINE j == SentBefore(msg, n + 1)
      <4>1. j \in 1..Len(Sent(msg)) /\ j = Len(Sent(msg)) /\ Sent(msg)[j] = a
        BY <3>3, <3>16
      <4> HIDE DEF j
      <4>2. /\ Sent(msg)[j].type \notin LongTypes
            /\ Sent(msg)[j].type \in StringTypes \cup VectorTypes => ValueOf(Sent(msg)[j]) # <<>>
        BY <1>3, <4>1, SentIsKnown
      <4> QED
        BY <4>1, <4>2
    <3> QED
      BY <3>13, <3>17 DEF ReadPastTheEnd
  <2> QED
    BY <2>1, <2>2, <2>3
<1> QED
  BY <1>2, <1>3, <1>5 DEF ParserInv

\* An attribute with a type is not past the last one, and its read did not fail.
LEMMA TypeIsOfNext ==
    ASSUME FromDevice(msg), payload = Encode(msg), NEW n \in 0..Len(msg.attrs), cursor = Starts(msg, n) + 1,
           HasType
    PROVE  n # Len(msg.attrs) /\ NextOf(msg, n).status = SUCCESS
<1>1. cursor + HeadSize <= Len(payload) /\ ~Failed(payload, cursor, WithStatus(msg))
  BY DEF HasType
<1>2. cursor \in Nat /\ HeadSize \in {2, 3} /\ Len(payload) \in Nat
      /\ (n = Len(msg.attrs) => cursor + HeadSize > Len(payload))
  BY NextIsSeen
<1>3. n # Len(msg.attrs)
  BY <1>1, <1>2
<1>4. NextOf(msg, n).status # SUCCESS => Failed(payload, cursor, WithStatus(msg))
  BY <1>1, <1>3, NextIsSeen
<1> QED
  BY <1>1, <1>3, <1>4

\* A type of which the program cannot make a value.
LEMMA ParseThrowsIsUnknown == ParserInv /\ ParseThrows => ~Whole(msg)
<1> SUFFICES ASSUME ParserInv, ParseThrows PROVE ~Whole(msg)
  OBVIOUS
<1>1. stage = "parse" /\ HasType /\ DataType = NoData
  BY DEF ParseThrows, HasValue, HasType
<1>2. FromDevice(msg) /\ payload = Encode(msg)
  BY <1>1, Parsing
<1>3. PICK n \in 0..Len(msg.attrs) : cursor = Starts(msg, n) + 1 /\ ReadSoFar(msg, attributes, n)
  BY <1>1, Parsing
<1>4. n # Len(msg.attrs) /\ NextOf(msg, n).status = SUCCESS
  BY <1>1, <1>2, <1>3, TypeIsOfNext
<1>5. /\ DataType = NextOf(msg, n).type
      /\ SentBefore(msg, n + 1) \in 1..Len(Sent(msg)) /\ Sent(msg)[SentBefore(msg, n + 1)] = NextOf(msg, n)
  BY <1>2, <1>3, <1>4, NextIsSeen
<1>6. NoData \notin KnownTypes
  BY TypesDiffer
<1> QED
  BY <1>1, <1>2, <1>5, <1>6, SentIsKnown

\* An exception drops the list; the message has a type without values.
LEMMA ParseThrowsParser == ParserInv /\ ParseThrows => ParserInv'
<1> SUFFICES ASSUME ParserInv, ParseThrows PROVE ParserInv'
  OBVIOUS
<1>1. stage = "parse" /\ stage' = "idle" /\ UNCHANGED <<msg, attributes>>
  BY DEF ParseThrows, HasValue, HasType
<1>2. FromDevice(msg) /\ attributes \in Seq(Parsed)
  BY <1>1, Parsing
<1>3. PICK n \in 0..Len(msg.attrs) : ReadSoFar(msg, attributes, n)
  BY <1>1, Parsing
<1>4. WasParsed(msg, attributes)
  BY <1>3, ParseThrowsIsUnknown DEF WasParsed
<1> QED
  BY <1>1, <1>2, <1>4 DEF ParserInv

\* One attribute is parsed.
LEMMA ParseValueParser == ParserInv /\ ParseValue => ParserInv'
<1> SUFFICES ASSUME ParserInv, ParseValue PROVE ParserInv'
  OBVIOUS
<1> DEFINE got == [id |-> Bytes(payload, cursor, 2), type |-> DataType, cast |-> Value.cast,
                   value |-> Bytes(payload, Value.from, Value.reads)]
           list == Append(attributes, got)
<1>1. /\ stage = "parse" /\ HasType /\ DataType \in KnownTypes /\ Value.from <= Len(payload)
      /\ attributes' = list /\ UNCHANGED <<msg, payload>>
      /\ IF Value.from + Value.size > Len(payload) THEN stage' # "parse"
         ELSE cursor' = Value.from + Value.size /\ stage' = stage
  BY DEF ParseValue, HasValue, HasType, Apply
<1>2. FromDevice(msg) /\ attributes \in Seq(Parsed) /\ payload = Encode(msg)
  BY <1>1, Parsing
<1>3. PICK n \in 0..Len(msg.attrs) : cursor = Starts(msg, n) + 1 /\ ReadSoFar(msg, attributes, n)
  BY <1>1, Parsing
<1>4. n # Len(msg.attrs) /\ NextOf(msg, n).status = SUCCESS
  BY <1>1, <1>2, <1>3, TypeIsOfNext
<1> DEFINE a == NextOf(msg, n)
           lp == LenPrefix(a)
           lv == LenValue(a)
           l == Len(payload)
           next == Starts(msg, n + 1)
<1>5. /\ a \in AttributeSet /\ IsFormed(msg, a) /\ next \in Nat /\ next <= l /\ l \in Nat /\ cursor \in Nat
      /\ payload[cursor] = a.id[1] /\ payload[cursor + 1] = a.id[2] /\ cursor + 1 <= l /\ payload \in Seq(Byte)
  BY <1>2, <1>3, <1>4, NextIsSeen
<1>6. /\ DataType = a.type /\ ValueAt \in Nat /\ lp \in Nat /\ lv \in Nat /\ next = ValueAt + lp + lv - 1
      /\ ValueIsAt(a, payload, ValueAt)
      /\ \A j \in 1..lv : payload[ValueAt + lp + j - 1] = ValueOf(a)[j]
  BY <1>2, <1>3, <1>4, NextIsSeen
<1>7. /\ SentBefore(msg, n + 1) = SentBefore(msg, n) + 1
      /\ SentBefore(msg, n + 1) \in 1..Len(Sent(msg)) /\ Sent(msg)[SentBefore(msg, n + 1)] = a
  BY <1>2, <1>3, <1>4, NextIsSeen
<1>8. AsLong(a.type, ValueOf(a))
  BY <1>4, <1>5 DEF IsFormed
<1>9. a.type \in KnownTypes /\ Value = Extent(payload, a.type, ValueAt)
  BY <1>1, <1>6 DEF Value
<1>10. ValueAt \in Nat \ {0} /\ cursor \in Nat \ {0}
  <2>1. Starts(msg, n) \in 0..Len(Encode(msg)) /\ Len(Encode(msg)) \in Nat
    BY <1>2, StartsAre
  <2>2. Starts(msg, n) \in Nat /\ HeadSize \in {2, 3}
    BY <1>2, <1>3, <2>1, NextIsSeen
  <2>3. cursor \in Nat \ {0}
    BY <1>3, <2>2
  <2> QED
    BY <2>2, <2>3 DEF ValueAt
<1> HIDE DEF a, got
<1>11. ReadAs(a, Value, ValueAt, payload)
  <2>1. \/ ReadAs(a, Value, ValueAt, payload)
        \/ ReadPastTheEnd(a, Value, payload)
    BY <1>5, <1>6, <1>8, <1>9, ExtentIs
  <2>2. ReadPastTheEnd(a, Value, payload) => Value.from = l + 1
    BY DEF ReadPastTheEnd
  <2>3. Value.from # l + 1
    BY <1>1, <1>5
  <2> QED
    BY <2>1, <2>2, <2>3
<1>12. /\ Bytes(payload, Value.from, Value.reads) \in Seq(0..256)
       /\ IsPrefix(ValueOf(a), Bytes(payload, Value.from, Value.reads))
       /\ ReadExactly(a) => Bytes(payload, Value.from, Value.reads) = ValueOf(a)
  <2>1. ValueAt + LenPrefix(a) + LenValue(a) - 1 <= Len(payload)
    BY <1>6 DEF ValueIsAt
  <2> QED
    BY <1>5, <1>6, <1>9, <1>10, <1>11, <2>1, ValueIsRead, SMTT(30)
<1>13. Bytes(payload, cursor, 2) = a.id
  <2> DEFINE b == Bytes(payload, cursor, 2)
  <2>1. /\ b \in Seq(0..256) /\ Len(b) = 2
        /\ \A j \in 1..2 : cursor + j - 1 <= Len(payload) => b[j] = payload[cursor + j - 1]
    <3>1. payload \in Seq(Byte) /\ cursor \in Nat \ {0} /\ 2 \in Nat
      BY <1>5, <1>10
    <3> QED
      BY <3>1, BytesAre
  <2>2. b[1] = payload[cursor] /\ b[2] = payload[cursor + 1]
    <3>1. cursor + 1 - 1 = cursor /\ cursor + 2 - 1 = cursor + 1 /\ cursor <= l /\ 1 \in 1..2 /\ 2 \in 1..2
      BY <1>5
    <3> QED
      BY <1>5, <2>1, <3>1
  <2>3. DOMAIN b = 1..2
    BY <2>1, LenProperties
  <2>4. a.id \in [1..2 -> Byte]
    BY <1>5 DEF AttributeSet
  <2>5. b = [j \in 1..2 |-> b[j]] /\ a.id = [j \in 1..2 |-> a.id[j]]
    BY <2>1, <2>3, <2>4, LenProperties
  <2> HIDE DEF b
  <2>6. \A j \in 1..2 : b[j] = a.id[j]
    <3>1. \A j \in 1..2 : j = 1 \/ j = 2
      OBVIOUS
    <3> QED
      BY <1>5, <2>2, <3>1
  <2> QED
    BY <2>5, <2>6 DEF b
<1>14. AsSent(got, a)
  BY <1>6, <1>11, <1>12, <1>13 DEF AsSent, got, ReadAs
<1>15. got \in Parsed
  <2>1. a.id \in [1..2 -> 0..256]
    <3>1. \A x \in Byte : x \in 0..256
      BY DEF Byte
    <3> QED
      BY <1>5, <3>1 DEF AttributeSet
  <2>2. DataType \in Byte
    BY <1>5, <1>6 DEF AttributeSet
  <2>3. Value.cast \in {Cast(x) : x \in AttributeSet}
    BY <1>5, <1>11 DEF ReadAs
  <2> QED
    BY <1>12, <1>13, <2>1, <2>2, <2>3 DEF Parsed, got
<1>16. list \in Seq(Parsed) /\ ReadSoFar(msg, list, n + 1)
  BY <1>2, <1>3, <1>7, <1>14, <1>15, ReadOneMore
<1>17. n + 1 \in 0..Len(msg.attrs)
  BY <1>2, <1>4, MessageIs
<1>18. Value.from + Value.size = next + 1
  BY <1>6, <1>10, <1>11 DEF ReadAs
<1> HIDE DEF list
<1>19. CASE Value.from + Value.size > l
  <2>1. next = l
    BY <1>5, <1>18, <1>19
  <2>2. n + 1 = Len(msg.attrs)
    BY <1>2, <1>17, <2>1, NothingAfterLast
  <2>3. SentBefore(msg, n + 1) = Len(Sent(msg))
    BY <1>2, <2>2, SentIs
  <2>4. WasParsed(msg, list)
    BY <1>16, <1>17, <2>3 DEF WasParsed
  <2> QED
    BY <1>1, <1>2, <1>16, <1>19, <2>4 DEF ParserInv
<1>20. CASE ~(Value.from + Value.size > l)
  <2>1. cursor' = Starts(msg, n + 1) + 1 /\ stage' = "parse"
    BY <1>1, <1>18, <1>20
  <2>2. ParsingAt(msg, list, payload, Starts(msg, n + 1) + 1)
    BY <1>2, <1>16, <1>17 DEF ParsingAt
  <2> QED
    BY <1>1, <1>2, <1>16, <2>1, <2>2 DEF ParserInv
<1> QED
  BY <1>19, <1>20

\* The handlers leave the list of attributes alone.
LEMMA HandlersKeepParsed ==
    ASSUME ParserInv, stage # "parse", stage' # "parse", UNCHANGED <<msg, attributes>>
    PROVE  ParserInv'
BY DEF ParserInv

\* The handlers begin after the parser ended.
LEMMA HandlersAreLater ==
    PassOver \/ WrongCast \/ SetField \/ Handled \/ StartTags \/ HandleTag \/ TagCut \/ EndTags
    => stage \in {"apply", "tags"} /\ stage' # "parse" /\ UNCHANGED <<msg, attributes>>
<1>1. Next1 => stage' = stage
  BY DEF Next1
<1>2. CatchOrThrow => stage' = stage \/ stage' = "idle"
  BY DEF CatchOrThrow, Next1, Throw
<1>3. PassOver => stage = "apply" /\ stage' # "parse" /\ UNCHANGED <<msg, attributes>>
  BY <1>1 DEF PassOver, HandlingPlain, Handling
<1>4. WrongCast => stage = "apply" /\ stage' # "parse" /\ UNCHANGED <<msg, attributes>>
  BY <1>2 DEF WrongCast, HandlingPlain, Handling
<1>5. SetField => stage = "apply" /\ stage' # "parse" /\ UNCHANGED <<msg, attributes>>
  BY <1>1 DEF SetField, HandlingPlain, Handling
<1>6. Handled => stage = "apply" /\ stage' # "parse" /\ UNCHANGED <<msg, attributes>>
  BY DEF Handled
<1>7. StartTags => stage = "apply" /\ stage' # "parse" /\ UNCHANGED <<msg, attributes>>
  BY <1>2 DEF StartTags, Handling
<1>8. HandleTag => stage = "tags" /\ stage' # "parse" /\ UNCHANGED <<msg, attributes>>
  BY DEF HandleTag
<1>9. TagCut => stage = "tags" /\ stage' # "parse" /\ UNCHANGED <<msg, attributes>>
  BY DEF TagCut, Throw
<1>10. EndTags => stage = "tags" /\ stage' # "parse" /\ UNCHANGED <<msg, attributes>>
  BY DEF EndTags
<1> QED
  BY <1>3, <1>4, <1>5, <1>6, <1>7, <1>8, <1>9, <1>10

\* ParserInv is inductive.
LEMMA ParserStep == ParserInv /\ [ReportNext]_reportVars => ParserInv'
<1> SUFFICES ASSUME ParserInv, [ReportNext]_reportVars PROVE ParserInv'
  OBVIOUS
<1> USE ReportsAssumption
<1>1. ASSUME NEW m \in Messages, Receive(m) PROVE ParserInv'
  BY <1>1, ReceiveParser
<1>2. CASE parseAttributesPayload
  BY <1>2, SkipFailedParser, ParseStopsParser, ParseThrowsParser, ParseValueParser DEF parseAttributesPayload
<1>3. CASE PassOver \/ WrongCast \/ SetField \/ Handled \/ StartTags \/ HandleTag \/ TagCut \/ EndTags
  <2>1. stage \in {"apply", "tags"} /\ stage' # "parse" /\ UNCHANGED <<msg, attributes>>
    BY <1>3, HandlersAreLater
  <2>2. stage # "parse"
    BY <2>1
  <2> QED
    BY <2>1, <2>2, HandlersKeepParsed
<1>4. CASE UNCHANGED reportVars
  BY <1>4 DEF reportVars, ParserInv
<1> QED
  BY <1>1, <1>2, <1>3, <1>4 DEF ReportNext

\* What it says of the list of attributes.
LEMMA ParserKeepsPromises == ParserInv => ParsedAreSent /\ WholeMessageIsParsed
<1> SUFFICES ASSUME ParserInv PROVE ParsedAreSent /\ WholeMessageIsParsed
  OBVIOUS
<1>1. FromDevice(msg) /\ attributes \in Seq(Parsed)
  BY DEF ParserInv
<1>2. PICK n \in 0..Len(msg.attrs) :
        /\ ReadSoFar(msg, attributes, n)
        /\ stage # "parse" /\ Whole(msg) => SentBefore(msg, n) = Len(Sent(msg))
  BY DEF ParserInv, ParsingAt, WasParsed
<1>3. SentBefore(msg, n) \in 0..Len(Sent(msg)) /\ Len(Sent(msg)) \in Nat
  BY <1>1, SentIs
<1>4. Len(attributes) \in Nat /\ DOMAIN attributes = 1..Len(attributes)
  BY <1>1, LenProperties
<1>5. Len(attributes) = SentBefore(msg, n) /\ \A j \in 1..Len(attributes) : AsSent(attributes[j], Sent(msg)[j])
  BY <1>2 DEF ReadSoFar
<1>6. WholeMessageIsParsed
  BY <1>2, <1>5 DEF WholeMessageIsParsed
<1>7. ASSUME NEW j \in DOMAIN attributes
      PROVE  /\ j <= Len(Sent(msg))
             /\ attributes[j].id = Sent(msg)[j].id /\ attributes[j].type = Sent(msg)[j].type
             /\ IsPrefix(ValueOf(Sent(msg)[j]), attributes[j].value)
  <2>1. j \in 1..Len(attributes)
    BY <1>4
  <2>2. j <= Len(Sent(msg))
    BY <1>3, <1>4, <1>5, <2>1
  <2>3. AsSent(attributes[j], Sent(msg)[j])
    BY <1>5, <2>1
  <2> QED
    BY <2>2, <2>3 DEF AsSent
<1> QED
  BY <1>6, <1>7 DEF ParsedAreSent

\* parseAttributesPayload makes of a payload what the device put into it, in its order, and
\* stops before its end only at what it does not know: whatever the types, values and lengths
\* that a device may send.
THEOREM ParserReadsWhatWasSent == ReportSpec => []ParsedAreSent
<1>1. ReportInit => ParserInv
  BY ParserInitially
<1>2. ParserInv /\ [ReportNext]_reportVars => ParserInv'
  BY ParserStep
<1>3. ParserInv => ParsedAreSent
  BY ParserKeepsPromises
<1> QED
  BY <1>1, <1>2, <1>3, PTL DEF ReportSpec

\* The same for WholeMessageIsParsed.
THEOREM ParserReadsAll == ReportSpec => []WholeMessageIsParsed
<1>1. ReportInit => ParserInv
  BY ParserInitially
<1>2. ParserInv /\ [ReportNext]_reportVars => ParserInv'
  BY ParserStep
<1>3. ParserInv => WholeMessageIsParsed
  BY ParserKeepsPromises
<1> QED
  BY <1>1, <1>2, <1>3, PTL DEF ReportSpec

-----------------------------------------------------------------------------
(* Reports: the handlers.                                                  *)

\* An attribute has one handler, which expects what is read exactly.
CastsRead == {"string", "uint8", "uint16", "uint32", "int16", "bool", "float"}

\* An id has one entry in the table of a cluster.
LEMMA OneHandler ==
    ASSUME NEW c \in Clusters, NEW id
    PROVE  \A h \in HandlerOf(c, id), g \in HandlerOf(c, id) : g = h
<1>1. CASE c = "BASIC"
  BY <1>1 DEF HandlerOf, Handlers
<1>2. CASE c = "POWER_CONFIGURATION"
  BY <1>2 DEF HandlerOf, Handlers
<1>3. CASE c = "DEVICE_TEMPERATURE"
  BY <1>3 DEF HandlerOf, Handlers
<1>4. CASE c = "ON_OFF"
  BY <1>4 DEF HandlerOf, Handlers
<1>5. CASE c = "ANALOG_INPUT"
  BY <1>5 DEF HandlerOf, Handlers
<1>6. CASE c = "MULTISTATE_INPUT"
  BY <1>6 DEF HandlerOf, Handlers
<1>7. CASE c = "ELECTRICAL_MEASUREMENTS"
  BY <1>7 DEF HandlerOf, Handlers
<1>8. CASE c = "XIAOMI_SWITCH"
  BY <1>8 DEF HandlerOf, Handlers
<1> QED
  BY <1>1, <1>2, <1>3, <1>4, <1>5, <1>6, <1>7, <1>8 DEF Clusters

\* The entries of the table.
LEMMA HandlersAre ==
    ASSUME NEW c \in Clusters, NEW id, NEW h \in HandlerOf(c, id)
    PROVE  /\ h.cast \in CastsRead
           /\ h.field \in Fields \cup {"none"}
           /\ c = "ANALOG_INPUT" =>
                /\ h.field = "none"
                /\ (h.cast = "float" /\ id = <<85, 0>>) \/ (h.cast = "string" /\ id = <<28, 0>>)
           /\ h.cast = "string" => h.field \in {"model", "none"}
<1>1. CASE c = "BASIC"
  BY <1>1 DEF HandlerOf, Handlers, CastsRead, Fields
<1>2. CASE c = "POWER_CONFIGURATION"
  BY <1>2 DEF HandlerOf, Handlers, CastsRead, Fields
<1>3. CASE c = "DEVICE_TEMPERATURE"
  BY <1>3 DEF HandlerOf, Handlers, CastsRead, Fields
<1>4. CASE c = "ON_OFF"
  BY <1>4 DEF HandlerOf, Handlers, CastsRead, Fields
<1>5. CASE c = "ANALOG_INPUT"
  BY <1>5 DEF HandlerOf, Handlers, CastsRead, Fields
<1>6. CASE c = "MULTISTATE_INPUT"
  BY <1>6 DEF HandlerOf, Handlers, CastsRead, Fields
<1>7. CASE c = "ELECTRICAL_MEASUREMENTS"
  BY <1>7 DEF HandlerOf, Handlers, CastsRead, Fields
<1>8. CASE c = "XIAOMI_SWITCH"
  BY <1>8 DEF HandlerOf, Handlers, CastsRead, Fields
<1> QED
  BY <1>1, <1>2, <1>3, <1>4, <1>5, <1>6, <1>7, <1>8 DEF Clusters

\* A number that is cast to what a handler expects is read exactly, unless it is half a float.
LEMMA NumbersRead ==
    ASSUME NEW t \in NumberTypes
    PROVE  /\ NumberOf(t).cast # "string"
           /\ (NumberOf(t).cast \in CastsRead /\ t # HalfFloat) => NumberOf(t).reads = NumberOf(t).size
<1> DEFINE Is(e) == e.cast # "string" /\ (e.cast \in CastsRead => e.reads = e.size)
<1>1. ASSUME NEW n \in 1..8 PROVE Is(Unsigned(n)) /\ Is(Signed(n))
  <2>1. Is(Unsigned(n))
    BY <1>1 DEF Unsigned, Entry, CastsRead
  <2>2. Is(Signed(n))
    BY <1>1 DEF Signed, Entry, CastsRead
  <2> QED
    BY <2>1, <2>2
<1>2. CASE t \in UnsignedTypes
  <2>1. t \in 8..39 /\ t # 16 /\ (t % 8) + 1 \in 1..8
    BY <1>2 DEF UnsignedTypes
  <2>2. /\ t \notin 40..47 /\ t # 48 /\ t \notin {49, 232, 233} /\ t \notin {224, 225, 226, 234}
        /\ t # 240 /\ t # 56 /\ t # 57 /\ t # 58
    BY <2>1
  <2> HIDE DEF UnsignedTypes, Unsigned
  <2>3. NumberOf(t) = Unsigned((t % 8) + 1)
    BY <1>2, <2>1, <2>2 DEF NumberOf
  <2> QED
    BY <1>1, <2>1, <2>3
<1>3. CASE t \notin UnsignedTypes /\ t \in 40..47
  <2>1. t - 39 \in 1..8
    BY <1>3
  <2>2. NumberOf(t) = Signed(t - 39)
    BY <1>3 DEF NumberOf
  <2> QED
    BY <1>1, <2>1, <2>2
<1>4. CASE t \notin UnsignedTypes /\ t \notin 40..47
  <2>1. t \in {16, 48, 49, 56, 57, 58, 224, 225, 226, 232, 233, 234, 240}
    BY <1>4 DEF NumberTypes
  <2>2. CASE t \in {48, 49, 224, 225, 226, 232, 233, 234, 240}
    <3>1. \/ NumberOf(t) = Unsigned(1) \/ NumberOf(t) = Unsigned(2)
          \/ NumberOf(t) = Unsigned(4) \/ NumberOf(t) = Unsigned(8)
      BY <1>4, <2>2 DEF NumberOf
    <3> HIDE DEF Is
    <3>2. Is(NumberOf(t))
      BY <1>1, <3>1
    <3> QED
      BY <3>2 DEF Is
  <2>3. CASE t \in {16, 56, 57, 58}
    BY <1>4, <2>3 DEF NumberOf, Entry, CastsRead, HalfFloat
  <2> QED
    BY <2>1, <2>2, <2>3
<1> QED
  BY <1>2, <1>3, <1>4

\* The same, for what the handlers expect.
LEMMA ExactlyRead ==
    ASSUME NEW a \in AttributeSet, a.type \in KnownTypes, Cast(a) \in CastsRead, a.type # HalfFloat
    PROVE  ReadExactly(a)
<1>1. CASE a.type \in NumberTypes
  <2>1. Cast(a) = NumberOf(a.type).cast
    BY <1>1 DEF Cast
  <2> QED
    BY <1>1, <2>1, NumbersRead DEF ReadExactly
<1>2. CASE a.type \notin NumberTypes
  BY <1>2 DEF ReadExactly
<1> QED
  BY <1>1, <1>2

\* Only a string may be empty.
LEMMA NumbersHaveBytes ==
    ASSUME NEW a \in AttributeSet, a.type \in KnownTypes, Cast(a) \in CastsRead, Cast(a) # "string",
           AsLong(a.type, ValueOf(a))
    PROVE  a.type \in NumberTypes /\ ValueOf(a) # <<>>
<1>1. a.type \in NumberTypes
  BY DEF Cast, CastsRead
<1>2. Len(ValueOf(a)) = NumberOf(a.type).size
  BY <1>1 DEF AsLong
<1>3. NumberOf(a.type).size \in 1..8
  BY <1>1, NumbersAre
<1>4. Len(<<>>) = 0 /\ 0 \notin 1..8
  OBVIOUS
<1> QED
  BY <1>1, <1>2, <1>3, <1>4

\* The last that is something, with nothing after it.
LEMMA LastOfIs ==
    ASSUME NEW n \in Nat, NEW values, DOMAIN values = 1..n
    PROVE  /\ (\A j \in 1..n : values[j] = <<>>) => LastOf(values) = <<>>
           /\ \A j \in 1..n : (values[j] # <<>> /\ \A i \in j + 1..n : values[i] = <<>>) => LastOf(values) = values[j]
<1>1. (\A j \in 1..n : values[j] = <<>>) => LastOf(values) = <<>>
  BY DEF LastOf
<1>2. ASSUME NEW j \in 1..n, values[j] # <<>>, \A i \in j + 1..n : values[i] = <<>>
      PROVE  LastOf(values) = values[j]
  <2> DEFINE Is(x) == values[x] # <<>> /\ \A i \in 1..n : i > x => values[i] = <<>>
             last == CHOOSE x \in 1..n : Is(x)
  <2>1. Is(j)
    <3>1. \A i \in 1..n : i > j => i \in j + 1..n
      OBVIOUS
    <3> QED
      BY <1>2, <3>1
  <2>2. last \in 1..n /\ Is(last)
    <3> HIDE DEF Is
    <3> QED
      BY <2>1
  <2>3. last = j
    <3> HIDE DEF last
    <3>1. last > j => values[last] = <<>>
      BY <2>1, <2>2
    <3>2. j > last => values[j] = <<>>
      BY <2>2
    <3>3. ~(last > j) /\ ~(j > last)
      BY <2>1, <2>2, <3>1, <3>2
    <3> QED
      BY <2>2, <3>3
  <2>4. LastOf(values) = values[last]
    <3>1. ~(\A i \in DOMAIN values : values[i] = <<>>)
      BY <1>2
    <3> QED
      BY <3>1, Zenon DEF LastOf
  <2> QED
    BY <2>3, <2>4
<1> QED
  BY <1>1, <1>2

\* What the message says of a field after the first attributes were handled: r is what was
\* reported of the fields, d is the device.
Silent(m, d, f, k) ==
    /\ TogetherSay(m, d, f) = <<>>
    /\ \A j \in k..Len(Sent(m)) : AttributeSays(m, Sent(m)[j], f) = <<>>
SaidLater(m, d, r, f, k) ==
    /\ TogetherSay(m, d, f) # <<>> => r[f] = TogetherSay(m, d, f)
    /\ \A j \in k..Len(Sent(m)) :
          AttributeSays(m, Sent(m)[j], f) # <<>> /\ Silent(m, d, f, j + 1) => r[f] = AttributeSays(m, Sent(m)[j], f)
Ahead(m, d, r, k) ==
    \A f \in Fields : r[f] # <<>> =>
        SaidLater(m, d, r, f, k) /\ (Silent(m, d, f, k) => r[f] = d[f])

\* The same within a string of tags, after the first t of them.
TagPieces(a) == [j \in DOMAIN a.tags |-> TagBytes(a.tags[j])]
TagStarts(a, t) == EndOf(Byte, TagPieces(a), t)
TagsSilent(w, a, f, t) == \A i \in t..Len(a.tags) : TagSays(w, a.tags[i], f) = <<>>
AheadTags(m, d, r, k, w, a, t) ==
    \A f \in Fields : r[f] # <<>> =>
        /\ SaidLater(m, d, r, f, k + 1)
        /\ \A i \in t + 1..Len(a.tags) :
              TagSays(w, a.tags[i], f) # <<>> /\ TagsSilent(w, a, f, i + 1) /\ Silent(m, d, f, k + 1)
              => r[f] = TagSays(w, a.tags[i], f)
        /\ TagsSilent(w, a, f, t + 1) /\ Silent(m, d, f, k + 1) => r[f] = d[f]

\* The locals of AnalogInput, after the first k - 1 attributes.
LocalIs(m, v, id, k, says) ==
    /\ \A j \in 1..Len(Sent(m)) : j < k /\ Sent(m)[j].id = id => v = says[j]
    /\ (\A j \in 1..Len(Sent(m)) : Sent(m)[j].id = id => ~(j < k)) => v = <<>>
ValuesOf(m) == [j \in 1..Len(Sent(m)) |-> Sent(m)[j].val]
UnitsOf(m) == [j \in 1..Len(Sent(m)) |-> BeforeComma(Sent(m)[j].val)]
Locals(m, v, u, k) ==
    /\ m.cluster # "ANALOG_INPUT" => v = <<>>
    /\ m.cluster = "ANALOG_INPUT" =>
         LocalIs(m, v, <<85, 0>>, k, ValuesOf(m)) /\ LocalIs(m, u, <<28, 0>>, k, UnitsOf(m))

\* In every stage what the device reported last of a field is either ahead (an attribute or a tag
\* that is not handled yet says it, the last one that says anything) or what the device has.  A
\* walk over tags stands where a tag ends.
FieldsInv ==
    /\ ParserInv /\ DOMAIN ed = Fields
    /\ ~Plain(msg) => reported = Nothing
    /\ Plain(msg) =>
         /\ stage = "idle" => \A f \in Fields : reported[f] # <<>> => ed[f] = reported[f]
         /\ stage = "parse" => handling = 1 /\ value = <<>> /\ unit = <<>> /\ Ahead(msg, ed, reported, 1)
         /\ stage = "apply" =>
              /\ handling \in 1..Len(Sent(msg)) + 1
              /\ Locals(msg, value, unit, handling) /\ Ahead(msg, ed, reported, handling)
         /\ stage = "tags" =>
              LET a == Sent(msg)[handling]
                  w == Walk(msg.cluster, a.id) IN
              /\ handling \in 1..Len(Sent(msg)) /\ w # "none" /\ Cast(a) = "string"
              /\ Locals(msg, value, unit, handling) /\ payload = ValueOf(a)
              /\ \E t \in 0..Len(a.tags) :
                    cursor = TagStarts(a, t) + 1 /\ AheadTags(msg, ed, reported, handling, w, a, t)

\* What was sent with a value is one of the message's attributes.
LEMMA SentFrom ==
    ASSUME NEW m, FromDevice(m), NEW j \in 1..Len(Sent(m))
    PROVE  Sent(m)[j] \in AttributeSet /\ IsFormed(m, Sent(m)[j]) /\ Sent(m)[j].status = SUCCESS
<1> DEFINE len == Len(m.attrs)
           T == {n \in 0..len : j <= SentBefore(m, n)}
<1>1. /\ len \in Nat /\ Len(Sent(m)) \in Nat /\ SentBefore(m, 0) = 0 /\ SentBefore(m, len) = Len(Sent(m))
      /\ \A n \in 0..len : SentBefore(m, n) \in 0..Len(Sent(m))
  BY MessageIs, SentIs
<1>2. PICK n \in T : \A n2 \in T : n <= n2
  <2>1. T \subseteq Nat
    BY <1>1
  <2>2. len \in T
    BY <1>1
  <2> HIDE DEF T
  <2> QED
    BY <2>1, <2>2, Least
<1>3. n \in 0..len /\ j <= SentBefore(m, n)
  BY <1>2
<1>4. n # 0
  BY <1>1, <1>3
<1>5. n - 1 \in 0..len /\ n \in 1..len /\ ~(n <= n - 1)
  BY <1>1, <1>3, <1>4
<1>6. ~(j <= SentBefore(m, n - 1))
  BY <1>2, <1>5
<1>7. /\ m.attrs[n].status = SUCCESS =>
           SentBefore(m, n) = SentBefore(m, n - 1) + 1 /\ Sent(m)[SentBefore(m, n)] = m.attrs[n]
      /\ m.attrs[n].status # SUCCESS => SentBefore(m, n) = SentBefore(m, n - 1)
  BY <1>5, SentIs DEF len
<1>8. m.attrs[n].status = SUCCESS
  BY <1>3, <1>6, <1>7
<1> DEFINE b1 == SentBefore(m, n - 1)
           b2 == SentBefore(m, n)
<1>9. b1 \in Nat /\ b2 \in Nat /\ ~(j <= b1) /\ j <= b2 /\ b2 = b1 + 1
  BY <1>1, <1>3, <1>5, <1>6, <1>7, <1>8
<1> HIDE DEF b1, b2
<1>10. j = b2
  BY <1>9
<1>11. Sent(m)[j] = m.attrs[n]
  BY <1>7, <1>8, <1>10 DEF b2
<1> QED
  BY <1>5, <1>8, <1>11, MessageIs DEF len

\* Nothing else is said of an attribute.
LEMMA PlainIs ==
    ASSUME NEW m, FromDevice(m), Plain(m), NEW j \in 1..Len(Sent(m))
    PROVE  LET a == Sent(m)[j] IN
           /\ a \in AttributeSet /\ IsFormed(m, a) /\ AsLong(a.type, ValueOf(a))
           /\ a.type \in KnownTypes /\ a.type # HalfFloat
           /\ Expected(m, a) \/ m.cluster = "BASIC"
           /\ \A n \in DOMAIN a.tags : <<a.tags[n].tag, a.tags[n].type>> \in TagsOf(Walk(m.cluster, a.id))
           /\ m.cluster \in Clusters /\ m.endpoint \in {1, 2}
<1> DEFINE a == Sent(m)[j]
<1>1. a \in AttributeSet /\ IsFormed(m, a) /\ a.status = SUCCESS
  BY SentFrom
<1>2. AsLong(a.type, ValueOf(a))
  BY <1>1 DEF IsFormed
<1>3. DOMAIN Sent(m) = 1..Len(Sent(m))
  BY SentIs, LenProperties
<1>4. Whole(m)
  BY DEF Plain
<1>5. a.type \in KnownTypes
  BY <1>4, SentIsKnown
<1>6. /\ a.type # HalfFloat /\ (Expected(m, a) \/ m.cluster = "BASIC")
      /\ \A n \in DOMAIN a.tags : <<a.tags[n].tag, a.tags[n].type>> \in TagsOf(Walk(m.cluster, a.id))
  BY <1>3 DEF Plain
<1>7. m.cluster \in Clusters /\ m.endpoint \in {1, 2}
  BY DEF FromDevice
<1> QED
  BY <1>1, <1>2, <1>5, <1>6, <1>7

\* An attribute is in a message once.
LEMMA SentOnce ==
    ASSUME NEW m, FromDevice(m), NEW j \in 1..Len(Sent(m)), NEW n \in 1..Len(Sent(m)),
           Sent(m)[j].id = Sent(m)[n].id
    PROVE  j = n
<1>1. DOMAIN Sent(m) = 1..Len(Sent(m))
  BY SentIs, LenProperties
<1> QED
  BY <1>1 DEF FromDevice

\* What is handled is what was sent.
LEMMA HandledIsSent ==
    ASSUME ParserInv, Plain(msg), stage # "parse"
    PROVE  /\ FromDevice(msg) /\ Len(attributes) = Len(Sent(msg)) /\ Len(Sent(msg)) \in Nat
           /\ \A j \in 1..Len(Sent(msg)) :
                /\ attributes[j].id = Sent(msg)[j].id /\ attributes[j].cast = Cast(Sent(msg)[j])
                /\ Cast(Sent(msg)[j]) \in CastsRead => attributes[j].value = ValueOf(Sent(msg)[j])
<1>1. FromDevice(msg) /\ attributes \in Seq(Parsed) /\ WasParsed(msg, attributes)
  BY DEF ParserInv
<1>2. Whole(msg)
  BY DEF Plain
<1>3. PICK n \in 0..Len(msg.attrs) : ReadSoFar(msg, attributes, n) /\ SentBefore(msg, n) = Len(Sent(msg))
  BY <1>1, <1>2 DEF WasParsed
<1>4. /\ Len(attributes) = Len(Sent(msg)) /\ Len(Sent(msg)) \in Nat
      /\ \A j \in 1..Len(Sent(msg)) : AsSent(attributes[j], Sent(msg)[j])
  BY <1>1, <1>3, SentIs DEF ReadSoFar
<1>5. ASSUME NEW j \in 1..Len(Sent(msg))
      PROVE  /\ attributes[j].id = Sent(msg)[j].id /\ attributes[j].cast = Cast(Sent(msg)[j])
             /\ Cast(Sent(msg)[j]) \in CastsRead => attributes[j].value = ValueOf(Sent(msg)[j])
  <2> DEFINE a == Sent(msg)[j]
  <2>1. a \in AttributeSet /\ a.type \in KnownTypes /\ a.type # HalfFloat
    BY <1>1, PlainIs
  <2>2. AsSent(attributes[j], a)
    BY <1>4
  <2>3. Cast(a) \in CastsRead => ReadExactly(a)
    BY <2>1, ExactlyRead
  <2> QED
    BY <2>2, <2>3 DEF AsSent
<1> QED
  BY <1>1, <1>4, <1>5

\* Only AnalogInput's attributes say something together.
LEMMA TogetherOnlyAnalog ==
    ASSUME NEW m, NEW d, NEW f, m.cluster # "ANALOG_INPUT"
    PROVE  TogetherSay(m, d, f) = <<>>
  BY DEF TogetherSay

Walks == {"basic", "relay", "door"}
\* The clusters that have strings of tags.
LEMMA WalksAre ==
    ASSUME NEW c, NEW id, Walk(c, id) # "none"
    PROVE  c \in {"BASIC", "XIAOMI_SWITCH"} /\ Walk(c, id) \in Walks
  BY DEF Walk, Walks

\* What is said of a field by a value that was handled, or what it was.
OrKept(s, before) == IF s # <<>> THEN s ELSE before

\* Ahead after one attribute more.
LEMMA AheadMoves ==
    ASSUME NEW m, NEW d, NEW d2, NEW r, NEW k \in 1..Len(Sent(m)), Len(Sent(m)) \in Nat,
           Ahead(m, d, r, k),
           \A f \in Fields : TogetherSay(m, d2, f) = TogetherSay(m, d, f),
           \A f \in Fields : d2[f] = OrKept(AttributeSays(m, Sent(m)[k], f), d[f])
    PROVE  Ahead(m, d2, r, k + 1)
<1> DEFINE l == Len(Sent(m))
           says(j, f) == AttributeSays(m, Sent(m)[j], f)
<1> SUFFICES ASSUME NEW f \in Fields, r[f] # <<>>
             PROVE  SaidLater(m, d2, r, f, k + 1) /\ (Silent(m, d2, f, k + 1) => r[f] = d2[f])
  BY DEF Ahead
<1>1. SaidLater(m, d, r, f, k) /\ (Silent(m, d, f, k) => r[f] = d[f])
  BY DEF Ahead
<1>2. TogetherSay(m, d2, f) = TogetherSay(m, d, f)
  OBVIOUS
<1>3. \A x : Silent(m, d2, f, x) <=> Silent(m, d, f, x)
  BY <1>2 DEF Silent
<1>4. SaidLater(m, d2, r, f, k + 1)
  <2>1. \A j \in k + 1..Len(Sent(m)) : j \in k..Len(Sent(m))
    OBVIOUS
  <2> QED
    BY <1>1, <1>2, <1>3, <2>1 DEF SaidLater
<1>5. ASSUME Silent(m, d, f, k + 1) PROVE r[f] = d2[f]
  <2>1. CASE says(k, f) # <<>>
    <3>1. k \in k..Len(Sent(m))
      OBVIOUS
    <3>2. r[f] = says(k, f)
      BY <1>1, <1>5, <2>1, <3>1 DEF SaidLater
    <3>3. d2[f] = says(k, f)
      BY <2>1 DEF OrKept
    <3> QED
      BY <3>2, <3>3
  <2>2. CASE says(k, f) = <<>>
    <3>1. \A j \in k..Len(Sent(m)) : j = k \/ j \in k + 1..Len(Sent(m))
      OBVIOUS
    <3>2. Silent(m, d, f, k)
      BY <1>5, <2>2, <3>1 DEF Silent
    <3>3. d2[f] = d[f]
      BY <2>2 DEF OrKept
    <3> QED
      BY <1>1, <3>2, <3>3
  <2> QED
    BY <2>1, <2>2
<1> QED
  BY <1>3, <1>4, <1>5

\* Ahead of an attribute with tags, and of its first tag.
LEMMA TagsStart ==
    ASSUME NEW m, NEW d, NEW r, NEW k \in 1..Len(Sent(m)), Len(Sent(m)) \in Nat, NEW w, NEW a,
           a = Sent(m)[k], w = Walk(m.cluster, a.id), w # "none", Expected(m, a),
           Len(a.tags) \in Nat, DOMAIN a.tags = 1..Len(a.tags),
           Ahead(m, d, r, k)
    PROVE  AheadTags(m, d, r, k, w, a, 0)
<1> SUFFICES ASSUME NEW f \in Fields, r[f] # <<>>
             PROVE  /\ SaidLater(m, d, r, f, k + 1)
                    /\ \A i \in 0 + 1..Len(a.tags) :
                          TagSays(w, a.tags[i], f) # <<>> /\ TagsSilent(w, a, f, i + 1) /\ Silent(m, d, f, k + 1)
                          => r[f] = TagSays(w, a.tags[i], f)
                    /\ TagsSilent(w, a, f, 0 + 1) /\ Silent(m, d, f, k + 1) => r[f] = d[f]
  BY DEF AheadTags
<1> DEFINE T == Len(a.tags)
           values == [j \in DOMAIN a.tags |-> TagSays(w, a.tags[j], f)]
<1>1. SaidLater(m, d, r, f, k) /\ (Silent(m, d, f, k) => r[f] = d[f])
  BY DEF Ahead
<1>2. AttributeSays(m, a, f) = LastOf(values)
  BY DEF AttributeSays
<1>3. DOMAIN values = 1..T /\ T \in Nat /\ \A j \in 1..T : values[j] = TagSays(w, a.tags[j], f)
  OBVIOUS
<1> HIDE DEF values, T
<1>4. /\ (\A j \in 1..T : values[j] = <<>>) => LastOf(values) = <<>>
      /\ \A j \in 1..T : (values[j] # <<>> /\ \A i \in j + 1..T : values[i] = <<>>) => LastOf(values) = values[j]
  BY <1>3, LastOfIs
<1>5. SaidLater(m, d, r, f, k + 1)
  <2>1. \A j \in k + 1..Len(Sent(m)) : j \in k..Len(Sent(m))
    OBVIOUS
  <2> QED
    BY <1>1, <2>1 DEF SaidLater
<1>6. ASSUME NEW i \in 1..T, TagSays(w, a.tags[i], f) # <<>>, TagsSilent(w, a, f, i + 1), Silent(m, d, f, k + 1)
      PROVE  r[f] = TagSays(w, a.tags[i], f)
  <2>1. \A j \in i + 1..T : j \in 1..T /\ values[j] = <<>>
    <3>1. \A j \in i + 1..T : j \in 1..T
      BY <1>3
    <3> QED
      BY <1>3, <1>6, <3>1 DEF TagsSilent, T
  <2>2. LastOf(values) = TagSays(w, a.tags[i], f)
    BY <1>3, <1>4, <1>6, <2>1
  <2>3. k \in k..Len(Sent(m)) /\ AttributeSays(m, Sent(m)[k], f) # <<>>
    BY <1>2, <1>6, <2>2
  <2> QED
    BY <1>1, <1>2, <1>6, <2>2, <2>3 DEF SaidLater
<1>7. ASSUME TagsSilent(w, a, f, 1), Silent(m, d, f, k + 1) PROVE r[f] = d[f]
  <2>1. \A j \in 1..T : values[j] = <<>>
    BY <1>3, <1>7 DEF TagsSilent, T
  <2>2. AttributeSays(m, Sent(m)[k], f) = <<>>
    BY <1>2, <1>4, <2>1
  <2>3. \A j \in k..Len(Sent(m)) : j = k \/ j \in k + 1..Len(Sent(m))
    OBVIOUS
  <2>4. Silent(m, d, f, k)
    BY <1>7, <2>2, <2>3 DEF Silent
  <2> QED
    BY <1>1, <2>4
<1>8. 0 + 1 = 1
  OBVIOUS
<1> QED
  BY <1>5, <1>6, <1>7, <1>8 DEF T

\* After one tag more.
LEMMA TagsMove ==
    ASSUME NEW m, NEW d, NEW d2, NEW r, NEW k, NEW w, NEW a, Len(a.tags) \in Nat, NEW t \in 0..Len(a.tags),
           t # Len(a.tags), AheadTags(m, d, r, k, w, a, t), m.cluster # "ANALOG_INPUT",
           \A f \in Fields : d2[f] = OrKept(TagSays(w, a.tags[t + 1], f), d[f])
    PROVE  AheadTags(m, d2, r, k, w, a, t + 1)
<1> SUFFICES ASSUME NEW f \in Fields, r[f] # <<>>
             PROVE  /\ SaidLater(m, d2, r, f, k + 1)
                    /\ \A i \in (t + 1) + 1..Len(a.tags) :
                          TagSays(w, a.tags[i], f) # <<>> /\ TagsSilent(w, a, f, i + 1) /\ Silent(m, d2, f, k + 1)
                          => r[f] = TagSays(w, a.tags[i], f)
                    /\ TagsSilent(w, a, f, (t + 1) + 1) /\ Silent(m, d2, f, k + 1) => r[f] = d2[f]
  BY DEF AheadTags
<1>1. /\ SaidLater(m, d, r, f, k + 1)
      /\ \A i \in t + 1..Len(a.tags) :
            TagSays(w, a.tags[i], f) # <<>> /\ TagsSilent(w, a, f, i + 1) /\ Silent(m, d, f, k + 1)
            => r[f] = TagSays(w, a.tags[i], f)
      /\ TagsSilent(w, a, f, t + 1) /\ Silent(m, d, f, k + 1) => r[f] = d[f]
  BY DEF AheadTags
<1>2. TogetherSay(m, d2, f) = <<>> /\ TogetherSay(m, d, f) = <<>>
  BY TogetherOnlyAnalog
<1>3. \A x : Silent(m, d2, f, x) <=> Silent(m, d, f, x)
  BY <1>2 DEF Silent
<1>4. SaidLater(m, d2, r, f, k + 1)
  BY <1>1, <1>2, <1>3 DEF SaidLater
<1>5. t + 1 \in t + 1..Len(a.tags) /\ \A i \in (t + 1) + 1..Len(a.tags) : i \in t + 1..Len(a.tags)
  OBVIOUS
<1>6. \A i \in (t + 1) + 1..Len(a.tags) :
         TagSays(w, a.tags[i], f) # <<>> /\ TagsSilent(w, a, f, i + 1) /\ Silent(m, d2, f, k + 1)
         => r[f] = TagSays(w, a.tags[i], f)
  BY <1>1, <1>3, <1>5
<1>7. ASSUME TagsSilent(w, a, f, (t + 1) + 1), Silent(m, d, f, k + 1) PROVE r[f] = d2[f]
  <2>1. CASE TagSays(w, a.tags[t + 1], f) # <<>>
    <3>1. r[f] = TagSays(w, a.tags[t + 1], f)
      BY <1>1, <1>5, <1>7, <2>1
    <3>2. d2[f] = TagSays(w, a.tags[t + 1], f)
      BY <2>1 DEF OrKept
    <3> QED
      BY <3>1, <3>2
  <2>2. CASE TagSays(w, a.tags[t + 1], f) = <<>>
    <3>1. \A i \in t + 1..Len(a.tags) : i = t + 1 \/ i \in (t + 1) + 1..Len(a.tags)
      OBVIOUS
    <3>2. TagsSilent(w, a, f, t + 1)
      BY <1>7, <2>2, <3>1 DEF TagsSilent
    <3>3. d2[f] = d[f]
      BY <2>2 DEF OrKept
    <3> QED
      BY <1>1, <1>7, <3>2, <3>3
  <2> QED
    BY <2>1, <2>2
<1> QED
  BY <1>3, <1>4, <1>6, <1>7

\* After the last tag, ahead of the next attribute.
LEMMA TagsEnd ==
    ASSUME NEW m, NEW d, NEW r, NEW k, NEW w, NEW a, Len(a.tags) \in Nat,
           AheadTags(m, d, r, k, w, a, Len(a.tags))
    PROVE  Ahead(m, d, r, k + 1)
<1>1. \A f : TagsSilent(w, a, f, Len(a.tags) + 1)
  BY DEF TagsSilent
<1> QED
  BY <1>1 DEF Ahead, AheadTags

\* What a setter does.
LEMMA PutIs ==
    ASSUME NEW d, DOMAIN d = Fields, NEW w, NEW g \in Fields, NEW v
    PROVE  /\ DOMAIN Put(d, w, g, v) = Fields
           /\ \A f \in Fields : Put(d, w, g, v)[f] = IF f = g /\ Accepts(w, g, v) THEN Kept(g, v) ELSE d[f]
<1>1. CASE Accepts(w, g, v)
  <2>1. Put(d, w, g, v) = [d EXCEPT ![g] = Kept(g, v)]
    BY <1>1 DEF Put
  <2> QED
    BY <1>1, <2>1
<1>2. CASE ~Accepts(w, g, v)
  <2>1. Put(d, w, g, v) = d
    BY <1>2 DEF Put
  <2> QED
    BY <1>2, <2>1
<1> QED
  BY <1>1, <1>2

\* A field is set to what the attribute says of it.
LEMMA SetSays ==
    ASSUME NEW m, FromDevice(m), Plain(m), NEW k \in 1..Len(Sent(m)), NEW a, a = Sent(m)[k],
           Walk(m.cluster, a.id) = "none", NEW h \in HandlerOf(m.cluster, a.id), h.cast = Cast(a),
           NEW d, DOMAIN d = Fields, NEW d2,
           d2 = IF h.field = "none" THEN d ELSE Put(d, "none", FieldOf(h, m.endpoint), ValueOf(a))
    PROVE  /\ DOMAIN d2 = Fields /\ ValueOf(a) = a.val /\ Expected(m, a)
           /\ \A f \in Fields : d2[f] = OrKept(AttributeSays(m, a, f), d[f])
<1> DEFINE g == FieldOf(h, m.endpoint)
           val == a.val
<1>1. /\ a \in AttributeSet /\ IsFormed(m, a) /\ AsLong(a.type, ValueOf(a))
      /\ a.type \in KnownTypes /\ m.cluster \in Clusters
  BY PlainIs
<1>2. ValueOf(a) = val
  BY <1>1 DEF IsFormed, ValueOf
<1>3. /\ h.cast \in CastsRead /\ h.field \in Fields \cup {"none"}
      /\ h.cast = "string" => h.field \in {"model", "none"}
  BY <1>1, HandlersAre
<1>4. \A x \in HandlerOf(m.cluster, a.id) : x = h
  BY <1>1, OneHandler
<1>5. Expected(m, a)
  BY <1>4 DEF Expected
<1>6. /\ h.field = "none" => g = "none"
      /\ h.field # "none" => g \in Fields
      /\ h.field = "model" => g = "model"
  BY <1>3 DEF FieldOf, Fields
<1>7. ASSUME NEW f \in Fields
      PROVE  AttributeSays(m, a, f) = IF f = g /\ Accepts("none", f, val) THEN Kept(f, val) ELSE <<>>
  <2>1. (\E x \in HandlerOf(m.cluster, a.id) : FieldOf(x, m.endpoint) = f /\ Accepts("none", f, val)) <=> (f = g /\ Accepts("none", f, val))
    BY <1>4
  <2>2. AttributeSays(m, a, f) =
          IF \E x \in HandlerOf(m.cluster, a.id) : FieldOf(x, m.endpoint) = f /\ Accepts("none", f, a.val)
          THEN Kept(f, a.val) ELSE <<>>
    BY <1>5, Zenon DEF AttributeSays
  <2> QED
    BY <2>1, <2>2
<1>8. ASSUME h.field # "none", Accepts("none", g, val) PROVE Kept(g, val) # <<>>
  <2>1. val # <<>>
    <3>1. CASE h.cast = "string"
      <4>1. g = "model"
        BY <1>3, <1>6, <1>8, <3>1
      <4> QED
        BY <1>8, <4>1 DEF Accepts
    <3>2. CASE h.cast # "string"
      BY <1>1, <1>2, <1>3, <3>2, NumbersHaveBytes
    <3> QED
      BY <3>1, <3>2
  <2> QED
    BY <2>1 DEF Kept
<1> HIDE DEF g, val
<1>9. CASE h.field = "none"
  <2>1. d2 = d
    BY <1>9
  <2>2. ASSUME NEW f \in Fields PROVE AttributeSays(m, a, f) = <<>>
    <3>1. f # g
      BY <1>6, <1>9 DEF Fields
    <3> QED
      BY <1>7, <3>1
  <2> QED
    BY <1>2, <1>5, <2>1, <2>2 DEF OrKept, val
<1>10. CASE h.field # "none"
  <2>1. d2 = Put(d, "none", g, val) /\ g \in Fields
    BY <1>2, <1>6, <1>10 DEF g
  <2>2. /\ DOMAIN d2 = Fields
        /\ \A f \in Fields : d2[f] = IF f = g /\ Accepts("none", g, val) THEN Kept(g, val) ELSE d[f]
    BY <2>1, PutIs
  <2>3. ASSUME NEW f \in Fields PROVE d2[f] = OrKept(AttributeSays(m, a, f), d[f])
    <3>1. CASE f = g /\ Accepts("none", g, val)
      <4>1. AttributeSays(m, a, f) = Kept(g, val) /\ Kept(g, val) # <<>>
        BY <1>7, <1>8, <1>10, <3>1
      <4>2. d2[f] = Kept(g, val)
        BY <2>2, <3>1
      <4> QED
        BY <4>1, <4>2 DEF OrKept
    <3>2. CASE ~(f = g /\ Accepts("none", g, val))
      <4>1. AttributeSays(m, a, f) = <<>>
        BY <1>7, <3>2
      <4>2. d2[f] = d[f]
        BY <2>2, <3>2
      <4> QED
        BY <4>1, <4>2 DEF OrKept
    <3> QED
      BY <3>1, <3>2
  <2> QED
    BY <1>2, <1>5, <2>2, <2>3 DEF val
<1> QED
  BY <1>9, <1>10

\* The locals of AnalogInput after one attribute more.
LEMMA LocalMoves ==
    ASSUME NEW m, FromDevice(m), NEW v, NEW v2, NEW id, NEW k \in 1..Len(Sent(m)), NEW says,
           LocalIs(m, v, id, k, says),
           v2 = IF Sent(m)[k].id = id THEN says[k] ELSE v
    PROVE  LocalIs(m, v2, id, k + 1, says)
<1>1. Len(Sent(m)) \in Nat
  BY SentIs
<1>2. ASSUME NEW j \in 1..Len(Sent(m)), j < k + 1, Sent(m)[j].id = id PROVE v2 = says[j]
  <2>1. CASE j = k
    BY <1>2, <2>1
  <2>2. CASE j # k
    <3>1. j < k
      BY <1>1, <1>2, <2>2
    <3>2. Sent(m)[k].id # id
      BY <1>2, <2>2, SentOnce
    <3> QED
      BY <1>2, <3>1, <3>2 DEF LocalIs
  <2> QED
    BY <2>1, <2>2
<1>3. ASSUME \A j \in 1..Len(Sent(m)) : Sent(m)[j].id = id => ~(j < k + 1) PROVE v2 = <<>>
  <2>1. k < k + 1 /\ \A j \in 1..Len(Sent(m)) : ~(j < k + 1) => ~(j < k)
    BY <1>1
  <2>2. Sent(m)[k].id # id
    BY <1>3, <2>1
  <2> QED
    BY <1>3, <2>1, <2>2 DEF LocalIs
<1> QED
  BY <1>2, <1>3 DEF LocalIs

\* Both of them.
LEMMA LocalsMove ==
    ASSUME NEW m, FromDevice(m), NEW v, NEW v2, NEW u, NEW u2, NEW k \in 1..Len(Sent(m)),
           Locals(m, v, u, k),
           m.cluster # "ANALOG_INPUT" => v2 = v,
           m.cluster = "ANALOG_INPUT" =>
             /\ v2 = IF Sent(m)[k].id = <<85, 0>> THEN Sent(m)[k].val ELSE v
             /\ u2 = IF Sent(m)[k].id = <<28, 0>> THEN BeforeComma(Sent(m)[k].val) ELSE u
    PROVE  Locals(m, v2, u2, k + 1)
<1>1. CASE m.cluster # "ANALOG_INPUT"
  BY <1>1 DEF Locals
<1>2. CASE m.cluster = "ANALOG_INPUT"
  <2>1. LocalIs(m, v, <<85, 0>>, k, ValuesOf(m)) /\ LocalIs(m, u, <<28, 0>>, k, UnitsOf(m))
    BY <1>2 DEF Locals
  <2>2. ValuesOf(m)[k] = Sent(m)[k].val /\ UnitsOf(m)[k] = BeforeComma(Sent(m)[k].val)
    BY DEF ValuesOf, UnitsOf
  <2>3. v2 = IF Sent(m)[k].id = <<85, 0>> THEN ValuesOf(m)[k] ELSE v
    BY <1>2, <2>2
  <2>4. u2 = IF Sent(m)[k].id = <<28, 0>> THEN UnitsOf(m)[k] ELSE u
    BY <1>2, <2>2
  <2>5. LocalIs(m, v2, <<85, 0>>, k + 1, ValuesOf(m))
    BY <2>1, <2>3, LocalMoves
  <2>6. LocalIs(m, u2, <<28, 0>>, k + 1, UnitsOf(m))
    BY <2>1, <2>4, LocalMoves
  <2> QED
    BY <1>2, <2>5, <2>6 DEF Locals
<1> QED
  BY <1>1, <1>2

\* The sizes of the types that tags have.
LEMMA TagTypes ==
    /\ NumberOf(32).size = 1 /\ NumberOf(33).size = 2 /\ NumberOf(36).size = 5
    /\ NumberOf(16).size = 1 /\ NumberOf(40).size = 1 /\ NumberOf(57).size = 4
    /\ {16, 32, 33, 36, 40, 57} \subseteq NumberTypes
<1>1. 32 \in UnsignedTypes /\ 33 \in UnsignedTypes /\ 36 \in UnsignedTypes
  <2>1. 32 = 31 + 1 /\ 33 = 31 + 2 /\ 36 = 31 + 5 /\ {1, 2, 5} \subseteq 1..8 \ {3}
    OBVIOUS
  <2> QED
    BY <2>1 DEF UnsignedTypes
<1>2. \A x \in UnsignedTypes : x \in 8..39 /\ x # 16
  BY DEF UnsignedTypes
<1>3. 16 \notin UnsignedTypes /\ 40 \notin UnsignedTypes /\ 57 \notin UnsignedTypes
  BY <1>2
<1> HIDE DEF UnsignedTypes
<1>4. {16, 32, 33, 36, 40, 57} \subseteq NumberTypes
  BY <1>1 DEF NumberTypes
<1>5. /\ \A x \in {32, 33, 36} :
           /\ x \notin 40..47 /\ x # 16 /\ x # 48 /\ x \notin {49, 232, 233} /\ x \notin {224, 225, 226, 234}
           /\ x # 240 /\ x # 56 /\ x # 57 /\ x # 58
      /\ 32 % 8 = 0 /\ 33 % 8 = 1 /\ 36 % 8 = 4
  OBVIOUS
<1>6. NumberOf(32) = Unsigned((32 % 8) + 1) /\ NumberOf(33) = Unsigned((33 % 8) + 1) /\ NumberOf(36) = Unsigned((36 % 8) + 1)
  <2> HIDE DEF Unsigned
  <2>1. ASSUME NEW x \in {32, 33, 36} PROVE NumberOf(x) = Unsigned((x % 8) + 1)
    <3>1. x \in UnsignedTypes
      BY <1>1
    <3> QED
      BY <1>5, <3>1 DEF NumberOf
  <2> QED
    BY <2>1
<1>7. NumberOf(32).size = 1 /\ NumberOf(33).size = 2 /\ NumberOf(36).size = 5
  BY <1>5, <1>6 DEF Unsigned, Entry
<1>8. NumberOf(16).size = 1 /\ NumberOf(57).size = 4
  BY <1>3 DEF NumberOf, Entry
<1>9. NumberOf(40).size = 1
  <2>1. NumberOf(40) = Signed(40 - 39)
    BY <1>3 DEF NumberOf
  <2> QED
    BY <2>1 DEF Signed, Entry
<1> QED
  BY <1>4, <1>7, <1>8, <1>9

\* Every tag that a handler knows is as long as the handler takes it for.
LEMMA TagLengths ==
    ASSUME NEW w \in Walks, NEW tag, NEW type, <<tag, type>> \in TagsOf(w)
    PROVE  /\ type \in NumberTypes /\ LengthOf(w, tag) = 2 + NumberOf(type).size
           /\ Reads(w, tag) \in Nat /\ 1 <= Reads(w, tag) /\ Reads(w, tag) <= LengthOf(w, tag)
           /\ tag \in Nat
<1> DEFINE Is(n) == /\ type \in NumberTypes /\ LengthOf(w, tag) = n /\ NumberOf(type).size = n - 2 /\ n \in 3..7
                    /\ tag \in Nat
<1>1. ASSUME NEW n \in 3..7, Is(n)
      PROVE  /\ type \in NumberTypes /\ LengthOf(w, tag) = 2 + NumberOf(type).size
             /\ Reads(w, tag) \in Nat /\ 1 <= Reads(w, tag) /\ Reads(w, tag) <= LengthOf(w, tag)
             /\ tag \in Nat
  <2>1. type \in NumberTypes /\ LengthOf(w, tag) = n /\ NumberOf(type).size = n - 2 /\ tag \in Nat
    BY <1>1
  <2>2. Reads(w, tag) = 1 \/ Reads(w, tag) = n
    BY <2>1 DEF Reads
  <2> QED
    BY <2>1, <2>2
<1>2. \A x \in 149..152 : x \in {149, 150, 151, 152}
  OBVIOUS
<1> DEFINE T3 == {3, 12, 100, 101, 110, 111, 148, 156}
           T4 == {1, 4, 5, 8, 9, 10, 155}
           T6 == {149, 150, 151, 152}
<1>3. CASE w = "basic"
  <2>1. \/ tag \in T4 /\ type = 33
        \/ tag \in T3 /\ type \in {40, 16, 32}
        \/ tag \in T6 /\ type = 57
        \/ tag = 6 /\ type = 36
    BY <1>2, <1>3 DEF TagsOf
  <2>2. LengthOf(w, tag) = LengthBasic(tag)
    BY <1>3 DEF LengthOf
  <2>3. CASE tag \in T4 /\ type = 33
    <3>1. LengthBasic(tag) = 4
      BY <2>3 DEF LengthBasic
    <3>2. Is(4)
      BY <2>2, <2>3, <3>1, TagTypes
    <3> QED
      BY <1>1, <3>2
  <2>4. CASE tag \in T3 /\ type \in {40, 16, 32}
    <3>1. LengthBasic(tag) = 3
      BY <2>4 DEF LengthBasic
    <3>2. Is(3)
      BY <2>2, <2>4, <3>1, TagTypes
    <3> QED
      BY <1>1, <3>2
  <2>5. CASE tag \in T6 /\ type = 57
    <3>1. LengthBasic(tag) = 6
      BY <2>5 DEF LengthBasic
    <3>2. Is(6)
      BY <2>2, <2>5, <3>1, TagTypes
    <3> QED
      BY <1>1, <3>2
  <2>6. CASE tag = 6 /\ type = 36
    <3>1. LengthBasic(tag) = 7
      BY <2>6 DEF LengthBasic
    <3>2. Is(7)
      BY <2>2, <2>6, <3>1, TagTypes
    <3> QED
      BY <1>1, <3>2
  <2> QED
    BY <2>1, <2>3, <2>4, <2>5, <2>6
<1>4. CASE w = "relay"
  <2>1. \/ tag \in {5, 8, 9} /\ type = 33
        \/ tag \in {3, 11, 154, 100} /\ type \in {40, 16}
        \/ tag \in T6 /\ type = 57
    BY <1>2, <1>4 DEF TagsOf
  <2>2. LengthOf(w, tag) = LengthXiaomi(tag)
    BY <1>4 DEF LengthOf
  <2>3. CASE tag \in {5, 8, 9} /\ type = 33
    <3>1. LengthXiaomi(tag) = 4
      BY <2>3 DEF LengthXiaomi
    <3>2. Is(4)
      BY <2>2, <2>3, <3>1, TagTypes
    <3> QED
      BY <1>1, <3>2
  <2>4. CASE tag \in {3, 11, 154, 100} /\ type \in {40, 16}
    <3>1. LengthXiaomi(tag) = 3
      BY <2>4 DEF LengthXiaomi
    <3>2. Is(3)
      BY <2>2, <2>4, <3>1, TagTypes
    <3> QED
      BY <1>1, <3>2
  <2>5. CASE tag \in T6 /\ type = 57
    <3>1. LengthXiaomi(tag) = 6
      BY <2>5 DEF LengthXiaomi
    <3>2. Is(6)
      BY <2>2, <2>5, <3>1, TagTypes
    <3> QED
      BY <1>1, <3>2
  <2> QED
    BY <2>1, <2>3, <2>4, <2>5
<1>5. CASE w = "door"
  <2>1. (tag = 3 /\ type = 40) \/ (tag = 5 /\ type = 33)
    BY <1>5 DEF TagsOf
  <2>2. LengthOf(w, tag) = LengthDoor(tag)
    BY <1>5 DEF LengthOf
  <2>3. CASE tag = 3 /\ type = 40
    <3>1. LengthDoor(tag) = 3
      BY <2>3 DEF LengthDoor
    <3>2. Is(3)
      BY <2>2, <2>3, <3>1, TagTypes
    <3> QED
      BY <1>1, <3>2
  <2>4. CASE tag = 5 /\ type = 33
    <3>1. LengthDoor(tag) = 4
      BY <2>4 DEF LengthDoor
    <3>2. Is(4)
      BY <2>2, <2>4, <3>1, TagTypes
    <3> QED
      BY <1>1, <3>2
  <2> QED
    BY <2>1, <2>3, <2>4
<1>6. w = "basic" \/ w = "relay" \/ w = "door"
  BY DEF Walks
<1> QED
  BY <1>3, <1>4, <1>5, <1>6

\* Fields are set to what a tag says of them.
LEMMA TagSet ==
    ASSUME NEW w \in Walks, NEW t, t.val # <<>>,
           NEW d, DOMAIN d = Fields
    PROVE  /\ DOMAIN PutTag(d, w, t.tag, t.val) = Fields
           /\ \A f \in Fields : PutTag(d, w, t.tag, t.val)[f] = OrKept(TagSays(w, t, f), d[f])
<1> DEFINE g == TagField(w, t.tag)
           v == t.val
           d2 == PutTag(d, w, t.tag, v)
<1>1. g \in {"none", "battery", "temperature", "state", "state2", "mains", "current"}
  BY DEF TagField
<1>2. \A f : TagSays(w, t, f) = IF f = "power" /\ g = "mains" THEN <<1>>
                                ELSE IF f = g /\ Accepts(w, f, v) THEN Kept(f, v) ELSE <<>>
  BY DEF TagSays
<1>3. d2 = IF g = "none" THEN (IF g = "mains" THEN Put(d, w, "power", <<1>>) ELSE d)
           ELSE Put(IF g = "mains" THEN Put(d, w, "power", <<1>>) ELSE d, w, g, v)
  BY DEF PutTag
<1>4. \A f : Kept(f, v) # <<>>
  BY DEF Kept
<1>5. {"power", "mains"} \subseteq Fields /\ (g # "none" => g \in Fields) /\ "none" \notin Fields
  BY <1>1 DEF Fields
<1> HIDE DEF g, d2, v
<1>6. CASE g = "none"
  <2>1. d2 = d
    BY <1>3, <1>6
  <2>2. \A f \in Fields : TagSays(w, t, f) = <<>>
    BY <1>2, <1>5, <1>6
  <2> QED
    BY <2>1, <2>2 DEF OrKept, d2, v
<1>7. CASE g = "mains"
  <2> DEFINE e == Put(d, w, "power", <<1>>)
  <2>1. d2 = Put(e, w, "mains", v)
    BY <1>3, <1>7
  <2>2. Accepts(w, "power", <<1>>) /\ Kept("power", <<1>>) = <<1>> /\ Accepts(w, "mains", v)
    BY DEF Accepts, Kept
  <2>3. DOMAIN e = Fields /\ \A f \in Fields : e[f] = IF f = "power" THEN <<1>> ELSE d[f]
    BY <1>5, <2>2, PutIs
  <2> HIDE DEF e
  <2>4. DOMAIN d2 = Fields /\ \A f \in Fields : d2[f] = IF f = "mains" THEN Kept("mains", v) ELSE e[f]
    BY <1>5, <2>1, <2>2, <2>3, PutIs
  <2>5. ASSUME NEW f \in Fields PROVE d2[f] = OrKept(TagSays(w, t, f), d[f])
    <3>1. CASE f = "power"
      BY <1>2, <1>7, <2>3, <2>4, <3>1 DEF OrKept
    <3>2. CASE f = "mains"
      <4>1. TagSays(w, t, f) = Kept("mains", v)
        BY <1>2, <1>7, <2>2, <3>2
      <4> QED
        BY <1>4, <2>4, <3>2, <4>1 DEF OrKept
    <3>3. CASE f # "power" /\ f # "mains"
      <4>1. TagSays(w, t, f) = <<>>
        BY <1>2, <1>7, <3>3
      <4> QED
        BY <2>3, <2>4, <3>3, <4>1 DEF OrKept
    <3> QED
      BY <3>1, <3>2, <3>3
  <2> QED
    BY <2>4, <2>5 DEF d2, v
<1>8. CASE g # "none" /\ g # "mains"
  <2>1. d2 = Put(d, w, g, v) /\ g \in Fields
    BY <1>3, <1>5, <1>8
  <2>2. DOMAIN d2 = Fields /\ \A f \in Fields : d2[f] = IF f = g /\ Accepts(w, g, v) THEN Kept(g, v) ELSE d[f]
    BY <2>1, PutIs
  <2>3. ASSUME NEW f \in Fields PROVE d2[f] = OrKept(TagSays(w, t, f), d[f])
    <3>1. CASE f = g /\ Accepts(w, g, v)
      <4>1. TagSays(w, t, f) = Kept(g, v)
        BY <1>2, <1>8, <3>1
      <4> QED
        BY <1>4, <2>2, <3>1, <4>1 DEF OrKept
    <3>2. CASE ~(f = g /\ Accepts(w, g, v))
      <4>1. TagSays(w, t, f) = <<>>
        BY <1>2, <1>8, <3>2
      <4> QED
        BY <2>2, <3>2, <4>1 DEF OrKept
    <3> QED
      BY <3>1, <3>2
  <2> QED
    BY <2>2, <2>3 DEF d2, v
<1> QED
  BY <1>6, <1>7, <1>8

\* The bytes of a tag.
LEMMA TagBytesAre ==
    ASSUME NEW t \in [tag : Byte, type : Byte, val : Seq(Byte)]
    PROVE  /\ TagBytes(t) \in Seq(Byte) /\ Len(t.val) \in Nat /\ Len(TagBytes(t)) = 2 + Len(t.val)
           /\ TagBytes(t)[1] = t.tag
           /\ \A j \in 1..Len(t.val) : TagBytes(t)[2 + j] = t.val[j]
<1> DEFINE two == <<t.tag, t.type>>
           b == TagBytes(t)
           v == t.val
           n == Len(v)
<1>1. two \in Seq(Byte) /\ Len(two) = 2 /\ two[1] = t.tag /\ v \in Seq(Byte)
  OBVIOUS
<1>2. n \in Nat
  BY <1>1, LenProperties
<1>3. b = two \o v
  BY DEF TagBytes
<1> HIDE DEF two, b, v
<1>4. /\ b \in Seq(Byte) /\ Len(b) = Len(two) + Len(v)
      /\ \A j \in 1..Len(two) + Len(v) : b[j] = IF j <= Len(two) THEN two[j] ELSE v[j - Len(two)]
  BY <1>1, <1>3, ConcatProperties
<1>5. Len(b) = 2 + n /\ \A j \in 1..2 + n : b[j] = IF j <= 2 THEN two[j] ELSE v[j - 2]
  BY <1>1, <1>4, Zenon DEF n
<1> HIDE DEF n
<1>6. b[1] = t.tag
  BY <1>1, <1>2, <1>5
<1>7. ASSUME NEW j \in 1..n PROVE b[2 + j] = v[j]
  <2>1. 2 + j \in 1..2 + n /\ ~(2 + j <= 2) /\ (2 + j) - 2 = j
    BY <1>2
  <2> QED
    BY <1>5, <2>1
<1> QED
  BY <1>2, <1>4, <1>5, <1>6, <1>7 DEF b, v, n

\* The bytes of the t-th tag are between TagStarts(a, t - 1) and TagStarts(a, t).
LEMMA TagsStand ==
    ASSUME NEW m, NEW a \in AttributeSet, IsFormed(m, a), Walk(m.cluster, a.id) # "none", Cast(a) = "string",
           \A i \in DOMAIN a.tags : <<a.tags[i].tag, a.tags[i].type>> \in TagsOf(Walk(m.cluster, a.id))
    PROVE  /\ ValueOf(a) \in Seq(Byte) /\ Len(ValueOf(a)) \in Nat
           /\ Len(a.tags) \in Nat /\ DOMAIN a.tags = 1..Len(a.tags)
           /\ TagStarts(a, 0) = 0 /\ TagStarts(a, Len(a.tags)) = Len(ValueOf(a))
           /\ \A t \in 0..Len(a.tags) : TagStarts(a, t) \in 0..Len(ValueOf(a))
           /\ \A t \in 1..Len(a.tags) :
                /\ <<a.tags[t].tag, a.tags[t].type>> \in TagsOf(Walk(m.cluster, a.id))
                /\ a.tags[t].val \in Seq(Byte) /\ Len(a.tags[t].val) = NumberOf(a.tags[t].type).size
                /\ TagStarts(a, t) = TagStarts(a, t - 1) + 2 + Len(a.tags[t].val)
                /\ ValueOf(a)[TagStarts(a, t - 1) + 1] = a.tags[t].tag
                /\ \A j \in 1..Len(a.tags[t].val) : ValueOf(a)[TagStarts(a, t - 1) + 2 + j] = a.tags[t].val[j]
<1> DEFINE tags == a.tags
           T == Len(tags)
           pieces == TagPieces(a)
           TagSet1 == [tag : Byte, type : Byte, val : Seq(Byte)]
           all == FlattenSeq(pieces)
           w == Walk(m.cluster, a.id)
<1>1. tags \in Seq(TagSet1) /\ a.val \in Seq(Byte)
  BY DEF AttributeSet
<1>2. T \in Nat /\ DOMAIN tags = 1..T /\ \A t \in 1..T : tags[t] \in TagSet1
  BY <1>1, LenProperties, ElementOfSeq
<1>3. \A t \in 1..T : TagBytes(tags[t]) \in Seq(Byte)
  BY <1>2, TagBytesAre
<1>4. pieces = [j \in 1..T |-> TagBytes(tags[j])]
  BY <1>2 DEF TagPieces
<1>5. /\ a.val = <<>>
      /\ \A i \in 1..T : AsLong(tags[i].type, tags[i].val)
  BY <1>2 DEF IsFormed
<1>6. w \in Walks
  BY WalksAre
<1>7. \A i \in 1..T : <<tags[i].tag, tags[i].type>> \in TagsOf(w)
  BY <1>2
<1> HIDE DEF T, pieces
<1>8. pieces \in [1..T -> Seq(Byte)]
  BY <1>3, <1>4
<1>9. pieces \in Seq(Seq(Byte)) /\ Len(pieces) = T
  <2>1. pieces \in Seq(Seq(Byte))
    BY <1>2, <1>8, SeqDef
  <2>2. Len(pieces) \in Nat /\ DOMAIN pieces = 1..Len(pieces) /\ DOMAIN pieces = 1..T
    BY <1>8, <2>1, LenProperties
  <2> DEFINE l == Len(pieces)
  <2>3. l \in Nat /\ 1..l = 1..T
    BY <2>2
  <2> HIDE DEF l
  <2>4. l = T
    BY <1>2, <2>3, EqualIntervals
  <2> QED
    BY <2>1, <2>4 DEF l
<1>10. IsFlattened(Byte, pieces)
  <2>1. \A S : \A x \in Seq(Seq(S)) : IsFlattened(S, x)
    BY Flattened DEF IsFlattened
  <2> QED
    BY <1>9, <2>1
<1> DEFINE end(t) == EndOf(Byte, pieces, t)
<1>11. /\ all \in Seq(Byte) /\ Len(all) \in Nat /\ end(0) = 0 /\ end(T) = Len(all)
       /\ \A t \in 0..T : end(t) \in 0..Len(all)
       /\ \A t \in 1..T : /\ end(t) = end(t - 1) + Len(pieces[t])
                          /\ \A j \in 1..Len(pieces[t]) : all[end(t - 1) + j] = pieces[t][j]
  BY <1>9, <1>10 DEF IsFlattened
<1>12. \A t : TagStarts(a, t) = end(t)
  BY DEF TagStarts, pieces
<1>13. ValueOf(a) = all
  <2>1. CASE a.tags = <<>>
    <3>1. ValueOf(a) = <<>>
      BY <1>5, <2>1 DEF ValueOf
    <3>2. T = 0
      BY <2>1 DEF T
    <3>3. Len(all) = 0
      BY <1>11, <3>2
    <3>4. all = <<>>
      BY <1>11, <3>3, EmptySeq
    <3> QED
      BY <3>1, <3>4
  <2>2. CASE a.tags # <<>>
    BY <2>2 DEF ValueOf, TagPieces, pieces
  <2> QED
    BY <2>1, <2>2
<1> HIDE DEF all, end, tags
<1>14. ASSUME NEW t \in 1..T
       PROVE  /\ tags[t].val \in Seq(Byte) /\ Len(tags[t].val) = NumberOf(tags[t].type).size
              /\ end(t) = end(t - 1) + 2 + Len(tags[t].val)
              /\ all[end(t - 1) + 1] = tags[t].tag
              /\ \A j \in 1..Len(tags[t].val) : all[end(t - 1) + 2 + j] = tags[t].val[j]
  <2> DEFINE v == tags[t].val
             n == Len(v)
             e == end(t - 1)
  <2>1. /\ TagBytes(tags[t]) \in Seq(Byte) /\ n \in Nat /\ Len(TagBytes(tags[t])) = 2 + n
        /\ TagBytes(tags[t])[1] = tags[t].tag
        /\ \A j \in 1..n : TagBytes(tags[t])[2 + j] = v[j]
    BY <1>2, TagBytesAre
  <2>2. pieces[t] = TagBytes(tags[t])
    BY <1>4
  <2>3. v \in Seq(Byte)
    BY <1>2
  <2>4. n = NumberOf(tags[t].type).size
    <3>1. tags[t].type \in NumberTypes
      BY <1>6, <1>7, TagLengths
    <3> QED
      BY <1>5, <3>1 DEF AsLong
  <2>5. t - 1 \in 0..T /\ e \in Nat
    <3>1. t - 1 \in 0..T
      BY <1>2
    <3>2. e \in 0..Len(all)
      BY <1>11, <3>1
    <3> QED
      BY <1>11, <3>1, <3>2
  <2>6. end(t) = e + Len(pieces[t]) /\ \A j \in 1..Len(pieces[t]) : all[e + j] = pieces[t][j]
    BY <1>11
  <2> HIDE DEF v, n, e
  <2>7. Len(pieces[t]) = 2 + n
    BY <2>1, <2>2
  <2>8. end(t) = e + 2 + n
    BY <2>1, <2>5, <2>6, <2>7
  <2>9. all[e + 1] = tags[t].tag
    <3>1. 1 \in 1..Len(pieces[t])
      BY <2>1, <2>7
    <3> QED
      BY <2>1, <2>2, <2>6, <3>1
  <2>10. ASSUME NEW j \in 1..n PROVE all[e + 2 + j] = v[j]
    <3>1. 2 + j \in 1..Len(pieces[t]) /\ e + (2 + j) = e + 2 + j
      BY <2>1, <2>5, <2>7
    <3> QED
      BY <2>1, <2>2, <2>6, <3>1
  <2> QED
    BY <2>3, <2>4, <2>8, <2>9, <2>10 DEF v, n, e
<1> QED
  BY <1>2, <1>7, <1>11, <1>12, <1>13, <1>14 DEF tags, T

\* At the end AnalogInput's value goes to the field of its unit.
LEMMA HandledSays ==
    ASSUME NEW m, FromDevice(m), Plain(m), NEW d, DOMAIN d = Fields, NEW v, NEW u,
           Locals(m, v, u, Len(Sent(m)) + 1), NEW d2,
           d2 = IF v # <<>> /\ UnitField(d, u) # "none" /\ IsMeasured(UnitField(d, u), v)
                THEN [d EXCEPT ![UnitField(d, u)] = v] ELSE d
    PROVE  /\ DOMAIN d2 = Fields
           /\ \A f \in Fields : d2[f] = OrKept(TogetherSay(m, d, f), d[f])
<1> DEFINE g == UnitField(d, u)
           N == Len(Sent(m))
           at(j) == Sent(m)[j]
<1>1. DOMAIN d2 = Fields
  OBVIOUS
<1>2. g \in Fields \cup {"none"} /\ "none" \notin Fields /\ (u = <<>> => g = "none")
  <2>1. g \in {"humidity", "temperature", "battery", "mains", "pressure", "none"}
    <3>1. (IF d["power"] = <<3>> THEN "battery" ELSE "mains") \in {"battery", "mains"}
      OBVIOUS
    <3> QED
      BY <3>1 DEF UnitField
  <2>2. <<>> # <<37>> /\ <<>> # <<67>> /\ <<>> # <<86>> /\ <<>> # <<80, 97>>
    OBVIOUS
  <2>3. u = <<>> => g = "none"
    BY <2>2 DEF UnitField
  <2> HIDE DEF g
  <2> QED
    BY <2>1, <2>3 DEF Fields
<1>3. N \in Nat /\ DOMAIN Sent(m) = 1..N /\ \A j \in 1..N : j < N + 1
  BY SentIs, LenProperties
<1>4. CASE m.cluster # "ANALOG_INPUT"
  <2>1. d2 = d
    BY <1>4 DEF Locals
  <2>2. \A f : TogetherSay(m, d, f) = <<>>
    BY <1>4, TogetherOnlyAnalog
  <2> QED
    BY <1>1, <2>1, <2>2 DEF OrKept
<1>5. CASE m.cluster = "ANALOG_INPUT"
  <2>1. LocalIs(m, v, <<85, 0>>, N + 1, ValuesOf(m)) /\ LocalIs(m, u, <<28, 0>>, N + 1, UnitsOf(m))
    BY <1>5 DEF Locals
  <2>2. \A f : TogetherSay(m, d, f) = IF Measured(m, d, f) = {} THEN <<>> ELSE CHOOSE x \in Measured(m, d, f) : TRUE
    BY <1>5 DEF TogetherSay
  <2>3. \A a : a \in ToSet(Sent(m)) <=> \E j \in 1..N : a = at(j)
    BY <1>3 DEF ToSet
  <2>4. CASE \A j \in 1..N : at(j).id # <<85, 0>>
    <3>1. v = <<>>
      BY <2>1, <2>4 DEF LocalIs
    <3>2. \A f : Measured(m, d, f) = {}
      BY <2>3, <2>4 DEF Measured
    <3>3. d2 = d
      BY <3>1
    <3> QED
      BY <1>1, <2>2, <3>2, <3>3 DEF OrKept
  <2>5. CASE \A j \in 1..N : at(j).id # <<28, 0>>
    <3>1. u = <<>>
      BY <2>1, <2>5 DEF LocalIs
    <3>2. \A f : Measured(m, d, f) = {}
      BY <2>3, <2>5 DEF Measured
    <3>3. d2 = d
      BY <1>2, <3>1
    <3> QED
      BY <1>1, <2>2, <3>2, <3>3 DEF OrKept
  <2>6. ASSUME NEW i \in 1..N, at(i).id = <<85, 0>>, NEW k \in 1..N, at(k).id = <<28, 0>>
        PROVE  \A f \in Fields : d2[f] = OrKept(TogetherSay(m, d, f), d[f])
    <3>1. v = at(i).val
      <4>1. v = ValuesOf(m)[i]
        BY <1>3, <2>1, <2>6 DEF LocalIs
      <4> QED
        BY <4>1 DEF ValuesOf
    <3>2. u = BeforeComma(at(k).val)
      <4>1. u = UnitsOf(m)[k]
        BY <1>3, <2>1, <2>6 DEF LocalIs
      <4> QED
        BY <4>1 DEF UnitsOf
    <3>3. \A a \in ToSet(Sent(m)) : (a.id = <<85, 0>> => a = at(i)) /\ (a.id = <<28, 0>> => a = at(k))
      <4> SUFFICES ASSUME NEW a \in ToSet(Sent(m))
                   PROVE  (a.id = <<85, 0>> => a = at(i)) /\ (a.id = <<28, 0>> => a = at(k))
        OBVIOUS
      <4>1. PICK j \in 1..N : a = at(j)
        BY <2>3
      <4>2. a.id = <<85, 0>> => j = i
        BY <2>6, <4>1, SentOnce
      <4>3. a.id = <<28, 0>> => j = k
        BY <2>6, <4>1, SentOnce
      <4> QED
        BY <4>1, <4>2, <4>3
    <3>4. at(i) \in ToSet(Sent(m)) /\ at(k) \in ToSet(Sent(m))
      BY <2>3
    <3>5. v # <<>>
      <4> DEFINE a == at(i)
      <4>1. /\ a \in AttributeSet /\ AsLong(a.type, ValueOf(a)) /\ a.type \in KnownTypes /\ IsFormed(m, a)
            /\ Expected(m, a) \/ m.cluster = "BASIC"
        BY PlainIs
      <4>2. [id |-> <<85, 0>>, field |-> "none", cast |-> "float"] \in HandlerOf(m.cluster, a.id)
        BY <1>5, <2>6 DEF HandlerOf, Handlers
      <4>3. Cast(a) = "float"
        BY <1>5, <4>1, <4>2 DEF Expected
      <4>4. ValueOf(a) # <<>>
        BY <4>1, <4>3, NumbersHaveBytes DEF CastsRead
      <4>5. ValueOf(a) = a.val
        BY <1>5, <4>1 DEF IsFormed, ValueOf, Walk
      <4> QED
        BY <3>1, <4>4, <4>5
    <3> HIDE DEF g, at
    <3>6. ASSUME NEW f, NEW x
          PROVE  x \in Measured(m, d, f) <=> x = v /\ g = f /\ IsMeasured(f, v)
      <4>1. x \in Measured(m, d, f) <=>
              /\ \E a \in ToSet(Sent(m)) : a.id = <<85, 0>> /\ x = a.val
              /\ \E a \in ToSet(Sent(m)) : /\ a.id = <<28, 0>> /\ UnitField(d, BeforeComma(a.val)) = f
                                           /\ IsMeasured(f, x)
        BY Zenon DEF Measured
      <4>2. (\E a \in ToSet(Sent(m)) : a.id = <<85, 0>> /\ x = a.val) <=> x = v
        BY <2>6, <3>1, <3>3, <3>4
      <4>3. (\E a \in ToSet(Sent(m)) : /\ a.id = <<28, 0>> /\ UnitField(d, BeforeComma(a.val)) = f
                                       /\ IsMeasured(f, x)) <=> g = f /\ IsMeasured(f, x)
        <5>1. UnitField(d, BeforeComma(at(k).val)) = g
          BY <3>2 DEF g
        <5> HIDE DEF UnitField, IsMeasured
        <5> QED
          BY <2>6, <3>3, <3>4, <5>1
      <4> QED
        BY <4>1, <4>2, <4>3
    <3>7. ASSUME NEW f \in Fields PROVE TogetherSay(m, d, f) = IF g = f /\ IsMeasured(f, v) THEN v ELSE <<>>
      <4>1. CASE g = f /\ IsMeasured(f, v)
        <5>1. Measured(m, d, f) = {v}
          BY <3>6, <4>1
        <5> QED
          BY <2>2, <4>1, <5>1
      <4>2. CASE ~(g = f /\ IsMeasured(f, v))
        <5>1. Measured(m, d, f) = {}
          BY <3>6, <4>2
        <5> QED
          BY <2>2, <4>2, <5>1
      <4> QED
        BY <4>1, <4>2
    <3>8. d2 = IF v # <<>> /\ g # "none" /\ IsMeasured(g, v) THEN [d EXCEPT ![g] = v] ELSE d
      BY DEF g
    <3>9. ASSUME NEW f \in Fields PROVE d2[f] = OrKept(TogetherSay(m, d, f), d[f])
      <4>1. CASE g = f /\ IsMeasured(f, v)
        <5>1. d2 = [d EXCEPT ![f] = v]
          BY <1>2, <3>5, <3>8, <4>1
        <5>2. d2[f] = v
          BY <5>1
        <5> QED
          BY <3>5, <3>7, <4>1, <5>2 DEF OrKept
      <4>2. CASE ~(g = f /\ IsMeasured(f, v))
        <5>1. TogetherSay(m, d, f) = <<>>
          BY <3>7, <4>2
        <5>2. d2 = d \/ (d2 = [d EXCEPT ![g] = v] /\ g # f)
          BY <3>8, <4>2
        <5>3. d2[f] = d[f]
          BY <5>2
        <5> QED
          BY <5>1, <5>3 DEF OrKept
      <4> QED
        BY <4>1, <4>2
    <3> QED
      BY <3>9
  <2>7. \A f \in Fields : d2[f] = OrKept(TogetherSay(m, d, f), d[f])
    BY <2>4, <2>5, <2>6
  <2> QED
    BY <1>1, <2>7
<1> QED
  BY <1>4, <1>5

\* What the message says of a field is ahead when it is received.
LEMMA SaysAhead ==
    ASSUME NEW m, FromDevice(m), NEW d, NEW r,
           \A f \in Fields : r[f] # <<>> => (Says(m, d, f) # <<>> /\ r[f] = Says(m, d, f))
                                            \/ (Says(m, d, f) = <<>> /\ r[f] = d[f])
    PROVE  Ahead(m, d, r, 1)
<1> SUFFICES ASSUME NEW f \in Fields, r[f] # <<>>
             PROVE  SaidLater(m, d, r, f, 1) /\ (Silent(m, d, f, 1) => r[f] = d[f])
  BY DEF Ahead
<1> DEFINE N == Len(Sent(m))
           says == [j \in DOMAIN Sent(m) |-> AttributeSays(m, Sent(m)[j], f)]
           last == TogetherSay(m, d, f)
           all == says \o <<last>>
           S == {AttributeSays(m, Sent(m)[j], f) : j \in DOMAIN Sent(m)} \cup {last}
<1>1. N \in Nat /\ DOMAIN Sent(m) = 1..N
  BY SentIs, LenProperties
<1>2. says \in [1..N -> S]
  BY <1>1
<1>3. \A j \in 1..N : says[j] = AttributeSays(m, Sent(m)[j], f)
  BY <1>1
<1>4. Says(m, d, f) = LastOf(all)
  BY DEF Says
<1>5. last \in S
  OBVIOUS
<1> HIDE DEF says, last, S
<1>6. says \in Seq(S) /\ Len(says) = N
  <2> HIDE DEF N
  <2>1. says \in Seq(S)
    BY <1>1, <1>2, SeqDef
  <2>2. Len(says) \in Nat /\ DOMAIN says = 1..Len(says) /\ DOMAIN says = 1..N
    BY <1>2, <2>1, LenProperties
  <2> DEFINE l == Len(says)
  <2>3. l \in Nat /\ 1..l = 1..N
    BY <2>2
  <2> HIDE DEF l
  <2>4. l = N
    BY <1>1, <2>3, EqualIntervals
  <2> QED
    BY <2>1, <2>4 DEF l
<1> DEFINE one == <<last>>
<1>7. one \in Seq(S) /\ Len(one) = 1 /\ one[1] = last
  BY <1>5
<1> HIDE DEF one
<1>8. all \in Seq(S) /\ Len(all) = Len(says) + Len(one)
      /\ \A j \in 1..Len(says) + Len(one) : all[j] = IF j <= Len(says) THEN says[j] ELSE one[j - Len(says)]
  <2>1. all = says \o one
    BY DEF one
  <2> HIDE DEF all
  <2> QED
    BY <1>6, <1>7, <2>1, ConcatProperties
<1> HIDE DEF all, N
<1>9. /\ DOMAIN all = 1..N + 1
      /\ \A j \in 1..N + 1 : all[j] = IF j <= N THEN says[j] ELSE one[j - N]
  <2>1. DOMAIN all = 1..Len(all)
    BY <1>8, LenProperties
  <2> QED
    BY <1>6, <1>7, <1>8, <2>1, Zenon
<1>10. (\A j \in 1..N : all[j] = says[j]) /\ all[N + 1] = last /\ N + 1 \in 1..N + 1
  <2>1. \A j \in 1..N : j \in 1..N + 1 /\ j <= N
    BY <1>1
  <2>2. N + 1 \in 1..N + 1 /\ ~(N + 1 <= N) /\ (N + 1) - N = 1
    BY <1>1
  <2>3. all[N + 1] = one[(N + 1) - N]
    BY <1>9, <2>2, Zenon
  <2>4. \A j \in 1..N : all[j] = says[j]
    BY <1>9, <2>1, Zenon
  <2> QED
    BY <1>7, <2>2, <2>3, <2>4
<1>11. N + 1 \in Nat
  BY <1>1
<1>12. /\ (\A j \in 1..N + 1 : all[j] = <<>>) => LastOf(all) = <<>>
       /\ \A j \in 1..N + 1 : (all[j] # <<>> /\ \A i \in j + 1..N + 1 : all[i] = <<>>) => LastOf(all) = all[j]
  BY <1>9, <1>11, LastOfIs
<1>13. Says(m, d, f) # <<>> => r[f] = Says(m, d, f)
  OBVIOUS
<1>14. ASSUME last # <<>> PROVE r[f] = last
  <2>1. \A i \in (N + 1) + 1..N + 1 : all[i] = <<>>
    BY <1>1
  <2> QED
    BY <1>4, <1>10, <1>12, <1>13, <1>14, <2>1
<1>15. ASSUME NEW j \in 1..N, AttributeSays(m, Sent(m)[j], f) # <<>>, Silent(m, d, f, j + 1)
       PROVE  r[f] = AttributeSays(m, Sent(m)[j], f)
  <2>1. \A i \in j + 1..N + 1 : i = N + 1 \/ (i \in j + 1..N /\ i \in 1..N)
    BY <1>1
  <2>2. \A i \in j + 1..N + 1 : all[i] = <<>>
    BY <1>3, <1>10, <1>15, <2>1 DEF Silent, last, N
  <2>3. j \in 1..N + 1 /\ all[j] = AttributeSays(m, Sent(m)[j], f)
    BY <1>1, <1>3, <1>10
  <2> QED
    BY <1>4, <1>12, <1>13, <1>15, <2>2, <2>3
<1>16. ASSUME Silent(m, d, f, 1) PROVE r[f] = d[f]
  <2>1. \A i \in 1..N + 1 : i = N + 1 \/ i \in 1..N
    BY <1>1
  <2>2. \A i \in 1..N + 1 : all[i] = <<>>
    BY <1>3, <1>10, <1>16, <2>1 DEF Silent, last, N
  <2> QED
    BY <1>4, <1>12, <2>2
<1> QED
  BY <1>14, <1>15, <1>16 DEF SaidLater, last, N

\* A message with nothing that could be read says nothing.
LEMMA EmptySaysNothing ==
    ASSUME NEW m, FromDevice(m), Len(Sent(m)) = 0, NEW d, NEW r, Ahead(m, d, r, 1)
    PROVE  \A f \in Fields : r[f] # <<>> => d[f] = r[f]
<1>1. DOMAIN Sent(m) = {}
  BY SentIs, LenProperties
<1>2. ToSet(Sent(m)) = {}
  BY <1>1 DEF ToSet
<1>3. \A f : Measured(m, d, f) = {}
  BY <1>2 DEF Measured
<1>4. \A f : TogetherSay(m, d, f) = <<>>
  BY <1>3 DEF TogetherSay
<1>5. \A f : Silent(m, d, f, 1)
  BY <1>4 DEF Silent
<1> QED
  BY <1>5 DEF Ahead

\* AnalogInput's locals when it begins.
LEMMA LocalsBegin ==
    ASSUME NEW m, FromDevice(m)
    PROVE  Locals(m, <<>>, <<>>, 1)
<1>1. \A j \in 1..Len(Sent(m)) : ~(j < 1)
  BY SentIs
<1> QED
  BY <1>1 DEF Locals, LocalIs

\* Before the first message nothing is promised.
LEMMA FieldsInitially == ReportInit => FieldsInv
<1> SUFFICES ASSUME ReportInit PROVE FieldsInv
  OBVIOUS
<1>1. ParserInv
  BY ParserInitially
<1>2. ed = Nothing /\ reported = Nothing /\ stage = "idle"
  BY DEF ReportInit
<1>3. DOMAIN ed = Fields /\ \A f \in Fields : reported[f] = <<>>
  BY <1>2 DEF Nothing
<1> QED
  BY <1>1, <1>2, <1>3 DEF FieldsInv

\* The property is the part of FieldsInv for a device at rest.
LEMMA FollowsWhenIdle == FieldsInv => FieldsFollowReports
<1> SUFFICES ASSUME FieldsInv, stage = "idle", NEW f \in Fields, reported[f] # <<>>
             PROVE  ed[f] = reported[f]
  BY DEF FieldsFollowReports
<1>1. reported # Nothing
  BY DEF Nothing
<1> QED
  BY <1>1 DEF FieldsInv

\* What a message says is ahead when it is received.
LEMMA ReceiveFields ==
    ASSUME NEW m \in Messages, ReportsAssumption PROVE FieldsInv /\ Receive(m) => FieldsInv'
<1> SUFFICES ASSUME FieldsInv, Receive(m) PROVE FieldsInv'
  OBVIOUS
<1>1. ParserInv'
  BY ReceiveParser
<1>2. /\ msg' = m /\ handling' = 1 /\ value' = <<>> /\ unit' = <<>> /\ ed' = ed /\ stage = "idle"
      /\ stage' = IF Len(Encode(m)) < 4 THEN "idle" ELSE "parse"
      /\ reported' = IF Plain(m) THEN [f \in Fields |-> SaidBy(m, ed, f)] ELSE Nothing
  BY DEF Receive
<1>3. FromDevice(m) /\ DOMAIN ed = Fields
  BY ReportsAssumption DEF FieldsInv
<1>4. CASE ~Plain(m)
  BY <1>1, <1>2, <1>3, <1>4 DEF FieldsInv
<1>5. CASE Plain(m)
  <2> DEFINE r == [f \in Fields |-> SaidBy(m, ed, f)]
  <2>1. reported' = r
    BY <1>2, <1>5
  <2>2. \A f \in Fields : reported[f] # <<>> => ed[f] = reported[f]
    BY <1>2, FollowsWhenIdle DEF FieldsFollowReports
  <2>3. \A f \in Fields : r[f] # <<>> => (Says(m, ed, f) # <<>> /\ r[f] = Says(m, ed, f))
                                          \/ (Says(m, ed, f) = <<>> /\ r[f] = ed[f])
    BY <2>2 DEF SaidBy
  <2> HIDE DEF r
  <2>4. Ahead(m, ed, r, 1)
    BY <1>3, <2>3, SaysAhead
  <2>5. Len(Encode(m)) < 4 => \A f \in Fields : r[f] # <<>> => ed[f] = r[f]
    <3> SUFFICES ASSUME Len(Encode(m)) < 4 PROVE \A f \in Fields : r[f] # <<>> => ed[f] = r[f]
      OBVIOUS
    <3>1. Len(Sent(m)) = 0
      BY <1>3, <1>5, ShortIsEmpty DEF Plain
    <3> QED
      BY <1>3, <2>4, <3>1, EmptySaysNothing
  <2> QED
    BY <1>1, <1>2, <1>3, <1>5, <2>1, <2>4, <2>5 DEF FieldsInv
<1> QED
  BY <1>4, <1>5

\* The parser leaves the device alone.
LEMMA ParseFields ==
    ASSUME FieldsInv, parseAttributesPayload, ParserInv' PROVE FieldsInv'
<1>1. /\ stage = "parse" /\ UNCHANGED <<ed, msg, handling, value, unit, reported>>
      /\ \/ stage' \in {"parse", "apply"}
         \/ stage' = "idle" /\ (attributes' = <<>> \/ ParseThrows)
  BY DEF parseAttributesPayload, SkipFailed, ParseStops, ParseThrows, ParseValue, HasType, HasValue, Apply
<1>2. ParserInv /\ FromDevice(msg) /\ DOMAIN ed = Fields
  BY DEF FieldsInv, ParserInv
<1>3. CASE ~Plain(msg)
  BY <1>1, <1>3 DEF FieldsInv
<1>4. CASE Plain(msg)
  <2>1. handling = 1 /\ value = <<>> /\ unit = <<>> /\ Ahead(msg, ed, reported, 1)
    BY <1>1, <1>4 DEF FieldsInv
  <2>2. Locals(msg, value, unit, 1) /\ 1 \in 1..Len(Sent(msg)) + 1
    BY <1>2, <2>1, LocalsBegin, SentIs
  <2>3. CASE stage' \in {"parse", "apply"}
    BY <1>1, <1>2, <1>4, <2>1, <2>2, <2>3 DEF FieldsInv
  <2>4. CASE stage' = "idle"
    <3>1. ~ParseThrows
      BY <1>2, <1>4, ParseThrowsIsUnknown DEF Plain
    <3>2. attributes' = <<>>
      BY <1>1, <2>4, <3>1
    <3>3. WasParsed(msg, <<>>)
      BY <1>1, <2>4, <3>2 DEF ParserInv
    <3>4. Len(Sent(msg)) = 0
      <4>1. Len(<<>>) = 0
        OBVIOUS
      <4> QED
        BY <1>4, <3>3, <4>1 DEF WasParsed, ReadSoFar, Plain
    <3>5. \A f \in Fields : reported[f] # <<>> => ed[f] = reported[f]
      BY <1>2, <2>1, <3>4, EmptySaysNothing
    <3> QED
      BY <1>1, <1>2, <1>4, <2>4, <3>5 DEF FieldsInv
  <2> QED
    BY <1>1, <2>3, <2>4
<1> QED
  BY <1>3, <1>4

\* The attribute that is handled.
LEMMA HandlingIs ==
    ASSUME FieldsInv, stage \in {"apply", "tags"}, Plain(msg), handling <= Len(attributes)
    PROVE  /\ FromDevice(msg) /\ Len(Sent(msg)) \in Nat
           /\ handling \in 1..Len(Sent(msg)) /\ Locals(msg, value, unit, handling)
           /\ The.id = Sent(msg)[handling].id /\ The.cast = Cast(Sent(msg)[handling])
           /\ Cast(Sent(msg)[handling]) \in CastsRead => The.value = ValueOf(Sent(msg)[handling])
           /\ ~Skipped
<1>1. ParserInv /\ stage # "parse"
  BY DEF FieldsInv
<1>2. FromDevice(msg) /\ Len(attributes) = Len(Sent(msg)) /\ Len(Sent(msg)) \in Nat
  BY <1>1, HandledIsSent
<1>3. handling \in 1..Len(Sent(msg)) + 1 /\ Locals(msg, value, unit, handling)
  <2>1. CASE stage = "apply"
    BY <2>1 DEF FieldsInv
  <2>2. CASE stage = "tags"
    <3>1. handling \in 1..Len(Sent(msg)) /\ Locals(msg, value, unit, handling)
      BY <2>2 DEF FieldsInv
    <3> QED
      BY <1>2, <3>1
  <2> QED
    BY <2>1, <2>2
<1>4. handling \in 1..Len(Sent(msg))
  BY <1>2, <1>3
<1>5. /\ The.id = Sent(msg)[handling].id /\ The.cast = Cast(Sent(msg)[handling])
      /\ Cast(Sent(msg)[handling]) \in CastsRead => The.value = ValueOf(Sent(msg)[handling])
  BY <1>1, <1>4, HandledIsSent DEF The
<1>6. ~Skipped
  <2> SUFFICES ASSUME NEW j \in 1..handling - 1, attributes[j].id = The.id PROVE FALSE
    BY DEF Skipped
  <2>1. j \in 1..Len(Sent(msg)) /\ j # handling
    BY <1>2, <1>4
  <2>2. Sent(msg)[j].id = Sent(msg)[handling].id
    BY <1>1, <1>5, <2>1, HandledIsSent
  <2> QED
    BY <1>2, <1>4, <2>1, <2>2, SentOnce
<1> QED
  BY <1>2, <1>3, <1>4, <1>5, <1>6

\* One attribute was handled.
LEMMA OneHandled ==
    ASSUME FieldsInv, stage = "apply", Plain(msg), handling \in 1..Len(Sent(msg)), ParserInv', DOMAIN ed' = Fields,
           UNCHANGED <<msg, reported>>, stage' = "apply", handling' = handling + 1,
           Locals(msg, value', unit', handling + 1),
           \A f \in Fields : TogetherSay(msg, ed', f) = TogetherSay(msg, ed, f),
           \A f \in Fields : ed'[f] = OrKept(AttributeSays(msg, Sent(msg)[handling], f), ed[f])
    PROVE  FieldsInv'
<1>1. FromDevice(msg) /\ Ahead(msg, ed, reported, handling)
  BY DEF FieldsInv, ParserInv
<1>2. Len(Sent(msg)) \in Nat
  BY <1>1, SentIs
<1>3. Ahead(msg, ed', reported, handling + 1)
  BY <1>1, <1>2, AheadMoves
<1>4. handling + 1 \in 1..Len(Sent(msg)) + 1
  BY <1>2
<1> QED
  BY <1>3, <1>4 DEF FieldsInv

\* One attribute was handled that says nothing.
LEMMA NothingSaid ==
    ASSUME FieldsInv, stage = "apply", Plain(msg), handling \in 1..Len(Sent(msg)), ParserInv',
           UNCHANGED <<ed, msg, reported, value, unit>>, stage' = "apply", handling' = handling + 1,
           msg.cluster = "ANALOG_INPUT" => Sent(msg)[handling].id \notin {<<85, 0>>, <<28, 0>>},
           \A f \in Fields : AttributeSays(msg, Sent(msg)[handling], f) = <<>>
    PROVE  FieldsInv'
<1>1. FromDevice(msg) /\ Locals(msg, value, unit, handling) /\ DOMAIN ed = Fields
  BY DEF FieldsInv, ParserInv
<1>2. Locals(msg, value, unit, handling + 1)
  BY <1>1, LocalsMove
<1>3. \A f \in Fields : ed[f] = OrKept(AttributeSays(msg, Sent(msg)[handling], f), ed[f])
  BY DEF OrKept
<1> QED
  BY <1>1, <1>2, <1>3, OneHandled

\* Nothing is promised after a message with a value that cannot be read.
LEMMA NothingPromised ==
    ASSUME FieldsInv, ~Plain(msg), ParserInv', UNCHANGED <<msg, reported>>, DOMAIN ed' = Fields
    PROVE  FieldsInv'
BY DEF FieldsInv

\* An attribute without a handler says nothing.
LEMMA PassOverFields ==
    ASSUME FieldsInv, PassOver, ParserInv' PROVE FieldsInv'
<1>1. /\ stage = "apply" /\ handling <= Len(attributes) /\ Walk(msg.cluster, The.id) = "none"
      /\ HandlerOfThis = {} \/ Skipped
      /\ UNCHANGED <<ed, msg, reported, value, unit, stage>> /\ handling' = handling + 1
  BY DEF PassOver, HandlingPlain, Handling, Next1
<1>2. CASE ~Plain(msg)
  <2>1. DOMAIN ed' = Fields
    BY <1>1 DEF FieldsInv
  <2> QED
    BY <1>1, <1>2, <2>1, NothingPromised
<1>3. CASE Plain(msg)
  <2> DEFINE a == Sent(msg)[handling]
  <2>1. handling \in 1..Len(Sent(msg)) /\ The.id = a.id /\ ~Skipped
    BY <1>1, <1>3, HandlingIs
  <2>2. HandlerOf(msg.cluster, a.id) = {}
    BY <1>1, <2>1 DEF HandlerOfThis
  <2>3. Walk(msg.cluster, a.id) = "none"
    BY <1>1, <2>1
  <2>4. \A f \in Fields : AttributeSays(msg, a, f) = <<>>
    BY <2>2, <2>3 DEF AttributeSays
  <2>5. msg.cluster = "ANALOG_INPUT" => a.id \notin {<<85, 0>>, <<28, 0>>}
    <3> SUFFICES ASSUME msg.cluster = "ANALOG_INPUT" PROVE a.id # <<85, 0>> /\ a.id # <<28, 0>>
      OBVIOUS
    <3> DEFINE id == a.id
    <3>1. ASSUME id = <<85, 0>> PROVE FALSE
      <4> DEFINE h == [id |-> <<85, 0>>, field |-> "none", cast |-> "float"]
      <4>1. h \in HandlerOf(msg.cluster, id)
        BY <3>1 DEF HandlerOf, Handlers
      <4> QED
        BY <2>2, <4>1
    <3>2. ASSUME id = <<28, 0>> PROVE FALSE
      <4> DEFINE h == [id |-> <<28, 0>>, field |-> "none", cast |-> "string"]
      <4>1. h \in HandlerOf(msg.cluster, id)
        BY <3>2 DEF HandlerOf, Handlers
      <4> QED
        BY <2>2, <4>1
    <3> QED
      BY <3>1, <3>2
  <2> QED
    BY <1>1, <1>3, <2>1, <2>4, <2>5, NothingSaid
<1> QED
  BY <1>2, <1>3

\* A wrong type is passed over in Basic; Plain has none elsewhere.
LEMMA WrongCastFields ==
    ASSUME FieldsInv, WrongCast, ParserInv' PROVE FieldsInv'
<1>1. /\ stage = "apply" /\ handling <= Len(attributes)
      /\ \E h \in HandlerOfThis : h.cast # The.cast
      /\ CatchOrThrow
      /\ UNCHANGED <<ed, msg, reported, value, unit>>
  BY DEF WrongCast, HandlingPlain, Handling
<1>2. CASE ~Plain(msg)
  <2>1. DOMAIN ed' = Fields
    BY <1>1 DEF FieldsInv
  <2> QED
    BY <1>1, <1>2, <2>1, NothingPromised
<1>3. CASE Plain(msg)
  <2> DEFINE a == Sent(msg)[handling]
  <2>1. handling \in 1..Len(Sent(msg)) /\ The.id = a.id /\ The.cast = Cast(a) /\ FromDevice(msg)
    BY <1>1, <1>3, HandlingIs
  <2>2. ~Expected(msg, a)
    BY <1>1, <2>1 DEF HandlerOfThis, Expected
  <2>3. msg.cluster = "BASIC"
    BY <1>3, <2>1, <2>2, PlainIs
  <2>4. stage' = "apply" /\ handling' = handling + 1
    BY <1>1, <2>3 DEF CatchOrThrow, Guarded, Next1
  <2>5. \A f \in Fields : AttributeSays(msg, a, f) = <<>>
    BY <2>2 DEF AttributeSays
  <2> QED
    BY <1>1, <1>3, <2>1, <2>3, <2>4, <2>5, NothingSaid
<1> QED
  BY <1>2, <1>3

\* An attribute sets its field to what it says.
LEMMA SetFieldFields ==
    ASSUME FieldsInv, SetField, ParserInv' PROVE FieldsInv'
<1>1. /\ stage = "apply" /\ handling <= Len(attributes) /\ Walk(msg.cluster, The.id) = "none"
      /\ value' = IF msg.cluster = "ANALOG_INPUT" /\ The.cast = "float" THEN The.value ELSE value
      /\ unit' = IF msg.cluster = "ANALOG_INPUT" /\ The.cast = "string" THEN BeforeComma(The.value) ELSE unit
      /\ stage' = "apply" /\ handling' = handling + 1 /\ UNCHANGED <<msg, reported>>
  BY DEF SetField, HandlingPlain, Handling, Next1
<1>2. PICK h \in HandlerOf(msg.cluster, The.id) :
        /\ h.cast = The.cast
        /\ ed' = IF h.field = "none" THEN ed ELSE Put(ed, "none", FieldOf(h, msg.endpoint), The.value)
  BY DEF SetField, HandlerOfThis
<1>3. FromDevice(msg) /\ DOMAIN ed = Fields
  BY DEF FieldsInv, ParserInv
<1>4. msg.cluster \in Clusters
  BY <1>3 DEF FromDevice
<1>5. CASE ~Plain(msg)
  <2>1. DOMAIN ed' = Fields
    <3>1. h.field \in Fields \cup {"none"}
      BY <1>2, <1>4, HandlersAre
    <3>2. CASE h.field = "none"
      BY <1>2, <1>3, <3>2
    <3>3. CASE h.field # "none"
      <4>1. FieldOf(h, msg.endpoint) \in Fields
        BY <3>1, <3>3 DEF FieldOf, Fields
      <4>2. ed' = Put(ed, "none", FieldOf(h, msg.endpoint), The.value)
        BY <1>2, <3>3
      <4> QED
        BY <1>3, <4>1, <4>2, PutIs
    <3> QED
      BY <3>2, <3>3
  <2> QED
    BY <1>1, <1>5, <2>1, NothingPromised
<1>6. CASE Plain(msg)
  <2> DEFINE a == Sent(msg)[handling]
  <2>1. /\ handling \in 1..Len(Sent(msg)) /\ The.id = a.id /\ The.cast = Cast(a)
        /\ Cast(a) \in CastsRead => The.value = ValueOf(a)
        /\ Locals(msg, value, unit, handling)
    BY <1>1, <1>6, HandlingIs
  <2>2. /\ h.cast \in CastsRead
        /\ msg.cluster = "ANALOG_INPUT" =>
             /\ h.field = "none"
             /\ (h.cast = "float" /\ a.id = <<85, 0>>) \/ (h.cast = "string" /\ a.id = <<28, 0>>)
    BY <1>2, <1>4, <2>1, HandlersAre
  <2>3. The.value = ValueOf(a)
    BY <1>2, <2>1, <2>2
  <2>4. h \in HandlerOf(msg.cluster, a.id) /\ h.cast = Cast(a) /\ Walk(msg.cluster, a.id) = "none"
    BY <1>1, <1>2, <2>1
  <2>5. ed' = IF h.field = "none" THEN ed ELSE Put(ed, "none", FieldOf(h, msg.endpoint), ValueOf(a))
    BY <1>2, <2>3
  <2>6. /\ DOMAIN ed' = Fields /\ ValueOf(a) = a.val
        /\ \A f \in Fields : ed'[f] = OrKept(AttributeSays(msg, a, f), ed[f])
    BY <1>3, <1>6, <2>1, <2>4, <2>5, SetSays
  <2>7. \A f \in Fields : TogetherSay(msg, ed', f) = TogetherSay(msg, ed, f)
    <3>1. CASE msg.cluster = "ANALOG_INPUT"
      BY <1>2, <2>2, <3>1
    <3>2. CASE msg.cluster # "ANALOG_INPUT"
      BY <3>2, TogetherOnlyAnalog
    <3> QED
      BY <3>1, <3>2
  <2>8. <<85, 0>> # <<28, 0>>
    OBVIOUS
  <2> HIDE DEF a
  <2>9. msg.cluster = "ANALOG_INPUT" =>
          /\ value' = IF a.id = <<85, 0>> THEN a.val ELSE value
          /\ unit' = IF a.id = <<28, 0>> THEN BeforeComma(a.val) ELSE unit
    BY <1>1, <1>2, <2>2, <2>3, <2>6, <2>8
  <2>10. msg.cluster # "ANALOG_INPUT" => value' = value
    BY <1>1
  <2>11. Locals(msg, value', unit', handling + 1)
    BY <1>3, <2>1, <2>9, <2>10, LocalsMove DEF a
  <2> QED
    BY <1>1, <1>6, <2>1, <2>6, <2>7, <2>11, OneHandled DEF a
<1> QED
  BY <1>5, <1>6

\* After the last attribute nothing is ahead.
LEMMA HandledFields ==
    ASSUME FieldsInv, Handled, ParserInv' PROVE FieldsInv'
<1>1. /\ stage = "apply" /\ handling > Len(attributes) /\ stage' = "idle" /\ UNCHANGED <<msg, reported>>
      /\ ed' = IF value # <<>> /\ UnitField(ed, unit) # "none" /\ IsMeasured(UnitField(ed, unit), value)
               THEN [ed EXCEPT ![UnitField(ed, unit)] = value] ELSE ed
  BY DEF Handled
<1>2. ParserInv /\ FromDevice(msg) /\ DOMAIN ed = Fields
  BY DEF FieldsInv, ParserInv
<1>3. CASE ~Plain(msg)
  <2>1. DOMAIN ed' = Fields
    BY <1>1, <1>2
  <2> QED
    BY <1>1, <1>3, <2>1, NothingPromised
<1>4. CASE Plain(msg)
  <2> DEFINE N == Len(Sent(msg))
  <2>1. handling \in 1..N + 1 /\ Locals(msg, value, unit, handling) /\ Ahead(msg, ed, reported, handling)
    BY <1>1, <1>4 DEF FieldsInv
  <2>2. Len(attributes) = N /\ N \in Nat
    BY <1>1, <1>2, <1>4, HandledIsSent
  <2>3. handling = N + 1
    BY <1>1, <2>1, <2>2
  <2>4. DOMAIN ed' = Fields /\ \A f \in Fields : ed'[f] = OrKept(TogetherSay(msg, ed, f), ed[f])
    <3>1. Locals(msg, value, unit, Len(Sent(msg)) + 1)
      BY <2>1, <2>3
    <3> QED
      BY <1>1, <1>2, <1>4, <3>1, HandledSays
  <2>5. ASSUME NEW f \in Fields, reported[f] # <<>> PROVE ed'[f] = reported[f]
    <3>1. SaidLater(msg, ed, reported, f, N + 1) /\ (Silent(msg, ed, f, N + 1) => reported[f] = ed[f])
      BY <2>1, <2>3, <2>5 DEF Ahead
    <3>2. CASE TogetherSay(msg, ed, f) # <<>>
      BY <2>4, <3>1, <3>2 DEF SaidLater, OrKept
    <3>3. CASE TogetherSay(msg, ed, f) = <<>>
      <4>1. \A j \in N + 1..N : FALSE
        BY <2>2
      <4>2. Silent(msg, ed, f, N + 1)
        BY <3>3, <4>1 DEF Silent
      <4> QED
        BY <2>4, <3>1, <3>3, <4>2 DEF OrKept
    <3> QED
      BY <3>2, <3>3
  <2> QED
    BY <1>1, <1>4, <2>4, <2>5 DEF FieldsInv
<1> QED
  BY <1>3, <1>4

\* A tag sets no field that is none.
LEMMA PutTagFields ==
    ASSUME NEW d, DOMAIN d = Fields, NEW w, NEW tag, NEW v
    PROVE  DOMAIN PutTag(d, w, tag, v) = Fields
<1> DEFINE g == TagField(w, tag)
           d1 == IF g = "mains" THEN Put(d, w, "power", <<1>>) ELSE d
<1>1. g \in Fields \cup {"none"} /\ "power" \in Fields
  BY DEF TagField, Fields
<1>2. DOMAIN d1 = Fields
  BY <1>1, PutIs
<1>3. PutTag(d, w, tag, v) = IF g = "none" THEN d1 ELSE Put(d1, w, g, v)
  BY DEF PutTag
<1> HIDE DEF d1, g
<1> QED
  BY <1>1, <1>2, <1>3, PutIs

\* No attribute is both a string of tags and a value.
LEMMA TagsHaveNoHandler ==
    ASSUME NEW c, NEW id, Walk(c, id) # "none"
    PROVE  HandlerOf(c, id) = {}
<1>1. (c = "BASIC" /\ id = <<1, 255>>) \/ c = "XIAOMI_SWITCH"
  BY DEF Walk
<1>2. CASE c = "BASIC" /\ id = <<1, 255>>
  BY <1>2 DEF HandlerOf, Handlers
<1>3. CASE c = "XIAOMI_SWITCH"
  BY <1>3 DEF HandlerOf, Handlers
<1> QED
  BY <1>1, <1>2, <1>3

\* A walk over tags begins before the first of them.
LEMMA StartTagsFields ==
    ASSUME FieldsInv, StartTags, ParserInv' PROVE FieldsInv'
<1>1. /\ stage = "apply" /\ handling <= Len(attributes) /\ ThisWalk # "none"
      /\ UNCHANGED <<ed, msg, reported, value, unit>>
      /\ IF The.cast # "string" THEN CatchOrThrow /\ UNCHANGED <<payload, cursor>>
         ELSE stage' = "tags" /\ payload' = The.value /\ cursor' = 1 /\ UNCHANGED handling
  BY DEF StartTags, Handling
<1>2. CASE ~Plain(msg)
  <2>1. DOMAIN ed' = Fields
    BY <1>1 DEF FieldsInv
  <2> QED
    BY <1>1, <1>2, <2>1, NothingPromised
<1>3. CASE Plain(msg)
  <2> DEFINE a == Sent(msg)[handling]
             w == Walk(msg.cluster, a.id)
  <2>1. /\ handling \in 1..Len(Sent(msg)) /\ Len(Sent(msg)) \in Nat /\ FromDevice(msg)
        /\ The.id = a.id /\ The.cast = Cast(a) /\ (Cast(a) \in CastsRead => The.value = ValueOf(a))
        /\ Locals(msg, value, unit, handling)
    BY <1>1, <1>3, HandlingIs
  <2>2. w # "none"
    BY <1>1, <2>1 DEF ThisWalk
  <2>3. msg.cluster # "ANALOG_INPUT"
    BY <2>2, WalksAre
  <2>4. /\ a \in AttributeSet /\ IsFormed(msg, a) /\ (Expected(msg, a) \/ msg.cluster = "BASIC")
        /\ \A n \in DOMAIN a.tags : <<a.tags[n].tag, a.tags[n].type>> \in TagsOf(w)
    BY <1>3, <2>1, PlainIs
  <2>5. CASE The.cast # "string"
    <3>1. ~Expected(msg, a)
      BY <2>1, <2>2, <2>5 DEF Expected
    <3>2. stage' = "apply" /\ handling' = handling + 1
      BY <1>1, <2>4, <2>5, <3>1 DEF CatchOrThrow, Guarded, Next1
    <3>3. \A f \in Fields : AttributeSays(msg, a, f) = <<>>
      BY <3>1 DEF AttributeSays
    <3> QED
      BY <1>1, <1>3, <2>1, <2>3, <3>2, <3>3, NothingSaid
  <2>6. CASE The.cast = "string"
    <3>1. Cast(a) = "string" /\ "string" \in CastsRead
      BY <2>1, <2>6 DEF CastsRead
    <3>2. stage' = "tags" /\ payload' = ValueOf(a) /\ cursor' = 1 /\ handling' = handling
      BY <1>1, <2>1, <2>6, <3>1
    <3>3. Expected(msg, a)
      <4>1. HandlerOf(msg.cluster, a.id) = {}
        BY <2>2, TagsHaveNoHandler
      <4> QED
        BY <3>1, <4>1 DEF Expected
    <3>4. /\ Len(a.tags) \in Nat /\ DOMAIN a.tags = 1..Len(a.tags) /\ TagStarts(a, 0) = 0
      BY <2>2, <2>4, <3>1, TagsStand
    <3>5. Ahead(msg, ed, reported, handling)
      BY <1>1, <1>3 DEF FieldsInv
    <3>6. AheadTags(msg, ed, reported, handling, w, a, 0)
      BY <2>1, <2>2, <3>3, <3>4, <3>5, TagsStart
    <3>7. 0 \in 0..Len(a.tags) /\ 1 = TagStarts(a, 0) + 1
      BY <3>4
    <3>8. DOMAIN ed = Fields
      BY DEF FieldsInv
    <3> QED
      BY <1>1, <1>3, <2>1, <2>2, <3>1, <3>2, <3>6, <3>7, <3>8 DEF FieldsInv
  <2> QED
    BY <2>5, <2>6
<1> QED
  BY <1>2, <1>3

\* The string of tags that is walked over.
LEMMA WalkingIs ==
    ASSUME FieldsInv, stage = "tags", Plain(msg), NEW a, a = Sent(msg)[handling]
    PROVE  /\ FromDevice(msg) /\ Len(Sent(msg)) \in Nat /\ handling \in 1..Len(Sent(msg))
           /\ Locals(msg, value, unit, handling) /\ msg.cluster # "ANALOG_INPUT"
           /\ ThisWalk = Walk(msg.cluster, a.id) /\ ThisWalk \in Walks
           /\ a \in AttributeSet /\ IsFormed(msg, a) /\ Cast(a) = "string" /\ payload = ValueOf(a)
           /\ \A i \in DOMAIN a.tags : <<a.tags[i].tag, a.tags[i].type>> \in TagsOf(Walk(msg.cluster, a.id))
           /\ \E t \in 0..Len(a.tags) :
                cursor = TagStarts(a, t) + 1 /\ AheadTags(msg, ed, reported, handling, ThisWalk, a, t)
<1> DEFINE w == Walk(msg.cluster, a.id)
<1>1. /\ ParserInv /\ handling \in 1..Len(Sent(msg)) /\ w # "none" /\ Cast(a) = "string" /\ payload = ValueOf(a)
      /\ \E t \in 0..Len(a.tags) :
           cursor = TagStarts(a, t) + 1 /\ AheadTags(msg, ed, reported, handling, w, a, t)
  BY DEF FieldsInv
<1>2. Len(attributes) = Len(Sent(msg)) /\ Len(Sent(msg)) \in Nat
  BY <1>1, HandledIsSent
<1>3. handling <= Len(attributes)
  BY <1>1, <1>2
<1>4. FromDevice(msg) /\ Locals(msg, value, unit, handling) /\ The.id = a.id
  BY <1>3, HandlingIs
<1>5. ThisWalk = w
  BY <1>4 DEF ThisWalk
<1>6. w \in Walks /\ msg.cluster # "ANALOG_INPUT"
  BY <1>1, WalksAre
<1>7. /\ a \in AttributeSet /\ IsFormed(msg, a)
      /\ \A i \in DOMAIN a.tags : <<a.tags[i].tag, a.tags[i].type>> \in TagsOf(w)
  BY <1>1, <1>4, PlainIs
<1> HIDE DEF w
<1> QED
  BY <1>1, <1>2, <1>4, <1>5, <1>6, <1>7 DEF w

\* The tag at the cursor: its value, and where the next one begins.
LEMMA TagIs ==
    ASSUME NEW m, NEW a \in AttributeSet, IsFormed(m, a), Cast(a) = "string",
           NEW w \in Walks, w = Walk(m.cluster, a.id),
           \A i \in DOMAIN a.tags : <<a.tags[i].tag, a.tags[i].type>> \in TagsOf(w),
           NEW t \in 0..Len(a.tags), t # Len(a.tags), NEW c, c = TagStarts(a, t) + 1
    PROVE  /\ ValueOf(a)[c] = a.tags[t + 1].tag /\ a.tags[t + 1].val # <<>> /\ c <= Len(ValueOf(a))
           /\ c + Reads(w, a.tags[t + 1].tag) - 1 <= Len(ValueOf(a))
           /\ SubSeq(ValueOf(a), c + 2, c + LengthOf(w, a.tags[t + 1].tag) - 1) = a.tags[t + 1].val
           /\ c + LengthOf(w, a.tags[t + 1].tag) = TagStarts(a, t + 1) + 1
<1> DEFINE s == ValueOf(a)
           T == Len(a.tags)
           tag == a.tags[t + 1].tag
           type == a.tags[t + 1].type
           v == a.tags[t + 1].val
           n == Len(v)
           b == TagStarts(a, t)
           b2 == TagStarts(a, t + 1)
           reads == Reads(w, tag)
           long == LengthOf(w, tag)
           N == Len(s)
<1>1. w # "none"
  BY DEF Walks
<1>2. /\ s \in Seq(Byte) /\ N \in Nat /\ T \in Nat
      /\ \A i \in 0..T : TagStarts(a, i) \in 0..N
      /\ \A i \in 1..T :
           /\ <<a.tags[i].tag, a.tags[i].type>> \in TagsOf(w)
           /\ a.tags[i].val \in Seq(Byte) /\ Len(a.tags[i].val) = NumberOf(a.tags[i].type).size
           /\ TagStarts(a, i) = TagStarts(a, i - 1) + 2 + Len(a.tags[i].val)
           /\ s[TagStarts(a, i - 1) + 1] = a.tags[i].tag
           /\ \A j \in 1..Len(a.tags[i].val) : s[TagStarts(a, i - 1) + 2 + j] = a.tags[i].val[j]
  <2> HIDE DEF s
  <2> QED
    BY <1>1, TagsStand DEF s
<1>3. t + 1 \in 1..T /\ t + 1 \in 0..T /\ (t + 1) - 1 = t
  BY <1>2
<1> HIDE DEF s, T
<1>4. /\ b \in 0..N /\ b2 \in 0..N /\ <<tag, type>> \in TagsOf(w) /\ v \in Seq(Byte) /\ n = NumberOf(type).size
      /\ b2 = b + 2 + n /\ s[b + 1] = tag /\ \A j \in 1..n : s[b + 2 + j] = v[j]
  BY <1>2, <1>3 DEF T
<1>5. /\ long = 2 + n /\ reads \in Nat /\ 1 <= reads /\ reads <= long
  BY <1>4, TagLengths, SMTT(30)
<1>6. n \in Nat /\ n >= 1
  <2>1. n \in Nat
    BY <1>4, LenProperties
  <2>2. type \in NumberTypes
    BY <1>4, TagLengths
  <2>3. NumberOf(type).size \in 1..8
    BY <2>2, NumbersAre
  <2>4. n \in 1..8
    BY <1>4, <2>3
  <2> HIDE DEF n
  <2> QED
    BY <2>4
<1>7. v # <<>>
  BY <1>6
<1>8. N \in Nat
  BY <1>2
<1> HIDE DEF b, b2, reads, long, v, n, tag, type, N
<1>9. c = b + 1 /\ b \in Nat /\ b2 \in Nat /\ b2 <= N /\ b2 = b + 2 + n /\ s[b + 1] = tag
  <2>1. c = b + 1
    BY DEF b
  <2>2. \A i \in 0..N : i \in Nat /\ i <= N
    BY <1>8
  <2> QED
    BY <1>4, <2>1, <2>2
<1>10. s[c] = tag /\ c <= N /\ c + reads - 1 <= N /\ c + long = b2 + 1 /\ c + long - 1 = b2 /\ c \in Nat
  <2>1. c <= N /\ c + long = b2 + 1 /\ c + long - 1 = b2 /\ c \in Nat
    BY <1>5, <1>6, <1>8, <1>9
  <2>2. c + reads - 1 <= N
    BY <1>5, <1>6, <1>8, <1>9
  <2> QED
    BY <1>9, <2>1, <2>2
<1>11. SubSeq(s, c + 2, c + long - 1) = v
  <2> DEFINE part == SubSeq(s, c + 2, b2)
             x == c + 2
  <2>1. x \in Nat /\ 1 <= x /\ x <= b2 /\ b2 \in Nat /\ b2 <= N /\ b2 - x + 1 = n /\ b2 \in 1..N /\ x \in 1..N
    BY <1>6, <1>8, <1>9
  <2> HIDE DEF x
  <2>2. /\ SubSeq(s, x, b2) \in Seq(Byte) /\ Len(SubSeq(s, x, b2)) = n
        /\ \A i \in 1..n : SubSeq(s, x, b2)[i] = s[x + i - 1]
    <3>1. /\ SubSeq(s, x, b2) \in Seq(Byte) /\ Len(SubSeq(s, x, b2)) = b2 - x + 1
          /\ \A i \in 1..b2 - x + 1 : SubSeq(s, x, b2)[i] = s[x + i - 1]
      BY <1>2, <1>8, <2>1 DEF N
    <3> QED
      BY <2>1, <3>1
  <2>3. \A i \in 1..n : x + i - 1 = b + 2 + i
    BY <1>6, <1>9 DEF x
  <2>4. \A i \in 1..n : SubSeq(s, x, b2)[i] = v[i]
    BY <1>4, <2>2, <2>3
  <2>5. v \in Seq(Byte) /\ Len(v) = n
    BY <1>4 DEF n
  <2>6. SubSeq(s, x, b2) = v
    BY <2>2, <2>4, <2>5, SeqEqual
  <2> QED
    BY <1>10, <2>6 DEF x
<1> QED
  BY <1>7, <1>10, <1>11 DEF s, tag, v, reads, long, b2, N

\* A tag sets its field to what it says, and the walk goes on at the next one.
LEMMA HandleTagFields ==
    ASSUME FieldsInv, HandleTag, ParserInv' PROVE FieldsInv'
<1>1. /\ stage = "tags" /\ cursor <= Len(payload)
      /\ ed' = PutTag(ed, ThisWalk, payload[cursor],
                      SubSeq(payload, cursor + 2, cursor + LengthOf(ThisWalk, payload[cursor]) - 1))
      /\ cursor' = cursor + LengthOf(ThisWalk, payload[cursor])
      /\ UNCHANGED <<msg, stage, payload, handling, value, unit, reported>>
  BY DEF HandleTag
<1>2. DOMAIN ed = Fields
  BY DEF FieldsInv
<1>3. DOMAIN ed' = Fields
  BY <1>1, <1>2, PutTagFields
<1>4. CASE ~Plain(msg)
  BY <1>1, <1>3, <1>4, NothingPromised
<1>5. CASE Plain(msg)
  <2> DEFINE a == Sent(msg)[handling]
             w == ThisWalk
             T == Len(a.tags)
  <2>1. /\ FromDevice(msg) /\ Len(Sent(msg)) \in Nat /\ handling \in 1..Len(Sent(msg))
        /\ Locals(msg, value, unit, handling) /\ msg.cluster # "ANALOG_INPUT"
        /\ w = Walk(msg.cluster, a.id) /\ w \in Walks
        /\ a \in AttributeSet /\ IsFormed(msg, a) /\ Cast(a) = "string" /\ payload = ValueOf(a)
        /\ \A i \in DOMAIN a.tags : <<a.tags[i].tag, a.tags[i].type>> \in TagsOf(w)
        /\ \E t \in 0..T : cursor = TagStarts(a, t) + 1 /\ AheadTags(msg, ed, reported, handling, w, a, t)
    BY <1>1, <1>5, WalkingIs
  <2>2. PICK t \in 0..T : cursor = TagStarts(a, t) + 1 /\ AheadTags(msg, ed, reported, handling, w, a, t)
    BY <2>1
  <2>3. w # "none"
    BY <2>1 DEF Walks
  <2>4. T \in Nat /\ TagStarts(a, T) = Len(payload) /\ Len(payload) \in Nat
    <3> HIDE DEF w
    <3> QED
      BY <2>1, <2>3, TagsStand
  <2>5. t # T
    BY <1>1, <2>2, <2>4
  <2>6. /\ payload[cursor] = a.tags[t + 1].tag /\ a.tags[t + 1].val # <<>>
        /\ SubSeq(payload, cursor + 2, cursor + LengthOf(w, payload[cursor]) - 1) = a.tags[t + 1].val
        /\ cursor + LengthOf(w, payload[cursor]) = TagStarts(a, t + 1) + 1
    <3> HIDE DEF w, a
    <3> DEFINE s == ValueOf(a)
               tag == a.tags[t + 1]
    <3>1. /\ s[cursor] = tag.tag /\ tag.val # <<>>
          /\ SubSeq(s, cursor + 2, cursor + LengthOf(w, tag.tag) - 1) = tag.val
          /\ cursor + LengthOf(w, tag.tag) = TagStarts(a, t + 1) + 1
      <4>1. /\ a \in AttributeSet /\ IsFormed(msg, a) /\ Cast(a) = "string" /\ w \in Walks /\ w = Walk(msg.cluster, a.id)
            /\ \A i \in DOMAIN a.tags : <<a.tags[i].tag, a.tags[i].type>> \in TagsOf(w)
            /\ t \in 0..Len(a.tags) /\ t # Len(a.tags)
        BY <2>1, <2>5
      <4>2. \A c : c = TagStarts(a, t) + 1 =>
              /\ ValueOf(a)[c] = a.tags[t + 1].tag /\ a.tags[t + 1].val # <<>>
              /\ SubSeq(ValueOf(a), c + 2, c + LengthOf(w, a.tags[t + 1].tag) - 1) = a.tags[t + 1].val
              /\ c + LengthOf(w, a.tags[t + 1].tag) = TagStarts(a, t + 1) + 1
        BY <4>1, TagIs
      <4> QED
        BY <2>2, <4>2
    <3>2. payload = s
      BY <2>1
    <3> HIDE DEF s, tag
    <3>3. payload[cursor] = tag.tag
      BY <3>1, <3>2
    <3> QED
      BY <3>1, <3>2, <3>3, Zenon DEF tag
  <2>7. /\ ed' = PutTag(ed, w, a.tags[t + 1].tag, a.tags[t + 1].val)
        /\ cursor' = TagStarts(a, t + 1) + 1
    BY <1>1, <2>6
  <2>8. \A f \in Fields : ed'[f] = OrKept(TagSays(w, a.tags[t + 1], f), ed[f])
    <3> DEFINE tag == a.tags[t + 1]
    <3>1. /\ tag.val # <<>> /\ w \in Walks /\ DOMAIN ed = Fields
          /\ ed' = PutTag(ed, w, tag.tag, tag.val)
      BY <1>2, <2>1, <2>6, <2>7
    <3> HIDE DEF tag, w
    <3>2. \A x, d : x.val # <<>> /\ DOMAIN d = Fields =>
            \A f \in Fields : PutTag(d, w, x.tag, x.val)[f] = OrKept(TagSays(w, x, f), d[f])
      <4>1. w \in Walks
        BY <3>1
      <4> QED
        BY <4>1, TagSet
    <3>3. \A f \in Fields : ed'[f] = OrKept(TagSays(w, tag, f), ed[f])
      BY <3>1, <3>2
    <3> QED
      BY <3>3 DEF tag
  <2> DEFINE k == handling
             d2 == ed'
  <2>9. AheadTags(msg, ed', reported, k, w, a, t + 1)
    <3>1. \A e : (\A f \in Fields : e[f] = OrKept(TagSays(w, a.tags[t + 1], f), ed[f]))
                 => AheadTags(msg, e, reported, k, w, a, t + 1)
      <4> HIDE DEF w, a, k
      <4> QED
        BY <2>1, <2>2, <2>4, <2>5, TagsMove DEF k
    <3> QED
      BY <2>8, <3>1
  <2>10. t + 1 \in 0..T
    BY <2>4, <2>5
  <2>11. ThisWalk = Walk(msg.cluster, a.id)
    BY <2>1
  <2> QED
    BY <1>1, <1>3, <1>5, <2>1, <2>3, <2>7, <2>9, <2>10, <2>11 DEF FieldsInv
<1> QED
  BY <1>4, <1>5

\* No tag that a handler knows is cut.
LEMMA TagCutFields ==
    ASSUME FieldsInv, TagCut, ParserInv' PROVE FieldsInv'
<1>1. /\ stage = "tags" /\ cursor <= Len(payload)
      /\ cursor + Reads(ThisWalk, payload[cursor]) - 1 > Len(payload)
      /\ UNCHANGED <<ed, msg, reported>>
  BY DEF TagCut
<1>2. CASE ~Plain(msg)
  <2>1. DOMAIN ed' = Fields
    BY <1>1 DEF FieldsInv
  <2> QED
    BY <1>1, <1>2, <2>1, NothingPromised
<1>3. CASE Plain(msg)
  <2> DEFINE a == Sent(msg)[handling]
             w == ThisWalk
             T == Len(a.tags)
  <2>1. /\ w = Walk(msg.cluster, a.id) /\ w \in Walks
        /\ a \in AttributeSet /\ IsFormed(msg, a) /\ Cast(a) = "string" /\ payload = ValueOf(a)
        /\ \A i \in DOMAIN a.tags : <<a.tags[i].tag, a.tags[i].type>> \in TagsOf(w)
        /\ \E t \in 0..T : cursor = TagStarts(a, t) + 1
    BY <1>1, <1>3, WalkingIs
  <2>2. PICK t \in 0..T : cursor = TagStarts(a, t) + 1
    BY <2>1
  <2>3. w # "none"
    BY <2>1 DEF Walks
  <2> HIDE DEF w, a
  <2>4. /\ T \in Nat /\ TagStarts(a, T) = Len(payload) /\ Len(payload) \in Nat
    BY <2>1, <2>3, TagsStand
  <2>5. t # T
    BY <1>1, <2>2, <2>4
  <2>6. payload[cursor] = a.tags[t + 1].tag /\ cursor + Reads(w, a.tags[t + 1].tag) - 1 <= Len(payload)
    BY <2>1, <2>2, <2>5, TagIs
  <2> DEFINE last == cursor + Reads(w, payload[cursor]) - 1
  <2>7. last > Len(payload) /\ last <= Len(payload)
    BY <1>1, <2>6 DEF w
  <2>8. last \in Int
    <3>1. Reads(w, payload[cursor]) \in Nat
      <4>1. t + 1 \in DOMAIN a.tags
        BY <2>1, <2>3, <2>4, <2>5, TagsStand
      <4> QED
        BY <2>1, <2>6, <4>1, TagLengths
    <3>2. cursor \in Nat
      <4>1. TagStarts(a, t) \in 0..Len(payload)
        BY <2>1, <2>3, TagsStand
      <4> QED
        BY <2>2, <2>4, <4>1
    <3> QED
      BY <3>1, <3>2
  <2> HIDE DEF last
  <2> QED
    BY <2>4, <2>7, <2>8
<1> QED
  BY <1>2, <1>3

\* A walk ends after the last tag.
LEMMA EndTagsFields ==
    ASSUME FieldsInv, EndTags, ParserInv' PROVE FieldsInv'
<1>1. /\ stage = "tags" /\ cursor > Len(payload)
      /\ stage' = "apply" /\ handling' = handling + 1
      /\ UNCHANGED <<ed, msg, reported, value, unit>>
  BY DEF EndTags
<1>2. DOMAIN ed' = Fields
  BY <1>1 DEF FieldsInv
<1>3. CASE ~Plain(msg)
  BY <1>1, <1>2, <1>3, NothingPromised
<1>4. CASE Plain(msg)
  <2> DEFINE a == Sent(msg)[handling]
             w == ThisWalk
             T == Len(a.tags)
  <2>1. /\ FromDevice(msg) /\ Len(Sent(msg)) \in Nat /\ handling \in 1..Len(Sent(msg))
        /\ Locals(msg, value, unit, handling) /\ msg.cluster # "ANALOG_INPUT"
        /\ w = Walk(msg.cluster, a.id) /\ w \in Walks
        /\ a \in AttributeSet /\ IsFormed(msg, a) /\ Cast(a) = "string" /\ payload = ValueOf(a)
        /\ \A i \in DOMAIN a.tags : <<a.tags[i].tag, a.tags[i].type>> \in TagsOf(w)
        /\ \E t \in 0..T : cursor = TagStarts(a, t) + 1 /\ AheadTags(msg, ed, reported, handling, w, a, t)
    BY <1>1, <1>4, WalkingIs
  <2>2. PICK t \in 0..T : cursor = TagStarts(a, t) + 1 /\ AheadTags(msg, ed, reported, handling, w, a, t)
    BY <2>1
  <2>3. w # "none"
    BY <2>1 DEF Walks
  <2>4. t = T
    <3> HIDE DEF w, a
    <3>1. T \in Nat
      BY <2>1, <2>3, TagsStand
    <3>2. ASSUME t # T PROVE FALSE
      <4>1. cursor <= Len(payload)
        BY <2>1, <2>2, <3>2, TagIs
      <4>2. cursor \in Int /\ Len(payload) \in Int
        <5>1. TagStarts(a, t) \in 0..Len(payload) /\ Len(payload) \in Nat
          BY <2>1, <2>3, TagsStand
        <5> QED
          BY <2>2, <5>1
      <4> QED
        BY <1>1, <4>1, <4>2
    <3> QED
      BY <3>2
  <2>5. Ahead(msg, ed, reported, handling + 1)
    <3>1. T \in Nat
      <4> HIDE DEF w, a
      <4> QED
        BY <2>1, <2>3, TagsStand
    <3> QED
      BY <2>2, <2>4, <3>1, TagsEnd
  <2>6. Locals(msg, value, unit, handling + 1)
    BY <2>1, LocalsMove
  <2>7. handling + 1 \in 1..Len(Sent(msg)) + 1
    BY <2>1
  <2> QED
    BY <1>1, <1>2, <1>4, <2>5, <2>6, <2>7 DEF FieldsInv
<1> QED
  BY <1>3, <1>4

\* FieldsInv is inductive.
LEMMA FieldsStep == FieldsInv /\ [ReportNext]_reportVars => FieldsInv'
<1> SUFFICES ASSUME FieldsInv, [ReportNext]_reportVars PROVE FieldsInv'
  OBVIOUS
<1> USE ReportsAssumption
<1>1. ParserInv'
  BY ParserStep DEF FieldsInv
<1>2. ASSUME NEW m \in Messages, Receive(m) PROVE FieldsInv'
  BY <1>2, ReceiveFields
<1>3. CASE parseAttributesPayload
  BY <1>1, <1>3, ParseFields
<1>4. CASE PassOver \/ WrongCast \/ SetField \/ Handled
  BY <1>1, <1>4, PassOverFields, WrongCastFields, SetFieldFields, HandledFields
<1>5. CASE StartTags \/ HandleTag \/ TagCut \/ EndTags
  BY <1>1, <1>5, StartTagsFields, HandleTagFields, TagCutFields, EndTagsFields
<1>6. CASE UNCHANGED reportVars
  BY <1>1, <1>6 DEF reportVars, FieldsInv
<1> QED
  BY <1>2, <1>3, <1>4, <1>5, <1>6 DEF ReportNext

\* What the device reported last of a field is what EndDevice keeps of it, through the walk over
\* the payload, the handlers of the clusters and their walks over strings of tags: whatever the
\* messages, the order of their attributes and tags, and the messages in between that fail.
THEOREM FieldsAreReported == ReportSpec => []FieldsFollowReports
<1>1. ReportInit => FieldsInv
  BY FieldsInitially
<1>2. FieldsInv /\ [ReportNext]_reportVars => FieldsInv'
  BY FieldsStep
<1>3. FieldsInv => FieldsFollowReports
  BY FollowsWhenIdle
<1> QED
  BY <1>1, <1>2, <1>3, PTL DEF ReportSpec
=============================================================================
