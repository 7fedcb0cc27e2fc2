----------------------------- MODULE NetProofs -----------------------------
(* The network, from its set-up to the threads that use it.                *)
EXTENDS NetSetup, NetWatch, TLAPS, FiniteSetTheorems, SequenceTheorems

-----------------------------------------------------------------------------
(* Address and speed of NetSetup, for any addresses, any number of frames, *)
(* of lost frames, of settings and of starts.                              *)
(*                                                                         *)
(* The address that is in force goes through four places, each an          *)
(* invariant: the frames of the one at the screen fill the buffer from its *)
(* start unless one was lost (Received), so that the last one saves this   *)
(* very address (Saved), which the next start loads (Loaded), and the      *)
(* set-up uses (AddressInForce).                                           *)

(* The addresses that may be in the file.                                  *)
Known == Addresses \cup {Factory}

Shape ==
    /\ typed \in [address : Addresses \cup {NoAddress}, next : 1 .. Length + 1]
    /\ dropped \in BOOLEAN
    /\ buffer \in [1 .. Length -> Chars \cup {Blank, Nul}]
    /\ DOMAIN file = {"LocalIp", "ForwardSpeed", "UseDhcp"}
    /\ DOMAIN address = Interface

Received == ~dropped => \A k \in 1 .. typed.next - 1 : buffer[k] = Part(typed.address, k)
Saved == arrived # NoAddress => arrived \in Known /\ file.LocalIp = arrived
Loaded == wanted # NoAddress => wanted \in Known /\ localIp = wanted

(* The file keeps the speed in r/min; the screen may confirm what it shows.*)
SpeedSaved ==
    /\ speed \in [set : 0 .. 255, shown : 0 .. 255]
    /\ file.ForwardSpeed \in Nat /\ SpeedShown
    /\ ToShown(file.ForwardSpeed) % 256 \in 0 .. 255

SetupInv == Shape /\ Received /\ Saved /\ Loaded /\ SpeedSaved /\ AddressInForce

-----------------------------------------------------------------------------
(* A buffer that holds all parts of an address has the address as its text.*)
LEMMA TextOfParts ==
    ASSUME NEW a \in Addresses, NEW b \in [1 .. Length -> Chars \cup {Blank, Nul}],
           \A k \in 1 .. Length : b[k] = Part(a, k)
    PROVE  Text(b) = a
PROOF
<1> USE LengthAssumption, AddressAssumption
<1>1. a \in Seq(Chars) /\ Len(a) \in 0 .. Length
    OBVIOUS
<1> DEFINE n == Cardinality({k \in 1 .. Length : b[k] # Blank})
           end == {k \in 1 .. n : b[k] = Nul}
<1>2. \A k \in 1 .. Len(a) : b[k] = a[k] /\ b[k] # Blank /\ b[k] # Nul
    BY <1>1 DEF Part
<1>3. \A k \in 1 .. Length : k > Len(a) => b[k] = Blank
    BY <1>1 DEF Part
<1>4. {k \in 1 .. Length : b[k] # Blank} = 1 .. Len(a)
    BY <1>1, <1>2, <1>3
<1>5. n = Len(a)
  <2>1. \A m \in Nat : Cardinality(1 .. m) = IF 1 > m THEN 0 ELSE m - 1 + 1
      BY FS_Interval
  <2>2. Len(a) \in Nat /\ Cardinality(1 .. Len(a)) = Len(a)
      BY <1>1, <2>1
  <2> QED
      BY <1>4, <2>2
<1>6. end = {}
    BY <1>1, <1>2, <1>5
<1>7. Text(b) = SubSeq(b, 1, Len(a))
    BY <1>5, <1>6 DEF Text
<1>8. SubSeq(b, 1, Len(a)) = a
  <2>1. b \in Seq(Chars \cup {Blank, Nul}) /\ Len(b) = Length
      OBVIOUS
  <2>2. SubSeq(b, 1, Len(a)) \in Seq(Chars \cup {Blank, Nul}) /\ Len(SubSeq(b, 1, Len(a))) = Len(a)
      BY <1>1, <2>1
  <2>3. \A k \in 1 .. Len(a) : SubSeq(b, 1, Len(a))[k] = a[k]
      BY <1>1, <1>2, <2>1
  <2> QED
      BY <1>1, <2>2, <2>3
<1> QED
    BY <1>7, <1>8

(* An address is the beginning of itself.                                  *)
LEMMA IsPrefixOfItself == \A a \in Known : IsPrefix(a, a)
PROOF
BY AddressAssumption DEF Known, IsPrefix

(* What ToShown loses of what ToRpm made, for every byte.                  *)
LEMMA SpeedRoundTrip ==
    ASSUME NEW v \in 0 .. 255
    PROVE  /\ ToRpm(v) \in Nat
           /\ ToShown(ToRpm(v)) \in {v - 1, v}
           /\ ToShown(ToRpm(v)) % 256 \in 0 .. 255
PROOF
<1> DEFINE r == ToRpm(v)
           s == ToShown(r)
<1>1. r \in Nat /\ 471 * r <= 10000 * v /\ 10000 * v < 471 * r + 471
    BY DEF ToRpm
<1> HIDE DEF r
<1>2. s \in Int /\ 10000 * s <= 471 * r /\ 471 * r < 10000 * s + 10000
    BY <1>1 DEF ToShown
<1> HIDE DEF s
<1>3. s \in {v - 1, v}
    BY <1>1, <1>2
<1>4. s % 256 \in 0 .. 255
    BY <1>2
<1> QED
    BY <1>1, <1>3, <1>4 DEF r, s

-----------------------------------------------------------------------------
LEMMA SetupInitInv == SetupInit => SetupInv
PROOF
<1> SUFFICES ASSUME SetupInit PROVE SetupInv
    OBVIOUS
<1> USE LengthAssumption, AddressAssumption DEF SetupInit
<1>1. Shape
  <2>1. typed \in [address : Addresses \cup {NoAddress}, next : 1 .. Length + 1]
      OBVIOUS
  <2>2. buffer \in [1 .. Length -> Chars \cup {Blank, Nul}]
      OBVIOUS
  <2>3. DOMAIN file = {"LocalIp", "ForwardSpeed", "UseDhcp"}
      OBVIOUS
  <2>4. DOMAIN address = Interface
      OBVIOUS
  <2> QED
      BY <2>1, <2>2, <2>3, <2>4 DEF Shape
<1>2. Received /\ Saved /\ Loaded /\ AddressInForce
    BY DEF Received, Saved, Loaded, AddressInForce, Known
<1>3. SpeedSaved
  <2>1. ToShown(900) = 42
      BY DEF ToShown
  <2> QED
      BY <2>1 DEF SpeedSaved, SpeedShown
<1> QED
    BY <1>1, <1>2, <1>3 DEF SetupInv

-----------------------------------------------------------------------------
(* The screen.  Its steps leave the interfaces and the set-up alone.       *)
LEMMA InForceKept ==
    ASSUME AddressInForce, Loaded, UNCHANGED <<program, address>>
    PROVE  AddressInForce' /\ Loaded'
PROOF
BY DEF AddressInForce, Loaded, program

LEMMA ShapeStep ==
    ASSUME SetupInv, NEW a \in Addresses, Type(a)
    PROVE  SetupInv'
PROOF
<1> USE LengthAssumption DEF SetupInv, Type
<1>1. typed' \in [address : Addresses \cup {NoAddress}, next : 1 .. Length + 1]
    OBVIOUS
<1> HIDE DEF Type
<1>2. dropped' = FALSE /\ UNCHANGED <<buffer, file, address>>
    BY DEF Type, system
<1>3. Shape'
    BY <1>1, <1>2 DEF Shape
<1> USE DEF Type
<1>4. Received' /\ Saved' /\ SpeedSaved'
    BY DEF Received, Saved, SpeedSaved, SpeedShown, Shape
<1> QED
    BY <1>3, <1>4, InForceKept DEF system

LEMMA LosesPartStep ==
    ASSUME SetupInv, LosesPart
    PROVE  SetupInv'
PROOF
<1> USE LengthAssumption DEF SetupInv, LosesPart, SendsPart
<1>1. Shape'
    BY DEF Shape, system
<1>2. Received' /\ Saved' /\ SpeedSaved'
    BY DEF Received, Saved, SpeedSaved, SpeedShown
<1> QED
    BY <1>1, <1>2, InForceKept DEF system

(* The last part finds all the others in their places, if none was lost.   *)
LEMMA ReceivesPartStep ==
    ASSUME SetupInv, ReceivesPart
    PROVE  SetupInv'
PROOF
<1> USE LengthAssumption DEF SetupInv, ReceivesPart, SendsPart
<1>1. /\ typed.next \in 1 .. Length /\ typed.address \in Addresses
      /\ typed'.address = typed.address /\ typed'.next = typed.next + 1
    BY DEF Shape
<1>2. Part(typed.address, typed.next) \in Chars \cup {Blank, Nul}
    BY <1>1, AddressAssumption DEF Part
<1>3. /\ buffer' \in [1 .. Length -> Chars \cup {Blank, Nul}]
      /\ buffer'[typed.next] = Part(typed.address, typed.next)
      /\ \A k \in 1 .. Length : k # typed.next => buffer'[k] = buffer[k]
    BY <1>1, <1>2 DEF Stored, Shape
<1>4. Received'
    BY <1>1, <1>3 DEF Received
<1>5. Shape'
    BY <1>1, <1>3 DEF Shape, system
<1>6. Saved'
  <2>1. CASE typed.next = Length /\ ~dropped
    <3>1. \A k \in 1 .. Length : buffer'[k] = Part(typed.address, k)
        BY <1>1, <1>4, <2>1 DEF Received
    <3>2. Text(buffer') = typed.address
        BY <1>1, <1>3, <3>1, TextOfParts
    <3> QED
        BY <1>1, <2>1, <3>2 DEF Saved, Known, Shape
  <2>2. CASE ~(typed.next = Length /\ ~dropped)
      BY <2>2 DEF Saved
  <2> QED
      BY <2>1, <2>2
<1>7. SpeedSaved'
    BY ZenonT(40) DEF SpeedSaved, SpeedShown, Shape
<1> QED
    BY <1>4, <1>5, <1>6, <1>7, InForceKept DEF system

LEMMA SettingsStep ==
    ASSUME SetupInv,
           \/ \E v \in Speeds \cup {speed.shown} : SetSpeed(v)
           \/ ShowAll
           \/ \E v \in 0 .. 2 : SetDhcp(v) \/ ChargingCmd(v)
    PROVE  SetupInv'
PROOF
<1> USE DEF SetupInv
<1>1. ASSUME NEW v \in Speeds \cup {speed.shown}, SetSpeed(v) PROVE SetupInv'
  <2>1. v \in 0 .. 255
      BY SpeedAssumption DEF SpeedSaved
  <2>2. Shape' /\ Received' /\ Saved'
      BY <1>1 DEF SetSpeed, Shape, Received, Saved, system
  <2>3. file'.ForwardSpeed = ToRpm(v) /\ speed' = [set |-> v, shown |-> speed.shown]
      BY <1>1 DEF SetSpeed, Shape, SpeedSaved
  <2>4. SpeedSaved'
      BY <2>1, <2>3, SpeedRoundTrip, ZenonT(40) DEF SpeedSaved, SpeedShown
  <2> QED
      BY <1>1, <2>2, <2>4, InForceKept DEF SetSpeed, system
<1>2. CASE ShowAll
  <2>1. Shape' /\ Received' /\ Saved'
      BY <1>2 DEF ShowAll, Shape, Received, Saved, system
  <2>2. SpeedSaved'
      BY <1>2 DEF ShowAll, SpeedSaved, SpeedShown
  <2> QED
      BY <1>2, <2>1, <2>2, InForceKept DEF ShowAll, system
<1>3. ASSUME NEW v \in 0 .. 2, SetDhcp(v) \/ ChargingCmd(v) PROVE SetupInv'
  <2>1. /\ UNCHANGED <<typed, dropped, arrived, buffer, speed, program, system>>
        /\ file' = [file EXCEPT !.UseDhcp = v]
      BY <1>3 DEF SetDhcp, ChargingCmd
  <2>2. Shape' /\ Received' /\ Saved'
      BY <2>1 DEF Shape, Received, Saved, system
  <2>3. SpeedSaved'
      BY <2>1 DEF SpeedSaved, SpeedShown, Shape
  <2> QED
      BY <2>1, <2>2, <2>3, InForceKept DEF system
<1> QED
    BY <1>1, <1>2, <1>3

-----------------------------------------------------------------------------
(* The program.  A start loads what is saved; a buffer that is cleared     *)
(* does not hold the parts of the address that is being sent.              *)
LEMMA StartStep ==
    ASSUME SetupInv, Start
    PROVE  SetupInv'
PROOF
<1> USE LengthAssumption DEF SetupInv, Start
<1>1. Shape'
    BY DEF Shape, system
<1>2. Received'
  <2>1. UNCHANGED typed /\ typed.next \in 1 .. Length + 1
      BY DEF Shape
  <2>2. CASE typed.next > 1
    <3>1. dropped'
        BY <2>2, Zenon
    <3> QED
        BY <3>1 DEF Received
  <2>3. CASE typed.next <= 1
      BY <2>1, <2>3 DEF Received
  <2> QED
      BY <2>1, <2>2, <2>3
<1>3. Saved' /\ Loaded' /\ AddressInForce'
    BY DEF Saved, Loaded, AddressInForce
<1>4. SpeedSaved'
    BY DEF SpeedSaved, SpeedShown
<1> QED
    BY <1>1, <1>2, <1>3, <1>4

(* What the set-up does not touch.                                         *)
LEMMA ScreenKept ==
    ASSUME SetupInv, UNCHANGED screen, DOMAIN address' = Interface
    PROVE  Shape' /\ Received' /\ Saved' /\ SpeedSaved'
PROOF
BY DEF SetupInv, screen, Shape, Received, Saved, SpeedSaved, SpeedShown

(* The set-up of the Ethernet: the address is there, or it is set, or a    *)
(* command failed.                                                         *)
LEMMA SetupEthernetStep ==
    ASSUME SetupInv, SetupEthernet
    PROVE  SetupInv'
PROOF
<1> USE DEF SetupInv
<1>1. Loaded /\ Shape
    OBVIOUS
<1>2. /\ UNCHANGED <<localIp, wanted, screen>> /\ netPc' = "wifi"
      /\ address' \in {address, [address EXCEPT ![Ethernet] = localIp]}
    BY DEF SetupEthernet
<1>3. DOMAIN address' = Interface
    BY <1>1, <1>2 DEF Shape
<1>4. Loaded'
    BY <1>1, <1>2 DEF Loaded
<1>5. AddressInForce'
  <2> SUFFICES ASSUME Ethernet \in enabled', failed' = {}, wanted # NoAddress
               PROVE  \E i \in Interface : IsPrefix(wanted, address'[i])
      BY <1>2 DEF AddressInForce
  <2>1. localIp = wanted /\ wanted \in Known
      BY <1>1 DEF Loaded
  <2>2. CASE Exists(localIp) /\ UNCHANGED address
      BY <2>1, <2>2 DEF Exists
  <2>3. CASE address' = [address EXCEPT ![Ethernet] = localIp]
    <3>1. Ethernet \in Interface /\ address'[Ethernet] = wanted
        BY <1>1, <2>1, <2>3 DEF Shape, Interface
    <3> QED
        BY <2>1, <3>1, IsPrefixOfItself
  <2>4. \/ Exists(localIp) /\ UNCHANGED address
        \/ address' = [address EXCEPT ![Ethernet] = localIp]
      BY DEF SetupEthernet, Succeeds, Wifi, Ethernet
  <2> QED
      BY <2>2, <2>3, <2>4
<1> QED
    BY <1>2, <1>3, <1>4, <1>5, ScreenKept

LEMMA WifiStep ==
    ASSUME SetupInv, PowerOnWifi \/ ConnectWifi \/ NoWifi \/ WifiChanges
    PROVE  SetupInv'
PROOF
<1> USE DEF SetupInv
<1>1. CASE PowerOnWifi \/ ConnectWifi \/ NoWifi
  <2>1. UNCHANGED <<localIp, wanted, screen>> /\ netPc' # "wifi"
      BY <1>1 DEF PowerOnWifi, ConnectWifi, NoWifi
  <2>2. DOMAIN address' = Interface
      BY <1>1 DEF PowerOnWifi, ConnectWifi, NoWifi, system, Shape
  <2> QED
      BY <2>1, <2>2, ScreenKept DEF Loaded, AddressInForce
<1>2. CASE WifiChanges
  <2>1. UNCHANGED <<screen, program, address>>
      BY <1>2 DEF WifiChanges
  <2> QED
      BY <2>1, ScreenKept, InForceKept DEF Shape
<1> QED
    BY <1>1, <1>2

-----------------------------------------------------------------------------
LEMMA SetupStepInv == SetupInv /\ [SetupNext]_setupVars => SetupInv'
PROOF
<1> SUFFICES ASSUME SetupInv, [SetupNext]_setupVars PROVE SetupInv'
    OBVIOUS
<1>1. CASE UNCHANGED setupVars
  <2>1. UNCHANGED <<screen, program, address>>
      BY <1>1 DEF setupVars, system
  <2> QED
      BY <2>1, ScreenKept, InForceKept DEF SetupInv, Shape
<1> QED
    BY <1>1, ShapeStep, LosesPartStep, ReceivesPartStep, SettingsStep, StartStep,
       SetupEthernetStep, WifiStep DEF SetupNext

(* An address whose parts all came over the CAN bus (ReadHMIPara,          *)
(* AgvSensor.cpp:1138) is in force when the next start has set up the      *)
(* Ethernet, for addresses of any length and any number of broken          *)
(* transfers and starts.                                                   *)
THEOREM AddressInForceAlways == SetupSpec => []AddressInForce
PROOF
<1>1. SetupInv => AddressInForce
    BY DEF SetupInv
<1> QED
    BY SetupInitInv, SetupStepInv, <1>1, PTL DEF SetupSpec

(* The screen shows the speed that was set or one m/min less               *)
(* (AgvSensor.cpp:993 and :1274), for every speed a byte can hold.         *)
THEOREM SpeedShownAlways == SetupSpec => []SpeedShown
PROOF
<1>1. SetupInv => SpeedShown
    BY DEF SetupInv, SpeedSaved
<1> QED
    BY SetupInitInv, SetupStepInv, <1>1, PTL DEF SetupSpec

-----------------------------------------------------------------------------
(* With one interface the scheduler's client has one user at a time, for   *)
(* any number of thread slots and changes of the links.                    *)
(*                                                                         *)
(* The events of one interface alternate: the watch posts only what        *)
(* differs from lastNetworkStatus.  So an evNetworkOK is handled only when *)
(* the loop was told to end before (Follows), and then no thread is in use *)
(* that is not cancelled (Users).                                          *)

(* The queue changes from event to event, ends with the status that was    *)
(* announced last, and starts with what the scheduler is not told yet.     *)
Alternates ==
    /\ \A k \in 1 .. Len(queue) - 1 : queue[k] # queue[k + 1]
    /\ queue # << >> => (queue[Len(queue)] = NetworkOK <=> lastNetworkStatus)
Follows ==
    /\ queue = << >> => (loopEnable <=> lastNetworkStatus)
    /\ queue # << >> => (queue[1] = NetworkOK <=> ~loopEnable)

(* Who uses the client, by what the main thread has told it.               *)
Users ==
    /\ InUse \subseteq {current}
    /\ ~loopEnable /\ mainPc # "stop" => InUse = {}
    /\ mainPc = "stop" => ~loopEnable
    /\ loopEnable \/ mainPc = "stop" => running

Alone == Cardinality(enabled) = 1 => Alternates /\ Follows /\ Users

WatchInv == TypeOK /\ Alone

-----------------------------------------------------------------------------
LEMMA WatchInitInv == Init => WatchInv
PROOF
<1> SUFFICES ASSUME Init PROVE WatchInv
    OBVIOUS
<1> USE SlotAssumption, ChangesAssumption DEF Init
<1>1. TypeOK
  <2>1. queue \in Seq(Event)
      OBVIOUS
  <2>2. thread \in [Slot -> {"none", "top", "wait", "lock", "io"}]
      OBVIOUS
  <2>3. changes \in 0 .. MaxChanges
      OBVIOUS
  <2> QED
      BY <2>1, <2>2, <2>3 DEF TypeOK, Nobody
<1>2. Alternates /\ Follows
    BY DEF Alternates, Follows
<1>3. Users
    BY DEF Users, InUse
<1> QED
    BY <1>1, <1>2, <1>3 DEF WatchInv, Alone

(* The events of a pass of the watch, and the one event of one interface.  *)
LEMMA AnnouncedEvents ==
    ASSUME TypeOK, NEW ev \in Event
    PROVE  /\ Announced(ev) \in Seq(Event)
           /\ Cardinality(enabled) = 1 => Announced(ev) = <<ev>>
PROOF
<1>1. IsFiniteSet(enabled) /\ Cardinality(enabled) \in Nat
  <2>1. IsFiniteSet({Wifi, Ethernet})
    <3>1. IsFiniteSet({Wifi})
        BY FS_Singleton
    <3>2. IsFiniteSet({Wifi} \cup {Ethernet})
        BY <3>1, FS_AddElement
    <3>3. {Wifi, Ethernet} = {Wifi} \cup {Ethernet}
        OBVIOUS
    <3> QED
        BY <3>2, <3>3
  <2> QED
      BY <2>1, FS_Subset, FS_CardinalityType DEF TypeOK, Interface
<1>2. Announced(ev) \in Seq(Event)
    BY <1>1 DEF Announced
<1>3. ASSUME Cardinality(enabled) = 1 PROVE Announced(ev) = <<ev>>
    BY <1>3 DEF Announced
<1> QED
    BY <1>2, <1>3

-----------------------------------------------------------------------------
(* Type correctness, one step for each action.                             *)
LEMMA TypeStep ==
    ASSUME TypeOK, [Next]_vars
    PROVE  TypeOK'
PROOF
<1> USE SlotAssumption, ChangesAssumption DEF Slot, watch, scheduler
<1>1. ASSUME NEW i \in Interface, LinkChanges(i) PROVE TypeOK'
    BY <1>1 DEF TypeOK, LinkChanges, Interface
<1>2. CASE Watch
  <2> DEFINE ev == IF CheckNetStatus THEN NetworkOK ELSE NetworkError
  <2>1. CheckNetStatus \in BOOLEAN
      BY DEF TypeOK, CheckNetStatus, Interface
  <2>2. ev \in Event
      BY DEF Event
  <2>3. Announced(ev) \in Seq(Event)
      BY <2>2, AnnouncedEvents
  <2>4. queue' \in Seq(Event)
      BY <1>2, <2>3 DEF Watch, TypeOK
  <2> QED
      BY <1>2, <2>1, <2>4 DEF Watch, TypeOK
<1>3. CASE StartSchedule
  <2>1. queue' \in Seq(Event)
      BY <1>3 DEF StartSchedule, Handles, TypeOK
  <2>2. thread' \in [Slot -> {"none", "top", "wait", "lock", "io"}]
      BY <1>3 DEF StartSchedule, TypeOK
  <2> QED
      BY <1>3, <2>1, <2>2 DEF StartSchedule, TypeOK, Unused
<1>4. CASE StopSchedule
  <2>1. queue' \in Seq(Event)
      BY <1>4 DEF StopSchedule, Handles, TypeOK
  <2> QED
      BY <1>4, <2>1 DEF StopSchedule, TypeOK
<1>5. CASE Stop
  <2>1. cancelled' \subseteq Slot
      BY <1>5 DEF Stop, TypeOK
  <2> QED
      BY <1>5, <2>1 DEF Stop, TypeOK
<1>6. CASE Report \/ ReportSent
  <2>1. UNCHANGED <<watch, queue, scheduler>> /\ mainPc' \in {"loop", "lock"}
      BY <1>6 DEF Report, ReportSent
  <2> QED
      BY <2>1 DEF TypeOK
<1>7. ASSUME NEW t \in Slot, SchedulerThread(t) PROVE TypeOK'
  <2>1. /\ UNCHANGED <<watch, queue, mainPc, loopEnable, current, running, cancelled>>
        /\ locker' \in {locker, t, Nobody}
        /\ \E to \in {"none", "top", "wait", "lock", "io"} :
             thread' = [thread EXCEPT ![t] = to]
      BY <1>7 DEF SchedulerThread, Top, Wait, Lock, ReadWrite, Cancelled, Goes
  <2>2. thread' \in [Slot -> {"none", "top", "wait", "lock", "io"}]
      BY <2>1 DEF TypeOK
  <2> QED
      BY <2>1, <2>2 DEF TypeOK
<1>8. CASE UNCHANGED vars
    BY <1>8 DEF vars, TypeOK
<1> QED
    BY <1>1, <1>2, <1>3, <1>4, <1>5, <1>6, <1>7, <1>8 DEF Next

-----------------------------------------------------------------------------
(* A pass of the watch adds an event that differs from the last one.       *)
LEMMA WatchAlternates ==
    ASSUME TypeOK, Alternates, Follows, Watch, Cardinality(enabled) = 1
    PROVE  Alternates' /\ Follows'
PROOF
<1> DEFINE ev == IF CheckNetStatus THEN NetworkOK ELSE NetworkError
<1>1. CheckNetStatus \in BOOLEAN
    BY DEF TypeOK, CheckNetStatus, Interface
<1>2. ev \in Event
    BY DEF Event
<1>3. queue' = queue \o <<ev>>
    BY <1>2, AnnouncedEvents DEF Watch
<1> HIDE DEF ev
<1>4. /\ Len(queue') = Len(queue) + 1
      /\ queue'[Len(queue) + 1] = ev
      /\ \A k \in 1 .. Len(queue) : queue'[k] = queue[k]
      /\ queue' # << >>
    BY <1>3 DEF TypeOK
<1>5. ev = NetworkOK <=> lastNetworkStatus'
    BY <1>1 DEF ev, Watch, NetworkOK, NetworkError
<1>6. lastNetworkStatus' <=> ~lastNetworkStatus
    BY <1>1 DEF Watch, TypeOK
<1>7. Alternates'
  <2>1. ASSUME NEW k \in 1 .. Len(queue') - 1 PROVE queue'[k] # queue'[k + 1]
    <3>1. CASE k = Len(queue)
        BY <1>4, <1>5, <1>6, <3>1 DEF Alternates, TypeOK
    <3>2. CASE k # Len(queue)
        BY <1>4, <3>2, <2>1 DEF Alternates, TypeOK
    <3> QED
        BY <3>1, <3>2
  <2> QED
      BY <2>1, <1>4, <1>5 DEF Alternates, TypeOK
<1>8. Follows'
  <2>1. CASE queue = << >>
      BY <2>1, <1>4, <1>5, <1>6 DEF Follows, Watch, scheduler, TypeOK
  <2>2. CASE queue # << >>
      BY <2>2, <1>4 DEF Follows, Watch, scheduler, TypeOK
  <2> QED
      BY <2>1, <2>2
<1> QED
    BY <1>7, <1>8

(* Handling an event leaves a queue that starts with the other event.      *)
LEMMA HandlingAlternates ==
    ASSUME TypeOK, Alternates, NEW ev \in Event, Handles(ev),
           UNCHANGED lastNetworkStatus
    PROVE  /\ Alternates'
           /\ queue' = << >> => (ev = NetworkOK <=> lastNetworkStatus')
           /\ queue' # << >> => (queue'[1] = NetworkOK <=> ev # NetworkOK)
PROOF
<1>1. /\ queue # << >> /\ queue[1] = ev
      /\ Len(queue) \in Nat /\ Len(queue') = Len(queue) - 1
      /\ \A k \in 1 .. Len(queue') : queue'[k] = queue[k + 1]
      /\ queue' = << >> <=> Len(queue) = 1
  <2>1. queue \in Seq(Event) /\ queue # << >> /\ queue' = Tail(queue) /\ Head(queue) = ev
      BY DEF Handles, TypeOK
  <2>2. queue' \in Seq(Event) /\ Len(queue) \in Nat /\ Len(queue') = Len(queue) - 1
      BY <2>1
  <2>3. \A k \in 1 .. Len(queue') : queue'[k] = queue[k + 1]
      BY <2>1, <2>2
  <2>4. queue' = << >> <=> Len(queue') = 0
      BY <2>2, EmptySeq
  <2> QED
      BY <2>1, <2>2, <2>3, <2>4
<1>2. Alternates'
    BY <1>1 DEF Alternates
<1>3. queue' # << >> => queue'[1] # ev /\ queue'[1] \in Event
    BY <1>1 DEF Alternates, TypeOK
<1> QED
    BY <1>1, <1>2, <1>3 DEF Alternates, Event, NetworkOK, NetworkError

-----------------------------------------------------------------------------
(* The rest of the invariant.  Only a start adds a user.                   *)
LEMMA AloneStep ==
    ASSUME WatchInv, [Next]_vars
    PROVE  Alone'
PROOF
<1> SUFFICES ASSUME Cardinality(enabled) = 1
             PROVE  Alternates' /\ Follows' /\ Users'
  <2>1. UNCHANGED enabled
      BY DEF Next, vars, watch, LinkChanges, Watch, StartSchedule, StopSchedule,
             Stop, Report, ReportSent, SchedulerThread, Top, Wait, Lock,
             ReadWrite, Cancelled, Goes
  <2> QED
      BY <2>1 DEF Alone
<1> USE DEF WatchInv, Alone
<1>0. TypeOK /\ Alternates /\ Follows /\ Users
    OBVIOUS
<1>1. ASSUME NEW i \in Interface, LinkChanges(i)
      PROVE  Alternates' /\ Follows' /\ Users'
    BY <1>0, <1>1 DEF LinkChanges, scheduler, Alternates, Follows, Users, InUse
<1>2. CASE Watch
    BY <1>0, <1>2, WatchAlternates DEF Watch, scheduler, Users, InUse
<1>3. CASE StartSchedule
  <2>1. Handles(NetworkOK) /\ NetworkOK \in Event /\ UNCHANGED lastNetworkStatus
      BY <1>3 DEF StartSchedule, watch, Event
  <2>2. ~loopEnable /\ mainPc = "loop" /\ InUse = {}
      BY <1>0, <2>1 DEF Follows, Users, Handles, TypeOK
  <2>3. Alternates' /\ Follows'
      BY <1>0, <1>3, <2>1, HandlingAlternates DEF StartSchedule, Follows
  <2>4. PICK t \in Unused : /\ current' = t
                            /\ thread' = [thread EXCEPT ![t] = "top"]
                            /\ cancelled' = cancelled \ {t}
      BY <1>3 DEF StartSchedule
  <2>5. InUse' \subseteq {t}
      BY <2>2, <2>4 DEF InUse, Unused, TypeOK
  <2> QED
      BY <1>3, <2>2, <2>3, <2>4, <2>5 DEF StartSchedule, Users, Unused
<1>4. CASE StopSchedule
  <2>1. Handles(NetworkError) /\ NetworkError \in Event /\ UNCHANGED lastNetworkStatus
      BY <1>4 DEF StopSchedule, watch, Event
  <2>2. loopEnable /\ mainPc = "loop"
      BY <1>0, <2>1 DEF Follows, Handles, TypeOK, NetworkOK, NetworkError
  <2>3. Alternates' /\ Follows'
      BY <1>0, <1>4, <2>1, <2>2, HandlingAlternates
         DEF StopSchedule, Follows, NetworkOK, NetworkError
  <2> QED
      BY <1>0, <1>4, <2>2, <2>3 DEF StopSchedule, Users, InUse
<1>5. CASE Stop
  <2>1. ~loopEnable /\ running /\ current \in Slot /\ InUse \subseteq {current}
      BY <1>0, <1>5 DEF Stop, Users, TypeOK
  <2>2. InUse' = {}
      BY <1>5, <2>1 DEF Stop, InUse
  <2> QED
      BY <1>0, <1>5, <2>1, <2>2
         DEF Stop, watch, Alternates, Follows, Users
<1>6. CASE Report \/ ReportSent
    BY <1>0, <1>6
       DEF Report, ReportSent, watch, scheduler, Alternates, Follows, Users, InUse
<1>7. ASSUME NEW t \in Slot, SchedulerThread(t)
      PROVE  Alternates' /\ Follows' /\ Users'
  <2>1. /\ thread[t] # "none" /\ UNCHANGED <<watch, queue, mainPc>>
        /\ UNCHANGED <<loopEnable, current, running, cancelled>>
        /\ \E to : thread' = [thread EXCEPT ![t] = to]
      BY <1>7 DEF SchedulerThread, Top, Wait, Lock, ReadWrite, Cancelled, Goes
  <2>2. InUse' \subseteq InUse
      BY <1>0, <2>1 DEF InUse, TypeOK
  <2> QED
      BY <1>0, <2>1, <2>2 DEF watch, Alternates, Follows, Users
<1>8. CASE UNCHANGED vars
    BY <1>0, <1>8 DEF vars, watch, scheduler, Alternates, Follows, Users, InUse
<1> QED
    BY <1>1, <1>2, <1>3, <1>4, <1>5, <1>6, <1>7, <1>8 DEF Next

(* With one interface, however it flaps and however late the main thread   *)
(* handles the events of the watch (AgvNetManager.cpp:175), one thread at  *)
(* a time uses the scheduler's client without being cancelled, for any     *)
(* number of changes of the link and of thread slots.                      *)
THEOREM OneClientAlways == Spec => []OneClient
PROOF
<1>1. WatchInv /\ [Next]_vars => WatchInv'
    BY TypeStep, AloneStep DEF WatchInv
<1>2. ASSUME WatchInv PROVE OneClient
  <2> SUFFICES ASSUME Cardinality(enabled) = 1 PROVE Cardinality(InUse) <= 1
      BY DEF OneClient
  <2>1. InUse = {} \/ InUse = {current}
      BY <1>2 DEF WatchInv, Alone, Users
  <2>2. Cardinality({}) = 0 /\ Cardinality({current}) = 1
      BY FS_EmptySet, FS_Singleton
  <2>3. Cardinality(InUse) \in {0, 1}
      BY <2>1, <2>2
  <2> QED
      BY <2>3
<1> QED
    BY WatchInitInv, <1>1, <1>2, PTL DEF Spec
=============================================================================
