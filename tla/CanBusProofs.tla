---------------------------- MODULE CanBusProofs ----------------------------
(***************************************************************************)
(* The CAN bus: the counters of SensorManager, for any number of sensors   *)
(* and any limit, and the buffer of CanOperator, for any devices, lengths  *)
(* and losses.                                                             *)
(***************************************************************************)
EXTENDS SensorManager, CanOperator, TLAPS

-----------------------------------------------------------------------------
(* SensorManager.                                                          *)

(* What the type invariant needs: a counter that is read is below the      *)
(* limit, because a full one is reset in the pass that filled it.          *)
Passes ==
    /\ pc = "store" => counter < OfflineLimit
    /\ \A s \in Sensor :
         heartBeatCounter[s] = OfflineLimit =>
             /\ s = sensor /\ pc \in {"test", "reset"}
             /\ pc = "test" => counter = OfflineLimit
    /\ pc = "load" => sensorNum < sensor
    /\ pc \in {"store", "test", "reset", "lapse", "count"} => sensorNum < sensor
    /\ monitor # "read" => todo # {}

WatchInv == TypeOK /\ Passes /\ CounterIsSilence

LEMMA WatchInitInv == Init => WatchInv
PROOF
<1> SUFFICES ASSUME Init PROVE WatchInv
    OBVIOUS
<1> USE NumAssumption, IdAssumption, LimitAssumption DEF Init, Sensor
<1>1. TypeOK
    BY DEF TypeOK
<1>2. Passes
    BY DEF Passes
<1>3. CounterIsSilence
    BY DEF CounterIsSilence
<1> QED
    BY <1>1, <1>2, <1>3 DEF WatchInv

(* The monitor hands a message to sensors that exist.                      *)
LEMMA FirstIsSensor ==
    ASSUME TypeOK, todo # {}
    PROVE  First \in todo /\ First \in Sensor
PROOF
BY DEF First, TypeOK

LEMMA PassInv ==
    ASSUME WatchInv, HandleEvent
    PROVE  WatchInv'
PROOF
<1> USE NumAssumption, LimitAssumption DEF WatchInv, TypeOK, Passes, CounterIsSilence, Sensor
<1>1. CASE Tick
    BY <1>1 DEF Tick
<1>2. CASE Load
    BY <1>2 DEF Load
<1>3. CASE Store
  <2>1. counter + 1 \in 0 .. OfflineLimit
    BY <1>3 DEF Store
  <2>2. silent' = [silent EXCEPT ![sensor] = IF @ < OfflineLimit THEN @ + 1 ELSE @]
    BY <1>3 DEF Store
  <2>3. TypeOK'
    <3>1. silent' \in [Sensor -> 0 .. OfflineLimit]
      BY <2>2
    <3>2. heartBeatCounter' \in [Sensor -> 0 .. OfflineLimit]
      BY <1>3, <2>1 DEF Store
    <3> QED
      BY <1>3, <2>1, <3>1, <3>2 DEF Store
  <2>4. Passes'
    BY <1>3, <2>1 DEF Store
  <2>5. \A s \in Sensor : heartBeatCounter'[s] <= silent'[s]
    BY <1>3, <2>1, <2>2 DEF Store
  <2>6. CounterIsSilence'
    BY <1>3, <2>1, <2>2, <2>5 DEF Store
  <2> QED
    BY <2>3, <2>4, <2>6
<1>4. CASE Test
    BY <1>4, SMTT(40) DEF Test
<1>5. CASE Reset
    BY <1>5, SMTT(40) DEF Reset
<1>6. CASE Lapse
    BY <1>6 DEF Lapse
<1>7. CASE Count
  <2>1. UNCHANGED <<heartBeatCounter, isAlive, counter, laseSensorNum, told,
                    monitor, todo, sends, silent>>
    BY <1>7 DEF Count
  <2>2. sensorNum' \in 0 .. NumSensors /\ sensorNum' <= sensor
    BY <1>7 DEF Count
  <2>3. sensor' \in Sensor /\ pc' \in {"load", "tell"}
    BY <1>7 DEF Count
  <2>4. pc' = "load" => sensor' = sensor + 1
    BY <1>7 DEF Count
  <2>5. TypeOK'
    BY <2>1, <2>2, <2>3
  <2>6. Passes'
    <3>1. \A s \in Sensor : heartBeatCounter'[s] # OfflineLimit
      BY <1>7, <2>1 DEF Count
    <3>2. pc' = "load" => sensorNum' < sensor'
      BY <2>2, <2>4
    <3> QED
      BY <2>1, <2>3, <3>1, <3>2
  <2>7. CounterIsSilence'
    BY <2>1, <2>3
  <2> QED
    BY <2>5, <2>6, <2>7
<1>8. CASE Tell
  <2>1. laseSensorNum' \in 0 .. NumSensors /\ told' \in {"none", Online, Offline}
    BY <1>8 DEF Tell
  <2>2. TypeOK'
    BY <1>8, <2>1 DEF Tell
  <2>3. Passes' /\ CounterIsSilence'
    BY <1>8 DEF Tell
  <2> QED
    BY <2>2, <2>3
<1> QED
    BY <1>1, <1>2, <1>3, <1>4, <1>5, <1>6, <1>7, <1>8 DEF HandleEvent

LEMMA MonitorInv ==
    ASSUME WatchInv, ParseData \/ \E i \in CanId : HandlerData(i) \/ Plug(i)
    PROVE  WatchInv'
PROOF
<1> USE NumAssumption, LimitAssumption DEF WatchInv, watch
<1>1. CASE Zero
  <2>1. First \in todo /\ First \in Sensor
    BY <1>1, FirstIsSensor DEF Zero, Passes
  <2>2. TypeOK'
    BY <1>1, <2>1 DEF Zero, TypeOK
  <2>3. Passes'
    BY <1>1, <2>1 DEF Zero, Passes, TypeOK
  <2>4. CounterIsSilence'
    BY <1>1, <2>1 DEF Zero, CounterIsSilence, TypeOK, AtSensor
  <2> QED
    BY <2>2, <2>3, <2>4
<1>2. CASE Revive
  <2>1. First \in todo /\ First \in Sensor
    BY <1>2, FirstIsSensor DEF Revive, Passes
  <2>2. TypeOK'
    BY <1>2, <2>1 DEF Revive, TypeOK
  <2>3. Passes'
    BY <1>2, <2>1 DEF Revive, Passes, TypeOK
  <2>4. CounterIsSilence'
    BY <1>2 DEF Revive, CounterIsSilence
  <2> QED
    BY <2>2, <2>3, <2>4
<1>3. ASSUME NEW i \in CanId, HandlerData(i)
      PROVE  WatchInv'
    BY <1>3 DEF HandlerData, TypeOK, Passes, CounterIsSilence
<1>4. ASSUME NEW i \in CanId, Plug(i)
      PROVE  WatchInv'
    BY <1>4 DEF Plug, TypeOK, Passes, CounterIsSilence
<1> QED
    BY <1>1, <1>2, <1>3, <1>4 DEF ParseData

LEMMA WatchStepInv == WatchInv /\ [Next]_vars => WatchInv'
PROOF
<1> SUFFICES ASSUME WatchInv, [Next]_vars PROVE WatchInv'
    OBVIOUS
<1>1. CASE HandleEvent
    BY <1>1, PassInv
<1>2. CASE ParseData \/ \E i \in CanId : HandlerData(i) \/ Plug(i)
    BY <1>2, MonitorInv
<1>3. CASE UNCHANGED vars
    BY <1>3 DEF vars, watch, WatchInv, TypeOK, Passes, CounterIsSilence
<1> QED
    BY <1>1, <1>2, <1>3 DEF Next

(* Counters, counts and events have their types: no counter passes the     *)
(* limit although two threads write it without a lock.                     *)
THEOREM SensorsTypeCorrect == Spec => []TypeOK
PROOF
<1>1. WatchInv => TypeOK
    BY DEF WatchInv
<1> QED
    BY WatchInitInv, WatchStepInv, <1>1, PTL DEF Spec

(* A sensor is declared lost only after a full limit of silent passes.     *)
THEOREM LostOnlyAfterSilence == Spec => LostWasSilent
PROOF
<1>1. WatchInv /\ [Next]_vars =>
        [\A s \in Sensor : isAlive[s] /\ ~isAlive'[s] => silent[s] = OfflineLimit]_vars
  <2> SUFFICES ASSUME WatchInv, Next, NEW s \in Sensor, isAlive[s], ~isAlive'[s]
               PROVE  silent[s] = OfflineLimit
    OBVIOUS
  <2>1. CASE Lapse
    BY <2>1 DEF Lapse, WatchInv, CounterIsSilence, TypeOK
  <2>2. CASE Revive
    <3>1. First \in Sensor
      BY <2>2, FirstIsSensor DEF Revive, WatchInv, Passes
    <3> QED
      BY <2>2, <3>1 DEF Revive, WatchInv, TypeOK
  <2>3. CASE ~Lapse /\ ~Revive
    <3>1. UNCHANGED isAlive
      BY <2>3 DEF Next, HandleEvent, ParseData, Tick, Load, Store, Test, Reset, Count,
                  Tell, Zero, HandlerData, Plug
    <3> QED
      BY <3>1
  <2> QED
    BY <2>1, <2>2, <2>3
<1> QED
    BY WatchInitInv, WatchStepInv, <1>1, PTL DEF Spec, LostWasSilent

-----------------------------------------------------------------------------
(* CanOperator.                                                            *)

USE PartsAssumption, BufferAssumption, BeatAssumption, LostAssumption

(* A message is announced by someone, and no more of it is recognised than *)
(* was sent.                                                               *)
Announced == multiMode = 1 => opened.id \in CanId

BusInv == BusTypeOK /\ Announced

LEMMA TotalIsNatural == Parts * Long \in Nat /\ BufferSize \in Nat
PROOF
OBVIOUS

LEMMA NothingGiven ==
    Nothing \in [kind : {None, "frame", "piece", "message", "overrun"},
                 id : CanId \cup {None}, of : CanId \cup {None},
                 length : 0 .. BufferSize]
PROOF
BY DEF Nothing

LEMMA BusInitInv == BusInit => BusInv
PROOF
<1> SUFFICES ASSUME BusInit PROVE BusInv
    OBVIOUS
<1>1. BusTypeOK
  <2>1. given \in [kind : {None, "frame", "piece", "message", "overrun"},
                   id : CanId \cup {None}, of : CanId \cup {None},
                   length : 0 .. BufferSize]
    BY NothingGiven DEF BusInit
  <2>2. opened \in [id : CanId \cup {None}, turn : 0 .. 1]
    BY DEF BusInit, NoOne
  <2>3. PICK z : z = 0
    OBVIOUS
  <2>4. sent = [i \in CanId |-> z] /\ turn = [i \in CanId |-> z]
    BY <2>3 DEF BusInit
  <2>5. z \in 0 .. Parts + 1 /\ z \in 0 .. 1
    BY <2>3
  <2>6. sent \in [CanId -> 0 .. Parts + 1] /\ turn \in [CanId -> 0 .. 1]
    BY <2>4, <2>5
  <2>7. /\ lost \in 0 .. MaxLost /\ multiMode \in 0 .. 1 /\ prefix \in 0 .. Parts
        /\ heartBeatTimer \in 0 .. BeatLimit + 1
    BY DEF BusInit
  <2>9. /\ overlap \in BOOLEAN /\ loopEnable \in BOOLEAN
        /\ read \in CanId \cup {None, "busy", "idle", "beat", "error"}
    BY Zenon DEF BusInit
  <2>8. /\ recvLength \in 0 .. BufferSize /\ totalLength \in {0, Parts * Long}
        /\ multiMode = 0 => recvLength = 0
    BY TotalIsNatural DEF BusInit
  <2> QED
    BY <2>1, <2>2, <2>6, <2>7, <2>8, <2>9 DEF BusTypeOK
<1> QED
    BY <1>1 DEF BusInit, BusInv, Announced

(* What a device sends next.                                               *)
LEMMA FrameType ==
    ASSUME BusTypeOK, NEW i \in CanId, NEW f \in NextFrames(i)
    PROVE  /\ f.id = i /\ f.turn \in 0 .. 1
           /\ f.kind \in {"single", "beat", "start", "data", "end"}
           /\ Size(f) \in Nat
PROOF
BY DEF NextFrames, Frame, Short, Size, BusTypeOK

LEMMA SendsType ==
    ASSUME BusTypeOK, NEW i \in CanId, NEW f, Sends(i, f)
    PROVE  sent' \in [CanId -> 0 .. Parts + 1] /\ turn' \in [CanId -> 0 .. 1]
           /\ overlap' \in BOOLEAN
PROOF
<1>1. f \in NextFrames(i)
    BY DEF Sends
<1>2. (CASE f.kind \in Short \cup {"end"} -> 0 [] OTHER -> sent[i] + 1) \in 0 .. Parts + 1
    BY <1>1 DEF NextFrames, Frame, Short, BusTypeOK
<1>3. sent' \in [CanId -> 0 .. Parts + 1]
    BY <1>2 DEF Sends, BusTypeOK
<1>4. turn' \in [CanId -> 0 .. 1]
    BY DEF Sends, BusTypeOK
<1>5. overlap' \in BOOLEAN
    BY DEF Sends, BusTypeOK
<1> QED
    BY <1>3, <1>4, <1>5

(* The variables of the buffer keep their types with every frame.          *)
Joined ==
    /\ multiMode \in 0 .. 1
    /\ recvLength \in 0 .. BufferSize /\ totalLength \in {0, Parts * Long}
    /\ opened \in [id : CanId \cup {None}, turn : 0 .. 1]
    /\ prefix \in 0 .. Parts
    /\ given \in [kind : {None, "frame", "piece", "message", "overrun"},
                  id : CanId \cup {None}, of : CanId \cup {None},
                  length : 0 .. BufferSize]
    /\ multiMode = 0 => recvLength = 0
    /\ multiMode = 1 => opened.id \in CanId

LEMMA EmptyJoined ==
    ASSUME Empty, NEW k \in {"frame", "piece", "message", "overrun"},
           NEW g, g.id \in CanId, NEW o \in CanId \cup {None}, NEW n \in 0 .. BufferSize,
           given' = Nothing \/ Gives(k, g, o, n)
    PROVE  Joined'
PROOF
<1>1. given' \in [kind : {None, "frame", "piece", "message", "overrun"},
                  id : CanId \cup {None}, of : CanId \cup {None},
                  length : 0 .. BufferSize]
    BY DEF Gives, Nothing
<1> QED
    BY <1>1, TotalIsNatural DEF Empty, Joined, NoOne

LEMMA MonitorJoined ==
    ASSUME BusInv, NEW i \in CanId, NEW f \in NextFrames(i),
           Opens(f) \/ Closes(f) \/ Overruns(f) \/ Appends(f)
    PROVE  Joined'
PROOF
<1> USE TotalIsNatural
<1>1. /\ f.id \in CanId /\ f.turn \in 0 .. 1 /\ Size(f) \in Nat
      /\ f.kind \in {"single", "beat", "start", "data", "end"}
    BY FrameType DEF BusInv
<1>2. CASE Opens(f)
    BY <1>1, <1>2 DEF Opens, Joined, Nothing
<1>3. CASE Closes(f)
  <2>1. recvLength \in 0 .. BufferSize /\ opened.id \in CanId
    BY <1>3 DEF Closes, EndsMessage, BusInv, BusTypeOK, Announced
  <2>2. Empty /\ (given' = Nothing \/ Gives("message", f, opened.id, recvLength))
    BY <1>3 DEF Closes
  <2> QED
    BY <1>1, <2>1, <2>2, EmptyJoined
<1>4. CASE Overruns(f)
  <2>1. Empty /\ Gives("overrun", f, None, BufferSize)
    BY <1>4 DEF Overruns
  <2>2. BufferSize \in 0 .. BufferSize
    OBVIOUS
  <2> QED
    BY <1>1, <2>1, <2>2, EmptyJoined
<1>5. CASE Appends(f) /\ multiMode = 1
  <2>1. recvLength' \in 0 .. BufferSize
    BY <1>1, <1>5 DEF Appends, Fits, BusInv, BusTypeOK
  <2>2. prefix' \in 0 .. Parts
    <3>1. CASE prefix' = prefix
      BY <3>1 DEF BusInv, BusTypeOK
    <3>2. CASE f.kind = "data" /\ f.part = prefix + 1 /\ prefix' = prefix + 1
      <4>1. f.part \in 1 .. Parts
        BY <3>2 DEF NextFrames, Frame, Short
      <4> QED
        BY <3>2, <4>1 DEF BusInv, BusTypeOK
    <3> QED
      BY <1>5, <3>1, <3>2 DEF Appends
  <2>3. given' = Nothing /\ UNCHANGED <<multiMode, totalLength, opened>>
    BY <1>5 DEF Appends
  <2> QED
    BY <1>5, <2>1, <2>2, <2>3 DEF Joined, Nothing, BusInv, BusTypeOK, Announced
<1>6. CASE Appends(f) /\ multiMode # 1
  <2>1. Size(f) \in 0 .. BufferSize
    BY <1>1, <1>6 DEF Appends, Fits, BusInv, BusTypeOK
  <2>2. PICK k \in {"frame", "piece"} : Empty /\ Gives(k, f, f.id, Size(f))
    BY <1>6 DEF Appends
  <2> QED
    BY <1>1, <2>1, <2>2, EmptyJoined
<1> QED
    BY <1>2, <1>3, <1>4, <1>5, <1>6

LEMMA BusStepInv == BusInv /\ [BusNext]_busVars => BusInv'
PROOF
<1> SUFFICES ASSUME BusInv, [BusNext]_busVars PROVE BusInv'
    OBVIOUS
<1>1. ASSUME NEW i \in CanId, Receive(i)
      PROVE  BusInv'
  <2>1. PICK f \in NextFrames(i) :
           /\ Sends(i, f)
           /\ Opens(f) \/ Closes(f) \/ Overruns(f) \/ Appends(f)
           /\ read' \in {i, "busy"}
    BY <1>1 DEF Receive
  <2>2. Joined'
    BY <2>1, MonitorJoined
  <2>3. sent' \in [CanId -> 0 .. Parts + 1] /\ turn' \in [CanId -> 0 .. 1]
        /\ overlap' \in BOOLEAN
    BY <2>1, SendsType DEF BusInv
  <2> QED
    BY <1>1, <2>1, <2>2, <2>3 DEF Receive, Joined, BusInv, BusTypeOK, Announced
<1>2. ASSUME NEW i \in CanId, Lose(i)
      PROVE  BusInv'
  <2>1. PICK f \in NextFrames(i) : Sends(i, f)
    BY <1>2 DEF Lose
  <2>2. sent' \in [CanId -> 0 .. Parts + 1] /\ turn' \in [CanId -> 0 .. 1]
        /\ overlap' \in BOOLEAN
    BY <2>1, SendsType DEF BusInv
  <2> QED
    BY <1>2, <2>2 DEF Lose, joined, BusInv, BusTypeOK, Announced
<1>3. CASE Idle
    BY <1>3, NothingGiven DEF Idle, devices, joined, BusInv, BusTypeOK, Announced
<1>4. CASE ReadError
    BY <1>4, NothingGiven DEF ReadError, devices, joined, BusInv, BusTypeOK, Announced
<1>5. CASE UNCHANGED busVars
    BY <1>5 DEF busVars, devices, joined, BusInv, BusTypeOK, Announced
<1> QED
    BY <1>1, <1>2, <1>3, <1>4, <1>5 DEF BusNext

(* The buffer of 2048 bytes is never overrun and holds nothing while no    *)
(* long message is joined, whatever frames arrive or get lost.             *)
THEOREM CanTypeCorrect == BusSpec => []BusTypeOK
PROOF
<1>1. BusInv => BusTypeOK
    BY DEF BusInv
<1> QED
    BY BusInitInv, BusStepInv, <1>1, PTL DEF BusSpec

-----------------------------------------------------------------------------
(* WholeMessage.  The length is right because the buffer only grows; the   *)
(* sender needs a count of the losses.  As long as no two long messages    *)
(* were under way at once (OneTalks), a buffer that could be handed over   *)
(* either waits for the end frame of the device that opened it, or that    *)
(* end is lost, and so is every frame that another device has sent of its  *)
(* message since: any that came would have lengthened the buffer or opened *)
(* a new one (Owned).                                                      *)
OneTalks == ~overlap => \A i, j \in CanId : sent[i] # 0 /\ sent[j] # 0 => i = j
Full == multiMode = 1 /\ prefix = Parts /\ recvLength = Parts * Long
Unheard == \A j \in CanId : j # opened.id => lost >= 1 + sent[j]
Owned == ~overlap /\ Full => sent[opened.id] = Parts + 1 \/ Unheard
Measured ==
    multiMode = 1 => totalLength = Parts * Long /\ (prefix = Parts => recvLength >= Parts * Long)

WholeInv == BusInv /\ OneTalks /\ Owned /\ Measured /\ WholeMessage

(* What a frame tells of its sender.                                       *)
LEMMA FrameOf ==
    ASSUME BusTypeOK, NEW i \in CanId, NEW f \in NextFrames(i)
    PROVE  /\ f.id = i
           /\ f.kind \in Short \cup {"start"} => sent[i] = 0
           /\ f.kind = "data" => sent[i] \in 1 .. Parts /\ f.part = sent[i]
           /\ f.kind = "end" => sent[i] = Parts + 1
           /\ f.kind \in {"single", "beat", "start", "data", "end"}
           /\ Size(f) \in Nat \ {0} /\ (f.kind = "data" => Size(f) = Long)
BY DEF NextFrames, Frame, Short, Size, BusTypeOK

LEMMA SentNext ==
    ASSUME BusTypeOK, NEW i \in CanId, NEW f, Sends(i, f)
    PROVE  /\ f \in NextFrames(i)
           /\ \A j \in CanId : j # i => sent'[j] = sent[j]
           /\ sent'[i] = IF f.kind \in Short \cup {"end"} THEN 0 ELSE sent[i] + 1
           /\ overlap' = (overlap \/ (f.kind = "start" /\ \E j \in CanId \ {i} : sent[j] # 0))
BY DEF Sends, BusTypeOK

LEMMA OneTalksNext ==
    ASSUME BusTypeOK, OneTalks, NEW i \in CanId, NEW f, Sends(i, f)
    PROVE  OneTalks'
<1>1. f \in NextFrames(i) /\ sent \in [CanId -> 0 .. Parts + 1]
  BY SentNext DEF BusTypeOK
<1>2. ASSUME ~overlap', NEW j \in CanId, j # i, sent'[j] # 0, sent'[i] # 0
      PROVE  FALSE
  <2>1. sent[j] # 0 /\ ~overlap
    BY <1>2, SentNext
  <2>2. sent[i] = 0
    BY <2>1, <1>2 DEF OneTalks
  <2>3. f.kind = "start"
    BY <1>1, <1>2, <2>2, SentNext, FrameOf DEF Short
  <2>. QED
    BY <1>2, <2>1, <2>3, SentNext
<1>3. ASSUME ~overlap', NEW j \in CanId, NEW k \in CanId, j # i, k # i,
             sent'[j] # 0, sent'[k] # 0
      PROVE  j = k
  BY <1>3, SentNext DEF OneTalks
<1>. QED
  BY <1>2, <1>3 DEF OneTalks

(* A full buffer when a frame is lost.                                     *)
LEMMA LoseKeepsWhole ==
    ASSUME WholeInv, NEW i \in CanId, Lose(i)
    PROVE  OneTalks' /\ Owned' /\ Measured' /\ WholeMessage'
<1>0. BusTypeOK /\ lost \in Nat /\ sent \in [CanId -> 0 .. Parts + 1]
  BY DEF WholeInv, BusInv, BusTypeOK
<1>1. PICK f \in NextFrames(i) : Sends(i, f)
  BY DEF Lose
<1>2. /\ lost' = lost + 1
      /\ multiMode' = multiMode /\ recvLength' = recvLength /\ totalLength' = totalLength
      /\ opened' = opened /\ prefix' = prefix /\ given' = given
  BY DEF Lose, joined
<1>3. OneTalks'
  BY <1>0, <1>1, OneTalksNext DEF WholeInv
<1>4. Measured' /\ WholeMessage'
  BY <1>0, <1>1, <1>2, SentNext DEF WholeInv, Measured, WholeMessage
<1>5. ASSUME ~overlap', Full' PROVE sent'[opened'.id] = Parts + 1 \/ Unheard'
  <2>1. ~overlap /\ Full /\ opened.id \in CanId
    BY <1>0, <1>1, <1>2, <1>5, SentNext DEF Full, WholeInv, BusInv, Announced
  <2>2. CASE Unheard
    <3>1. ASSUME NEW j \in CanId, j # opened.id PROVE lost' >= 1 + sent'[j]
      <4>1. sent'[j] <= sent[j] + 1
        BY <1>0, <1>1, SentNext
      <4>. QED
        BY <1>0, <1>2, <2>2, <3>1, <4>1, SendsType, <1>1 DEF Unheard
    <3>. QED
      BY <1>2, <3>1 DEF Unheard
  <2>3. CASE sent[opened.id] = Parts + 1 /\ i # opened.id
    BY <1>0, <1>1, <1>2, <2>1, <2>3, SentNext
  <2>4. CASE sent[opened.id] = Parts + 1 /\ i = opened.id
    <3>1. \A j \in CanId : j # i => sent[j] = 0
      BY <1>0, <2>1, <2>4 DEF WholeInv, OneTalks
    <3>2. \A j \in CanId : j # i => sent'[j] = 0
      BY <1>0, <1>1, <3>1, SentNext
    <3>. QED
      BY <1>0, <1>2, <2>4, <3>2 DEF Unheard
  <2>. QED
    BY <2>1, <2>2, <2>3, <2>4 DEF WholeInv, Owned
<1>6. Owned'
  BY <1>5 DEF Owned
<1>. QED
  BY <1>3, <1>4, <1>6

(* A frame that is appended fills the buffer only as the last part of the  *)
(* message that was opened.                                                *)
LEMMA AppendsFull ==
    ASSUME WholeInv, NEW i \in CanId, NEW f \in NextFrames(i), Sends(i, f),
           Appends(f), multiMode = 1
    PROVE  /\ Measured'
           /\ Full' => i = opened'.id /\ sent'[i] = Parts + 1
<1>0. /\ BusTypeOK /\ prefix \in 0 .. Parts /\ recvLength \in Nat
      /\ sent \in [CanId -> 0 .. Parts + 1] /\ Parts * Long \in Nat
  BY TotalIsNatural DEF WholeInv, BusInv, BusTypeOK
<1>1. /\ recvLength' = recvLength + Size(f)
      /\ UNCHANGED <<multiMode, totalLength, opened>>
      /\ \/ prefix' = prefix
         \/ /\ recvLength = prefix * Long /\ f.kind = "data"
            /\ opened = [id |-> f.id, turn |-> f.turn] /\ f.part = prefix + 1
            /\ prefix' = prefix + 1
  BY DEF Appends
<1>2. Size(f) \in Nat \ {0}
  BY <1>0, FrameOf
<1>3. CASE prefix' = prefix
  <2>1. prefix = Parts => recvLength' > Parts * Long
    BY <1>0, <1>1, <1>2 DEF WholeInv, Measured
  <2>. QED
    BY <1>0, <1>1, <1>2, <1>3, <2>1 DEF WholeInv, Measured, Full
<1>4. CASE /\ recvLength = prefix * Long /\ f.kind = "data"
           /\ opened = [id |-> f.id, turn |-> f.turn] /\ f.part = prefix + 1
           /\ prefix' = prefix + 1
  <2>1. f.id = i /\ f.part = sent[i] /\ Size(f) = Long
    BY <1>0, <1>4, FrameOf
  <2>2. sent'[i] = sent[i] + 1
    BY <1>0, <1>4, SentNext DEF Short
  <2>3. prefix' = Parts => recvLength' = Parts * Long
    <3>1. \A p \in Nat : (p + 1) * Long = p * Long + Long
      OBVIOUS
    <3>. QED
      BY <1>0, <1>1, <1>4, <2>1, <3>1
  <2>4. Measured'
    BY <1>0, <1>1, <2>3 DEF WholeInv, Measured
  <2>5. Full' => i = opened'.id /\ sent'[i] = Parts + 1
    BY <1>0, <1>1, <1>4, <2>1, <2>2 DEF Full
  <2>. QED
    BY <2>4, <2>5
<1>. QED
  BY <1>1, <1>3, <1>4

(* A message that is handed over is the one that its sender ends, unless   *)
(* more frames were lost.                                                  *)
LEMMA ClosesWhole ==
    ASSUME MaxLost < Parts + 2, WholeInv, NEW i \in CanId, NEW f \in NextFrames(i),
           Sends(i, f), Closes(f)
    PROVE  WholeMessage'
<1>0. /\ BusTypeOK /\ lost \in 0 .. MaxLost /\ opened.id \in CanId
      /\ sent \in [CanId -> 0 .. Parts + 1]
  BY DEF WholeInv, BusInv, BusTypeOK, Announced, Closes, EndsMessage
<1>1. /\ f.kind = "end" /\ multiMode = 1
      /\ \/ given' = Nothing
         \/ /\ recvLength = totalLength /\ prefix = Parts
            /\ given' = [kind |-> "message", id |-> f.id, of |-> opened.id,
                         length |-> recvLength]
  BY DEF Closes, EndsMessage, CrcMatches, Gives
<1>2. CASE given' = Nothing
  BY <1>2 DEF WholeMessage, Nothing, None
<1>3. CASE /\ recvLength = totalLength /\ prefix = Parts
           /\ given' = [kind |-> "message", id |-> f.id, of |-> opened.id,
                        length |-> recvLength]
  <2>1. Full /\ f.id = i /\ sent[i] = Parts + 1
    BY <1>0, <1>1, <1>3, FrameOf DEF Full, WholeInv, Measured
  <2>2. ASSUME ~overlap', opened.id # i PROVE FALSE
    <3>1. ~overlap
      BY <1>0, <2>2, SentNext
    <3>2. sent[opened.id] = 0
      BY <1>0, <2>1, <2>2, <3>1 DEF WholeInv, OneTalks
    <3>3. lost >= 1 + sent[i]
      BY <1>0, <2>1, <2>2, <3>1, <3>2 DEF WholeInv, Owned, Unheard
    <3>. QED
      BY <1>0, <2>1, <3>3
  <2>3. recvLength = Parts * Long
    BY <2>1 DEF Full
  <2>. QED
    BY <1>3, <2>1, <2>2, <2>3 DEF WholeMessage
<1>. QED
  BY <1>1, <1>2, <1>3

LEMMA ReceiveKeepsWhole ==
    ASSUME MaxLost < Parts + 2, WholeInv, NEW i \in CanId, Receive(i)
    PROVE  OneTalks' /\ Owned' /\ Measured' /\ WholeMessage'
<1>0. BusTypeOK /\ OneTalks
  BY DEF WholeInv, BusInv
<1>1. PICK f \in NextFrames(i) :
         Sends(i, f) /\ (Opens(f) \/ Closes(f) \/ Overruns(f) \/ Appends(f))
  BY DEF Receive
<1>2. OneTalks'
  BY <1>0, <1>1, OneTalksNext
<1>3. ASSUME Empty PROVE Owned' /\ Measured'
  BY <1>3 DEF Empty, Owned, Full, Measured
<1>4. ASSUME given' = Nothing PROVE WholeMessage'
  BY <1>4 DEF WholeMessage, Nothing, None
<1>5. CASE Opens(f)
  <2>1. multiMode' = 1 /\ totalLength' = Parts * Long /\ prefix' = 0 /\ given' = Nothing
    BY <1>5 DEF Opens
  <2>2. Owned' /\ Measured'
    BY <2>1 DEF Owned, Full, Measured
  <2>. QED
    BY <1>2, <1>4, <2>1, <2>2
<1>6. CASE Closes(f)
  BY <1>1, <1>2, <1>3, <1>6, ClosesWhole DEF Closes
<1>7. CASE Overruns(f)
  <2>1. WholeMessage'
    BY <1>7 DEF Overruns, Gives, WholeMessage
  <2>. QED
    BY <1>2, <1>3, <1>7, <2>1 DEF Overruns
<1>8. CASE Appends(f) /\ multiMode = 1
  <2>1. Measured' /\ (Full' => sent'[opened'.id] = Parts + 1)
    BY <1>1, <1>8, AppendsFull
  <2>2. given' = Nothing
    BY <1>8 DEF Appends
  <2>. QED
    BY <1>2, <1>4, <2>1, <2>2 DEF Owned
<1>9. CASE Appends(f) /\ multiMode # 1
  <2>1. PICK k \in {"frame", "piece"} : Empty /\ Gives(k, f, f.id, Size(f))
    BY <1>9 DEF Appends
  <2>2. WholeMessage'
    BY <2>1 DEF Gives, WholeMessage
  <2>. QED
    BY <1>2, <1>3, <2>1, <2>2
<1>. QED
  BY <1>1, <1>5, <1>6, <1>7, <1>8, <1>9

LEMMA IdleKeepsWhole ==
    ASSUME WholeInv, Idle \/ ReadError \/ UNCHANGED busVars
    PROVE  OneTalks' /\ Owned' /\ Measured' /\ WholeMessage'
<1>1. /\ UNCHANGED <<sent, turn, lost, overlap>>
      /\ UNCHANGED <<multiMode, recvLength, totalLength, opened, prefix>>
      /\ given' \in {given, Nothing}
  BY DEF Idle, ReadError, busVars, devices, joined
<1>2. OneTalks' /\ Owned' /\ Measured'
  BY <1>1 DEF WholeInv, OneTalks, Owned, Full, Unheard, Measured
<1>3. WholeMessage'
  BY <1>1 DEF WholeInv, WholeMessage, Nothing, None
<1>. QED
  BY <1>2, <1>3

(* Run joins the frames of all identifiers in one buffer and hands it over *)
(* under the identifier of the end frame.  As long as too few frames are   *)
(* lost to hide the whole message of another device, up to its end, what   *)
(* is handed over has the length announced and goes to its own sender.     *)
(* With Parts + 2 losses it may not.                                       *)
THEOREM MessagesAreWhole ==
    ASSUME MaxLost < Parts + 2
    PROVE  BusSpec => []WholeMessage
<1>1. BusInit => WholeInv
  <2> SUFFICES ASSUME BusInit PROVE WholeInv
    OBVIOUS
  <2>1. BusInv
    BY BusInitInv
  <2>2. OneTalks /\ Owned /\ Measured
    BY DEF BusInit, OneTalks, Owned, Full, Measured
  <2>3. WholeMessage
    BY DEF BusInit, WholeMessage, Nothing, None
  <2>. QED
    BY <2>1, <2>2, <2>3 DEF WholeInv
<1>2. WholeInv /\ [BusNext]_busVars => WholeInv'
  <2> SUFFICES ASSUME WholeInv, [BusNext]_busVars PROVE WholeInv'
    OBVIOUS
  <2>1. BusInv'
    BY BusStepInv DEF WholeInv
  <2>2. OneTalks' /\ Owned' /\ Measured' /\ WholeMessage'
    BY ReceiveKeepsWhole, LoseKeepsWhole, IdleKeepsWhole DEF BusNext
  <2>. QED
    BY <2>1, <2>2 DEF WholeInv
<1>3. WholeInv => WholeMessage
  BY DEF WholeInv
<1>. QED
  BY <1>1, <1>2, <1>3, PTL DEF BusSpec
=============================================================================
