--------------------------- MODULE SensorManager ---------------------------
(***************************************************************************)
(* The watch over the sensors (devices/canbus/AgvSensorManager.cpp, base   *)
(* class in AgvSensor.cpp).  On every ev100msTimer the main thread counts  *)
(* up a counter of each sensor and declares a sensor lost that reaches the *)
(* limit; the monitor thread resets the counter with every message.  No    *)
(* lock protects counter and flag: a step is one access to either.         *)
(*                                                                         *)
(* Sensors are numbered in the order of the passes over them.              *)
(***************************************************************************)
EXTENDS CanDevices, Naturals, FiniteSets

CONSTANTS
    NumSensors,         \* sensors in sensorList
    ES0_CANID,          \* the identifier whose messages every sensor gets
    RCanId,             \* RCanId[s]: the identifier sensor s listens to
    OfflineLimit        \* ticks without a message after which it is lost, 50

Sensor == 1 .. NumSensors

ASSUME NumAssumption == NumSensors \in Nat \ {0}
ASSUME IdAssumption == RCanId \in [Sensor -> CanId] /\ ES0_CANID \in CanId
ASSUME LimitAssumption == OfflineLimit \in Nat \ {0}

VARIABLES
    heartBeatCounter,   \* per sensor
    isAlive,            \* per sensor
    pc,                 \* where HandleEvent is
    sensor,             \* the sensor it is at
    counter,            \* its copy of that sensor's counter
    sensorNum,          \* sensors it has counted
    laseSensorNum,      \* its count of the last time
    told,               \* the last event posted to the car
    monitor,            \* what ParseData does next
    todo,               \* sensors that still get the message
    sends,              \* sends[i]: the device is connected
    silent              \* silent[s]: passes of HandleEvent over s since a message
                        \* of s came outside of such a pass, up to the limit

watch == <<pc, sensor, counter, sensorNum, laseSensorNum, told>>
vars == <<heartBeatCounter, isAlive, watch, monitor, todo, sends, silent>>

Online == "evSensorOnline"
Offline == "evSensorOffline"

TypeOK ==
    /\ heartBeatCounter \in [Sensor -> 0 .. OfflineLimit]
    /\ isAlive \in [Sensor -> BOOLEAN]
    /\ pc \in {"wait", "load", "store", "test", "reset", "lapse", "count", "tell"}
    /\ sensor \in Sensor
    /\ counter \in 0 .. OfflineLimit
    /\ sensorNum \in 0 .. NumSensors /\ laseSensorNum \in 0 .. NumSensors
    /\ told \in {"none", Online, Offline}
    /\ monitor \in {"read", "zero", "revive"}
    /\ todo \subseteq Sensor
    /\ sends \in [CanId -> BOOLEAN]
    /\ silent \in [Sensor -> 0 .. OfflineLimit]

(* InitAllSensors: every sensor starts as lost.                            *)
Init ==
    /\ heartBeatCounter = [s \in Sensor |-> 0]
    /\ isAlive = [s \in Sensor |-> FALSE]
    /\ pc = "wait" /\ sensor = 1 /\ counter = 0
    /\ sensorNum = 0 /\ laseSensorNum = 0
    /\ told = "none"
    /\ monitor = "read" /\ todo = {}
    /\ sends \in [CanId -> BOOLEAN]
    /\ silent = [s \in Sensor |-> 0]

-----------------------------------------------------------------------------
(* HandleEvent on ev100msTimer.                                            *)
Tick ==
    /\ pc = "wait"
    /\ pc' = "load" /\ sensor' = 1 /\ sensorNum' = 0
    /\ UNCHANGED <<heartBeatCounter, isAlive, counter, laseSensorNum, told,
                   monitor, todo, sends, silent>>

(* heartBeatCounter++ reads and writes.                                    *)
Load ==
    /\ pc = "load"
    /\ counter' = heartBeatCounter[sensor]
    /\ pc' = "store"
    /\ UNCHANGED <<heartBeatCounter, isAlive, sensor, sensorNum, laseSensorNum, told,
                   monitor, todo, sends, silent>>

Store ==
    /\ pc = "store"
    /\ counter' = counter + 1
    /\ heartBeatCounter' = [heartBeatCounter EXCEPT ![sensor] = counter + 1]
    /\ silent' = [silent EXCEPT ![sensor] = IF @ < OfflineLimit THEN @ + 1 ELSE @]
    /\ pc' = "test"
    /\ UNCHANGED <<isAlive, sensor, sensorNum, laseSensorNum, told, monitor, todo, sends>>

(* Slip: the limit itself does not count.                                  *)
Test_Late ==
    /\ pc = "test"
    /\ \E value \in {counter, heartBeatCounter[sensor]} :
         pc' = IF value > OfflineLimit THEN "reset" ELSE "count"
    /\ counter' = 0
    /\ UNCHANGED <<heartBeatCounter, isAlive, sensor, sensorNum, laseSensorNum,
                   told, monitor, todo, sends, silent>>

(* The compiler may compare the value it has just stored or read again.    *)
Test ==
    /\ pc = "test"
    /\ \E value \in {counter, heartBeatCounter[sensor]} :
         pc' = IF value >= OfflineLimit THEN "reset" ELSE "count"
    /\ counter' = 0
    /\ UNCHANGED <<heartBeatCounter, isAlive, sensor, sensorNum, laseSensorNum,
                   told, monitor, todo, sends, silent>>

Reset ==
    /\ pc = "reset"
    /\ heartBeatCounter' = [heartBeatCounter EXCEPT ![sensor] = 0]
    /\ pc' = "lapse"
    /\ UNCHANGED <<isAlive, sensor, counter, sensorNum, laseSensorNum, told,
                   monitor, todo, sends, silent>>

Lapse ==
    /\ pc = "lapse"
    /\ isAlive' = [isAlive EXCEPT ![sensor] = FALSE]
    /\ pc' = "count"
    /\ UNCHANGED <<heartBeatCounter, sensor, counter, sensorNum, laseSensorNum, told,
                   monitor, todo, sends, silent>>

Count ==
    /\ pc = "count"
    /\ sensorNum' = IF isAlive[sensor] THEN sensorNum + 1 ELSE sensorNum
    /\ IF sensor < NumSensors
       THEN sensor' = sensor + 1 /\ pc' = "load"
       ELSE pc' = "tell" /\ UNCHANGED sensor
    /\ UNCHANGED <<heartBeatCounter, isAlive, counter, laseSensorNum, told,
                   monitor, todo, sends, silent>>

(* Slip: the count is remembered only when the car is told of a loss.      *)
Tell_Forgets ==
    /\ pc = "tell"
    /\ IF laseSensorNum = sensorNum
       THEN UNCHANGED <<laseSensorNum, told>>
       ELSE IF sensorNum # NumSensors
            THEN told' = Offline /\ laseSensorNum' = sensorNum
            ELSE told' = Online /\ UNCHANGED laseSensorNum
    /\ pc' = "wait"
    /\ UNCHANGED <<heartBeatCounter, isAlive, sensor, counter, sensorNum,
                   monitor, todo, sends, silent>>

Tell ==
    /\ pc = "tell"
    /\ IF laseSensorNum = sensorNum
       THEN UNCHANGED <<laseSensorNum, told>>
       ELSE /\ laseSensorNum' = sensorNum
            /\ told' = IF sensorNum # NumSensors THEN Offline ELSE Online
    /\ pc' = "wait"
    /\ UNCHANGED <<heartBeatCounter, isAlive, sensor, counter, sensorNum,
                   monitor, todo, sends, silent>>

-----------------------------------------------------------------------------
(* The monitor thread: HandlerData hands a message to each sensor that     *)
(* listens to its identifier.                                              *)
HandlerData(i) ==
    /\ monitor = "read" /\ sends[i]
    /\ todo' = {s \in Sensor : RCanId[s] = i \/ i = ES0_CANID}
    /\ monitor' = IF todo' = {} THEN "read" ELSE "zero"
    /\ UNCHANGED <<heartBeatCounter, isAlive, watch, sends, silent>>

(* sensorList is sorted by address, which is any order.                    *)
First == CHOOSE s \in todo : TRUE

(* HandleEvent is between the first and the last access to s.              *)
AtSensor(s) == sensor = s /\ pc \in {"store", "test", "reset", "lapse"}

(* Slip: only the first message of a sensor that was lost resets it.       *)
Zero_Once ==
    /\ monitor = "zero"
    /\ heartBeatCounter' = [heartBeatCounter EXCEPT ![First] = IF isAlive[First] THEN @ ELSE 0]
    /\ silent' = IF AtSensor(First) THEN silent ELSE [silent EXCEPT ![First] = 0]
    /\ monitor' = "revive"
    /\ UNCHANGED <<isAlive, watch, todo, sends>>

(* ParseData.                                                              *)
Zero ==
    /\ monitor = "zero"
    /\ heartBeatCounter' = [heartBeatCounter EXCEPT ![First] = 0]
    /\ silent' = IF AtSensor(First) THEN silent ELSE [silent EXCEPT ![First] = 0]
    /\ monitor' = "revive"
    /\ UNCHANGED <<isAlive, watch, todo, sends>>

Revive ==
    /\ monitor = "revive"
    /\ isAlive' = [isAlive EXCEPT ![First] = TRUE]
    /\ todo' = todo \ {First}
    /\ monitor' = IF todo' = {} THEN "read" ELSE "zero"
    /\ UNCHANGED <<heartBeatCounter, watch, sends, silent>>

(* A device falls silent or comes back; the end of the monitor thread is   *)
(* the silence of all of them.                                             *)
Plug(i) ==
    /\ sends' = [sends EXCEPT ![i] = ~@]
    /\ UNCHANGED <<heartBeatCounter, isAlive, watch, monitor, todo, silent>>

HandleEvent == Tick \/ Load \/ Store \/ Test \/ Reset \/ Lapse \/ Count \/ Tell
ParseData == Zero \/ Revive

Next ==
    \/ HandleEvent \/ ParseData
    \/ \E i \in CanId : HandlerData(i) \/ Plug(i)

(* The main loop takes its timer events and the monitor finishes what it   *)
(* has begun.  How often devices send is not assumed.                      *)
Spec == Init /\ [][Next]_vars /\ WF_vars(HandleEvent) /\ WF_vars(ParseData)

-----------------------------------------------------------------------------
(* A sensor is declared lost only after OfflineLimit ticks without a       *)
(* message, whatever the two threads overwrite of each other's counter:    *)
(* only a message that comes in the very middle of a pass may go unseen.   *)
LostWasSilent ==
    [][\A s \in Sensor : isAlive[s] /\ ~isAlive'[s] => silent[s] = OfflineLimit]_vars

(* The inductive reason: no counter runs ahead of the silence it measures. *)
CounterIsSilence ==
    /\ \A s \in Sensor : heartBeatCounter[s] <= silent[s]
    /\ pc = "store" => counter <= silent[sensor]
    /\ pc = "test" => counter <= silent[sensor]
    /\ pc \in {"reset", "lapse"} => silent[sensor] = OfflineLimit

(* Once the car has heard of the sensors at all, it learns of a device     *)
(* that falls silent for good, and that all sensors are back for good.     *)
ReportsSettle ==
    /\ \A s \in Sensor :
         <>(told # "none") /\ <>[]~sends[RCanId[s]] /\ <>[]~sends[ES0_CANID]
            => <>[](told = Offline)
    /\ <>[](\A s \in Sensor : isAlive[s]) => <>[](told = Online)
=============================================================================
