------------------------------- MODULE AgvCar -------------------------------
(***************************************************************************)
(* The car as a whole: the main thread takes events from the three queues  *)
(* and runs CAgvCar::HandleEvent, the control thread drives to the target  *)
(* (CAgvCarControler::Run, CAgvMoveHelperForklift::LoopRunning), the CAN   *)
(* monitor thread follows the lifter, and the scheduler, the network, the  *)
(* operator's keys and the sensors post their events.                      *)
(*                                                                         *)
(* A handler is one step, and so is the arrival of the control thread.     *)
(* Posting and taking are the indivisible operations of EventBus, which    *)
(* EventQueue implements.                                                  *)
(*                                                                         *)
(* Init is the moment after evSysReady: network, position, lifter and      *)
(* operate mode are known, so isInitComplete holds from then on.           *)
(***************************************************************************)
EXTENDS CarOps

CONSTANTS
    Paths,              \* the routes the scheduler may send
    Inputs,             \* the events that come from outside the model
    SplitOutcomes,      \* whether SplitToSubTarget succeeds
    FaultCodes,         \* error codes of the motion functions
    LiftReports,        \* what the lifter's frames say besides the height
    IsAutoLoop,         \* settings of the same names
    IsStopCarForScheOffLine,
    MaxPaths,           \* bound: routes sent
    MaxInputs           \* bound: events of Inputs, and frames without a move

ASSUME PathsAssumption == Paths \subseteq Seq(WayPoint)
ASSUME InputsAssumption == Inputs \subseteq {e \in Event : e.ev # "evNextPathPoint"}
ASSUME ReportsAssumption == LiftReports \subseteq LiftStatus \ {LiftUnknown}
ASSUME OutcomesAssumption == SplitOutcomes \subseteq BOOLEAN /\ FaultCodes \subseteq Int
ASSUME SettingsAssumption == IsAutoLoop \in BOOLEAN /\ IsStopCarForScheOffLine \in BOOLEAN
ASSUME BoundsAssumption == MaxPaths \in Nat /\ MaxInputs \in Nat

VARIABLES
    car,            \* CarOps!Car
    queue,          \* queue[c]: events of priority c
    quiet,          \* priorities with an empty queue when the last handler returned
    stationList,    \* the scheduler's pathList.stationList, to which evGetNewPath points
    paths,          \* routes sent so far
    inputs          \* events of Inputs, and frames without a move, so far

vars == <<car, queue, quiet, stationList, paths, inputs>>

TypeOK ==
    /\ car \in Car
    /\ queue \in [Class -> Seq(Event)]
    /\ quiet \subseteq Class
    /\ stationList \in Seq(WayPoint)
    /\ paths \in 0 .. MaxPaths
    /\ inputs \in 0 .. MaxInputs

Init ==
    /\ \E mode \in {AutoMode, ManualMode} :
         car = [router |-> Boot(BlankDisk), operateMode |-> mode, status |-> StatusInit,
                currentPathAction |-> ActionRun, lastPathMag |-> NoTarget,
                lastLiftHeight |-> 0, target |-> NoTarget, runningMode |-> StopMode,
                carRunningMode |-> StopMode, height |-> 0, targetHeight |-> NoHeight,
                liftGoal |-> 0, liftStatus |-> LiftUnknown, charging |-> FALSE, reports |-> {}, posts |-> NoPosts]
    /\ queue = [c \in Class |-> << >>]
    /\ quiet = Class
    /\ stationList = << >>
    /\ paths = 0
    /\ inputs = 0

Enqueue(e) == queue' = [queue EXCEPT ![PriorityOf[e.ev]] = Append(@, e)]

Moving == car.runningMode # StopMode
Waiting(ev) == \E c \in Class : \E i \in 1 .. Len(queue[c]) : queue[c][i].ev = ev

-----------------------------------------------------------------------------
(* The main thread.  PopEvent takes the front of the most urgent queue     *)
(* that it saw to be non-empty: it looked at the queues one by one, so a   *)
(* more urgent event that came during the scan is overtaken.               *)
MayTake(c) ==
    /\ queue[c] # << >>
    /\ \A d \in Class : d > c => queue[d] = << >> \/ d \in quiet

Return(c, result) ==
    /\ car' = [result EXCEPT !.posts = NoPosts]
    /\ queue' = [d \in Class |-> (IF d = c THEN Tail(queue[d]) ELSE queue[d]) \o result.posts[d]]
    /\ quiet' = {d \in Class : queue'[d] = << >>}
    /\ UNCHANGED <<stationList, paths, inputs>>

(* The handlers that dereference GetTargetStation.  Without a target they  *)
(* end the process, which is no step here.                                 *)
NeedsTarget(e) ==
    \/ e.ev = "evNextPathPoint"
    \/ e.ev = "evLiftArrived" /\ car.currentPathAction = ActionLiftUpDown

Ready(c) == MayTake(c) /\ (NeedsTarget(Head(queue[c])) => HasTarget(car.router))

(* The next event of queue c is an event `ev`.                             *)
Takes(c, ev) == Ready(c) /\ Head(queue[c]).ev = ev

InAuto == car.operateMode = AutoMode

KeyStart(c, splits) ==
    /\ Takes(c, "evKeyStart")
    /\ Return(c, IF InAuto THEN StartRun(car, splits) ELSE car)

ApplyPath(c, splits) ==
    /\ Takes(c, "evApplyPath")
    /\ Return(c, IF InAuto THEN StartRun(car, splits) ELSE car)

KeyStop(c) ==
    /\ Takes(c, "evKeyStop")
    /\ Return(c, IF InAuto THEN StopCar(car) ELSE car)

UrgentStop(c) ==
    /\ Takes(c, "evUrgentStop")
    /\ Return(c, SetCarStatus(car, StatusError))

(* The planner starts over; SetOperateMode tells the control thread.       *)
KeyAutoMode(c) ==
    /\ Takes(c, "evKeyAutoMode")
    /\ Return(c, IF InAuto THEN car
                 ELSE [ControlerStop(SetCarStatus(car, StatusNormal)) EXCEPT
                         !.operateMode = AutoMode, !.charging = FALSE, !.reports = {},
                         !.router = ReloadPathList(@, TRUE)])

KeyManualMode(c) ==
    /\ Takes(c, "evKeyManualMode")
    /\ Return(c, IF ~InAuto THEN car
                 ELSE SetCarStatus([car EXCEPT !.operateMode = ManualMode, !.charging = FALSE,
                                               !.router = CleanLastStationPoint(@)],
                                   StatusStopped))

(* The event holds a pointer to the scheduler's list, which may have been  *)
(* filled again since.                                                     *)
GetNewPath(c) ==
    LET r == [car EXCEPT !.router = OnGetNewPath(@, stationList, TRUE), !.reports = {}]
    IN /\ Takes(c, "evGetNewPath")
       /\ Return(c, IF stationList = << >> THEN r
                    ELSE SetCarStatus(Post(r, "evApplyPath", 0), StatusStopped))

NextPathPoint(c, splits) ==
    /\ Takes(c, "evNextPathPoint")
    /\ Return(c, OnArrivedStation(car, splits))

PathMagError(c) ==
    /\ Takes(c, "evPathMagError")
    /\ Return(c, IF Head(queue[c]).param = -5 THEN StopCar(car)
                 ELSE SetCarStatus(StopCar(car), StatusError))

PathFinished(c) ==
    LET r == [SetCarStatus(StopCar(car), StatusNormal) EXCEPT
                !.router = ReloadPathList(@, TRUE), !.reports = {}]
    IN /\ Takes(c, "evPathFinished")
       /\ Return(c, IF IsAutoLoop THEN Post(r, "evKeyStart", 0) ELSE r)

LiftArrived(c, splits) ==
    /\ Takes(c, "evLiftArrived")
    /\ Return(c, OnLiftArrivedHeight(car, splits))

(* CAgvRoutePlanner::Start.                                                *)
NetworkOK(c) ==
    /\ Takes(c, "evNetworkOK")
    /\ Return(c, [car EXCEPT !.router = loadPathInfo(@, TRUE), !.reports = {}])

SchedulerOffline(c) ==
    /\ Takes(c, "evSchedulerOffline")
    /\ Return(c, IF IsStopCarForScheOffLine THEN StopCar(car) ELSE car)

Charge(c, ev, on) ==
    /\ Takes(c, ev)
    /\ Return(c, IF ~InAuto \/ Head(queue[c]).param = 1
                 THEN [StopCar(car) EXCEPT !.charging = on] ELSE car)

(* The tick at which IsLidarOK finds that the position stands still.       *)
Lidar(c) ==
    /\ Takes(c, "ev10msTimer")
    /\ Return(c, Post(ControlerStop(car), "evLostPosition", 0))

LostPosition(c) ==
    /\ Takes(c, "evLostPosition")
    /\ Return(c, SetCarStatus(car, StatusError))

(* The tick at which the battery alarm is due.                             *)
LowBattery(c) ==
    /\ Takes(c, "ev1sTimer")
    /\ Return(c, SetCarStatus(car, StatusLowPower))

(* Only an error flag is set, and shown.                                   *)
SensorOffline(c) ==
    /\ Takes(c, "evSensorOffline")
    /\ Return(c, car)

HandleEvent(c) ==
    \/ KeyStop(c) \/ UrgentStop(c) \/ KeyAutoMode(c) \/ KeyManualMode(c)
    \/ GetNewPath(c) \/ PathMagError(c) \/ PathFinished(c) \/ NetworkOK(c)
    \/ SchedulerOffline(c) \/ Charge(c, "evTurnOnCharge", TRUE)
    \/ Charge(c, "evTurnOffCharge", FALSE)
    \/ Lidar(c) \/ LostPosition(c) \/ LowBattery(c) \/ SensorOffline(c)
    \/ \E splits \in SplitOutcomes :
         KeyStart(c, splits) \/ ApplyPath(c, splits)
           \/ NextPathPoint(c, splits) \/ LiftArrived(c, splits)

-----------------------------------------------------------------------------
(* The control thread, which pauses in manual mode.                        *)
Arrive ==
    /\ InAuto /\ Moving
    /\ car' = [car EXCEPT !.runningMode = StopMode]
    /\ Enqueue([ev |-> "evNextPathPoint", param |-> car.target.station])
    /\ UNCHANGED <<quiet, stationList, paths, inputs>>

(* Bound: one fault is posted at a time; the code repeats it in each loop. *)
MoveFault(code) ==
    /\ InAuto /\ Moving /\ ~Waiting("evPathMagError")
    /\ Enqueue([ev |-> "evPathMagError", param |-> code])
    /\ UNCHANGED <<car, quiet, stationList, paths, inputs>>

(* Run, while the wheels have not come to rest after ClearTarget: it stops *)
(* the car again, which samples the lift height again.                     *)
StopAgain ==
    /\ InAuto /\ car.carRunningMode = StopMode
    /\ car.lastLiftHeight # car.height
    /\ car' = ControlerStop(car)
    /\ UNCHANGED <<queue, quiet, stationList, paths, inputs>>

(* The CAN monitor thread: the fork moves towards the commanded height, or *)
(* only its status changes.                                                *)
Frame(h, lstatus) ==
    LET r == LifterFrame(car, h, lstatus)
    IN /\ car' = [r EXCEPT !.posts = NoPosts]
       /\ queue' = [c \in Class |-> queue[c] \o r.posts[c]]
       /\ UNCHANGED <<quiet, stationList, paths>>

LifterMoves ==
    /\ car.height # car.liftGoal
    /\ \E lstatus \in LiftReports :
         Frame(IF car.height < car.liftGoal THEN car.height + 1 ELSE car.height - 1, lstatus)
    /\ UNCHANGED inputs

LifterReports(lstatus) ==
    /\ lstatus # car.liftStatus
    /\ inputs < MaxInputs
    /\ inputs' = inputs + 1
    /\ Frame(car.height, lstatus)

(* The scheduler's thread: unPackData fills the list before the event goes.*)
SendPath(points) ==
    /\ paths < MaxPaths
    /\ paths' = paths + 1
    /\ stationList' = points
    /\ Enqueue([ev |-> "evGetNewPath", param |-> Len(points)])
    /\ UNCHANGED <<car, quiet, inputs>>

Input(e) ==
    /\ inputs < MaxInputs
    /\ inputs' = inputs + 1
    /\ Enqueue(e)
    /\ UNCHANGED <<car, quiet, stationList, paths>>

Main == \E c \in Class : HandleEvent(c)

Next ==
    \/ Main
    \/ Arrive
    \/ \E code \in FaultCodes : MoveFault(code)
    \/ StopAgain
    \/ LifterMoves
    \/ \E lstatus \in LiftReports : LifterReports(lstatus)
    \/ \E points \in Paths : SendPath(points)
    \/ \E e \in Inputs : Input(e)

(* The main loop always takes a next event; a car that is under way        *)
(* arrives and a fork reaches its height unless they are told otherwise.   *)
(* The first conjunct is WF_vars(Main) with ENABLED Main spelled out.      *)
Fairness ==
    /\ []<>(\A c \in Class : ~Ready(c)) \/ []<><<Main>>_vars
    /\ WF_vars(Arrive)
    /\ WF_vars(LifterMoves)

Spec == Init /\ [][Next]_vars
FairSpec == Spec /\ Fairness

-----------------------------------------------------------------------------
(* A car whose status says that it stands still has no target to drive to, *)
(* whichever handlers, retries and faults led to the status.               *)
HaltedCarStands == car.status \in {StatusStopped, StatusError, StatusNormal} => ~Moving

(* A car whose status says that it runs is never stuck: it drives, or an   *)
(* event waits that leads on, although StartRun ignores what               *)
(* ResetLastTargetStation returns and points may be refused.  An action    *)
(* DoPathPointAction does not know is the exception: it never ends.        *)
Leading == {"evNextPathPoint", "evPathMagError", "evPathFinished", "evLostPosition"}
RunningCarRuns ==
    car.status = StatusRunning =>
        Moving \/ (\E ev \in Leading : Waiting(ev)) \/ car.currentPathAction > ActionCharge

(* The planner and the move helper agree: the station driven to is the     *)
(* planner's target, across new routes, reloads, resumed targets and       *)
(* points that were passed over; or else the error that stops the car      *)
(* waits to be handled.  There are two exceptions.  GetNewPath takes the   *)
(* route from under a car that goes on driving, when the new one is empty. *)
(* And while the planner's target is a point that GoToNextPoint refused    *)
(* (the directions 0x03 and 0x04 of the protocol, AgvCar.cpp:955), a start *)
(* that resumes the route (AgvCar.cpp:120) drives to the last target that  *)
(* was accepted.                                                           *)
DrivesToTarget ==
    Moving /\ ~Waiting("evPathMagError") /\ PathCount(car.router) > 0 =>
        /\ HasTarget(car.router)
        /\ IF CanDrive(GetTargetStation(car.router))
           THEN car.target.station = GetTargetStation(car.router).id
           ELSE car.target = car.lastPathMag

(* A route that is being driven is finished, without operator and in spite *)
(* of network flaps, whatever its points ask for.                          *)
RouteFinishes == Moving ~> car.status = StatusNormal
=============================================================================
