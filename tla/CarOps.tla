------------------------------- MODULE CarOps -------------------------------
(***************************************************************************)
(* CAgvCar (controler/AgvCar.cpp) and the objects it calls from the main   *)
(* thread: the route planner (RouteOps), CAgvCarControler, the move helper *)
(* and the lifter.  A car is a record                                      *)
(*                                                                         *)
(*   router             the planner                                        *)
(*   operateMode, status, currentPathAction      of CAgvCar                *)
(*   lastPathMag, lastLiftHeight                 of CAgvCarControler       *)
(*   target             targetPoint of the move helper                     *)
(*   runningMode        StopMode unless LoopRunning drives to the target   *)
(*   carRunningMode     what GetRunningMode returns; it survives arrival   *)
(*   height             currentHeight of the lifter, from its CAN frames   *)
(*   targetHeight       the height whose arrival the lifter announces      *)
(*   liftGoal           the last height commanded on the CAN bus           *)
(*   liftStatus         where the lifter's frames say it is                *)
(*   charging           the charge switch                                  *)
(*   reports            task status reports of the current route           *)
(*   posts              events the running handler has posted, by priority *)
(*                                                                         *)
(* and there is an operator for each method.  Sound, lights, the screen    *)
(* and the telemetry of UpdateCarInfo are left out.  So is the barrier     *)
(* logic: CAgvBarrierSensor sends no barrier event in this build, and      *)
(* StartRun repeats one only after another.  SplitToSubTarget's verdict on *)
(* the geometry of a target is the parameter `splits`.                     *)
(***************************************************************************)
EXTENDS RouteOps

CONSTANT Tolerance      \* the lifter has arrived when it is nearer than this

ASSUME ToleranceAssumption == Tolerance \in Nat \ {0}

(* enum OperateMode, enum CarStatus (the statuses this build assigns)      *)
AutoMode == "AutoMode"
ManualMode == "ManualMode"

StatusInit == "StatusInit"
StatusNormal == "StatusNormal"
StatusRunning == "StatusRunning"
StatusStopped == "StatusStopped"
StatusError == "StatusError"
StatusLowPower == "StatusLowPower"
Status == {StatusInit, StatusNormal, StatusRunning, StatusStopped, StatusError, StatusLowPower}

RunModes == {GoForwardMode, GoBackwardMode, RotateLeftMode, RotateRightMode}

(* enum LiftStatus of CAgvLifter                                           *)
LiftUnknown == "UnKnown"
LiftMoving == "Moving"
AtBottom == "AtBottom"
AtTop == "AtTop"
LiftStatus == {LiftUnknown, LiftMoving, AtBottom, AtTop}

NoTarget == [station |-> 0, mode |-> StopMode, action |-> ActionRun]
Target == [station : Nat, mode : Nat, action : Nat]

(* Events, with the priority their senders give them.                      *)
Normal == 0
Important == 1
Urgent == 2
Class == {Normal, Important, Urgent}

PriorityOf ==
    [evNetworkOK |-> Normal, evKeyAutoMode |-> Normal, evKeyManualMode |-> Normal,
     evKeyStart |-> Normal, evApplyPath |-> Normal, evLiftArrived |-> Normal,
     evTurnOnCharge |-> Normal, ev10msTimer |-> Normal,
     ev1sTimer |-> Important, evSchedulerOffline |-> Important, evGetNewPath |-> Important,
     evNextPathPoint |-> Important, evPathMagError |-> Important, evPathFinished |-> Important,
     evKeyStop |-> Urgent, evUrgentStop |-> Urgent, evTurnOffCharge |-> Urgent,
     evLostPosition |-> Urgent, evSensorOffline |-> Urgent]

Event == [ev : DOMAIN PriorityOf, param : Int]

Car ==
    [router : Planner, operateMode : {AutoMode, ManualMode}, status : Status,
     currentPathAction : Nat, lastPathMag : Target, lastLiftHeight : Nat,
     target : Target, runningMode : Nat, carRunningMode : Nat,
     height : Nat, targetHeight : Int, liftGoal : Nat, liftStatus : LiftStatus,
     charging : BOOLEAN, reports : SUBSET (Nat \X {1, 2}), posts : [Class -> Seq(Event)]]

NoPosts == [c \in Class |-> << >>]

Post(c, ev, param) ==
    [c EXCEPT !.posts[PriorityOf[ev]] = Append(@, [ev |-> ev, param |-> param])]

-----------------------------------------------------------------------------
(* CAgvLifter, as CAgvCar uses it.                                         *)
Near(a, b) == a - b < Tolerance /\ b - a < Tolerance
LiftIsArrived(c, h) == Near(h, c.height)

(* SetLiftHeight: any other height is not sent, and routes here stay below *)
(* the 3000 mm above which the code drops a command.                       *)
SetLiftHeight(c, h) == IF h >= 0 THEN [c EXCEPT !.liftGoal = h] ELSE c

(* A frame of the lifter controller: a height that changed is compared     *)
(* with the target height, not with the one commanded; and coming to the   *)
(* top counts as an arrival at any height.  Nobody handles evLiftAtBottom. *)
LifterFrame(c, h, lstatus) ==
    LET d == [c EXCEPT !.height = h, !.liftStatus = lstatus]
        e == IF h # c.height /\ d.targetHeight >= 0 /\ LiftIsArrived(d, d.targetHeight)
             THEN Post(d, "evLiftArrived", d.targetHeight) ELSE d
    IN IF lstatus = AtTop /\ c.liftStatus # AtTop
       THEN Post(e, "evLiftArrived", e.targetHeight) ELSE e

(* CAgvMoveHelperForklift::ClearTarget and CAgvCarControler::StopCar.      *)
ClearTarget(c) == [c EXCEPT !.runningMode = StopMode, !.carRunningMode = StopMode]
(* Slip: the height that was asked for in place of the current one.        *)
ControlerStop_TargetHeight(c) == ClearTarget([c EXCEPT !.lastLiftHeight = c.targetHeight])

ControlerStop(c) == ClearTarget([c EXCEPT !.lastLiftHeight = c.height])

(* CAgvMoveHelperForklift::SetTarget.  When the path cannot be split,      *)
(* targetPoint and runningMode stay as they were.  needStop and the        *)
(* sub-targets belong to the motion, not to the protocol.                  *)
SetTarget(c, t, splits) ==
    LET d == [c EXCEPT !.carRunningMode = t.mode]
    IN IF t.mode \in {GoForwardMode, GoBackwardMode} /\ ~splits
       THEN [car |-> Post(d, "evPathMagError", 0), ret |-> -1]
       ELSE [car |-> [d EXCEPT !.target = t, !.runningMode = t.mode], ret |-> 0]

(* Slip: a target that fails is not remembered.                            *)
SetTargetStation_Late(c, t, splits) ==
    LET go == SetTarget(c, t, splits)
    IN IF go.ret = 0 THEN [go EXCEPT !.car.lastPathMag = t] ELSE go

(* CAgvCarControler::SetTargetStation and ResetLastTargetStation.          *)
SetTargetStation(c, t, splits) == SetTarget([c EXCEPT !.lastPathMag = t], t, splits)

ResetLastTargetStation(c, splits) ==
    IF c.lastPathMag.station = 0 THEN c ELSE SetTarget(c, c.lastPathMag, splits).car

-----------------------------------------------------------------------------
(* Slip: the error status does not stop the car.                           *)
SetCarStatus_ErrorDrives(c, status) ==
    LET d == [c EXCEPT !.status = status]
    IN IF status = StatusStopped /\ c.status # StatusStopped THEN ControlerStop(d) ELSE d

(* SetCarStatus: the same status again has no effect, except for three.    *)
SetCarStatus(c, status) ==
    LET d == [c EXCEPT !.status = status]
    IN IF status = StatusError \/ (status = StatusStopped /\ c.status # StatusStopped)
       THEN ControlerStop(d) ELSE d

StopCar(c) == SetCarStatus(c, StatusStopped)

-----------------------------------------------------------------------------
(* GoToNextPoint, in the order of its parts.                               *)
Target0(p) == GetTargetStation(p)
Ahead(p) == p.list[p.targetPathId + 2]      \* the point LookAhead sees
Rewrite(p, f) == [p EXCEPT !.list[p.targetPathId + 1] = [Target0(p) EXCEPT !.action = f]]

(* A point is passed over when the next one is straight ahead.             *)
WhetherJumpCurPoint(p) ==
    /\ CanMoveNext(p)
    /\ Ahead(p).action # ActionCharge
    /\ Ahead(p).runMode = Target0(p).runMode
    /\ ~(Ahead(p).action = ActionLiftUpDown /\ Ahead(p).runMode = GoBackwardMode)
    /\ "inLine" \in Ahead(p).align
    /\ Target0(p).action # ActionLiftUpDown

(* Its height goes along, unless the two points want different ones.       *)
TakeHeight(q, here) ==
    LET next == Target0(q).liftHeight
    IN IF here >= 0 /\ next >= 0 /\ here # next THEN MoveToLastStation(q)
       ELSE IF here >= 0 /\ next < 0
            THEN [q EXCEPT !.list[q.targetPathId + 1] = [Target0(q) EXCEPT !.liftHeight = here]]
            ELSE q

PassOver(p) ==
    IF WhetherJumpCurPoint(p)
    THEN TakeHeight(MoveToNextStation(LookAhead(p)), Target0(p).liftHeight)
    ELSE LookAhead(p)

ChoosePoint(p, isfirst) == IF isfirst THEN LookAhead(p) ELSE PassOver(MoveToNextStation(p))

(* A point that is run through becomes a stop at the end of the route and  *)
(* where the direction changes.                                            *)
StopAtTurn(p) ==
    IF Target0(p).action # ActionRun THEN p
    ELSE LET q == LookAhead(p)
         IN IF ~CanMoveNext(p) \/ Ahead(p).runMode # Target0(p).runMode
            THEN Rewrite(q, ActionStop) ELSE q

(* GetRunAction.                                                           *)
NoSpeedDown(p) == "longLeg" \in Ahead(p).align /\ Ahead(p).runMode = Target0(p).runMode
RunAction(p) ==
    IF ~CanMoveNext(p) THEN Target0(p).action
    ELSE IF Ahead(p).action = ActionLiftUpDown THEN ActionStop
    ELSE IF Ahead(p).action = ActionCharge \/ (Target0(p).action = ActionRun /\ ~NoSpeedDown(p))
         THEN ActionSpeedDown
    ELSE Target0(p).action
GetRunAction(p) == Rewrite(LookAhead(p), RunAction(p))

(* The fork starts on its way to the height of a point without a lift      *)
(* action, which becomes one.                                              *)
PresetLift(c) ==
    LET t == Target0(c.router)
        h == t.liftHeight
        d == [c EXCEPT !.targetHeight = h]
        e == IF LiftIsArrived(c, h) THEN d ELSE SetLiftHeight(d, h)
    IN IF t.action = ActionLiftUpDown \/ h < 0 THEN d
       ELSE [e EXCEPT !.router = Rewrite(c.router, ActionLiftUpDown)]

(* The directions that GoToNextPoint knows, and a rotation by an angle.    *)
CanDrive(t) ==
    /\ t.runMode \in RunModes
    /\ t.runMode \in {RotateLeftMode, RotateRightMode} => "negative" \notin t.align

(* A point that is refused is not remembered as the last target.           *)
DriveTo(c, t, splits) ==
    IF ~CanDrive(t) THEN [car |-> c, ret |-> -1]
    ELSE SetTargetStation(c, [station |-> t.id, mode |-> t.runMode, action |-> t.action], splits)

Drive(c, splits) == DriveTo(c, Target0(c.router), splits)

GoToNextPoint(c, isfirst, splits) ==
    IF ~isfirst /\ ~CanMoveNext(c.router)
    THEN [car |-> [c EXCEPT !.router = MoveToNextStation(@)], ret |-> 1]
    ELSE LET d == PresetLift([c EXCEPT !.router = StopAtTurn(ChoosePoint(@, isfirst))])
         IN Drive([d EXCEPT !.router = GetRunAction(@)], splits)

-----------------------------------------------------------------------------
(* OnStationActionFinished.                                                *)
GoOn(go) ==
    IF go.ret = 1 THEN Post(go.car, "evPathFinished", 0)
    ELSE IF go.ret = -1 THEN Post(go.car, "evPathMagError", 0)
    ELSE SetCarStatus(go.car, StatusRunning)

OnStationActionFinished(c, splits) ==
    LET done == [c EXCEPT !.router = OnActionFinished(@),
                          !.reports = @ \cup TaskReport(c.router, c.lastLiftHeight),
                          !.currentPathAction = ActionRun]
    IN IF ActionFinished(c.router) THEN c ELSE GoOn(GoToNextPoint(done, FALSE, splits))

(* Slip: the fork is always waited for, at its height or not.              *)
OnArrivedStation_AlwaysWaits(c, splits) ==
    LET t == Target0(c.router)
        d == [c EXCEPT !.currentPathAction = t.action]
    IN IF t.action = ActionLiftUpDown THEN SetLiftHeight(StopCar(d), t.liftHeight)
       ELSE OnStationActionFinished(IF t.action = ActionRun THEN d ELSE StopCar(d), splits)

(* OnArrivedStation, with DoPathPointAction: a lift that has yet to reach  *)
(* its height postpones the end of the action, an unknown action for ever. *)
OnArrivedStation(c, splits) ==
    LET t == Target0(c.router)
        d == [c EXCEPT !.currentPathAction = t.action]
        s == IF t.action \in {ActionStop, ActionLiftUpDown, ActionCharge} THEN StopCar(d) ELSE d
    IN CASE t.action = ActionLiftUpDown /\ ~LiftIsArrived(s, t.liftHeight)
                -> SetLiftHeight(s, t.liftHeight)
         [] t.action > ActionCharge -> s
         [] t.action = ActionCharge
                -> OnStationActionFinished([s EXCEPT !.charging = TRUE], splits)
         [] OTHER -> OnStationActionFinished(s, splits)

OnLiftArrivedHeight(c, splits) ==
    IF c.currentPathAction = ActionLiftUpDown THEN OnStationActionFinished(c, splits) ELSE c

(* StartRun.  Without a route it asks the scheduler for one.               *)
GoFirst(go) ==
    IF go.ret # 0 THEN Post(go.car, "evPathMagError", 0) ELSE SetCarStatus(go.car, StatusRunning)

(* Slip: a route is resumed without its target.                            *)
StartRun_NoTarget(c, splits) ==
    IF PathCount(c.router) = 0 THEN c
    ELSE IF c.router.targetPathId = 0 THEN GoFirst(GoToNextPoint(c, TRUE, splits))
    ELSE SetCarStatus(c, StatusRunning)

StartRun(c, splits) ==
    IF PathCount(c.router) = 0 THEN c
    ELSE IF c.router.targetPathId = 0 THEN GoFirst(GoToNextPoint(c, TRUE, splits))
    ELSE SetCarStatus(ResetLastTargetStation(c, splits), StatusRunning)
=============================================================================
