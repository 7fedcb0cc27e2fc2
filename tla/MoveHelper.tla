----------------------------- MODULE MoveHelper -----------------------------
(***************************************************************************)
(* CAgvMoveHelperForklift and CAgvCarControler::Run.  The main thread sets *)
(* and clears targets, the control thread drives to them, and the two      *)
(* share their fields without a lock.  A step is what a thread does        *)
(* between two places where the other could notice: single writes of       *)
(* SetTarget, the sleeps of the motion functions and of the end of a       *)
(* target, commands on the CAN bus.                                        *)
(*                                                                         *)
(* The geometry of a leg is reduced to the outcomes of its motion          *)
(* function: start, go on, arrive, refuse.  Wheels have a speed of 0       *)
(* (stand), 1 (each start) or 2 (faster); steering, acceleration, the      *)
(* poses and SetEnable are left out, and commands reach the bus.           *)
(***************************************************************************)
EXTENDS TargetActions, Integers, Sequences

CONSTANTS
    Targets,        \* what the car may ask for: [station, mode, action]
    Plans,          \* the run modes of the legs SplitToSubTarget may choose for a mode
    MaxCalls        \* bound: calls of the main thread

StopMode == 0
GoForwardMode == 1
GoBackwardMode == 2
RotateLeftMode == 5
RotateRightMode == 6
ForwardToArcMode == 7
BackwardToArcMode == 8
Straight == {GoForwardMode, GoBackwardMode}
Rotation == {RotateLeftMode, RotateRightMode}
Arcs == {ForwardToArcMode, BackwardToArcMode}
LegModes == Straight \cup Rotation \cup Arcs

AutoMode == "AutoMode"
ManualMode == "ManualMode"

Target == [station : Nat, mode : Straight \cup Rotation, action : Nat]

ASSUME TargetsAssumption == Targets \subseteq Target
ASSUME PlansAssumption == Plans \in [Straight \cup Rotation -> SUBSET Seq(LegModes)]
ASSUME CallsAssumption == MaxCalls \in Nat

VARIABLES
    operateMode, isRunning, runningMode, carRunningMode, initParaFlag,
    targetPoint, subpath, pathIndex,
    command,        \* the last speed sent to the drive
    brake,          \* the last brake command sent
    speed,          \* the speed the drive last reported
    main,           \* where the main thread is; its target and brake argument
    setting, braking,
    control,        \* where the control thread is; the mode of its motion function
    mode,
    fault,          \* evPathMagError waits for the main thread
    calls,          \* history: calls of the main thread
    owed,           \* history: targets given to the control thread less arrivals posted
    awaited         \* history: the last call was a SetTarget that found the car Settled,
                    \* its arrival was not posted and the speed of no start withheld

shared == <<operateMode, isRunning, runningMode, carRunningMode, initParaFlag>>
path == <<targetPoint, subpath, pathIndex>>
drive == <<command, brake>>
mains == <<main, setting, braking, calls, owed, awaited>>
controls == <<control, mode>>
vars == <<shared, path, drive, speed, mains, controls, fault>>

NoTarget == [station |-> 0, mode |-> StopMode, action |-> ActionRun]
Speeds == 0 .. 2

TypeOK ==
    /\ operateMode \in {AutoMode, ManualMode}
    /\ isRunning \in BOOLEAN /\ initParaFlag \in BOOLEAN
    /\ runningMode \in LegModes \cup {StopMode}
    /\ carRunningMode \in LegModes \cup {StopMode}
    /\ targetPoint \in Targets \cup {NoTarget}
    /\ subpath \in Seq(LegModes) /\ pathIndex \in Nat
    /\ command \in Speeds /\ brake \in BOOLEAN /\ speed \in Speeds
    /\ main \in {"idle", "split", "point", "mode", "run", "init", "halt"}
    /\ setting \in Targets \cup {NoTarget} /\ braking \in BOOLEAN
    /\ control \in {"top", "loop", "switch", "motion", "steered", "flag", "rotated",
                    "advance", "next", "finish", "brake", "end", "announce",
                    "check", "stop", "halt"}
    /\ mode \in LegModes \cup {StopMode}
    /\ fault \in BOOLEAN
    /\ calls \in 0 .. MaxCalls /\ owed \in Int /\ awaited \in BOOLEAN

(* The car has been put in automatic mode, which brakes it; the mode the   *)
(* program starts in pauses the thread like ManualMode.                    *)
Init ==
    /\ operateMode = AutoMode
    /\ isRunning = FALSE /\ initParaFlag = FALSE
    /\ runningMode = StopMode /\ carRunningMode = StopMode
    /\ targetPoint = NoTarget /\ subpath = << >> /\ pathIndex = 0
    /\ command = 0 /\ brake = TRUE /\ speed = 0
    /\ main = "idle" /\ setting = NoTarget /\ braking = FALSE
    /\ control = "top" /\ mode = StopMode
    /\ fault = FALSE /\ calls = 0 /\ owed = 0 /\ awaited = FALSE

-----------------------------------------------------------------------------
(* The drive: CAgvControler.  A speed equal to the one last reported is    *)
(* not sent.                                                               *)
SetSpeed(v) == command' = IF v = speed THEN command ELSE v

(* CAgvSteeringBaseControler::StopCar.                                     *)
BaseStop(enbraker) ==
    /\ SetSpeed(0)
    /\ brake' = (enbraker \/ brake)

(* The drive reports how fast the wheels turn; the brake stops them.       *)
Turning == IF brake THEN 0 ELSE command
Feedback ==
    /\ speed # Turning
    /\ speed' = Turning
    /\ UNCHANGED <<shared, path, drive, mains, controls, fault>>

(* The leg of an index; a cleared subpath holds StopMode.                  *)
Leg(i) == IF i + 1 \in DOMAIN subpath THEN subpath[i + 1] ELSE StopMode

ClearTarget ==
    /\ isRunning' = FALSE
    /\ runningMode' = StopMode
    /\ initParaFlag' = FALSE
    /\ carRunningMode' = StopMode

-----------------------------------------------------------------------------
(* The main thread: SetTarget.                                             *)
MainTo(from, to) == main = from /\ main' = to

Settled ==
    /\ operateMode = AutoMode /\ ~fault
    /\ runningMode = StopMode
    /\ control \in {"top", "loop", "switch", "check"}

Call(to) ==
    /\ MainTo("idle", to)
    /\ calls < MaxCalls
    /\ calls' = calls + 1
    /\ awaited' = (to = "split" /\ Settled)

SetTarget_swapped(t) ==
    /\ Call("split")
    /\ carRunningMode' = t.action
    /\ setting' = t
    /\ subpath' = << >>
    /\ UNCHANGED <<operateMode, isRunning, runningMode, initParaFlag, targetPoint, pathIndex,
                   drive, speed, braking, owed, controls, fault>>

SetTarget(t) ==
    /\ Call("split")
    /\ carRunningMode' = t.mode
    /\ setting' = t
    /\ subpath' = << >>
    /\ UNCHANGED <<operateMode, isRunning, runningMode, initParaFlag, targetPoint, pathIndex,
                   drive, speed, braking, owed, controls, fault>>

Split ==
    /\ MainTo("split", "point")
    /\ subpath' \in Plans[setting.mode]
    /\ UNCHANGED <<shared, targetPoint, pathIndex, drive, speed,
                   setting, braking, calls, owed, awaited, controls, fault>>

(* A rotation is not split.                                                *)
SplitFails ==
    /\ MainTo("split", "idle")
    /\ setting.mode \in Straight
    /\ fault' = TRUE
    /\ UNCHANGED <<shared, path, drive, speed, setting, braking, calls, owed, awaited,
                   controls>>

SetPoint ==
    /\ MainTo("point", "mode")
    /\ targetPoint' = setting
    /\ pathIndex' = 0
    /\ UNCHANGED <<shared, subpath, drive, speed, setting, braking, calls, owed, awaited,
                   controls, fault>>

SetMode ==
    /\ MainTo("mode", "run")
    /\ runningMode' = Leg(0)
    /\ owed' = owed + 1
    /\ UNCHANGED <<operateMode, isRunning, carRunningMode, initParaFlag, path, drive, speed,
                   setting, braking, calls, awaited, controls, fault>>

SetRunning ==
    /\ MainTo("run", "init")
    /\ isRunning' = TRUE
    /\ UNCHANGED <<operateMode, runningMode, carRunningMode, initParaFlag, path, drive, speed,
                   setting, braking, calls, owed, awaited, controls, fault>>

ResetFlag ==
    /\ MainTo("init", "idle")
    /\ initParaFlag' = FALSE
    /\ UNCHANGED <<operateMode, isRunning, runningMode, carRunningMode, path, drive, speed,
                   setting, braking, calls, owed, awaited, controls, fault>>

(* CAgvCarControler::StopCar, for the stop key, a fault, a new route, the  *)
(* arrival at a stop; the handler of evPathMagError calls it too.          *)
StopCar(enbreak) ==
    /\ Call("halt")
    /\ ClearTarget
    /\ braking' = enbreak
    /\ fault' = FALSE
    /\ UNCHANGED <<operateMode, path, drive, speed, setting, owed, controls>>

StopWheels ==
    /\ MainTo("halt", "idle")
    /\ BaseStop(braking)
    /\ braking' = FALSE
    /\ UNCHANGED <<shared, path, speed, setting, calls, owed, awaited, controls, fault>>

(* The mode keys: SetOperateMode, then StopCar.  The manual key does       *)
(* nothing more to a car that is stopped.                                  *)
KeyAutoMode ==
    /\ operateMode = ManualMode
    /\ Call("halt")
    /\ operateMode' = AutoMode
    /\ ClearTarget
    /\ braking' = TRUE
    /\ UNCHANGED <<path, drive, speed, setting, owed, controls, fault>>

KeyManualMode ==
    /\ operateMode = AutoMode
    /\ operateMode' = ManualMode
    /\ braking' = FALSE
    /\ IF carRunningMode = StopMode
       THEN Call("idle") /\ UNCHANGED <<isRunning, runningMode, carRunningMode, initParaFlag>>
       ELSE Call("halt") /\ ClearTarget
    /\ UNCHANGED <<path, drive, speed, setting, owed, controls, fault>>

Main ==
    \/ \E t \in Targets : SetTarget(t)
    \/ Split \/ SplitFails \/ SetPoint \/ SetMode \/ SetRunning \/ ResetFlag
    \/ \E enbreak \in BOOLEAN : StopCar(enbreak)
    \/ StopWheels \/ KeyAutoMode \/ KeyManualMode

-----------------------------------------------------------------------------
(* The control thread: CAgvCarControler::Run, LoopRunning and the motion   *)
(* functions, whose five versions start, go on and end alike.              *)
ControlTo(from, to) == control = from /\ control' = to

(* In manual mode the thread waits here.                                   *)
Top ==
    /\ operateMode # ManualMode
    /\ ControlTo("top", "loop")
    /\ UNCHANGED <<shared, path, drive, speed, mains, mode, fault>>

LoopRunning ==
    /\ ControlTo("loop", IF isRunning THEN "switch" ELSE "check")
    /\ UNCHANGED <<shared, path, drive, speed, mains, mode, fault>>

Switch ==
    /\ ControlTo("switch", IF runningMode = StopMode THEN "check" ELSE "motion")
    /\ mode' = runningMode
    /\ UNCHANGED <<shared, path, drive, speed, mains, fault>>

(* The start lies beyond the target.                                       *)
Refuse ==
    /\ ControlTo("motion", "check")
    /\ ~initParaFlag /\ mode \notin Rotation
    /\ fault' = TRUE
    /\ UNCHANGED <<shared, path, drive, speed, mains, mode>>

(* RotateLeft and RotateRight turn the wheel and sleep.                    *)
Steer ==
    /\ ControlTo("motion", "steered")
    /\ ~initParaFlag /\ mode \in Rotation
    /\ UNCHANGED <<shared, path, drive, speed, mains, mode, fault>>

(* Direction, brake, speed; RunForward is the same for a rotation.         *)
Depart ==
    /\ \/ ControlTo("motion", "flag") /\ ~initParaFlag /\ mode \notin Rotation
       \/ ControlTo("steered", "flag")
    /\ brake' = FALSE
    /\ SetSpeed(1)
    /\ awaited' = (awaited /\ command' = 1)
    /\ UNCHANGED <<shared, path, speed, main, setting, braking, calls, owed, mode, fault>>

SetFlag ==
    /\ ControlTo("flag", "check")
    /\ initParaFlag' = TRUE
    /\ UNCHANGED <<operateMode, isRunning, runningMode, carRunningMode, path, drive, speed,
                   mains, mode, fault>>

(* wheelControl, or ChangeRotateSpeedByAngle, whose RunForward releases the *)
(* brake again; v = 0: the car has not moved enough to be controlled.      *)
Wheels(v) ==
    IF v = 0 THEN UNCHANGED drive
    ELSE SetSpeed(v) /\ brake' = (brake /\ mode \notin Rotation)

GoOn(v) ==
    /\ ControlTo("motion", "check")
    /\ initParaFlag
    /\ Wheels(v)
    /\ UNCHANGED <<shared, path, speed, mains, mode, fault>>

EndLeg_started ==
    /\ runningMode' = StopMode
    /\ UNCHANGED <<operateMode, isRunning, carRunningMode, initParaFlag>>

(* The leg is done.  Rotations stop and sleep before they tell, a backward *)
(* leg with a lift at the end stops after it.                              *)
EndLeg ==
    /\ runningMode' = StopMode
    /\ initParaFlag' = FALSE
    /\ UNCHANGED <<operateMode, isRunning, carRunningMode>>

ReachLine ==
    /\ ControlTo("motion", "advance")
    /\ initParaFlag /\ mode \in Straight
    /\ EndLeg
    /\ IF mode = GoBackwardMode /\ targetPoint.action = ActionLiftUpDown
       THEN BaseStop(TRUE) ELSE UNCHANGED drive
    /\ UNCHANGED <<path, speed, mains, mode, fault>>

(* The arcs control the wheels before they look whether they are there.    *)
ReachArc(v) ==
    /\ ControlTo("motion", "advance")
    /\ initParaFlag /\ mode \in Arcs
    /\ Wheels(v)
    /\ EndLeg
    /\ UNCHANGED <<path, speed, mains, mode, fault>>

NeedStop == targetPoint.mode = GoBackwardMode
ReachAngle ==
    /\ ControlTo("motion", "rotated")
    /\ initParaFlag /\ mode \in Rotation
    /\ BaseStop(targetPoint.action = ActionCharge
                \/ (targetPoint.action = ActionLiftUpDown /\ NeedStop))
    /\ UNCHANGED <<shared, path, speed, mains, mode, fault>>

(* Rotate of an angle of 0 is done before it starts, and resets nothing.   *)
NoTurn ==
    /\ ControlTo("motion", "advance")
    /\ mode \in Rotation
    /\ UNCHANGED <<shared, path, drive, speed, mains, mode, fault>>

Rotated ==
    /\ ControlTo("rotated", "advance")
    /\ EndLeg
    /\ UNCHANGED <<path, drive, speed, mains, mode, fault>>

Advance ==
    /\ ControlTo("advance", IF pathIndex + 1 < Len(subpath) THEN "next" ELSE "finish")
    /\ pathIndex' = pathIndex + 1
    /\ UNCHANGED <<shared, targetPoint, subpath, drive, speed, mains, mode, fault>>

NextLeg ==
    /\ ControlTo("next", "check")
    /\ runningMode' = Leg(pathIndex)
    /\ UNCHANGED <<operateMode, isRunning, carRunningMode, initParaFlag, path, drive, speed,
                   mains, mode, fault>>

(* The last leg is done: brake at once, or stop, sleep and brake, or roll. *)
StopsHere == targetPoint.action = ActionStop /\ targetPoint.mode \notin Rotation
BrakesHere ==
    \/ targetPoint.action = ActionCharge
    \/ targetPoint.action = ActionLiftUpDown /\ runningMode = GoBackwardMode

Finish ==
    /\ ControlTo("finish", IF StopsHere THEN "brake" ELSE "end")
    /\ IF StopsHere \/ BrakesHere THEN BaseStop(BrakesHere) ELSE UNCHANGED drive
    /\ UNCHANGED <<shared, path, speed, mains, mode, fault>>

Brake ==
    /\ ControlTo("brake", "end")
    /\ brake' = TRUE
    /\ UNCHANGED <<shared, path, command, speed, mains, mode, fault>>

EndTarget_drives ==
    /\ ControlTo("end", "announce")
    /\ pathIndex' = 0
    /\ subpath' = << >>
    /\ UNCHANGED <<shared, targetPoint, drive, speed, mains, mode, fault>>

EndTarget ==
    /\ ControlTo("end", "announce")
    /\ runningMode' = StopMode
    /\ pathIndex' = 0
    /\ subpath' = << >>
    /\ UNCHANGED <<operateMode, isRunning, carRunningMode, initParaFlag, targetPoint, drive,
                   speed, mains, mode, fault>>

Announce ==
    /\ ControlTo("announce", "check")
    /\ owed' = owed - 1
    /\ awaited' = (awaited /\ targetPoint # setting)
    /\ UNCHANGED <<shared, path, drive, speed, main, setting, braking, calls, mode, fault>>

Check_trusting ==
    /\ ControlTo("check", "top")
    /\ mode' = StopMode
    /\ UNCHANGED <<shared, path, drive, speed, mains, fault>>

(* Run, after LoopRunning: wheels that turn although the car is stopped.   *)
Check ==
    /\ ControlTo("check", IF carRunningMode = StopMode /\ speed # 0 THEN "stop" ELSE "top")
    /\ mode' = StopMode
    /\ UNCHANGED <<shared, path, drive, speed, mains, fault>>

CheckStops ==
    /\ ControlTo("stop", "halt")
    /\ ClearTarget
    /\ UNCHANGED <<operateMode, path, drive, speed, mains, mode, fault>>

CheckHalts ==
    /\ ControlTo("halt", "top")
    /\ BaseStop(FALSE)
    /\ UNCHANGED <<shared, path, speed, mains, mode, fault>>

Control ==
    \/ Top \/ LoopRunning \/ Switch
    \/ Refuse \/ Steer \/ Depart \/ SetFlag
    \/ \E v \in Speeds : GoOn(v) \/ ReachArc(v)
    \/ ReachLine \/ ReachAngle \/ NoTurn \/ Rotated
    \/ Advance \/ NextLeg \/ Finish \/ Brake \/ EndTarget \/ Announce
    \/ Check \/ CheckStops \/ CheckHalts

Next == Main \/ Control \/ Feedback

Spec == Init /\ [][Next]_vars

(* A car that moves, and goes on being asked whether it is there, arrives. *)
Arrive == speed # 0 /\ (ReachLine \/ ReachAngle \/ \E v \in Speeds : ReachArc(v))
Fairness == WF_vars(Control) /\ WF_vars(Feedback) /\ SF_vars(Arrive)
FairSpec == Spec /\ Fairness

-----------------------------------------------------------------------------
(* evNextPathPoint makes CAgvCar take its next path point, so one SetTarget *)
(* posts at most one of them: whatever the main thread stops, restarts or  *)
(* sets while the control thread sleeps at the end of a target, it is not  *)
(* told of more arrivals than it gave targets.                             *)
AnnouncedOnce == owed >= 0

StopCommanded == main = "idle" /\ carRunningMode = StopMode
AtRest == speed = 0 /\ Turning = 0

(* StopCar may be undone by a control thread that was in the middle of a   *)
(* start, and its speed of 0 may be held back because the drive has not    *)
(* reported the start yet; the check at the end of Run makes up for both   *)
(* as long as the car stays in automatic mode.                             *)
StopsInAuto ==
    <>[](StopCommanded /\ operateMode = AutoMode) => <>[]AtRest

(* The arrival the car's state machine waits for does come: a target that  *)
(* SetTarget gave to a car that has settled is announced, or refused with  *)
(* evPathMagError, unless another call comes first or the drive was not    *)
(* sent the speed of a start because it had just reported the same.        *)
Served == awaited /\ main = "idle" ~> ~awaited \/ fault
=============================================================================
