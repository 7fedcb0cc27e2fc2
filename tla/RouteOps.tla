------------------------------ MODULE RouteOps ------------------------------
(***************************************************************************)
(* The data of CAgvRoutePlanner (controler/AgvRoutePlanner.cpp) and one    *)
(* operator for each of its methods.  A planner is a record                *)
(*                                                                         *)
(*   list              pathList, the way points of the route               *)
(*   targetPathId      0-based index of the way point being driven to      *)
(*   lastPathId        0-based index of the way point before it, or -1     *)
(*   lastStationPoint  id reported to the scheduler as "last point"        *)
(*   setting           TargetPointId and LastPointId of the CAgvSetting    *)
(*                     singleton: memory that survives a network flap      *)
(*   disk              the file "lastpath" and the two keys of the XML     *)
(*                     configuration: what survives the process            *)
(*                                                                         *)
(* The operators are functions of a planner, so that one handler of        *)
(* CAgvCar can make several calls in one step.  Coordinates, angles and    *)
(* radius are kept only as `align`, the outcome of the tests CAgvCar makes *)
(* on them: in line with the point before, far from it, a negative angle.  *)
(***************************************************************************)
EXTENDS Integers, Sequences

(* enum RunMode, enum ArrivedAcation *)
StopMode == 0
GoForwardMode == 1
GoBackwardMode == 2
RotateLeftMode == 5
RotateRightMode == 6

ActionRun == 0
ActionStop == 1
ActionSpeedDown == 2
ActionResumeSpeed == 3
ActionLiftUpDown == 4
ActionCharge == 5

NoHeight == -1              \* liftHeight of a point that leaves the fork alone

WayPoint ==
    [id : Nat \ {0}, runMode : Nat, action : Nat, liftHeight : Nat \cup {NoHeight},
     align : SUBSET {"inLine", "longLeg", "negative"}, actionFinish : BOOLEAN]

Disk ==
    [path : Seq(WayPoint), TargetPoinId : Int, TargetPointId : Int, LastPointId : Int]

Planner ==
    [list : Seq(WayPoint), targetPathId : Int, lastPathId : Int,
     lastStationPoint : Nat,
     setting : [TargetPointId : Int, LastPointId : Int],
     disk : Disk]

(* The XML file of a new installation has none of the keys: LoadAll uses   *)
(* the defaults and writes them.                                           *)
BlankDisk == [path |-> << >>, TargetPoinId |-> 0, TargetPointId |-> 0, LastPointId |-> -1]

(* CAgvSetting::LoadAll at process start, then the planner's constructor.  *)
Boot(disk) ==
    [list |-> << >>, targetPathId |-> 0, lastPathId |-> -1, lastStationPoint |-> 0,
     setting |-> [TargetPointId |-> disk.TargetPointId, LastPointId |-> disk.LastPointId],
     disk |-> disk]

PathCount(p) == Len(p.list)

InRoute(p, i) == 0 <= i /\ i < Len(p.list)

(* GetTargetStation: the code returns NULL outside HasTarget.              *)
HasTarget(p) == InRoute(p, p.targetPathId)
GetTargetStation(p) == p.list[p.targetPathId + 1]

GetLastStation(p) == p.list[p.lastPathId + 1]

(* Points as they come from the scheduler or from the file.                *)
Unfinished(points) == [i \in 1 .. Len(points) |-> [points[i] EXCEPT !.actionFinish = FALSE]]

clearPathList(p) == [p EXCEPT !.list = << >>, !.targetPathId = 0, !.lastPathId = -1]

(* savePathInfo(all): the settings in memory come first; a failing fopen   *)
(* returns before the two XML keys are written.  Only the numbers that the *)
(* file keeps come back from it, which excludes actionFinish.              *)
savePathInfo(p, all, opened) ==
    LET q == [p EXCEPT !.setting = [TargetPointId |-> p.targetPathId,
                                    LastPointId |-> p.lastPathId]]
        keys == [q EXCEPT !.disk.TargetPoinId = p.targetPathId,
                          !.disk.LastPointId = p.lastPathId]
    IN IF ~all THEN keys
       ELSE IF opened THEN [keys EXCEPT !.disk.path = p.list]
       ELSE q

(* The states the disk passes through during savePathInfo: the truncated   *)
(* file grows line by line, then each key rewrites the whole XML file,     *)
(* which a crash can leave unreadable (LoadAll then falls back on the      *)
(* defaults).                                                              *)
DiskDuringSave(p, all) ==
    LET files == IF all THEN {SubSeq(p.list, 1, n) : n \in 0 .. Len(p.list)} ELSE {}
        filed == IF all THEN [p.disk EXCEPT !.path = p.list] ELSE p.disk
        key1 == [filed EXCEPT !.TargetPoinId = p.targetPathId]
    IN {[p.disk EXCEPT !.path = f] : f \in files}
         \cup {key1, [key1 EXCEPT !.LastPointId = p.lastPathId]}
         \cup {[BlankDisk EXCEPT !.path = filed.path]}

(* Slip: the cursor is not taken back from the settings.                   *)
loadPathInfo_FromStart(p, opened) ==
    LET q == clearPathList(p)
    IN IF opened THEN [q EXCEPT !.list = Unfinished(p.disk.path)] ELSE q

(* loadPathInfo: memset leaves actionFinish false; the cursor comes from   *)
(* the settings in memory, not from the file.                              *)
loadPathInfo(p, opened) ==
    LET q == clearPathList(p)
    IN IF ~opened THEN q
       ELSE [q EXCEPT !.list = Unfinished(p.disk.path),
                      !.targetPathId = p.setting.TargetPointId,
                      !.lastPathId = p.setting.LastPointId]

(* Slip: the old way points are not cleared.                               *)
OnGetNewPath_Appends(p, points, opened) ==
    savePathInfo([p EXCEPT !.list = @ \o Unfinished(points)], TRUE, opened)

(* OnGetNewPath(list): `points` is the list of StationInfo, already with   *)
(* 0xFFFF turned into NoHeight.  The evApplyPath it posts is the caller's. *)
OnGetNewPath(p, points, opened) ==
    savePathInfo([clearPathList(p) EXCEPT !.list = Unfinished(points)], TRUE, opened)

ResetPathList(p) == savePathInfo(clearPathList(p), FALSE, TRUE)

ReloadPathList(p, opened) == loadPathInfo(ResetPathList(p), opened)

(* Slips: the index in place of the id, without the test for NULL; and the *)
(* cursor is not saved.                                                    *)
NoteStation_Index(p) ==
    savePathInfo([p EXCEPT !.lastStationPoint = p.lastPathId], FALSE, TRUE)
NoteStation_Unsaved(p) ==
    IF InRoute(p, p.lastPathId) THEN [p EXCEPT !.lastStationPoint = GetLastStation(p).id] ELSE p

(* The common tail of MoveToNextStation and MoveToLastStation.             *)
NoteStation(p) ==
    LET q == IF InRoute(p, p.lastPathId)
             THEN [p EXCEPT !.lastStationPoint = GetLastStation(p).id] ELSE p
    IN savePathInfo(q, FALSE, TRUE)

(* Slip: off by one.                                                       *)
CanMoveNext_OnePast(p) == Len(p.list) > 0 /\ p.targetPathId < Len(p.list)

CanMoveNext(p) == Len(p.list) > 0 /\ p.targetPathId < Len(p.list) - 1

MoveToNextStation(p) ==
    IF Len(p.list) = 0 THEN p
    ELSE NoteStation(IF CanMoveNext(p)
                     THEN [p EXCEPT !.lastPathId = p.targetPathId,
                                    !.targetPathId = p.targetPathId + 1]
                     ELSE p)

MoveToLastStation(p) ==
    IF Len(p.list) = 0 THEN p
    ELSE NoteStation(IF p.targetPathId >= 1
                     THEN [p EXCEPT !.targetPathId = p.targetPathId - 1,
                                    !.lastPathId = p.targetPathId - 2]
                     ELSE p)

(* How CAgvCar looks at the next point: forward and back again, with the   *)
(* side effects of both moves.                                             *)
LookAhead(p) == IF CanMoveNext(p) THEN MoveToLastStation(MoveToNextStation(p))
                ELSE MoveToNextStation(p)

CleanLastStationPoint(p) == [p EXCEPT !.lastStationPoint = 0]

(* OnActionFinished(lastLiftHight): returns 1 without any effect when the  *)
(* target's action was finished before.                                    *)
ActionFinished(p) == GetTargetStation(p).actionFinish
(* Slip: the mark is not set.                                              *)
OnActionFinished_Unmarked(p) == p

OnActionFinished(p) ==
    IF ActionFinished(p) THEN p
    ELSE [p EXCEPT !.list[p.targetPathId + 1].actionFinish = TRUE]

(* Slip: the report does not look at the mark.                             *)
TaskReport_Unmarked(p, lastLiftHight) ==
    LET t == GetTargetStation(p)
    IN IF t.liftHeight >= 0 /\ t.action = ActionLiftUpDown /\ t.liftHeight # lastLiftHight
       THEN {<<t.id, IF t.liftHeight < lastLiftHight THEN 2 ELSE 1>>} ELSE {}

(* The task reports of OnActionFinished, <<station, status>>: 2 the fork   *)
(* was lowered, 1 it was raised, nothing when it did not move.             *)
TaskReport(p, lastLiftHight) ==
    LET t == GetTargetStation(p)
    IN IF ~t.actionFinish /\ t.liftHeight >= 0 /\ t.action = ActionLiftUpDown
       THEN IF t.liftHeight < lastLiftHight THEN {<<t.id, 2>>}
            ELSE IF t.liftHeight > lastLiftHight THEN {<<t.id, 1>>}
            ELSE {}
       ELSE {}

-----------------------------------------------------------------------------
(* What the callers of a planner rely on.                                  *)

(* A route that is not empty has a target, and past the first point "last" *)
(* is the point before the target.                                         *)
CursorFits(p) ==
    /\ p.list = << >> => p.targetPathId = 0
    /\ p.list # << >> => HasTarget(p)
    /\ p.targetPathId > 0 => p.lastPathId = p.targetPathId - 1

(* While a route is held the settings in memory are its cursor and the     *)
(* file has the same stations; at every moment, a restart included, the    *)
(* cursor of the settings fits the file.                                   *)
SettingsFit(p) ==
    /\ p.list # << >> =>
         /\ p.setting.TargetPointId = p.targetPathId
         /\ p.setting.LastPointId = p.lastPathId
         /\ Len(p.list) = Len(p.disk.path)
         /\ \A i \in 1 .. Len(p.list) : p.list[i].id = p.disk.path[i].id
    /\ p.setting.TargetPointId \in 0 .. Len(p.disk.path)
    /\ p.setting.TargetPointId > 0 =>
         /\ p.setting.TargetPointId < Len(p.disk.path)
         /\ p.setting.LastPointId = p.setting.TargetPointId - 1
    /\ p.disk.TargetPointId = 0
=============================================================================
