------------------------- MODULE RoutePlannerProofs -------------------------
(***************************************************************************)
(* What holds of RoutePlanner for every route and number of crashes.  The  *)
(* types and the reports do not depend on the file: they hold whether it   *)
(* can be written and read or not.  That the cursor fits the route and the *)
(* file what was sent needs the file to be written when a route comes in   *)
(* (WritesSucceed); reading it may fail then too, and the process may die  *)
(* at any point, inside a save included.                                   *)
(***************************************************************************)
EXTENDS RoutePlanner, RouteOpsProofs

(* fopen(PATHFILE, "w+") succeeds.                                         *)
WritesSucceed == WriteOpens \subseteq {TRUE}

Reports == TypeOK /\ ReportedFinished /\ ReportedOnce

Inv == Reports /\ CursorOK /\ CursorSaved

-----------------------------------------------------------------------------
(* Types and reports, whatever the file does.                              *)
LEMMA NewListReports ==
    ASSUME Reports, p' \in Planner, NewList, started' \in BOOLEAN,
           sent' \in Seq(WayPoint), resume' \in Int
    PROVE  Reports'
<1>1. reported' = {} /\ repeated' = repeated /\ crashes' = crashes
  BY DEF NewList
<1>2. TypeOK'
  BY <1>1 DEF Reports, TypeOK
<1>3. ReportedFinished'
  BY <1>1 DEF ReportedFinished
<1>. QED
  BY <1>1, <1>2, <1>3 DEF Reports, ReportedOnce

LEMMA LoadReports ==
    ASSUME Reports, NEW o \in BOOLEAN, Start(o) \/ Reload(o)
    PROVE  Reports'
<1>1. p' \in Planner
  BY LoadType, ReloadType DEF Start, Reload, Reports, TypeOK
<1>2. NewList /\ resume' = -1 /\ sent' = sent /\ (started' = TRUE \/ started' = started)
  BY DEF Start, Reload
<1>3. started' \in BOOLEAN /\ sent' \in Seq(WayPoint)
  BY <1>2 DEF Reports, TypeOK
<1>4. resume' \in Int
  BY <1>2
<1>. QED
  BY <1>1, <1>2, <1>3, <1>4, NewListReports

LEMMA GetNewPathReports ==
    ASSUME Reports, NEW points \in Seq(WayPoint), NEW o \in BOOLEAN, GetNewPath(points, o)
    PROVE  Reports'
<1>1. p' \in Planner
  BY NewPathType DEF GetNewPath, Reports, TypeOK
<1>2. NewList /\ started' \in BOOLEAN /\ sent' \in Seq(WayPoint) /\ resume' \in Int
  BY DEF GetNewPath, Reports, TypeOK
<1>. QED
  BY <1>1, <1>2, NewListReports

(* Steps that keep the points, or at least which of them are finished.     *)
LEMMA KeptListReports ==
    ASSUME Reports, p' \in Planner, Len(p'.list) = Len(p.list),
           \A i \in 1 .. Len(p.list) : p'.list[i].actionFinish = p.list[i].actionFinish,
           UNCHANGED <<started, sent, reported, repeated, crashes, resume>>
    PROVE  Reports'
<1>1. TypeOK' /\ ReportedOnce'
  BY DEF Reports, TypeOK, ReportedOnce
<1>2. ASSUME NEW i \in reported PROVE InRoute(p', i) /\ p'.list[i + 1].actionFinish
  <2>1. i \in Nat /\ InRoute(p, i) /\ p.list[i + 1].actionFinish
    BY <1>2 DEF Reports, TypeOK, ReportedFinished
  <2>2. Len(p.list) \in Nat
    BY LenProperties DEF Reports, TypeOK, Planner
  <2>3. i + 1 \in 1 .. Len(p.list)
    BY <2>1, <2>2 DEF InRoute
  <2>. QED
    BY <2>1, <2>3 DEF InRoute
<1>3. ReportedFinished'
  BY <1>2 DEF ReportedFinished
<1>. QED
  BY <1>1, <1>3 DEF Reports

LEMMA MoveReports ==
    ASSUME Reports, Move \/ CleanLast
    PROVE  Reports'
<1>0. p \in Planner
  BY DEF Reports, TypeOK
<1>1. p' \in Planner /\ p'.list = p.list
  <2>1. CASE Move
    BY <1>0, <2>1, MoveType, LookAheadType DEF Move
  <2>2. CASE CleanLast
    BY <1>0, <2>2 DEF CleanLast, CleanLastStationPoint, Planner
  <2>. QED
    BY <2>1, <2>2
<1>2. UNCHANGED <<started, sent, reported, repeated, crashes, resume>>
  BY DEF Move, CleanLast
<1>. QED
  BY <1>1, <1>2, KeptListReports

(* The two steps that write fields of the target, as one new point.        *)
LEMMA RewriteTargetEffect ==
    ASSUME p \in Planner, NEW a \in Nat, NEW h \in Nat, RewriteTarget(a, h)
    PROVE  \E w \in WayPoint :
              /\ w.id = GetTargetStation(p).id
              /\ w.actionFinish = GetTargetStation(p).actionFinish
              /\ p' = [p EXCEPT !.list[p.targetPathId + 1] = w]
<1> DEFINE t == GetTargetStation(p)
           w == [t EXCEPT !.action = a, !.liftHeight = h]
<1>1. t \in WayPoint
  BY TargetType DEF RewriteTarget
<1>2. w \in WayPoint /\ w.id = t.id /\ w.actionFinish = t.actionFinish
  BY <1>1 DEF WayPoint
<1>3. p' = [p EXCEPT !.list[p.targetPathId + 1] = w]
  BY DEF RewriteTarget, GetTargetStation, Planner
<1>. QED
  BY <1>2, <1>3

LEMMA FinishActionEffect ==
    ASSUME p \in Planner, NEW h \in Nat, FinishAction(h), ~ActionFinished(p)
    PROVE  \E w \in WayPoint :
              /\ w.id = GetTargetStation(p).id
              /\ w.actionFinish
              /\ p' = [p EXCEPT !.list[p.targetPathId + 1] = w]
<1> DEFINE t == GetTargetStation(p)
           w == [t EXCEPT !.actionFinish = TRUE]
<1>1. t \in WayPoint
  BY TargetType DEF FinishAction
<1>2. w \in WayPoint /\ w.id = t.id /\ w.actionFinish
  BY <1>1 DEF WayPoint
<1>3. p' = [p EXCEPT !.list[p.targetPathId + 1] = w]
  BY DEF FinishAction, OnActionFinished, GetTargetStation, Planner
<1>. QED
  BY <1>2, <1>3

LEMMA RewriteTargetReports ==
    ASSUME Reports, NEW a \in Nat, NEW h \in Nat, RewriteTarget(a, h)
    PROVE  Reports'
<1> DEFINE k == p.targetPathId + 1
<1>0. p \in Planner /\ HasTarget(p)
  BY DEF RewriteTarget, Reports, TypeOK
<1>1. PICK w \in WayPoint :
          /\ w.actionFinish = GetTargetStation(p).actionFinish
          /\ p' = [p EXCEPT !.list[p.targetPathId + 1] = w]
  BY <1>0, RewriteTargetEffect
<1>2. /\ p' \in Planner /\ Len(p'.list) = Len(p.list)
      /\ \A i \in 1 .. Len(p.list) : p'.list[i] = IF i = k THEN w ELSE p.list[i]
  BY <1>0, <1>1, PointType
<1>3. \A i \in 1 .. Len(p.list) : p'.list[i].actionFinish = p.list[i].actionFinish
  BY <1>1, <1>2 DEF GetTargetStation
<1>. QED
  BY <1>2, <1>3, KeptListReports DEF RewriteTarget

LEMMA FinishActionReports ==
    ASSUME Reports, NEW h \in Nat, FinishAction(h)
    PROVE  Reports'
<1> DEFINE k == p.targetPathId + 1
<1>0. p \in Planner /\ HasTarget(p)
  BY DEF FinishAction, Reports, TypeOK
<1>1. CASE ActionFinished(p)
  <2>1. p' = p /\ TaskReport(p, h) = {}
    BY <1>1 DEF FinishAction, OnActionFinished, TaskReport, ActionFinished
  <2>2. UNCHANGED <<started, sent, reported, repeated, crashes, resume>>
    BY <2>1 DEF FinishAction
  <2>. QED
    BY <1>0, <2>1, <2>2, KeptListReports
<1>2. CASE ~ActionFinished(p)
  <2>1. PICK w \in WayPoint :
            w.actionFinish /\ p' = [p EXCEPT !.list[p.targetPathId + 1] = w]
    BY <1>0, <1>2, FinishActionEffect
  <2>2. /\ p' \in Planner /\ Len(p'.list) = Len(p.list)
        /\ \A i \in 1 .. Len(p.list) : p'.list[i] = IF i = k THEN w ELSE p.list[i]
    BY <1>0, <2>1, PointType
  <2>3. p.targetPathId \in Nat /\ Len(p.list) \in Nat /\ k \in 1 .. Len(p.list)
    BY <1>0, TargetType, LenProperties DEF HasTarget, InRoute, Planner
  <2>4. /\ UNCHANGED <<started, sent, crashes, resume>>
        /\ reported' \subseteq reported \cup {p.targetPathId}
        /\ repeated' = (repeated \/ (TaskReport(p, h) # {} /\ p.targetPathId \in reported))
    BY DEF FinishAction, Reports, TypeOK
  <2>5. p.targetPathId \notin reported
    BY <1>2 DEF Reports, ReportedFinished, ActionFinished, GetTargetStation
  <2>6. repeated' = FALSE
    BY <2>4, <2>5 DEF Reports, ReportedOnce
  <2>7. ASSUME NEW i \in reported' PROVE InRoute(p', i) /\ p'.list[i + 1].actionFinish
    <3>1. CASE i = p.targetPathId
      BY <1>0, <2>1, <2>2, <2>3, <3>1 DEF InRoute, HasTarget
    <3>2. CASE i # p.targetPathId
      <4>1. i \in Nat /\ InRoute(p, i) /\ p.list[i + 1].actionFinish
        BY <2>4, <2>7, <3>2 DEF Reports, TypeOK, ReportedFinished
      <4>2. i + 1 \in 1 .. Len(p.list) /\ i + 1 # k
        BY <2>3, <3>2, <4>1 DEF InRoute
      <4>. QED
        BY <2>2, <4>1, <4>2 DEF InRoute
    <3>. QED
      BY <3>1, <3>2
  <2>8. reported' \subseteq Nat
    BY <2>3, <2>4 DEF Reports, TypeOK
  <2>9. TypeOK'
    BY <2>2, <2>4, <2>6, <2>8 DEF Reports, TypeOK
  <2>. QED
    BY <2>6, <2>7, <2>9 DEF Reports, ReportedFinished, ReportedOnce
<1>. QED
  BY <1>1, <1>2

LEMMA RestartReports ==
    ASSUME Reports, NEW d \in Disk, Restart(d), sent' \in Seq(WayPoint), resume' \in Int
    PROVE  Reports'
<1>1. p' \in Planner
  BY BootType DEF Restart
<1>2. /\ started' = FALSE /\ reported' = {} /\ repeated' = repeated
      /\ crashes' \in 0 .. MaxCrashes
  BY CrashesAssumption DEF Restart, Reports, TypeOK
<1>3. TypeOK'
  BY <1>1, <1>2 DEF Reports, TypeOK
<1>. QED
  BY <1>2, <1>3 DEF Reports, ReportedFinished, ReportedOnce

(* A process that dies inside savePathInfo leaves one of its disks.        *)
LEMMA CrashInSaveDisk ==
    ASSUME p \in Planner, NEW q \in Planner, NEW all \in BOOLEAN, CrashInSave(q, all)
    PROVE  \E d \in Disk :
              /\ Restart(d) /\ resume' = -1
              /\ p.disk.TargetPointId = 0 => d.TargetPointId = 0
              /\ IF all THEN Beginning(d.path, q.list) ELSE d.path = p.disk.path
<1> DEFINE s == [q EXCEPT !.disk = p.disk]
<1>1. s \in Planner /\ s.disk = p.disk /\ s.list = q.list
  BY DEF Planner
<1> HIDE DEF s
<1>2. PICK d \in DiskDuringSave(s, all) : Restart(d)
  BY DEF CrashInSave, s
<1>3. d \in Disk /\ (s.disk.TargetPointId = 0 => d.TargetPointId = 0)
  BY <1>1, <1>2, DiskDuringSaveType
<1>4. IF all THEN Beginning(d.path, s.list) ELSE d.path = s.disk.path
  BY <1>1, <1>2, FileDuringSave
<1>5. resume' = -1
  BY DEF CrashInSave
<1>. QED
  BY <1>1, <1>2, <1>3, <1>4, <1>5

LEMMA CrashReports ==
    ASSUME Reports, NEW points \in Seq(WayPoint),
           Crash \/ CrashInMove \/ CrashInReload \/ CrashInGetNewPath(points)
    PROVE  Reports'
<1>0. p \in Planner /\ p.disk \in Disk /\ p.targetPathId \in Int
      /\ sent \in Seq(WayPoint) /\ resume \in Int
  BY DEF Reports, TypeOK, Planner
<1>1. CASE Crash
  <2>1. Restart(p.disk) /\ sent' \in Seq(WayPoint) /\ resume' \in Int
    BY <1>0, <1>1 DEF Crash
  <2>. QED
    BY <1>0, <2>1, RestartReports
<1>2. ASSUME NEW q \in Planner, NEW all \in BOOLEAN, CrashInSave(q, all),
             sent' \in Seq(WayPoint)
      PROVE  Reports'
  <2>1. PICK d \in Disk : Restart(d) /\ resume' = -1
    BY <1>0, <1>2, CrashInSaveDisk
  <2>2. resume' \in Int
    BY <2>1
  <2>. QED
    BY <1>2, <2>1, <2>2, RestartReports
<1>3. CASE CrashInMove
  <2>1. PICK q \in {MoveToNextStation(p), MoveToLastStation(p)} : CrashInSave(q, FALSE)
    BY <1>3 DEF CrashInMove
  <2>2. q \in Planner
    BY <1>0, <2>1, MoveType
  <2>3. sent' \in Seq(WayPoint)
    BY <1>0, <1>3 DEF CrashInMove
  <2>. QED
    BY <1>2, <2>1, <2>2, <2>3
<1>4. CASE CrashInReload
  <2>1. ResetPathList(p) \in Planner
    BY <1>0, ReloadType
  <2>2. CrashInSave(ResetPathList(p), FALSE) /\ sent' \in Seq(WayPoint)
    BY <1>0, <1>4 DEF CrashInReload
  <2>. QED
    BY <1>2, <2>1, <2>2
<1>5. CASE CrashInGetNewPath(points)
  <2>1. OnGetNewPath(p, points, TRUE) \in Planner
    BY <1>0, NewPathType
  <2>2. CrashInSave(OnGetNewPath(p, points, TRUE), TRUE) /\ sent' \in Seq(WayPoint)
    BY <1>5 DEF CrashInGetNewPath
  <2>. QED
    BY <1>2, <2>1, <2>2
<1>. QED
  BY <1>1, <1>3, <1>4, <1>5

LEMMA InitReports == Init => Reports
<1> SUFFICES ASSUME Init PROVE Reports
  OBVIOUS
<1>1. BlankDisk \in Disk /\ << >> \in Seq(WayPoint)
  BY EmptySeq DEF BlankDisk, Disk
<1>2. p \in Planner /\ sent \in Seq(WayPoint)
  BY <1>1, BootType DEF Init
<1>3. crashes \in 0 .. MaxCrashes /\ resume \in Int
  BY CrashesAssumption DEF Init
<1>4. started \in BOOLEAN /\ repeated \in BOOLEAN /\ reported \subseteq Nat
  BY DEF Init
<1>. QED
  BY <1>2, <1>3, <1>4 DEF Init, Reports, TypeOK, ReportedFinished, ReportedOnce

LEMMA NextReports ==
    ASSUME Reports, [Next]_vars
    PROVE  Reports'
<1>1. ASSUME NEW o \in ReadOpens, Start(o) \/ Reload(o) PROVE Reports'
  BY <1>1, LoadReports, OpensAssumption
<1>2. ASSUME NEW points \in Paths, NEW o \in WriteOpens, GetNewPath(points, o) PROVE Reports'
  BY <1>2, GetNewPathReports, PathsAssumption, OpensAssumption
<1>3. CASE Move \/ CleanLast
  BY <1>3, MoveReports
<1>4. ASSUME NEW a \in {ActionStop, ActionLiftUpDown}, NEW h \in Heights, RewriteTarget(a, h)
      PROVE  Reports'
  <2>1. a \in Nat /\ h \in Nat
    BY HeightsAssumption DEF ActionStop, ActionLiftUpDown
  <2>. QED
    BY <1>4, <2>1, RewriteTargetReports
<1>5. ASSUME NEW h \in Heights, FinishAction(h) PROVE Reports'
  BY <1>5, HeightsAssumption, FinishActionReports
<1>6. CASE Crash \/ CrashInMove \/ CrashInReload
  <2>1. << >> \in Seq(WayPoint)
    BY EmptySeq
  <2>. QED
    BY <1>6, <2>1, CrashReports
<1>7. ASSUME NEW points \in Paths, CrashInGetNewPath(points) PROVE Reports'
  BY <1>7, PathsAssumption, CrashReports
<1>8. CASE UNCHANGED vars
  BY <1>8 DEF vars, Reports, TypeOK, ReportedFinished, ReportedOnce
<1>. QED
  BY <1>1, <1>2, <1>3, <1>4, <1>5, <1>6, <1>7, <1>8 DEF Next

LEMMA ReportsAlways == Spec => []Reports
<1>1. Reports /\ [Next]_vars => Reports'
  BY NextReports
<1>. QED
  BY <1>1, InitReports, PTL DEF Spec

(* Every variable keeps its type, whatever routes come in, whether their   *)
(* file can be written and read or not, and wherever the process dies.     *)
THEOREM TypeCorrect == Spec => []TypeOK
<1>1. Reports => TypeOK
  BY DEF Reports
<1>. QED
  BY <1>1, ReportsAlways, PTL

(* No task is reported twice while its route stays loaded, whatever        *)
(* becomes of the file.                                                    *)
THEOREM ReportsOnce == Spec => []ReportedOnce
<1>1. Reports => ReportedOnce
  BY DEF Reports
<1>. QED
  BY <1>1, ReportsAlways, PTL

-----------------------------------------------------------------------------
(* The cursor, the settings and the file, when the file can be written.    *)
LEMMA InvFits == Inv => Fits(p) /\ p \in Planner
BY DEF Inv, Reports, Fits, TypeOK, CursorOK, CursorSaved

LEMMA RestartFits ==
    ASSUME Fits(p), NEW q, Fits(q), NEW all \in BOOLEAN, CrashInSave(q, all)
    PROVE  Fits(p')
<1>1. PICK d \in Disk : Restart(d) /\ d.TargetPointId = 0
  BY CrashInSaveDisk DEF Fits, SettingsFit
<1>. QED
  BY <1>1, BootFits DEF Restart

LEMMA RewriteFits ==
    ASSUME Fits(p), NEW a \in Nat, NEW h \in Nat, RewriteTarget(a, h)
    PROVE  Fits(p') /\ p'.disk = p.disk
<1>1. p \in Planner /\ HasTarget(p)
  BY DEF Fits, RewriteTarget
<1>2. PICK w \in WayPoint :
          /\ w.id = GetTargetStation(p).id
          /\ p' = [p EXCEPT !.list[p.targetPathId + 1] = w]
  BY <1>1, RewriteTargetEffect
<1>. QED
  BY <1>1, <1>2, PointFits

LEMMA FinishFits ==
    ASSUME Fits(p), NEW h \in Nat, FinishAction(h)
    PROVE  Fits(p') /\ p'.disk = p.disk
<1>1. p \in Planner /\ HasTarget(p)
  BY DEF Fits, FinishAction
<1>2. CASE ActionFinished(p)
  BY <1>2 DEF FinishAction, OnActionFinished
<1>3. CASE ~ActionFinished(p)
  <2>1. PICK w \in WayPoint :
            /\ w.id = GetTargetStation(p).id
            /\ p' = [p EXCEPT !.list[p.targetPathId + 1] = w]
    BY <1>1, <1>3, FinishActionEffect
  <2>. QED
    BY <1>1, <2>1, PointFits
<1>. QED
  BY <1>2, <1>3

LEMMA CleanLastFits ==
    ASSUME Fits(p), CleanLast
    PROVE  Fits(p') /\ p'.disk = p.disk
<1>1. p \in Planner /\ p' = [p EXCEPT !.lastStationPoint = 0]
  BY DEF Fits, CleanLast, CleanLastStationPoint
<1>2. /\ p' \in Planner /\ p'.list = p.list
      /\ p'.targetPathId = p.targetPathId /\ p'.lastPathId = p.lastPathId
      /\ p'.setting = p.setting /\ p'.disk = p.disk
  BY <1>1 DEF Planner
<1>. QED
  BY <1>2 DEF Fits, CursorFits, SettingsFit, HasTarget, InRoute

LEMMA CrashFits ==
    ASSUME Fits(p), NEW points \in Seq(WayPoint),
           Crash \/ CrashInMove \/ CrashInReload \/ CrashInGetNewPath(points)
    PROVE  Fits(p')
<1>1. CASE Crash
  <2>1. p.disk \in Disk /\ p.disk.TargetPointId = 0
    BY DEF Fits, SettingsFit, Planner
  <2>. QED
    BY <1>1, <2>1, BootFits DEF Crash, Restart
<1>2. CASE CrashInMove
  <2>1. PICK q \in {MoveToNextStation(p), MoveToLastStation(p)} : CrashInSave(q, FALSE)
    BY <1>2 DEF CrashInMove
  <2>2. Fits(q)
    BY <2>1, MoveNextFits, MoveLastFits
  <2>. QED
    BY <2>1, <2>2, RestartFits
<1>3. CASE CrashInReload
  <2>1. CrashInSave(ResetPathList(p), FALSE) /\ Fits(ResetPathList(p))
    BY <1>3, ResetFits DEF CrashInReload
  <2>. QED
    BY <2>1, RestartFits
<1>4. CASE CrashInGetNewPath(points)
  <2> DEFINE q == OnGetNewPath(p, points, TRUE)
  <2>1. CrashInSave(q, TRUE) /\ Fits(q)
    BY <1>4, NewPathFits DEF CrashInGetNewPath
  <2> HIDE DEF q
  <2>. QED
    BY <2>1, RestartFits
<1>. QED
  BY <1>1, <1>2, <1>3, <1>4

LEMMA InitInv == Init => Inv
<1>1. BlankDisk \in Disk /\ BlankDisk.TargetPointId = 0
  BY EmptySeq DEF BlankDisk, Disk
<1>2. Init => Fits(p)
  BY <1>1, BootFits DEF Init
<1>. QED
  BY <1>2, InitReports DEF Inv, Fits, CursorOK, CursorSaved

LEMMA NextInv ==
    ASSUME WritesSucceed, Inv, [Next]_vars
    PROVE  Inv'
<1>0. Fits(p) /\ Reports'
  BY InvFits, NextReports DEF Inv
<1> SUFFICES Fits(p')
  BY <1>0 DEF Inv, Fits, CursorOK, CursorSaved
<1>1. ASSUME NEW o \in ReadOpens, Start(o) \/ Reload(o) PROVE Fits(p')
  BY <1>0, <1>1, LoadFits, ReloadFits, OpensAssumption DEF Start, Reload
<1>2. ASSUME NEW points \in Paths, NEW o \in WriteOpens, GetNewPath(points, o) PROVE Fits(p')
  <2>1. points \in Seq(WayPoint) /\ o = TRUE
    BY PathsAssumption DEF WritesSucceed
  <2>. QED
    BY <1>0, <1>2, <2>1, NewPathFits DEF GetNewPath
<1>3. CASE Move
  BY <1>0, <1>3, MoveNextFits, MoveLastFits, LookAheadFits DEF Move
<1>4. CASE CleanLast
  BY <1>0, <1>4, CleanLastFits
<1>5. ASSUME NEW a \in {ActionStop, ActionLiftUpDown}, NEW h \in Heights, RewriteTarget(a, h)
      PROVE  Fits(p')
  <2>1. a \in Nat /\ h \in Nat
    BY HeightsAssumption DEF ActionStop, ActionLiftUpDown
  <2>. QED
    BY <1>0, <1>5, <2>1, RewriteFits
<1>6. ASSUME NEW h \in Heights, FinishAction(h) PROVE Fits(p')
  BY <1>0, <1>6, HeightsAssumption, FinishFits
<1>7. CASE Crash \/ CrashInMove \/ CrashInReload
  <2>1. << >> \in Seq(WayPoint)
    BY EmptySeq
  <2>. QED
    BY <1>0, <1>7, <2>1, CrashFits
<1>8. ASSUME NEW points \in Paths, CrashInGetNewPath(points) PROVE Fits(p')
  BY <1>0, <1>8, PathsAssumption, CrashFits
<1>9. CASE UNCHANGED vars
  BY <1>0, <1>9 DEF vars
<1>. QED
  BY <1>1, <1>2, <1>3, <1>4, <1>5, <1>6, <1>7, <1>8, <1>9 DEF Next

LEMMA Invariance == WritesSucceed => (Spec => []Inv)
<1>. SUFFICES ASSUME WritesSucceed PROVE Spec => []Inv
  OBVIOUS
<1>1. Inv /\ [Next]_vars => Inv'
  BY NextInv
<1>. QED
  BY <1>1, InitInv, PTL DEF Spec

(* For routes of any length, any number of moves, loads, crashes and       *)
(* restarts: a route that is not empty has a target, so the unchecked      *)
(* GetTargetStation() of CAgvCar is not NULL while a route is held.        *)
THEOREM CursorSafe == WritesSucceed => (Spec => []CursorOK)
<1>1. Inv => CursorOK
  BY DEF Inv
<1>. QED
  BY <1>1, Invariance, PTL

(* The settings and the file always describe a place on one route.         *)
THEOREM CursorIsSaved == WritesSucceed => (Spec => []CursorSaved)
<1>1. Inv => CursorSaved
  BY DEF Inv
<1>. QED
  BY <1>1, Invariance, PTL

(* A network flap keeps the stations of the route and the place on it.     *)
THEOREM FlapIsHarmless == WritesSucceed => (Spec => FlapKeepsProgress)
<1> DEFINE Keeps == Start(TRUE) /\ p.list # << >>
                      => /\ [i \in DOMAIN p'.list |-> p'.list[i].id]
                                = [i \in DOMAIN p.list |-> p.list[i].id]
                         /\ p'.targetPathId = p.targetPathId
                         /\ p'.lastPathId = p.lastPathId
<1>1. ASSUME Inv, Start(TRUE), p.list # << >> PROVE Keeps
  <2>1. Fits(p) /\ p \in Planner
    BY <1>1, InvFits
  <2>2. /\ Fits(p') /\ p'.list = Unfinished(p.disk.path)
        /\ p'.targetPathId = p.setting.TargetPointId
        /\ p'.lastPathId = p.setting.LastPointId
    BY <1>1, <2>1, LoadFits DEF Start
  <2>3. p.disk.path \in Seq(WayPoint) /\ p.list \in Seq(WayPoint)
    BY <2>1 DEF Planner, Disk
  <2>4. /\ Len(p.list) = Len(p.disk.path)
        /\ \A i \in 1 .. Len(p.list) : p.list[i].id = p.disk.path[i].id
        /\ p.setting.TargetPointId = p.targetPathId
        /\ p.setting.LastPointId = p.lastPathId
    BY <1>1, <2>1 DEF Fits, SettingsFit
  <2>5. /\ p'.list \in Seq(WayPoint) /\ Len(p'.list) = Len(p.list)
        /\ \A i \in 1 .. Len(p.list) : p'.list[i].id = p.list[i].id
    BY <2>2, <2>3, <2>4, UnfinishedType
  <2>6. DOMAIN p'.list = 1 .. Len(p.list) /\ DOMAIN p.list = 1 .. Len(p.list)
    BY <2>3, <2>5, LenProperties
  <2>. QED
    BY <2>2, <2>4, <2>5, <2>6
<1>2. Inv /\ [Next]_vars => [Keeps]_vars
  BY <1>1
<1>3. []Inv /\ [][Next]_vars => [][Keeps]_vars
  BY <1>2, PTL
<1>. QED
  BY <1>3, Invariance, PTL DEF Spec, FlapKeepsProgress
-----------------------------------------------------------------------------
(* What the file holds, whatever happened since the scheduler sent its     *)
(* last route: the first points of that route, but for the marks of        *)
(* finished tasks.                                                         *)
Sourced == Beginning(Unfinished(p.disk.path), Unfinished(sent))

(* Unfinished clears the flag of each point, once and for all.             *)
LEMMA UnfinishedTwice ==
    ASSUME NEW s \in Seq(WayPoint)
    PROVE  Unfinished(Unfinished(s)) = Unfinished(s)
<1> DEFINE u == Unfinished(s)
<1>1. u \in Seq(WayPoint) /\ Len(u) = Len(s) /\ Unfinished(u) \in Seq(WayPoint)
      /\ Len(Unfinished(u)) = Len(s) /\ Len(s) \in Nat
  BY UnfinishedType, LenProperties
<1>2. ASSUME NEW i \in 1 .. Len(s) PROVE Unfinished(u)[i] = u[i]
  <2>1. u[i] = [s[i] EXCEPT !.actionFinish = FALSE] /\ s[i] \in WayPoint
    BY <1>2, ElementOfSeq DEF Unfinished
  <2>2. Unfinished(u)[i] = [u[i] EXCEPT !.actionFinish = FALSE]
    BY <1>1 DEF Unfinished
  <2>. QED
    BY <2>1, <2>2 DEF WayPoint
<1> HIDE DEF u
<1>3. Unfinished(u) = u
  BY <1>1, <1>2, SeqEqual
<1>. QED
  BY <1>3 DEF u

LEMMA BeginningUnfinished ==
    ASSUME NEW s \in Seq(WayPoint), NEW t \in Seq(WayPoint), Beginning(s, t)
    PROVE  Beginning(Unfinished(s), Unfinished(t))
<1>1. /\ Len(Unfinished(s)) = Len(s) /\ Len(Unfinished(t)) = Len(t)
      /\ Len(s) \in Nat /\ Len(t) \in Nat
  BY UnfinishedType, LenProperties
<1>2. ASSUME NEW i \in 1 .. Len(s) PROVE Unfinished(s)[i] = Unfinished(t)[i]
  <2>1. i \in 1 .. Len(t) /\ s[i] = t[i]
    BY <1>1 DEF Beginning
  <2>. QED
    BY <2>1 DEF Unfinished
<1>. QED
  BY <1>1, <1>2 DEF Beginning

(* Beginning is the IsPrefix of the property.                              *)
LEMMA BeginningIsPrefix ==
    ASSUME NEW s \in Seq(WayPoint), NEW t \in Seq(WayPoint), Beginning(s, t)
    PROVE  IsPrefix(s, t)
<1>1. Len(s) \in Nat /\ Len(t) \in Nat /\ Len(s) <= Len(t)
  BY LenProperties DEF Beginning
<1>2. \A i \in 1 .. Len(t) : t[i] \in WayPoint
  BY ElementOfSeq
<1>3. \A i \in 1 .. Len(s) : s[i] \in WayPoint
  BY ElementOfSeq
<1>4. /\ SubSeq(s, 1, Len(s)) \in Seq(WayPoint) /\ Len(SubSeq(s, 1, Len(s))) = Len(s)
      /\ \A i \in 1 .. Len(s) : SubSeq(s, 1, Len(s))[i] = s[i]
  BY <1>1, <1>3, SubSeqProperties
<1>5. /\ SubSeq(t, 1, Len(s)) \in Seq(WayPoint) /\ Len(SubSeq(t, 1, Len(s))) = Len(s)
      /\ \A i \in 1 .. Len(s) : SubSeq(t, 1, Len(s))[i] = t[i]
  BY <1>1, <1>2, SubSeqProperties
<1>6. SubSeq(s, 1, Len(s)) = SubSeq(t, 1, Len(s))
  BY <1>4, <1>5, SeqEqual DEF Beginning
<1>. QED
  BY <1>1, <1>6 DEF IsPrefix

(* Steps that keep the file.                                               *)
LEMMA FileKept ==
    ASSUME Inv,
           \/ \E o \in BOOLEAN : Start(o) \/ Reload(o)
           \/ Move
           \/ CleanLast
           \/ \E a \in Nat, h \in Nat : RewriteTarget(a, h)
           \/ \E h \in Nat : FinishAction(h)
           \/ Crash
    PROVE  p'.disk.path = p.disk.path /\ sent' = sent
<1>0. Fits(p) /\ p \in Planner
  BY InvFits
<1>1. ASSUME NEW o \in BOOLEAN, Start(o) \/ Reload(o)
      PROVE  p'.disk.path = p.disk.path /\ sent' = sent
  BY <1>0, <1>1, LoadFits, ReloadFits DEF Start, Reload
<1>2. CASE Move
  BY <1>0, <1>2, MoveNextFits, MoveLastFits, LookAheadFits DEF Move
<1>3. CASE CleanLast
  BY <1>0, <1>3, CleanLastFits DEF CleanLast
<1>4. ASSUME NEW a \in Nat, NEW h \in Nat, RewriteTarget(a, h)
      PROVE  p'.disk.path = p.disk.path /\ sent' = sent
  BY <1>0, <1>4, RewriteFits DEF RewriteTarget
<1>5. ASSUME NEW h \in Nat, FinishAction(h)
      PROVE  p'.disk.path = p.disk.path /\ sent' = sent
  BY <1>0, <1>5, FinishFits DEF FinishAction
<1>6. CASE Crash
  BY <1>6 DEF Crash, Restart, Boot
<1>. QED
  BY <1>1, <1>2, <1>3, <1>4, <1>5, <1>6

(* A crash while only the keys are written keeps the file too.             *)
LEMMA FileKeptByKeys ==
    ASSUME Inv, NEW q, Fits(q), CrashInSave(q, FALSE)
    PROVE  p'.disk.path = p.disk.path
<1>1. PICK d \in Disk : Restart(d) /\ d.path = p.disk.path
  BY InvFits, CrashInSaveDisk DEF Fits
<1>. QED
  BY <1>1 DEF Restart, Boot

(* A new route goes to the file whole, or as far as a crash lets it.       *)
LEMMA FileOfNewPath ==
    ASSUME Inv, NEW points \in Seq(WayPoint),
           GetNewPath(points, TRUE) \/ CrashInGetNewPath(points)
    PROVE  sent' = points /\ Beginning(p'.disk.path, Unfinished(points))
<1> DEFINE q == OnGetNewPath(p, points, TRUE)
<1>0. /\ Fits(p) /\ Fits(q) /\ q.list = Unfinished(points)
      /\ q.disk.path = Unfinished(points)
  BY InvFits, NewPathFits
<1>1. CASE GetNewPath(points, TRUE)
  <2>1. p' = q /\ sent' = points
    BY <1>1 DEF GetNewPath
  <2>2. Beginning(Unfinished(points), Unfinished(points))
    BY UnfinishedType, LenProperties DEF Beginning
  <2>. QED
    BY <1>0, <2>1, <2>2
<1>2. CASE CrashInGetNewPath(points)
  <2>1. CrashInSave(q, TRUE) /\ sent' = points
    BY <1>2 DEF CrashInGetNewPath
  <2>2. PICK d \in Disk : Restart(d) /\ Beginning(d.path, q.list)
    BY <1>0, <2>1, CrashInSaveDisk DEF Fits
  <2>. QED
    BY <1>0, <2>1, <2>2 DEF Restart, Boot
<1>. QED
  BY <1>1, <1>2

LEMMA SourcedInit == Init => Sourced
<1> SUFFICES ASSUME Init PROVE Sourced
  OBVIOUS
<1>1. p.disk.path = << >> /\ sent = << >>
  BY DEF Init, Boot, BlankDisk
<1>2. << >> \in Seq(WayPoint)
  BY EmptySeq
<1>3. Beginning(p.disk.path, sent)
  BY <1>1, <1>2, EmptySeq DEF Beginning
<1>. QED
  BY <1>1, <1>2, <1>3, BeginningUnfinished DEF Sourced

LEMMA SourcedNext ==
    ASSUME WritesSucceed, Inv, Sourced, [Next]_vars
    PROVE  Sourced'
<1>0. Inv' /\ Fits(p)
  BY NextInv, InvFits
<1>1. ASSUME p'.disk.path = p.disk.path, sent' = sent PROVE Sourced'
  BY <1>1 DEF Sourced
<1>2. ASSUME NEW points \in Seq(WayPoint),
             GetNewPath(points, TRUE) \/ CrashInGetNewPath(points)
      PROVE  Sourced'
  <2>1. sent' = points /\ Beginning(p'.disk.path, Unfinished(points))
    BY <1>2, FileOfNewPath
  <2>2. p'.disk.path \in Seq(WayPoint) /\ Unfinished(points) \in Seq(WayPoint)
    BY <1>0, UnfinishedType DEF Inv, Reports, TypeOK, Planner, Disk
  <2>3. Beginning(Unfinished(p'.disk.path), Unfinished(Unfinished(points)))
    BY <2>1, <2>2, BeginningUnfinished
  <2>. QED
    BY <2>1, <2>3, UnfinishedTwice DEF Sourced
<1>3. ASSUME NEW points \in Paths, NEW o \in WriteOpens, GetNewPath(points, o)
      PROVE  Sourced'
  BY <1>2, <1>3, PathsAssumption DEF WritesSucceed
<1>4. ASSUME NEW points \in Paths, CrashInGetNewPath(points) PROVE Sourced'
  BY <1>2, <1>4, PathsAssumption
<1>5. CASE CrashInMove
  <2>1. PICK q \in {MoveToNextStation(p), MoveToLastStation(p)} : CrashInSave(q, FALSE)
    BY <1>5 DEF CrashInMove
  <2>2. Fits(q)
    BY <1>0, <2>1, MoveNextFits, MoveLastFits
  <2>. QED
    BY <1>1, <1>5, <2>1, <2>2, FileKeptByKeys DEF CrashInMove
<1>6. CASE CrashInReload
  BY <1>0, <1>1, <1>6, ResetFits, FileKeptByKeys DEF CrashInReload
<1>7. CASE UNCHANGED vars
  BY <1>1, <1>7 DEF vars
<1>8. ASSUME NEW o \in ReadOpens, Start(o) \/ Reload(o) PROVE Sourced'
  BY <1>1, <1>8, FileKept, OpensAssumption
<1>9. CASE Move \/ CleanLast \/ Crash
  BY <1>1, <1>9, FileKept
<1>10. ASSUME NEW a \in {ActionStop, ActionLiftUpDown}, NEW h \in Heights,
              RewriteTarget(a, h)
       PROVE  Sourced'
  <2>1. a \in Nat /\ h \in Nat
    BY HeightsAssumption DEF ActionStop, ActionLiftUpDown
  <2>. QED
    BY <1>1, <1>10, <2>1, FileKept
<1>11. ASSUME NEW h \in Heights, FinishAction(h) PROVE Sourced'
  BY <1>1, <1>11, HeightsAssumption, FileKept
<1>. QED
  BY <1>3, <1>4, <1>5, <1>6, <1>7, <1>8, <1>9, <1>10, <1>11 DEF Next

(* After any number of moves, edits of points, loads and crashes, a load   *)
(* brings back the route the scheduler sent last, or the part of it that   *)
(* was on the disk when the process died; never points of another route.   *)
THEOREM LoadIsFaithful == WritesSucceed => (Spec => LoadGivesSentRoute)
<1> SUFFICES ASSUME WritesSucceed PROVE Spec => LoadGivesSentRoute
  OBVIOUS
<1> DEFINE Gives == \A o \in ReadOpens :
                        Start(o) \/ Reload(o) => IsPrefix(p'.list, Unfinished(sent))
<1>1. ASSUME Inv, Sourced, NEW o \in ReadOpens, Start(o) \/ Reload(o)
      PROVE  IsPrefix(p'.list, Unfinished(sent))
  <2>1. Fits(p) /\ p.disk.path \in Seq(WayPoint) /\ sent \in Seq(WayPoint) /\ o \in BOOLEAN
    BY <1>1, InvFits, OpensAssumption DEF Inv, Reports, TypeOK, Planner, Disk
  <2>2. p'.list = Unfinished(p.disk.path) \/ p'.list = << >>
    BY <1>1, <2>1, LoadFits, ReloadFits DEF Start, Reload
  <2>3. Unfinished(p.disk.path) \in Seq(WayPoint) /\ Unfinished(sent) \in Seq(WayPoint)
    BY <2>1, UnfinishedType
  <2>4. << >> \in Seq(WayPoint) /\ Beginning(<< >>, Unfinished(sent))
    BY <2>3, EmptySeq, LenProperties DEF Beginning
  <2>. QED
    BY <1>1, <2>2, <2>3, <2>4, BeginningIsPrefix DEF Sourced
<1>2. Inv /\ Sourced => Gives
  BY <1>1
<1>3. Inv /\ Sourced /\ [Next]_vars => (Inv /\ Sourced)'
  BY NextInv, SourcedNext
<1>4. Init => Inv /\ Sourced
  BY InitInv, SourcedInit
<1> HIDE DEF Gives
<1>5. Inv /\ Sourced /\ [Next]_vars => [Gives]_vars
  BY <1>2
<1>6. Init /\ [][Next]_vars => [][Gives]_vars
  BY <1>3, <1>4, <1>5, PTL
<1>. QED
  BY <1>6 DEF Spec, LoadGivesSentRoute, Gives
=============================================================================
