---------------------------- MODULE RoutePlanner ----------------------------
(***************************************************************************)
(* CAgvRoutePlanner as the main thread drives it: routes arrive from the   *)
(* scheduler, the cursor moves over them, the network comes and goes (each *)
(* evNetworkOK calls Start, which loads the route from the file), the      *)
(* process is killed and started again, also in the middle of a save.      *)
(* All the operations run on the main thread, so each of them is a step.   *)
(***************************************************************************)
EXTENDS RouteOps, SequencesExt

CONSTANTS
    Paths,          \* the routes the scheduler may send
    Heights,        \* fork heights, as lastLiftHight and in rewritten points
    ReadOpens,      \* outcomes of fopen(PATHFILE, "r")
    WriteOpens,     \* outcomes of fopen(PATHFILE, "w+")
    MaxCrashes      \* bound: how often the process dies

ASSUME PathsAssumption == Paths \subseteq Seq(WayPoint)
ASSUME HeightsAssumption == Heights \subseteq Nat
ASSUME OpensAssumption == ReadOpens \subseteq BOOLEAN /\ WriteOpens \subseteq BOOLEAN
ASSUME CrashesAssumption == MaxCrashes \in Nat

VARIABLES
    p,          \* the planner
    started,    \* Start was called in this process: the scheduler thread runs
    sent,       \* the route the scheduler sent last
    reported,   \* indices of points whose task was reported since the load
    repeated,   \* some task was reported again
    crashes,    \* crashes so far
    resume      \* targetPathId when the process was killed between two
                \* operations, until the next Start; otherwise -1

vars == <<p, started, sent, reported, repeated, crashes, resume>>

TypeOK ==
    /\ p \in Planner
    /\ started \in BOOLEAN
    /\ sent \in Seq(WayPoint)
    /\ reported \subseteq Nat
    /\ repeated \in BOOLEAN
    /\ crashes \in 0 .. MaxCrashes
    /\ resume \in Int

Init ==
    /\ p = Boot(BlankDisk)
    /\ started = FALSE
    /\ sent = << >>
    /\ reported = {}
    /\ repeated = FALSE
    /\ crashes = 0
    /\ resume = -1

(* A new list of points replaces the old one: its tasks are new too.       *)
NewList == reported' = {} /\ UNCHANGED <<repeated, crashes>>

(* evNetworkOK: CAgvRoutePlanner::Start loads the route kept in the file.  *)
Start(opened) ==
    /\ p' = loadPathInfo(p, opened)
    /\ started' = TRUE
    /\ resume' = -1
    /\ NewList
    /\ UNCHANGED sent

(* evGetNewPath, which only the scheduler's thread posts.                  *)
GetNewPath(points, opened) ==
    /\ started
    /\ p' = OnGetNewPath(p, points, opened)
    /\ sent' = points
    /\ NewList
    /\ UNCHANGED <<started, resume>>

(* evKeyAutoMode and evPathFinished.                                       *)
Reload(opened) ==
    /\ p' = ReloadPathList(p, opened)
    /\ resume' = -1
    /\ NewList
    /\ UNCHANGED <<started, sent>>

(* The moves of the cursor that CAgvCar makes.                             *)
Move ==
    /\ p' \in {MoveToNextStation(p), MoveToLastStation(p), LookAhead(p)}
    /\ UNCHANGED <<started, sent, reported, repeated, crashes, resume>>

(* evKeyManualMode.                                                        *)
CleanLast ==
    /\ p' = CleanLastStationPoint(p)
    /\ UNCHANGED <<started, sent, reported, repeated, crashes, resume>>

(* CAgvCar writes action and liftHeight of the target through the pointer  *)
(* GetTargetStation gave it.                                               *)
RewriteTarget(action, height) ==
    /\ HasTarget(p)
    /\ p' = [p EXCEPT !.list[p.targetPathId + 1] =
                  [@ EXCEPT !.action = action, !.liftHeight = height]]
    /\ UNCHANGED <<started, sent, reported, repeated, crashes, resume>>

FinishAction(lastLiftHight) ==
    /\ HasTarget(p)
    /\ p' = OnActionFinished(p)
    /\ IF TaskReport(p, lastLiftHight) = {} THEN UNCHANGED <<reported, repeated>>
       ELSE /\ reported' = reported \cup {p.targetPathId}
            /\ repeated' = (repeated \/ p.targetPathId \in reported)
    /\ UNCHANGED <<started, sent, crashes, resume>>

(* The process dies and main() starts again.                               *)
Restart(disk) ==
    /\ crashes < MaxCrashes
    /\ crashes' = crashes + 1
    /\ p' = Boot(disk)
    /\ started' = FALSE
    /\ reported' = {}
    /\ UNCHANGED repeated

Crash ==
    /\ Restart(p.disk)
    /\ resume' = IF p.list = << >> THEN resume ELSE p.targetPathId
    /\ UNCHANGED sent

(* The process dies inside savePathInfo, called by the operation that      *)
(* turns p into q.                                                         *)
CrashInSave(q, all) ==
    /\ \E d \in DiskDuringSave([q EXCEPT !.disk = p.disk], all) : Restart(d)
    /\ resume' = -1

CrashInMove ==
    /\ p.list # << >>
    /\ \E q \in {MoveToNextStation(p), MoveToLastStation(p)} : CrashInSave(q, FALSE)
    /\ UNCHANGED sent

CrashInReload ==
    /\ CrashInSave(ResetPathList(p), FALSE)
    /\ UNCHANGED sent

CrashInGetNewPath(points) ==
    /\ started
    /\ CrashInSave(OnGetNewPath(p, points, TRUE), TRUE)
    /\ sent' = points

Next ==
    \/ \E o \in ReadOpens : Start(o) \/ Reload(o)
    \/ \E points \in Paths, o \in WriteOpens : GetNewPath(points, o)
    \/ Move
    \/ CleanLast
    \/ \E a \in {ActionStop, ActionLiftUpDown}, h \in Heights : RewriteTarget(a, h)
    \/ \E h \in Heights : FinishAction(h)
    \/ Crash
    \/ CrashInMove
    \/ CrashInReload
    \/ \E points \in Paths : CrashInGetNewPath(points)

Spec == Init /\ [][Next]_vars

-----------------------------------------------------------------------------
(* The cursor never leaves the route and the two indices agree: whatever   *)
(* sequence of moves, loads, new routes and crashes came before, a route   *)
(* that is not empty has a target (CAgvCar dereferences GetTargetStation   *)
(* without a test), and past the first point "last" is the point before    *)
(* the target.                                                             *)
CursorOK == CursorFits(p)

(* What a later Start needs: the settings and the file, written by         *)
(* different calls at different times and read back after any number of    *)
(* moves or a crash, describe a place on one route.                        *)
CursorSaved == SettingsFit(p)

(* A network flap in the middle of a route (Start on a running car) loads  *)
(* a file and a cursor that were written by different calls, at different  *)
(* times: together they must still be the route and the place on it that   *)
(* the car had.                                                            *)
FlapKeepsProgress ==
    [][Start(TRUE) /\ p.list # << >>
        => /\ [i \in DOMAIN p'.list |-> p'.list[i].id] = [i \in DOMAIN p.list |-> p.list[i].id]
           /\ p'.targetPathId = p.targetPathId
           /\ p'.lastPathId = p.lastPathId]_vars

(* What a load brings back is what the scheduler sent, without the car's   *)
(* own edits of the points in memory; after a crash in the middle of       *)
(* writing the file it may be cut short, never mixed with another route.   *)
LoadGivesSentRoute ==
    [][\A o \in ReadOpens : Start(o) \/ Reload(o) => IsPrefix(p'.list, Unfinished(sent))]_vars

(* A point whose task was reported is marked as finished.                  *)
ReportedFinished ==
    \A i \in reported : InRoute(p, i) /\ p.list[i + 1].actionFinish

(* The task of a point is reported to the scheduler at most once for each  *)
(* time its route was received or loaded, although the cursor moves back   *)
(* and forth over the points and lift events may come twice.               *)
ReportedOnce == ~repeated

(* "恢复执行路线", resume the route (AgvCar.cpp:120): StartRun resumes     *)
(* when targetPathId is not 0, so the cursor written at each move should   *)
(* be the one a restarted process loads.                                   *)
RestartResumesRoute ==
    [][\A o \in ReadOpens : Start(o) /\ resume > 0 /\ p'.list # << >> => p'.targetPathId = resume]_vars
=============================================================================
