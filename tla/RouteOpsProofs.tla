--------------------------- MODULE RouteOpsProofs ---------------------------
(***************************************************************************)
(* What each method of CAgvRoutePlanner does to the parts of a planner,    *)
(* and that it keeps CursorFits and SettingsFit.                           *)
(***************************************************************************)
EXTENDS RouteOps, TLAPS, SequenceTheorems

Fits(q) == q \in Planner /\ CursorFits(q) /\ SettingsFit(q)

(* The points of `path` are the first points of `route`.                   *)
Beginning(path, route) ==
    Len(path) <= Len(route) /\ \A i \in 1 .. Len(path) : path[i] = route[i]

-----------------------------------------------------------------------------
(* The target is a point of the route.                                     *)
LEMMA TargetType ==
    ASSUME NEW q \in Planner, HasTarget(q)
    PROVE  /\ q.targetPathId + 1 \in 1 .. Len(q.list)
           /\ q.list \in Seq(WayPoint)
           /\ GetTargetStation(q) \in WayPoint
<1>1. q.list \in Seq(WayPoint) /\ q.targetPathId \in Int /\ Len(q.list) \in Nat
  BY LenProperties DEF Planner
<1>2. q.targetPathId + 1 \in 1 .. Len(q.list)
  BY <1>1 DEF HasTarget, InRoute
<1>. QED
  BY <1>1, <1>2, ElementOfSeq DEF GetTargetStation

(* A list of points stays one when every point has its flag cleared.       *)
LEMMA UnfinishedType ==
    ASSUME NEW s \in Seq(WayPoint)
    PROVE  /\ Unfinished(s) \in Seq(WayPoint)
           /\ Len(Unfinished(s)) = Len(s)
           /\ \A i \in 1 .. Len(s) :
                  /\ Unfinished(s)[i].id = s[i].id
                  /\ Unfinished(s)[i].runMode = s[i].runMode
                  /\ Unfinished(s)[i].align = s[i].align
                  /\ ~Unfinished(s)[i].actionFinish
<1> DEFINE u == [i \in 1 .. Len(s) |-> [s[i] EXCEPT !.actionFinish = FALSE]]
<1>1. ASSUME NEW i \in 1 .. Len(s)
      PROVE  /\ [s[i] EXCEPT !.actionFinish = FALSE] \in WayPoint
             /\ [s[i] EXCEPT !.actionFinish = FALSE].id = s[i].id
             /\ [s[i] EXCEPT !.actionFinish = FALSE].runMode = s[i].runMode
             /\ [s[i] EXCEPT !.actionFinish = FALSE].align = s[i].align
             /\ ~[s[i] EXCEPT !.actionFinish = FALSE].actionFinish
  <2>1. s[i] \in WayPoint
    BY <1>1, ElementOfSeq
  <2>. QED
    BY <2>1 DEF WayPoint
<1>2. Len(s) \in Nat
  BY LenProperties
<1>3. u \in Seq(WayPoint) /\ Len(u) = Len(s)
  <2>1. u \in [1 .. Len(s) -> WayPoint]
    BY <1>1
  <2>. QED
    BY <2>1, <1>2, LenProperties
<1>. QED
  BY <1>1, <1>3 DEF Unfinished

(* savePathInfo touches the settings and the disk only; without `all` it   *)
(* leaves the file alone.                                                  *)
LEMMA SaveKeysEffect ==
    ASSUME NEW q \in Planner
    PROVE  LET r == savePathInfo(q, FALSE, TRUE)
           IN /\ r \in Planner
              /\ r.list = q.list
              /\ r.targetPathId = q.targetPathId
              /\ r.lastPathId = q.lastPathId
              /\ r.setting.TargetPointId = q.targetPathId
              /\ r.setting.LastPointId = q.lastPathId
              /\ r.disk.TargetPointId = q.disk.TargetPointId
              /\ r.disk.path = q.disk.path
BY DEF savePathInfo, Planner, Disk

LEMMA SaveAllEffect ==
    ASSUME NEW q \in Planner
    PROVE  LET r == savePathInfo(q, TRUE, TRUE)
           IN /\ r \in Planner
              /\ r.list = q.list
              /\ r.targetPathId = q.targetPathId
              /\ r.lastPathId = q.lastPathId
              /\ r.setting.TargetPointId = q.targetPathId
              /\ r.setting.LastPointId = q.lastPathId
              /\ r.disk.TargetPointId = q.disk.TargetPointId
              /\ r.disk.path = q.list
BY DEF savePathInfo, Planner, Disk

LEMMA ListType ==
    ASSUME NEW q \in Planner, NEW l \in Seq(WayPoint), NEW t \in Int, NEW k \in Int
    PROVE  [q EXCEPT !.list = l, !.targetPathId = t, !.lastPathId = k] \in Planner
BY DEF Planner

LEMMA ClearEffect ==
    ASSUME NEW q \in Planner
    PROVE  LET r == clearPathList(q)
           IN /\ r \in Planner
              /\ r.list = << >> /\ r.targetPathId = 0 /\ r.lastPathId = -1
              /\ r.setting = q.setting /\ r.disk = q.disk
<1>1. << >> \in Seq(WayPoint)
  BY EmptySeq
<1>. QED
  <2> DEFINE r == clearPathList(q)
  <2>1. r = [q EXCEPT !.list = << >>, !.targetPathId = 0, !.lastPathId = -1]
    BY DEF clearPathList
  <2>3. r \in Planner
    <3>1. \A l \in Seq(WayPoint), t, k \in Int :
              [q EXCEPT !.list = l, !.targetPathId = t, !.lastPathId = k] \in Planner
      BY ListType
    <3>2. \A t, k \in Int :
              [q EXCEPT !.list = << >>, !.targetPathId = t, !.lastPathId = k] \in Planner
      BY <3>1, <1>1
    <3>3. [q EXCEPT !.list = << >>, !.targetPathId = 0, !.lastPathId = -1] \in Planner
      <4>1. PICK t \in Int, k \in Int : t = 0 /\ k = -1
        OBVIOUS
      <4>2. [q EXCEPT !.list = << >>, !.targetPathId = t, !.lastPathId = k] \in Planner
        BY <3>2
      <4>. QED
        BY <4>1, <4>2
    <3>. QED
      BY <3>3, <2>1
  <2>4. r.list = << >>
    BY <2>1 DEF Planner
  <2>5. r.targetPathId = 0 /\ r.lastPathId = -1
    BY <2>1 DEF Planner
  <2>6. r.setting = q.setting /\ r.disk = q.disk
    BY <2>1 DEF Planner
  <2>. QED
    BY <2>3, <2>4, <2>5, <2>6

-----------------------------------------------------------------------------
(* The methods keep the type of a planner from any planner, whether or not *)
(* its cursor fits its route and whether or not the file can be written.   *)
LEMMA SaveType ==
    ASSUME NEW q \in Planner, NEW all \in BOOLEAN, NEW o \in BOOLEAN
    PROVE  savePathInfo(q, all, o) \in Planner
<1>1. CASE ~all
  BY <1>1 DEF savePathInfo, Planner, Disk
<1>2. CASE all /\ o
  BY <1>2 DEF savePathInfo, Planner, Disk
<1>3. CASE all /\ ~o
  BY <1>3 DEF savePathInfo, Planner, Disk
<1>. QED
  BY <1>1, <1>2, <1>3

LEMMA LoadType ==
    ASSUME NEW q \in Planner, NEW o \in BOOLEAN
    PROVE  loadPathInfo(q, o) \in Planner
<1>1. clearPathList(q) \in Planner
  BY ClearEffect
<1>2. /\ Unfinished(q.disk.path) \in Seq(WayPoint)
      /\ q.setting.TargetPointId \in Int /\ q.setting.LastPointId \in Int
  <2>1. q.disk.path \in Seq(WayPoint)
    BY DEF Planner, Disk
  <2>. QED
    BY <2>1, UnfinishedType DEF Planner
<1>3. [clearPathList(q) EXCEPT !.list = Unfinished(q.disk.path),
                               !.targetPathId = q.setting.TargetPointId,
                               !.lastPathId = q.setting.LastPointId] \in Planner
  BY <1>1, <1>2, ListType
<1>. QED
  BY <1>1, <1>3 DEF loadPathInfo

LEMMA NewPathType ==
    ASSUME NEW q \in Planner, NEW points \in Seq(WayPoint), NEW o \in BOOLEAN
    PROVE  OnGetNewPath(q, points, o) \in Planner
<1>1. clearPathList(q) \in Planner /\ Unfinished(points) \in Seq(WayPoint)
  BY ClearEffect, UnfinishedType
<1>2. [clearPathList(q) EXCEPT !.list = Unfinished(points)] \in Planner
  BY <1>1 DEF Planner
<1>. QED
  BY <1>2, SaveType DEF OnGetNewPath

LEMMA ReloadType ==
    ASSUME NEW q \in Planner, NEW o \in BOOLEAN
    PROVE  ResetPathList(q) \in Planner /\ ReloadPathList(q, o) \in Planner
<1>1. ResetPathList(q) \in Planner
  BY ClearEffect, SaveType DEF ResetPathList
<1>. QED
  BY <1>1, LoadType DEF ReloadPathList

-----------------------------------------------------------------------------
(* loadPathInfo after any history: the file and the settings agree.        *)
LEMMA LoadFits ==
    ASSUME NEW q, Fits(q), NEW o \in BOOLEAN
    PROVE  LET r == loadPathInfo(q, o)
           IN /\ Fits(r)
              /\ r.disk.path = q.disk.path
              /\ o => /\ r.list = Unfinished(q.disk.path)
                      /\ r.targetPathId = q.setting.TargetPointId
                      /\ r.lastPathId = q.setting.LastPointId
              /\ ~o => r.list = << >>
<1> DEFINE c == clearPathList(q)
           r == loadPathInfo(q, o)
<1>0. q \in Planner /\ SettingsFit(q)
  BY DEF Fits
<1>1. /\ c \in Planner
      /\ c.list = << >> /\ c.targetPathId = 0 /\ c.lastPathId = -1
      /\ c.setting = q.setting /\ c.disk = q.disk
  BY <1>0, ClearEffect
<1>2. CASE ~o
  <2>1. r = c
    BY <1>2 DEF loadPathInfo
  <2>2. CursorFits(c) /\ SettingsFit(c)
    BY <1>0, <1>1 DEF CursorFits, SettingsFit
  <2>. QED
    BY <1>1, <1>2, <2>1, <2>2 DEF Fits
<1>3. CASE o
  <2> DEFINE path == q.disk.path
  <2>1. path \in Seq(WayPoint) /\ q.setting.TargetPointId \in Int /\ q.setting.LastPointId \in Int
    BY <1>0 DEF Planner, Disk
  <2>2. /\ Unfinished(path) \in Seq(WayPoint)
        /\ Len(Unfinished(path)) = Len(path)
        /\ \A i \in 1 .. Len(path) : Unfinished(path)[i].id = path[i].id
    BY <2>1, UnfinishedType
  <2>3. r = [c EXCEPT !.list = Unfinished(path),
                      !.targetPathId = q.setting.TargetPointId,
                      !.lastPathId = q.setting.LastPointId]
    BY <1>3 DEF loadPathInfo
  <2>4. /\ r \in Planner
        /\ r.list = Unfinished(path)
        /\ r.targetPathId = q.setting.TargetPointId
        /\ r.lastPathId = q.setting.LastPointId
        /\ r.setting = q.setting /\ r.disk = q.disk
    BY <1>1, <2>1, <2>2, <2>3 DEF Planner
  <2>5. Len(path) \in Nat /\ (r.list = << >> <=> Len(path) = 0)
    BY <2>1, <2>2, <2>4, LenProperties, EmptySeq
  <2>6. SettingsFit(r)
    BY <1>0, <2>2, <2>4 DEF SettingsFit
  <2>7. CursorFits(r)
    BY <1>0, <2>1, <2>2, <2>4, <2>5 DEF CursorFits, SettingsFit, HasTarget, InRoute
  <2>. QED
    BY <1>3, <2>4, <2>6, <2>7 DEF Fits
<1>. QED
  BY <1>2, <1>3

(* OnGetNewPath with a file that can be written.                           *)
LEMMA NewPathFits ==
    ASSUME NEW q, Fits(q), NEW points \in Seq(WayPoint)
    PROVE  LET r == OnGetNewPath(q, points, TRUE)
           IN  /\ Fits(r)
               /\ r.list = Unfinished(points) /\ r.disk.path = Unfinished(points)
               /\ r.targetPathId = 0
<1> DEFINE u == Unfinished(points)
           c == clearPathList(q)
           d == [c EXCEPT !.list = u]
           r == OnGetNewPath(q, points, TRUE)
<1>0. q \in Planner /\ q.disk.TargetPointId = 0
  BY DEF Fits, SettingsFit
<1>1. /\ c \in Planner
      /\ c.targetPathId = 0 /\ c.lastPathId = -1
      /\ c.setting = q.setting /\ c.disk = q.disk
  BY <1>0, ClearEffect
<1>2. u \in Seq(WayPoint)
  BY UnfinishedType
<1>3. /\ d \in Planner /\ d.list = u
      /\ d.targetPathId = 0 /\ d.lastPathId = -1 /\ d.disk = q.disk
  BY <1>1, <1>2 DEF Planner
<1>4. r = savePathInfo(d, TRUE, TRUE)
  BY DEF OnGetNewPath
<1>5. /\ r \in Planner /\ r.list = u
      /\ r.targetPathId = 0 /\ r.lastPathId = -1
      /\ r.setting.TargetPointId = 0 /\ r.setting.LastPointId = -1
      /\ r.disk.TargetPointId = 0 /\ r.disk.path = u
  BY <1>0, <1>3, <1>4, SaveAllEffect
<1> HIDE DEF r, u
<1>6. Len(u) \in Nat /\ (u # << >> => Len(u) \in Nat \ {0})
  BY <1>2, EmptySeq, LenProperties
<1>7. CursorFits(r)
  <2>1. ~(r.targetPathId > 0)
    BY <1>5
  <2>2. u # << >> => 0 <= r.targetPathId /\ r.targetPathId < Len(u)
    BY <1>5, <1>6
  <2>. QED
    BY <1>5, <2>1, <2>2 DEF CursorFits, HasTarget, InRoute
<1>8. SettingsFit(r)
  <2>1. r.setting.TargetPointId \in 0 .. Len(u)
    BY <1>5, <1>6
  <2>2. ~(r.setting.TargetPointId > 0)
    BY <1>5
  <2>3. /\ r.setting.TargetPointId = r.targetPathId
        /\ r.setting.LastPointId = r.lastPathId
    BY <1>5
  <2>. QED
    BY <1>5, <2>1, <2>2, <2>3 DEF SettingsFit
<1>. QED
  BY <1>5, <1>7, <1>8 DEF Fits, r, u

(* ResetPathList forgets the route but not the file.                       *)
LEMMA ResetFits ==
    ASSUME NEW q, Fits(q)
    PROVE  LET r == ResetPathList(q)
           IN Fits(r) /\ r.disk.path = q.disk.path /\ r.setting.TargetPointId = 0
<1> DEFINE c == clearPathList(q)
           r == ResetPathList(q)
<1>0. q \in Planner /\ q.disk.TargetPointId = 0
  BY DEF Fits, SettingsFit
<1>1. /\ c \in Planner
      /\ c.list = << >> /\ c.targetPathId = 0 /\ c.lastPathId = -1
      /\ c.setting = q.setting /\ c.disk = q.disk
  BY <1>0, ClearEffect
<1>2. /\ r \in Planner /\ r.list = << >> /\ r.targetPathId = 0
      /\ r.setting.TargetPointId = 0
      /\ r.disk.TargetPointId = 0 /\ r.disk.path = q.disk.path
  BY <1>0, <1>1, SaveKeysEffect DEF ResetPathList
<1>3. Len(q.disk.path) \in Nat
  BY <1>0, LenProperties DEF Planner, Disk
<1>. QED
  BY <1>2, <1>3 DEF Fits, CursorFits, SettingsFit

LEMMA ReloadFits ==
    ASSUME NEW q, Fits(q), NEW o \in BOOLEAN
    PROVE  /\ Fits(ReloadPathList(q, o))
           /\ ReloadPathList(q, o).disk.path = q.disk.path
           /\ o => /\ ReloadPathList(q, o).list = Unfinished(q.disk.path)
                   /\ ReloadPathList(q, o).targetPathId = 0
           /\ ~o => ReloadPathList(q, o).list = << >>
BY ResetFits, LoadFits DEF ReloadPathList

-----------------------------------------------------------------------------
(* The tail of a move, for a cursor that was moved inside the route.       *)
LEMMA NoteEffect ==
    ASSUME NEW q \in Planner
    PROVE  LET r == NoteStation(q)
           IN /\ r \in Planner
              /\ r.list = q.list
              /\ r.targetPathId = q.targetPathId
              /\ r.lastPathId = q.lastPathId
              /\ r.setting.TargetPointId = q.targetPathId
              /\ r.setting.LastPointId = q.lastPathId
              /\ r.disk.TargetPointId = q.disk.TargetPointId
              /\ r.disk.path = q.disk.path
<1> DEFINE n == IF InRoute(q, q.lastPathId)
                THEN [q EXCEPT !.lastStationPoint = GetLastStation(q).id] ELSE q
<1>1. /\ n \in Planner /\ n.list = q.list /\ n.targetPathId = q.targetPathId
      /\ n.lastPathId = q.lastPathId /\ n.disk = q.disk
  <2>1. CASE InRoute(q, q.lastPathId)
    <3>1. q.list \in Seq(WayPoint) /\ q.lastPathId \in Int
      BY DEF Planner
    <3>2. q.lastPathId + 1 \in 1 .. Len(q.list)
      BY <2>1, <3>1, LenProperties DEF InRoute
    <3>3. GetLastStation(q) \in WayPoint
      BY <3>1, <3>2, ElementOfSeq DEF GetLastStation
    <3>4. GetLastStation(q).id \in Nat
      BY <3>3 DEF WayPoint
    <3>. QED
      BY <2>1, <3>4 DEF Planner
  <2>2. CASE ~InRoute(q, q.lastPathId)
    BY <2>2
  <2>. QED
    BY <2>1, <2>2
<1>2. NoteStation(q) = savePathInfo(n, FALSE, TRUE)
  BY DEF NoteStation
<1> HIDE DEF n
<1>3. /\ NoteStation(q) \in Planner
      /\ NoteStation(q).list = n.list
      /\ NoteStation(q).targetPathId = n.targetPathId
      /\ NoteStation(q).lastPathId = n.lastPathId
      /\ NoteStation(q).setting.TargetPointId = n.targetPathId
      /\ NoteStation(q).setting.LastPointId = n.lastPathId
      /\ NoteStation(q).disk.TargetPointId = n.disk.TargetPointId
      /\ NoteStation(q).disk.path = n.disk.path
  BY <1>1, <1>2, SaveKeysEffect, ZenonT(40)
<1>. QED
  BY <1>1, <1>3

(* The moves keep the type and the points, wherever the cursor is.         *)
LEMMA MoveType ==
    ASSUME NEW q \in Planner
    PROVE  /\ MoveToNextStation(q) \in Planner /\ MoveToNextStation(q).list = q.list
           /\ MoveToLastStation(q) \in Planner /\ MoveToLastStation(q).list = q.list
<1>0. q.targetPathId \in Int /\ q.list \in Seq(WayPoint)
  BY DEF Planner
<1>1. ASSUME NEW t \in Int, NEW k \in Int
      PROVE  LET m == [q EXCEPT !.targetPathId = t, !.lastPathId = k]
             IN NoteStation(m) \in Planner /\ NoteStation(m).list = q.list
  <2> DEFINE m == [q EXCEPT !.targetPathId = t, !.lastPathId = k]
  <2>1. m \in Planner /\ m.list = q.list
    BY DEF Planner
  <2> HIDE DEF m
  <2>2. NoteStation(m) \in Planner /\ NoteStation(m).list = m.list
    BY <2>1, NoteEffect
  <2>. QED
    BY <2>1, <2>2 DEF m
<1>2. NoteStation(q) \in Planner /\ NoteStation(q).list = q.list
  BY NoteEffect
<1>3. [q EXCEPT !.lastPathId = q.targetPathId, !.targetPathId = q.targetPathId + 1]
        = [q EXCEPT !.targetPathId = q.targetPathId + 1, !.lastPathId = q.targetPathId]
  BY DEF Planner
<1> DEFINE n == [q EXCEPT !.targetPathId = q.targetPathId + 1, !.lastPathId = q.targetPathId]
           b == [q EXCEPT !.targetPathId = q.targetPathId - 1, !.lastPathId = q.targetPathId - 2]
<1>4. NoteStation(n) \in Planner /\ NoteStation(n).list = q.list
  <2>1. q.targetPathId + 1 \in Int
    BY <1>0
  <2>. QED
    BY <1>0, <1>1, <2>1
<1>5. NoteStation(b) \in Planner /\ NoteStation(b).list = q.list
  <2>1. q.targetPathId - 1 \in Int /\ q.targetPathId - 2 \in Int
    BY <1>0
  <2>. QED
    BY <1>1, <2>1
<1> HIDE DEF n, b
<1>6. MoveToNextStation(q) \in {q, NoteStation(q), NoteStation(n)}
  BY <1>3 DEF MoveToNextStation, n
<1>7. MoveToLastStation(q) \in {q, NoteStation(q), NoteStation(b)}
  BY DEF MoveToLastStation, b
<1>. QED
  BY <1>2, <1>4, <1>5, <1>6, <1>7

LEMMA LookAheadType ==
    ASSUME NEW q \in Planner
    PROVE  LookAhead(q) \in Planner /\ LookAhead(q).list = q.list
<1> DEFINE n == MoveToNextStation(q)
<1>1. n \in Planner /\ n.list = q.list
  BY MoveType
<1> HIDE DEF n
<1>2. MoveToLastStation(n) \in Planner /\ MoveToLastStation(n).list = n.list
  BY <1>1, MoveType
<1>. QED
  BY <1>1, <1>2 DEF LookAhead, n

(* A cursor moved by one inside the route, then noted and saved.           *)
LEMMA MovedFits ==
    ASSUME NEW q, Fits(q), q.list # << >>,
           NEW t \in 0 .. Len(q.list) - 1, NEW m \in Planner,
           m.list = q.list, m.targetPathId = t, m.disk = q.disk,
           t > 0 => m.lastPathId = t - 1
    PROVE  LET r == NoteStation(m)
           IN  /\ Fits(r)
               /\ r.list = q.list /\ r.disk.path = q.disk.path /\ r.targetPathId = t
<1> DEFINE r == NoteStation(m)
<1>1. /\ r \in Planner /\ r.list = q.list /\ r.targetPathId = t
      /\ r.lastPathId = m.lastPathId
      /\ r.setting.TargetPointId = t /\ r.setting.LastPointId = m.lastPathId
      /\ r.disk.TargetPointId = q.disk.TargetPointId /\ r.disk.path = q.disk.path
  BY NoteEffect
<1>2. Len(q.list) \in Nat /\ Len(q.list) = Len(q.disk.path)
  BY LenProperties DEF Fits, Planner, SettingsFit
<1>3. CursorFits(r)
  BY <1>1, <1>2 DEF CursorFits, HasTarget, InRoute
<1>4. SettingsFit(r)
  BY <1>1, <1>2 DEF SettingsFit, Fits
<1>. QED
  BY <1>1, <1>3, <1>4 DEF Fits, r

LEMMA MoveNextFits ==
    ASSUME NEW q, Fits(q)
    PROVE  LET r == MoveToNextStation(q)
           IN  /\ Fits(r)
               /\ r.list = q.list /\ r.disk.path = q.disk.path
               /\ r.targetPathId = IF CanMoveNext(q) THEN q.targetPathId + 1
                                                     ELSE q.targetPathId
<1> DEFINE m == [q EXCEPT !.lastPathId = q.targetPathId, !.targetPathId = q.targetPathId + 1]
<1>0. q \in Planner /\ CursorFits(q) /\ Len(q.list) \in Nat /\ (Len(q.list) = 0 <=> q.list = << >>)
  BY LenProperties, EmptySeq DEF Fits, Planner
<1>1. CASE q.list = << >>
  BY <1>0, <1>1 DEF MoveToNextStation, CanMoveNext
<1>2. CASE q.list # << >> /\ CanMoveNext(q)
  <2>1. /\ m \in Planner /\ m.list = q.list /\ m.disk = q.disk
        /\ m.targetPathId = q.targetPathId + 1 /\ m.lastPathId = q.targetPathId
    <3>1. q.targetPathId \in Int
      BY <1>0 DEF Planner
    <3>2. PICK t \in Int, k \in Int :
              t = q.targetPathId + 1 /\ k = q.targetPathId
      BY <3>1
    <3>. DEFINE w == [q EXCEPT !.lastPathId = k, !.targetPathId = t]
    <3>3. /\ w \in Planner /\ w.list = q.list /\ w.disk = q.disk
          /\ w.targetPathId = t /\ w.lastPathId = k
      BY <1>0 DEF Planner
    <3>4. m = w
      BY <3>2
    <3>. HIDE DEF m, w
    <3>. QED
      BY <3>2, <3>3, <3>4
  <2>2. q.targetPathId \in Nat /\ q.targetPathId + 1 \in 0 .. Len(q.list) - 1
    BY <1>0, <1>2 DEF CursorFits, HasTarget, InRoute, CanMoveNext, Planner
  <2>3. MoveToNextStation(q) = NoteStation(m)
    BY <1>0, <1>2 DEF MoveToNextStation
  <2>. HIDE DEF m
  <2>4. m.targetPathId > 0 => m.lastPathId = m.targetPathId - 1
    BY <2>1, <2>2
  <2>5. LET r == NoteStation(m)
        IN  Fits(r) /\ r.list = q.list /\ r.disk.path = q.disk.path
              /\ r.targetPathId = m.targetPathId
    BY <1>2, <2>1, <2>2, <2>4, MovedFits
  <2>. QED
    BY <1>2, <2>1, <2>3, <2>5
<1>3. CASE q.list # << >> /\ ~CanMoveNext(q)
  <2>1. q.targetPathId \in 0 .. Len(q.list) - 1
    BY <1>0, <1>3 DEF CursorFits, HasTarget, InRoute, Planner
  <2>2. q.targetPathId > 0 => q.lastPathId = q.targetPathId - 1
    BY <1>0 DEF CursorFits
  <2>3. LET r == NoteStation(q)
        IN  Fits(r) /\ r.list = q.list /\ r.disk.path = q.disk.path
              /\ r.targetPathId = q.targetPathId
    BY <1>0, <1>3, <2>1, <2>2, MovedFits
  <2>4. MoveToNextStation(q) = NoteStation(q)
    BY <1>0, <1>3 DEF MoveToNextStation
  <2>. QED
    BY <1>3, <2>3, <2>4
<1>. QED
  BY <1>1, <1>2, <1>3

LEMMA MoveLastFits ==
    ASSUME NEW q, Fits(q)
    PROVE  LET r == MoveToLastStation(q)
           IN  /\ Fits(r)
               /\ r.list = q.list /\ r.disk.path = q.disk.path
               /\ r.targetPathId = IF q.list # << >> /\ q.targetPathId >= 1
                                   THEN q.targetPathId - 1 ELSE q.targetPathId
<1> DEFINE m == [q EXCEPT !.targetPathId = q.targetPathId - 1, !.lastPathId = q.targetPathId - 2]
<1>0. q \in Planner /\ CursorFits(q) /\ Len(q.list) \in Nat /\ (Len(q.list) = 0 <=> q.list = << >>)
  BY LenProperties, EmptySeq DEF Fits, Planner
<1>1. CASE q.list = << >>
  BY <1>0, <1>1 DEF MoveToLastStation
<1>2. CASE q.list # << >> /\ q.targetPathId >= 1
  <2>1. /\ m \in Planner /\ m.list = q.list /\ m.disk = q.disk
        /\ m.targetPathId = q.targetPathId - 1 /\ m.lastPathId = q.targetPathId - 2
    <3>1. q.targetPathId \in Int
      BY <1>0 DEF Planner
    <3>2. PICK t \in Int, k \in Int :
              t = q.targetPathId - 1 /\ k = q.targetPathId - 2
      BY <3>1
    <3>. DEFINE w == [q EXCEPT !.targetPathId = t, !.lastPathId = k]
    <3>3. /\ w \in Planner /\ w.list = q.list /\ w.disk = q.disk
          /\ w.targetPathId = t /\ w.lastPathId = k
      BY <1>0 DEF Planner
    <3>4. m = w
      BY <3>2
    <3>. HIDE DEF m, w
    <3>. QED
      BY <3>2, <3>3, <3>4
  <2>2. q.targetPathId \in Nat /\ q.targetPathId - 1 \in 0 .. Len(q.list) - 1
    BY <1>0, <1>2 DEF CursorFits, HasTarget, InRoute, Planner
  <2>3. MoveToLastStation(q) = NoteStation(m)
    BY <1>0, <1>2 DEF MoveToLastStation
  <2>. HIDE DEF m
  <2>4. m.targetPathId > 0 => m.lastPathId = m.targetPathId - 1
    BY <2>1, <2>2
  <2>5. LET r == NoteStation(m)
        IN  Fits(r) /\ r.list = q.list /\ r.disk.path = q.disk.path
              /\ r.targetPathId = m.targetPathId
    BY <1>2, <2>1, <2>2, <2>4, MovedFits
  <2>. QED
    BY <1>2, <2>1, <2>3, <2>5
<1>3. CASE q.list # << >> /\ ~(q.targetPathId >= 1)
  <2>1. q.targetPathId \in 0 .. Len(q.list) - 1
    BY <1>0, <1>3 DEF CursorFits, HasTarget, InRoute, Planner
  <2>2. q.targetPathId > 0 => q.lastPathId = q.targetPathId - 1
    BY <1>0 DEF CursorFits
  <2>3. LET r == NoteStation(q)
        IN  Fits(r) /\ r.list = q.list /\ r.disk.path = q.disk.path
              /\ r.targetPathId = q.targetPathId
    BY <1>0, <1>3, <2>1, <2>2, MovedFits
  <2>4. MoveToLastStation(q) = NoteStation(q)
    BY <1>0, <1>3 DEF MoveToLastStation
  <2>. QED
    BY <1>3, <2>3, <2>4
<1>. QED
  BY <1>1, <1>2, <1>3

(* Looking ahead leaves the cursor where it was.                           *)
LEMMA LookAheadFits ==
    ASSUME NEW q, Fits(q)
    PROVE  LET r == LookAhead(q)
           IN  /\ Fits(r)
               /\ r.list = q.list /\ r.disk.path = q.disk.path
               /\ r.targetPathId = q.targetPathId
<1>0. q.targetPathId \in Int /\ q.list \in Seq(WayPoint) /\ CursorFits(q)
  BY DEF Fits, Planner
<1> DEFINE n == MoveToNextStation(q)
<1>1. /\ Fits(n) /\ n.list = q.list /\ n.disk.path = q.disk.path
      /\ n.targetPathId = IF CanMoveNext(q) THEN q.targetPathId + 1 ELSE q.targetPathId
  BY MoveNextFits
<1>2. CASE ~CanMoveNext(q)
  BY <1>1, <1>2 DEF LookAhead
<1>3. CASE CanMoveNext(q)
  <2>1. q.list # << >>
    BY <1>3 DEF CanMoveNext
  <2>2. q.targetPathId >= 0
    BY <1>0, <2>1 DEF CursorFits, HasTarget, InRoute
  <2>3. n.list # << >> /\ n.targetPathId >= 1 /\ n.targetPathId - 1 = q.targetPathId
    BY <1>0, <1>1, <1>3, <2>1, <2>2
  <2> HIDE DEF n
  <2>4. LET r == MoveToLastStation(n)
        IN  /\ Fits(r)
            /\ r.list = n.list /\ r.disk.path = n.disk.path
            /\ r.targetPathId = n.targetPathId - 1
    BY <1>1, <2>3, MoveLastFits
  <2>5. LookAhead(q) = MoveToLastStation(n)
    BY <1>3 DEF LookAhead, n
  <2>. QED
    BY <1>1, <2>3, <2>4, <2>5
<1>. QED
  BY <1>2, <1>3

-----------------------------------------------------------------------------
(* Writing fields of the target in place.                                  *)
LEMMA PointType ==
    ASSUME NEW q \in Planner, HasTarget(q), NEW w \in WayPoint
    PROVE  LET k == q.targetPathId + 1
               r == [q EXCEPT !.list[q.targetPathId + 1] = w]
           IN /\ r \in Planner
              /\ Len(r.list) = Len(q.list)
              /\ \A i \in 1 .. Len(q.list) : r.list[i] = IF i = k THEN w ELSE q.list[i]
<1> DEFINE k == q.targetPathId + 1
           l == [q.list EXCEPT ![k] = w]
<1>1. q.list \in Seq(WayPoint) /\ k \in 1 .. Len(q.list)
  BY TargetType
<1>2. /\ l \in Seq(WayPoint) /\ Len(l) = Len(q.list)
      /\ \A i \in 1 .. Len(q.list) : l[i] = IF i = k THEN w ELSE q.list[i]
  BY <1>1, ExceptSeq
<1>3. [q EXCEPT !.list[q.targetPathId + 1] = w] = [q EXCEPT !.list = l]
  OBVIOUS
<1> HIDE DEF l
<1>4. [q EXCEPT !.list = l] \in Planner /\ [q EXCEPT !.list = l].list = l
  BY <1>2 DEF Planner
<1>. QED
  BY <1>2, <1>3, <1>4

(* Writing a field of a point in place, its id excepted.                   *)
LEMMA PointFits ==
    ASSUME NEW q, Fits(q), HasTarget(q), NEW w \in WayPoint,
           w.id = GetTargetStation(q).id
    PROVE  /\ Fits([q EXCEPT !.list[q.targetPathId + 1] = w])
           /\ [q EXCEPT !.list[q.targetPathId + 1] = w].disk = q.disk
<1> DEFINE k == q.targetPathId + 1
           l == [q.list EXCEPT ![k] = w]
           r == [q EXCEPT !.list = l]
<1>0. q \in Planner /\ CursorFits(q) /\ SettingsFit(q) /\ q.list \in Seq(WayPoint)
  BY DEF Fits, Planner
<1>1. k \in 1 .. Len(q.list)
  BY <1>0, LenProperties DEF HasTarget, InRoute, Planner
<1>2. /\ l \in Seq(WayPoint) /\ Len(l) = Len(q.list)
      /\ \A i \in 1 .. Len(q.list) : l[i] = IF i = k THEN w ELSE q.list[i]
  BY <1>0, <1>1, ExceptSeq
<1>3. \A i \in 1 .. Len(l) : l[i].id = q.list[i].id
  BY <1>2 DEF GetTargetStation
<1>. HIDE DEF l
<1>4. /\ r \in Planner /\ r.list = l /\ r.targetPathId = q.targetPathId
      /\ r.lastPathId = q.lastPathId /\ r.setting = q.setting /\ r.disk = q.disk
  BY <1>0, <1>2 DEF Planner
<1>5. q.list # << >> /\ l # << >>
  BY <1>0, <1>1, <1>2, EmptySeq
<1>. HIDE DEF r
<1>6. CursorFits(r)
  BY <1>0, <1>2, <1>4, <1>5 DEF CursorFits, HasTarget, InRoute
<1>7. SettingsFit(r)
  BY <1>0, <1>2, <1>3, <1>4, <1>5 DEF SettingsFit
<1>8. r = [q EXCEPT !.list[q.targetPathId + 1] = w]
  BY DEF r, l
<1>. QED
  BY <1>4, <1>6, <1>7, <1>8 DEF Fits

(* The moves leave the points alone.                                       *)
LEMMA MoveKeepsList ==
    ASSUME NEW q, Fits(q)
    PROVE  /\ MoveToNextStation(q).list = q.list
           /\ MoveToLastStation(q).list = q.list
           /\ LookAhead(q).list = q.list
BY MoveNextFits, MoveLastFits, LookAheadFits

-----------------------------------------------------------------------------
(* A process that starts, from any disk.                                   *)
LEMMA BootType ==
    ASSUME NEW d \in Disk
    PROVE  Boot(d) \in Planner
<1>1. << >> \in Seq(WayPoint)
  BY EmptySeq
<1>. QED
  BY <1>1 DEF Boot, Planner, Disk

(* A process that starts: from any disk a crash may leave behind.          *)
LEMMA BootFits ==
    ASSUME NEW d \in Disk, d.TargetPointId = 0
    PROVE  Fits(Boot(d)) /\ Boot(d).list = << >>
<1> DEFINE r == Boot(d)
<1>1. << >> \in Seq(WayPoint) /\ d.path \in Seq(WayPoint) /\ Len(d.path) \in Nat
  BY EmptySeq, LenProperties DEF Disk
<1>2. r \in Planner
  BY <1>1 DEF Boot, Planner, Disk
<1>3. /\ r.list = << >> /\ r.targetPathId = 0 /\ r.setting.TargetPointId = 0
      /\ r.disk = d
  BY DEF Boot
<1> HIDE DEF r
<1>. QED
  BY <1>1, <1>2, <1>3 DEF Fits, CursorFits, SettingsFit, r

LEMMA DiskDuringSaveType ==
    ASSUME NEW q \in Planner, NEW all \in BOOLEAN, NEW d \in DiskDuringSave(q, all)
    PROVE  d \in Disk /\ (q.disk.TargetPointId = 0 => d.TargetPointId = 0)
<1>0. /\ q.list \in Seq(WayPoint) /\ q.disk \in Disk /\ q.disk.path \in Seq(WayPoint)
      /\ q.targetPathId \in Int /\ q.lastPathId \in Int
      /\ Len(q.list) \in Nat
  BY LenProperties DEF Planner, Disk
<1> DEFINE filed == IF all THEN [q.disk EXCEPT !.path = q.list] ELSE q.disk
           key1 == [filed EXCEPT !.TargetPoinId = q.targetPathId]
<1>1. /\ filed \in Disk /\ filed.path \in Seq(WayPoint)
      /\ filed.TargetPointId = q.disk.TargetPointId
  BY <1>0 DEF Disk
<1>2. key1 \in Disk /\ key1.TargetPointId = q.disk.TargetPointId
  BY <1>0, <1>1 DEF Disk
<1>3. CASE \E n \in 0 .. Len(q.list) : d = [q.disk EXCEPT !.path = SubSeq(q.list, 1, n)]
  <2>1. PICK n \in 0 .. Len(q.list) : d = [q.disk EXCEPT !.path = SubSeq(q.list, 1, n)]
    BY <1>3
  <2>2. \A i \in 1 .. n : q.list[i] \in WayPoint
    BY <1>0, <2>1, ElementOfSeq
  <2>3. SubSeq(q.list, 1, n) \in Seq(WayPoint)
    BY <1>0, <2>1, <2>2, SubSeqProperties
  <2>. QED
    BY <1>0, <2>1, <2>3 DEF Disk
<1>4. CASE d = key1
  BY <1>2, <1>4
<1>5. CASE d = [key1 EXCEPT !.LastPointId = q.lastPathId]
  BY <1>0, <1>2, <1>5 DEF Disk
<1>6. CASE d = [BlankDisk EXCEPT !.path = filed.path]
  BY <1>1, <1>6 DEF BlankDisk, Disk
<1>. QED
  BY <1>3, <1>4, <1>5, <1>6 DEF DiskDuringSave

(* The file while it is saved: a beginning of the route in memory, or the  *)
(* old file when only the keys are written.                                *)
LEMMA FileDuringSave ==
    ASSUME NEW q \in Planner, NEW all \in BOOLEAN, NEW d \in DiskDuringSave(q, all)
    PROVE  IF all THEN Beginning(d.path, q.list) ELSE d.path = q.disk.path
<1>0. /\ q.list \in Seq(WayPoint) /\ q.disk \in Disk
      /\ q.targetPathId \in Int /\ q.lastPathId \in Int /\ Len(q.list) \in Nat
  BY LenProperties DEF Planner
<1> DEFINE filed == IF all THEN [q.disk EXCEPT !.path = q.list] ELSE q.disk
           key1 == [filed EXCEPT !.TargetPoinId = q.targetPathId]
<1>1. filed \in Disk /\ filed.path = IF all THEN q.list ELSE q.disk.path
  BY <1>0 DEF Disk
<1>2. Beginning(q.list, q.list)
  BY <1>0 DEF Beginning
<1>3. ASSUME all, NEW n \in 0 .. Len(q.list),
             d = [q.disk EXCEPT !.path = SubSeq(q.list, 1, n)]
      PROVE  Beginning(d.path, q.list)
  <2>1. d.path = SubSeq(q.list, 1, n)
    BY <1>0, <1>3 DEF Disk
  <2>2. Len(SubSeq(q.list, 1, n)) = n /\ \A i \in 1 .. n : SubSeq(q.list, 1, n)[i] = q.list[i]
    <3>1. \A i \in 1 .. n : q.list[i] \in WayPoint
      BY <1>0, ElementOfSeq
    <3>. QED
      BY <1>0, <3>1, SubSeqProperties
  <2>. QED
    BY <1>0, <2>1, <2>2 DEF Beginning
<1> HIDE DEF filed
<1>4. CASE d = key1 \/ d = [key1 EXCEPT !.LastPointId = q.lastPathId]
  <2>1. d.path = filed.path
    BY <1>1, <1>4 DEF Disk
  <2>. QED
    BY <1>1, <1>2, <2>1
<1>5. CASE d = [BlankDisk EXCEPT !.path = filed.path]
  <2>1. d.path = filed.path
    BY <1>5 DEF BlankDisk
  <2>. QED
    BY <1>1, <1>2, <2>1
<1>. QED
  BY <1>3, <1>4, <1>5 DEF DiskDuringSave, filed
=============================================================================
