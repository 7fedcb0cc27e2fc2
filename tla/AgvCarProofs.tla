---------------------------- MODULE AgvCarProofs ----------------------------
(***************************************************************************)
(* The car, for any routes, any events from outside, any faults and any    *)
(* number of them.                                                         *)
(*                                                                         *)
(* The invariant has two parts.  Base is what each handler keeps by        *)
(* itself: the types, a planner that fits its file (CarFits), and a car    *)
(* that stands when its status says so.  Road is about the way from one    *)
(* point to the next: the planner's target is the one driven to (Aligned), *)
(* a status that says running is followed by a move or an event (LeadsOn), *)
(* and, so that going on keeps both, no point ahead is done already, a     *)
(* target that can be resumed is the planner's (RouteOpen), a target that  *)
(* is done is the last (RouteFresh), and a car without a target to resume  *)
(* has not left the start of its route (Driven).  Points that              *)
(* GoToNextPoint refuses are part of it: OnFile says that a route that is  *)
(* loaded again has them in the same places.                               *)
(*                                                                         *)
(* The events a handler posts count as waiting (Due), because they reach   *)
(* the queues when it returns.                                             *)
(***************************************************************************)
EXTENDS AgvCar, RouteOpsProofs

USE ToleranceAssumption, OutcomesAssumption

-----------------------------------------------------------------------------
(* What GoToNextPoint may do to the planner on its way to the next point:  *)
(* the route keeps its stations, directions and marks; heights and actions *)
(* may change.                                                             *)
Kept(p, q) ==
    /\ Fits(q)
    /\ q.disk.path = p.disk.path
    /\ Len(q.list) = Len(p.list)
    /\ \A i \in 1 .. Len(p.list) :
         /\ q.list[i].id = p.list[i].id
         /\ q.list[i].runMode = p.list[i].runMode
         /\ q.list[i].align = p.list[i].align
         /\ q.list[i].actionFinish = p.list[i].actionFinish

LEMMA SameKept ==
    ASSUME NEW p, Fits(p), NEW q, Fits(q), q.list = p.list, q.disk.path = p.disk.path
    PROVE  Kept(p, q)
BY DEF Kept

LEMMA KeptTwice ==
    ASSUME NEW p, NEW q, NEW r, Kept(p, q), Kept(q, r)
    PROVE  Kept(p, r)
BY DEF Kept

(* A planner that has a target has a route, and the reverse.               *)
LEMMA RouteHasTarget ==
    ASSUME NEW p, Fits(p)
    PROVE  /\ p.list \in Seq(WayPoint) /\ Len(p.list) \in Nat
           /\ p.targetPathId \in Int
           /\ PathCount(p) = Len(p.list)
           /\ HasTarget(p) <=> Len(p.list) # 0
           /\ HasTarget(p) => p.targetPathId \in 0 .. Len(p.list) - 1
           /\ ~HasTarget(p) => p.targetPathId = 0
<1>1. /\ p.list \in Seq(WayPoint) /\ Len(p.list) \in Nat /\ p.targetPathId \in Int
      /\ Len(p.list) = 0 <=> p.list = << >>
      /\ CursorFits(p)
  BY LenProperties, EmptySeq DEF Fits, Planner
<1>. QED
  BY <1>1 DEF CursorFits, HasTarget, InRoute, PathCount

LEMMA KeptTarget ==
    ASSUME NEW p, Fits(p), NEW q, Kept(p, q)
    PROVE  HasTarget(q) <=> HasTarget(p)
BY RouteHasTarget DEF Kept

(* Another way point in place of the target, of the same station.          *)
LEMMA PointKept ==
    ASSUME NEW p, Fits(p), HasTarget(p), NEW w \in WayPoint,
           w.id = Target0(p).id, w.runMode = Target0(p).runMode,
           w.align = Target0(p).align, w.actionFinish = Target0(p).actionFinish
    PROVE  LET q == [p EXCEPT !.list[p.targetPathId + 1] = w]
           IN  Kept(p, q) /\ q.targetPathId = p.targetPathId
<1> DEFINE k == p.targetPathId + 1
           q == [p EXCEPT !.list[k] = w]
<1>0. p \in Planner /\ p.list \in Seq(WayPoint) /\ k \in 1 .. Len(p.list)
  BY TargetType DEF Fits
<1>1. Fits(q)
  BY PointFits DEF Target0
<1>2. /\ q.list = [p.list EXCEPT ![k] = w]
      /\ q.targetPathId = p.targetPathId /\ q.disk.path = p.disk.path
  BY <1>0 DEF Planner
<1>3. /\ Len(q.list) = Len(p.list)
      /\ \A i \in 1 .. Len(p.list) : q.list[i] = IF i = k THEN w ELSE p.list[i]
  BY <1>0, <1>2, ExceptSeq
<1>4. \A i \in 1 .. Len(p.list) : i # k => q.list[i] = p.list[i]
  BY <1>3
<1>5. q.list[k] = w /\ p.list[k] = Target0(p)
  BY <1>0, <1>3 DEF Target0, GetTargetStation
<1> HIDE DEF q, k
<1>6. ASSUME NEW i \in 1 .. Len(p.list)
      PROVE  /\ q.list[i].id = p.list[i].id
             /\ q.list[i].runMode = p.list[i].runMode
             /\ q.list[i].align = p.list[i].align
             /\ q.list[i].actionFinish = p.list[i].actionFinish
  <2>1. CASE i = k
    BY <1>5, <2>1
  <2>2. CASE i # k
    BY <1>4, <2>2
  <2>. QED
    BY <2>1, <2>2
<1>7. Kept(p, q)
  BY <1>1, <1>2, <1>3, <1>6 DEF Kept
<1>. QED
  BY <1>2, <1>7 DEF q, k

(* The point ahead.                                                        *)
LEMMA AheadType ==
    ASSUME NEW p, Fits(p), CanMoveNext(p)
    PROVE  HasTarget(p) /\ Ahead(p) \in WayPoint /\ p.targetPathId + 2 \in 1 .. Len(p.list)
<1>1. p.list \in Seq(WayPoint) /\ Len(p.list) \in Nat /\ HasTarget(p)
      /\ p.targetPathId \in 0 .. Len(p.list) - 1
  BY RouteHasTarget DEF CanMoveNext
<1>2. p.targetPathId + 2 \in 1 .. Len(p.list)
  BY <1>1 DEF CanMoveNext
<1>. QED
  BY <1>1, <1>2, ElementOfSeq DEF Ahead

LEMMA RewriteKept ==
    ASSUME NEW p, Fits(p), HasTarget(p), NEW f \in Nat
    PROVE  Kept(p, Rewrite(p, f)) /\ Rewrite(p, f).targetPathId = p.targetPathId
<1> DEFINE w == [Target0(p) EXCEPT !.action = f]
<1>1. Target0(p) \in WayPoint
  BY TargetType DEF Fits, Target0
<1>2. /\ w \in WayPoint /\ w.id = Target0(p).id /\ w.runMode = Target0(p).runMode
      /\ w.align = Target0(p).align /\ w.actionFinish = Target0(p).actionFinish
  BY <1>1 DEF WayPoint
<1> HIDE DEF w
<1>3. Rewrite(p, f) = [p EXCEPT !.list[p.targetPathId + 1] = w]
  BY DEF Rewrite, w
<1>. QED
  BY <1>2, <1>3, PointKept

-----------------------------------------------------------------------------
(* The parts of GoToNextPoint.                                             *)
LEMMA LookAheadKept ==
    ASSUME NEW p, Fits(p)
    PROVE  Kept(p, LookAhead(p)) /\ LookAhead(p).targetPathId = p.targetPathId
BY LookAheadFits, SameKept

LEMMA MoveNextKept ==
    ASSUME NEW p, Fits(p)
    PROVE  /\ Kept(p, MoveToNextStation(p))
           /\ MoveToNextStation(p).targetPathId =
                IF CanMoveNext(p) THEN p.targetPathId + 1 ELSE p.targetPathId
BY MoveNextFits, SameKept

LEMMA MoveLastKept ==
    ASSUME NEW p, Fits(p), p.targetPathId >= 1
    PROVE  /\ Kept(p, MoveToLastStation(p))
           /\ MoveToLastStation(p).targetPathId = p.targetPathId - 1
<1>1. p.list # << >>
  BY RouteHasTarget, EmptySeq
<1>. QED
  BY <1>1, MoveLastFits, SameKept

(* A point that gives its height to the next, or is returned to.           *)
LEMMA TakeHeightKept ==
    ASSUME NEW p, Fits(p), HasTarget(p), p.targetPathId >= 1, NEW here \in Nat \cup {NoHeight}
    PROVE  /\ Kept(p, TakeHeight(p, here))
           /\ TakeHeight(p, here).targetPathId \in {p.targetPathId, p.targetPathId - 1}
<1> DEFINE w == [Target0(p) EXCEPT !.liftHeight = here]
           next == Target0(p).liftHeight
<1>1. Target0(p) \in WayPoint
  BY TargetType DEF Fits, Target0
<1>2. /\ w \in WayPoint /\ w.id = Target0(p).id /\ w.runMode = Target0(p).runMode
      /\ w.align = Target0(p).align /\ w.actionFinish = Target0(p).actionFinish
  BY <1>1 DEF WayPoint
<1> HIDE DEF w
<1>3. CASE here >= 0 /\ next >= 0 /\ here # next
  BY <1>3, MoveLastKept DEF TakeHeight
<1>4. CASE ~(here >= 0 /\ next >= 0 /\ here # next) /\ here >= 0 /\ next < 0
  <2>1. TakeHeight(p, here) = [p EXCEPT !.list[p.targetPathId + 1] = w]
    BY <1>4 DEF TakeHeight, w
  <2>. QED
    BY <1>2, <2>1, PointKept
<1>5. CASE ~(here >= 0 /\ next >= 0 /\ here # next) /\ ~(here >= 0 /\ next < 0)
  <2>1. TakeHeight(p, here) = p
    BY <1>5 DEF TakeHeight
  <2>. QED
    BY <2>1, SameKept
<1>. QED
  BY <1>3, <1>4, <1>5

(* A point may be passed over, but the cursor does not go back.            *)
LEMMA PassOverKept ==
    ASSUME NEW p, Fits(p), HasTarget(p)
    PROVE  Kept(p, PassOver(p)) /\ PassOver(p).targetPathId >= p.targetPathId
<1> DEFINE a == LookAhead(p)
           m == MoveToNextStation(a)
           here == Target0(p).liftHeight
<1>0. p.targetPathId \in 0 .. Len(p.list) - 1 /\ Len(p.list) \in Nat
  BY RouteHasTarget
<1>1. Kept(p, a) /\ a.targetPathId = p.targetPathId /\ a.list = p.list
  BY LookAheadKept, LookAheadFits
<1>2. CASE WhetherJumpCurPoint(p)
  <2>1. CanMoveNext(a)
    BY <1>1, <1>2 DEF WhetherJumpCurPoint, CanMoveNext
  <2>2. Kept(a, m) /\ m.targetPathId = p.targetPathId + 1
    BY <1>1, <2>1, MoveNextKept DEF Kept
  <2>3. Kept(p, m) /\ Fits(m) /\ HasTarget(m) /\ m.targetPathId >= 1
    BY <1>0, <1>1, <2>2, KeptTwice, KeptTarget DEF Kept
  <2>4. here \in Nat \cup {NoHeight}
    BY TargetType DEF Fits, Target0, WayPoint
  <2> HIDE DEF m, here
  <2>5. Kept(m, TakeHeight(m, here)) /\ TakeHeight(m, here).targetPathId >= p.targetPathId
    BY <1>0, <2>2, <2>3, <2>4, TakeHeightKept
  <2>6. PassOver(p) = TakeHeight(m, here)
    BY <1>2 DEF PassOver, m, here
  <2>. QED
    BY <2>3, <2>5, <2>6, KeptTwice
<1>3. CASE ~WhetherJumpCurPoint(p)
  BY <1>0, <1>1, <1>3 DEF PassOver
<1>. QED
  BY <1>2, <1>3

(* The first point is the one at the cursor, any other lies beyond it.     *)
LEMMA ChoosePointKept ==
    ASSUME NEW p, Fits(p), HasTarget(p), NEW isfirst \in BOOLEAN, isfirst \/ CanMoveNext(p)
    PROVE  /\ Kept(p, ChoosePoint(p, isfirst))
           /\ isfirst => ChoosePoint(p, isfirst).targetPathId = p.targetPathId
           /\ ~isfirst => ChoosePoint(p, isfirst).targetPathId > p.targetPathId
<1>0. p.targetPathId \in 0 .. Len(p.list) - 1 /\ Len(p.list) \in Nat
  BY RouteHasTarget
<1>1. CASE isfirst
  BY <1>1, LookAheadKept DEF ChoosePoint
<1>2. CASE ~isfirst
  <2> DEFINE m == MoveToNextStation(p)
  <2>1. Kept(p, m) /\ Fits(m) /\ m.targetPathId = p.targetPathId + 1
    BY <1>2, MoveNextKept DEF Kept
  <2>2. HasTarget(m)
    BY <2>1, KeptTarget
  <2> HIDE DEF m
  <2>3. Kept(m, PassOver(m)) /\ PassOver(m).targetPathId >= m.targetPathId
    BY <2>1, <2>2, PassOverKept
  <2>4. PassOver(m).targetPathId \in Int
    BY <2>3, RouteHasTarget DEF Kept
  <2>5. ChoosePoint(p, isfirst) = PassOver(m)
    BY <1>2 DEF ChoosePoint, m
  <2>. QED
    BY <1>0, <1>2, <2>1, <2>3, <2>4, <2>5, KeptTwice
<1>. QED
  BY <1>1, <1>2

LEMMA StopAtTurnKept ==
    ASSUME NEW p, Fits(p), HasTarget(p)
    PROVE  Kept(p, StopAtTurn(p)) /\ StopAtTurn(p).targetPathId = p.targetPathId
<1> DEFINE a == LookAhead(p)
<1>1. Kept(p, a) /\ a.targetPathId = p.targetPathId /\ Fits(a)
  BY LookAheadKept DEF Kept
<1>2. HasTarget(a)
  BY <1>1, KeptTarget
<1>3. ActionStop \in Nat
  BY DEF ActionStop
<1> HIDE DEF a
<1>4. Kept(a, Rewrite(a, ActionStop)) /\ Rewrite(a, ActionStop).targetPathId = a.targetPathId
  BY <1>1, <1>2, <1>3, RewriteKept
<1>5. Kept(p, Rewrite(a, ActionStop))
  BY <1>1, <1>4, KeptTwice
<1>6. StopAtTurn(p) \in {p, a, Rewrite(a, ActionStop)}
  BY DEF StopAtTurn, a
<1>. QED
  BY <1>1, <1>4, <1>5, <1>6, SameKept

LEMMA GetRunActionKept ==
    ASSUME NEW p, Fits(p), HasTarget(p)
    PROVE  Kept(p, GetRunAction(p)) /\ GetRunAction(p).targetPathId = p.targetPathId
<1> DEFINE a == LookAhead(p)
           f == RunAction(p)
<1>1. Kept(p, a) /\ a.targetPathId = p.targetPathId /\ Fits(a) /\ a.list = p.list
  BY LookAheadKept, LookAheadFits DEF Kept
<1>2. HasTarget(a) /\ Target0(a) = Target0(p)
  BY <1>1, KeptTarget DEF Target0, GetTargetStation
<1>3. Target0(p).action \in Nat
  BY TargetType DEF Fits, Target0, WayPoint
<1>4. f \in Nat
  BY <1>3 DEF RunAction, ActionStop, ActionSpeedDown
<1> HIDE DEF a, f
<1>5. Kept(a, Rewrite(a, f)) /\ Rewrite(a, f).targetPathId = a.targetPathId
  BY <1>1, <1>2, <1>4, RewriteKept
<1>6. GetRunAction(p) = Rewrite(a, f)
  BY DEF GetRunAction, a, f
<1>. QED
  BY <1>1, <1>5, <1>6, KeptTwice

-----------------------------------------------------------------------------
(* The fields of a car that its status, its target and its errors depend   *)
(* on; what the lifter and the reports do leaves them alone.               *)
SameDrive(c, r) ==
    /\ r.status = c.status
    /\ r.runningMode = c.runningMode /\ r.carRunningMode = c.carRunningMode
    /\ r.target = c.target /\ r.lastPathMag = c.lastPathMag
    /\ r.currentPathAction = c.currentPathAction
    /\ r.posts = c.posts

(* The same without the action that the car is in.                         *)
SameMove(c, r) ==
    /\ r.status = c.status
    /\ r.runningMode = c.runningMode /\ r.carRunningMode = c.carRunningMode
    /\ r.target = c.target /\ r.lastPathMag = c.lastPathMag
    /\ r.posts = c.posts

LEMMA SameDriveTwice ==
    ASSUME NEW c, NEW d, NEW e, SameDrive(c, d), SameDrive(d, e)
    PROVE  SameDrive(c, e)
BY DEF SameDrive

LEMMA RouterType ==
    ASSUME NEW c \in Car, NEW p \in Planner
    PROVE  LET r == [c EXCEPT !.router = p]
           IN  r \in Car /\ SameDrive(c, r) /\ r.router = p
BY DEF Car, SameDrive

LEMMA SetLiftHeightType ==
    ASSUME NEW c \in Car, NEW h \in Int
    PROVE  LET r == SetLiftHeight(c, h)
           IN  r \in Car /\ SameDrive(c, r) /\ r.router = c.router
<1>1. CASE h >= 0
  <2>1. h \in Nat
    BY <1>1
  <2>. QED
    BY <1>1, <2>1 DEF SetLiftHeight, Car, SameDrive
<1>2. CASE ~(h >= 0)
  BY <1>2 DEF SetLiftHeight, SameDrive
<1>. QED
  BY <1>1, <1>2

LEMMA PresetLiftEffect ==
    ASSUME NEW c \in Car, Fits(c.router), HasTarget(c.router)
    PROVE  LET r == PresetLift(c)
           IN  /\ r \in Car /\ SameDrive(c, r)
               /\ Kept(c.router, r.router) /\ r.router.targetPathId = c.router.targetPathId
<1> DEFINE t == Target0(c.router)
           h == t.liftHeight
           d == [c EXCEPT !.targetHeight = h]
           e == IF LiftIsArrived(c, h) THEN d ELSE SetLiftHeight(d, h)
           q == Rewrite(c.router, ActionLiftUpDown)
<1>1. h \in Int
  BY TargetType DEF Fits, Target0, WayPoint, NoHeight
<1>2. d \in Car /\ SameDrive(c, d) /\ d.router = c.router
  <2> HIDE DEF h
  <2>. QED
    BY <1>1 DEF Car, SameDrive
<1> HIDE DEF d, h
<1>3. e \in Car /\ SameDrive(c, e) /\ e.router = c.router
  BY <1>1, <1>2, SetLiftHeightType, SameDriveTwice
<1>4. ActionLiftUpDown \in Nat
  BY DEF ActionLiftUpDown
<1>5. Kept(c.router, q) /\ q.targetPathId = c.router.targetPathId
  BY <1>4, RewriteKept
<1> HIDE DEF e, q
<1>6. q \in Planner
  BY <1>5 DEF Kept, Fits
<1>7. LET r == [e EXCEPT !.router = q]
      IN  r \in Car /\ SameDrive(c, r) /\ r.router = q
  BY <1>3, <1>6, RouterType, SameDriveTwice
<1>8. Kept(c.router, c.router)
  BY SameKept
<1>9. PresetLift(c) \in {d, [e EXCEPT !.router = q]}
  BY DEF PresetLift, d, e, h, q
<1>. QED
  BY <1>2, <1>5, <1>7, <1>8, <1>9

-----------------------------------------------------------------------------
(* Posting.                                                                *)
Posted(c, ev) == \E d \in Class : \E i \in 1 .. Len(c.posts[d]) : c.posts[d][i].ev = ev

LEMMA PriorityClass == \A ev \in DOMAIN PriorityOf : PriorityOf[ev] \in Class
BY DEF PriorityOf, Class, Normal, Important, Urgent

LEMMA EventNames ==
    {"evPathMagError", "evPathFinished", "evLostPosition", "evLiftArrived", "evApplyPath",
     "evKeyStart", "evNextPathPoint", "evGetNewPath"} \subseteq DOMAIN PriorityOf
BY DEF PriorityOf

LEMMA PostEffect ==
    ASSUME NEW c \in Car, NEW ev \in DOMAIN PriorityOf, NEW param \in Int
    PROVE  LET r == Post(c, ev, param)
           IN  /\ r \in Car
               /\ r.status = c.status /\ r.router = c.router
               /\ r.runningMode = c.runningMode /\ r.carRunningMode = c.carRunningMode
               /\ r.target = c.target /\ r.lastPathMag = c.lastPathMag
               /\ r.currentPathAction = c.currentPathAction
               /\ Posted(r, ev)
               /\ \A x : Posted(r, x) => Posted(c, x) \/ x = ev
<1> DEFINE k == PriorityOf[ev]
           e == [ev |-> ev, param |-> param]
           s == [c.posts EXCEPT ![k] = Append(@, e)]
           r == [c EXCEPT !.posts = s]
<1>1. k \in Class /\ e \in Event
  BY PriorityClass DEF Event
<1>2. c.posts \in [Class -> Seq(Event)]
  BY DEF Car
<1>3. c.posts[k] \in Seq(Event)
  BY <1>1, <1>2
<1> HIDE DEF k, e
<1>4. /\ Append(c.posts[k], e) \in Seq(Event)
      /\ Len(c.posts[k]) \in Nat
      /\ Len(Append(c.posts[k], e)) = Len(c.posts[k]) + 1
      /\ Append(c.posts[k], e)[Len(c.posts[k]) + 1] = e
      /\ \A i \in 1 .. Len(c.posts[k]) : Append(c.posts[k], e)[i] = c.posts[k][i]
  BY <1>1, <1>3, AppendProperties, LenProperties
<1>5. /\ s \in [Class -> Seq(Event)] /\ s[k] = Append(c.posts[k], e)
      /\ \A d \in Class : d # k => s[d] = c.posts[d]
  BY <1>1, <1>2, <1>4
<1> HIDE DEF s
<1>6. /\ r \in Car /\ r.posts = s
      /\ r.status = c.status /\ r.router = c.router
      /\ r.runningMode = c.runningMode /\ r.carRunningMode = c.carRunningMode
      /\ r.target = c.target /\ r.lastPathMag = c.lastPathMag
      /\ r.currentPathAction = c.currentPathAction
  BY <1>5 DEF Car
<1>7. r = Post(c, ev, param)
  BY DEF Post, s, k, e, r
<1>8. e.ev = ev
  BY DEF e
<1> HIDE DEF r
<1>9. Len(r.posts[k]) = Len(c.posts[k]) + 1 /\ r.posts[k][Len(c.posts[k]) + 1].ev = ev
  BY <1>4, <1>5, <1>6, <1>8
<1>10. Posted(r, ev)
  BY <1>1, <1>4, <1>9, SMTT(40) DEF Posted
<1>11. ASSUME NEW x, Posted(r, x), x # ev PROVE Posted(c, x)
  <2>1. PICK d \in Class : \E i \in 1 .. Len(r.posts[d]) : r.posts[d][i].ev = x
    BY <1>11 DEF Posted
  <2>2. PICK i \in 1 .. Len(r.posts[d]) : r.posts[d][i].ev = x
    BY <2>1
  <2>3. i \in 1 .. Len(c.posts[d]) /\ c.posts[d][i].ev = x
    <3>1. CASE d = k
      <4>1. i \in 1 .. Len(c.posts[k]) + 1 /\ Append(c.posts[k], e)[i].ev = x
        BY <1>4, <1>5, <1>6, <2>2, <3>1
      <4>2. i # Len(c.posts[k]) + 1
        BY <1>4, <1>8, <1>11, <4>1
      <4>3. i \in 1 .. Len(c.posts[k])
        BY <1>4, <4>1, <4>2
      <4>. QED
        BY <1>4, <3>1, <4>1, <4>3
    <3>2. CASE d # k
      BY <1>5, <1>6, <2>2, <3>2
    <3>. QED
      BY <3>1, <3>2
  <2>. QED
    BY <2>3 DEF Posted
<1>. QED
  BY <1>6, <1>7, <1>10, <1>11

(* Most events have the parameter 0.                                       *)
LEMMA PostZeroEffect ==
    ASSUME NEW c \in Car, NEW ev \in DOMAIN PriorityOf
    PROVE  LET r == Post(c, ev, 0)
           IN  /\ r \in Car
               /\ r.status = c.status /\ r.router = c.router
               /\ r.runningMode = c.runningMode /\ r.carRunningMode = c.carRunningMode
               /\ r.target = c.target /\ r.lastPathMag = c.lastPathMag
               /\ r.currentPathAction = c.currentPathAction
               /\ Posted(r, ev)
               /\ \A x : Posted(r, x) => Posted(c, x) \/ x = ev
<1>1. PICK z \in Int : z = 0
  OBVIOUS
<1>2. LET r == Post(c, ev, z)
      IN  /\ r \in Car
          /\ r.status = c.status /\ r.router = c.router
          /\ r.runningMode = c.runningMode /\ r.carRunningMode = c.carRunningMode
          /\ r.target = c.target /\ r.lastPathMag = c.lastPathMag
          /\ r.currentPathAction = c.currentPathAction
          /\ Posted(r, ev)
          /\ \A x : Posted(r, x) => Posted(c, x) \/ x = ev
  BY PostEffect
<1>3. Post(c, ev, z) = Post(c, ev, 0)
  BY <1>1
<1>. QED
  BY <1>2, <1>3

-----------------------------------------------------------------------------
(* Three facts about the move helper that hold in every state of the car:  *)
(* GetRunningMode tells when it drives, the target that is resumed has a   *)
(* mode LoopRunning knows, and only the control thread reports arrivals.   *)
TellsDriving(c) == c.carRunningMode = StopMode => c.runningMode = StopMode
RemembersTarget(c) == c.lastPathMag = NoTarget \/ c.lastPathMag.mode \in RunModes
Silent(c) == ~Posted(c, "evNextPathPoint")

LEMMA RunModeValues == RunModes \subseteq Nat /\ StopMode \notin RunModes /\ StopMode \in Nat
BY DEF RunModes, StopMode, GoForwardMode, GoBackwardMode, RotateLeftMode, RotateRightMode

LEMMA SetTargetEffect ==
    ASSUME NEW c \in Car, NEW t \in Target, t.mode \in RunModes, NEW splits \in BOOLEAN
    PROVE  LET go == SetTarget(c, t, splits)
               r == go.car
           IN  /\ go.ret \in {0, -1} /\ r \in Car
               /\ r.status = c.status /\ r.router = c.router
               /\ r.lastPathMag = c.lastPathMag /\ r.carRunningMode = t.mode
               /\ r.currentPathAction = c.currentPathAction
               /\ Silent(c) => Silent(r)
               /\ go.ret = 0 => r.target = t /\ r.runningMode = t.mode
               /\ go.ret = -1 => /\ r.target = c.target /\ r.runningMode = c.runningMode
                                 /\ Posted(r, "evPathMagError")
<1> DEFINE d == [c EXCEPT !.carRunningMode = t.mode]
           refused == t.mode \in {GoForwardMode, GoBackwardMode} /\ ~splits
           m == t.mode
<1>1. m \in Nat
  BY RunModeValues
<1> HIDE DEF m
<1>2. /\ d \in Car /\ d.status = c.status /\ d.router = c.router /\ d.target = c.target
      /\ d.lastPathMag = c.lastPathMag /\ d.runningMode = c.runningMode
      /\ d.carRunningMode = m /\ d.posts = c.posts
      /\ d.currentPathAction = c.currentPathAction
  <2>1. d = [c EXCEPT !.carRunningMode = m]
    BY DEF d, m
  <2> HIDE DEF d
  <2>. QED
    BY <1>1, <2>1 DEF Car
<1> HIDE DEF d
<1>3. CASE refused
  <2> DEFINE r == Post(d, "evPathMagError", 0)
  <2>1. /\ r \in Car /\ r.status = d.status /\ r.router = d.router
        /\ r.runningMode = d.runningMode /\ r.carRunningMode = d.carRunningMode
        /\ r.target = d.target /\ r.lastPathMag = d.lastPathMag
        /\ r.currentPathAction = d.currentPathAction
        /\ Posted(r, "evPathMagError")
        /\ \A x : Posted(r, x) => Posted(d, x) \/ x = "evPathMagError"
    BY <1>2, EventNames, PostZeroEffect, ZenonT(60)
  <2> HIDE DEF r
  <2>2. SetTarget(c, t, splits) = [car |-> r, ret |-> -1]
    BY <1>3 DEF SetTarget, d, r
  <2>3. Silent(c) => Silent(r)
    <3>1. Posted(d, "evNextPathPoint") <=> Posted(c, "evNextPathPoint")
      BY <1>2 DEF Posted
    <3>. QED
      BY <2>1, <3>1 DEF Silent
  <2>. QED
    BY <1>2, <2>1, <2>2, <2>3 DEF m
<1>4. CASE ~refused
  <2> DEFINE r == [d EXCEPT !.target = t, !.runningMode = m]
  <2>1. /\ r \in Car /\ r.status = d.status /\ r.router = d.router
        /\ r.carRunningMode = d.carRunningMode /\ r.lastPathMag = d.lastPathMag
        /\ r.currentPathAction = d.currentPathAction /\ r.posts = d.posts
        /\ r.target = t /\ r.runningMode = m
    BY <1>1, <1>2 DEF Car
  <2> HIDE DEF r
  <2>2. SetTarget(c, t, splits) = [car |-> r, ret |-> 0]
    BY <1>4 DEF SetTarget, d, r, m
  <2>3. Silent(c) => Silent(r)
    BY <1>2, <2>1 DEF Silent, Posted
  <2>. QED
    BY <1>2, <2>1, <2>2, <2>3 DEF m
<1>. QED
  BY <1>3, <1>4

LEMMA DriveToEffect ==
    ASSUME NEW c \in Car, NEW w \in WayPoint, NEW splits \in BOOLEAN
    PROVE  LET go == DriveTo(c, w, splits)
               r == go.car
           IN  /\ go.ret \in {0, -1} /\ r \in Car
               /\ r.status = c.status /\ r.router = c.router
               /\ r.currentPathAction = c.currentPathAction
               /\ TellsDriving(c) => TellsDriving(r)
               /\ RemembersTarget(c) => RemembersTarget(r)
               /\ Silent(c) => Silent(r)
               /\ CanDrive(w) => r.lastPathMag.station = w.id
               /\ ~CanDrive(w) => go.ret = -1 /\ r.lastPathMag = c.lastPathMag
               /\ go.ret = 0 => r.target.station = w.id /\ r.runningMode \in RunModes
               /\ go.ret = -1 => r.target = c.target /\ r.runningMode = c.runningMode
<1>1. CASE ~CanDrive(w)
  <2>1. DriveTo(c, w, splits) = [car |-> c, ret |-> -1]
    BY <1>1 DEF DriveTo
  <2>. QED
    BY <1>1, <2>1
<1>2. CASE CanDrive(w)
  <2> DEFINE t == [station |-> w.id, mode |-> w.runMode, action |-> w.action]
             d == [c EXCEPT !.lastPathMag = t]
             go == SetTarget(d, t, splits)
  <2>1. t \in Target /\ t.station = w.id /\ t.mode \in RunModes
    BY <1>2 DEF WayPoint, Target, CanDrive
  <2> HIDE DEF t
  <2>2. /\ d \in Car /\ d.status = c.status /\ d.router = c.router /\ d.target = c.target
        /\ d.runningMode = c.runningMode /\ d.lastPathMag = t /\ d.posts = c.posts
        /\ d.currentPathAction = c.currentPathAction
    BY <2>1 DEF Car
  <2> HIDE DEF d
  <2>3. /\ go.ret \in {0, -1} /\ go.car \in Car
        /\ go.car.status = d.status /\ go.car.router = d.router
        /\ go.car.lastPathMag = d.lastPathMag /\ go.car.carRunningMode = t.mode
        /\ go.car.currentPathAction = d.currentPathAction
        /\ Silent(d) => Silent(go.car)
        /\ go.ret = 0 => go.car.target = t /\ go.car.runningMode = t.mode
        /\ go.ret = -1 => go.car.target = d.target /\ go.car.runningMode = d.runningMode
    BY <2>1, <2>2, SetTargetEffect
  <2>4. DriveTo(c, w, splits) = go
    BY <1>2 DEF DriveTo, SetTargetStation, t, d
  <2> HIDE DEF go
  <2>5. TellsDriving(go.car) /\ RemembersTarget(go.car)
    BY <2>1, <2>2, <2>3, RunModeValues DEF TellsDriving, RemembersTarget
  <2>6. Silent(c) => Silent(go.car)
    BY <2>2, <2>3 DEF Silent, Posted
  <2>. QED
    BY <1>2, <2>1, <2>2, <2>3, <2>4, <2>5, <2>6
<1>. QED
  BY <1>1, <1>2

(* GoToNextPoint: 1 at the end of the route, 0 when the move helper has a  *)
(* target, -1 when it has refused it.                                      *)
GoesOn(c, go) ==
    /\ go.ret \in {0, 1, -1}
    /\ go.car \in Car /\ go.car.status = c.status
    /\ go.car.currentPathAction = c.currentPathAction
    /\ Kept(c.router, go.car.router)
    /\ TellsDriving(c) => TellsDriving(go.car)
    /\ RemembersTarget(c) => RemembersTarget(go.car)
    /\ Silent(c) => Silent(go.car)
    /\ go.ret = 1 => /\ go.car.router.targetPathId = c.router.targetPathId
                     /\ go.car.lastPathMag = c.lastPathMag
    /\ go.ret = 0 => /\ go.car.runningMode \in RunModes
                     /\ CanDrive(Target0(go.car.router))
                     /\ go.car.target.station = Target0(go.car.router).id
    /\ go.ret # 0 => go.car.runningMode = c.runningMode /\ go.car.target = c.target
    /\ go.ret # 1 => go.car.lastPathMag.station =
         IF CanDrive(Target0(go.car.router)) THEN Target0(go.car.router).id
         ELSE c.lastPathMag.station

LEMMA GoToNextPointEffect ==
    ASSUME NEW c \in Car, Fits(c.router), HasTarget(c.router),
           NEW isfirst \in BOOLEAN, NEW splits \in BOOLEAN
    PROVE  LET go == GoToNextPoint(c, isfirst, splits)
           IN  /\ GoesOn(c, go)
               /\ isfirst => /\ go.ret # 1
                             /\ go.car.router.targetPathId = c.router.targetPathId
               /\ ~isfirst /\ go.ret # 1 => go.car.router.targetPathId > c.router.targetPathId
<1> DEFINE go == GoToNextPoint(c, isfirst, splits)
<1>1. CASE ~isfirst /\ ~CanMoveNext(c.router)
  <2> DEFINE q == MoveToNextStation(c.router)
             r == [c EXCEPT !.router = q]
  <2>1. Kept(c.router, q) /\ q.targetPathId = c.router.targetPathId /\ q \in Planner
    BY <1>1, MoveNextKept DEF Kept, Fits
  <2> HIDE DEF q
  <2>2. r \in Car /\ SameDrive(c, r) /\ r.router = q
    BY <2>1, RouterType
  <2>3. go = [car |-> r, ret |-> 1]
    BY <1>1 DEF GoToNextPoint, q
  <2> HIDE DEF r, go
  <2>4. GoesOn(c, go) /\ go.ret = 1
    BY <2>1, <2>2, <2>3 DEF GoesOn, SameDrive, TellsDriving, RemembersTarget, Silent, Posted
  <2>. QED
    BY <1>1, <2>4 DEF go
<1>2. CASE isfirst \/ CanMoveNext(c.router)
  <2> DEFINE p1 == ChoosePoint(c.router, isfirst)
             p2 == StopAtTurn(p1)
             c2 == [c EXCEPT !.router = p2]
             d == PresetLift(c2)
             p4 == GetRunAction(d.router)
             e == [d EXCEPT !.router = p4]
  <2>1. /\ Kept(c.router, p1) /\ Fits(p1) /\ HasTarget(p1)
        /\ isfirst => p1.targetPathId = c.router.targetPathId
        /\ ~isfirst => p1.targetPathId > c.router.targetPathId
    BY <1>2, ChoosePointKept, KeptTarget DEF Kept
  <2> HIDE DEF p1
  <2>2. Kept(p1, p2) /\ p2.targetPathId = p1.targetPathId /\ Fits(p2) /\ HasTarget(p2)
        /\ p2 \in Planner
    BY <2>1, StopAtTurnKept, KeptTarget DEF Kept, Fits
  <2> HIDE DEF p2
  <2>3. c2 \in Car /\ SameDrive(c, c2) /\ c2.router = p2
    BY <2>2, RouterType
  <2> HIDE DEF c2
  <2>4. /\ d \in Car /\ SameDrive(c2, d)
        /\ Kept(p2, d.router) /\ d.router.targetPathId = p2.targetPathId
    BY <2>2, <2>3, PresetLiftEffect
  <2>5. Fits(d.router) /\ HasTarget(d.router)
    BY <2>2, <2>4, KeptTarget DEF Kept
  <2> HIDE DEF d
  <2>6. Kept(d.router, p4) /\ p4.targetPathId = d.router.targetPathId /\ HasTarget(p4)
        /\ Fits(p4) /\ p4 \in Planner
    BY <2>5, GetRunActionKept, KeptTarget DEF Kept, Fits
  <2> HIDE DEF p4
  <2>7. e \in Car /\ SameDrive(d, e) /\ e.router = p4
    BY <2>4, <2>6, RouterType
  <2> HIDE DEF e
  <2>8. SameDrive(c, e)
    BY <2>3, <2>4, <2>7, SameDriveTwice
  <2>9. Kept(c.router, p4)
    BY <2>1, <2>2, <2>4, <2>6, KeptTwice
  <2>10. Target0(p4) \in WayPoint
    BY <2>6, TargetType DEF Target0
  <2>11. go = DriveTo(e, Target0(p4), splits)
    BY <1>2, <2>7 DEF GoToNextPoint, Drive, e, p4, d, c2, p2, p1
  <2>12. /\ go.ret \in {0, -1} /\ go.car \in Car
         /\ go.car.status = e.status /\ go.car.router = e.router
         /\ go.car.currentPathAction = e.currentPathAction
         /\ TellsDriving(e) => TellsDriving(go.car)
         /\ RemembersTarget(e) => RemembersTarget(go.car)
         /\ Silent(e) => Silent(go.car)
         /\ CanDrive(Target0(p4)) => go.car.lastPathMag.station = Target0(p4).id
         /\ ~CanDrive(Target0(p4)) => go.ret = -1 /\ go.car.lastPathMag = e.lastPathMag
         /\ go.ret = 0 => go.car.target.station = Target0(p4).id /\ go.car.runningMode \in RunModes
         /\ go.ret = -1 => go.car.target = e.target /\ go.car.runningMode = e.runningMode
    BY <2>7, <2>10, <2>11, DriveToEffect
  <2> HIDE DEF go
  <2>13. GoesOn(c, go)
    <3>1. /\ TellsDriving(c) => TellsDriving(go.car)
          /\ RemembersTarget(c) => RemembersTarget(go.car)
          /\ Silent(c) => Silent(go.car)
      BY <2>8, <2>12 DEF SameDrive, TellsDriving, RemembersTarget, Silent, Posted
    <3>. QED
      BY <2>7, <2>8, <2>9, <2>12, <3>1 DEF GoesOn, SameDrive
  <2>14. /\ isfirst => go.car.router.targetPathId = c.router.targetPathId
         /\ ~isfirst => go.car.router.targetPathId > c.router.targetPathId
    BY <2>1, <2>2, <2>4, <2>6, <2>7, <2>12
  <2>. QED
    BY <2>12, <2>13, <2>14 DEF go
<1>. QED
  BY <1>1, <1>2

-----------------------------------------------------------------------------
(* The inductive invariant, as a predicate of a car.  CarFits is kept by   *)
(* each method; HaltStands is what HaltedCarStands says.                   *)
Halted == {StatusStopped, StatusError, StatusNormal}
HaltStands(c) == c.status \in Halted => c.runningMode = StopMode

(* The file has the route, in the eyes of the move helper: every file that *)
(* is written can be.                                                      *)
OnFile(p) ==
    /\ Len(p.list) = Len(p.disk.path)
    /\ \A i \in 1 .. Len(p.list) : CanDrive(p.list[i]) <=> CanDrive(p.disk.path[i])

CarFits(c) ==
    /\ c \in Car
    /\ Fits(c.router) /\ OnFile(c.router)
    /\ TellsDriving(c) /\ RemembersTarget(c) /\ Silent(c)

(* w: events that wait to be handled.                                      *)
Due(c, w, ev) == ev \in w \/ Posted(c, ev)

(* The points ahead are still to be done, and a route under way can be     *)
(* resumed, at its target or, when that is refused, at the one before; the *)
(* target was done before only if the route is finished.                   *)
RouteOpen(c) ==
    /\ \A i \in 1 .. Len(c.router.list) :
         i > c.router.targetPathId + 1 => ~c.router.list[i].actionFinish
    /\ c.router.targetPathId > 0 /\ CanDrive(Target0(c.router)) =>
         c.lastPathMag.station = Target0(c.router).id

RouteFresh(c, w) ==
    /\ RouteOpen(c)
    /\ HasTarget(c.router) /\ ActionFinished(c.router) => Due(c, w, "evPathFinished")

(* DrivesToTarget.                                                         *)
Aligned(c, w) ==
    c.runningMode # StopMode /\ HasTarget(c.router) /\ ~Due(c, w, "evPathMagError") =>
        IF CanDrive(Target0(c.router)) THEN c.target.station = Target0(c.router).id
                                       ELSE c.target = c.lastPathMag

(* RunningCarRuns.                                                         *)
LeadsOn(c, w) ==
    c.status = StatusRunning =>
        \/ c.runningMode # StopMode
        \/ \E ev \in Leading : Due(c, w, ev)
        \/ c.currentPathAction > ActionCharge

(* A car that has never had a target stands at the start of its route.     *)
Started(c) == c.lastPathMag.station # 0
Driven(c, w) ==
    ~Started(c) =>
        /\ c.router.targetPathId = 0 /\ c.runningMode = StopMode
        /\ c.currentPathAction = ActionRun /\ "evNextPathPoint" \notin w

-----------------------------------------------------------------------------
(* Stopping the car and setting its status.                                *)
LEMMA StatusValues ==
    /\ {StatusInit, StatusNormal, StatusRunning, StatusStopped, StatusError, StatusLowPower}
          \subseteq Status
    /\ StatusRunning \notin Halted /\ StatusStopped \in Halted /\ StatusError \in Halted
    /\ StatusNormal \in Halted /\ StatusLowPower \notin Halted
    /\ StatusStopped # StatusError /\ StatusStopped # StatusRunning /\ StatusError # StatusRunning
    /\ StatusNormal # StatusRunning /\ StatusLowPower # StatusRunning /\ StatusNormal # StatusError
    /\ StatusNormal # StatusStopped /\ StatusLowPower # StatusStopped /\ StatusLowPower # StatusError
    /\ StatusInit # StatusRunning /\ StatusInit \notin Halted
BY DEF Status, Halted, StatusInit, StatusNormal, StatusRunning, StatusStopped, StatusError,
       StatusLowPower

LEMMA ControlerStopEffect ==
    ASSUME NEW c \in Car
    PROVE  LET r == ControlerStop(c)
           IN  /\ r \in Car /\ r.status = c.status /\ r.router = c.router
               /\ r.target = c.target /\ r.lastPathMag = c.lastPathMag /\ r.posts = c.posts
               /\ r.currentPathAction = c.currentPathAction
               /\ r.runningMode = StopMode /\ r.carRunningMode = StopMode
BY RunModeValues DEF ControlerStop, ClearTarget, Car

LEMMA SetCarStatusEffect ==
    ASSUME NEW c \in Car, NEW status \in Status
    PROVE  LET r == SetCarStatus(c, status)
           IN  /\ r \in Car /\ r.status = status /\ r.router = c.router
               /\ r.target = c.target /\ r.lastPathMag = c.lastPathMag /\ r.posts = c.posts
               /\ r.currentPathAction = c.currentPathAction
               /\ \/ r.runningMode = StopMode /\ r.carRunningMode = StopMode
                  \/ /\ r.runningMode = c.runningMode /\ r.carRunningMode = c.carRunningMode
                     /\ status # StatusError
                     /\ status = StatusStopped => c.status = StatusStopped
<1> DEFINE d == [c EXCEPT !.status = status]
<1>1. /\ d \in Car /\ d.status = status /\ d.router = c.router
      /\ d.target = c.target /\ d.lastPathMag = c.lastPathMag /\ d.posts = c.posts
      /\ d.currentPathAction = c.currentPathAction
      /\ d.runningMode = c.runningMode /\ d.carRunningMode = c.carRunningMode
  BY DEF Car
<1> HIDE DEF d
<1> DEFINE stops == status = StatusError \/ (status = StatusStopped /\ c.status # StatusStopped)
<1>2. CASE stops
  <2>1. SetCarStatus(c, status) = ControlerStop(d)
    BY <1>2 DEF SetCarStatus, d
  <2>. QED
    BY <1>1, <2>1, ControlerStopEffect
<1>3. CASE ~stops
  <2>1. SetCarStatus(c, status) = d
    BY <1>3 DEF SetCarStatus, d
  <2>. QED
    BY <1>1, <1>3, <2>1
<1>. QED
  BY <1>2, <1>3

(* A car whose status makes it stand is stopped by StopCar, or was before. *)
LEMMA StopCarEffect ==
    ASSUME NEW c, CarFits(c), HaltStands(c)
    PROVE  LET r == StopCar(c)
           IN  /\ CarFits(r) /\ HaltStands(r)
               /\ r.status = StatusStopped /\ r.runningMode = StopMode
               /\ r.router = c.router /\ r.lastPathMag = c.lastPathMag
               /\ r.target = c.target /\ r.posts = c.posts
               /\ r.currentPathAction = c.currentPathAction
<1> DEFINE r == SetCarStatus(c, StatusStopped)
<1>1. c \in Car
  BY DEF CarFits
<1>2. /\ r \in Car /\ r.status = StatusStopped /\ r.router = c.router
      /\ r.target = c.target /\ r.lastPathMag = c.lastPathMag /\ r.posts = c.posts
      /\ r.currentPathAction = c.currentPathAction
      /\ \/ r.runningMode = StopMode /\ r.carRunningMode = StopMode
         \/ /\ r.runningMode = c.runningMode /\ r.carRunningMode = c.carRunningMode
            /\ StatusStopped # StatusError
            /\ StatusStopped = StatusStopped => c.status = StatusStopped
  BY <1>1, StatusValues, SetCarStatusEffect
<1>3. StopCar(c) = r
  BY DEF StopCar
<1> HIDE DEF r
<1>4. r.runningMode = StopMode
  BY <1>2, StatusValues DEF HaltStands
<1>5. CarFits(r) /\ HaltStands(r)
  BY <1>2, <1>4 DEF CarFits, HaltStands, TellsDriving, RemembersTarget, Silent, Posted
<1>. QED
  BY <1>2, <1>3, <1>4, <1>5

(* Any status may be set, StatusNormal only to a car that stands.          *)
LEMMA SetStatusFits ==
    ASSUME NEW status \in Status, NEW c, CarFits(c),
           status = StatusStopped => HaltStands(c),
           status = StatusNormal => c.runningMode = StopMode
    PROVE  LET r == SetCarStatus(c, status)
           IN  /\ CarFits(r) /\ HaltStands(r) /\ r.status = status
               /\ status \in Halted => r.runningMode = StopMode
               /\ status = StatusRunning => r.runningMode = c.runningMode
               /\ r.runningMode \in {StopMode, c.runningMode}
               /\ r.router = c.router /\ r.lastPathMag = c.lastPathMag
               /\ r.target = c.target /\ r.posts = c.posts
               /\ r.currentPathAction = c.currentPathAction
<1> DEFINE r == SetCarStatus(c, status)
<1>1. c \in Car
  BY DEF CarFits
<1>2. /\ r \in Car /\ r.status = status /\ r.router = c.router
      /\ r.target = c.target /\ r.lastPathMag = c.lastPathMag /\ r.posts = c.posts
      /\ r.currentPathAction = c.currentPathAction
      /\ \/ r.runningMode = StopMode /\ r.carRunningMode = StopMode
         \/ /\ r.runningMode = c.runningMode /\ r.carRunningMode = c.carRunningMode
            /\ status # StatusError
            /\ status = StatusStopped => c.status = StatusStopped
  BY <1>1, SetCarStatusEffect
<1>3. status = StatusRunning => r = [c EXCEPT !.status = status]
  BY StatusValues DEF SetCarStatus
<1>4. status = StatusRunning => r.runningMode = c.runningMode
  BY <1>1, <1>3 DEF Car
<1> HIDE DEF r
<1>5. status \in Halted => r.runningMode = StopMode
  <2>1. CASE status = StatusStopped
    BY <1>2, <2>1, StatusValues DEF HaltStands
  <2>2. CASE status = StatusNormal
    BY <1>2, <2>2
  <2>3. CASE status \notin {StatusStopped, StatusNormal}
    BY <1>2, <2>3 DEF Halted
  <2>. QED
    BY <2>1, <2>2, <2>3
<1>6. CarFits(r) /\ HaltStands(r)
  BY <1>2, <1>5 DEF CarFits, HaltStands, TellsDriving, RemembersTarget, Silent, Posted
<1>. QED
  BY <1>2, <1>4, <1>5, <1>6 DEF r

(* A car on its route, with nothing posted yet.                            *)
OnRoute(c, w) == RouteFresh(c, w) /\ Aligned(c, w) /\ Driven(c, w)

(* Stopping the car and another status leave it on its route.              *)
LEMMA StatusOnRoute ==
    ASSUME NEW c, NEW r, NEW w, OnRoute(c, w),
           r.router = c.router, r.lastPathMag = c.lastPathMag,
           r.target = c.target, r.posts = c.posts,
           r.currentPathAction = c.currentPathAction,
           r.runningMode \in {StopMode, c.runningMode}
    PROVE  OnRoute(r, w)
<1>1. RouteFresh(r, w) /\ Driven(r, w)
  BY DEF OnRoute, RouteFresh, RouteOpen, Driven, Started, Due, Posted
<1>2. Aligned(r, w)
  BY DEF OnRoute, Aligned, Due, Posted
<1>. QED
  BY <1>1, <1>2 DEF OnRoute

-----------------------------------------------------------------------------
(* Going on to a point of the route.                                       *)
LEMMA NothingPosted == \A c, ev : c.posts = NoPosts => ~Posted(c, ev)
<1>1. \A d \in Class : NoPosts[d] = << >>
  BY DEF NoPosts
<1>2. Len(<< >>) = 0
  OBVIOUS
<1>. QED
  BY <1>1, <1>2 DEF Posted

(* GoToNextPoint refuses a point for its direction and angle alone.        *)
LEMMA SameDirection ==
    ASSUME NEW v, NEW w, v.runMode = w.runMode, v.align = w.align
    PROVE  CanDrive(v) <=> CanDrive(w)
BY DEF CanDrive

(* The same target on both sides, in the eyes of RouteOpen.                *)
LEMMA KeptPoint ==
    ASSUME NEW p, Fits(p), HasTarget(p), NEW q, Kept(p, q), q.targetPathId = p.targetPathId
    PROVE  /\ Target0(q).id = Target0(p).id
           /\ ActionFinished(q) = ActionFinished(p)
           /\ CanDrive(Target0(q)) <=> CanDrive(Target0(p))
<1>1. p.targetPathId + 1 \in 1 .. Len(p.list)
  BY RouteHasTarget
<1>2. /\ Target0(q).id = Target0(p).id
      /\ ActionFinished(q) = ActionFinished(p)
      /\ Target0(q).runMode = Target0(p).runMode /\ Target0(q).align = Target0(p).align
  BY <1>1 DEF Kept, Target0, ActionFinished, GetTargetStation
<1>. QED
  BY <1>2, SameDirection

LEMMA KeptOnFile ==
    ASSUME NEW p, OnFile(p), NEW q, Kept(p, q)
    PROVE  OnFile(q)
<1>1. Len(q.list) = Len(p.list) /\ q.disk.path = p.disk.path
  BY DEF Kept
<1>2. \A i \in 1 .. Len(p.list) : CanDrive(q.list[i]) <=> CanDrive(p.list[i])
  BY SameDirection DEF Kept
<1>. QED
  BY <1>1, <1>2 DEF OnFile

(* What GoToNextPoint leaves: a car that fits, on an open route.           *)
LEMMA GoesOnFits ==
    ASSUME NEW c, CarFits(c), HasTarget(c.router), NEW go, GoesOn(c, go)
    PROVE  /\ CarFits(go.car) /\ HasTarget(go.car.router)
           /\ go.ret # 0 /\ HaltStands(c) => HaltStands(go.car)
<1>1. Fits(c.router) /\ Fits(go.car.router) /\ HasTarget(go.car.router)
  BY KeptTarget DEF CarFits, GoesOn, Kept
<1>2. OnFile(go.car.router)
  BY KeptOnFile DEF CarFits, GoesOn
<1>. QED
  BY <1>1, <1>2 DEF CarFits, GoesOn, HaltStands

LEMMA GoesOnStarted ==
    ASSUME NEW c, CarFits(c), HasTarget(c.router), Started(c), NEW go, GoesOn(c, go)
    PROVE  Started(go.car)
<1>1. Target0(go.car.router).id # 0
  BY GoesOnFits, TargetType DEF CarFits, Fits, Target0, WayPoint
<1>. QED
  BY <1>1 DEF Started, GoesOn

LEMMA GoesOnOpen ==
    ASSUME NEW c, CarFits(c), HasTarget(c.router), RouteOpen(c),
           NEW go, GoesOn(c, go),
           go.car.router.targetPathId >= c.router.targetPathId
    PROVE  /\ RouteOpen(go.car)
           /\ go.car.router.targetPathId > c.router.targetPathId =>
                ~ActionFinished(go.car.router)
<1> DEFINE p == c.router
           q == go.car.router
<1>1. Fits(p) /\ Fits(q) /\ HasTarget(p) /\ HasTarget(q) /\ Kept(p, q)
  BY KeptTarget DEF CarFits, GoesOn, Kept
<1>2. /\ q.targetPathId + 1 \in 1 .. Len(q.list) /\ Len(q.list) = Len(p.list)
      /\ p.targetPathId + 1 \in 1 .. Len(p.list)
      /\ p.targetPathId \in Int /\ q.targetPathId \in Int
  <2> HIDE DEF p, q
  <2>1. p.targetPathId \in 0 .. Len(p.list) - 1 /\ Len(p.list) \in Nat
    BY <1>1, RouteHasTarget
  <2>2. q.targetPathId \in 0 .. Len(q.list) - 1 /\ Len(q.list) \in Nat
    BY <1>1, RouteHasTarget
  <2>3. Len(q.list) = Len(p.list)
    BY <1>1 DEF Kept
  <2>. QED
    BY <2>1, <2>2, <2>3
<1>3. \A i \in 1 .. Len(p.list) : q.list[i].actionFinish = p.list[i].actionFinish
  BY <1>1 DEF Kept
<1>4. \A i \in 1 .. Len(p.list) : i > p.targetPathId + 1 => ~q.list[i].actionFinish
  BY <1>3 DEF RouteOpen
<1>5. \A i \in 1 .. Len(q.list) : i > q.targetPathId + 1 => ~q.list[i].actionFinish
  BY <1>2, <1>4, SMTT(40)
<1>6. q.targetPathId > p.targetPathId => ~ActionFinished(q)
  BY <1>2, <1>4, SMTT(40) DEF ActionFinished, GetTargetStation
<1>7. q.targetPathId > 0 /\ CanDrive(Target0(q)) => go.car.lastPathMag.station = Target0(q).id
  <2>1. CASE go.ret = 1
    <3>1. q.targetPathId = p.targetPathId /\ go.car.lastPathMag = c.lastPathMag
      BY <2>1 DEF GoesOn
    <3>2. Target0(q).id = Target0(p).id /\ (CanDrive(Target0(q)) <=> CanDrive(Target0(p)))
      BY <1>1, <3>1, KeptPoint
    <3>. QED
      BY <3>1, <3>2 DEF RouteOpen
  <2>2. CASE go.ret # 1
    BY <2>2 DEF GoesOn
  <2>. QED
    BY <2>1, <2>2
<1>. QED
  BY <1>5, <1>6, <1>7 DEF RouteOpen

(* Posting leaves the car as it is.                                        *)
LEMMA PostFits ==
    ASSUME NEW c, CarFits(c), NEW ev \in DOMAIN PriorityOf, ev # "evNextPathPoint"
    PROVE  LET r == Post(c, ev, 0)
           IN  /\ CarFits(r)
               /\ HaltStands(c) => HaltStands(r)
               /\ RouteOpen(c) => RouteOpen(r)
               /\ r.status = c.status /\ r.router = c.router
               /\ r.runningMode = c.runningMode /\ r.target = c.target
               /\ r.lastPathMag = c.lastPathMag
               /\ r.currentPathAction = c.currentPathAction
               /\ Posted(r, ev)
<1> DEFINE r == Post(c, ev, 0)
<1>1. /\ r \in Car /\ r.status = c.status /\ r.router = c.router
      /\ r.runningMode = c.runningMode /\ r.carRunningMode = c.carRunningMode
      /\ r.target = c.target /\ r.lastPathMag = c.lastPathMag
      /\ r.currentPathAction = c.currentPathAction
      /\ Posted(r, ev)
      /\ \A x : Posted(r, x) => Posted(c, x) \/ x = ev
  BY PostZeroEffect DEF CarFits
<1> HIDE DEF r
<1>2. Silent(r)
  BY <1>1 DEF CarFits, Silent
<1>. QED
  BY <1>1, <1>2 DEF CarFits, HaltStands, TellsDriving, RemembersTarget, RouteOpen, r

LEMMA FinishedEffect ==
    ASSUME NEW c, CarFits(c), HasTarget(c.router), HaltStands(c), c.posts = NoPosts,
           NEW go, GoesOn(c, go), go.ret = 1
    PROVE  LET r == Post(go.car, "evPathFinished", 0)
           IN  /\ CarFits(r) /\ HaltStands(r)
               /\ \A w : RouteOpen(c) /\ Aligned(c, w) /\ Started(c)
                           => OnRoute(r, w) /\ LeadsOn(r, w)
<1> DEFINE r == Post(go.car, "evPathFinished", 0)
           g == go.car
<1>1. CarFits(g) /\ HaltStands(g) /\ HasTarget(g.router)
  BY GoesOnFits
<1>2. /\ CarFits(r) /\ HaltStands(r)
      /\ RouteOpen(g) => RouteOpen(r)
      /\ r.status = g.status /\ r.router = g.router /\ r.runningMode = g.runningMode
      /\ r.target = g.target /\ r.lastPathMag = g.lastPathMag
      /\ Posted(r, "evPathFinished")
  BY <1>1, PostFits, EventNames
<1>3. /\ g.router.targetPathId = c.router.targetPathId /\ Kept(c.router, g.router)
      /\ g.runningMode = c.runningMode /\ g.target = c.target
      /\ g.lastPathMag = c.lastPathMag
  BY DEF GoesOn
<1>4. Fits(c.router) /\ c.router.targetPathId \in Int
  BY RouteHasTarget DEF CarFits
<1>5. /\ Target0(g.router).id = Target0(c.router).id
      /\ CanDrive(Target0(g.router)) <=> CanDrive(Target0(c.router))
  BY <1>3, <1>4, KeptPoint
<1>6. ASSUME RouteOpen(c) PROVE RouteOpen(r)
  BY <1>2, <1>3, <1>4, <1>6, GoesOnOpen
<1> HIDE DEF r, g
<1>7. ASSUME NEW w, Aligned(c, w) PROVE Aligned(r, w)
  BY <1>2, <1>3, <1>5, <1>7, NothingPosted DEF Aligned, Due
<1>8. \A w : LeadsOn(r, w)
  BY <1>2 DEF LeadsOn, Leading, Due
<1>9. \A w : RouteOpen(r) => RouteFresh(r, w)
  BY <1>2 DEF RouteFresh, Due
<1>10. Started(c) => \A w : Driven(r, w)
  BY <1>2, <1>3 DEF Driven, Started
<1>. QED
  BY <1>2, <1>6, <1>7, <1>8, <1>9, <1>10 DEF OnRoute, r

LEMMA RefusedEffect ==
    ASSUME NEW c, CarFits(c), HasTarget(c.router), HaltStands(c), c.posts = NoPosts,
           NEW go, GoesOn(c, go), go.ret = -1
    PROVE  LET r == Post(go.car, "evPathMagError", 0)
           IN  /\ CarFits(r) /\ HaltStands(r)
               /\ \A w : /\ RouteOpen(go.car) /\ Driven(go.car, w)
                         /\ ActionFinished(go.car.router) => "evPathFinished" \in w
                         => OnRoute(r, w) /\ LeadsOn(r, w)
<1> DEFINE r == Post(go.car, "evPathMagError", 0)
           g == go.car
<1>1. CarFits(g) /\ HaltStands(g) /\ HasTarget(g.router)
  BY GoesOnFits
<1>2. /\ CarFits(r) /\ HaltStands(r)
      /\ RouteOpen(g) => RouteOpen(r)
      /\ r.router = g.router /\ r.runningMode = g.runningMode
      /\ r.lastPathMag = g.lastPathMag /\ r.currentPathAction = g.currentPathAction
      /\ Posted(r, "evPathMagError")
  BY <1>1, PostFits, EventNames
<1> HIDE DEF r, g
<1>3. \A w : LeadsOn(r, w) /\ Aligned(r, w)
  BY <1>2 DEF LeadsOn, Leading, Due, Aligned
<1>4. ASSUME NEW w, RouteOpen(g), ActionFinished(g.router) => "evPathFinished" \in w
      PROVE  RouteFresh(r, w)
  BY <1>2, <1>4 DEF RouteFresh, Due
<1>5. \A w : Driven(g, w) => Driven(r, w)
  BY <1>2 DEF Driven, Started
<1>. QED
  BY <1>2, <1>3, <1>4, <1>5 DEF OnRoute, r, g

LEMMA RunningEffect ==
    ASSUME NEW c, CarFits(c), HasTarget(c.router), NEW go, GoesOn(c, go), go.ret = 0
    PROVE  LET r == SetCarStatus(go.car, StatusRunning)
           IN  /\ CarFits(r) /\ HaltStands(r)
               /\ \A w : /\ RouteOpen(go.car)
                         /\ ActionFinished(go.car.router) => "evPathFinished" \in w
                         => OnRoute(r, w) /\ LeadsOn(r, w)
<1> DEFINE r == SetCarStatus(go.car, StatusRunning)
           g == go.car
<1>1. CarFits(g) /\ HasTarget(g.router) /\ g.runningMode \in RunModes
      /\ CanDrive(Target0(g.router)) /\ g.target.station = Target0(g.router).id
      /\ g.lastPathMag.station = Target0(g.router).id
  BY GoesOnFits DEF GoesOn
<1>2. /\ CarFits(r) /\ HaltStands(r) /\ r.router = g.router
      /\ r.runningMode = g.runningMode /\ r.target = g.target /\ r.lastPathMag = g.lastPathMag
  BY <1>1, StatusValues, SetStatusFits
<1> HIDE DEF r, g
<1>3. \A w : Aligned(r, w)
  BY <1>1, <1>2 DEF Aligned
<1>4. \A w : LeadsOn(r, w)
  BY <1>1, <1>2, RunModeValues DEF LeadsOn
<1>5. ASSUME NEW w, RouteOpen(g), ActionFinished(g.router) => "evPathFinished" \in w
      PROVE  RouteFresh(r, w)
  BY <1>2, <1>5 DEF RouteFresh, RouteOpen, Due
<1>6. Target0(g.router).id # 0
  BY <1>1, TargetType DEF CarFits, Fits, Target0, WayPoint
<1>7. \A w : Driven(r, w)
  BY <1>1, <1>2, <1>6 DEF Driven, Started
<1>. QED
  BY <1>2, <1>3, <1>4, <1>5, <1>7 DEF OnRoute, r, g

LEMMA GoOnEffect ==
    ASSUME NEW c, CarFits(c), HasTarget(c.router), HaltStands(c), c.posts = NoPosts,
           NEW splits \in BOOLEAN
    PROVE  LET r == GoOn(GoToNextPoint(c, FALSE, splits))
           IN  /\ CarFits(r) /\ HaltStands(r)
               /\ \A w : RouteOpen(c) /\ Aligned(c, w) /\ Started(c)
                           => OnRoute(r, w) /\ LeadsOn(r, w)
<1> DEFINE b == FALSE
           go == GoToNextPoint(c, b, splits)
<1>0. c \in Car /\ Fits(c.router) /\ b \in BOOLEAN /\ ~b
  BY DEF CarFits
<1> HIDE DEF b
<1>1. GoesOn(c, go) /\ (go.ret # 1 => go.car.router.targetPathId > c.router.targetPathId)
  BY <1>0, GoToNextPointEffect
<1> HIDE DEF go
<1>2. go.ret \in {0, 1, -1}
  BY <1>1 DEF GoesOn
<1>3. go.car.router.targetPathId \in Int /\ c.router.targetPathId \in Int
  BY <1>0, <1>1, RouteHasTarget DEF GoesOn, Kept
<1>4. ASSUME go.ret # 1, RouteOpen(c)
      PROVE  RouteOpen(go.car) /\ ~ActionFinished(go.car.router)
  BY <1>1, <1>3, <1>4, GoesOnOpen
<1>7. go.ret # 1 /\ Started(c) => \A w : Driven(go.car, w)
  BY <1>1, GoesOnStarted DEF Driven
<1> DEFINE r == GoOn(go)
<1>5. /\ CarFits(r) /\ HaltStands(r)
      /\ \A w : RouteOpen(c) /\ Aligned(c, w) /\ Started(c)
                  => OnRoute(r, w) /\ LeadsOn(r, w)
  <2>1. CASE go.ret = 1
    <3>1. r = Post(go.car, "evPathFinished", 0)
      BY <2>1 DEF GoOn
    <3>. QED
      BY <1>1, <2>1, <3>1, FinishedEffect
  <2>2. CASE go.ret = -1
    <3>1. r = Post(go.car, "evPathMagError", 0)
      BY <2>2 DEF GoOn
    <3>. HIDE DEF r
    <3>. QED
      BY <1>1, <1>4, <1>7, <2>2, <3>1, RefusedEffect
  <2>3. CASE go.ret = 0
    <3>1. r = SetCarStatus(go.car, StatusRunning)
      BY <2>3 DEF GoOn
    <3>. HIDE DEF r
    <3>. QED
      BY <1>1, <1>4, <2>3, <3>1, RunningEffect
  <2>. QED
    BY <1>2, <2>1, <2>2, <2>3
<1>6. r = GoOn(GoToNextPoint(c, FALSE, splits))
  BY DEF go, b
<1> HIDE DEF r
<1>. QED
  BY <1>5, <1>6

-----------------------------------------------------------------------------
(* The end of a station's action.                                          *)
LEMMA ReportType ==
    ASSUME NEW p \in Planner, HasTarget(p), NEW h
    PROVE  TaskReport(p, h) \subseteq Nat \X {1, 2}
<1>1. GetTargetStation(p).id \in Nat
  BY TargetType DEF WayPoint
<1>. QED
  BY <1>1 DEF TaskReport

(* The mark on the target is all that changes in the route.                *)
LEMMA MarkedEffect ==
    ASSUME NEW p, Fits(p), HasTarget(p), ~ActionFinished(p)
    PROVE  LET q == OnActionFinished(p)
           IN  /\ Fits(q) /\ HasTarget(q) /\ q.targetPathId = p.targetPathId
               /\ q.disk.path = p.disk.path /\ Len(q.list) = Len(p.list)
               /\ Target0(q).id = Target0(p).id
               /\ \A i \in 1 .. Len(p.list) :
                    /\ q.list[i].runMode = p.list[i].runMode
                    /\ q.list[i].align = p.list[i].align
                    /\ i # p.targetPathId + 1 => q.list[i] = p.list[i]
<1> DEFINE k == p.targetPathId + 1
           w == [p.list[k] EXCEPT !.actionFinish = TRUE]
           q == [p EXCEPT !.list[k] = w]
<1>0. p \in Planner /\ p.list \in Seq(WayPoint) /\ k \in 1 .. Len(p.list)
      /\ p.list[k] \in WayPoint
  BY TargetType DEF Fits, GetTargetStation
<1>1. /\ w \in WayPoint /\ w.id = p.list[k].id /\ w.runMode = p.list[k].runMode
      /\ w.align = p.list[k].align
  BY <1>0 DEF WayPoint
<1>2. OnActionFinished(p) = q
  BY DEF OnActionFinished, q, w, k
<1> HIDE DEF w
<1>3. Fits(q)
  BY <1>0, <1>1, PointFits DEF GetTargetStation
<1>4. /\ q.list = [p.list EXCEPT ![k] = w]
      /\ q.targetPathId = p.targetPathId /\ q.disk.path = p.disk.path
  BY <1>0 DEF Planner
<1>5. /\ Len(q.list) = Len(p.list)
      /\ \A i \in 1 .. Len(p.list) : q.list[i] = IF i = k THEN w ELSE p.list[i]
  BY <1>0, <1>4, ExceptSeq
<1>6. HasTarget(q)
  BY <1>3, <1>4, <1>5, RouteHasTarget
<1>7. Target0(q).id = Target0(p).id
  BY <1>0, <1>1, <1>4, <1>5 DEF Target0, GetTargetStation
<1>8. \A i \in 1 .. Len(p.list) : /\ q.list[i].runMode = p.list[i].runMode
                                  /\ q.list[i].align = p.list[i].align
                                  /\ i # k => q.list[i] = p.list[i]
  BY <1>1, <1>5
<1> HIDE DEF q
<1>. QED
  BY <1>2, <1>3, <1>4, <1>5, <1>6, <1>7, <1>8 DEF k

LEMMA DoneEffect ==
    ASSUME NEW c, CarFits(c), HasTarget(c.router), HaltStands(c), ~ActionFinished(c.router)
    PROVE  LET r == [c EXCEPT !.router = OnActionFinished(@),
                              !.reports = @ \cup TaskReport(c.router, c.lastLiftHeight),
                              !.currentPathAction = ActionRun]
           IN  /\ CarFits(r) /\ HasTarget(r.router) /\ HaltStands(r) /\ r.posts = c.posts
               /\ r.lastPathMag = c.lastPathMag
               /\ RouteOpen(c) => RouteOpen(r)
               /\ \A w : Aligned(c, w) => Aligned(r, w)
<1> DEFINE p == c.router
           q == OnActionFinished(p)
           t == c.reports \cup TaskReport(c.router, c.lastLiftHeight)
           r == [c EXCEPT !.router = q, !.reports = t, !.currentPathAction = ActionRun]
<1>0. c \in Car /\ Fits(p) /\ OnFile(p) /\ p \in Planner /\ Len(p.list) \in Nat
  BY RouteHasTarget DEF CarFits, Fits
<1>1. /\ Fits(q) /\ HasTarget(q) /\ q.targetPathId = p.targetPathId
      /\ q.disk.path = p.disk.path /\ Len(q.list) = Len(p.list)
      /\ Target0(q).id = Target0(p).id
      /\ \A i \in 1 .. Len(p.list) :
           /\ q.list[i].runMode = p.list[i].runMode
           /\ q.list[i].align = p.list[i].align
           /\ i # p.targetPathId + 1 => q.list[i] = p.list[i]
  BY <1>0, MarkedEffect
<1>2. t \in SUBSET (Nat \X {1, 2})
  BY <1>0, ReportType DEF Car
<1>3. q \in Planner /\ p.targetPathId \in Int
  BY <1>0, <1>1 DEF Fits, Planner
<1>4. r = [c EXCEPT !.router = OnActionFinished(@),
                    !.reports = @ \cup TaskReport(c.router, c.lastLiftHeight),
                    !.currentPathAction = ActionRun]
  OBVIOUS
<1> HIDE DEF q, t
<1>5. r \in Car /\ SameMove(c, r) /\ r.router = q
  BY <1>0, <1>2, <1>3 DEF Car, SameMove, ActionRun
<1> HIDE DEF r
<1>6. \A i \in 1 .. Len(p.list) : CanDrive(q.list[i]) <=> CanDrive(p.list[i])
  BY <1>1, SameDirection
<1>7. CanDrive(Target0(q)) <=> CanDrive(Target0(p))
  BY <1>0, <1>1, <1>6, TargetType DEF Target0, GetTargetStation
<1>8. OnFile(q)
  BY <1>0, <1>1, <1>6 DEF OnFile
<1>9. CarFits(r) /\ HaltStands(r)
  BY <1>0, <1>1, <1>5, <1>8
     DEF CarFits, HaltStands, SameMove, TellsDriving, RemembersTarget, Silent, Posted
<1>10. ASSUME NEW w, Aligned(c, w) PROVE Aligned(r, w)
  BY <1>1, <1>5, <1>7, <1>10 DEF Aligned, SameMove, Due, Posted
<1>11. ASSUME RouteOpen(c) PROVE RouteOpen(r)
  <2>1. \A i \in 1 .. Len(q.list) : i > q.targetPathId + 1 => ~q.list[i].actionFinish
    BY <1>1, <1>3, <1>11 DEF RouteOpen
  <2>2. q.targetPathId > 0 /\ CanDrive(Target0(q)) => c.lastPathMag.station = Target0(q).id
    BY <1>1, <1>7, <1>11 DEF RouteOpen
  <2>. QED
    BY <1>5, <2>1, <2>2 DEF RouteOpen, SameMove
<1>. QED
  BY <1>1, <1>4, <1>5, <1>9, <1>10, <1>11 DEF SameMove

(* OnStationActionFinished: the car goes on, unless it was done before.    *)
LEMMA OnStationActionFinishedEffect ==
    ASSUME NEW c, CarFits(c), HasTarget(c.router), HaltStands(c), c.posts = NoPosts,
           NEW splits \in BOOLEAN
    PROVE  LET r == OnStationActionFinished(c, splits)
           IN  /\ CarFits(r) /\ HaltStands(r)
               /\ \A w : OnRoute(c, w) /\ Started(c) => OnRoute(r, w) /\ LeadsOn(r, w)
<1> DEFINE done == [c EXCEPT !.router = OnActionFinished(@),
                             !.reports = @ \cup TaskReport(c.router, c.lastLiftHeight),
                             !.currentPathAction = ActionRun]
           r == OnStationActionFinished(c, splits)
<1>1. CASE ActionFinished(c.router)
  <2>1. r = c
    BY <1>1 DEF OnStationActionFinished
  <2> HIDE DEF r
  <2>2. ASSUME NEW w, OnRoute(c, w) PROVE LeadsOn(c, w)
    BY <1>1, <2>2 DEF OnRoute, RouteFresh, LeadsOn, Leading
  <2>. QED
    BY <2>1, <2>2 DEF r
<1>2. CASE ~ActionFinished(c.router)
  <2>1. /\ CarFits(done) /\ HasTarget(done.router) /\ HaltStands(done) /\ done.posts = c.posts
        /\ done.lastPathMag = c.lastPathMag
        /\ RouteOpen(c) => RouteOpen(done)
        /\ \A w : Aligned(c, w) => Aligned(done, w)
    BY <1>2, DoneEffect
  <2>2. r = GoOn(GoToNextPoint(done, FALSE, splits))
    BY <1>2 DEF OnStationActionFinished
  <2> HIDE DEF r, done
  <2>3. /\ CarFits(r) /\ HaltStands(r)
        /\ \A w : RouteOpen(done) /\ Aligned(done, w) /\ Started(done)
                    => OnRoute(r, w) /\ LeadsOn(r, w)
    BY <2>1, <2>2, GoOnEffect
  <2>. QED
    BY <2>1, <2>3 DEF OnRoute, RouteFresh, Started, r
<1>. QED
  BY <1>1, <1>2

(* What the drive does not depend on.                                      *)
LEMMA AsideFits ==
    ASSUME NEW c, CarFits(c), NEW r \in Car, SameDrive(c, r), r.router = c.router
    PROVE  /\ CarFits(r)
           /\ HaltStands(c) => HaltStands(r)
           /\ \A w : OnRoute(c, w) => OnRoute(r, w)
           /\ \A w : LeadsOn(c, w) => LeadsOn(r, w)
<1>1. CarFits(r) /\ (HaltStands(c) => HaltStands(r))
  BY DEF CarFits, SameDrive, TellsDriving, RemembersTarget, Silent, Posted, HaltStands
<1>2. \A w : OnRoute(c, w) => OnRoute(r, w)
  <2>1. \A w : RouteFresh(c, w) => RouteFresh(r, w)
    BY DEF SameDrive, RouteFresh, RouteOpen, Due, Posted
  <2>2. \A w : Aligned(c, w) => Aligned(r, w)
    BY DEF SameDrive, Aligned, Due, Posted
  <2>3. \A w : Driven(c, w) => Driven(r, w)
    BY DEF SameDrive, Driven, Started
  <2>. QED
    BY <2>1, <2>2, <2>3 DEF OnRoute
<1>3. \A w : LeadsOn(c, w) => LeadsOn(r, w)
  BY DEF SameDrive, LeadsOn, Due, Posted
<1>. QED
  BY <1>1, <1>2, <1>3

LEMMA ActionType ==
    ASSUME NEW c \in Car, NEW f \in Nat
    PROVE  LET r == [c EXCEPT !.currentPathAction = f]
           IN  /\ r \in Car /\ SameMove(c, r) /\ r.router = c.router
               /\ r.currentPathAction = f
BY DEF Car, SameMove

(* A car that has had a target may be in any action.                       *)
LEMMA ActionFits ==
    ASSUME NEW c, CarFits(c), NEW r \in Car, SameMove(c, r), r.router = c.router
    PROVE  /\ CarFits(r)
           /\ HaltStands(c) => HaltStands(r)
           /\ \A w : OnRoute(c, w) /\ Started(c) => OnRoute(r, w) /\ Started(r)
<1>1. CarFits(r) /\ (HaltStands(c) => HaltStands(r))
  BY DEF CarFits, SameMove, TellsDriving, RemembersTarget, Silent, Posted, HaltStands
<1>2. \A w : RouteFresh(c, w) => RouteFresh(r, w)
  BY DEF SameMove, RouteFresh, RouteOpen, Due, Posted
<1>3. \A w : Aligned(c, w) => Aligned(r, w)
  BY DEF SameMove, Aligned, Due, Posted
<1>4. Started(c) => Started(r) /\ \A w : Driven(r, w)
  BY DEF SameMove, Driven, Started
<1>. QED
  BY <1>1, <1>2, <1>3, <1>4 DEF OnRoute

LEMMA ChargingType ==
    ASSUME NEW c \in Car, NEW on \in BOOLEAN
    PROVE  LET r == [c EXCEPT !.charging = on]
           IN  r \in Car /\ SameDrive(c, r) /\ r.router = c.router
BY DEF Car, SameDrive

LEMMA StopCarOnRoute ==
    ASSUME NEW c, CarFits(c), HaltStands(c)
    PROVE  /\ \A w : OnRoute(c, w) => OnRoute(StopCar(c), w)
           /\ \A w : LeadsOn(StopCar(c), w)
<1> DEFINE r == StopCar(c)
<1>1. /\ r.status = StatusStopped /\ r.runningMode = StopMode
      /\ r.router = c.router /\ r.lastPathMag = c.lastPathMag
      /\ r.target = c.target /\ r.posts = c.posts
      /\ r.currentPathAction = c.currentPathAction
  BY StopCarEffect
<1> HIDE DEF r
<1>2. \A w : OnRoute(c, w) => OnRoute(r, w)
  BY <1>1, StatusOnRoute
<1>3. \A w : LeadsOn(r, w)
  BY <1>1, StatusValues DEF LeadsOn
<1>. QED
  BY <1>2, <1>3 DEF r

LEMMA OnArrivedStationEffect ==
    ASSUME NEW c, CarFits(c), HasTarget(c.router), HaltStands(c), c.posts = NoPosts,
           NEW splits \in BOOLEAN
    PROVE  LET r == OnArrivedStation(c, splits)
           IN  /\ CarFits(r) /\ HaltStands(r)
               /\ \A w : OnRoute(c, w) /\ Started(c) => OnRoute(r, w) /\ LeadsOn(r, w)
<1> DEFINE t == Target0(c.router)
           d == [c EXCEPT !.currentPathAction = t.action]
           s == IF t.action \in {ActionStop, ActionLiftUpDown, ActionCharge} THEN StopCar(d) ELSE d
           b == TRUE
           e == [s EXCEPT !.charging = b]
           r == OnArrivedStation(c, splits)
<1>0. c \in Car /\ Fits(c.router) /\ b \in BOOLEAN
  BY DEF CarFits
<1>1. t \in WayPoint /\ t.action \in Nat /\ t.liftHeight \in Int
  BY <1>0, TargetType DEF Fits, Target0, WayPoint, NoHeight
<1>2. d \in Car /\ SameMove(c, d) /\ d.router = c.router /\ d.currentPathAction = t.action
  BY <1>0, <1>1, ActionType
<1>3. OnArrivedStation(c, splits) =
        CASE t.action = ActionLiftUpDown /\ ~LiftIsArrived(s, t.liftHeight)
                -> SetLiftHeight(s, t.liftHeight)
          [] t.action > ActionCharge -> s
          [] t.action = ActionCharge -> OnStationActionFinished(e, splits)
          [] OTHER -> OnStationActionFinished(s, splits)
  BY DEF OnArrivedStation
<1> HIDE DEF d, b
<1>4. /\ CarFits(d) /\ HaltStands(d)
      /\ \A w : OnRoute(c, w) /\ Started(c) => OnRoute(d, w) /\ Started(d)
  BY <1>2, ActionFits
<1>5. /\ CarFits(s) /\ HaltStands(s) /\ s.posts = c.posts /\ s.router = c.router
      /\ s.currentPathAction = t.action
      /\ \A w : OnRoute(c, w) /\ Started(c) => OnRoute(s, w) /\ Started(s)
  <2>1. CASE t.action \in {ActionStop, ActionLiftUpDown, ActionCharge}
    <3>1. s = StopCar(d)
      BY <2>1
    <3>. QED
      BY <1>2, <1>4, <3>1, StopCarEffect, StopCarOnRoute DEF SameMove, Started
  <2>2. CASE ~(t.action \in {ActionStop, ActionLiftUpDown, ActionCharge})
    BY <1>2, <1>4, <2>2 DEF SameMove
  <2>. QED
    BY <2>1, <2>2
<1>6. t.action = ActionLiftUpDown => \A w : LeadsOn(s, w)
  BY <1>4, StopCarOnRoute
<1>7. s \in Car
  BY <1>5 DEF CarFits
<1> HIDE DEF s
<1>8. e \in Car /\ SameDrive(s, e) /\ e.router = s.router
  BY <1>0, <1>7, ChargingType
<1> HIDE DEF e, r
<1>9. CASE t.action = ActionLiftUpDown /\ ~LiftIsArrived(s, t.liftHeight)
  <2>1. r = SetLiftHeight(s, t.liftHeight)
    BY <1>3, <1>9 DEF r, ActionLiftUpDown, ActionCharge
  <2>2. r \in Car /\ SameDrive(s, r) /\ r.router = s.router
    BY <1>1, <1>7, <2>1, SetLiftHeightType
  <2>3. CarFits(r) /\ HaltStands(r) /\ (\A w : OnRoute(s, w) => OnRoute(r, w))
        /\ (\A w : LeadsOn(s, w) => LeadsOn(r, w))
    BY <1>5, <2>2, AsideFits
  <2>. QED
    BY <1>5, <1>6, <1>9, <2>3 DEF r
<1>10. CASE t.action > ActionCharge
  <2>1. r = s
    BY <1>1, <1>3, <1>10 DEF r, ActionLiftUpDown, ActionCharge
  <2>2. \A w : LeadsOn(s, w)
    BY <1>5, <1>10 DEF LeadsOn
  <2>. QED
    BY <1>5, <2>1, <2>2 DEF r
<1>11. CASE t.action = ActionCharge
  <2>1. r = OnStationActionFinished(e, splits)
    BY <1>3, <1>11 DEF r, ActionLiftUpDown, ActionCharge
  <2>2. CarFits(e) /\ HaltStands(e) /\ (\A w : OnRoute(s, w) => OnRoute(e, w))
        /\ HasTarget(e.router) /\ e.posts = NoPosts /\ (Started(s) => Started(e))
    BY <1>5, <1>8, AsideFits DEF SameDrive, Started
  <2>. QED
    BY <1>5, <2>1, <2>2, OnStationActionFinishedEffect DEF r
<1>12. CASE /\ ~(t.action = ActionLiftUpDown /\ ~LiftIsArrived(s, t.liftHeight))
            /\ ~(t.action > ActionCharge) /\ t.action # ActionCharge
  <2>1. r = OnStationActionFinished(s, splits)
    BY <1>3, <1>12 DEF r
  <2>. QED
    BY <1>5, <2>1, OnStationActionFinishedEffect DEF r
<1>. QED
  BY <1>9, <1>10, <1>11, <1>12

LEMMA OnLiftArrivedHeightEffect ==
    ASSUME NEW c, CarFits(c), HaltStands(c), c.posts = NoPosts, NEW splits \in BOOLEAN,
           c.currentPathAction = ActionLiftUpDown => HasTarget(c.router)
    PROVE  LET r == OnLiftArrivedHeight(c, splits)
           IN  /\ CarFits(r) /\ HaltStands(r)
               /\ \A w : OnRoute(c, w) /\ LeadsOn(c, w) => OnRoute(r, w) /\ LeadsOn(r, w)
<1>1. CASE c.currentPathAction = ActionLiftUpDown
  <2>1. OnLiftArrivedHeight(c, splits) = OnStationActionFinished(c, splits)
    BY <1>1 DEF OnLiftArrivedHeight
  <2>2. \A w : OnRoute(c, w) => Started(c)
    BY <1>1 DEF OnRoute, Driven, ActionRun, ActionLiftUpDown
  <2>. QED
    BY <1>1, <2>1, <2>2, OnStationActionFinishedEffect
<1>2. CASE c.currentPathAction # ActionLiftUpDown
  BY <1>2 DEF OnLiftArrivedHeight
<1>. QED
  BY <1>1, <1>2

-----------------------------------------------------------------------------
(* StartRun.                                                               *)
LEMMA GoFirstEffect ==
    ASSUME NEW c, CarFits(c), HasTarget(c.router), HaltStands(c), c.posts = NoPosts,
           NEW splits \in BOOLEAN
    PROVE  LET r == GoFirst(GoToNextPoint(c, TRUE, splits))
           IN  /\ CarFits(r) /\ HaltStands(r)
               /\ \A w : OnRoute(c, w) => OnRoute(r, w) /\ LeadsOn(r, w)
<1> DEFINE b == TRUE
           go == GoToNextPoint(c, b, splits)
           r == GoFirst(go)
           p == c.router
           q == go.car.router
<1>0. c \in Car /\ Fits(p) /\ b \in BOOLEAN /\ b
  BY DEF CarFits
<1> HIDE DEF b
<1>1. GoesOn(c, go) /\ go.ret # 1 /\ q.targetPathId = p.targetPathId
  BY <1>0, GoToNextPointEffect
<1>2. go.ret \in {0, -1}
  BY <1>1 DEF GoesOn
<1>3. p.targetPathId \in Int /\ Kept(p, q)
  BY <1>0, <1>1, RouteHasTarget DEF GoesOn
<1>4. ActionFinished(q) = ActionFinished(p)
  BY <1>0, <1>1, <1>3, KeptPoint
<1> HIDE DEF go
<1>5. RouteOpen(c) => RouteOpen(go.car)
  BY <1>1, <1>3, GoesOnOpen
<1>6. ASSUME NEW w, OnRoute(c, w)
      PROVE  /\ RouteOpen(go.car)
             /\ ActionFinished(go.car.router) => "evPathFinished" \in w
  BY <1>4, <1>5, <1>6, NothingPosted DEF OnRoute, RouteFresh, Due
<1>9. ASSUME go.ret = -1, NEW w, OnRoute(c, w) PROVE Driven(go.car, w)
  <2>1. CASE Started(c)
    BY <1>1, <2>1, GoesOnStarted DEF Driven
  <2>2. CASE ~Started(c)
    <3>1. go.car.currentPathAction = c.currentPathAction /\ go.car.runningMode = c.runningMode
      BY <1>1, <1>9 DEF GoesOn
    <3>. QED
      BY <1>1, <1>9, <2>2, <3>1 DEF OnRoute, Driven
  <2>. QED
    BY <2>1, <2>2
<1>7. /\ CarFits(r) /\ HaltStands(r)
      /\ \A w : OnRoute(c, w) => OnRoute(r, w) /\ LeadsOn(r, w)
  <2>1. CASE go.ret = -1
    <3>1. r = Post(go.car, "evPathMagError", 0)
      BY <2>1 DEF GoFirst
    <3>. HIDE DEF r
    <3>. QED
      BY <1>1, <1>6, <1>9, <2>1, <3>1, RefusedEffect
  <2>2. CASE go.ret = 0
    <3>1. r = SetCarStatus(go.car, StatusRunning)
      BY <2>2 DEF GoFirst
    <3>. HIDE DEF r
    <3>. QED
      BY <1>1, <1>6, <2>2, <3>1, RunningEffect
  <2>. QED
    BY <1>2, <2>1, <2>2
<1>8. r = GoFirst(GoToNextPoint(c, TRUE, splits))
  BY DEF go, b
<1> HIDE DEF r
<1>. QED
  BY <1>7, <1>8

(* ResetLastTargetStation, whose outcome StartRun ignores: the car drives  *)
(* to the target it remembers, or the error is posted.                     *)
LEMMA ResetLastTargetEffect ==
    ASSUME NEW c, CarFits(c), NEW splits \in BOOLEAN
    PROVE  LET r == ResetLastTargetStation(c, splits)
           IN  /\ CarFits(r) /\ r.router = c.router /\ r.lastPathMag = c.lastPathMag
               /\ Started(c) => \/ Posted(r, "evPathMagError")
                                \/ r.runningMode # StopMode /\ r.target = c.lastPathMag
<1> DEFINE r == ResetLastTargetStation(c, splits)
           t == c.lastPathMag
<1>1. CASE t.station = 0
  <2>1. r = c
    BY <1>1 DEF ResetLastTargetStation
  <2>. QED
    BY <1>1, <2>1 DEF Started
<1>2. CASE t.station # 0
  <2>1. t # NoTarget
    BY <1>2 DEF NoTarget
  <2>2. c \in Car /\ t \in Target /\ t.mode \in RunModes
    BY <2>1 DEF CarFits, RemembersTarget, Car
  <2> DEFINE go == SetTarget(c, t, splits)
  <2>3. /\ go.ret \in {0, -1} /\ go.car \in Car
        /\ go.car.status = c.status /\ go.car.router = c.router
        /\ go.car.lastPathMag = c.lastPathMag /\ go.car.carRunningMode = t.mode
        /\ Silent(c) => Silent(go.car)
        /\ go.ret = 0 => go.car.target = t /\ go.car.runningMode = t.mode
        /\ go.ret = -1 => /\ go.car.target = c.target /\ go.car.runningMode = c.runningMode
                          /\ Posted(go.car, "evPathMagError")
    BY <2>2, SetTargetEffect
  <2>4. r = go.car
    BY <1>2 DEF ResetLastTargetStation
  <2> HIDE DEF r, go
  <2>5. CarFits(r)
    BY <2>2, <2>3, <2>4, RunModeValues DEF CarFits, TellsDriving, RemembersTarget
  <2>. QED
    BY <2>2, <2>3, <2>4, <2>5, RunModeValues DEF r
<1>. QED
  BY <1>1, <1>2

LEMMA StartRunEffect ==
    ASSUME NEW c, CarFits(c), HaltStands(c), c.posts = NoPosts, NEW splits \in BOOLEAN
    PROVE  LET r == StartRun(c, splits)
           IN  /\ CarFits(r) /\ HaltStands(r)
               /\ \A w : OnRoute(c, w) /\ LeadsOn(c, w) => OnRoute(r, w) /\ LeadsOn(r, w)
<1> DEFINE r == StartRun(c, splits)
           p == c.router
<1>0. c \in Car /\ Fits(p) /\ p \in Planner
  BY DEF CarFits, Fits
<1>1. PathCount(p) # 0 => HasTarget(p)
  BY <1>0, RouteHasTarget
<1>2. CASE PathCount(p) = 0
  <2>1. r = c
    BY <1>2 DEF StartRun
  <2>. HIDE DEF r
  <2>. QED
    BY <2>1 DEF r
<1>3. CASE PathCount(p) # 0 /\ p.targetPathId = 0
  <2>1. r = GoFirst(GoToNextPoint(c, TRUE, splits))
    BY <1>3 DEF StartRun
  <2>. HIDE DEF r
  <2>. QED
    BY <1>1, <1>3, <2>1, GoFirstEffect DEF r
<1>4. CASE PathCount(p) # 0 /\ p.targetPathId # 0
  <2> DEFINE d == ResetLastTargetStation(c, splits)
  <2>1. /\ CarFits(d) /\ d.router = c.router /\ d.lastPathMag = c.lastPathMag
        /\ Started(c) => \/ Posted(d, "evPathMagError")
                         \/ d.runningMode # StopMode /\ d.target = c.lastPathMag
    BY ResetLastTargetEffect
  <2>2. r = SetCarStatus(d, StatusRunning)
    BY <1>4 DEF StartRun
  <2>3. p.targetPathId > 0
    BY <1>0, <1>1, <1>4, RouteHasTarget
  <2> HIDE DEF d, r
  <2>5. /\ CarFits(r) /\ HaltStands(r)
        /\ r.runningMode = d.runningMode
        /\ r.router = d.router /\ r.lastPathMag = d.lastPathMag
        /\ r.target = d.target /\ r.posts = d.posts
    BY <2>1, <2>2, StatusValues, SetStatusFits
  <2>6. ASSUME NEW w, OnRoute(c, w)
        PROVE  OnRoute(r, w) /\ LeadsOn(r, w)
    <3>1. Started(c)
      BY <2>3, <2>6 DEF OnRoute, Driven
    <3>2. CanDrive(Target0(p)) => c.lastPathMag.station = Target0(p).id
      BY <2>3, <2>6 DEF OnRoute, RouteFresh, RouteOpen
    <3>3. \/ Posted(r, "evPathMagError")
          \/ r.runningMode # StopMode /\ r.target = r.lastPathMag
      BY <2>1, <2>5, <3>1 DEF Posted
    <3>6. LeadsOn(r, w)
      BY <3>3 DEF LeadsOn, Leading, Due
    <3>7. Aligned(r, w)
      BY <2>1, <2>5, <3>2, <3>3 DEF Aligned, Due
    <3>8. Driven(r, w)
      BY <2>1, <2>5, <3>1 DEF Driven, Started
    <3>4. RouteOpen(r)
      BY <2>1, <2>5, <2>6 DEF OnRoute, RouteFresh, RouteOpen
    <3>5. HasTarget(r.router) /\ ActionFinished(r.router) => Due(r, w, "evPathFinished")
      BY <2>1, <2>5, <2>6, NothingPosted DEF OnRoute, RouteFresh, Due
    <3>. QED
      BY <3>4, <3>5, <3>6, <3>7, <3>8 DEF OnRoute, RouteFresh
  <2>. QED
    BY <2>5, <2>6 DEF r
<1>. QED
  BY <1>2, <1>3, <1>4

-----------------------------------------------------------------------------
(* Routes that are loaded: nothing of them is finished.                    *)
Resumes(c) ==
    c.router.targetPathId > 0 /\ CanDrive(Target0(c.router)) =>
        c.lastPathMag.station = Target0(c.router).id

LEMMA UnfinishedOpen ==
    ASSUME NEW s \in Seq(WayPoint),
           NEW r, Fits(r.router), r.router.list = Unfinished(s), Resumes(r)
    PROVE  RouteOpen(r) /\ (HasTarget(r.router) => ~ActionFinished(r.router))
<1> DEFINE p == r.router
<1>1. /\ Len(p.list) = Len(s)
      /\ \A i \in 1 .. Len(p.list) : ~p.list[i].actionFinish
  BY UnfinishedType
<1>2. RouteOpen(r)
  BY <1>1 DEF RouteOpen, Resumes
<1>3. HasTarget(p) => p.targetPathId + 1 \in 1 .. Len(p.list)
  BY TargetType DEF Fits
<1>4. HasTarget(p) => ~ActionFinished(p)
  BY <1>1, <1>3 DEF ActionFinished, GetTargetStation
<1>. QED
  BY <1>2, <1>4

(* The planner's methods with a file that opens.                           *)
NewRoute(p, points) == OnGetNewPath(p, points, TRUE)
Loaded(p) == loadPathInfo(p, TRUE)
Reloaded(p) == ReloadPathList(p, TRUE)

LEMMA LoadedFits ==
    ASSUME NEW p, Fits(p)
    PROVE  /\ Fits(Loaded(p)) /\ Loaded(p).list = Unfinished(p.disk.path)
           /\ Loaded(p).targetPathId = p.setting.TargetPointId
           /\ Loaded(p).disk.path = p.disk.path
           /\ Fits(Reloaded(p)) /\ Reloaded(p).list = Unfinished(p.disk.path)
           /\ Reloaded(p).targetPathId = 0
           /\ Reloaded(p).disk.path = p.disk.path
<1>1. ASSUME NEW b \in BOOLEAN, b = TRUE
      PROVE  /\ Fits(loadPathInfo(p, b)) /\ loadPathInfo(p, b).list = Unfinished(p.disk.path)
             /\ loadPathInfo(p, b).targetPathId = p.setting.TargetPointId
             /\ loadPathInfo(p, b).disk.path = p.disk.path
  BY <1>1, LoadFits
<1>2. ASSUME NEW b \in BOOLEAN, b = TRUE
      PROVE  /\ Fits(ReloadPathList(p, b)) /\ ReloadPathList(p, b).list = Unfinished(p.disk.path)
             /\ ReloadPathList(p, b).targetPathId = 0
             /\ ReloadPathList(p, b).disk.path = p.disk.path
  BY <1>2, ReloadFits
<1>3. PICK b \in BOOLEAN : b = TRUE
  OBVIOUS
<1>4. Loaded(p) = loadPathInfo(p, b) /\ Reloaded(p) = ReloadPathList(p, b)
  BY <1>3, Zenon DEF Loaded, Reloaded
<1>. QED
  BY <1>1, <1>2, <1>3, <1>4

(* The route of a file agrees with the file.                               *)
LEMMA UnfinishedOnFile ==
    ASSUME NEW s \in Seq(WayPoint), NEW p, p.list = Unfinished(s),
           p.disk.path \in {s, Unfinished(s)}
    PROVE  OnFile(p)
<1>1. /\ Len(p.list) = Len(s)
      /\ \A i \in 1 .. Len(s) : /\ p.list[i].runMode = s[i].runMode
                                /\ p.list[i].align = s[i].align
  BY UnfinishedType
<1>2. \A i \in 1 .. Len(s) : CanDrive(p.list[i]) <=> CanDrive(s[i])
  BY <1>1, SameDirection
<1>3. CASE p.disk.path = s
  BY <1>1, <1>2, <1>3 DEF OnFile
<1>4. CASE p.disk.path = Unfinished(s)
  BY <1>4 DEF OnFile
<1>. QED
  BY <1>3, <1>4

(* A car that stands gets the route of the file from its start.            *)
LEMMA ReloadedEffect ==
    ASSUME NEW c, CarFits(c), NEW r \in Car, r.router = Reloaded(c.router),
           TellsDriving(r), RemembersTarget(r), Silent(r)
    PROVE  /\ CarFits(r) /\ r.router.targetPathId = 0
           /\ \A w : RouteFresh(r, w)
<1> DEFINE p == c.router
           q == r.router
<1>1. Fits(p) /\ p.disk.path \in Seq(WayPoint)
  BY DEF CarFits, Fits, Planner, Disk
<1>2. /\ Fits(q) /\ q.list = Unfinished(p.disk.path) /\ q.targetPathId = 0
      /\ q.disk.path = p.disk.path
  BY <1>1, LoadedFits
<1>3. OnFile(q)
  BY <1>1, <1>2, UnfinishedOnFile
<1>4. Resumes(r)
  BY <1>2 DEF Resumes
<1>5. RouteOpen(r) /\ (HasTarget(r.router) => ~ActionFinished(r.router))
  BY <1>1, <1>2, <1>4, UnfinishedOpen
<1>. QED
  BY <1>2, <1>3, <1>5 DEF CarFits, RouteFresh

(* CAgvRoutePlanner::Start: the same stations, the same cursor.            *)
LEMMA LoadedEffect ==
    ASSUME NEW c, CarFits(c), c.posts = NoPosts, NEW r \in Car, SameDrive(c, r),
           r.router = Loaded(c.router)
    PROVE  /\ CarFits(r)
           /\ HaltStands(c) => HaltStands(r)
           /\ \A w : OnRoute(c, w) => OnRoute(r, w)
           /\ \A w : LeadsOn(c, w) => LeadsOn(r, w)
<1> DEFINE p == c.router
           q == r.router
<1>1. /\ Fits(p) /\ p.disk.path \in Seq(WayPoint)
      /\ Len(p.list) = Len(p.disk.path) /\ Len(p.list) \in Nat
  BY RouteHasTarget DEF CarFits, Fits, Planner, Disk, OnFile
<1>2. /\ Fits(q) /\ q.list = Unfinished(p.disk.path)
      /\ q.targetPathId = p.setting.TargetPointId /\ q.disk.path = p.disk.path
  BY <1>1, LoadedFits
<1>3. OnFile(q) /\ Len(q.list) = Len(p.list)
  BY <1>1, <1>2, UnfinishedOnFile, UnfinishedType
<1>4. HasTarget(q) <=> HasTarget(p)
  BY <1>1, <1>2, <1>3, RouteHasTarget
<1>5. ASSUME HasTarget(p)
      PROVE  /\ q.targetPathId = p.targetPathId /\ Target0(q).id = Target0(p).id
             /\ CanDrive(Target0(q)) <=> CanDrive(Target0(p))
  <2> DEFINE k == p.targetPathId + 1
  <2>1. p.list # << >> /\ k \in 1 .. Len(p.list)
    BY <1>1, <1>5, RouteHasTarget, EmptySeq
  <2>2. /\ p.setting.TargetPointId = p.targetPathId
        /\ p.list[k].id = p.disk.path[k].id
    BY <1>1, <2>1 DEF Fits, SettingsFit
  <2>3. /\ q.list[k].id = p.disk.path[k].id
        /\ CanDrive(q.list[k]) <=> CanDrive(p.disk.path[k])
    BY <1>1, <1>2, <1>3, <2>1, UnfinishedType DEF OnFile
  <2>4. CanDrive(p.list[k]) <=> CanDrive(p.disk.path[k])
    BY <2>1 DEF CarFits, OnFile
  <2>. QED
    BY <1>2, <2>2, <2>3, <2>4 DEF Target0, GetTargetStation
<1>6. q.targetPathId = p.targetPathId
  BY <1>1, <1>2, <1>4, <1>5, RouteHasTarget
<1>7. CarFits(r) /\ (HaltStands(c) => HaltStands(r))
  BY <1>2, <1>3
     DEF CarFits, HaltStands, SameDrive, TellsDriving, RemembersTarget, Silent, Posted
<1>8. \A w : LeadsOn(c, w) => LeadsOn(r, w)
  BY DEF LeadsOn, SameDrive, Due, Posted
<1>9. ASSUME NEW w, OnRoute(c, w) PROVE OnRoute(r, w)
  <2>1. Resumes(r)
    <3>1. q.targetPathId > 0 => HasTarget(p)
      BY <1>1, <1>6, RouteHasTarget
    <3>. QED
      BY <1>5, <1>6, <1>9, <3>1 DEF OnRoute, RouteFresh, RouteOpen, SameDrive, Resumes
  <2>2. RouteOpen(r) /\ (HasTarget(q) => ~ActionFinished(q))
    BY <1>1, <1>2, <2>1, UnfinishedOpen
  <2>3. Aligned(r, w)
    BY <1>4, <1>5, <1>9 DEF OnRoute, Aligned, SameDrive, Due, Posted
  <2>4. Driven(r, w)
    BY <1>6, <1>9 DEF OnRoute, Driven, Started, SameDrive
  <2>. QED
    BY <2>2, <2>3, <2>4 DEF OnRoute, RouteFresh
<1>. QED
  BY <1>7, <1>8, <1>9

(* OnGetNewPath: the new route, saved.                                     *)
LEMMA NewRouteEffect ==
    ASSUME NEW c, CarFits(c), HaltStands(c), NEW points \in Seq(WayPoint),
           NEW r \in Car, SameDrive(c, r), r.router = NewRoute(c.router, points)
    PROVE  /\ CarFits(r) /\ HaltStands(r) /\ r.router.targetPathId = 0
           /\ \A w : RouteFresh(r, w)
           /\ points = << >> => ~HasTarget(r.router)
<1> DEFINE q == r.router
<1>1. /\ Fits(q) /\ q.list = Unfinished(points) /\ q.disk.path = Unfinished(points)
      /\ q.targetPathId = 0
  BY NewPathFits, ZenonT(40) DEF CarFits, NewRoute
<1>2. OnFile(q)
  BY <1>1, UnfinishedOnFile
<1>3. CarFits(r) /\ HaltStands(r)
  BY <1>1, <1>2
     DEF CarFits, HaltStands, SameDrive, TellsDriving, RemembersTarget, Silent, Posted
<1>4. Resumes(r)
  BY <1>1 DEF Resumes
<1>5. RouteOpen(r) /\ (HasTarget(q) => ~ActionFinished(q))
  BY <1>1, <1>4, UnfinishedOpen
<1>6. points = << >> => ~HasTarget(q)
  <2>1. points = << >> => Len(q.list) = 0
    BY <1>1, UnfinishedType, EmptySeq
  <2>. QED
    BY <1>1, <2>1, RouteHasTarget
<1>. QED
  BY <1>1, <1>3, <1>5, <1>6 DEF RouteFresh

-----------------------------------------------------------------------------
(* The queues.                                                             *)
Waits == {ev \in DOMAIN PriorityOf : Waiting(ev)}

HasIn(s, ev) == \E i \in 1 .. Len(s) : s[i].ev = ev
HasEvent(q, ev) == \E d \in Class : HasIn(q[d], ev)
Left(q, c, d) == IF d = c THEN Tail(q[d]) ELSE q[d]

LEMMA BehindEffect ==
    ASSUME NEW a \in Seq(Event), NEW b \in Seq(Event)
    PROVE  /\ a \o b \in Seq(Event)
           /\ \A ev : HasIn(a, ev) \/ HasIn(b, ev) <=> HasIn(a \o b, ev)
<1> DEFINE s == a \o b
<1>1. Len(a) \in Nat /\ Len(b) \in Nat
  BY LenProperties
<1>2. /\ s \in Seq(Event) /\ Len(s) = Len(a) + Len(b)
      /\ \A i \in 1 .. Len(a) + Len(b) :
            s[i] = IF i <= Len(a) THEN a[i] ELSE b[i - Len(a)]
  BY ConcatProperties
<1> HIDE DEF s
<1>3. \A i \in 1 .. Len(a) : i \in 1 .. Len(s) /\ s[i] = a[i]
  BY <1>1, <1>2
<1>4. ASSUME NEW i \in 1 .. Len(b) PROVE Len(a) + i \in 1 .. Len(s) /\ s[Len(a) + i] = b[i]
  <2>1. /\ i \in Nat /\ Len(a) + i \in 1 .. Len(a) + Len(b) /\ ~(Len(a) + i <= Len(a))
        /\ (Len(a) + i) - Len(a) = i
    BY <1>1
  <2>. QED
    BY <1>2, <2>1
<1>5. ASSUME NEW ev, HasIn(s, ev) PROVE HasIn(a, ev) \/ HasIn(b, ev)
  <2>1. PICK i \in 1 .. Len(s) : s[i].ev = ev
    BY <1>5 DEF HasIn
  <2>2. CASE i <= Len(a)
    <3>1. i \in 1 .. Len(a) /\ s[i] = a[i]
      BY <1>1, <1>2, <2>1, <2>2
    <3>. QED
      BY <2>1, <3>1 DEF HasIn
  <2>3. CASE ~(i <= Len(a))
    <3>1. i - Len(a) \in 1 .. Len(b) /\ s[i] = b[i - Len(a)]
      BY <1>1, <1>2, <2>1, <2>3
    <3>. QED
      BY <2>1, <3>1 DEF HasIn
  <2>. QED
    BY <2>2, <2>3
<1>6. \A ev : HasIn(a, ev) \/ HasIn(b, ev) => HasIn(s, ev)
  BY <1>3, <1>4 DEF HasIn
<1>. QED
  BY <1>2, <1>5, <1>6 DEF s

(* Events are added behind.                                                *)
LEMMA AddedEffect ==
    ASSUME NEW q \in [Class -> Seq(Event)], NEW posts \in [Class -> Seq(Event)],
           NEW r, \A d \in Class : r[d] = q[d] \o posts[d]
    PROVE  /\ \A d \in Class : r[d] \in Seq(Event)
           /\ \A ev : HasEvent(q, ev) \/ HasEvent(posts, ev) <=> HasEvent(r, ev)
<1>1. ASSUME NEW d \in Class
      PROVE  /\ r[d] \in Seq(Event)
             /\ \A ev : HasIn(q[d], ev) \/ HasIn(posts[d], ev) <=> HasIn(r[d], ev)
  <2>1. q[d] \in Seq(Event) /\ posts[d] \in Seq(Event) /\ r[d] = q[d] \o posts[d]
    OBVIOUS
  <2>. QED
    BY <2>1, BehindEffect
<1>. QED
  BY <1>1 DEF HasEvent

(* The front of queue c is taken, and events are added behind.             *)
Taken(q, c, posts, r) == \A d \in Class : r[d] = Left(q, c, d) \o posts[d]

LEMMA TakenEffect ==
    ASSUME NEW q \in [Class -> Seq(Event)], NEW posts \in [Class -> Seq(Event)],
           NEW c \in Class, q[c] # << >>, NEW r,
           Taken(q, c, posts, r)
    PROVE  /\ \A d \in Class : r[d] \in Seq(Event)
           /\ Head(q[c]) \in Event
           /\ \A ev : HasEvent(q, ev) /\ ev # Head(q[c]).ev => HasEvent(r, ev)
           /\ \A ev : HasEvent(posts, ev) => HasEvent(r, ev)
           /\ \A ev : HasEvent(r, ev) => HasEvent(q, ev) \/ HasEvent(posts, ev)
<1> DEFINE t == [d \in Class |-> Left(q, c, d)]
<1>1. /\ q[c] \in Seq(Event) /\ Tail(q[c]) \in Seq(Event) /\ Head(q[c]) \in Event
      /\ Head(q[c]) = q[c][1]
      /\ Len(q[c]) \in Nat /\ Len(Tail(q[c])) = Len(q[c]) - 1
      /\ \A i \in 1 .. Len(Tail(q[c])) : Tail(q[c])[i] = q[c][i + 1]
  BY HeadTailProperties, LenProperties
<1>2. t \in [Class -> Seq(Event)]
  BY <1>1 DEF Left
<1>3. ASSUME NEW ev, HasEvent(q, ev), ev # Head(q[c]).ev PROVE HasEvent(t, ev)
  <2>0. PICK d \in Class : \E i \in 1 .. Len(q[d]) : q[d][i].ev = ev
    BY <1>3 DEF HasEvent, HasIn
  <2>1. PICK i \in 1 .. Len(q[d]) : q[d][i].ev = ev
    BY <2>0
  <2>2. CASE d = c
    <3>1. i # 1
      BY <1>1, <1>3, <2>1, <2>2
    <3>2. i - 1 \in 1 .. Len(t[c]) /\ t[c][i - 1] = q[c][i]
      BY <1>1, <2>1, <2>2, <3>1 DEF Left
    <3>. QED
      BY <2>1, <2>2, <3>2 DEF HasEvent, HasIn
  <2>3. CASE d # c
    BY <2>1, <2>3 DEF HasEvent, HasIn, Left
  <2>. QED
    BY <2>2, <2>3
<1>4. \A d \in Class : r[d] = t[d] \o posts[d]
  BY DEF Taken
<1>5. ASSUME NEW ev, HasEvent(t, ev) PROVE HasEvent(q, ev)
  <2>0. PICK d \in Class : \E i \in 1 .. Len(t[d]) : t[d][i].ev = ev
    BY <1>5 DEF HasEvent, HasIn
  <2>1. PICK i \in 1 .. Len(t[d]) : t[d][i].ev = ev
    BY <2>0
  <2>2. CASE d = c
    <3>1. i + 1 \in 1 .. Len(q[c]) /\ q[c][i + 1] = t[c][i]
      BY <1>1, <2>1, <2>2 DEF Left
    <3>. QED
      BY <2>1, <2>2, <3>1 DEF HasEvent, HasIn
  <2>3. CASE d # c
    BY <2>1, <2>3 DEF HasEvent, HasIn, Left
  <2>. QED
    BY <2>2, <2>3
<1> HIDE DEF t
<1>6. /\ \A d \in Class : r[d] \in Seq(Event)
      /\ \A ev : HasEvent(t, ev) \/ HasEvent(posts, ev) <=> HasEvent(r, ev)
  BY <1>2, <1>4, AddedEffect, ZenonT(150)
<1>. QED
  BY <1>1, <1>3, <1>5, <1>6, ZenonT(40)

(* One event is enqueued.                                                  *)
LEMMA EnqueuedEffect ==
    ASSUME NEW q \in [Class -> Seq(Event)], NEW e \in Event
    PROVE  LET r == [q EXCEPT ![PriorityOf[e.ev]] = Append(@, e)]
           IN  /\ r \in [Class -> Seq(Event)]
               /\ \A ev : HasEvent(q, ev) \/ ev = e.ev <=> HasEvent(r, ev)
<1> DEFINE k == PriorityOf[e.ev]
           r == [q EXCEPT ![k] = Append(@, e)]
<1>1. k \in Class
  BY PriorityClass DEF Event
<1> HIDE DEF k
<1>2. /\ q[k] \in Seq(Event) /\ Len(q[k]) \in Nat
      /\ Append(q[k], e) \in Seq(Event)
      /\ Len(Append(q[k], e)) = Len(q[k]) + 1
      /\ \A i \in 1 .. Len(q[k]) : Append(q[k], e)[i] = q[k][i]
      /\ Append(q[k], e)[Len(q[k]) + 1] = e
  BY <1>1, AppendProperties, LenProperties
<1>3. r \in [Class -> Seq(Event)] /\ r[k] = Append(q[k], e)
      /\ \A d \in Class : d # k => r[d] = q[d]
  BY <1>1, <1>2
<1> HIDE DEF r
<1>4. ASSUME NEW ev, HasEvent(q, ev) PROVE HasEvent(r, ev)
  <2>0. PICK d \in Class : \E i \in 1 .. Len(q[d]) : q[d][i].ev = ev
    BY <1>4 DEF HasEvent, HasIn
  <2>1. PICK i \in 1 .. Len(q[d]) : q[d][i].ev = ev
    BY <2>0
  <2>2. i \in 1 .. Len(r[d]) /\ r[d][i] = q[d][i]
    <3>1. CASE d = k
      <4>1. i \in 1 .. Len(q[k])
        BY <2>1, <3>1
      <4>2. i \in 1 .. Len(Append(q[k], e)) /\ Append(q[k], e)[i] = q[k][i]
        BY <1>2, <4>1
      <4>. QED
        BY <1>3, <3>1, <4>2
    <3>2. CASE d # k
      BY <1>3, <3>2
    <3>. QED
      BY <3>1, <3>2
  <2>. QED
    BY <2>1, <2>2 DEF HasEvent, HasIn
<1>5. HasEvent(r, e.ev)
  <2>1. Len(q[k]) + 1 \in 1 .. Len(r[k]) /\ r[k][Len(q[k]) + 1] = e
    BY <1>2, <1>3
  <2>. QED
    BY <1>1, <2>1 DEF HasEvent, HasIn
<1>6. ASSUME NEW ev, HasEvent(r, ev), ev # e.ev PROVE HasEvent(q, ev)
  <2>0. PICK d \in Class : \E i \in 1 .. Len(r[d]) : r[d][i].ev = ev
    BY <1>6 DEF HasEvent, HasIn
  <2>1. PICK i \in 1 .. Len(r[d]) : r[d][i].ev = ev
    BY <2>0
  <2>2. i \in 1 .. Len(q[d]) /\ q[d][i].ev = ev
    <3>1. CASE d = k
      <4>1. i \in 1 .. Len(q[k]) + 1 /\ Append(q[k], e)[i].ev = ev
        BY <1>2, <1>3, <2>1, <3>1
      <4>2. i # Len(q[k]) + 1
        BY <1>2, <1>6, <4>1
      <4>3. i \in 1 .. Len(q[k])
        BY <1>2, <4>1, <4>2
      <4>. QED
        BY <1>2, <3>1, <4>1, <4>3
    <3>2. CASE d # k
      BY <1>3, <2>1, <3>2
    <3>. QED
      BY <3>1, <3>2
  <2>. QED
    BY <2>2 DEF HasEvent, HasIn
<1>. QED
  BY <1>3, <1>4, <1>5, <1>6 DEF r, k

-----------------------------------------------------------------------------
(* The inductive invariant, in its two parts.                              *)
Base == TypeOK /\ CarFits(car) /\ HaltStands(car) /\ car.posts = NoPosts
Road == OnRoute(car, Waits) /\ LeadsOn(car, Waits)

LEMMA WaitsIsHasEvent == \A ev : ev \in Waits <=> ev \in DOMAIN PriorityOf /\ HasEvent(queue, ev)
BY DEF Waits, Waiting, HasEvent, HasIn

LEMMA PostedIsHasEvent == \A c, ev : Posted(c, ev) <=> HasEvent(c.posts, ev)
BY DEF Posted, HasEvent, HasIn

(* More events that wait do no harm, and fewer posted ones that now wait.  *)
LEMMA DueLater ==
    ASSUME NEW c, NEW v, NEW r, NEW w,
           r.router = c.router, r.status = c.status, r.lastPathMag = c.lastPathMag,
           r.target = c.target, r.runningMode = c.runningMode,
           r.currentPathAction = c.currentPathAction,
           \A ev \in DOMAIN PriorityOf : Due(c, v, ev) => Due(r, w, ev)
    PROVE  /\ OnRoute(c, v) /\ Driven(c, w) => OnRoute(r, w)
           /\ LeadsOn(c, v) => LeadsOn(r, w)
<1>1. Leading \subseteq DOMAIN PriorityOf
  BY EventNames DEF Leading
<1>2. LeadsOn(c, v) => LeadsOn(r, w)
  BY <1>1 DEF LeadsOn
<1>3. OnRoute(c, v) => RouteFresh(r, w) /\ Aligned(r, w)
  BY EventNames DEF OnRoute, RouteFresh, RouteOpen, Aligned
<1>4. Driven(c, w) => Driven(r, w)
  BY DEF Driven, Started
<1>. QED
  BY <1>2, <1>3, <1>4 DEF OnRoute

(* An event is forgotten that the invariant does not count on.             *)
LEMMA Forgotten ==
    ASSUME NEW c, NEW w, NEW ev
    PROVE  /\ OnRoute(c, w) /\ ev \notin {"evPathFinished", "evPathMagError"}
                => OnRoute(c, w \ {ev})
           /\ LeadsOn(c, w) /\ ev \notin Leading => LeadsOn(c, w \ {ev})
<1>1. ASSUME LeadsOn(c, w), ev \notin Leading PROVE LeadsOn(c, w \ {ev})
  BY <1>1 DEF LeadsOn, Due
<1>2. ASSUME OnRoute(c, w), ev \notin {"evPathFinished", "evPathMagError"}
      PROVE  OnRoute(c, w \ {ev})
  BY <1>2 DEF OnRoute, RouteFresh, Aligned, Driven, Due
<1>. QED
  BY <1>1, <1>2

(* PopEvent and HandleEvent together: what the handler leaves is what the  *)
(* next one finds.                                                         *)
LEMMA ReturnKeeps ==
    ASSUME Base, NEW c \in Class, MayTake(c), NEW result, Return(c, result),
           CarFits(result), HaltStands(result)
    PROVE  /\ Base'
           /\ LET v == Waits \ {Head(queue[c]).ev}
              IN  OnRoute(result, v) /\ LeadsOn(result, v) /\ Driven(result, Waits) => Road'
<1> DEFINE v == Waits \ {Head(queue[c]).ev}
<1>1. /\ queue \in [Class -> Seq(Event)] /\ result.posts \in [Class -> Seq(Event)]
      /\ queue[c] # << >>
  BY DEF Base, TypeOK, CarFits, Car, MayTake
<1>2. queue' = [d \in Class |-> (IF d = c THEN Tail(queue[d]) ELSE queue[d]) \o result.posts[d]]
  BY DEF Return
<1>3. /\ queue' \in [Class -> Seq(Event)]
      /\ \A ev : HasEvent(queue, ev) /\ ev # Head(queue[c]).ev => HasEvent(queue', ev)
      /\ \A ev : HasEvent(result.posts, ev) => HasEvent(queue', ev)
      /\ \A ev : HasEvent(queue', ev) => HasEvent(queue, ev) \/ HasEvent(result.posts, ev)
  <2>1. Taken(queue, c, result.posts, queue')
    BY <1>2 DEF Left, Taken
  <2>2. /\ \A d \in Class : queue'[d] \in Seq(Event)
        /\ \A ev : HasEvent(queue, ev) /\ ev # Head(queue[c]).ev => HasEvent(queue', ev)
        /\ \A ev : HasEvent(result.posts, ev) => HasEvent(queue', ev)
        /\ \A ev : HasEvent(queue', ev) => HasEvent(queue, ev) \/ HasEvent(result.posts, ev)
    BY <1>1, <2>1, TakenEffect
  <2>. QED
    BY <1>2, <2>2
<1>4. NoPosts \in [Class -> Seq(Event)]
  BY EmptySeq DEF NoPosts
<1>5. /\ car' \in Car /\ car'.posts = NoPosts
      /\ car'.router = result.router /\ car'.status = result.status
      /\ car'.lastPathMag = result.lastPathMag /\ car'.target = result.target
      /\ car'.runningMode = result.runningMode /\ car'.carRunningMode = result.carRunningMode
      /\ car'.currentPathAction = result.currentPathAction
  <2>1. result \in Car /\ car' = [result EXCEPT !.posts = NoPosts]
    BY DEF Return, CarFits
  <2>. QED
    BY <1>4, <2>1 DEF Car
<1>6. CarFits(car') /\ HaltStands(car')
  BY <1>5, NothingPosted DEF CarFits, HaltStands, TellsDriving, RemembersTarget, Silent
<1>7. /\ UNCHANGED <<stationList, paths, inputs>> /\ quiet' \subseteq Class
  BY DEF Return
<1>8. TypeOK'
  BY <1>3, <1>5, <1>7 DEF Base, TypeOK
<1>9. Base'
  BY <1>5, <1>6, <1>8 DEF Base
<1>10. \A ev : ev \in Waits' <=> ev \in DOMAIN PriorityOf /\ HasEvent(queue', ev)
  BY DEF Waits, Waiting, HasEvent, HasIn
<1>11. ASSUME NEW ev \in DOMAIN PriorityOf, Due(result, v, ev) PROVE ev \in Waits'
  BY <1>3, <1>10, <1>11, WaitsIsHasEvent, PostedIsHasEvent DEF Due
<1>12. "evNextPathPoint" \in Waits' => "evNextPathPoint" \in Waits
  BY <1>3, <1>10, WaitsIsHasEvent, PostedIsHasEvent DEF CarFits, Silent
<1>13. ASSUME OnRoute(result, v), LeadsOn(result, v), Driven(result, Waits)
       PROVE  Road'
  <2>1. Driven(result, Waits')
    BY <1>13, <1>12 DEF Driven
  <2>2. OnRoute(car', Waits') /\ LeadsOn(car', Waits')
    BY <1>5, <1>11, <1>13, <2>1, DueLater DEF Due
  <2>. QED
    BY <2>2 DEF Road
<1>. QED
  BY <1>9, <1>13

-----------------------------------------------------------------------------
(* The handlers, one by one: each keeps Base, and Road where it held.      *)
LEMMA HandledKeeps ==
    ASSUME Base, NEW c \in Class, NEW ev, Takes(c, ev), NEW result, Return(c, result),
           CarFits(result), HaltStands(result),
           Road => /\ OnRoute(result, Waits \ {ev}) /\ LeadsOn(result, Waits \ {ev})
                   /\ Driven(result, Waits)
    PROVE  Base' /\ (Road => Road')
<1>1. MayTake(c) /\ Head(queue[c]).ev = ev
  BY DEF Takes, Ready
<1>. QED
  BY <1>1, ReturnKeeps DEF Road

(* An event on which nothing depends, and a method that keeps the route.   *)
LEMMA MildlyKeeps ==
    ASSUME Base, NEW c \in Class, NEW ev, Takes(c, ev), ev \notin Leading,
           NEW result, Return(c, result), CarFits(result), HaltStands(result),
           \A w : OnRoute(car, w) /\ LeadsOn(car, w) => OnRoute(result, w) /\ LeadsOn(result, w)
    PROVE  Base' /\ (Road => Road')
<1>1. ev \notin {"evPathFinished", "evPathMagError"}
  BY DEF Leading
<1>2. ASSUME Road PROVE OnRoute(result, Waits \ {ev}) /\ LeadsOn(result, Waits \ {ev})
  BY <1>1, <1>2, Forgotten DEF Road
<1>3. Road => Driven(result, Waits)
  BY DEF Road, OnRoute
<1>. QED
  BY <1>2, <1>3, HandledKeeps

(* What the handlers' methods find.                                        *)
LEMMA BaseCar == Base => /\ CarFits(car) /\ HaltStands(car) /\ car.posts = NoPosts
                         /\ car \in Car /\ stationList \in Seq(WayPoint)
BY DEF Base, CarFits, TypeOK

LEMMA KeyStartStep ==
    ASSUME Base, NEW c \in Class, NEW splits \in BOOLEAN,
           KeyStart(c, splits) \/ ApplyPath(c, splits)
    PROVE  Base' /\ (Road => Road')
<1> DEFINE result == IF InAuto THEN StartRun(car, splits) ELSE car
<1>1. CarFits(result) /\ HaltStands(result)
      /\ \A w : OnRoute(car, w) /\ LeadsOn(car, w) => OnRoute(result, w) /\ LeadsOn(result, w)
  BY BaseCar, StartRunEffect
<1>2. /\ Takes(c, "evKeyStart") \/ Takes(c, "evApplyPath")
      /\ Return(c, result)
  BY DEF KeyStart, ApplyPath
<1>3. "evKeyStart" \notin Leading /\ "evApplyPath" \notin Leading
  BY DEF Leading
<1> HIDE DEF result
<1>. QED
  BY <1>1, <1>2, <1>3, MildlyKeeps

LEMMA StoppingStep ==
    ASSUME Base, NEW c \in Class, KeyStop(c) \/ SchedulerOffline(c) \/ SensorOffline(c)
    PROVE  Base' /\ (Road => Road')
<1>1. PICK ev \in {"evKeyStop", "evSchedulerOffline", "evSensorOffline"},
           result \in {StopCar(car), car} : Takes(c, ev) /\ Return(c, result)
  BY DEF KeyStop, SchedulerOffline, SensorOffline
<1>2. CarFits(result) /\ HaltStands(result)
      /\ \A w : OnRoute(car, w) /\ LeadsOn(car, w) => OnRoute(result, w) /\ LeadsOn(result, w)
  BY <1>1, BaseCar, StopCarEffect, StopCarOnRoute
<1>3. ev \notin Leading
  BY <1>1 DEF Leading
<1>. QED
  BY <1>1, <1>2, <1>3, MildlyKeeps

(* A status is set: the error, or the alarm of the battery.                *)
LEMMA StatusStep ==
    ASSUME Base, NEW c \in Class, UrgentStop(c) \/ LostPosition(c) \/ LowBattery(c)
    PROVE  Base' /\ (Road => Road')
<1>1. PICK ev \in {"evUrgentStop", "evLostPosition", "ev1sTimer"},
           status \in {StatusError, StatusLowPower} :
             Takes(c, ev) /\ Return(c, SetCarStatus(car, status))
  BY DEF UrgentStop, LostPosition, LowBattery
<1> DEFINE result == SetCarStatus(car, status)
<1>2. status \in Status /\ status # StatusStopped /\ status # StatusNormal
      /\ status # StatusRunning
  BY <1>1, StatusValues
<1>3. /\ CarFits(result) /\ HaltStands(result) /\ result.status = status
      /\ result.runningMode \in {StopMode, car.runningMode}
      /\ result.router = car.router /\ result.lastPathMag = car.lastPathMag
      /\ result.target = car.target /\ result.posts = car.posts
      /\ result.currentPathAction = car.currentPathAction
  BY <1>2, BaseCar, SetStatusFits
<1> HIDE DEF result
<1>4. \A w : OnRoute(car, w) => OnRoute(result, w)
  BY <1>3, StatusOnRoute
<1>5. \A w : LeadsOn(result, w)
  BY <1>2, <1>3 DEF LeadsOn
<1>6. ev \notin {"evPathFinished", "evPathMagError"}
  BY <1>1
<1>7. ASSUME Road PROVE OnRoute(result, Waits \ {ev}) /\ LeadsOn(result, Waits \ {ev})
  BY <1>4, <1>5, <1>6, <1>7, Forgotten DEF Road
<1>8. Takes(c, ev) /\ Return(c, result)
  BY <1>1 DEF result
<1>9. Road => Driven(result, Waits)
  BY <1>4 DEF Road, OnRoute
<1>. QED
  BY <1>3, <1>7, <1>8, <1>9, HandledKeeps

LEMMA PathMagErrorStep ==
    ASSUME Base, NEW c \in Class, PathMagError(c)
    PROVE  Base' /\ (Road => Road')
<1> DEFINE s == StopCar(car)
           e == SetCarStatus(s, StatusError)
<1>1. /\ CarFits(s) /\ HaltStands(s) /\ s.status = StatusStopped /\ s.runningMode = StopMode
      /\ s.router = car.router /\ s.lastPathMag = car.lastPathMag /\ s.posts = car.posts
      /\ s.currentPathAction = car.currentPathAction
  BY BaseCar, StopCarEffect
<1> HIDE DEF s
<1>2. /\ CarFits(e) /\ HaltStands(e) /\ e.status = StatusError /\ e.runningMode = StopMode
      /\ e.router = s.router /\ e.lastPathMag = s.lastPathMag /\ e.posts = s.posts
      /\ e.currentPathAction = s.currentPathAction
  BY <1>1, StatusValues, SetStatusFits
<1>3. PICK result \in {s, e} : Return(c, result)
  BY DEF PathMagError, s, e
<1> HIDE DEF e
<1>4. /\ CarFits(result) /\ HaltStands(result) /\ result.status \in {StatusStopped, StatusError}
      /\ result.runningMode = StopMode /\ result.router = car.router
      /\ result.lastPathMag = car.lastPathMag /\ result.posts = car.posts
      /\ result.currentPathAction = car.currentPathAction
  BY <1>1, <1>2, <1>3
<1>5. \A w : LeadsOn(result, w) /\ Aligned(result, w)
  BY <1>4, StatusValues DEF LeadsOn, Aligned
<1>6. ASSUME Road PROVE RouteFresh(result, Waits \ {"evPathMagError"})
  BY <1>4, <1>6 DEF Road, OnRoute, RouteFresh, RouteOpen, Due, Posted
<1>7. Takes(c, "evPathMagError")
  BY DEF PathMagError
<1>8. ASSUME Road PROVE Driven(result, Waits) /\ Driven(result, Waits \ {"evPathMagError"})
  BY <1>4, <1>8 DEF Road, OnRoute, Driven, Started
<1>. QED
  BY <1>3, <1>4, <1>5, <1>6, <1>7, <1>8, HandledKeeps DEF OnRoute

(* The event that is taken was waiting.                                    *)
LEMMA TakenWaits ==
    ASSUME Base, NEW c \in Class, NEW ev, Takes(c, ev)
    PROVE  ev \in Waits
<1>1. queue[c] # << >> /\ queue[c] \in Seq(Event) /\ Head(queue[c]).ev = ev
  BY DEF Takes, Ready, MayTake, Base, TypeOK
<1>2. /\ Head(queue[c]) \in Event /\ Head(queue[c]) = queue[c][1]
      /\ 1 \in 1 .. Len(queue[c])
  BY <1>1, HeadTailProperties, LenProperties, EmptySeq
<1>3. ev \in DOMAIN PriorityOf
  BY <1>1, <1>2 DEF Event
<1>. QED
  BY <1>1, <1>2, <1>3 DEF Waits, Waiting

LEMMA NextPathPointStep ==
    ASSUME Base, NEW c \in Class, NEW splits \in BOOLEAN, NextPathPoint(c, splits)
    PROVE  Base' /\ (Road => Road')
<1> DEFINE result == OnArrivedStation(car, splits)
<1>1. Takes(c, "evNextPathPoint") /\ Return(c, result) /\ HasTarget(car.router)
  BY DEF NextPathPoint, Takes, Ready, NeedsTarget
<1>2. /\ CarFits(result) /\ HaltStands(result)
      /\ \A w : OnRoute(car, w) /\ Started(car) => OnRoute(result, w) /\ LeadsOn(result, w)
  BY <1>1, BaseCar, OnArrivedStationEffect
<1> HIDE DEF result
<1>3. "evNextPathPoint" \in Waits
  BY <1>1, TakenWaits
<1>4. Road => Started(car)
  BY <1>3 DEF Road, OnRoute, Driven
<1>5. Road => OnRoute(car, Waits \ {"evNextPathPoint"})
  BY Forgotten DEF Road
<1>6. Road => Driven(result, Waits)
  BY <1>2, <1>4 DEF Road, OnRoute
<1>. QED
  BY <1>1, <1>2, <1>4, <1>5, <1>6, HandledKeeps

LEMMA LiftArrivedStep ==
    ASSUME Base, NEW c \in Class, NEW splits \in BOOLEAN, LiftArrived(c, splits)
    PROVE  Base' /\ (Road => Road')
<1> DEFINE result == OnLiftArrivedHeight(car, splits)
<1>1. /\ Takes(c, "evLiftArrived") /\ Return(c, result)
      /\ car.currentPathAction = ActionLiftUpDown => HasTarget(car.router)
  BY DEF LiftArrived, Takes, Ready, NeedsTarget
<1>2. /\ CarFits(result) /\ HaltStands(result)
      /\ \A w : OnRoute(car, w) /\ LeadsOn(car, w) => OnRoute(result, w) /\ LeadsOn(result, w)
  BY <1>1, BaseCar, OnLiftArrivedHeightEffect
<1>3. "evLiftArrived" \notin Leading
  BY DEF Leading
<1> HIDE DEF result
<1>. QED
  BY <1>1, <1>2, <1>3, MildlyKeeps

LEMMA ChargeStep ==
    ASSUME Base, NEW c \in Class, NEW on \in BOOLEAN,
           NEW ev \in {"evTurnOnCharge", "evTurnOffCharge"}, Charge(c, ev, on)
    PROVE  Base' /\ (Road => Road')
<1> DEFINE s == StopCar(car)
           r == [s EXCEPT !.charging = on]
<1>1. CarFits(s) /\ HaltStands(s) /\ s \in Car
      /\ \A w : OnRoute(car, w) /\ LeadsOn(car, w) => OnRoute(s, w) /\ LeadsOn(s, w)
  BY BaseCar, StopCarEffect, StopCarOnRoute DEF CarFits
<1>2. PICK result \in {r, car} : Takes(c, ev) /\ Return(c, result)
  BY DEF Charge
<1> HIDE DEF s
<1>3. r \in Car /\ SameDrive(s, r) /\ r.router = s.router
  BY <1>1, ChargingType
<1> HIDE DEF r
<1>4. CarFits(r) /\ HaltStands(r)
      /\ \A w : OnRoute(car, w) /\ LeadsOn(car, w) => OnRoute(r, w) /\ LeadsOn(r, w)
  BY <1>1, <1>3, AsideFits
<1>5. CarFits(result) /\ HaltStands(result)
      /\ \A w : OnRoute(car, w) /\ LeadsOn(car, w) => OnRoute(result, w) /\ LeadsOn(result, w)
  BY <1>2, <1>4, BaseCar
<1>6. ev \notin Leading
  BY DEF Leading
<1>. QED
  BY <1>2, <1>5, <1>6, MildlyKeeps

LEMMA LidarStep ==
    ASSUME Base, NEW c \in Class, Lidar(c)
    PROVE  Base' /\ (Road => Road')
<1> DEFINE s == ControlerStop(car)
           r == Post(s, "evLostPosition", 0)
<1>1. /\ s \in Car /\ s.status = car.status /\ s.router = car.router
      /\ s.target = car.target /\ s.lastPathMag = car.lastPathMag /\ s.posts = car.posts
      /\ s.runningMode = StopMode /\ s.carRunningMode = StopMode
      /\ s.currentPathAction = car.currentPathAction
  BY BaseCar, ControlerStopEffect
<1>2. Takes(c, "ev10msTimer") /\ Return(c, r)
  BY DEF Lidar
<1> HIDE DEF s
<1>3. CarFits(s) /\ HaltStands(s)
  BY <1>1, BaseCar DEF CarFits, HaltStands, TellsDriving, RemembersTarget, Silent, Posted
<1>4. /\ CarFits(r) /\ HaltStands(r)
      /\ RouteOpen(s) => RouteOpen(r)
      /\ r.status = s.status /\ r.router = s.router
      /\ r.runningMode = s.runningMode /\ r.lastPathMag = s.lastPathMag
      /\ r.currentPathAction = s.currentPathAction
      /\ Posted(r, "evLostPosition")
  BY <1>3, PostFits, EventNames
<1> HIDE DEF r
<1>5. \A w : LeadsOn(r, w) /\ Aligned(r, w)
  BY <1>1, <1>4 DEF LeadsOn, Leading, Due, Aligned
<1>6. ASSUME Road PROVE RouteFresh(r, Waits \ {"ev10msTimer"})
  <2>1. RouteOpen(r)
    BY <1>1, <1>4, <1>6 DEF Road, OnRoute, RouteFresh, RouteOpen
  <2>2. HasTarget(r.router) /\ ActionFinished(r.router) => "evPathFinished" \in Waits
    BY <1>1, <1>4, <1>6, BaseCar, NothingPosted DEF Road, OnRoute, RouteFresh, Due
  <2>. QED
    BY <2>1, <2>2 DEF RouteFresh, Due
<1>7. ASSUME Road PROVE Driven(r, Waits) /\ Driven(r, Waits \ {"ev10msTimer"})
  BY <1>1, <1>4, <1>7 DEF Road, OnRoute, Driven, Started
<1>. QED
  BY <1>2, <1>4, <1>5, <1>6, <1>7, HandledKeeps DEF OnRoute

LEMMA NetworkOKStep ==
    ASSUME Base, NEW c \in Class, NetworkOK(c)
    PROVE  Base' /\ (Road => Road')
<1> DEFINE q == Loaded(car.router)
           r == [car EXCEPT !.router = q, !.reports = {}]
<1>1. Takes(c, "evNetworkOK") /\ Return(c, r)
  BY DEF NetworkOK, Loaded
<1>2. q \in Planner
  BY BaseCar, LoadedFits DEF CarFits, Fits
<1> HIDE DEF q
<1>3. r \in Car /\ SameDrive(car, r) /\ r.router = q
  BY <1>2, BaseCar DEF Car, SameDrive
<1> HIDE DEF r
<1>4. CarFits(r) /\ HaltStands(r)
      /\ \A w : OnRoute(car, w) /\ LeadsOn(car, w) => OnRoute(r, w) /\ LeadsOn(r, w)
  BY <1>3, BaseCar, LoadedEffect DEF q
<1>5. "evNetworkOK" \notin Leading
  BY DEF Leading
<1>. QED
  BY <1>1, <1>4, <1>5, MildlyKeeps

LEMMA CleanEffect ==
    ASSUME NEW p, Fits(p)
    PROVE  LET q == CleanLastStationPoint(p)
           IN  /\ Fits(q) /\ q.list = p.list /\ q.targetPathId = p.targetPathId
               /\ q.disk.path = p.disk.path
<1> DEFINE q == CleanLastStationPoint(p)
<1>1. /\ q \in Planner /\ q.list = p.list /\ q.targetPathId = p.targetPathId
      /\ q.lastPathId = p.lastPathId /\ q.setting = p.setting /\ q.disk = p.disk
  BY DEF Fits, CleanLastStationPoint, Planner
<1> HIDE DEF q
<1>. QED
  BY <1>1 DEF Fits, CursorFits, SettingsFit, HasTarget, InRoute, q

LEMMA KeyManualModeStep ==
    ASSUME Base, NEW c \in Class, KeyManualMode(c)
    PROVE  Base' /\ (Road => Road')
<1> DEFINE q == CleanLastStationPoint(car.router)
           b == FALSE
           m == [car EXCEPT !.operateMode = ManualMode, !.charging = b, !.router = q]
           r == SetCarStatus(m, StatusStopped)
<1>1. PICK result \in {r, car} : Takes(c, "evKeyManualMode") /\ Return(c, result)
  BY DEF KeyManualMode
<1>2. /\ Fits(q) /\ q.list = car.router.list /\ q.targetPathId = car.router.targetPathId
      /\ q.disk.path = car.router.disk.path /\ q \in Planner
  BY BaseCar, CleanEffect DEF CarFits, Fits
<1> HIDE DEF q
<1>3. b \in BOOLEAN
  OBVIOUS
<1> HIDE DEF b
<1>4. m \in Car /\ SameDrive(car, m) /\ m.router = q
  BY <1>2, <1>3, BaseCar DEF Car, SameDrive
<1> HIDE DEF m
<1>5. CarFits(m) /\ HaltStands(m)
  BY <1>2, <1>4, BaseCar DEF CarFits, HaltStands, SameDrive, OnFile, TellsDriving, RemembersTarget,
                          Silent, Posted
<1>6. \A w : OnRoute(car, w) => OnRoute(m, w)
  BY <1>2, <1>4 DEF OnRoute, RouteFresh, RouteOpen, Aligned, Driven, Started, Due, Posted,
                    SameDrive, HasTarget, InRoute, Target0, GetTargetStation, ActionFinished
<1>7. /\ CarFits(r) /\ HaltStands(r) /\ r.status = StatusStopped
      /\ r.runningMode \in {StopMode, m.runningMode}
      /\ r.router = m.router /\ r.lastPathMag = m.lastPathMag
      /\ r.target = m.target /\ r.posts = m.posts
      /\ r.currentPathAction = m.currentPathAction
  BY <1>5, StatusValues, SetStatusFits
<1> HIDE DEF r
<1>8. \A w : (OnRoute(car, w) => OnRoute(r, w)) /\ LeadsOn(r, w)
  BY <1>6, <1>7, StatusOnRoute, StatusValues DEF LeadsOn
<1>9. "evKeyManualMode" \notin Leading
  BY DEF Leading
<1>10. CarFits(result) /\ HaltStands(result)
       /\ \A w : OnRoute(car, w) /\ LeadsOn(car, w) => OnRoute(result, w) /\ LeadsOn(result, w)
  BY <1>1, <1>7, <1>8, BaseCar
<1>. QED
  BY <1>1, <1>9, <1>10, MildlyKeeps

LEMMA KeyAutoModeStep ==
    ASSUME Base, NEW c \in Class, KeyAutoMode(c)
    PROVE  Base' /\ (Road => Road')
<1> DEFINE n == SetCarStatus(car, StatusNormal)
           s == ControlerStop(n)
           q == Reloaded(s.router)
           b == FALSE
           r == [s EXCEPT !.operateMode = AutoMode, !.charging = b, !.reports = {}, !.router = q]
<1>1. PICK result \in {r, car} : Takes(c, "evKeyAutoMode") /\ Return(c, result)
  BY DEF KeyAutoMode, Reloaded
<1>2. n \in Car /\ n.router = car.router /\ n.lastPathMag = car.lastPathMag
      /\ n.status = StatusNormal /\ n.posts = car.posts
      /\ n.currentPathAction = car.currentPathAction
  BY BaseCar, StatusValues, SetCarStatusEffect
<1> HIDE DEF n
<1>3. /\ s \in Car /\ s.status = StatusNormal /\ s.router = car.router
      /\ s.lastPathMag = car.lastPathMag /\ s.posts = car.posts
      /\ s.currentPathAction = car.currentPathAction
      /\ s.runningMode = StopMode /\ s.carRunningMode = StopMode
  BY <1>2, ControlerStopEffect
<1> HIDE DEF s
<1>4. q = Reloaded(car.router) /\ q \in Planner
  BY <1>3, BaseCar, LoadedFits DEF CarFits, Fits
<1>5. b \in BOOLEAN
  OBVIOUS
<1> HIDE DEF q, b
<1>6. r \in Car /\ SameDrive(s, r) /\ r.router = q
  BY <1>3, <1>4, <1>5 DEF Car, SameDrive
<1> HIDE DEF r
<1>7. TellsDriving(r) /\ RemembersTarget(r) /\ Silent(r)
  BY <1>3, <1>6, BaseCar DEF CarFits, SameDrive, TellsDriving, RemembersTarget, Silent, Posted
<1>8. CarFits(r) /\ r.router.targetPathId = 0 /\ \A w : RouteFresh(r, w)
  BY <1>4, <1>6, <1>7, BaseCar, ReloadedEffect
<1>9. HaltStands(r) /\ (\A w : Aligned(r, w) /\ LeadsOn(r, w))
  BY <1>3, <1>6, StatusValues DEF SameDrive, HaltStands, Aligned, LeadsOn
<1>10. \A w : OnRoute(car, w) => Driven(r, w)
  BY <1>3, <1>6, <1>8 DEF SameDrive, OnRoute, Driven, Started
<1>11. CarFits(result) /\ HaltStands(result)
       /\ \A w : OnRoute(car, w) /\ LeadsOn(car, w) => OnRoute(result, w) /\ LeadsOn(result, w)
  BY <1>1, <1>8, <1>9, <1>10, BaseCar DEF OnRoute
<1>12. "evKeyAutoMode" \notin Leading
  BY DEF Leading
<1>. QED
  BY <1>1, <1>11, <1>12, MildlyKeeps

LEMMA PathFinishedStep ==
    ASSUME Base, NEW c \in Class, PathFinished(c)
    PROVE  Base' /\ (Road => Road')
<1> DEFINE s == StopCar(car)
           n == SetCarStatus(s, StatusNormal)
           q == Reloaded(n.router)
           r == [n EXCEPT !.router = q, !.reports = {}]
           k == Post(r, "evKeyStart", 0)
<1>1. /\ CarFits(s) /\ HaltStands(s) /\ s.status = StatusStopped /\ s.runningMode = StopMode
      /\ s.router = car.router /\ s.lastPathMag = car.lastPathMag /\ s.posts = car.posts
      /\ s.currentPathAction = car.currentPathAction
  BY BaseCar, StopCarEffect
<1>2. PICK result \in {r, k} : Takes(c, "evPathFinished") /\ Return(c, result)
  BY DEF PathFinished, Reloaded
<1> HIDE DEF s
<1>3. /\ CarFits(n) /\ HaltStands(n) /\ n.status = StatusNormal /\ n.runningMode = StopMode
      /\ n.router = s.router /\ n.lastPathMag = s.lastPathMag /\ n.posts = s.posts
      /\ n.currentPathAction = s.currentPathAction
  BY <1>1, StatusValues, SetStatusFits
<1> HIDE DEF n
<1>4. n \in Car /\ TellsDriving(n) /\ RemembersTarget(n) /\ Silent(n)
  BY <1>3 DEF CarFits
<1>5. q = Reloaded(car.router) /\ q \in Planner
  BY <1>1, <1>3, BaseCar, LoadedFits DEF CarFits, Fits
<1> HIDE DEF q
<1>6. r \in Car /\ SameDrive(n, r) /\ r.router = q
  BY <1>4, <1>5 DEF Car, SameDrive
<1> HIDE DEF r
<1>7. TellsDriving(r) /\ RemembersTarget(r) /\ HaltStands(r) /\ Silent(r)
      /\ r.status = StatusNormal /\ r.runningMode = StopMode /\ r.posts = NoPosts
  BY <1>1, <1>3, <1>4, <1>6, BaseCar
     DEF SameDrive, TellsDriving, RemembersTarget, HaltStands, Silent, Posted
<1>8. CarFits(r) /\ r.router.targetPathId = 0 /\ \A w : RouteFresh(r, w)
  BY <1>5, <1>6, <1>7, BaseCar, ReloadedEffect
<1>9. /\ CarFits(k) /\ HaltStands(k)
      /\ RouteOpen(r) => RouteOpen(k)
      /\ k.status = r.status /\ k.router = r.router /\ k.runningMode = r.runningMode
      /\ k.lastPathMag = r.lastPathMag /\ k.currentPathAction = r.currentPathAction
  BY <1>7, <1>8, PostFits, EventNames
<1>10. \A w : RouteFresh(k, w)
  BY <1>7, <1>8, <1>9, NothingPosted DEF RouteFresh, Due
<1> HIDE DEF k
<1>11. /\ CarFits(result) /\ HaltStands(result) /\ result.status = StatusNormal
       /\ result.runningMode = StopMode
       /\ result.router.targetPathId = 0 /\ result.lastPathMag = car.lastPathMag
       /\ result.currentPathAction = car.currentPathAction
       /\ \A w : RouteFresh(result, w)
  <2>0. r.lastPathMag = car.lastPathMag /\ r.currentPathAction = car.currentPathAction
    BY <1>1, <1>3, <1>6 DEF SameDrive
  <2>1. CASE result = r
    BY <1>7, <1>8, <2>0, <2>1
  <2>2. CASE result = k
    BY <1>7, <1>8, <1>9, <1>10, <2>0, <2>2
  <2>. QED
    BY <1>2, <2>1, <2>2
<1>12. \A w : Aligned(result, w) /\ LeadsOn(result, w)
  BY <1>11, StatusValues DEF Aligned, LeadsOn
<1>13. ASSUME Road PROVE Driven(result, Waits) /\ Driven(result, Waits \ {"evPathFinished"})
  BY <1>11, <1>13 DEF Road, OnRoute, Driven, Started
<1>. QED
  BY <1>2, <1>11, <1>12, <1>13, HandledKeeps DEF OnRoute

LEMMA GetNewPathStep ==
    ASSUME Base, NEW c \in Class, GetNewPath(c)
    PROVE  Base' /\ (Road => Road')
<1> DEFINE q == NewRoute(car.router, stationList)
           r == [car EXCEPT !.router = q, !.reports = {}]
           a == Post(r, "evApplyPath", 0)
           s == SetCarStatus(a, StatusStopped)
<1>1. /\ Takes(c, "evGetNewPath")
      /\ Return(c, IF stationList = << >> THEN r ELSE s)
  BY DEF GetNewPath, NewRoute
<1>2. q \in Planner
  BY BaseCar, NewPathFits DEF CarFits, Fits, NewRoute
<1>3. q = NewRoute(car.router, stationList)
  OBVIOUS
<1> HIDE DEF q
<1>4. r \in Car /\ SameDrive(car, r) /\ r.router = q
  BY <1>2, BaseCar DEF Car, SameDrive
<1> HIDE DEF r
<1>5. /\ CarFits(r) /\ HaltStands(r) /\ r.router.targetPathId = 0
      /\ \A w : RouteFresh(r, w)
      /\ stationList = << >> => ~HasTarget(r.router)
  BY <1>3, <1>4, BaseCar, NewRouteEffect
<1>6. "evGetNewPath" \notin {"evPathFinished", "evPathMagError"} /\ "evGetNewPath" \notin Leading
  BY DEF Leading
<1>7. ASSUME Road, NEW x, x.router = r.router, x.runningMode \in {StopMode, r.runningMode},
             x.lastPathMag = r.lastPathMag, x.currentPathAction = r.currentPathAction
      PROVE  Driven(x, Waits) /\ Driven(x, Waits \ {"evGetNewPath"})
  BY <1>4, <1>5, <1>7 DEF SameDrive, Road, OnRoute, Driven, Started
<1>8. CASE stationList = << >>
  <2>1. \A w : LeadsOn(car, w) => LeadsOn(r, w)
    BY <1>4 DEF LeadsOn, SameDrive, Due, Posted
  <2>2. \A w : Aligned(r, w)
    BY <1>5, <1>8 DEF Aligned
  <2>3. Road => OnRoute(r, Waits \ {"evGetNewPath"}) /\ LeadsOn(r, Waits \ {"evGetNewPath"})
    BY <1>5, <1>6, <1>7, <2>1, <2>2, Forgotten DEF Road, OnRoute
  <2>4. Return(c, r)
    BY <1>1, <1>8
  <2>5. Road => Driven(r, Waits)
    BY <1>7
  <2>. QED
    BY <1>1, <1>5, <2>3, <2>4, <2>5, HandledKeeps
<1>9. CASE stationList # << >>
  <2>1. /\ CarFits(a)
        /\ HaltStands(a)
        /\ RouteOpen(r) => RouteOpen(a)
        /\ a.router = r.router /\ a.lastPathMag = r.lastPathMag
        /\ a.currentPathAction = r.currentPathAction
    BY <1>5, PostFits, EventNames
  <2> HIDE DEF a
  <2>2. /\ CarFits(s) /\ HaltStands(s) /\ s.status = StatusStopped /\ s.runningMode = StopMode
        /\ s.router = a.router /\ s.lastPathMag = a.lastPathMag
        /\ s.currentPathAction = a.currentPathAction
    BY <2>1, StatusValues, SetStatusFits
  <2> HIDE DEF s
  <2>3. \A w : Aligned(s, w) /\ LeadsOn(s, w)
    BY <2>2, StatusValues DEF Aligned, LeadsOn
  <2>4. \A w : RouteFresh(s, w)
    <3>1. r.posts = NoPosts
      BY <1>4, BaseCar DEF SameDrive
    <3>2. RouteFresh(r, {})
      BY <1>5
    <3>3. RouteOpen(r) /\ ~(HasTarget(r.router) /\ ActionFinished(r.router))
      BY <3>1, <3>2, NothingPosted DEF RouteFresh, Due
    <3>. QED
      BY <2>1, <2>2, <3>3 DEF RouteFresh, RouteOpen
  <2>5. Return(c, s)
    BY <1>1, <1>9
  <2>6. Road => Driven(s, Waits) /\ Driven(s, Waits \ {"evGetNewPath"})
    BY <1>7, <2>1, <2>2
  <2>7. Road => OnRoute(s, Waits \ {"evGetNewPath"}) /\ LeadsOn(s, Waits \ {"evGetNewPath"})
    BY <2>3, <2>4, <2>6 DEF OnRoute
  <2>. QED
    BY <1>1, <2>2, <2>5, <2>7, <2>6, HandledKeeps
<1>. QED
  BY <1>8, <1>9

-----------------------------------------------------------------------------
(* The other threads.                                                      *)
LEMMA WaitsGrow ==
    ASSUME \A ev : HasEvent(queue, ev) => HasEvent(queue', ev)
    PROVE  Waits \subseteq Waits'
BY DEF Waits, Waiting, HasEvent, HasIn

LEMMA EnqueueEffect ==
    ASSUME Base, NEW e \in Event, Enqueue(e)
    PROVE  /\ queue' \in [Class -> Seq(Event)]
           /\ Waits \subseteq Waits' /\ e.ev \in Waits' /\ Waits' \subseteq Waits \cup {e.ev}
<1>1. queue \in [Class -> Seq(Event)] /\ e.ev \in DOMAIN PriorityOf
  BY DEF Base, TypeOK, Event
<1>2. queue' = [queue EXCEPT ![PriorityOf[e.ev]] = Append(@, e)]
  BY DEF Enqueue
<1>3. /\ queue' \in [Class -> Seq(Event)]
      /\ \A ev : HasEvent(queue, ev) \/ ev = e.ev <=> HasEvent(queue', ev)
  BY <1>1, <1>2, EnqueuedEffect
<1>4. Waits \subseteq Waits'
  BY <1>3, WaitsGrow
<1>5. e.ev \in Waits' /\ Waits' \subseteq Waits \cup {e.ev}
  BY <1>1, <1>3 DEF Waits, Waiting, HasEvent, HasIn
<1>. QED
  BY <1>3, <1>4, <1>5

(* A car that is left alone, or only told what others may ignore.          *)
LEMMA AsideStep ==
    ASSUME Base, car' \in Car, SameDrive(car, car'), car'.router = car.router,
           queue' \in [Class -> Seq(Event)], Waits \subseteq Waits',
           "evNextPathPoint" \in Waits' => "evNextPathPoint" \in Waits,
           quiet' \subseteq Class, stationList' \in Seq(WayPoint),
           paths' \in 0 .. MaxPaths, inputs' \in 0 .. MaxInputs
    PROVE  Base' /\ (Road => Road')
<1>1. CarFits(car') /\ HaltStands(car')
  BY BaseCar, AsideFits
<1>2. car'.posts = NoPosts
  BY BaseCar DEF SameDrive
<1>3. TypeOK'
  BY DEF TypeOK
<1>4. Base'
  BY <1>1, <1>2, <1>3 DEF Base
<1>5. \A ev \in DOMAIN PriorityOf : Due(car, Waits, ev) => Due(car', Waits', ev)
  BY DEF Due, SameDrive, Posted
<1>6. Road => Driven(car, Waits')
  BY DEF Road, OnRoute, Driven
<1>7. Road => Road'
  BY <1>5, <1>6, DueLater DEF Road, SameDrive
<1>. QED
  BY <1>4, <1>7

LEMMA ArriveStep ==
    ASSUME Base, Arrive
    PROVE  Base' /\ (Road => Road')
<1> DEFINE e == [ev |-> "evNextPathPoint", param |-> car.target.station]
<1>1. e \in Event /\ e.ev = "evNextPathPoint"
  BY BaseCar, EventNames DEF Car, Target, Event
<1>2. Enqueue(e) /\ car' = [car EXCEPT !.runningMode = StopMode]
      /\ UNCHANGED <<quiet, stationList, paths, inputs>>
  BY DEF Arrive
<1> HIDE DEF e
<1>3. queue' \in [Class -> Seq(Event)] /\ Waits \subseteq Waits' /\ "evNextPathPoint" \in Waits'
  BY <1>1, <1>2, EnqueueEffect
<1>4. /\ car' \in Car /\ car'.status = car.status /\ car'.router = car.router
      /\ car'.lastPathMag = car.lastPathMag /\ car'.posts = car.posts
      /\ car'.runningMode = StopMode
  BY <1>2, BaseCar, RunModeValues DEF Car
<1>5. CarFits(car') /\ HaltStands(car')
  BY <1>4, BaseCar
     DEF CarFits, HaltStands, TellsDriving, RemembersTarget, Silent, Posted
<1>6. Base'
  BY <1>2, <1>3, <1>4, <1>5 DEF Base, TypeOK
<1>7. Aligned(car', Waits') /\ LeadsOn(car', Waits')
  BY <1>3, <1>4 DEF Aligned, LeadsOn, Leading, Due
<1>8. ASSUME Road PROVE RouteFresh(car', Waits')
  BY <1>3, <1>4, <1>8 DEF Road, OnRoute, RouteFresh, RouteOpen, Due, Posted
<1>9. Road => Driven(car', Waits')
  BY <1>4 DEF Arrive, Moving, Road, OnRoute, Driven, Started
<1>10. Road => Road'
  BY <1>7, <1>8, <1>9 DEF Road, OnRoute
<1>. QED
  BY <1>6, <1>10

LEMMA MoveFaultStep ==
    ASSUME Base, NEW code \in FaultCodes, MoveFault(code)
    PROVE  Base' /\ (Road => Road')
<1> DEFINE e == [ev |-> "evPathMagError", param |-> code]
<1>1. e \in Event /\ e.ev # "evNextPathPoint"
  BY EventNames DEF Event
<1>2. Enqueue(e) /\ UNCHANGED <<car, quiet, stationList, paths, inputs>>
  BY DEF MoveFault
<1> HIDE DEF e
<1>3. /\ queue' \in [Class -> Seq(Event)] /\ Waits \subseteq Waits'
      /\ "evNextPathPoint" \in Waits' => "evNextPathPoint" \in Waits
  BY <1>1, <1>2, EnqueueEffect
<1>4. car' \in Car /\ SameDrive(car, car') /\ car'.router = car.router
  BY <1>2, BaseCar DEF SameDrive
<1>. QED
  BY <1>2, <1>3, <1>4, AsideStep DEF Base, TypeOK

LEMMA InputStep ==
    ASSUME Base, NEW e \in Inputs, Input(e)
    PROVE  Base' /\ (Road => Road')
<1>1. e \in Event /\ e.ev # "evNextPathPoint"
  BY InputsAssumption
<1>2. Enqueue(e) /\ UNCHANGED <<car, quiet, stationList, paths>>
      /\ inputs < MaxInputs /\ inputs' = inputs + 1
  BY DEF Input
<1>3. /\ queue' \in [Class -> Seq(Event)] /\ Waits \subseteq Waits'
      /\ "evNextPathPoint" \in Waits' => "evNextPathPoint" \in Waits
  BY <1>1, <1>2, EnqueueEffect
<1>4. car' \in Car /\ SameDrive(car, car') /\ car'.router = car.router
  BY <1>2, BaseCar DEF SameDrive
<1>5. inputs' \in 0 .. MaxInputs
  BY <1>2, BoundsAssumption DEF Base, TypeOK
<1>. QED
  BY <1>2, <1>3, <1>4, <1>5, AsideStep DEF Base, TypeOK

LEMMA SendPathStep ==
    ASSUME Base, NEW points \in Paths, SendPath(points)
    PROVE  Base' /\ (Road => Road')
<1> DEFINE e == [ev |-> "evGetNewPath", param |-> Len(points)]
<1>1. points \in Seq(WayPoint) /\ e \in Event /\ e.ev # "evNextPathPoint"
  BY PathsAssumption, LenProperties, EventNames DEF Event
<1>2. Enqueue(e) /\ UNCHANGED <<car, quiet, inputs>> /\ stationList' = points
      /\ paths < MaxPaths /\ paths' = paths + 1
  BY DEF SendPath
<1> HIDE DEF e
<1>3. /\ queue' \in [Class -> Seq(Event)] /\ Waits \subseteq Waits'
      /\ "evNextPathPoint" \in Waits' => "evNextPathPoint" \in Waits
  BY <1>1, <1>2, EnqueueEffect
<1>4. car' \in Car /\ SameDrive(car, car') /\ car'.router = car.router
  BY <1>2, BaseCar DEF SameDrive
<1>5. paths' \in 0 .. MaxPaths
  BY <1>2, BoundsAssumption DEF Base, TypeOK
<1>. QED
  BY <1>1, <1>2, <1>3, <1>4, <1>5, AsideStep DEF Base, TypeOK

(* A car whose move helper stands is stopped again, without effect on it.  *)
LEMMA StopAgainStep ==
    ASSUME Base, StopAgain
    PROVE  Base' /\ (Road => Road')
<1>1. /\ car.carRunningMode = StopMode /\ car' = ControlerStop(car)
      /\ UNCHANGED <<queue, quiet, stationList, paths, inputs>>
  BY DEF StopAgain
<1>2. car.runningMode = StopMode
  BY <1>1, BaseCar DEF CarFits, TellsDriving
<1>3. car' \in Car /\ SameDrive(car, car') /\ car'.router = car.router
  BY <1>1, <1>2, BaseCar, ControlerStopEffect DEF SameDrive
<1>4. Waits' = Waits
  BY <1>1 DEF Waits, Waiting
<1>. QED
  BY <1>1, <1>3, <1>4, AsideStep DEF Base, TypeOK

(* A frame of the lifter may post its arrival, and leaves the drive alone. *)
Aside(c, r) ==
    /\ r \in Car /\ r.status = c.status /\ r.router = c.router
    /\ r.runningMode = c.runningMode /\ r.carRunningMode = c.carRunningMode
    /\ r.target = c.target /\ r.lastPathMag = c.lastPathMag
    /\ r.currentPathAction = c.currentPathAction
    /\ \A x : Posted(r, x) => Posted(c, x) \/ x = "evLiftArrived"

LEMMA LiftPostEffect ==
    ASSUME NEW c, NEW d, Aside(c, d)
    PROVE  Aside(c, Post(d, "evLiftArrived", d.targetHeight))
<1>1. PICK ev \in DOMAIN PriorityOf : ev = "evLiftArrived"
  BY EventNames
<1>2. PICK t \in Int : t = d.targetHeight
  BY DEF Aside, Car
<1> DEFINE r == Post(d, ev, t)
<1>3. /\ r \in Car /\ r.status = d.status /\ r.router = d.router
      /\ r.runningMode = d.runningMode /\ r.carRunningMode = d.carRunningMode
      /\ r.target = d.target /\ r.lastPathMag = d.lastPathMag
      /\ r.currentPathAction = d.currentPathAction
      /\ \A x : Posted(r, x) => Posted(d, x) \/ x = ev
  BY PostEffect DEF Aside
<1>4. r = Post(d, "evLiftArrived", d.targetHeight)
  BY <1>1, <1>2
<1> HIDE DEF r
<1>5. Aside(c, r)
  BY <1>1, <1>3 DEF Aside
<1>. QED
  BY <1>4, <1>5

LEMMA LifterFrameEffect ==
    ASSUME NEW c \in Car, NEW h \in Nat, NEW lstatus \in LiftStatus
    PROVE  Aside(c, LifterFrame(c, h, lstatus))
<1> DEFINE d == [c EXCEPT !.height = h, !.liftStatus = lstatus]
           near == h # c.height /\ d.targetHeight >= 0 /\ LiftIsArrived(d, d.targetHeight)
           e == IF near THEN Post(d, "evLiftArrived", d.targetHeight) ELSE d
           top == lstatus = AtTop /\ c.liftStatus # AtTop
           f == IF top THEN Post(e, "evLiftArrived", e.targetHeight) ELSE e
<1>1. Aside(c, d)
  <2>1. d \in Car /\ SameDrive(c, d) /\ d.router = c.router
    BY DEF Car, SameDrive
  <2> HIDE DEF d
  <2>. QED
    BY <2>1 DEF Aside, SameDrive, Posted
<1>2. LifterFrame(c, h, lstatus) = f
  BY DEF LifterFrame
<1> HIDE DEF d, near, top
<1>3. Aside(c, e)
  BY <1>1, LiftPostEffect
<1> HIDE DEF e
<1>4. Aside(c, f)
  BY <1>3, LiftPostEffect
<1>. QED
  BY <1>2, <1>4

LEMMA FrameStep ==
    ASSUME Base, NEW h \in Nat, NEW lstatus \in LiftStatus, Frame(h, lstatus),
           inputs' \in 0 .. MaxInputs
    PROVE  Base' /\ (Road => Road')
<1> DEFINE r == LifterFrame(car, h, lstatus)
<1>1. Aside(car, r)
  BY BaseCar, LifterFrameEffect
<1>2. /\ car' = [r EXCEPT !.posts = NoPosts]
      /\ queue' = [c \in Class |-> queue[c] \o r.posts[c]]
      /\ UNCHANGED <<quiet, stationList, paths>>
  BY DEF Frame
<1> HIDE DEF r
<1>3. NoPosts \in [Class -> Seq(Event)]
  BY EmptySeq DEF NoPosts
<1>4. car' \in Car /\ SameDrive(car, car') /\ car'.router = car.router
  <2> DEFINE n == [r EXCEPT !.posts = NoPosts]
  <2>1. /\ n \in Car /\ n.status = r.status /\ n.router = r.router /\ n.posts = NoPosts
        /\ n.runningMode = r.runningMode /\ n.carRunningMode = r.carRunningMode
        /\ n.target = r.target /\ n.lastPathMag = r.lastPathMag
        /\ n.currentPathAction = r.currentPathAction
    BY <1>1, <1>3 DEF Aside, Car
  <2>2. car' = n
    BY <1>2
  <2> HIDE DEF n
  <2>. QED
    BY <1>1, <2>1, <2>2, BaseCar DEF SameDrive, Aside
<1>5. queue \in [Class -> Seq(Event)] /\ r.posts \in [Class -> Seq(Event)]
  BY <1>1 DEF Base, TypeOK, Aside, Car
<1>6. /\ \A c \in Class : queue'[c] \in Seq(Event)
      /\ \A ev : HasEvent(queue, ev) \/ HasEvent(r.posts, ev) <=> HasEvent(queue', ev)
  <2>1. \A c \in Class : queue'[c] = queue[c] \o r.posts[c]
    BY <1>2
  <2>2. PICK s \in [Class -> Seq(Event)] : s = r.posts
    BY <1>5
  <2>3. \A c \in Class : queue'[c] = queue[c] \o s[c]
    BY <2>1, <2>2
  <2>4. /\ \A c \in Class : queue'[c] \in Seq(Event)
        /\ \A ev : HasEvent(queue, ev) \/ HasEvent(s, ev) <=> HasEvent(queue', ev)
    BY <1>5, <2>3, AddedEffect, ZenonT(150)
  <2>. QED
    BY <2>2, <2>4
<1>7. queue' \in [Class -> Seq(Event)]
  BY <1>2, <1>6
<1>8. Waits \subseteq Waits'
  BY <1>6, WaitsGrow
<1>9. ~Posted(r, "evNextPathPoint")
  BY <1>1, BaseCar, NothingPosted DEF Aside
<1>10. "evNextPathPoint" \in Waits' => "evNextPathPoint" \in Waits
  BY <1>6, <1>9, PostedIsHasEvent DEF Waits, Waiting, HasEvent, HasIn
<1>. QED
  BY <1>2, <1>4, <1>7, <1>8, <1>10, AsideStep DEF Base, TypeOK

LEMMA LifterStep ==
    ASSUME Base, LifterMoves \/ \E lstatus \in LiftReports : LifterReports(lstatus)
    PROVE  Base' /\ (Road => Road')
<1>1. \A lstatus \in LiftReports : lstatus \in LiftStatus
  BY ReportsAssumption
<1>2. CASE LifterMoves
  <2> DEFINE h == IF car.height < car.liftGoal THEN car.height + 1 ELSE car.height - 1
  <2>1. h \in Nat
    BY <1>2, BaseCar DEF LifterMoves, Car
  <2>2. PICK lstatus \in LiftReports : Frame(h, lstatus)
    BY <1>2 DEF LifterMoves
  <2>3. inputs' \in 0 .. MaxInputs
    BY <1>2 DEF LifterMoves, Base, TypeOK
  <2> HIDE DEF h
  <2>. QED
    BY <1>1, <2>1, <2>2, <2>3, FrameStep
<1>3. ASSUME NEW lstatus \in LiftReports, LifterReports(lstatus)
      PROVE  Base' /\ (Road => Road')
  <2>1. /\ Frame(car.height, lstatus)
        /\ inputs < MaxInputs /\ inputs' = inputs + 1
    BY <1>3 DEF LifterReports
  <2>2. car.height \in Nat
    BY BaseCar DEF Car
  <2>3. inputs' \in 0 .. MaxInputs
    BY <2>1, BoundsAssumption DEF Base, TypeOK
  <2>. QED
    BY <1>1, <2>1, <2>2, <2>3, FrameStep
<1>. QED
  BY <1>2, <1>3

-----------------------------------------------------------------------------
(* From the steps to the specification.                                    *)
LEMMA InitCar ==
    ASSUME Init
    PROVE  /\ Base
           /\ car.router.list = << >> /\ car.router.disk.path = << >>
           /\ car.router.targetPathId = 0
           /\ car.runningMode = StopMode /\ car.status = StatusInit
           /\ car.currentPathAction = ActionRun
           /\ \A ev : ~Waiting(ev)
<1> DEFINE q == Boot(BlankDisk)
<1>1. BlankDisk \in Disk /\ BlankDisk.TargetPointId = 0 /\ BlankDisk.path = << >>
  BY EmptySeq DEF BlankDisk, Disk
<1>2. Fits(q) /\ q.list = << >>
  BY <1>1, BootFits
<1>3. q.disk.path = << >> /\ q.targetPathId = 0
  BY <1>1 DEF Boot
<1> HIDE DEF q
<1>4. NoTarget \in Target /\ NoPosts \in [Class -> Seq(Event)]
      /\ ActionRun \in Nat /\ NoHeight \in Int /\ LiftUnknown \in LiftStatus
  BY EmptySeq, RunModeValues DEF NoTarget, Target, NoPosts, ActionRun, NoHeight, LiftStatus
<1>5. PICK mode \in {AutoMode, ManualMode} :
         car = [router |-> q, operateMode |-> mode, status |-> StatusInit,
                currentPathAction |-> ActionRun, lastPathMag |-> NoTarget,
                lastLiftHeight |-> 0, target |-> NoTarget, runningMode |-> StopMode,
                carRunningMode |-> StopMode, height |-> 0, targetHeight |-> NoHeight,
                liftGoal |-> 0, liftStatus |-> LiftUnknown, charging |-> FALSE, reports |-> {}, posts |-> NoPosts]
  BY DEF Init, q
<1>6. /\ car \in Car /\ car.router = q /\ car.status = StatusInit
      /\ car.lastPathMag = NoTarget /\ car.runningMode = StopMode /\ car.posts = NoPosts
      /\ car.currentPathAction = ActionRun
  BY <1>2, <1>4, <1>5, RunModeValues, StatusValues DEF Car, Fits
<1>7. CarFits(car)
  <2>1. Len(<< >>) = 0
    OBVIOUS
  <2>2. OnFile(q)
    BY <1>2, <1>3, <2>1 DEF OnFile
  <2>. QED
    BY <1>2, <1>6, <2>2, NothingPosted DEF CarFits, TellsDriving, RemembersTarget, Silent
<1>8. TypeOK
  BY <1>6, EmptySeq, BoundsAssumption DEF Init, TypeOK
<1>9. \A ev : ~Waiting(ev)
  <2>1. \A c \in Class : queue[c] = << >>
    BY DEF Init
  <2>2. Len(<< >>) = 0
    OBVIOUS
  <2>. QED
    BY <2>1, <2>2 DEF Waiting
<1>. QED
  BY <1>2, <1>3, <1>6, <1>7, <1>8, <1>9 DEF Base, HaltStands

LEMMA InitRoad ==
    ASSUME Init
    PROVE  Road
<1>1. Len(<< >>) = 0
  OBVIOUS
<1>2. /\ car.router.list = << >> /\ car.router.disk.path = << >>
      /\ car.router.targetPathId = 0
      /\ car.runningMode = StopMode /\ car.status = StatusInit
      /\ car.currentPathAction = ActionRun
      /\ \A ev : ~Waiting(ev)
  BY InitCar
<1>3. RouteOpen(car) /\ ~HasTarget(car.router)
  BY <1>1, <1>2 DEF RouteOpen, HasTarget, InRoute
<1>4. Driven(car, Waits)
  BY <1>2 DEF Driven, Waits
<1>5. OnRoute(car, Waits) /\ LeadsOn(car, Waits)
  BY <1>2, <1>3, <1>4, StatusValues DEF OnRoute, RouteFresh, Aligned, LeadsOn
<1>. QED
  BY <1>5 DEF Road

(* One case per handler.                                                   *)
LEMMA HandlerStep ==
    ASSUME Base, NEW c \in Class, HandleEvent(c)
    PROVE  Base' /\ (Road => Road')
<1>1. ASSUME NEW splits \in SplitOutcomes,
             KeyStart(c, splits) \/ ApplyPath(c, splits)
               \/ NextPathPoint(c, splits) \/ LiftArrived(c, splits)
      PROVE  Base' /\ (Road => Road')
  BY <1>1, KeyStartStep, NextPathPointStep, LiftArrivedStep
<1>2. CASE KeyStop(c) \/ SchedulerOffline(c) \/ SensorOffline(c)
  BY <1>2, StoppingStep
<1>3. CASE UrgentStop(c) \/ LostPosition(c) \/ LowBattery(c)
  BY <1>3, StatusStep
<1>4. ASSUME NEW ev \in {"evTurnOnCharge", "evTurnOffCharge"}, NEW on \in BOOLEAN,
             Charge(c, ev, on)
      PROVE  Base' /\ (Road => Road')
  BY <1>4, ChargeStep
<1>5. CASE Charge(c, "evTurnOnCharge", TRUE)
  BY <1>4, <1>5
<1>6. CASE Charge(c, "evTurnOffCharge", FALSE)
  BY <1>4, <1>6
<1>7. CASE KeyAutoMode(c) \/ KeyManualMode(c) \/ GetNewPath(c) \/ PathMagError(c)
             \/ PathFinished(c) \/ NetworkOK(c) \/ Lidar(c)
  BY <1>7, KeyAutoModeStep, KeyManualModeStep, GetNewPathStep, PathMagErrorStep,
     PathFinishedStep, NetworkOKStep, LidarStep
<1>. QED
  BY <1>1, <1>2, <1>3, <1>5, <1>6, <1>7 DEF HandleEvent

LEMMA NextStep ==
    ASSUME Base, Next
    PROVE  Base' /\ (Road => Road')
<1>1. CASE Main
  BY <1>1, HandlerStep DEF Main
<1>2. CASE \E code \in FaultCodes : MoveFault(code)
  BY <1>2, MoveFaultStep
<1>3. CASE \E points \in Paths : SendPath(points)
  BY <1>3, SendPathStep
<1>4. CASE \E e \in Inputs : Input(e)
  BY <1>4, InputStep
<1>5. CASE Arrive \/ StopAgain
  BY <1>5, ArriveStep, StopAgainStep
<1>6. CASE LifterMoves \/ \E lstatus \in LiftReports : LifterReports(lstatus)
  BY <1>6, LifterStep
<1>. QED
  BY <1>1, <1>2, <1>3, <1>4, <1>5, <1>6 DEF Next

LEMMA StutterStep ==
    ASSUME Base, UNCHANGED vars
    PROVE  Base' /\ (Road => Road')
<1>1. UNCHANGED <<car, queue, quiet, stationList, paths, inputs>>
  BY DEF vars
<1>2. car' \in Car /\ SameDrive(car, car') /\ car'.router = car.router
  BY <1>1, BaseCar DEF SameDrive
<1>3. Waits' = Waits
  BY <1>1 DEF Waits, Waiting
<1>. QED
  BY <1>1, <1>2, <1>3, AsideStep DEF Base, TypeOK

LEMMA BaseAlways == Spec => []Base
<1>1. Init => Base
  BY InitCar
<1>2. Base /\ [Next]_vars => Base'
  BY NextStep, StutterStep
<1>. QED
  BY <1>1, <1>2, PTL DEF Spec

LEMMA RoadAlways == Spec => [](Base /\ Road)
<1>1. Init => Base /\ Road
  BY InitCar, InitRoad
<1>2. Base /\ Road /\ [Next]_vars => Base' /\ Road'
  BY NextStep, StutterStep
<1>. QED
  BY <1>1, <1>2, PTL DEF Spec

-----------------------------------------------------------------------------
(* Every handler of HandleEvent, every arrival, fault and lifter frame     *)
(* leaves car, queues and planner with values of their types: in           *)
(* particular GetTargetStation is read only where there is a target.       *)
THEOREM CarTypeCorrect == Spec => []TypeOK
<1>1. Base => TypeOK
  BY DEF Base
<1>. QED
  BY <1>1, BaseAlways, PTL

(* SetCarStatus stops the car when it says stopped or error, and nothing   *)
(* sets a target to drive to without also setting StatusRunning: a car     *)
(* whose status says that it stands has no target, whatever the routes.    *)
THEOREM HaltedCarStandsAlways == Spec => []HaltedCarStands
<1>1. Base => HaltedCarStands
  BY DEF Base, HaltStands, Halted, HaltedCarStands, Moving
<1>. QED
  BY <1>1, BaseAlways, PTL

(* On every route, those with points that GoToNextPoint refuses included,  *)
(* GoToNextPoint, ResetLastTargetStation, the new route of OnGetNewPath    *)
(* and the reloads keep the planner's target and the move helper's apart   *)
(* only while evPathMagError waits to stop the car; and a car that drives  *)
(* while the planner's target is one that was refused drives to the last   *)
(* that was not (StartRun after the error).                                *)
THEOREM DrivesToTargetAlways == Spec => []DrivesToTarget
<1>1. Base /\ Road => DrivesToTarget
  <2> SUFFICES ASSUME Base, Road, Moving, ~Waiting("evPathMagError"),
                      PathCount(car.router) > 0
               PROVE  /\ HasTarget(car.router)
                      /\ IF CanDrive(GetTargetStation(car.router))
                         THEN car.target.station = GetTargetStation(car.router).id
                         ELSE car.target = car.lastPathMag
    BY DEF DrivesToTarget
  <2>1. Fits(car.router) /\ car.posts = NoPosts
    BY DEF Base, CarFits
  <2>2. HasTarget(car.router)
    BY <2>1, RouteHasTarget
  <2>3. ~Due(car, Waits, "evPathMagError")
    BY <2>1, NothingPosted DEF Due, Waits
  <2>4. Aligned(car, Waits)
    BY DEF Road, OnRoute
  <2>. QED
    BY <2>2, <2>3, <2>4 DEF Aligned, Moving, Target0
<1>. QED
  BY <1>1, RoadAlways, PTL

(* StartRun ignores what ResetLastTargetStation returns, and GoOn sets the *)
(* status after the move has been refused: still a car whose status says   *)
(* that it runs drives, or an event waits that leads on, or it is in an    *)
(* action that DoPathPointAction does not know.                            *)
THEOREM RunningCarRunsAlways == Spec => []RunningCarRuns
<1>1. Base /\ Road => RunningCarRuns
  <2> SUFFICES ASSUME Base, Road, car.status = StatusRunning, ~Moving,
                      ~(car.currentPathAction > ActionCharge)
               PROVE  \E ev \in Leading : Waiting(ev)
    BY DEF RunningCarRuns
  <2>1. PICK ev \in Leading : Due(car, Waits, ev)
    BY DEF Road, LeadsOn, Moving
  <2>2. ev \in Waits
    BY <2>1, NothingPosted DEF Due, Base
  <2>. QED
    BY <2>2 DEF Waits
<1>. QED
  BY <1>1, RoadAlways, PTL
=============================================================================
