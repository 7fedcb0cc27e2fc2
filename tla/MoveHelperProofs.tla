-------------------------- MODULE MoveHelperProofs --------------------------
(***************************************************************************)
(* The forklift's move helper: how it splits a target into legs, and how   *)
(* it drives them.                                                         *)
(***************************************************************************)
EXTENDS MoveHelper, PathSplit, TLAPS, FiniteSetTheorems, SequenceTheorems,
        WellFoundedInduction

(***************************************************************************)
(* PathSplit for every pose whose angle has a sine and every saved radius  *)
(* of the forklift's range: what SplitToSubTarget answers with.            *)
(*                                                                         *)
(* The invariant is that the legs of an accepted target are the ones of    *)
(* its pose, and that the pose was not refused.  The rest is geometry of   *)
(* one split: the right half of the code is the mirror image of the left   *)
(* one (Facing, Side), the left one is six cases, and the end of a leg is  *)
(* the start of the next by the arithmetic of circles in whole cm: a root  *)
(* is right within one cm, a sine within a thousandth.                     *)
(***************************************************************************)
(* The headings of a car whose pose is in range: the angles that have a    *)
(* sine.                                                                   *)
Headings ==
    {0, 15, 30, 45, 60, 75, 90, 105, 120, 135, 150, 165,
     180, 195, 210, 225, 240, 255, 270, 285, 300, 315, 330, 345}

(* An angle of the inputs is one of them, unless the pose is out of range  *)
(* (GetPosition fails, :1765).                                             *)
LEMMA HeadingsAre == \A a \in Angles : a # 360 => a \in Headings
<1> SUFFICES ASSUME NEW a \in Angles, a # 360 PROVE a \in Headings
  OBVIOUS
<1>1. PICK k \in 0 .. 24 : a = 15 * k
  BY PoseAssumption
<1>. QED
  BY <1>1 DEF Headings

(* The table of the sine.                                                  *)
LEMMA Quarters ==
    ASSUME NEW a \in 0 .. 90
    PROVE  /\ a = 0 => Sin(a) = 0
           /\ a = 15 => Sin(a) = 259
           /\ a = 30 => Sin(a) = 500
           /\ a = 45 => Sin(a) = 707
           /\ a = 60 => Sin(a) = 866
           /\ a = 75 => Sin(a) = 966
           /\ a = 90 => Sin(a) = 1000
BY DEF Sin

(* Sine and cosine of any heading, from the first quarter.                 *)
LEMMA SineFolds ==
    ASSUME NEW a \in Headings
    PROVE  /\ a > 90 /\ a <= 180 => Sin(a) = Sin(180 - a)
           /\ a > 180 /\ a <= 270 => Sin(a) = -Sin(a - 180)
           /\ a > 270 => Sin(a) = -Sin(360 - a)
           /\ Cos(a) = IF a < 270 THEN Sin(a + 90) ELSE Sin(a - 270)
<1>1. a \in 0 .. 359
  BY DEF Headings
<1>2. ASSUME a > 90, a <= 180 PROVE Sin(a) = Sin(180 - a)
  BY <1>1, <1>2 DEF Sin
<1>3. ASSUME a > 180, a <= 270 PROVE Sin(a) = -Sin(a - 180)
  BY <1>1, <1>3 DEF Sin
<1>4. ASSUME a > 270 PROVE Sin(a) = -Sin(360 - a)
  <2>1. 360 - a \in 0 .. 90 /\ ~(a \in 0 .. 90) /\ ~(a \in 91 .. 180) /\ ~(a \in 181 .. 270)
    BY <1>1, <1>4
  <2> DEFINE Quarter(b) == <<0, 259, 500, 707, 866, 966, 1000>>[b \div 15 + 1]
  <2>2. Sin(360 - a) = Quarter(360 - a)
    BY <2>1 DEF Sin
  <2>3. Sin(a) = -Quarter(360 - a)
    BY <2>1 DEF Sin
  <2>. QED
    BY <2>2, <2>3
<1>5. Cos(a) = IF a < 270 THEN Sin(a + 90) ELSE Sin(a - 270)
  <2>1. (a + 90) % 360 = IF a < 270 THEN a + 90 ELSE a - 270
    BY <1>1
  <2>. QED
    BY <2>1 DEF Cos
<1>. QED
  BY <1>2, <1>3, <1>4, <1>5

(* Sine and cosine of each heading, in thousandths.                        *)
LEMMA Sines ==
    ASSUME NEW a \in Headings
    PROVE  /\ a = 0 => Sin(a) = 0 /\ Cos(a) = 1000
           /\ a = 15 => Sin(a) = 259 /\ Cos(a) = 966
           /\ a = 30 => Sin(a) = 500 /\ Cos(a) = 866
           /\ a = 45 => Sin(a) = 707 /\ Cos(a) = 707
           /\ a = 60 => Sin(a) = 866 /\ Cos(a) = 500
           /\ a = 75 => Sin(a) = 966 /\ Cos(a) = 259
           /\ a = 90 => Sin(a) = 1000 /\ Cos(a) = 0
           /\ a = 105 => Sin(a) = 966 /\ Cos(a) = -259
           /\ a = 120 => Sin(a) = 866 /\ Cos(a) = -500
           /\ a = 135 => Sin(a) = 707 /\ Cos(a) = -707
           /\ a = 150 => Sin(a) = 500 /\ Cos(a) = -866
           /\ a = 165 => Sin(a) = 259 /\ Cos(a) = -966
           /\ a = 180 => Sin(a) = 0 /\ Cos(a) = -1000
           /\ a = 195 => Sin(a) = -259 /\ Cos(a) = -966
           /\ a = 210 => Sin(a) = -500 /\ Cos(a) = -866
           /\ a = 225 => Sin(a) = -707 /\ Cos(a) = -707
           /\ a = 240 => Sin(a) = -866 /\ Cos(a) = -500
           /\ a = 255 => Sin(a) = -966 /\ Cos(a) = -259
           /\ a = 270 => Sin(a) = -1000 /\ Cos(a) = 0
           /\ a = 285 => Sin(a) = -966 /\ Cos(a) = 259
           /\ a = 300 => Sin(a) = -866 /\ Cos(a) = 500
           /\ a = 315 => Sin(a) = -707 /\ Cos(a) = 707
           /\ a = 330 => Sin(a) = -500 /\ Cos(a) = 866
           /\ a = 345 => Sin(a) = -259 /\ Cos(a) = 966
BY Quarters, SineFolds DEF Headings

(* CAgvMathUtils' square root as Root has it: the smallest number whose    *)
(* successor's square is past n is the one that CHOOSE takes.              *)
LEMMA RootOf ==
    ASSUME NEW n \in Nat, n < (MaxRadius + 1) * (MaxRadius + 1)
    PROVE  /\ Root(n) \in 0 .. MaxRadius
           /\ Root(n) * Root(n) <= n
           /\ n < (Root(n) + 1) * (Root(n) + 1)
<1> DEFINE Over == {k \in Nat : n < (k + 1) * (k + 1)}
<1>1. MaxRadius \in Over
  BY DEF MaxRadius
<1>2. PICK r \in Over : \A k \in Over : ~(<<k, r>> \in OpToRel(<, Nat))
  <2>1. Over \subseteq Nat /\ Over # {}
    BY <1>1
  <2> HIDE DEF Over
  <2>. QED
    BY <2>1, NatLessThanWellFounded, WFMin
<1>3. \A k \in Nat : n < (k + 1) * (k + 1) => ~(k < r)
  BY <1>2 DEF OpToRel
<1>4. r \in 0 .. MaxRadius
  <2>1. r \in Nat /\ n < (r + 1) * (r + 1)
    OBVIOUS
  <2>2. MaxRadius \in Nat /\ ~(MaxRadius < r)
    BY <1>1, <1>3 DEF MaxRadius
  <2>. QED
    BY <2>1, <2>2
<1>5. r * r <= n
  <2>1. CASE r = 0
    BY <2>1
  <2>2. CASE r # 0
    <3>1. PICK k \in Nat : r = k + 1
      BY <1>4, <2>2 DEF MaxRadius
    <3>2. ~(n < (k + 1) * (k + 1))
      BY <1>3, <3>1
    <3>. QED
      BY <3>1, <3>2
  <2>. QED
    BY <2>1, <2>2
<1>6. \E k \in 0 .. MaxRadius : k * k <= n /\ n < (k + 1) * (k + 1)
  BY <1>4, <1>5
<1>. QED
  BY <1>6 DEF Root

(* Where a car may stand when it gets a target.                            *)
Pose == [forward : BOOLEAN, x : Int, y : Int, angle : Headings, off : {0, Aimed}]

(* Which side of the line the car is on: 1 left, -1 right. *)
Sides == {1, -1}
Heel(s, angle) == IF s = 1 THEN angle ELSE MirrorAngle(angle)

(* StandardRadius of the settings is no more than MAXTURNINGRADIUS: line   *)
(* 1830 takes it as it is, and only the computed radius is cut to the      *)
(* limits.                                                                 *)
NarrowEnough == SavedRadius <= MaxRadius

(* Forward or backward.                                                    *)
LEMMA WayType == \A p : Way(p) \in {1, -1}
BY DEF Way

(* The radius chosen (:1787-1841) is one that the forklift can turn with.  *)
LEMMA RadiusType ==
    ASSUME NarrowEnough, NEW p \in Pose
    PROVE  Radius(p) \in MinRadius .. MaxRadius
<1>1. p.x \in Int /\ p.y \in Int /\ p.angle \in Int
  BY DEF Pose, Headings
<1>2. p.y # 0 => Automatic(p) \in Int
  <2>1. SUFFICES ASSUME p.y # 0 PROVE Automatic(p) \in Int
    OBVIOUS
  <2> DEFINE x0 == IF p.forward THEN p.x + 40 ELSE p.x - 40
             r == (x0 * x0 + p.y * p.y) \div (2 * Abs(p.y))
  <2>2. x0 \in Int /\ Abs(p.y) \in Nat /\ Abs(p.y) > 0
    BY <1>1, <2>1 DEF Abs
  <2>3. r \in Int
    <3> HIDE DEF x0
    <3>1. x0 * x0 + p.y * p.y \in Int
      BY <1>1, <2>2
    <3>2. 2 * Abs(p.y) \in Nat /\ 2 * Abs(p.y) > 0
      BY <2>2
    <3>. QED
      BY <3>1, <3>2
  <2> HIDE DEF r
  <2>4. Automatic(p) = IF r >= Abs(p.x) - 40 /\ Abs(p.y) > Abs(p.x) - 40 THEN Special ELSE r
    BY DEF Automatic, r
  <2>. QED
    BY <2>3, <2>4 DEF Special
<1> DEFINE r == IF Abs(p.angle - 90) <= 20 \/ Abs(p.angle - 270) <= 20 THEN SavedRadius
                ELSE IF p.y = 0 THEN MaxRadius
                ELSE IF Automatic(p) > MaxRadius THEN MaxRadius ELSE Automatic(p)
<1>3. r \in Int /\ r <= MaxRadius
  BY <1>1, <1>2, RadiusAssumption DEF MaxRadius, NarrowEnough
<1>4. Radius(p) = IF ~p.forward \/ r < MinRadius THEN MinRadius ELSE r
  BY DEF Radius
<1> HIDE DEF r
<1>. QED
  BY <1>3, <1>4 DEF MinRadius, MaxRadius

(* The mirror image of a heading is a heading, and its own mirror image.   *)
LEMMA HeelType ==
    ASSUME NEW s \in Sides, NEW a \in Headings
    PROVE  Heel(s, a) \in Headings /\ Heel(s, Heel(s, a)) = a
BY DEF Heel, MirrorAngle, Headings, Sides

(* An angle in degrees, as GetPosition returns it.                         *)
Angle(a) == a \in Int /\ 0 <= a /\ a <= 359

(* Headings are angles.                                                    *)
LEMMA AngleOf == \A a \in Headings : Angle(a)
BY DEF Angle, Headings

(* As HeelType, for any angle.                                             *)
LEMMA MirrorType ==
    ASSUME NEW a, Angle(a)
    PROVE  Angle(MirrorAngle(a)) /\ MirrorAngle(MirrorAngle(a)) = a
BY DEF Angle, MirrorAngle

(* CAgvMathUtils::AngleDiff is the difference by the short way round.      *)
LEMMA DiffType ==
    ASSUME NEW a \in Int, NEW t \in Int, Angle(a), Angle(t), NEW d, d = AngleDiff(a, t)
    PROVE  /\ d \in Int /\ -180 < d /\ d <= 180
           /\ d = a - t \/ d = a - t - 360 \/ d = a - t + 360
           /\ a = t => d = 0
BY DEF AngleDiff, Signed, Angle

(* Mirrored angles differ as much as the angles do.                        *)
LEMMA DiffMirrored ==
    ASSUME NEW a, NEW t, Angle(a), Angle(t)
    PROVE  Abs(AngleDiff(MirrorAngle(a), MirrorAngle(t))) = Abs(AngleDiff(a, t))
BY DEF AngleDiff, Signed, Abs, MirrorAngle, Angle

(* A turn by the angle AngleDiff found ends in the heading it was for.     *)
LEMMA TurnedTo ==
    ASSUME NEW s \in Sides, NEW a \in Headings, NEW t \in Headings,
           NEW d, d = AngleDiff(Heel(s, a), t),
           NEW e, e = IF s = 1 THEN d ELSE MirrorTurn(d)
    PROVE  e # Aimed /\ (a - e + 360) % 360 = Heel(s, t)
<1>1. Angle(a) /\ Angle(t) /\ a \in Int /\ t \in Int
  BY AngleOf DEF Angle
<1>2. PICK h \in Int : h = Heel(s, a) /\ Angle(h)
  BY HeelType, AngleOf DEF Angle
<1>3. /\ d \in Int /\ -180 < d /\ d <= 180
      /\ d = h - t \/ d = h - t - 360 \/ d = h - t + 360
  BY <1>1, <1>2, DiffType
<1>4. PICK m \in Int : m = Heel(s, t) /\ Angle(m)
  BY HeelType, AngleOf DEF Angle
<1>5. CASE s = 1
  <2>1. e = d /\ h = a /\ m = t
    BY <1>2, <1>4, <1>5 DEF Heel
  <2>. QED
    BY <1>1, <1>3, <1>4, <2>1 DEF Aimed, Angle
<1>6. CASE s = -1
  <2>1. /\ e = (IF d = 180 THEN 180 ELSE -d)
        /\ h = (IF a = 0 THEN 0 ELSE 360 - a) /\ m = (IF t = 0 THEN 0 ELSE 360 - t)
    BY <1>2, <1>3, <1>4, <1>6 DEF Heel, MirrorTurn, MirrorAngle, Aimed
  <2>2. /\ e \in Int /\ -180 <= e /\ e <= 180
        /\ a - e = m \/ a - e = m - 360 \/ a - e = m + 360
    BY <1>1, <1>3, <2>1 DEF Angle
  <2>3. (a - e + 360) % 360 = m
    BY <1>1, <1>4, <2>2 DEF Angle
  <2>. QED
    BY <1>4, <2>2, <2>3 DEF Aimed
<1>. QED
  BY <1>5, <1>6 DEF Sides

(* Without a turn it heads there well enough.                              *)
LEMMA HeadsThere ==
    ASSUME NEW s \in Sides, NEW a \in Headings, NEW t \in Headings,
           ~(Abs(AngleDiff(Heel(s, a), t)) > Aside)
    PROVE  HeadsFor(a, Heel(s, t))
<1>1. Angle(a) /\ Angle(t)
  BY AngleOf
<1>2. PICK h, m : h = Heel(s, a) /\ m = Heel(s, t) /\ Angle(h) /\ Angle(m)
  BY HeelType, AngleOf
<1>3. Abs(AngleDiff(a, m)) = Abs(AngleDiff(h, t))
  <2>1. CASE s = 1
    BY <1>2, <2>1 DEF Heel
  <2>2. CASE s = -1
    <3>1. h = MirrorAngle(a) /\ m = MirrorAngle(t)
      BY <1>2, <2>2 DEF Heel
    <3>2. MirrorAngle(m) = t
      BY <1>1, <3>1, MirrorType
    <3>. QED
      BY <1>1, <1>2, <3>1, <3>2, DiffMirrored
  <2>. QED
    BY <2>1, <2>2 DEF Sides
<1>4. AngleDiff(h, t) \in Int
  BY <1>1, <1>2, DiffType DEF Angle
<1>5. Abs(AngleDiff(h, t)) \in Int
  BY <1>4 DEF Abs
<1>. QED
  BY <1>2, <1>3, <1>5 DEF HeadsFor, Aside

(* A car heads where it heads; one whose heading was found good enough,    *)
(* too.                                                                    *)
LEMMA HeadsItself ==
    ASSUME NEW a \in Headings
    PROVE  HeadsFor(a, a) /\ HeadsFor(Aimed, a)
<1>1. AngleDiff(a, a) = 0
  BY AngleOf, DiffType DEF Angle
<1>2. Abs(AngleDiff(a, a)) <= Aside
  BY <1>1 DEF Abs, Aside
<1>. QED
  BY <1>2 DEF HeadsFor

(* What RadiusType says of the radius, of the variable.                    *)
RadiusInRange == radius \in Int /\ MinRadius <= radius /\ radius <= MaxRadius

(* The heading straight to the line.                                       *)
LEMMA DownSine ==
    ASSUME NEW p, NEW s \in Sides, NEW a, a = Heel(s, Down(p))
    PROVE  /\ a \in Headings /\ a # 0 /\ a # Aimed
           /\ Cos(a) = 0
           /\ Sin(a) = IF s = Way(p) THEN -1000 ELSE 1000
<1>1. a = IF s = Way(p) THEN 270 ELSE 90
  BY DEF Heel, Down, Way, MirrorAngle, Sides
<1>2. a \in Headings /\ a # 0 /\ a # Aimed
  BY <1>1 DEF Headings, Aimed
<1>. QED
  BY <1>1, <1>2, Sines

(* The last line of every split: it fits a car almost on the target's      *)
(* line, before the target.                                                *)
LEMMA HomeFits ==
    ASSUME NEW p, NEW from, from.x \in Int, from.y \in Int,
           -Near <= from.y, from.y <= Near, Way(p) * from.x <= 0,
           NEW h, HeadsFor(h, Home.angle)
    PROVE  LineFits(p, from, Home, h)
<1>1. Home.x = 0 /\ Home.y = 0 /\ Home.angle = 0
  BY DEF Home, Line
<1>2. PICK a \in Headings : a = Home.angle
  BY <1>1 DEF Headings
<1>3. Sin(a) = 0 /\ Cos(a) = 1000
  BY <1>1, <1>2, Sines
<1>4. Abs((Home.x - from.x) * Sin(a) - (Home.y - from.y) * Cos(a)) <= 1000 * Near
  <2>1. (Home.x - from.x) * Sin(a) - (Home.y - from.y) * Cos(a) = 1000 * from.y
    BY <1>1, <1>3
  <2>. QED
    BY <2>1 DEF Abs, Near
<1>5. Forth(p, from, Home, a) >= 0
  <2>1. PICK w \in Int : w = Way(p) /\ (w = 1 \/ w = -1)
    BY WayType
  <2>2. Forth(p, from, Home, a) = w * ((0 - from.x) * 1000 + (0 - from.y) * 0)
    BY <1>1, <1>3, <2>1 DEF Forth
  <2>3. w * ((0 - from.x) * 1000 + (0 - from.y) * 0) >= 0
    BY <2>1
  <2>. QED
    BY <2>2, <2>3
<1>. QED
  BY <1>2, <1>4, <1>5 DEF LineFits

(* A line straight to the target's line fits a car that is farther from    *)
(* it.                                                                     *)
LEMMA DownLineFits ==
    ASSUME NEW p, NEW s \in Sides, NEW from, from.x \in Int, from.y \in Int,
           NEW leg, leg.x = from.x, leg.y \in Int, leg.angle = Heel(s, Down(p)),
           IF s = 1 THEN leg.y <= from.y ELSE leg.y >= from.y,
           NEW h, HeadsFor(h, leg.angle)
    PROVE  LineFits(p, from, leg, h)
<1>1. Cos(leg.angle) = 0 /\ Sin(leg.angle) = IF s = Way(p) THEN -1000 ELSE 1000
  BY DownSine
<1>2. PICK S \in Int : S = Sin(leg.angle)
  BY <1>1
<1>3. Abs((leg.x - from.x) * Sin(leg.angle) - (leg.y - from.y) * Cos(leg.angle)) <= 1000 * Near
  <2>1. (leg.x - from.x) * S - (leg.y - from.y) * 0 = 0
    OBVIOUS
  <2>. QED
    BY <1>1, <1>2, <2>1 DEF Abs, Near
<1>4. Forth(p, from, leg, leg.angle) >= 0
  <2>1. PICK w \in Int, t \in Int : w = Way(p) /\ (w = 1 \/ w = -1) /\ t = s /\ (t = 1 \/ t = -1)
    BY WayType DEF Sides
  <2>2. S = IF t = w THEN -1000 ELSE 1000
    BY <1>1, <1>2, <2>1
  <2>3. w * (0 + (leg.y - from.y) * S) >= 0
    BY <2>1, <2>2
  <2>4. Forth(p, from, leg, leg.angle) = w * (0 + (leg.y - from.y) * S)
    BY <1>1, <1>2, <2>1 DEF Forth
  <2>. QED
    BY <2>3, <2>4
<1>. QED
  BY <1>3, <1>4 DEF LineFits

(* ArcFits for a centre at <<a, b>>.                                       *)
CentreAt(p, from, leg, a, b) ==
    IF leg.angle = 0
    THEN a = leg.x /\ b = IF from.y > 0 THEN leg.y + radius ELSE leg.y - radius
    ELSE a = leg.x - Way(p) * radius /\ b = leg.y

(* ArcFits from a centre whose coordinates are given.                      *)
LEMMA ArcAround ==
    ASSUME NEW p, NEW from, NEW leg, NEW h, NEW a, NEW b,
           CentreAt(p, from, leg, a, b),
           Abs(((from.x - a) * (from.x - a) + (from.y - b) * (from.y - b)) - radius * radius)
               <= 4 * radius,
           Gap2(from, leg) <= 2 * radius * radius + 4 * radius,
           h # Aimed =>
               /\ Abs((from.x - a) * Cos(h) + (from.y - b) * Sin(h)) <= 342 * radius + 3000
               /\ Forth(p, from, leg, h) >= 0
    PROVE  ArcFits(p, from, leg, h)
<1> DEFINE c == Centre(p, from, leg)
<1>1. c.x = a /\ c.y = b
  BY DEF CentreAt, Centre
<1> HIDE DEF c
<1>2. Gap2(from, c) = (from.x - a) * (from.x - a) + (from.y - b) * (from.y - b)
  BY <1>1 DEF Gap2
<1>3. Across(from, c, h) = (from.x - a) * Cos(h) + (from.y - b) * Sin(h)
  BY <1>1 DEF Across
<1>4. Abs(Gap2(from, c) - radius * radius) <= 4 * radius
  BY <1>2
<1>5. h # Aimed => Abs(Across(from, c, h)) <= 342 * radius + 3000
  BY <1>3
<1>. QED
  BY <1>4, <1>5 DEF ArcFits, c

(* A quarter of a circle from the heading down to the line.                *)
LEMMA QuarterFits ==
    ASSUME NEW p, NEW s \in Sides, RadiusInRange, NEW from, from.x \in Int,
           from.y = IF s = 1 THEN radius ELSE -radius,
           NEW leg, leg.x = from.x + Way(p) * radius, leg.y = 0, leg.angle = 0,
           NEW h, h = Heel(s, Down(p))
    PROVE  ArcFits(p, from, leg, h)
<1>1. Cos(h) = 0 /\ Sin(h) = IF s = Way(p) THEN -1000 ELSE 1000
  BY DownSine
<1>2. PICK w \in Int, t \in Int, r \in Int :
         /\ w = Way(p) /\ (w = 1 \/ w = -1) /\ t = s /\ (t = 1 \/ t = -1)
         /\ r = radius /\ 100 <= r
  BY WayType DEF Sides, RadiusInRange, MinRadius
<1>3. /\ from.y = (IF t = 1 THEN r ELSE -r) /\ leg.x = from.x + w * r
      /\ Sin(h) = IF t = w THEN -1000 ELSE 1000
  BY <1>1, <1>2
<1>4. CentreAt(p, from, leg, leg.x, from.y)
  <2>1. CASE t = 1
    BY <1>2, <1>3, <2>1 DEF CentreAt
  <2>2. CASE t = -1
    BY <1>2, <1>3, <2>2 DEF CentreAt
  <2>. QED
    BY <1>2, <2>1, <2>2
<1>5. (from.x - leg.x) * (from.x - leg.x) = r * r
  BY <1>2, <1>3
<1>6. /\ (from.y - from.y) * (from.y - from.y) = 0
      /\ (from.y - leg.y) * (from.y - leg.y) = r * r
  BY <1>2, <1>3
<1>7. Abs(((from.x - leg.x) * (from.x - leg.x) + (from.y - from.y) * (from.y - from.y))
            - radius * radius) <= 4 * radius
  BY <1>2, <1>5, <1>6 DEF Abs
<1>8. Gap2(from, leg) <= 2 * radius * radius + 4 * radius
  BY <1>2, <1>5, <1>6 DEF Gap2
<1>9. Abs((from.x - leg.x) * Cos(h) + (from.y - from.y) * Sin(h)) <= 342 * radius + 3000
  <2>1. (from.x - leg.x) * Cos(h) + (from.y - from.y) * Sin(h) = 0
    BY <1>1, <1>2, <1>3
  <2>. QED
    BY <1>2, <2>1 DEF Abs
<1>10. Forth(p, from, leg, h) >= 0
  <2>1. w * ((leg.x - from.x) * 0 + (0 - from.y) * Sin(h)) >= 0
    BY <1>2, <1>3
  <2>. QED
    BY <1>1, <1>2, <2>1 DEF Forth
<1>. QED
  BY <1>4, <1>7, <1>8, <1>9, <1>10, ArcAround

(* The way along the line that an arc of radius r makes good from where    *)
(* its centre is d away across the line.                                   *)
LEMMA Chord ==
    ASSUME NEW r \in Int, MinRadius <= r, r <= MaxRadius,
           NEW d \in Int, 0 <= d, d <= r,
           NEW n, n = r * r - d * d
    PROVE  /\ Root(n) \in Int /\ 0 <= Root(n) /\ Root(n) <= r
           /\ Root(n) * Root(n) + d * d <= r * r
           /\ r * r - 2 * r <= Root(n) * Root(n) + d * d
<1>0. 100 <= r /\ r <= 400 /\ MaxRadius = 400
  BY DEF MinRadius, MaxRadius
<1>1. d * d <= r * r /\ 0 <= d * d /\ r * r <= 160000
  BY <1>0
<1>2. n \in Nat /\ n < (MaxRadius + 1) * (MaxRadius + 1)
  BY <1>0, <1>1
<1>3. PICK x \in Int : x = Root(n) /\ 0 <= x /\ x * x <= n /\ n < (x + 1) * (x + 1)
  BY <1>2, RootOf
<1>4. x <= r
  <2>1. SUFFICES ASSUME x > r PROVE FALSE
    BY <1>3
  <2>2. x * x > r * r
    BY <1>0, <2>1
  <2>. QED
    BY <1>1, <1>3, <2>2
<1>5. n <= x * x + 2 * x
  BY <1>2, <1>3
<1>. QED
  BY <1>1, <1>3, <1>4, <1>5

(* The arc of OneArc (:1866, :2140): it begins where the car is less than  *)
(* a radius from the line, and ends along it.                              *)
LEMMA OneArcFits ==
    ASSUME NEW p, NEW s \in Sides, RadiusInRange, NEW from, from.x \in Int,
           NEW y \in Int, 0 < y, y <= radius, from.y = IF s = 1 THEN y ELSE -y,
           NEW leg, leg.y = 0, leg.angle = 0,
           leg.x = from.x + Way(p) * Root(radius * radius - (radius - y) * (radius - y))
    PROVE  ArcFits(p, from, leg, Aimed)
<1>1. PICK w \in Int, t \in Int, r \in Int :
         /\ w = Way(p) /\ (w = 1 \/ w = -1) /\ t = s /\ (t = 1 \/ t = -1)
         /\ r = radius /\ MinRadius <= r /\ r <= MaxRadius /\ 100 <= r
  BY WayType DEF Sides, RadiusInRange, MinRadius
<1>2. PICK d \in Int : d = r - y /\ 0 <= d /\ d <= r
  BY <1>1
<1>3. PICK n : n = r * r - d * d
  OBVIOUS
<1>4. PICK x \in Int : /\ x = Root(n) /\ 0 <= x /\ x <= r
                       /\ x * x + d * d <= r * r /\ r * r - 2 * r <= x * x + d * d
  BY <1>1, <1>2, <1>3, Chord, ZenonT(40)
<1>5. leg.x = from.x + w * x
  BY <1>1, <1>2, <1>3, <1>4
<1> DEFINE b == IF t = 1 THEN r ELSE -r
<1>6. CentreAt(p, from, leg, leg.x, b)
  BY <1>1 DEF CentreAt
<1>7. (from.x - leg.x) * (from.x - leg.x) = x * x
  <2>1. from.x - leg.x = -(w * x) /\ leg.x \in Int
    BY <1>1, <1>4, <1>5
  <2>2. (w * x) * (w * x) = x * x
    BY <1>1, <1>4
  <2>. QED
    BY <1>4, <2>1, <2>2
<1>8. (from.y - b) * (from.y - b) = d * d
  <2>1. from.y - b = IF t = 1 THEN -d ELSE d
    BY <1>1, <1>2
  <2>. QED
    BY <1>1, <1>2, <2>1
<1>9. (from.y - leg.y) * (from.y - leg.y) = y * y
  BY <1>1
<1>10. y * y <= r * r /\ d * d <= r * r /\ 0 <= d * d
  BY <1>1, <1>2
<1>11. Abs(((from.x - leg.x) * (from.x - leg.x) + (from.y - b) * (from.y - b)) - radius * radius)
          <= 4 * radius
  BY <1>1, <1>4, <1>7, <1>8 DEF Abs
<1>12. Gap2(from, leg) <= 2 * radius * radius + 4 * radius
  BY <1>1, <1>4, <1>7, <1>9, <1>10 DEF Gap2
<1>. QED
  BY <1>6, <1>11, <1>12, ArcAround

(* The first arc of TwoArcs: it leaves a car between one radius and two    *)
(* from the line at one radius from it, heading down to it.                *)
LEMMA TwoArcsFits ==
    ASSUME NEW p, NEW s \in Sides, RadiusInRange, NEW from, from.x \in Int,
           NEW y \in Int, radius <= y, y <= 2 * radius, from.y = IF s = 1 THEN y ELSE -y,
           NEW leg, leg.y = (IF s = 1 THEN radius ELSE -radius), leg.angle = Heel(s, Down(p)),
           leg.x = from.x + Way(p) * (radius - Root(radius * radius - (y - radius) * (y - radius)))
    PROVE  ArcFits(p, from, leg, Aimed)
<1>1. PICK w \in Int, t \in Int, r \in Int :
         /\ w = Way(p) /\ (w = 1 \/ w = -1) /\ t = s /\ (t = 1 \/ t = -1)
         /\ r = radius /\ MinRadius <= r /\ r <= MaxRadius /\ 100 <= r
  BY WayType DEF Sides, RadiusInRange, MinRadius
<1>2. PICK d \in Int : d = y - r /\ 0 <= d /\ d <= r
  BY <1>1
<1>3. PICK n : n = r * r - d * d
  OBVIOUS
<1>4. PICK x \in Int : /\ x = Root(n) /\ 0 <= x /\ x <= r
                       /\ x * x + d * d <= r * r /\ r * r - 2 * r <= x * x + d * d
  BY <1>1, <1>2, <1>3, Chord, ZenonT(40)
<1>5. leg.x = from.x + w * (r - x) /\ leg.y = IF t = 1 THEN r ELSE -r
  BY <1>1, <1>2, <1>3, <1>4
<1>6. PICK a \in Int : a = leg.x - w * r
  BY <1>1, <1>4, <1>5
<1>7. CentreAt(p, from, leg, a, leg.y)
  <2>1. leg.angle # 0
    BY DownSine
  <2>. QED
    BY <1>1, <1>6, <2>1 DEF CentreAt
<1>8. (from.x - a) * (from.x - a) = x * x
  <2>1. from.x - a = w * x
    BY <1>1, <1>4, <1>5, <1>6
  <2>. QED
    BY <1>1, <1>4, <2>1
<1>9. (from.y - leg.y) * (from.y - leg.y) = d * d
  BY <1>1, <1>2, <1>5
<1>10. (from.x - leg.x) * (from.x - leg.x) = (r - x) * (r - x)
  BY <1>1, <1>4, <1>5
<1>11. (r - x) * (r - x) <= r * r /\ d * d <= r * r
  BY <1>1, <1>2, <1>4
<1>12. Abs(((from.x - a) * (from.x - a) + (from.y - leg.y) * (from.y - leg.y)) - radius * radius)
          <= 4 * radius
  BY <1>1, <1>4, <1>8, <1>9 DEF Abs
<1>13. Gap2(from, leg) <= 2 * radius * radius + 4 * radius
  BY <1>1, <1>9, <1>10, <1>11 DEF Gap2
<1>. QED
  BY <1>7, <1>12, <1>13, ArcAround

(* A heading at most 20 degrees off the line is 0 or 15 degrees off it.    *)
LEMMA AlmostAhead ==
    ASSUME NEW h \in Headings, NEW z, z = 0, HeadsFor(h, z)
    PROVE  -259 <= Sin(h) /\ Sin(h) <= 259 /\ 966 <= Cos(h)
<1>1. Angle(h) /\ Angle(z)
  BY AngleOf DEF Angle
<1>2. PICK d \in Int : /\ d = AngleDiff(h, z) /\ -180 < d /\ d <= 180
                       /\ d = h - z \/ d = h - z - 360 \/ d = h - z + 360
  BY <1>1, DiffType, SMTT(40) DEF Angle
<1>3. h # Aimed
  BY <1>1 DEF Angle, Aimed
<1>4. Abs(d) <= 20
  BY <1>2, <1>3 DEF HeadsFor, Aside
<1>5. -20 <= d /\ d <= 20
  BY <1>2, <1>4 DEF Abs
<1>6. h = 0 \/ h = 15 \/ h = 345
  BY <1>2, <1>5 DEF Headings
<1>. QED
  BY <1>6, Sines

(* The first of two quarters, from the heading along the line.             *)
LEMMA LeaveFits ==
    ASSUME NEW p, NEW s \in Sides, RadiusInRange, NEW from, from.x \in Int, from.y \in Int,
           NEW leg, leg.x = from.x + Way(p) * radius,
           leg.y = (IF s = 1 THEN from.y - radius ELSE from.y + radius),
           leg.angle = Heel(s, Down(p)),
           NEW h, h = Aimed \/ (h \in Headings /\ -259 <= Sin(h) /\ Sin(h) <= 259 /\ 966 <= Cos(h))
    PROVE  ArcFits(p, from, leg, h)
<1>1. PICK w \in Int, t \in Int, r \in Int :
         /\ w = Way(p) /\ (w = 1 \/ w = -1) /\ t = s /\ (t = 1 \/ t = -1)
         /\ r = radius /\ 100 <= r
  BY WayType DEF Sides, RadiusInRange, MinRadius
<1>2. leg.x = from.x + w * r /\ leg.y = from.y - t * r
  BY <1>1
<1>3. CentreAt(p, from, leg, from.x, leg.y)
  <2>1. leg.angle # 0
    BY DownSine
  <2>. QED
    BY <1>1, <1>2, <2>1 DEF CentreAt
<1>4. /\ (from.x - from.x) * (from.x - from.x) = 0
      /\ (from.y - leg.y) * (from.y - leg.y) = r * r
      /\ (from.x - leg.x) * (from.x - leg.x) = r * r
  <2>1. from.y - leg.y = t * r /\ from.x - leg.x = -(w * r)
    BY <1>1, <1>2
  <2>2. (t * r) * (t * r) = r * r /\ (w * r) * (w * r) = r * r
    BY <1>1
  <2>. QED
    BY <1>1, <2>1, <2>2
<1>5. Abs(((from.x - from.x) * (from.x - from.x) + (from.y - leg.y) * (from.y - leg.y))
            - radius * radius) <= 4 * radius
  BY <1>1, <1>4 DEF Abs
<1>6. Gap2(from, leg) <= 2 * radius * radius + 4 * radius
  BY <1>1, <1>4 DEF Gap2
<1>7. ASSUME h # Aimed
      PROVE  /\ Abs((from.x - from.x) * Cos(h) + (from.y - leg.y) * Sin(h))
                  <= 342 * radius + 3000
             /\ Forth(p, from, leg, h) >= 0
  <2>1. PICK S \in Int, C \in Int : /\ S = Sin(h) /\ C = Cos(h)
                                    /\ -259 <= S /\ S <= 259 /\ 966 <= C /\ C <= 1000
    BY <1>7, Sines DEF Headings
  <2>2. /\ -(259 * r) <= r * S /\ r * S <= 259 * r
        /\ 966 * r <= r * C
    BY <1>1, <2>1
  <2>3. (from.x - from.x) * C + (from.y - leg.y) * S = t * (r * S)
    BY <1>1, <1>2, <2>1
  <2>4. t * (r * S) <= 259 * r /\ -(259 * r) <= t * (r * S) /\ t * (r * S) \in Int
    BY <1>1, <2>1, <2>2
  <2>5. Abs((from.x - from.x) * C + (from.y - leg.y) * S) <= 342 * radius + 3000
    BY <1>1, <2>3, <2>4 DEF Abs
  <2>6. w * ((leg.x - from.x) * C + (leg.y - from.y) * S) = r * C - w * (t * (r * S))
    <3>1. leg.x - from.x = w * r /\ leg.y - from.y = -(t * r)
      BY <1>1, <1>2
    <3>2. (w * r) * C + (-(t * r)) * S = w * (r * C) - t * (r * S)
      BY <1>1, <2>1
    <3>3. w * (w * (r * C) - t * (r * S)) = r * C - w * (t * (r * S))
      BY <1>1, <2>1
    <3>. QED
      BY <3>1, <3>2, <3>3, ZenonT(40)
  <2>7. r * C - w * (t * (r * S)) >= 0
    BY <1>1, <2>1, <2>2, <2>4
  <2>. QED
    BY <1>1, <2>1, <2>5, <2>6, <2>7 DEF Forth
<1>. QED
  BY <1>3, <1>5, <1>6, <1>7, ArcAround

(* Sine and cosine of the slants, in thousandths: 15 to 90 degrees.        *)
SlantPair(S, C) ==
    \/ S = 259 /\ C = 966
    \/ S = 500 /\ C = 866
    \/ S = 707 /\ C = 707
    \/ S = 866 /\ C = 500
    \/ S = 966 /\ C = 259
    \/ S = 1000 /\ C = 0

(* Rounding moves the start of the arc by a cm at most.                    *)
Rounded(S, C, r, e, c) ==
    /\ S \in Int /\ C \in Int /\ SlantPair(S, C)
    /\ r \in Int /\ 100 <= r /\ r <= 400
    /\ e \in Int /\ 1000 * e <= r * S /\ r * S < 1000 * e + 1000 /\ 0 <= e
    /\ c \in Int /\ 1000 * c >= r * C /\ r * C > 1000 * c - 1000 /\ 0 <= c

(* With whole centimetres, a slant's end stays within 4 cm of the circle,  *)
(* and its heading within three thousandths of the radius of a tangent.    *)
LEMMA RoundedCircle ==
    ASSUME NEW S, NEW C, NEW r, NEW e, NEW c, Rounded(S, C, r, e, c)
    PROVE  /\ r * r - 4 * r <= c * c + e * e
           /\ c * c + e * e <= r * r + 4 * r
           /\ -3000 <= c * S - e * C
           /\ c * S - e * C <= 3000
<1>0. /\ S \in Int /\ C \in Int /\ SlantPair(S, C)
      /\ r \in Int /\ 100 <= r /\ r <= 400
      /\ e \in Int /\ 1000 * e <= r * S /\ r * S < 1000 * e + 1000 /\ 0 <= e
      /\ c \in Int /\ 1000 * c >= r * C /\ r * C > 1000 * c - 1000 /\ 0 <= c
  BY DEF Rounded
<1>1. 0 <= S /\ S <= 1000 /\ 0 <= C /\ C <= 1000
      /\ 999698 <= S * S + C * C /\ S * S + C * C <= 1000237
  BY <1>0 DEF SlantPair
<1>2. PICK X \in Int, Y \in Int, Z \in Int, E \in Int, K \in Int, R \in Int :
         /\ X = (r * S) * (r * S) /\ Y = (r * C) * (r * C) /\ Z = (S * S + C * C) * (r * r)
         /\ E = e * e /\ K = c * c /\ R = r * r
  BY <1>0
<1>3. X + Y = Z
  BY <1>0, <1>2
<1>4. 999698 * R <= Z /\ Z <= 1000237 * R
  BY <1>0, <1>1, <1>2
<1>5. 1000000 * E <= X
  <2>1. (1000 * e) * (1000 * e) <= (r * S) * (r * S)
    BY <1>0, <1>1
  <2>. QED
    BY <1>0, <1>2, <2>1
<1>6. X <= 1000000 * E + 2000000 * e + 1000000
  <2>1. (r * S) * (r * S) <= (1000 * e + 1000) * (1000 * e + 1000)
    BY <1>0, <1>1
  <2>. QED
    BY <1>0, <1>2, <2>1
<1>7. Y <= 1000000 * K
  <2>1. (r * C) * (r * C) <= (1000 * c) * (1000 * c)
    BY <1>0, <1>1
  <2>. QED
    BY <1>0, <1>2, <2>1
<1>8. 1000000 * K <= Y + 1932000 * r + 1000000
  <2>1. (1000 * c) * (1000 * c) <= (r * C + 1000) * (r * C + 1000)
    BY <1>0, <1>1
  <2>2. r * C <= 966 * r
    BY <1>0, <1>1 DEF SlantPair
  <2>3. 1000000 * K <= Y + 2000 * (r * C) + 1000000
    BY <1>0, <1>2, <2>1
  <2>. QED
    BY <1>0, <1>2, <2>2, <2>3
<1>9. R <= 400 * r /\ 100 * r <= R /\ e <= r
  <2>1. r * S <= 1000 * r
    BY <1>0, <1>1
  <2>. QED
    BY <1>0, <1>2, <2>1
<1>10. R - 4 * r <= K + E /\ K + E <= R + 4 * r
  BY <1>0, <1>2, <1>3, <1>4, <1>5, <1>6, <1>7, <1>8, <1>9
<1>11. -3000 <= c * S - e * C /\ c * S - e * C <= 3000
  <2>1. /\ 1000 * (c * S) >= (r * C) * S
        /\ 1000 * (c * S) <= (r * C) * S + 1000 * S
    BY <1>0, <1>1
  <2>2. /\ 1000 * (e * C) <= (r * S) * C
        /\ 1000 * (e * C) >= (r * S) * C - 1000 * C
    BY <1>0, <1>1
  <2>3. (r * C) * S = (r * S) * C
    BY <1>0, <1>1
  <2>. QED
    BY <1>0, <1>1, <2>1, <2>2, <2>3
<1>. QED
  BY <1>0, <1>2, <1>10, <1>11

(* A car on a slant to the line (Slant): sine and cosine of the slant are  *)
(* the cosine and the sine of the heading, with their signs.               *)
LEMMA SlantAngles ==
    ASSUME NEW p, NEW s \in Sides, NEW g \in Headings, IF p.forward THEN g > 270 ELSE g < 90,
           NEW a, a = IF p.forward THEN g - 270 ELSE 90 - g,
           NEW h, h = Heel(s, g)
    PROVE  /\ a \in Headings /\ h \in Headings
           /\ SlantPair(Sin(a), Cos(a))
           /\ Cos(h) = Sin(a)
           /\ Sin(h) = IF s = Way(p) THEN -Cos(a) ELSE Cos(a)
<1>1. h \in Headings
  BY HeelType
<1>2. CASE p.forward
  <2>1. g = 285 \/ g = 300 \/ g = 315 \/ g = 330 \/ g = 345
    BY <1>2 DEF Headings
  <2>2. a \in Headings /\ h = (IF s = 1 THEN g ELSE 360 - g) /\ a = g - 270 /\ Way(p) = 1
    BY <1>2, <2>1 DEF Headings, Heel, MirrorAngle, Way
  <2>3. /\ SlantPair(Sin(a), Cos(a))
        /\ Cos(h) = Sin(a)
        /\ Sin(h) = IF s = 1 THEN -Cos(a) ELSE Cos(a)
    BY <1>1, <2>1, <2>2, Sines DEF SlantPair, Sides
  <2>. QED
    BY <1>1, <2>2, <2>3
<1>3. CASE ~p.forward
  <2>1. g = 0 \/ g = 15 \/ g = 30 \/ g = 45 \/ g = 60 \/ g = 75
    BY <1>3 DEF Headings
  <2>2. /\ a \in Headings /\ a = 90 - g /\ Way(p) = -1
        /\ h = IF s = 1 \/ g = 0 THEN g ELSE 360 - g
    BY <1>3, <2>1 DEF Headings, Heel, MirrorAngle, Way
  <2>3. /\ SlantPair(Sin(a), Cos(a))
        /\ Cos(h) = Sin(a)
        /\ Sin(h) = IF s = -1 THEN -Cos(a) ELSE Cos(a)
    BY <1>1, <2>1, <2>2, Sines DEF SlantPair, Sides
  <2>. QED
    BY <1>1, <2>2, <2>3
<1>. QED
  BY <1>2, <1>3

(* What SlantSine returns. *)
LEMMA SlantSines ==
    ASSUME NEW S \in Int, NEW C \in Int, SlantPair(S, C), NEW r \in Int, 100 <= r, r <= 400,
           NEW e, e = (r * S) \div 1000, NEW b, b = (1000 * r - r * C) \div 1000,
           NEW c, c = r - b
    PROVE  /\ e \in Int /\ b \in Int /\ c \in Int
           /\ 0 <= e /\ e <= r /\ 0 <= b /\ b <= r /\ 0 <= c /\ c <= r
           /\ 1000 * e <= r * S /\ r * S < 1000 * e + 1000
           /\ 1000 * c >= r * C /\ r * C > 1000 * c - 1000
<1>1. 0 <= S /\ S <= 1000 /\ 0 <= C /\ C <= 1000
  BY DEF SlantPair
<1>2. PICK m \in Int, n \in Int : m = r * S /\ n = r * C
  OBVIOUS
<1>3. 0 <= m /\ m <= 1000 * r /\ 0 <= n /\ n <= 1000 * r
  BY <1>1, <1>2
<1>4. e \in Int /\ 1000 * e <= m /\ m < 1000 * e + 1000
  BY <1>2
<1>5. b \in Int /\ 1000 * b <= 1000 * r - n /\ (1000 * r) - n < 1000 * b + 1000
  BY <1>2
<1>. QED
  BY <1>2, <1>3, <1>4, <1>5

(* A slant with heading g: e and b are SlantSine's ae and be.              *)
Slanting(p, g, e, b) ==
    LET a == IF p.forward THEN g - 270 ELSE 90 - g
    IN /\ g \in Headings /\ IF p.forward THEN g > 270 ELSE g < 90
       /\ e = (radius * Sin(a)) \div 1000
       /\ b = (1000 * radius - radius * Cos(a)) \div 1000

(* Its angle.                                                              *)
LEMMA SlantingOf ==
    ASSUME NEW p, NEW g, NEW e, NEW b, Slanting(p, g, e, b)
    PROVE  \E a \in Int : /\ g \in Headings /\ IF p.forward THEN g > 270 ELSE g < 90
                          /\ a = IF p.forward THEN g - 270 ELSE 90 - g
                          /\ e = (radius * Sin(a)) \div 1000
                          /\ b = (1000 * radius - radius * Cos(a)) \div 1000
<1> DEFINE a == IF p.forward THEN g - 270 ELSE 90 - g
<1>1. /\ g \in Headings /\ IF p.forward THEN g > 270 ELSE g < 90
      /\ e = (radius * Sin(a)) \div 1000
      /\ b = (1000 * radius - radius * Cos(a)) \div 1000
  BY DEF Slanting
<1>2. a \in Int
  BY <1>1 DEF Headings
<1> HIDE DEF a
<1>3. a = IF p.forward THEN g - 270 ELSE 90 - g
  BY DEF a
<1>. QED
  BY <1>1, <1>2, <1>3

(* The start of the arc moves by no more than the radius.                  *)
LEMMA SlantingType ==
    ASSUME NEW p, NEW g, NEW e, NEW b, Slanting(p, g, e, b), RadiusInRange
    PROVE  /\ e \in Int /\ 0 <= e /\ e <= radius
           /\ b \in Int /\ 0 <= b /\ b <= radius
<1>1. PICK a \in Int :
         /\ g \in Headings /\ IF p.forward THEN g > 270 ELSE g < 90
         /\ a = IF p.forward THEN g - 270 ELSE 90 - g
         /\ e = (radius * Sin(a)) \div 1000
         /\ b = (1000 * radius - radius * Cos(a)) \div 1000
  BY SlantingOf
<1>2. PICK s \in Sides : TRUE
  BY DEF Sides
<1>7. PICK h : h = Heel(s, g)
  OBVIOUS
<1>3. SlantPair(Sin(a), Cos(a))
  BY <1>1, <1>7, SlantAngles
<1>4. PICK S \in Int, C \in Int : S = Sin(a) /\ C = Cos(a) /\ SlantPair(S, C)
  BY <1>3 DEF SlantPair
<1>5. PICK r \in Int : r = radius /\ 100 <= r /\ r <= 400
  BY DEF RadiusInRange, MinRadius, MaxRadius
<1>6. PICK c : c = r - b
  OBVIOUS
<1>. QED
  BY <1>1, <1>4, <1>5, <1>6, SlantSines

(* Arithmetic with the sign of x on the way to the target.                 *)
LEMMA SignTimes ==
    ASSUME NEW w \in Int, w = 1 \/ w = -1, NEW n \in Int
    PROVE  /\ w * n \in Int /\ w * n = IF w = 1 THEN n ELSE -n
           /\ (w * n) * (w * n) = n * n /\ (-(w * n)) * (-(w * n)) = n * n
           /\ w * (w * n) = n
<1>1. CASE w = 1
  BY <1>1
<1>2. CASE w = -1
  <2>1. w * n = -n
    BY <1>2
  <2>. QED
    BY <1>2, <2>1
<1>. QED
  BY <1>1, <1>2

(* The first arc of Slant: it goes on from the car's heading and ends      *)
(* heading down to the line.                                               *)
LEMMA SlantFits ==
    ASSUME NEW p, NEW s \in Sides, RadiusInRange, NEW from, from.x \in Int, from.y \in Int,
           NEW g, NEW e \in Int, NEW b \in Int, Slanting(p, g, e, b),
           NEW leg, leg.x = from.x + Way(p) * b, leg.y = (IF s = 1 THEN from.y - e ELSE from.y + e),
           leg.angle = Heel(s, Down(p)),
           NEW h, h = Aimed \/ h = Heel(s, g)
    PROVE  ArcFits(p, from, leg, h)
<1>0. PICK a \in Int :
         /\ g \in Headings /\ IF p.forward THEN g > 270 ELSE g < 90
         /\ a = IF p.forward THEN g - 270 ELSE 90 - g
         /\ e = (radius * Sin(a)) \div 1000
         /\ b = (1000 * radius - radius * Cos(a)) \div 1000
  BY SlantingOf
<1>1. PICK w \in Int, t \in Int, r \in Int :
         /\ w = Way(p) /\ (w = 1 \/ w = -1) /\ t = s /\ (t = 1 \/ t = -1)
         /\ r = radius /\ 100 <= r /\ r <= 400
  BY WayType DEF Sides, RadiusInRange, MinRadius, MaxRadius
<1>2. a \in Headings /\ SlantPair(Sin(a), Cos(a))
  <2>1. PICK k : k = Heel(s, g)
    OBVIOUS
  <2>. QED
    BY <1>0, <2>1, SlantAngles
<1>3. PICK S \in Int, C \in Int : S = Sin(a) /\ C = Cos(a) /\ SlantPair(S, C)
  BY <1>2 DEF SlantPair
<1>4. PICK c \in Int : c = r - b
  BY <1>1
<1>5. /\ 0 <= e /\ e <= r /\ 0 <= b /\ b <= r /\ 0 <= c /\ c <= r
      /\ 1000 * e <= r * S /\ r * S < 1000 * e + 1000
      /\ 1000 * c >= r * C /\ r * C > 1000 * c - 1000
  BY <1>1, <1>3, <1>4, <1>0, SlantSines
<1>6. /\ r * r - 4 * r <= c * c + e * e /\ c * c + e * e <= r * r + 4 * r
      /\ -3000 <= c * S - e * C /\ c * S - e * C <= 3000
  <2>1. Rounded(S, C, r, e, c)
    BY <1>1, <1>3, <1>5 DEF Rounded
  <2>. QED
    BY <2>1, RoundedCircle
<1>7. /\ leg.x \in Int /\ leg.y \in Int
      /\ leg.x - from.x = w * b /\ leg.y - from.y = -(t * e)
  <2>1. leg.x = from.x + w * b /\ w * b \in Int
    BY <1>1
  <2>2. CASE t = 1
    BY <1>1, <2>1, <2>2
  <2>3. CASE t = -1
    BY <1>1, <2>1, <2>3
  <2>. QED
    BY <1>1, <2>2, <2>3
<1>8. PICK m \in Int : m = leg.x - w * r
  BY <1>1, <1>7
<1>9. CentreAt(p, from, leg, m, leg.y)
  <2>1. leg.angle # 0
    BY DownSine
  <2>. QED
    BY <1>1, <1>8, <2>1 DEF CentreAt
<1>10. from.x - m = w * c /\ from.y - leg.y = t * e
  BY <1>1, <1>4, <1>5, <1>7, <1>8
<1>11. /\ (from.x - m) * (from.x - m) = c * c
       /\ (from.y - leg.y) * (from.y - leg.y) = e * e
       /\ (from.x - leg.x) * (from.x - leg.x) = b * b
  <2>1. /\ (w * c) * (w * c) = c * c /\ (t * e) * (t * e) = e * e
        /\ (-(w * b)) * (-(w * b)) = b * b
    BY <1>1, SignTimes
  <2>2. from.x - leg.x = -(w * b)
    BY <1>1, <1>7
  <2>. QED
    BY <1>10, <2>1, <2>2, Zenon
<1>12. Abs(((from.x - m) * (from.x - m) + (from.y - leg.y) * (from.y - leg.y)) - radius * radius)
          <= 4 * radius
  BY <1>1, <1>5, <1>6, <1>11 DEF Abs
<1>13. Gap2(from, leg) <= 2 * radius * radius + 4 * radius
  <2>1. b * b <= r * r /\ e * e <= r * r
    BY <1>1, <1>5
  <2>. QED
    BY <1>1, <1>5, <1>11, <2>1 DEF Gap2
<1>14. ASSUME h # Aimed
       PROVE  /\ Abs((from.x - m) * Cos(h) + (from.y - leg.y) * Sin(h)) <= 342 * radius + 3000
              /\ Forth(p, from, leg, h) >= 0
  <2>1. Cos(h) = S /\ Sin(h) = IF t = w THEN -C ELSE C
    BY <1>1, <1>3, <1>14, <1>0, SlantAngles
  <2>2. PICK T \in Int : T = Sin(h) /\ T = IF t = w THEN -C ELSE C
    BY <1>3, <2>1
  <2>3. t * T = -(w * C)
    <3>1. w = 1 => w * C = C
      OBVIOUS
    <3>2. w = -1 => w * C = -C
      OBVIOUS
    <3>3. t = 1 => t * T = T
      OBVIOUS
    <3>4. t = -1 => t * T = -T
      OBVIOUS
    <3>. QED
      BY <1>1, <2>2, <3>1, <3>2, <3>3, <3>4
  <2>11. PICK X \in Int, Y \in Int, Z \in Int : X = c * S /\ Y = e * C /\ Z = b * S
    OBVIOUS
  <2>12. (w * c) * S = w * X /\ (w * b) * S = w * Z
    BY <2>11
  <2>13. (t * e) * T = -(w * Y) /\ (-(t * e)) * T = w * Y
    <3>1. (t * e) * T = e * (t * T) /\ (-(t * e)) * T = -((t * e) * T)
      OBVIOUS
    <3>2. e * (-(w * C)) = -(w * (e * C))
      OBVIOUS
    <3>3. (t * e) * T = -(w * Y)
      BY <2>3, <2>11, <3>1, <3>2
    <3>. QED
      BY <3>1, <3>3
  <2>14. (from.x - m) * S + (from.y - leg.y) * T = w * (X - Y)
    <3>1. (w * c) * S + (t * e) * T = w * (X - Y)
      BY <2>12, <2>13
    <3>. QED
      BY <1>10, <3>1, Zenon
  <2>6. (leg.x - from.x) * S + (leg.y - from.y) * T = w * (Z + Y)
    <3>1. (w * b) * S + (-(t * e)) * T = w * (Z + Y)
      BY <2>12, <2>13
    <3>. QED
      BY <1>7, <3>1, Zenon
  <2>4. PICK D \in Int : D = X - Y /\ -3000 <= D /\ D <= 3000
    BY <1>6, <2>11
  <2>5. Abs(w * D) <= 342 * r + 3000
    BY <1>1, <2>4 DEF Abs
  <2>7. b * S + e * C >= 0
    BY <1>3, <1>5 DEF SlantPair
  <2>8. PICK F \in Int : F = Z + Y /\ F >= 0
    BY <2>7, <2>11
  <2>9. w * (w * F) >= 0
    BY <1>1, <2>8
  <2>10. Forth(p, from, leg, h) >= 0
    BY <1>1, <2>1, <2>2, <2>6, <2>8, <2>9 DEF Forth
  <2>. QED
    BY <1>1, <2>1, <2>2, <2>14, <2>4, <2>5, <2>10
<1>. QED
  BY <1>9, <1>12, <1>13, <1>14, ArcAround

(* What line 2429 makes of a leg for a car on side s.                      *)
Side(s, leg) == IF s = 1 THEN leg ELSE Mirror(leg)
Sided(s, way) == [i \in DOMAIN way |-> Side(s, way[i])]
(* A leg that is not a turn.                                               *)
PathLeg == [mode : {"line", "arc"}, x : Int, y : Int, angle : Headings]

(* Drivable's condition of a leg that is not a turn, and of all the legs.  *)
Fits(p, from, leg, h) ==
    IF leg.mode = "line" THEN LineFits(p, from, leg, h) ELSE ArcFits(p, from, leg, h)
Joins(p, way) ==
    \A i \in DOMAIN way :
        LET from == From(p, way, i)
            heading == Heading(p, way, i)
        IN CASE way[i].mode = "line" -> LineFits(p, from, way[i], heading)
             [] way[i].mode = "arc" -> ArcFits(p, from, way[i], heading)
             [] OTHER -> i = 1

(* What a turn on the spot by d leaves as heading.                         *)
Steered(s, d) == IF s = 1 THEN d ELSE MirrorTurn(d)
Began(p, s, d) ==
    IF Abs(d) > Aside
    THEN IF Steered(s, d) = Aimed THEN Aimed ELSE (p.angle - Steered(s, d) + 360) % 360
    ELSE IF p.off = 0 THEN Aimed ELSE p.angle

(* Legs without a turn that join, from heading h, and end with an arc onto *)
(* the line, too long to be left out, and the way home.                    *)
Drives(p, way, h) ==
    /\ way \in Seq(PathLeg) /\ Len(way) > 0 /\ way[Len(way)] = Home
    /\ Fits(p, p, way[1], h)
    /\ \A i \in 2 .. Len(way) : Fits(p, way[i - 1], way[i], way[i - 1].angle)
    /\ Len(way) > 1 =>
         /\ way[Len(way) - 1].angle = 0
         /\ Gap2(IF Len(way) = 2 THEN p ELSE way[Len(way) - 2], way[Len(way) - 1]) > Near * Near

(* The legs before Home are enough: they bring the car near it.            *)
Homeward(p, way) ==
    /\ Len(way) \in Nat /\ Len(way) > 0 /\ DOMAIN way = 1 .. Len(way)
    /\ way = [i \in DOMAIN way |-> way[i]] /\ way[Len(way)] = Home
    /\ Len(way) > 1 =>
         \/ /\ Len(way) = 2 /\ way[1].mode = "rotate"
            /\ Gap2(p, Home) <= Near * Near =>
                 way[1].angle # Aimed /\ (p.angle - way[1].angle + 360) % 360 = 0
         \/ /\ way[Len(way) - 1].mode # "rotate"
            /\ way[Len(way) - 1].x \in Int /\ way[Len(way) - 1].y \in Int
            /\ way[Len(way) - 1].angle = 0
            /\ Gap2(From(p, way, Len(way) - 1), way[Len(way) - 1]) > Near * Near

(* Mirroring commutes with the turn in front of the legs.                  *)
LEMMA SidedTurn ==
    ASSUME NEW s \in Sides, NEW core \in Seq(PathLeg), NEW d,
           NEW c, c = Sided(s, core), NEW way, way = Sided(s, Turn(d, core))
    PROVE  /\ c \in Seq(PathLeg) /\ Len(c) = Len(core)
           /\ ~(Abs(d) > Aside) => way = c
           /\ Abs(d) > Aside =>
                /\ Len(way) = Len(c) + 1 /\ DOMAIN way = 1 .. Len(c) + 1
                /\ way[1].mode = "rotate" /\ way[1].angle = Steered(s, d)
                /\ \A i \in 1 .. Len(c) : way[i + 1] = c[i]
<1>1. DOMAIN core = 1 .. Len(core) /\ Len(core) \in Nat /\ \A i \in 1 .. Len(core) : core[i] \in PathLeg
  OBVIOUS
<1>2. \A leg \in PathLeg : Side(s, leg) \in PathLeg
  <2>1. SUFFICES ASSUME NEW leg \in PathLeg PROVE Mirror(leg) \in PathLeg
    BY DEF Side
  <2>2. PICK a \in Headings : a = leg.angle
    BY DEF PathLeg
  <2>3. MirrorAngle(a) \in Headings
    BY HeelType DEF Heel, Sides
  <2>4. leg.mode # "rotate" /\ leg.y \in Int
    BY DEF PathLeg
  <2>5. leg.mode \in {"line", "arc"} /\ leg.x \in Int /\ -leg.y \in Int
    BY DEF PathLeg
  <2>6. Mirror(leg) = [mode |-> leg.mode, x |-> leg.x, y |-> -leg.y, angle |-> MirrorAngle(a)]
    BY <2>2, <2>4 DEF Mirror
  <2>. QED
    BY <2>3, <2>5, <2>6 DEF PathLeg
<1>3. c \in [1 .. Len(core) -> PathLeg]
  BY <1>1, <1>2 DEF Sided
<1>4. c \in Seq(PathLeg) /\ Len(c) = Len(core)
  BY <1>1, <1>3
<1>5. ASSUME Abs(d) > Aside
      PROVE  /\ Len(way) = Len(c) + 1 /\ DOMAIN way = 1 .. Len(c) + 1
             /\ way[1].mode = "rotate" /\ way[1].angle = Steered(s, d)
             /\ \A i \in 1 .. Len(c) : way[i + 1] = c[i]
  <2> DEFINE turned == <<Rotate(d)>> \o core
  <2>1. turned = [i \in 1 .. Len(core) + 1 |-> IF i = 1 THEN Rotate(d) ELSE core[i - 1]]
    BY <1>1
  <2> HIDE DEF turned
  <2>2. way = [i \in 1 .. Len(core) + 1 |-> Side(s, turned[i])]
    BY <1>5, <2>1 DEF Sided, Turn, turned
  <2>3. Len(way) = Len(core) + 1
    BY <1>1, <2>2
  <2>4. way[1] = Side(s, Rotate(d))
    BY <1>1, <2>1, <2>2
  <2>5. Rotate(d).mode = "rotate" /\ Rotate(d).angle = d
    BY DEF Rotate
  <2>6. way[1].mode = "rotate" /\ way[1].angle = Steered(s, d)
    BY <2>4, <2>5 DEF Side, Mirror, Rotate, Steered
  <2>7. ASSUME NEW i \in 1 .. Len(c) PROVE way[i + 1] = c[i]
    <3>1. turned[i + 1] = core[i]
      BY <1>1, <1>4, <2>1
    <3>2. i + 1 \in 1 .. Len(core) + 1 /\ i \in DOMAIN core
      BY <1>1, <1>4
    <3>3. way[i + 1] = Side(s, turned[i + 1])
      BY <2>2, <3>2
    <3>4. c[i] = Side(s, core[i])
      BY <3>2 DEF Sided
    <3>. QED
      BY <3>1, <3>3, <3>4
  <2>. QED
    BY <1>4, <2>2, <2>3, <2>6, <2>7
<1>6. ~(Abs(d) > Aside) => way = c
  BY DEF Turn
<1>. QED
  BY <1>4, <1>5, <1>6

(* Mirrored legs are legs.                                                 *)
LEMMA SidedType ==
    ASSUME NEW s \in Sides, NEW core \in Seq(PathLeg)
    PROVE  Sided(s, core) \in Seq(PathLeg) /\ Len(Sided(s, core)) = Len(core)
<1>1. PICK d, c, way : c = Sided(s, core) /\ way = Sided(s, Turn(d, core))
  OBVIOUS
<1>. QED
  BY <1>1, SidedTurn

(* Legs that join from the heading a turn leaves also join with the turn   *)
(* in front.                                                               *)
LEMMA TurnDrives ==
    ASSUME NEW p, NEW s \in Sides, NEW core \in Seq(PathLeg), NEW d,
           Drives(p, Sided(s, core), Began(p, s, d)),
           Len(core) = 1 /\ Abs(d) > Aside /\ Gap2(p, Home) <= Near * Near =>
               Steered(s, d) # Aimed /\ Began(p, s, d) = 0
    PROVE  /\ Joins(p, Sided(s, Turn(d, core)))
           /\ Homeward(p, Sided(s, Turn(d, core)))
<1> DEFINE h == Began(p, s, d)
<1>1. PICK c : c = Sided(s, core)
  OBVIOUS
<1>2. PICK way : way = Sided(s, Turn(d, core))
  OBVIOUS
<1>3. PICK n : n = Len(c)
  BY Zenon
<1>4. /\ c \in Seq(PathLeg) /\ n \in Nat /\ n > 0 /\ DOMAIN c = 1 .. n /\ c[n] = Home
      /\ n = Len(core) /\ Fits(p, p, c[1], h)
      /\ \A i \in 2 .. n : Fits(p, c[i - 1], c[i], c[i - 1].angle)
      /\ n > 1 => /\ c[n - 1].angle = 0
                  /\ Gap2(IF n = 2 THEN p ELSE c[n - 2], c[n - 1]) > Near * Near
  <2>1. Drives(p, c, h)
    BY <1>1
  <2>2. c \in Seq(PathLeg) /\ n = Len(core)
    BY <1>1, <1>3, SidedType
  <2>3. Len(c) \in Nat /\ DOMAIN c = 1 .. Len(c)
    BY <2>2, LenProperties, Zenon
  <2>. QED
    BY <1>3, <2>1, <2>2, <2>3 DEF Drives
<1>5. \A i \in 1 .. n : c[i] \in PathLeg /\ c[i].mode # "rotate" /\ (c[i].mode = "line" \/ c[i].mode = "arc")
  <2>1. SUFFICES ASSUME NEW i \in 1 .. n
                 PROVE  c[i] \in PathLeg /\ c[i].mode # "rotate" /\ (c[i].mode = "line" \/ c[i].mode = "arc")
    OBVIOUS
  <2>2. PICK leg \in PathLeg : leg = c[i]
    BY <1>4
  <2>. QED
    BY <2>2 DEF PathLeg
<1>6. n > 1 => c[n - 1].x \in Int /\ c[n - 1].y \in Int
  <2>1. SUFFICES ASSUME n > 1 PROVE c[n - 1].x \in Int /\ c[n - 1].y \in Int
    OBVIOUS
  <2>2. PICK leg \in PathLeg : leg = c[n - 1]
    <3>1. c[n - 1] \in PathLeg
      BY <1>4, <1>5, <2>1
    <3>. QED
      BY <3>1, Zenon
  <2>. QED
    BY <2>2 DEF PathLeg
<1>7. way = [i \in DOMAIN way |-> way[i]] /\ c = [i \in DOMAIN c |-> c[i]]
  BY <1>1, <1>2 DEF Sided
<1>8. CASE ~(Abs(d) > Aside)
  <2>1. way = c
    BY <1>1, <1>2, <1>8, SidedTurn
  <2>2. h = IF p.off = 0 THEN Aimed ELSE p.angle
    BY <1>8 DEF Began
  <2>3. \A i \in 1 .. n : /\ From(p, c, i) = IF i = 1 THEN p ELSE c[i - 1]
                          /\ Heading(p, c, i) = IF i = 1 THEN h ELSE c[i - 1].angle
    BY <1>4, <1>5, <2>2 DEF From, Heading
  <2>4. Joins(p, c)
    BY <1>4, <1>5, <2>3 DEF Joins, Fits
  <2>5. Homeward(p, c)
    <3>1. n > 1 => From(p, c, n - 1) = IF n = 2 THEN p ELSE c[n - 2]
      BY <1>4, <2>3
    <3>. QED
      BY <1>3, <1>4, <1>5, <1>6, <1>7, <3>1 DEF Homeward
  <2>. QED
    BY <1>2, <2>1, <2>4, <2>5
<1>9. CASE Abs(d) > Aside
  <2>1. /\ Len(way) = n + 1 /\ DOMAIN way = 1 .. n + 1
        /\ way[1].mode = "rotate" /\ way[1].angle = Steered(s, d)
        /\ \A i \in 1 .. n : way[i + 1] = c[i]
    BY <1>1, <1>2, <1>3, <1>9, SidedTurn
  <2>2. h = IF Steered(s, d) = Aimed THEN Aimed ELSE (p.angle - Steered(s, d) + 360) % 360
    BY <1>9 DEF Began
  <2>3. ASSUME NEW i \in 1 .. n
        PROVE  /\ From(p, way, i + 1) = IF i = 1 THEN p ELSE c[i - 1]
               /\ Heading(p, way, i + 1) = IF i = 1 THEN h ELSE c[i - 1].angle
    <3>1. CASE i = 1
      <4>1. way[2 - 1].mode = "rotate" /\ way[2 - 1].angle = Steered(s, d)
        BY <2>1
      <4>. QED
        BY <2>2, <3>1, <4>1 DEF From, Heading
    <3>2. CASE i # 1
      <4>1. way[(i + 1) - 1] = c[i - 1] /\ c[i - 1].mode # "rotate" /\ i + 1 # 1
        BY <1>4, <1>5, <2>1, <3>2
      <4>. QED
        BY <3>2, <4>1 DEF From, Heading
    <3>. QED
      BY <3>1, <3>2
  <2>4. Joins(p, way)
    <3>1. SUFFICES ASSUME NEW k \in DOMAIN way
                   PROVE  CASE way[k].mode = "line" -> LineFits(p, From(p, way, k), way[k], Heading(p, way, k))
                            [] way[k].mode = "arc" -> ArcFits(p, From(p, way, k), way[k], Heading(p, way, k))
                            [] OTHER -> k = 1
      BY DEF Joins
    <3>2. CASE k = 1
      BY <2>1, <3>2
    <3>3. CASE k # 1
      <4>1. PICK i \in 1 .. n : k = i + 1
        <5>1. k - 1 \in 1 .. n
          BY <1>4, <2>1, <3>3
        <5>. QED
          BY <2>1, <5>1
      <4>2. Fits(p, From(p, way, k), way[k], Heading(p, way, k))
        <5>1. CASE i = 1
          BY <1>4, <2>1, <2>3, <4>1, <5>1
        <5>2. CASE i # 1
          BY <1>4, <2>1, <2>3, <4>1, <5>2
        <5>. QED
          BY <5>1, <5>2
      <4>. QED
        BY <1>5, <2>1, <4>1, <4>2 DEF Fits
    <3>. QED
      BY <3>2, <3>3
  <2>5. Homeward(p, way)
    <3>1. way[n + 1] = Home
      BY <1>4, <2>1
    <3>2. CASE n = 1
      <4>1. Gap2(p, Home) <= Near * Near =>
              way[1].angle # Aimed /\ (p.angle - way[1].angle + 360) % 360 = 0
        BY <1>4, <1>9, <2>1, <2>2, <3>2
      <4>. QED
        BY <1>7, <2>1, <3>1, <3>2, <4>1 DEF Homeward
    <3>3. CASE n # 1
      <4>1. PICK i \in 1 .. n : i = n - 1
        BY <1>4, <3>3
      <4>2. /\ way[n] = c[n - 1] /\ c[n - 1].mode # "rotate"
            /\ From(p, way, n) = IF n = 2 THEN p ELSE c[n - 2]
        <5>1. way[i + 1] = c[i] /\ c[i].mode # "rotate"
          BY <1>5, <2>1, <4>1
        <5>2. i + 1 = n /\ i > 0 /\ (i > 1 <=> n # 2) /\ i - 1 = n - 2
          BY <1>4, <3>3, <4>1
        <5>3. From(p, way, i + 1) = IF i > 1 THEN c[i - 1] ELSE p
          BY <2>3, <4>1
        <5>. QED
          BY <4>1, <5>1, <5>2, <5>3
      <4>3. (n + 1) - 1 = n
        BY <1>4
      <4>. QED
        BY <1>4, <1>6, <1>7, <2>1, <3>1, <3>3, <4>2, <4>3, SMTT(40) DEF Homeward
    <3>. QED
      BY <3>2, <3>3
  <2>. QED
    BY <1>2, <2>4, <2>5
<1>. QED
  BY <1>8, <1>9

(* A turn by AngleDiff leaves the car heading for t, whether it is made    *)
(* or left out as too small.                                               *)
LEMMA BeganFor ==
    ASSUME NEW p, p.angle \in Headings, NEW s \in Sides, NEW t \in Headings,
           NEW d, d = AngleDiff(Heel(s, p.angle), t), NEW h, h = Began(p, s, d)
    PROVE  /\ HeadsFor(h, Heel(s, t)) /\ (h = Aimed \/ h \in Headings)
           /\ Abs(d) > Aside => Steered(s, d) # Aimed /\ h = Heel(s, t)
<1>1. PICK e : e = Steered(s, d)
  OBVIOUS
<1>2. PICK a \in Headings : a = p.angle
  OBVIOUS
<1>3. Heel(s, t) \in Headings
  BY HeelType
<1>4. CASE Abs(d) > Aside
  <2>1. e # Aimed /\ (a - e + 360) % 360 = Heel(s, t)
    BY <1>1, <1>2, TurnedTo DEF Steered
  <2>2. h = Heel(s, t)
    BY <1>1, <1>2, <1>4, <2>1 DEF Began
  <2>. QED
    BY <1>1, <1>3, <2>1, <2>2, HeadsItself
<1>5. CASE ~(Abs(d) > Aside)
  <2>1. h = IF p.off = 0 THEN Aimed ELSE a
    BY <1>2, <1>5 DEF Began
  <2>2. HeadsFor(a, Heel(s, t))
    BY <1>2, <1>5, HeadsThere
  <2>. QED
    BY <1>3, <1>5, <2>1, <2>2, HeadsItself
<1>. QED
  BY <1>4, <1>5

(* A turn by an angle that is not computed leaves it Aimed.                *)
LEMMA BeganAimed ==
    ASSUME NEW p, NEW s \in Sides, p.off \in {0, Aimed}
    PROVE  Began(p, s, p.off) = Aimed
<1>1. CASE p.off = 0
  BY <1>1 DEF Began, Abs, Aside
<1>2. CASE p.off = Aimed
  <2>1. Steered(s, p.off) = Aimed
    BY <1>2 DEF Steered, MirrorTurn
  <2>2. Abs(p.off) > Aside
    BY <1>2 DEF Abs, Aside, Aimed
  <2>. QED
    BY <2>1, <2>2 DEF Began
<1>. QED
  BY <1>1, <1>2

(* q is the pose p as the left half of the code is given it (:1844): p     *)
(* itself, or its mirror image when the car is on the right.               *)
Facing(p, s, q) ==
    /\ p.x \in Int /\ p.y \in Int /\ p.angle \in Headings /\ p.off \in {0, Aimed}
    /\ q.forward = p.forward /\ q.x = p.x /\ q.off = p.off /\ q.angle = Heel(s, p.angle)
    /\ q.y \in Int /\ q.y >= 0 /\ p.y = IF s = 1 THEN q.y ELSE -q.y

(* Mirroring leaves the way to the target as it is.                        *)
LEMMA SameWay ==
    ASSUME NEW p, NEW s, NEW q, Facing(p, s, q)
    PROVE  Way(q) = Way(p) /\ Down(q) = Down(p) /\ Down(p) \in Headings /\ 0 \in Headings
BY DEF Facing, Way, Down, Headings

(* Across the line as the car is. *)
Beside(s, y) == IF s = 1 THEN y ELSE -y

(* On the line, both sides are the same.                                   *)
LEMMA OnTheLine ==
    ASSUME NEW s, NEW y \in Int, y >= 0, y <= 0
    PROVE  Beside(s, y) = y
BY DEF Beside

(* The mirror images of a line and of an arc.                              *)
LEMMA SidedLegs ==
    ASSUME NEW s \in Sides, NEW x \in Int, NEW y \in Int, NEW angle \in Headings
    PROVE  /\ Line(x, y, angle) \in PathLeg /\ Arc(x, y, angle) \in PathLeg
           /\ Side(s, Line(x, y, angle)) = Line(x, Beside(s, y), Heel(s, angle))
           /\ Side(s, Arc(x, y, angle)) = Arc(x, Beside(s, y), Heel(s, angle))
<1>1. Line(x, y, angle) \in PathLeg /\ Arc(x, y, angle) \in PathLeg
  BY DEF Line, Arc, PathLeg
<1>2. Mirror(Line(x, y, angle)) = Line(x, -y, MirrorAngle(angle))
  BY DEF Mirror, Line
<1>3. Mirror(Arc(x, y, angle)) = Arc(x, -y, MirrorAngle(angle))
  BY DEF Mirror, Arc
<1>. QED
  BY <1>1, <1>2, <1>3 DEF Side, Beside, Heel

(* The target is its own mirror image.                                     *)
LEMMA SidedHome == \A s \in Sides : Home \in PathLeg /\ Side(s, Home) = Home
<1> SUFFICES ASSUME NEW s \in Sides PROVE Home \in PathLeg /\ Side(s, Home) = Home
  OBVIOUS
<1>1. PICK x \in Int, y \in Int, a \in Headings : x = 0 /\ y = 0 /\ a = 0
  BY DEF Headings
<1>2. Beside(s, y) = y /\ Heel(s, a) = a
  <2>1. y >= 0 /\ y <= 0
    BY <1>1
  <2>2. Beside(s, y) = y
    BY <2>1, OnTheLine
  <2>. QED
    BY <1>1, <2>2 DEF Heel, MirrorAngle
<1>. QED
  BY <1>1, <1>2, SidedLegs DEF Home

(* What Drivable and Arrives need of the legs of one target.               *)
Follows(p, way) == Joins(p, way) /\ Homeward(p, way)

(* The legs of a case follow once they join without the turn:              *)
(* SplitToSubTarget has refused those that overshoot the target, so none   *)
(* does.                                                                   *)
LEMMA TurnFollows ==
    ASSUME NEW p, NEW s \in Sides, NEW core \in Seq(PathLeg), NEW d,
           ~Overshoots(p, Sided(s, Turn(d, core))),
           (\A i \in 1 .. Len(core) : Way(p) * Sided(s, core)[i].x <= 0) =>
               Drives(p, Sided(s, core), Began(p, s, d)),
           Len(core) = 1 /\ Abs(d) > Aside /\ Gap2(p, Home) <= Near * Near =>
               Steered(s, d) # Aimed /\ Began(p, s, d) = 0
    PROVE  Follows(p, Sided(s, Turn(d, core)))
<1>1. PICK c : c = Sided(s, core)
  OBVIOUS
<1>2. PICK way : way = Sided(s, Turn(d, core))
  OBVIOUS
<1>3. /\ c \in Seq(PathLeg) /\ Len(c) = Len(core)
      /\ ~(Abs(d) > Aside) => way = c
      /\ Abs(d) > Aside => /\ Len(way) = Len(c) + 1 /\ DOMAIN way = 1 .. Len(c) + 1
                           /\ \A i \in 1 .. Len(c) : way[i + 1] = c[i]
  BY <1>1, <1>2, SidedTurn
<1>4. ASSUME NEW i \in 1 .. Len(c) PROVE Way(p) * c[i].x <= 0
  <2>1. PICK w \in Int : w = Way(p)
    BY WayType
  <2>2. c[i].x \in Int
    <3>1. c[i] \in PathLeg
      BY <1>3
    <3>. QED
      BY <3>1 DEF PathLeg
  <2>3. ~(w * c[i].x > 0)
    <3>1. CASE Abs(d) > Aside
      <4>1. i + 1 \in DOMAIN way /\ way[i + 1] = c[i]
        BY <1>3, <3>1
      <4>. QED
        BY <1>2, <2>1, <4>1 DEF Overshoots
    <3>2. CASE ~(Abs(d) > Aside)
      <4>1. i \in DOMAIN way /\ way[i] = c[i]
        BY <1>3, <3>2
      <4>. QED
        BY <1>2, <2>1, <4>1 DEF Overshoots
    <3>. QED
      BY <3>1, <3>2
  <2>. QED
    BY <2>1, <2>2, <2>3
<1>5. Drives(p, Sided(s, core), Began(p, s, d))
  BY <1>1, <1>3, <1>4
<1>. QED
  BY <1>5, TurnDrives DEF Follows

(* FollowLine: a car on the line or almost (:1846).                        *)
LEMMA FollowLineFollows ==
    ASSUME NEW p, NEW s \in Sides, NEW q, Facing(p, s, q), q.y <= Near, ~Passed(p),
           ~Overshoots(p, Sided(s, FollowLine(q)))
    PROVE  Follows(p, Sided(s, FollowLine(q)))
<1> DEFINE d == IF Abs(q.x) < 30 \/ q.y = 0 THEN AngleDiff(q.angle, 0) ELSE q.off
           core == <<Home>>
           h == Began(p, s, d)
           z == 0
<1>1. z \in Headings /\ Heel(s, z) = z
  BY DEF Headings, Heel, MirrorAngle
<1>2. /\ Abs(q.x) < 30 \/ q.y = 0 =>
           HeadsFor(h, z) /\ (Abs(d) > Aside => Steered(s, d) # Aimed /\ h = z)
      /\ ~(Abs(q.x) < 30 \/ q.y = 0) => h = Aimed
  <2>1. CASE Abs(q.x) < 30 \/ q.y = 0
    <3>1. d = AngleDiff(Heel(s, p.angle), z) /\ p.angle \in Headings
      BY <2>1 DEF Facing
    <3>2. PICK e : e = d
      OBVIOUS
    <3>. QED
      BY <1>1, <2>1, <3>1, <3>2, BeganFor
  <2>2. CASE ~(Abs(q.x) < 30 \/ q.y = 0)
    <3>1. d = p.off /\ p.off \in {0, Aimed}
      BY <2>2 DEF Facing
    <3>. QED
      BY <2>2, <3>1, BeganAimed
  <2>. QED
    BY <2>1, <2>2
<1>3. HeadsFor(h, z)
  BY <1>2 DEF HeadsFor
<1>4. core \in Seq(PathLeg) /\ Len(core) = 1 /\ core[1] = Home /\ DOMAIN core = {1}
  BY SidedHome
<1>10. FollowLine(q) = Turn(d, core)
  BY DEF FollowLine
<1> HIDE DEF core
<1>5. PICK c : c = Sided(s, core)
  OBVIOUS
<1>6. c \in Seq(PathLeg) /\ Len(c) = 1 /\ c[1] = Home
  <2>1. c[1] = Home
    BY <1>4, <1>5, SidedHome DEF Sided
  <2>. QED
    BY <1>4, <1>5, <2>1, SidedType
<1>7. LineFits(p, p, Home, h)
  <2>1. /\ p.x \in Int /\ p.y \in Int /\ -Near <= p.y /\ p.y <= Near
    BY DEF Facing, Near
  <2>2. Way(p) * p.x <= 0
    BY <2>1, WayType DEF Passed
  <2>3. Home.angle = z
    BY DEF Home, Line
  <2>4. PICK g : g = h
    BY Zenon
  <2>. QED
    BY <1>3, <2>1, <2>2, <2>3, <2>4, HomeFits
<1>8. Drives(p, c, h)
  <2>1. Home.mode = "line"
    BY DEF Home, Line
  <2>. QED
    BY <1>6, <1>7, <2>1 DEF Drives, Fits
<1>9. Abs(d) > Aside /\ Gap2(p, Home) <= Near * Near => Steered(s, d) # Aimed /\ h = 0
  <2>1. SUFFICES ASSUME Abs(d) > Aside, Gap2(p, Home) <= Near * Near PROVE Abs(q.x) < 30
    BY <1>2
  <2>2. Home.x = 0 /\ Home.y = 0
    BY DEF Home, Line
  <2>3. PICK x \in Int, y \in Int : x = p.x /\ y = p.y /\ q.x = x
    BY DEF Facing
  <2>4. x * x + y * y <= 400
    BY <2>1, <2>2, <2>3 DEF Gap2, Near
  <2>5. 0 <= y * y /\ x * x <= 400
    BY <2>3, <2>4
  <2>6. x < 30 /\ x > -30
    BY <2>3, <2>5
  <2>. QED
    BY <2>3, <2>6 DEF Abs
<1> HIDE DEF d, h
<1>11. ~Overshoots(p, Sided(s, Turn(d, core)))
  BY <1>10
<1>12. Drives(p, Sided(s, core), Began(p, s, d))
  BY <1>5, <1>8 DEF h
<1>13. Len(core) = 1 /\ Abs(d) > Aside /\ Gap2(p, Home) <= Near * Near =>
          Steered(s, d) # Aimed /\ Began(p, s, d) = 0
  BY <1>9 DEF h
<1>14. Follows(p, Sided(s, Turn(d, core)))
  BY <1>4, <1>11, <1>12, <1>13, TurnFollows, Zenon
<1>. QED
  BY <1>10, <1>14

(* OneArc: a car less than a radius from the line.                         *)
LEMMA OneArcFollows ==
    ASSUME NEW p, NEW s \in Sides, NEW q, Facing(p, s, q), RadiusInRange,
           q.y > Near, q.y <= radius, ~Overshoots(p, Sided(s, OneArc(q, radius)))
    PROVE  Follows(p, Sided(s, OneArc(q, radius)))
<1>1. PICK x \in Int, y \in Int, r \in Int :
         /\ x = p.x /\ y = q.y /\ 20 < y /\ y <= r /\ r = radius /\ 100 <= r /\ r <= 400
         /\ p.x \in Int /\ p.y = IF s = 1 THEN y ELSE -y
  BY DEF Facing, RadiusInRange, MinRadius, MaxRadius, Near
<1>2. PICK b \in Int : b = Root(r * r - (r - y) * (r - y))
  <2>1. PICK e \in Int : e = r - y /\ 0 <= e /\ e <= r
    BY <1>1
  <2>2. PICK k : k = r * r - e * e
    OBVIOUS
  <2>3. Root(k) \in Int
    BY <1>1, <2>1, <2>2, Chord DEF MinRadius, MaxRadius
  <2>. QED
    BY <2>1, <2>2, <2>3
<1>3. PICK w \in Int : w = Way(p) /\ w = Way(q) /\ (w = 1 \/ w = -1)
  BY SameWay, WayType
<1>4. PICK z \in Headings : z = 0 /\ Heel(s, z) = z
  BY DEF Headings, Heel, MirrorAngle
<1>5. PICK m \in Int, n \in Int : m = x + w * b /\ n = 0 /\ n >= 0 /\ n <= 0
  BY <1>1
<1> DEFINE core == <<Arc(m, n, z), Home>>
           d == p.off
<1>6. OneArc(q, radius) = Turn(d, core)
  BY <1>1, <1>2, <1>3, <1>4, <1>5 DEF OneArc, Facing
<1>7. core \in Seq(PathLeg) /\ Len(core) = 2 /\ core[1] = Arc(m, n, z) /\ core[2] = Home
  BY SidedHome, SidedLegs
<1> HIDE DEF core
<1>8. PICK c : c = Sided(s, core)
  OBVIOUS
<1>9. c \in Seq(PathLeg) /\ Len(c) = 2 /\ c[1] = Arc(m, n, z) /\ c[2] = Home
  <2>1. Beside(s, n) = n
    BY <1>5, OnTheLine
  <2>2. Side(s, core[1]) = Arc(m, n, z) /\ Side(s, core[2]) = Home
    BY <1>4, <1>7, <2>1, SidedHome, SidedLegs
  <2>3. DOMAIN core = 1 .. 2
    BY <1>7
  <2>4. c \in Seq(PathLeg) /\ Len(c) = 2
    BY <1>7, <1>8, SidedType
  <2>. QED
    BY <1>8, <2>2, <2>3, <2>4 DEF Sided
<1>10. Began(p, s, d) = Aimed
  BY BeganAimed DEF Facing
<1>11. PICK leg : leg = c[1] /\ leg.mode = "arc" /\ leg.x = m /\ leg.y = 0 /\ leg.angle = 0
  BY <1>4, <1>5, <1>9 DEF Arc
<1>12. ArcFits(p, p, leg, Aimed)
  <2>1. leg.x = p.x + Way(p) * Root(radius * radius - (radius - y) * (radius - y))
    BY <1>1, <1>2, <1>3, <1>5, <1>11
  <2>2. 0 < y /\ y <= radius /\ p.y = IF s = 1 THEN y ELSE -y
    BY <1>1
  <2>. QED
    BY <1>1, <1>11, <2>1, <2>2, OneArcFits
<1>13. Gap2(p, leg) > Near * Near
  <2>1. (p.y - leg.y) * (p.y - leg.y) = y * y
    BY <1>1, <1>11
  <2>2. (p.x - leg.x) * (p.x - leg.x) >= 0 /\ (p.x - leg.x) * (p.x - leg.x) \in Int
    BY <1>1, <1>5, <1>11
  <2>3. y * y > 400
    BY <1>1
  <2>. QED
    BY <1>1, <2>1, <2>2, <2>3 DEF Gap2, Near
<1>14. ASSUME Way(p) * leg.x <= 0 PROVE LineFits(p, leg, Home, leg.angle)
  <2>1. HeadsFor(leg.angle, Home.angle)
    BY <1>4, <1>11, HeadsItself DEF Home, Line
  <2>. QED
    BY <1>11, <1>14, <2>1, HomeFits DEF Near
<1>15. ASSUME \A i \in 1 .. Len(core) : Way(p) * c[i].x <= 0
       PROVE  Drives(p, c, Aimed)
  <2>1. LineFits(p, leg, Home, leg.angle)
    BY <1>7, <1>11, <1>14, <1>15
  <2>2. Home.mode = "line"
    BY DEF Home, Line
  <2>3. Fits(p, p, c[1], Aimed) /\ Fits(p, c[1], c[2], c[1].angle)
    BY <1>9, <1>11, <1>12, <2>1, <2>2 DEF Fits
  <2>4. \A i \in 2 .. Len(c) : i = 2
    BY <1>9
  <2>. QED
    BY <1>9, <1>11, <1>13, <2>3, <2>4 DEF Drives
<1>. QED
  <2>1. ~Overshoots(p, Sided(s, Turn(d, core)))
    BY <1>6
  <2>2. (\A i \in 1 .. Len(core) : Way(p) * Sided(s, core)[i].x <= 0) =>
            Drives(p, Sided(s, core), Began(p, s, d))
    BY <1>8, <1>10, <1>15
  <2>3. ~(Len(core) = 1)
    BY <1>7
  <2>4. Follows(p, Sided(s, Turn(d, core)))
    BY <1>7, <2>1, <2>2, <2>3, TurnFollows
  <2>. QED
    BY <1>6, <2>4

(* The mirror image of a leg, field by field.                              *)
LEMMA SideLeg ==
    ASSUME NEW s \in Sides, NEW leg \in PathLeg
    PROVE  /\ Side(s, leg) \in PathLeg /\ leg.x \in Int /\ leg.y \in Int
           /\ Side(s, leg).x = leg.x /\ Side(s, leg).mode = leg.mode
           /\ Side(s, leg).y = Beside(s, leg.y)
           /\ Side(s, leg).angle = Heel(s, leg.angle)
<1>1. PICK x \in Int, y \in Int, a \in Headings : x = leg.x /\ y = leg.y /\ a = leg.angle
  BY DEF PathLeg
<1>2. leg.mode \in {"line", "arc"} /\ leg.mode # "rotate"
  BY DEF PathLeg
<1>3. MirrorAngle(a) \in Headings /\ -y \in Int
  BY HeelType DEF Heel, Sides
<1>4. Mirror(leg) = [mode |-> leg.mode, x |-> x, y |-> -y, angle |-> MirrorAngle(a)]
  BY <1>1, <1>2 DEF Mirror
<1>5. Mirror(leg) \in PathLeg
  BY <1>2, <1>3, <1>4 DEF PathLeg
<1>. QED
  BY <1>1, <1>4, <1>5 DEF Side, Beside, Heel

(* The end of most cases: the quarter onto the line, and the way home.     *)
LEMMA QuarterHome ==
    ASSUME NEW p, NEW s \in Sides, RadiusInRange, NEW from,
           from.x \in Int, from.y = Beside(s, radius), from.angle = Heel(s, Down(p)),
           NEW leg, leg = Arc(from.x + Way(p) * radius, 0, 0)
    PROVE  /\ leg \in PathLeg /\ Side(s, leg) = leg /\ leg.mode = "arc" /\ leg.angle = 0
           /\ Fits(p, from, leg, from.angle)
           /\ Gap2(from, leg) > Near * Near
           /\ Way(p) * leg.x <= 0 => Fits(p, leg, Home, leg.angle)
<1>1. PICK w \in Int, r \in Int :
         w = Way(p) /\ (w = 1 \/ w = -1) /\ r = radius /\ 100 <= r
  BY WayType DEF RadiusInRange, MinRadius
<1>2. PICK m \in Int, n \in Int, z \in Headings :
         m = from.x + w * r /\ n = 0 /\ n >= 0 /\ n <= 0 /\ z = 0 /\ Heel(s, z) = z
  BY <1>1 DEF Headings, Heel, MirrorAngle
<1>3. leg = Arc(m, n, z) /\ leg.mode = "arc" /\ leg.x = m /\ leg.y = 0 /\ leg.angle = z
  BY <1>1, <1>2 DEF Arc
<1>4. leg \in PathLeg /\ Side(s, leg) = leg
  BY <1>2, <1>3, SidedLegs, OnTheLine
<1>5. Fits(p, from, leg, from.angle)
  <2>1. from.y = IF s = 1 THEN radius ELSE -radius
    BY DEF Beside
  <2>2. leg.x = from.x + Way(p) * radius /\ leg.angle = 0
    BY <1>1, <1>2, <1>3
  <2>3. PICK h : h = Heel(s, Down(p)) /\ h = from.angle
    OBVIOUS
  <2>4. ArcFits(p, from, leg, h)
    BY <1>3, <2>1, <2>2, <2>3, QuarterFits
  <2>. QED
    BY <1>3, <2>3, <2>4 DEF Fits
<1>6. Gap2(from, leg) > Near * Near
  <2>1. (from.x - leg.x) * (from.x - leg.x) = r * r
    BY <1>1, <1>2, <1>3
  <2>2. from.y \in Int /\ (from.y - leg.y) * (from.y - leg.y) \in Int
        /\ (from.y - leg.y) * (from.y - leg.y) >= 0
    BY <1>1, <1>3 DEF Beside
  <2>3. r * r > 400
    BY <1>1
  <2>. QED
    BY <1>1, <2>1, <2>2, <2>3 DEF Gap2, Near
<1>7. ASSUME Way(p) * leg.x <= 0 PROVE Fits(p, leg, Home, leg.angle)
  <2>1. HeadsFor(leg.angle, Home.angle) /\ Home.mode = "line"
    BY <1>2, <1>3, HeadsItself DEF Home, Line
  <2>2. LineFits(p, leg, Home, leg.angle)
    BY <1>2, <1>3, <1>7, <2>1, HomeFits DEF Near
  <2>. QED
    BY <2>1, <2>2 DEF Fits
<1>. QED
  BY <1>2, <1>3, <1>4, <1>5, <1>6, <1>7

(* A leg down to one radius from the line, the quarter, the way home.      *)
LEMMA ThreeLegs ==
    ASSUME NEW p, NEW s \in Sides, RadiusInRange, NEW d,
           NEW leg \in PathLeg, leg.y = radius, leg.angle = Down(p),
           Fits(p, p, Side(s, leg), Began(p, s, d)),
           NEW core \in Seq(PathLeg), Len(core) = 3, core[1] = leg,
           core[2] = Arc(leg.x + Way(p) * radius, 0, 0), core[3] = Home,
           ~Overshoots(p, Sided(s, Turn(d, core)))
    PROVE  Follows(p, Sided(s, Turn(d, core)))
<1>1. PICK from \in PathLeg :
         /\ from = Side(s, leg)
         /\ from.x = leg.x /\ from.x \in Int /\ from.y = Beside(s, radius)
         /\ from.angle = Heel(s, Down(p))
  BY SideLeg
<1>2. PICK last : last = Arc(from.x + Way(p) * radius, 0, 0)
  OBVIOUS
<1>3. /\ last \in PathLeg /\ Side(s, last) = last /\ last.mode = "arc" /\ last.angle = 0
      /\ Fits(p, from, last, from.angle)
      /\ Gap2(from, last) > Near * Near
      /\ Way(p) * last.x <= 0 => Fits(p, last, Home, last.angle)
  BY <1>1, <1>2, QuarterHome
<1>4. core[2] = last /\ DOMAIN core = 1 .. 3
  BY <1>1, <1>2
<1>5. PICK c : c = Sided(s, core)
  OBVIOUS
<1>6. c \in Seq(PathLeg) /\ Len(c) = 3
  BY <1>4, <1>5, SidedType
<1>7. c[1] = from /\ c[2] = last /\ c[3] = Home
  BY <1>1, <1>3, <1>4, <1>5, SidedHome DEF Sided
<1>8. ASSUME \A i \in 1 .. Len(core) : Way(p) * c[i].x <= 0
      PROVE  Drives(p, c, Began(p, s, d))
  <2>1. Fits(p, last, Home, last.angle)
    BY <1>3, <1>4, <1>7, <1>8
  <2>2. \A i \in 2 .. Len(c) : i = 2 \/ i = 3
    BY <1>6
  <2>3. \A i \in 2 .. Len(c) : Fits(p, c[i - 1], c[i], c[i - 1].angle)
    BY <1>3, <1>7, <2>1, <2>2
  <2>. QED
    BY <1>1, <1>3, <1>6, <1>7, <2>3 DEF Drives
<1>9. (\A i \in 1 .. Len(core) : Way(p) * Sided(s, core)[i].x <= 0) =>
          Drives(p, Sided(s, core), Began(p, s, d))
  BY <1>5, <1>8
<1>10. Len(core) # 1
  OBVIOUS
<1>. QED
  BY <1>9, <1>10, TurnFollows, Zenon

(* A leg down to more than one radius from the line, a line to one         *)
(* radius, the quarter, the way home.                                      *)
LEMMA FourLegs ==
    ASSUME NEW p, NEW s \in Sides, RadiusInRange, NEW d,
           NEW leg \in PathLeg, leg.y >= radius, leg.angle = Down(p),
           Fits(p, p, Side(s, leg), Began(p, s, d)),
           NEW core \in Seq(PathLeg), Len(core) = 4, core[1] = leg,
           core[2] = Line(leg.x, radius, Down(p)),
           core[3] = Arc(leg.x + Way(p) * radius, 0, 0), core[4] = Home,
           ~Overshoots(p, Sided(s, Turn(d, core)))
    PROVE  Follows(p, Sided(s, Turn(d, core)))
<1>1. PICK first \in PathLeg :
         /\ first = Side(s, leg)
         /\ first.x = leg.x /\ first.x \in Int /\ first.y = Beside(s, leg.y) /\ leg.y \in Int
         /\ first.angle = Heel(s, Down(p))
  BY SideLeg
<1>2. PICK r \in Int : r = radius
  BY DEF RadiusInRange
<1>3. PICK from \in PathLeg, line \in PathLeg :
         /\ line = Line(leg.x, radius, Down(p)) /\ from = Side(s, line) /\ from.mode = "line"
         /\ from.x = leg.x /\ from.x \in Int /\ from.y = Beside(s, radius)
         /\ from.angle = Heel(s, Down(p))
  <2>1. PICK t \in Headings : t = Down(p)
    BY DEF Down, Headings
  <2>2. PICK x \in Int : x = leg.x
    BY <1>1
  <2>3. PICK line \in PathLeg : line = Line(x, r, t)
    <3>1. Line(x, r, t) \in PathLeg
      BY SidedLegs
    <3>. QED
      BY <3>1, Zenon
  <2>4. Side(s, line) \in PathLeg /\ Side(s, line) = Line(x, Beside(s, r), Heel(s, t))
    BY <2>3, SidedLegs, SideLeg
  <2>. QED
    BY <1>2, <2>1, <2>2, <2>3, <2>4 DEF Line
<1>4. Fits(p, first, from, first.angle)
  <2>1. IF s = 1 THEN from.y <= first.y ELSE from.y >= first.y
    BY <1>1, <1>2, <1>3 DEF Beside
  <2>2. PICK a \in Headings : a = Heel(s, Down(p))
    BY DownSine
  <2>3. HeadsFor(first.angle, from.angle)
    BY <1>1, <1>3, <2>2, HeadsItself
  <2>4. from.y \in Int /\ first.y \in Int
    BY <1>1, <1>2, <1>3 DEF Beside
  <2>5. LineFits(p, first, from, first.angle)
    BY <1>1, <1>3, <2>1, <2>3, <2>4, DownLineFits
  <2>. QED
    BY <1>3, <2>5 DEF Fits
<1>5. PICK last : last = Arc(from.x + Way(p) * radius, 0, 0)
  OBVIOUS
<1>6. /\ last \in PathLeg /\ Side(s, last) = last /\ last.mode = "arc" /\ last.angle = 0
      /\ Fits(p, from, last, from.angle)
      /\ Gap2(from, last) > Near * Near
      /\ Way(p) * last.x <= 0 => Fits(p, last, Home, last.angle)
  BY <1>3, <1>5, QuarterHome
<1>7. core[2] = line /\ core[3] = last /\ DOMAIN core = 1 .. 4
  BY <1>3, <1>5
<1>8. PICK c : c = Sided(s, core)
  OBVIOUS
<1>9. c \in Seq(PathLeg) /\ Len(c) = 4
  BY <1>7, <1>8, SidedType
<1>10. c[1] = first /\ c[2] = from /\ c[3] = last /\ c[4] = Home
  BY <1>1, <1>3, <1>6, <1>7, <1>8, SidedHome DEF Sided
<1>11. ASSUME \A i \in 1 .. Len(core) : Way(p) * c[i].x <= 0
       PROVE  Drives(p, c, Began(p, s, d))
  <2>1. Fits(p, last, Home, last.angle)
    BY <1>6, <1>7, <1>10, <1>11
  <2>2. \A i \in 2 .. Len(c) : i = 2 \/ i = 3 \/ i = 4
    BY <1>9
  <2>3. \A i \in 2 .. Len(c) : Fits(p, c[i - 1], c[i], c[i - 1].angle)
    BY <1>4, <1>6, <1>10, <2>1, <2>2
  <2>. QED
    BY <1>1, <1>6, <1>9, <1>10, <2>3 DEF Drives
<1>12. (\A i \in 1 .. Len(core) : Way(p) * Sided(s, core)[i].x <= 0) =>
          Drives(p, Sided(s, core), Began(p, s, d))
  BY <1>8, <1>11
<1>13. Len(core) # 1
  OBVIOUS
<1>. QED
  BY <1>12, <1>13, TurnFollows, Zenon

(* The quarter is a leg.                                                   *)
LEMMA SomeArc ==
    ASSUME NEW p, RadiusInRange, NEW x \in Int
    PROVE  \E arc \in PathLeg : arc = Arc(x + Way(p) * radius, 0, 0)
<1>1. PICK w \in Int, r \in Int, z \in Headings, m \in Int, n \in Int :
         w = Way(p) /\ r = radius /\ z = 0 /\ n = 0 /\ m = x + w * r
  BY WayType DEF RadiusInRange, Headings
<1>2. Arc(m, n, z) \in PathLeg
  BY DEF Arc, PathLeg
<1>3. Arc(x + Way(p) * radius, 0, 0) = Arc(m, n, z)
  BY <1>1
<1>. QED
  BY <1>2, <1>3, Zenon

(* LineArc: a car with its back to the line, or across.                    *)
LEMMA LineArcFollows ==
    ASSUME NEW p, NEW s \in Sides, NEW q, Facing(p, s, q), RadiusInRange,
           q.y > radius, ~Overshoots(p, Sided(s, LineArc(q, radius)))
    PROVE  Follows(p, Sided(s, LineArc(q, radius)))
<1>1. PICK x \in Int, y \in Int, r \in Int, t \in Headings :
         /\ x = p.x /\ x = q.x /\ y = q.y /\ r = radius /\ r < y /\ t = Down(p)
         /\ p.x \in Int /\ p.y \in Int /\ p.y = Beside(s, y)
  BY SameWay DEF Facing, RadiusInRange, Beside
<1>2. PICK leg \in PathLeg : leg = Line(x, r, t)
  <2>1. Line(x, r, t) \in PathLeg
    BY SidedLegs
  <2>. QED
    BY <2>1, Zenon
<1>3. leg.x = x /\ leg.y = r /\ leg.angle = Down(p) /\ leg.mode = "line"
  BY <1>1, <1>2 DEF Line
<1>4. PICK from \in PathLeg :
         /\ from = Side(s, leg) /\ from.mode = "line" /\ from.x = p.x /\ from.y = Beside(s, r)
         /\ from.y \in Int /\ from.angle = Heel(s, Down(p))
  BY <1>1, <1>3, SideLeg DEF Beside
<1>5. PICK d : d = AngleDiff(Heel(s, p.angle), Down(p))
  OBVIOUS
<1>6. HeadsFor(Began(p, s, d), from.angle)
  <2>1. PICK h : h = Began(p, s, d)
    OBVIOUS
  <2>2. p.angle \in Headings
    BY DEF Facing
  <2>3. HeadsFor(h, Heel(s, t))
    BY <1>1, <1>5, <2>1, <2>2, BeganFor
  <2>. QED
    BY <1>1, <1>4, <2>1, <2>3
<1>7. Fits(p, p, from, Began(p, s, d))
  <2>1. IF s = 1 THEN from.y <= p.y ELSE from.y >= p.y
    BY <1>1, <1>4 DEF Beside
  <2>2. PICK h : h = Began(p, s, d)
    OBVIOUS
  <2>3. HeadsFor(h, from.angle)
    BY <1>6, <2>2
  <2>4. LineFits(p, p, from, h)
    BY <1>1, <1>4, <2>1, <2>3, DownLineFits, Zenon
  <2>. QED
    BY <1>4, <2>2, <2>4 DEF Fits
<1>8. PICK w \in Int : w = Way(p) /\ w = Way(q)
  BY SameWay, WayType
<1>9. PICK arc \in PathLeg : arc = Arc(leg.x + Way(p) * radius, 0, 0)
  BY <1>1, <1>4, <1>3, SomeArc
<1> DEFINE core == <<leg, arc, Home>>
<1>10. core \in Seq(PathLeg) /\ Len(core) = 3 /\ core[1] = leg /\ core[2] = arc /\ core[3] = Home
  BY SidedHome
<1>11. LineArc(q, radius) = Turn(d, core)
  <2>1. Down(q) = Down(p) /\ q.angle = Heel(s, p.angle)
    BY SameWay DEF Facing
  <2>2. q.x + Way(q) * radius = leg.x + Way(p) * radius
    BY <1>1, <1>3, <1>8
  <2>3. LineArc(q, radius) =
          Turn(d, <<Line(x, r, t), Arc(leg.x + Way(p) * radius, 0, 0), Home>>)
    BY <1>1, <1>5, <2>1, <2>2 DEF LineArc
  <2>. QED
    BY <1>2, <1>9, <2>3
<1> HIDE DEF core
<1>. QED
  BY <1>1, <1>3, <1>4, <1>7, <1>9, <1>10, <1>11, ThreeLegs

(* TwoArcs: a car between one radius and two from the line.                *)
LEMMA TwoArcsFollows ==
    ASSUME NEW p, NEW s \in Sides, NEW q, Facing(p, s, q), RadiusInRange,
           q.y > radius, q.y <= 2 * radius, ~Overshoots(p, Sided(s, TwoArcs(q, radius)))
    PROVE  Follows(p, Sided(s, TwoArcs(q, radius)))
<1>1. PICK x \in Int, y \in Int, r \in Int, t \in Headings :
         /\ x = p.x /\ x = q.x /\ y = q.y /\ r = radius /\ r < y /\ y <= 2 * r /\ t = Down(p)
         /\ 100 <= r /\ r <= 400
         /\ p.x \in Int /\ p.y \in Int /\ p.y = Beside(s, y)
  BY SameWay DEF Facing, RadiusInRange, Beside, MinRadius, MaxRadius
<1>2. PICK b \in Int : b = r - Root(r * r - (y - r) * (y - r))
  <2>1. PICK e \in Int : e = y - r /\ 0 <= e /\ e <= r
    BY <1>1
  <2>2. PICK k : k = r * r - e * e
    OBVIOUS
  <2>3. Root(k) \in Int
    BY <1>1, <2>1, <2>2, Chord DEF MinRadius, MaxRadius
  <2>. QED
    BY <2>1, <2>2, <2>3
<1>3. PICK w \in Int : w = Way(p) /\ w = Way(q)
  BY SameWay, WayType
<1>4. PICK m \in Int : m = x + w * b
  BY <1>1
<1>5. PICK leg \in PathLeg : leg = Arc(m, r, t)
  <2>1. Arc(m, r, t) \in PathLeg
    BY SidedLegs
  <2>. QED
    BY <2>1, Zenon
<1>6. leg.x = m /\ leg.y = r /\ leg.angle = Down(p) /\ leg.mode = "arc"
  BY <1>1, <1>5 DEF Arc
<1>7. PICK from \in PathLeg :
         /\ from = Side(s, leg) /\ from.mode = "arc" /\ from.x = m /\ from.y = Beside(s, r)
         /\ from.angle = Heel(s, Down(p))
  BY <1>1, <1>6, SideLeg
<1>8. ArcFits(p, p, from, Aimed)
  <2>1. from.y = IF s = 1 THEN radius ELSE -radius
    BY <1>1, <1>7 DEF Beside
  <2>2. from.x = p.x + Way(p) * (radius - Root(radius * radius - (y - radius) * (y - radius)))
    BY <1>1, <1>2, <1>3, <1>4, <1>7
  <2>3. radius <= y /\ y <= 2 * radius /\ p.y = IF s = 1 THEN y ELSE -y
    BY <1>1 DEF Beside
  <2>. QED
    BY <1>1, <1>7, <2>1, <2>2, <2>3, TwoArcsFits, Zenon
<1>9. PICK d : d = p.off /\ d = q.off
  BY DEF Facing
<1>10. Fits(p, p, from, Began(p, s, d))
  <2>1. Began(p, s, d) = Aimed
    BY <1>9, BeganAimed DEF Facing
  <2>. QED
    BY <1>7, <1>8, <2>1 DEF Fits
<1>11. PICK arc \in PathLeg : arc = Arc(leg.x + Way(p) * radius, 0, 0)
  BY <1>1, <1>6, SomeArc
<1> DEFINE core == <<leg, arc, Home>>
<1>12. core \in Seq(PathLeg) /\ Len(core) = 3 /\ core[1] = leg /\ core[2] = arc /\ core[3] = Home
  BY SidedHome
<1>13. TwoArcs(q, radius) = Turn(d, core)
  <2>1. radius - Root(radius * radius - (q.y - radius) * (q.y - radius)) = b
    BY <1>1, <1>2
  <2>2. q.x + Way(q) * (b + radius) = leg.x + Way(p) * radius
    BY <1>1, <1>3, <1>4, <1>6
  <2>. QED
    BY <1>1, <1>3, <1>4, <1>5, <1>9, <1>11, <2>1, <2>2, SameWay DEF TwoArcs
<1> HIDE DEF core
<1>. QED
  BY <1>1, <1>6, <1>7, <1>10, <1>11, <1>12, <1>13, ThreeLegs

(* ArcLineArc: a car more than two radii from the line that heads along    *)
(* it.                                                                     *)
LEMMA ArcLineArcFollows ==
    ASSUME NEW p, NEW s \in Sides, NEW q, Facing(p, s, q), RadiusInRange,
           q.y > 2 * radius, ~Overshoots(p, Sided(s, ArcLineArc(q, radius)))
    PROVE  Follows(p, Sided(s, ArcLineArc(q, radius)))
<1>1. PICK x \in Int, y \in Int, r \in Int, t \in Headings :
         /\ x = p.x /\ x = q.x /\ y = q.y /\ r = radius /\ 2 * r < y /\ t = Down(p)
         /\ p.x \in Int /\ p.y \in Int /\ p.y = Beside(s, y)
  BY SameWay DEF Facing, RadiusInRange, Beside
<1>2. PICK w \in Int : w = Way(p) /\ w = Way(q)
  BY SameWay, WayType
<1>3. PICK m \in Int, n \in Int : m = x + w * r /\ n = y - r
  BY <1>1, <1>2
<1>4. PICK leg \in PathLeg : leg = Arc(m, n, t)
  <2>1. Arc(m, n, t) \in PathLeg
    BY SidedLegs
  <2>. QED
    BY <2>1, Zenon
<1>5. leg.x = m /\ leg.y = n /\ n >= radius /\ leg.angle = Down(p) /\ leg.mode = "arc"
  BY <1>1, <1>3, <1>4 DEF Arc
<1>6. PICK from \in PathLeg :
         /\ from = Side(s, leg) /\ from.mode = "arc" /\ from.x = m /\ from.y = Beside(s, n)
         /\ from.angle = Heel(s, Down(p))
  BY <1>1, <1>5, SideLeg
<1>7. PICK z \in Headings : z = 0 /\ Heel(s, z) = z
  BY DEF Headings, Heel, MirrorAngle
<1>8. PICK d : d = AngleDiff(Heel(s, p.angle), z)
  OBVIOUS
<1>9. PICK h : h = Began(p, s, d)
  OBVIOUS
<1>10. HeadsFor(h, z) /\ (h = Aimed \/ h \in Headings)
  BY <1>7, <1>8, <1>9, BeganFor DEF Facing
<1>11. h = Aimed \/ (h \in Headings /\ -259 <= Sin(h) /\ Sin(h) <= 259 /\ 966 <= Cos(h))
  <2>1. ASSUME h \in Headings PROVE -259 <= Sin(h) /\ Sin(h) <= 259 /\ 966 <= Cos(h)
    BY <1>7, <1>10, <2>1, AlmostAhead
  <2>. QED
    BY <1>10, <2>1
<1>12. Fits(p, p, from, Began(p, s, d))
  <2>1. from.y = IF s = 1 THEN p.y - radius ELSE p.y + radius
    BY <1>1, <1>3, <1>6 DEF Beside
  <2>2. from.x = p.x + Way(p) * radius
    BY <1>1, <1>2, <1>3, <1>6
  <2>3. ArcFits(p, p, from, h)
    BY <1>1, <1>6, <1>11, <2>1, <2>2, LeaveFits, ZenonT(40)
  <2>. QED
    BY <1>6, <1>9, <2>3 DEF Fits
<1>13. PICK line \in PathLeg : line = Line(leg.x, radius, Down(p))
  <2>1. Line(m, r, t) \in PathLeg
    BY SidedLegs
  <2>2. Line(m, r, t) = Line(leg.x, radius, Down(p))
    BY <1>1, <1>5
  <2>. QED
    BY <2>1, <2>2, Zenon
<1>14. PICK arc \in PathLeg : arc = Arc(leg.x + Way(p) * radius, 0, 0)
  BY <1>1, <1>5, SomeArc
<1> DEFINE core == <<leg, line, arc, Home>>
<1>15. /\ core \in Seq(PathLeg) /\ Len(core) = 4
       /\ core[1] = leg /\ core[2] = line /\ core[3] = arc /\ core[4] = Home
  BY SidedHome
<1>16. ArcLineArc(q, radius) = Turn(d, core)
  <2>0. Down(q) = Down(p)
    BY SameWay
  <2>1. /\ AngleDiff(q.angle, 0) = d
        /\ q.x + Way(q) * radius = leg.x /\ q.y - radius = n
    BY <1>1, <1>2, <1>3, <1>5, <1>7, <1>8 DEF Facing
  <2>2. q.x + Way(q) * 2 * radius = leg.x + Way(p) * radius
    BY <1>1, <1>2, <1>3, <1>5
  <2>3. ArcLineArc(q, radius) =
          Turn(d, <<Arc(m, n, t), Line(leg.x, radius, Down(p)),
                    Arc(leg.x + Way(p) * radius, 0, 0), Home>>)
    BY <1>1, <1>5, <2>0, <2>1, <2>2 DEF ArcLineArc
  <2>. QED
    BY <1>4, <1>13, <1>14, <2>3
<1> HIDE DEF core
<1>. QED
  BY <1>5, <1>6, <1>12, <1>13, <1>14, <1>15, <1>16, FourLegs

(* The heading of a car that is neither away nor along is a slant.         *)
LEMMA SlantingHere ==
    ASSUME NEW p, NEW s, NEW q, Facing(p, s, q), NEW g \in Headings, g = q.angle,
           ~Away(q), ~AlongOrFrom(q),
           NEW e, e = SlantSine(q, radius).ae, NEW b, b = SlantSine(q, radius).be
    PROVE  (IF p.forward THEN g > 270 ELSE g < 90) /\ Slanting(p, g, e, b)
<1>1. q.forward = p.forward
  BY DEF Facing
<1>2. IF p.forward THEN g > 270 ELSE g < 90
  BY <1>1 DEF Away, AlongOrFrom, Headings
<1>. QED
  BY <1>1, <1>2 DEF SlantSine, Slanting

(* Slant: a car far enough from the line for the rest of the arc, and a    *)
(* line after it.                                                          *)
LEMMA SlantFollows ==
    ASSUME NEW p, NEW s \in Sides, NEW q, Facing(p, s, q), RadiusInRange,
           ~Away(q), ~AlongOrFrom(q), q.y > radius + SlantSine(q, radius).ae,
           ~Overshoots(p, Sided(s, Slant(q, radius)))
    PROVE  Follows(p, Sided(s, Slant(q, radius)))
<1>1. PICK x \in Int, y \in Int, r \in Int, t \in Headings :
         /\ x = p.x /\ x = q.x /\ y = q.y /\ r = radius /\ t = Down(p)
         /\ p.x \in Int /\ p.y \in Int /\ p.y = Beside(s, y)
  BY SameWay DEF Facing, RadiusInRange, Beside
<1>2. PICK w \in Int : w = Way(p) /\ w = Way(q)
  BY SameWay, WayType
<1>3. PICK g \in Headings : g = q.angle /\ Heel(s, g) = p.angle
  BY HeelType DEF Facing
<1>5. PICK e, b : e = SlantSine(q, radius).ae /\ b = SlantSine(q, radius).be
  BY Zenon
<1>6. Slanting(p, g, e, b)
  BY <1>3, <1>5, SlantingHere
<1>7. PICK u \in Int, v \in Int : u = e /\ v = b /\ q.y > radius + u
  BY <1>5, <1>6, SlantingType
<1>8. PICK h : h = IF p.off = 0 THEN Aimed ELSE p.angle
  OBVIOUS
<1>9. h = Aimed \/ h = Heel(s, g)
  BY <1>3, <1>8
<1>12. PICK m \in Int, n \in Int : m = x + w * v /\ n = y - u
  BY <1>1, <1>2
<1>13. PICK leg \in PathLeg : leg = Arc(m, n, t)
  <2>1. Arc(m, n, t) \in PathLeg
    BY SidedLegs
  <2>. QED
    BY <2>1, Zenon
<1>14. leg.x = m /\ leg.y = n /\ n >= radius /\ leg.angle = Down(p) /\ leg.mode = "arc"
  BY <1>1, <1>7, <1>12, <1>13 DEF Arc
<1>15. PICK from \in PathLeg :
         /\ from = Side(s, leg) /\ from.mode = "arc" /\ from.x = m /\ from.y = Beside(s, n)
         /\ from.angle = Heel(s, Down(p))
  BY <1>1, <1>14, SideLeg
<1>16. PICK d \in Int : d = 0
  OBVIOUS
<1>17. ~(Abs(d) > Aside)
  BY <1>16 DEF Abs, Aside
<1>18. Fits(p, p, from, Began(p, s, d))
  <2>1. from.y = IF s = 1 THEN p.y - u ELSE p.y + u
    BY <1>1, <1>12, <1>15 DEF Beside
  <2>2. from.x = p.x + Way(p) * v
    BY <1>1, <1>2, <1>12, <1>15
  <2>3. ArcFits(p, p, from, h)
    <3>1. Slanting(p, g, u, v)
      BY <1>6, <1>7
    <3>. QED
      BY <1>1, <1>9, <1>15, <2>1, <2>2, <3>1, SlantFits, Zenon
  <2>4. Began(p, s, d) = h
    BY <1>8, <1>17 DEF Began
  <2>. QED
    BY <1>15, <2>3, <2>4 DEF Fits
<1>19. PICK line \in PathLeg : line = Line(leg.x, radius, Down(p))
  <2>1. Line(m, r, t) \in PathLeg
    BY SidedLegs
  <2>2. Line(m, r, t) = Line(leg.x, radius, Down(p))
    BY <1>1, <1>14
  <2>. QED
    BY <2>1, <2>2, Zenon
<1>20. PICK arc \in PathLeg : arc = Arc(leg.x + Way(p) * radius, 0, 0)
  BY <1>1, <1>14, SomeArc
<1> DEFINE core == <<leg, line, arc, Home>>
<1>21. /\ core \in Seq(PathLeg) /\ Len(core) = 4
       /\ core[1] = leg /\ core[2] = line /\ core[3] = arc /\ core[4] = Home
  BY SidedHome
<1>22. Slant(q, radius) = Turn(d, core)
  <2>0. Down(q) = Down(p)
    BY SameWay
  <2>1. q.x + Way(q) * v = leg.x /\ q.y - u = n
    BY <1>1, <1>2, <1>12, <1>14
  <2>2. q.x + Way(q) * (v + radius) = leg.x + Way(p) * radius
    BY <1>1, <1>2, <1>12, <1>14
  <2>3. Slant(q, radius) =
          <<Arc(m, n, t), Line(leg.x, radius, Down(p)), Arc(leg.x + Way(p) * radius, 0, 0), Home>>
    BY <1>1, <1>5, <1>7, <1>14, <2>0, <2>1, <2>2 DEF Slant
  <2>4. Slant(q, radius) = core
    BY <1>13, <1>19, <1>20, <2>3
  <2>. QED
    BY <1>17, <2>4 DEF Turn
<1> HIDE DEF core
<1>. QED
  BY <1>14, <1>15, <1>18, <1>19, <1>20, <1>21, <1>22, FourLegs

(* Each case of the left half follows.                                     *)
LEMMA LeftFollows ==
    ASSUME NEW p, NEW s \in Sides, NEW q, Facing(p, s, q), RadiusInRange, ~Passed(p),
           ~Overshoots(p, Sided(s, LeftLegs(q, radius)))
    PROVE  Follows(p, Sided(s, LeftLegs(q, radius)))
<1>1. PICK y \in Int, r \in Int : y = q.y /\ r = radius
  BY DEF Facing, RadiusInRange
<1>2. CASE y <= Near
  BY <1>1, <1>2, FollowLineFollows DEF LeftLegs
<1>3. CASE y > Near /\ y <= r
  <2>1. LeftLegs(q, radius) = OneArc(q, radius)
    BY <1>1, <1>3 DEF LeftLegs, Near
  <2>. QED
    BY <1>1, <1>3, <2>1, OneArcFollows
<1>4. CASE y > Near /\ y > r
  <2>1. LeftLegs(q, radius) =
          IF Away(q) THEN LineArc(q, radius)
          ELSE IF AlongOrFrom(q)
               THEN IF y > 2 * radius THEN ArcLineArc(q, radius) ELSE TwoArcs(q, radius)
          ELSE IF y > radius + SlantSine(q, radius).ae THEN Slant(q, radius) ELSE TwoArcs(q, radius)
    BY <1>1, <1>4 DEF LeftLegs, Near
  <2>2. CASE Away(q)
    BY <1>1, <1>4, <2>1, <2>2, LineArcFollows
  <2>3. CASE ~Away(q) /\ AlongOrFrom(q) /\ y > 2 * radius
    BY <1>1, <2>1, <2>3, ArcLineArcFollows
  <2>4. CASE ~Away(q) /\ ~AlongOrFrom(q) /\ y > radius + SlantSine(q, radius).ae
    BY <1>1, <2>1, <2>4, SlantFollows
  <2>5. ASSUME ~Away(q), IF AlongOrFrom(q) THEN ~(y > 2 * radius)
                         ELSE ~(y > radius + SlantSine(q, radius).ae)
        PROVE  Follows(p, Sided(s, LeftLegs(q, radius)))
    <3>1. LeftLegs(q, radius) = TwoArcs(q, radius)
      BY <2>1, <2>5
    <3>2. y <= 2 * r
      <4>1. CASE AlongOrFrom(q)
        BY <1>1, <2>5, <4>1
      <4>2. CASE ~AlongOrFrom(q)
        <5>1. PICK g \in Headings : g = q.angle
          BY HeelType DEF Facing
        <5>2. PICK e, b : e = SlantSine(q, radius).ae /\ b = SlantSine(q, radius).be
          BY Zenon
        <5>3. Slanting(p, g, e, b)
          BY <2>5, <4>2, <5>1, <5>2, SlantingHere
        <5>4. e \in Int /\ e <= radius
          BY <5>3, SlantingType
        <5>. QED
          BY <1>1, <2>5, <4>2, <5>2, <5>4
      <4>. QED
        BY <4>1, <4>2
    <3>. QED
      BY <1>1, <1>4, <3>1, <3>2, TwoArcsFollows
  <2>. QED
    BY <2>2, <2>3, <2>4, <2>5
<1>. QED
  BY <1>1, <1>2, <1>3, <1>4 DEF Near

(* So do the legs of any pose that is not refused, on either side.         *)
LEMMA LegsFollow ==
    ASSUME NEW p \in Pose, RadiusInRange, ~Passed(p), ~Overshoots(p, Legs(p, radius))
    PROVE  Follows(p, Legs(p, radius))
<1>1. /\ p.x \in Int /\ p.y \in Int /\ p.angle \in Headings /\ p.off \in {0, Aimed}
  BY DEF Pose
<1>2. PICK s \in Sides : s = IF p.y >= 0 THEN 1 ELSE -1
  BY DEF Sides
<1>3. PICK q : q = IF p.y >= 0 THEN p ELSE [p EXCEPT !.y = -p.y, !.angle = MirrorAngle(p.angle)]
  OBVIOUS
<1>4. Facing(p, s, q)
  <2>1. CASE p.y >= 0
    BY <1>1, <1>2, <1>3, <2>1 DEF Facing, Heel
  <2>2. CASE ~(p.y >= 0)
    <3>1. PICK y, a : y = -p.y /\ a = MirrorAngle(p.angle)
      OBVIOUS
    <3>2. q = [p EXCEPT !.y = y, !.angle = a]
      BY <1>3, <2>2, <3>1
    <3>3. /\ q.forward = p.forward /\ q.x = p.x /\ q.off = p.off
          /\ q.y = y /\ q.angle = a
      BY <3>2 DEF Pose
    <3>. QED
      BY <1>1, <1>2, <2>2, <3>1, <3>3 DEF Facing, Heel
  <2>. QED
    BY <2>1, <2>2
<1>5. Legs(p, radius) = Sided(s, LeftLegs(q, radius))
  <2>1. CASE p.y >= 0
    BY <1>2, <1>3, <2>1 DEF Legs, Sided, Side
  <2>2. CASE ~(p.y >= 0)
    BY <1>2, <1>3, <2>2 DEF Legs, Sided, Side
  <2>. QED
    BY <2>1, <2>2
<1>. QED
  BY <1>4, <1>5, LeftFollows

(* The last leg kept.                                                      *)
LEMMA LastKept ==
    ASSUME NEW p, NEW way, Homeward(p, way), NEW stop \in BOOLEAN,
           NEW d, d = Simplify(p, way, stop), NEW n, n = Len(way)
    PROVE  /\ Len(d) \in Nat /\ Len(d) > 0 /\ DOMAIN d = 1 .. Len(d) /\ \E S : d \in Seq(S)
           /\ \/ d[Len(d)] = Home
              \/ /\ n > 1 /\ d[Len(d)] = way[n - 1]
                 /\ ~stop /\ ~(Gap2(From(p, way, n), Home) > Near * Near)
<1>1. /\ n \in Nat /\ n > 0 /\ DOMAIN way = 1 .. n /\ way[n] = Home
  BY DEF Homeward
<1>2. CASE n = 1
  <2>1. d = way
    BY <1>2 DEF Simplify
  <2>2. way = [i \in 1 .. 1 |-> way[i]] /\ way[1] = Home
    BY <1>1, <1>2 DEF Homeward
  <2>3. Len(way) = 1 /\ DOMAIN way = 1 .. 1
    BY <1>1, <1>2
  <2>4. way \in Seq({Home})
    BY <2>2
  <2>5. Len(d) = 1 /\ DOMAIN d = 1 .. Len(d) /\ d[Len(d)] = Home
    BY <2>1, <2>2, <2>3
  <2>6. \E S : d \in Seq(S)
    BY <2>1, <2>4, Zenon
  <2>7. Len(d) \in Nat /\ Len(d) > 0
    BY <2>5
  <2>. QED
    BY <2>5, <2>6, <2>7
<1>3. CASE n > 1
  <2>1. PICK kept : kept = {i \in DOMAIN way : Kept(p, way, i, stop)}
    BY Zenon
  <2> DEFINE Place(i) == Cardinality({k \in kept : k <= i})
  <2>2. PICK N : N = Cardinality(kept)
    BY Zenon
  <2>3. d = [i \in 1 .. N |-> way[CHOOSE k \in kept : Place(k) = i]]
    BY <1>3, <2>1, <2>2 DEF Simplify
  <2>4. \A i : i \in kept <=> i \in 1 .. n /\ Kept(p, way, i, stop)
    BY <1>1, <2>1
  <2>5. IsFiniteSet(kept)
    <3>1. IsFiniteSet(1 .. n)
      BY <1>1, FS_Interval
    <3>2. PICK all : all = 1 .. n
      BY Zenon
    <3>3. IsFiniteSet(all) /\ kept \in SUBSET all
      BY <2>4, <3>1, <3>2
    <3>. QED
      BY <3>3, FS_Subset
  <2>6. ~Kept(p, way, n, stop) => ~stop /\ ~(Gap2(From(p, way, n), Home) > Near * Near)
    BY <1>1 DEF Kept
  <2>7. n - 1 \in 1 .. n /\ Kept(p, way, n - 1, stop)
    <3>1. way[n - 1].mode = "rotate" \/ Gap2(From(p, way, n - 1), way[n - 1]) > Near * Near
      BY <1>1, <1>3 DEF Homeward
    <3>. QED
      BY <1>1, <1>3, <3>1 DEF Kept
  <2>8. PICK last \in Nat : last = IF n \in kept THEN n ELSE n - 1
    BY <1>1, <1>3
  <2>9. last \in kept
    BY <2>4, <2>7, <2>8
  <2>10. \A i \in kept : i \in Nat /\ i <= last
    BY <1>1, <2>4, <2>8
  <2>11. N \in Nat /\ N > 0
    <3>1. N \in Nat
      BY <2>2, <2>5, FS_CardinalityType
    <3>2. N # 0
      BY <2>2, <2>5, <2>9, FS_EmptySet
    <3>. QED
      BY <3>1, <3>2
  <2>12. Place(last) = N
    <3>1. {k \in kept : k <= last} = kept
      BY <2>10
    <3>. QED
      BY <2>2, <3>1, Zenon
  <2>13. ASSUME NEW i \in kept, Place(i) = N PROVE i = last
    <3>1. PICK upto : upto = {k \in kept : k <= i}
      BY Zenon
    <3>2. upto \subseteq kept /\ Cardinality(upto) = Cardinality(kept)
      BY <2>2, <2>13, <3>1
    <3>3. upto = kept
      BY <2>5, <3>2, FS_Subset
    <3>4. last <= i
      BY <2>9, <3>1, <3>3
    <3>. QED
      BY <2>10, <3>4
  <2> HIDE DEF Place
  <2>14. (CHOOSE k \in kept : Place(k) = N) = last
    BY <2>9, <2>12, <2>13
  <2>15. PICK g : g = [i \in 1 .. N |-> CHOOSE k \in kept : Place(k) = i]
    BY Zenon
  <2>16. d = [i \in 1 .. N |-> way[g[i]]] /\ g[N] = last
    BY <2>3, <2>11, <2>14, <2>15
  <2>17. d[N] = way[last] /\ Len(d) = N /\ DOMAIN d = 1 .. N
    BY <2>11, <2>16
  <2>18. \E S : d \in Seq(S)
    <3>1. PICK S : S = {way[g[i]] : i \in 1 .. N}
      BY Zenon
    <3>2. d \in [1 .. N -> S]
      BY <2>16, <3>1
    <3>3. d \in Seq(S)
      BY <2>11, <3>2
    <3>. QED
      BY <3>3, Zenon
  <2>. QED
    BY <1>1, <1>3, <2>4, <2>6, <2>8, <2>11, <2>17, <2>18
<1>. QED
  BY <1>1, <1>2, <1>3

(* The car ends near enough to the target, along its line.                 *)
LEMMA KeptArrives ==
    ASSUME NEW p \in Pose, NEW way, Homeward(p, way), NEW stop \in BOOLEAN,
           NEW d, d = Simplify(p, way, stop), NEW m, m = Len(d),
           NEW end, end = IF d[m].mode = "rotate" THEN p ELSE d[m]
    PROVE  /\ m > 0
           /\ Gap2(end, Home) <= Near * Near
           /\ stop => d[m] = Home
           /\ HeadsFor(Heading(p, Append(d, Home), m + 1), 0)
<1>1. PICK n : n = Len(way)
  BY Zenon
<1>2. /\ m \in Nat /\ m > 0 /\ DOMAIN d = 1 .. m /\ \E S : d \in Seq(S)
      /\ \/ d[m] = Home
         \/ /\ n > 1 /\ d[m] = way[n - 1]
            /\ ~stop /\ ~(Gap2(From(p, way, n), Home) > Near * Near)
  BY <1>1, LastKept
<1>3. Heading(p, Append(d, Home), m + 1) =
        IF d[m].mode # "rotate" THEN d[m].angle
        ELSE IF d[m].angle = Aimed THEN Aimed
        ELSE (p.angle - d[m].angle + 360) % 360
  <2>1. Append(d, Home)[m] = d[m]
    <3>1. PICK S : d \in Seq(S)
      BY <1>2
    <3>2. d \in Seq(S \cup {Home})
      BY <3>1
    <3>. QED
      BY <1>2, <3>2
  <2>2. (m + 1) - 1 = m /\ m + 1 # 1
    BY <1>2
  <2>. QED
    BY <2>1, <2>2 DEF Heading
<1>4. Home.mode = "line" /\ Home.x = 0 /\ Home.y = 0 /\ Home.angle = 0
  BY DEF Home, Line
<1>5. HeadsFor(0, 0)
  BY HeadsItself DEF Headings
<1>6. CASE d[m] = Home
  <2>1. end = Home
    BY <1>4, <1>6
  <2>2. Gap2(Home, Home) = 0
    BY <1>4 DEF Gap2
  <2>. QED
    BY <1>2, <1>3, <1>4, <1>5, <1>6, <2>1, <2>2 DEF Near
<1>7. CASE n > 1 /\ d[m] = way[n - 1] /\ ~stop /\ ~(Gap2(From(p, way, n), Home) > Near * Near)
  <2>1. CASE /\ n = 2 /\ way[1].mode = "rotate"
             /\ Gap2(p, Home) <= Near * Near =>
                  way[1].angle # Aimed /\ (p.angle - way[1].angle + 360) % 360 = 0
    <3>1. From(p, way, n) = p /\ way[n - 1] = way[1]
      BY <2>1 DEF From
    <3>2. Gap2(p, Home) \in Int
      BY <1>4 DEF Gap2, Pose
    <3>3. Gap2(p, Home) <= Near * Near
      BY <1>7, <3>1, <3>2 DEF Near
    <3>4. end = p
      BY <1>7, <2>1, <3>1
    <3>. QED
      BY <1>2, <1>3, <1>5, <1>7, <2>1, <3>1, <3>3, <3>4
  <2>2. CASE /\ way[n - 1].mode # "rotate"
             /\ way[n - 1].x \in Int /\ way[n - 1].y \in Int
             /\ way[n - 1].angle = 0
    <3>1. From(p, way, n) = way[n - 1]
      BY <1>7, <2>2 DEF From
    <3>2. Gap2(way[n - 1], Home) \in Int
      BY <1>4, <2>2 DEF Gap2
    <3>3. Gap2(way[n - 1], Home) <= Near * Near
      BY <1>7, <3>1, <3>2 DEF Near
    <3>4. end = way[n - 1]
      BY <1>7, <2>2
    <3>. QED
      BY <1>2, <1>3, <1>5, <1>7, <2>2, <3>3, <3>4
  <2>. QED
    BY <1>1, <1>7, <2>1, <2>2 DEF Homeward
<1>. QED
  BY <1>2, <1>6, <1>7

(* What an accepted target leaves behind; no target, no legs.              *)
SplitInv ==
    /\ stopping \in BOOLEAN /\ needStop \in BOOLEAN
    /\ answer = 0 =>
         /\ in \in Inputs /\ ~Refuses(in)
         /\ radius = Radius(in) /\ legs = Legs(in, radius)
         /\ driven = Simplify(in, legs, stopping)
    /\ answer # 0 => legs = << >>

(* Before the first target there are no legs.                              *)
LEMMA SplitInvInit == SplitInit => SplitInv
<1> SUFFICES ASSUME SplitInit PROVE SplitInv
  OBVIOUS
<1>1. answer # 0 /\ legs = << >>
  BY DEF SplitInit, NoAnswer
<1>2. stopping \in BOOLEAN /\ needStop \in BOOLEAN
  BY DEF SplitInit
<1>. QED
  BY <1>1, <1>2 DEF SplitInv

(* SplitToSubTarget, ClearSubpath and a rotation keep the answer's legs    *)
(* the ones of the last target.                                            *)
LEMMA SplitInvStep == SplitInv /\ [SplitNext]_splitVars => SplitInv'
<1> SUFFICES ASSUME SplitInv, [SplitNext]_splitVars PROVE SplitInv'
  OBVIOUS
<1> USE DEF SplitInv
<1>1. CASE ClearSubpath
  <2>1. answer' # 0 /\ legs' = << >>
    BY <1>1 DEF ClearSubpath, NoAnswer
  <2>2. stopping' \in BOOLEAN /\ needStop' \in BOOLEAN
    BY <1>1 DEF ClearSubpath
  <2>. QED
    BY <2>1, <2>2
<1>2. ASSUME NEW p \in Inputs, NEW action \in Actions, SplitTarget(p, action) PROVE SplitInv'
  <2>1. CASE AcceptTarget(p, action)
    <3>1. /\ in' = p /\ ~Refuses(p) /\ answer' = 0
          /\ radius' = Radius(p) /\ legs' = Legs(p, radius')
          /\ driven' = Simplify(p, legs', needStop) /\ stopping' = needStop
          /\ needStop' = Stops(p, action)
      BY <1>2, <2>1 DEF SplitTarget, AcceptTarget
    <3>2. (~Refuses(in))'
      BY <3>1 DEF Refuses
    <3>3. Stops(p, action) \in BOOLEAN
      BY DEF Stops
    <3>. QED
      BY <3>1, <3>2, <3>3
  <2>2. CASE RefuseTarget(p)
    BY <1>2, <2>2 DEF SplitTarget, RefuseTarget, Cleared, NoAnswer
  <2>. QED
    BY <1>2, <2>1, <2>2 DEF SplitTarget
<1>3. CASE SetRotation
  BY <1>3 DEF SetRotation, Cleared, NoAnswer
<1>4. CASE UNCHANGED splitVars
  BY <1>4 DEF splitVars
<1>. QED
  BY <1>1, <1>2, <1>3, <1>4 DEF SplitNext

(* So the legs of an accepted target are always those of its pose.         *)
LEMMA SplitInvHolds == SplitSpec => []SplitInv
BY SplitInvInit, SplitInvStep, PTL DEF SplitSpec

(* The legs of an accepted target follow: refused were those that          *)
(* overshoot (:2433-2452) and the poses past the target.                   *)
LEMMA AcceptedFollows ==
    ASSUME NarrowEnough, SplitInv, answer = 0
    PROVE  in \in Pose /\ Follows(in, legs)
<1>1. /\ in \in Inputs /\ ~Refuses(in)
      /\ radius = Radius(in) /\ legs = Legs(in, radius)
  BY DEF SplitInv
<1>2. ~OutOfRange(in) /\ ~Passed(in) /\ ~Overshoots(in, Legs(in, radius))
  BY <1>1 DEF Refuses
<1>3. in \in Pose
  <2>1. in.angle \in Headings
    BY <1>1, <1>2, HeadingsAre DEF Inputs, OutOfRange
  <2>2. Inputs \subseteq [forward : BOOLEAN, x : Int, y : Int, angle : Angles, off : {0, Aimed}]
    BY PoseAssumption DEF Inputs
  <2>. QED
    BY <1>1, <2>1, <2>2 DEF Pose
<1>4. RadiusInRange
  BY <1>1, <1>3, RadiusType DEF RadiusInRange, MinRadius, MaxRadius
<1>. QED
  BY <1>1, <1>2, <1>3, <1>4, LegsFollow

(* Drivable: the legs of every accepted target join, for every pose,       *)
(* forward and backward, on either side of the line, and each can be       *)
(* driven with the radius chosen (:1844-2425, :2429).                      *)
THEOREM DrivableAlways == ASSUME NarrowEnough PROVE SplitSpec => []Drivable
<1>1. SplitInv => Drivable
  <2> SUFFICES ASSUME SplitInv PROVE Drivable
    OBVIOUS
  <2>1. CASE answer = 0
    <3>1. Joins(in, legs)
      BY <2>1, AcceptedFollows DEF Follows
    <3>. QED
      BY <3>1 DEF Joins, Drivable
  <2>2. CASE answer # 0
    <3>1. legs = << >>
      BY <2>2 DEF SplitInv
    <3>. QED
      BY <3>1 DEF Drivable
  <2>. QED
    BY <2>1, <2>2
<1>. QED
  BY <1>1, SplitInvHolds, PTL

(* Arrives: the legs that Simplify leaves bring the car within 20 cm of    *)
(* the target, exactly there when it has to stop, and along its line       *)
(* (:2495-2550).                                                           *)
THEOREM ArrivesAlways == ASSUME NarrowEnough PROVE SplitSpec => []Arrives
<1>1. SplitInv => Arrives
  <2> SUFFICES ASSUME SplitInv, answer = 0 
               PROVE  LET n == Len(driven)
                          end == IF driven[n].mode = "rotate" THEN in ELSE driven[n]
                      IN /\ n > 0
                         /\ Gap2(end, Home) <= Near * Near
                         /\ stopping => driven[n] = Home
                         /\ HeadsFor(Heading(in, Append(driven, Home), n + 1), 0)
    BY DEF Arrives
  <2>1. in \in Pose /\ Homeward(in, legs)
    BY AcceptedFollows DEF Follows
  <2>2. stopping \in BOOLEAN /\ driven = Simplify(in, legs, stopping)
    BY DEF SplitInv
  <2>3. PICK n, end : n = Len(driven) /\ end = IF driven[n].mode = "rotate" THEN in ELSE driven[n]
    BY Zenon
  <2>. QED
    BY <2>1, <2>2, <2>3, KeptArrives
<1>. QED
  BY <1>1, SplitInvHolds, PTL

-----------------------------------------------------------------------------
(***************************************************************************)
(* MoveHelper for any targets, any plans of legs and any number of calls.  *)
(*                                                                         *)
(* The number of arrivals still owed (AnnouncedOnce) is not inductive: at  *)
(* 0, a control thread that is still under way would announce once more.   *)
(* What it may still announce are two arrivals at most, the one of which   *)
(* the evNextPathPoint is about to be posted and the one of the leg in     *)
(* runningMode or of the motion that has begun; Owes says that as many are *)
(* owed.  SetMode makes a second arrival possible and owes it.             *)
(***************************************************************************)

USE TargetsAssumption, PlansAssumption, CallsAssumption

(* From the choice of the motion function to the end of the target: the    *)
(* thread tells of an arrival whatever runningMode has become.             *)
UnderWay ==
    \/ runningMode # StopMode
    \/ control \in {"motion", "steered", "flag", "rotated", "advance", "next", "finish",
                    "brake", "end"}

Debt == (IF control = "announce" THEN 1 ELSE 0) + (IF UnderWay THEN 1 ELSE 0)

Owes == owed >= Debt

(* SetTarget works on what it was called with.                             *)
SettingHeld == main \in {"split", "point", "mode", "run", "init"} => setting \in Targets

Typed == TypeOK /\ SettingHeld
IInv == Typed /\ Owes

(* The fields that are true or false.                                      *)
Flags ==
    /\ isRunning \in BOOLEAN /\ initParaFlag \in BOOLEAN
    /\ brake \in BOOLEAN /\ braking \in BOOLEAN
    /\ fault \in BOOLEAN /\ awaited \in BOOLEAN

LEMMA InitInv == Init => IInv
PROOF
<1> SUFFICES ASSUME Init PROVE IInv
    OBVIOUS
<1>1. subpath \in Seq(LegModes)
    BY DEF Init
<1>2. Flags
    BY Zenon DEF Init, Flags
<1>3. TypeOK
    BY <1>1, <1>2 DEF Init, Flags, TypeOK, NoTarget, Speeds
<1> QED
    BY <1>3 DEF Init, IInv, Typed, SettingHeld, Owes, Debt, UnderWay

-----------------------------------------------------------------------------
(* The leg of an index is one, or none.                                    *)
LEMMA LegType ==
    ASSUME TypeOK, NEW i \in Nat
    PROVE  Leg(i) \in LegModes \cup {StopMode}
PROOF
BY DEF TypeOK, Leg

(* The drive keeps its types whatever it is told.                          *)
LEMMA SetSpeedType ==
    ASSUME TypeOK, NEW v \in Speeds, SetSpeed(v)
    PROVE  command' \in Speeds
PROOF
BY DEF TypeOK, SetSpeed

LEMMA BaseStopType ==
    ASSUME TypeOK, NEW b \in BOOLEAN, BaseStop(b)
    PROVE  command' \in Speeds /\ brake' \in BOOLEAN
PROOF
<1>1. command' \in Speeds
    BY SetSpeedType DEF BaseStop, Speeds
<1>2. brake' \in BOOLEAN
    BY Zenon DEF BaseStop, TypeOK
<1> QED
    BY <1>1, <1>2

LEMMA WheelsType ==
    ASSUME TypeOK, NEW v \in Speeds, Wheels(v)
    PROVE  command' \in Speeds /\ brake' \in BOOLEAN
PROOF
<1>1. CASE v = 0
    BY <1>1 DEF Wheels, drive, TypeOK
<1>2. CASE v # 0
  <2>1. command' \in Speeds
    BY <1>2, SetSpeedType DEF Wheels
  <2>2. brake' \in BOOLEAN
    BY <1>2, Zenon DEF Wheels, TypeOK
  <2> QED
    BY <2>1, <2>2
<1> QED
    BY <1>1, <1>2

-----------------------------------------------------------------------------
(* The main thread keeps the types.                                        *)
LEMMA MainTyped == Typed /\ Main => Typed'
PROOF
<1> SUFFICES ASSUME Typed, Main PROVE Typed'
    OBVIOUS
<1> USE DEF Typed, TypeOK, SettingHeld, shared, path, drive, mains, controls, MainTo, Speeds
<1>1. ASSUME NEW t \in Targets, SetTarget(t) PROVE Typed'
  <2>1. subpath' \in Seq(LegModes)
    BY <1>1 DEF SetTarget
  <2>2. t.mode \in LegModes
    BY DEF Target, LegModes
  <2>3. awaited' \in BOOLEAN
    BY <1>1, Zenon DEF SetTarget, Call, Settled
  <2> QED
    BY <1>1, <2>1, <2>2, <2>3 DEF SetTarget, Call
<1>2. CASE Split
  <2>1. subpath' \in Seq(LegModes)
    BY <1>2 DEF Split, Target
  <2> QED
    BY <1>2, <2>1 DEF Split
<1>3. CASE SplitFails
    BY <1>3 DEF SplitFails
<1>4. CASE SetPoint
    BY <1>4 DEF SetPoint
<1>5. CASE SetMode
  <2>1. runningMode' \in LegModes \cup {StopMode}
    BY <1>5, LegType DEF SetMode
  <2> QED
    BY <1>5, <2>1 DEF SetMode
<1>6. CASE SetRunning
    BY <1>6 DEF SetRunning
<1>7. CASE ResetFlag
  <2>1. Flags'
    BY <1>7, Zenon DEF ResetFlag, Flags
  <2> QED
    BY <1>7, <2>1 DEF ResetFlag, Flags
<1>8. ASSUME NEW enbreak \in BOOLEAN, StopCar(enbreak) PROVE Typed'
  <2>1. Flags'
    BY <1>8, Zenon DEF StopCar, Call, ClearTarget, Flags
  <2> QED
    BY <1>8, <2>1 DEF StopCar, Call, ClearTarget, Flags
<1>9. CASE StopWheels
  <2>1. command' \in Speeds /\ brake' \in BOOLEAN
    BY <1>9, BaseStopType DEF StopWheels
  <2>2. Flags'
    BY <1>9, <2>1, Zenon DEF StopWheels, Flags
  <2> QED
    BY <1>9, <2>1, <2>2 DEF StopWheels, Flags
<1>10. CASE KeyAutoMode
  <2>1. Flags'
    BY <1>10, Zenon DEF KeyAutoMode, Call, ClearTarget, Flags
  <2> QED
    BY <1>10, <2>1 DEF KeyAutoMode, Call, ClearTarget, Flags
<1>11. CASE KeyManualMode
  <2>1. Flags'
    BY <1>11, Zenon DEF KeyManualMode, Call, ClearTarget, Flags
  <2> QED
    BY <1>11, <2>1 DEF KeyManualMode, Call, ClearTarget, Flags
<1> QED
    BY <1>1, <1>2, <1>3, <1>4, <1>5, <1>6, <1>7, <1>8, <1>9, <1>10, <1>11 DEF Main

-----------------------------------------------------------------------------
(* The control thread keeps the types.                                     *)
LEMMA ControlTyped == Typed /\ Control => Typed'
PROOF
<1> SUFFICES ASSUME Typed, Control PROVE Typed'
    OBVIOUS
<1> USE DEF Typed, TypeOK, SettingHeld, shared, path, drive, mains, controls, ControlTo, Speeds
<1>1. CASE Top
    BY <1>1 DEF Top
<1>2. CASE LoopRunning
    BY <1>2 DEF LoopRunning
<1>3. CASE Switch
    BY <1>3 DEF Switch
<1>4. CASE Refuse
    BY <1>4 DEF Refuse
<1>5. CASE Steer
    BY <1>5 DEF Steer
<1>6. CASE Depart
  <2>1. command' \in Speeds
    BY <1>6, SetSpeedType DEF Depart
  <2>2. Flags'
    BY <1>6, Zenon DEF Depart, Flags
  <2> QED
    BY <1>6, <2>1, <2>2 DEF Depart, Flags
<1>7. CASE SetFlag
    BY <1>7 DEF SetFlag
<1>8. ASSUME NEW v \in Speeds, GoOn(v) PROVE Typed'
    BY <1>8, WheelsType DEF GoOn
<1>9. ASSUME NEW v \in Speeds, ReachArc(v) PROVE Typed'
  <2>1. command' \in Speeds /\ brake' \in BOOLEAN
    BY <1>9, WheelsType DEF ReachArc
  <2>2. Flags'
    BY <1>9, <2>1, Zenon DEF ReachArc, EndLeg, Flags
  <2> QED
    BY <1>9, <2>1, <2>2 DEF ReachArc, EndLeg, Flags
<1>10. CASE ReachLine
  <2>1. command' \in Speeds /\ brake' \in BOOLEAN
    BY <1>10, BaseStopType DEF ReachLine
  <2>2. Flags'
    BY <1>10, <2>1, Zenon DEF ReachLine, EndLeg, Flags
  <2> QED
    BY <1>10, <2>1, <2>2 DEF ReachLine, EndLeg, Flags
<1>11. CASE ReachAngle
  <2> DEFINE b == \/ targetPoint.action = ActionCharge
                  \/ targetPoint.action = ActionLiftUpDown /\ NeedStop
  <2>1. b \in BOOLEAN /\ BaseStop(b)
    BY <1>11 DEF ReachAngle
  <2>2. command' \in Speeds /\ brake' \in BOOLEAN
    BY <2>1, BaseStopType
  <2> QED
    BY <1>11, <2>2 DEF ReachAngle
<1>12. CASE NoTurn
    BY <1>12 DEF NoTurn
<1>13. CASE Rotated
  <2>1. Flags'
    BY <1>13, Zenon DEF Rotated, EndLeg, Flags
  <2> QED
    BY <1>13, <2>1 DEF Rotated, EndLeg, Flags
<1>14. CASE Advance
    BY <1>14 DEF Advance
<1>15. CASE NextLeg
    BY <1>15, LegType DEF NextLeg
<1>16. CASE Finish
  <2>1. BrakesHere \in BOOLEAN
    BY DEF BrakesHere
  <2>2. command' \in Speeds /\ brake' \in BOOLEAN
    BY <1>16, <2>1, BaseStopType DEF Finish
  <2> QED
    BY <1>16, <2>2 DEF Finish
<1>17. CASE Brake
    BY <1>17 DEF Brake
<1>18. CASE EndTarget
  <2>1. subpath' \in Seq(LegModes)
    BY <1>18 DEF EndTarget
  <2> QED
    BY <1>18, <2>1 DEF EndTarget
<1>19. CASE Announce
  <2>1. awaited' \in BOOLEAN
    BY <1>19, Zenon DEF Announce
  <2> QED
    BY <1>19, <2>1 DEF Announce
<1>20. CASE Check
    BY <1>20 DEF Check
<1>21. CASE CheckStops
  <2>1. Flags'
    BY <1>21, Zenon DEF CheckStops, ClearTarget, Flags
  <2> QED
    BY <1>21, <2>1 DEF CheckStops, ClearTarget, Flags
<1>22. CASE CheckHalts
  <2> DEFINE b == FALSE
  <2>1. b \in BOOLEAN /\ BaseStop(b)
    BY <1>22, Zenon DEF CheckHalts
  <2> HIDE DEF b
  <2>2. command' \in Speeds /\ brake' \in BOOLEAN
    BY <2>1, BaseStopType
  <2>3. /\ control' = "top"
        /\ UNCHANGED <<shared, path, speed, mains, mode, fault>>
    BY <1>22, Zenon DEF CheckHalts
  <2> QED
    BY <2>2, <2>3
<1> QED
    BY <1>1, <1>2, <1>3, <1>4, <1>5, <1>6, <1>7, <1>8, <1>9, <1>10, <1>11, <1>12, <1>13,
       <1>14, <1>15, <1>16, <1>17, <1>18, <1>19, <1>20, <1>21, <1>22 DEF Control

-----------------------------------------------------------------------------
(* No step of either thread makes an arrival possible that is not owed.    *)
LEMMA DebtStep == TypeOK /\ Owes /\ Next => Owes'
PROOF
<1> SUFFICES ASSUME TypeOK, Owes, Next PROVE Owes'
    OBVIOUS
<1> USE DEF Owes, Debt, UnderWay, shared, path, drive, mains, controls, MainTo, ControlTo
<1>0. owed \in Int
    BY DEF TypeOK
<1>1. CASE Feedback
    BY <1>1 DEF Feedback
<1>2. CASE Main
  <2>1. CASE SetMode
    BY <1>0, <2>1 DEF SetMode
  <2>2. ASSUME NEW enbreak \in BOOLEAN, StopCar(enbreak) PROVE Owes'
    BY <1>0, <2>2 DEF StopCar, ClearTarget
  <2>3. CASE KeyAutoMode
    BY <1>0, <2>3 DEF KeyAutoMode, ClearTarget
  <2>4. CASE KeyManualMode
    BY <1>0, <2>4 DEF KeyManualMode, ClearTarget
  <2>5. ASSUME NEW t \in Targets, SetTarget(t) PROVE Owes'
    BY <2>5 DEF SetTarget
  <2>6. ASSUME Split \/ SplitFails \/ SetPoint \/ SetRunning \/ ResetFlag \/ StopWheels
        PROVE  Owes'
    BY <2>6 DEF Split, SplitFails, SetPoint, SetRunning, ResetFlag, StopWheels
  <2> QED
    BY <1>2, <2>1, <2>2, <2>3, <2>4, <2>5, <2>6 DEF Main
<1>3. CASE Control
  <2>1. CASE Top \/ LoopRunning \/ Switch
    BY <1>0, <2>1 DEF Top, LoopRunning, Switch
  <2>2. CASE Refuse \/ Steer
    BY <1>0, <2>2 DEF Refuse, Steer
  <2>3. CASE Depart \/ SetFlag
    BY <1>0, <2>3 DEF Depart, SetFlag
  <2>4. ASSUME NEW v \in Speeds, GoOn(v) \/ ReachArc(v) PROVE Owes'
    BY <1>0, <2>4 DEF GoOn, ReachArc, EndLeg
  <2>5. CASE ReachLine \/ ReachAngle
    BY <1>0, <2>5 DEF ReachLine, ReachAngle, EndLeg
  <2>6. CASE NoTurn \/ Rotated
    BY <1>0, <2>6 DEF NoTurn, Rotated, EndLeg
  <2>7. CASE Advance \/ NextLeg
    BY <1>0, <2>7 DEF Advance, NextLeg
  <2>8. CASE Finish \/ Brake
    BY <1>0, <2>8 DEF Finish, Brake
  <2>9. CASE EndTarget
    BY <1>0, <2>9 DEF EndTarget
  <2>10. CASE Announce
    BY <1>0, <2>10 DEF Announce
  <2>11. CASE Check
    BY <1>0, <2>11 DEF Check
  <2>12. CASE CheckStops
    BY <1>0, <2>12 DEF CheckStops, ClearTarget
  <2>13. CASE CheckHalts
    <3>1. control = "halt" /\ control' = "top" /\ UNCHANGED <<shared, mains>>
      BY <2>13, Zenon DEF CheckHalts
    <3> QED
      BY <1>0, <3>1
  <2> QED
    BY <1>3, <2>1, <2>2, <2>3, <2>4, <2>5, <2>6, <2>7, <2>8, <2>9, <2>10, <2>11, <2>12,
       <2>13 DEF Control
<1> QED
    BY <1>1, <1>2, <1>3 DEF Next

-----------------------------------------------------------------------------
LEMMA StepInv == IInv /\ [Next]_vars => IInv'
PROOF
<1> SUFFICES ASSUME IInv, [Next]_vars PROVE IInv'
    OBVIOUS
<1>1. CASE Feedback
  <2>1. Typed'
    BY <1>1 DEF Feedback, Turning, IInv, Typed, TypeOK, SettingHeld, shared, path, drive,
                mains, controls, Speeds
  <2> QED
    BY <1>1, <2>1, DebtStep DEF IInv, Typed, Next
<1>2. CASE UNCHANGED vars
  <2>1. Typed'
    BY <1>2 DEF vars, IInv, Typed, TypeOK, SettingHeld, shared, path, drive, mains, controls
  <2>2. Owes'
    BY <1>2 DEF vars, IInv, Owes, Debt, UnderWay, shared, mains, controls
  <2> QED
    BY <2>1, <2>2 DEF IInv
<1>3. CASE Main \/ Control
    BY <1>3, MainTyped, ControlTyped, DebtStep DEF IInv, Typed, Next
<1> QED
    BY <1>1, <1>2, <1>3 DEF Next

(* Whatever is called in whatever order, the fields that the two threads   *)
(* share hold modes, legs and targets that exist.                          *)
THEOREM MoveHelperTypeCorrect == Spec => []TypeOK
PROOF
<1>1. IInv => TypeOK
    BY DEF IInv, Typed
<1> QED
    BY <1>1, InitInv, StepInv, PTL DEF Spec

(* A target is announced at most once: the main thread never gets more     *)
(* evNextPathPoint than it has given targets with SetTarget.               *)
THEOREM AnnouncedOnceAlways == Spec => []AnnouncedOnce
PROOF
<1>1. IInv => AnnouncedOnce
    BY DEF IInv, Typed, TypeOK, Owes, Debt, AnnouncedOnce
<1> QED
    BY <1>1, InitInv, StepInv, PTL DEF Spec
=============================================================================
