----------------------------- MODULE PathSplit -----------------------------
(***************************************************************************)
(* CAgvMoveHelperForklift::SplitToSubTarget: a target ahead of the car, or *)
(* behind it, becomes legs that its motion functions can follow: rotations *)
(* on the spot, lines, quarter arcs.                                       *)
(*                                                                         *)
(* Lengths are in cm, angles in degrees, poses relative to the target (the *)
(* rotation and translation into its frame and back are left out, and so   *)
(* are the speeds of the legs).  By how much the car is off an arc or a    *)
(* slanted line is not computed: in.off says that it is too much, or not.  *)
(***************************************************************************)
EXTENDS TargetActions, Integers, Sequences, FiniteSets

CONSTANTS
    Xs, Ys, Angles,     \* where the car may stand when it gets a target
    SavedRadius         \* StandardRadius of the settings file

Actions == {ActionRun, ActionStop, ActionLiftUpDown, ActionCharge}

Near == 20              \* DISTANCE_200_MM
MinRadius == 100        \* MINTURNINGRADIUS
MaxRadius == 400        \* MAXTURNINGRADIUS
Special == 280          \* "for special condition at HX"
Aside == 20             \* ANGLE_20_DEGREE
Aimed == 360            \* a turn whose angle is not computed

(* The angles for which the model has a sine, and 360 for a pose out of range. *)
ASSUME PoseAssumption ==
    /\ Xs \subseteq Int /\ Ys \subseteq Int
    /\ Angles \subseteq {15 * k : k \in 0 .. 24}
ASSUME RadiusAssumption == SavedRadius \in Nat \ {0}

Inputs == [forward : BOOLEAN, x : Xs, y : Ys, angle : Angles, off : {0, Aimed}]

VARIABLES
    needStop,           \* targetPoint.needStop
    in, answer,         \* the last target, and what SplitToSubTarget returned; 1 before
    radius, legs,       \* history: STANDARD_RADIUS, and the legs before they are simplified
    stopping,           \* history: needStop when they were
    driven              \* subpath: the legs that are left

splitVars == <<needStop, in, answer, radius, legs, stopping, driven>>

-----------------------------------------------------------------------------
(* CAgvMathUtils.                                                          *)
Abs(n) == IF n < 0 THEN -n ELSE n
Root(n) == CHOOSE r \in 0 .. MaxRadius : r * r <= n /\ n < (r + 1) * (r + 1)
Gap2(p, q) == (p.x - q.x) * (p.x - q.x) + (p.y - q.y) * (p.y - q.y)
Signed(angle) == IF angle > 180 THEN angle - 360 ELSE angle
AngleDiff(angle, target) ==
    LET d == Signed(angle) - Signed(target)
    IN IF d > 180 THEN d - 360 ELSE IF d <= -180 THEN d + 360 ELSE d

(* Sine and cosine in thousandths. *)
Sin(angle) ==
    LET Quarter(a) == <<0, 259, 500, 707, 866, 966, 1000>>[a \div 15 + 1]
    IN CASE angle \in 0 .. 90 -> Quarter(angle)
         [] angle \in 91 .. 180 -> Quarter(180 - angle)
         [] angle \in 181 .. 270 -> -Quarter(angle - 180)
         [] OTHER -> -Quarter(360 - angle)
Cos(angle) == Sin((angle + 90) % 360)

(* The radius of the arc that ends 40 cm before the target, along its      *)
(* line; a right angle turns as the settings say, backward always narrow.  *)
Automatic(p) ==
    LET x0 == IF p.forward THEN p.x + 40 ELSE p.x - 40
        r == (x0 * x0 + p.y * p.y) \div (2 * Abs(p.y))
        ahead == Abs(p.x) - 40
    IN IF r >= ahead /\ Abs(p.y) > ahead THEN Special ELSE r
Radius(p) ==
    LET r == IF Abs(p.angle - 90) <= 20 \/ Abs(p.angle - 270) <= 20 THEN SavedRadius
             ELSE IF p.y = 0 THEN MaxRadius
             ELSE IF Automatic(p) > MaxRadius THEN MaxRadius ELSE Automatic(p)
    IN IF ~p.forward \/ r < MinRadius THEN MinRadius ELSE r

Line(x, y, angle) == [mode |-> "line", x |-> x, y |-> y, angle |-> angle]
Arc(x, y, angle) == [mode |-> "arc", x |-> x, y |-> y, angle |-> angle]
Rotate(angle) == [mode |-> "rotate", x |-> 0, y |-> 0, angle |-> angle]
Home == Line(0, 0, 0)
Turn(diff, path) == IF Abs(diff) > Aside THEN <<Rotate(diff)>> \o path ELSE path

-----------------------------------------------------------------------------
(* The legs of a car on the left of the target's line.  Way is the sign of *)
(* x on the way to the target, Down the heading straight to its line.      *)
Way(p) == IF p.forward THEN 1 ELSE -1
Down_Copied(p) == 270           \* the forward half copied and not changed
Down(p) == IF p.forward THEN 270 ELSE 90
Away(p) == p.angle \in 90 .. 270
AlongOrFrom(p) ==       \* the heading lets the car drive along the line, or from it
    IF p.forward THEN p.angle \in 0 .. 89 ELSE p.angle \in 271 .. 359

(* On the line, or almost. *)
FollowLine(p) ==
    Turn(IF Abs(p.x) < 30 \/ p.y = 0 THEN AngleDiff(p.angle, 0) ELSE p.off, <<Home>>)

(* Less than a radius from it: an arc onto the line. *)
OneArc(p, r) ==
    LET x == Root(r * r - (r - p.y) * (r - p.y))
    IN Turn(p.off, <<Arc(p.x + Way(p) * x, 0, 0), Home>>)

(* With its back to the line, or across: turn to it, drive, arc. *)
LineArc(p, r) ==
    Turn(AngleDiff(p.angle, Down(p)),
         <<Line(p.x, r, Down(p)), Arc(p.x + Way(p) * r, 0, 0), Home>>)

(* More than two radii from it: an arc, a line, an arc. *)
ArcLineArc(p, r) ==
    Turn(AngleDiff(p.angle, 0),
         <<Arc(p.x + Way(p) * r, p.y - r, Down(p)), Line(p.x + Way(p) * r, r, Down(p)),
           Arc(p.x + Way(p) * 2 * r, 0, 0), Home>>)

(* Already on a slant to it: the arc goes on from the present heading. *)
SlantSine(p, r) ==
    LET rad == IF p.forward THEN p.angle - 270 ELSE 90 - p.angle
    IN [ae |-> (r * Sin(rad)) \div 1000, be |-> (1000 * r - r * Cos(rad)) \div 1000]
Slant(p, r) ==
    LET a == SlantSine(p, r)
    IN <<Arc(p.x + Way(p) * a.be, p.y - a.ae, Down(p)),
         Line(p.x + Way(p) * a.be, r, Down(p)),
         Arc(p.x + Way(p) * (a.be + r), 0, 0), Home>>

(* In between: two arcs. *)
TwoArcs(p, r) ==
    LET be == r - Root(r * r - (p.y - r) * (p.y - r))
    IN Turn(p.off, <<Arc(p.x + Way(p) * be, r, Down(p)),
                     Arc(p.x + Way(p) * (be + r), 0, 0), Home>>)

LeftLegs(p, r) ==
    IF p.y <= Near THEN FollowLine(p)
    ELSE IF p.y <= r THEN OneArc(p, r)
    ELSE IF Away(p) THEN LineArc(p, r)
    ELSE IF AlongOrFrom(p) THEN IF p.y > 2 * r THEN ArcLineArc(p, r) ELSE TwoArcs(p, r)
    ELSE IF p.y > r + SlantSine(p, r).ae THEN Slant(p, r) ELSE TwoArcs(p, r)

(* A car on the right takes the mirror image. *)
MirrorAngle(angle) == IF angle = 0 THEN 0 ELSE 360 - angle
MirrorTurn(diff) == IF diff \in {180, Aimed} THEN diff ELSE -diff
Mirror(leg) ==
    IF leg.mode = "rotate" THEN Rotate(MirrorTurn(leg.angle))
    ELSE [mode |-> leg.mode, x |-> leg.x, y |-> -leg.y, angle |-> MirrorAngle(leg.angle)]
Legs(p, r) ==
    LET left == p.y >= 0
        path == LeftLegs(IF left THEN p
                         ELSE [p EXCEPT !.y = -p.y, !.angle = MirrorAngle(p.angle)], r)
    IN [i \in DOMAIN path |-> IF left THEN path[i] ELSE Mirror(path[i])]

(* A leg of at most 20 cm is left out; the last one not when the car has   *)
(* to stop precisely.                                                      *)
From(p, path, i) == IF i = 1 \/ path[i - 1].mode = "rotate" THEN p ELSE path[i - 1]
Kept_Long(p, path, i, stop) ==      \* without line 2531's needStop
    \/ path[i].mode = "rotate"
    \/ Gap2(From(p, path, i), path[i]) > Near * Near
Kept(p, path, i, stop) ==
    \/ path[i].mode = "rotate"
    \/ Gap2(From(p, path, i), path[i]) > Near * Near
    \/ i = Len(path) /\ stop
Simplify(p, path, stop) ==
    IF Len(path) = 1 THEN path
    ELSE LET kept == {i \in DOMAIN path : Kept(p, path, i, stop)}
             Place(i) == Cardinality({k \in kept : k <= i})
         IN [n \in 1 .. Cardinality(kept) |-> path[CHOOSE i \in kept : Place(i) = n]]

-----------------------------------------------------------------------------
OutOfRange(p) == p.angle = 360
Passed(p) == Way(p) * p.x > 0
Overshoots(p, path) == \E i \in DOMAIN path : Way(p) * path[i].x > 0
Refuses(p) ==
    (~OutOfRange(p) /\ ~Passed(p)) => Overshoots(p, Legs(p, Radius(p)))

(* What becomes of needStop, after the split. *)
Stops(p, action) ==
    \/ action \in {ActionStop, ActionCharge}
    \/ action = ActionLiftUpDown /\ ~p.forward

NoInput == [forward |-> TRUE, x |-> 0, y |-> 0, angle |-> 0, off |-> 0]
NoAnswer == 1
Cleared == answer = NoAnswer

SplitInit ==
    /\ needStop \in BOOLEAN     \* not initialised
    /\ in = NoInput /\ answer = NoAnswer
    /\ radius = SavedRadius /\ legs = << >> /\ stopping = FALSE /\ driven = << >>

(* The beginning of SetTarget. *)
ClearSubpath ==
    /\ ~Cleared
    /\ in' = NoInput /\ answer' = NoAnswer
    /\ radius' = SavedRadius /\ legs' = << >> /\ stopping' = FALSE /\ driven' = << >>
    /\ UNCHANGED needStop

(* The rest of it, with GoForwardMode or GoBackwardMode. *)
AcceptTarget(p, action) ==
    /\ ~Refuses(p)
    /\ answer' = 0
    /\ radius' = Radius(p)
    /\ legs' = Legs(p, radius')
    /\ driven' = Simplify(p, legs', needStop)
    /\ stopping' = needStop
    /\ needStop' = Stops(p, action)
RefuseTarget(p) ==
    /\ Refuses(p)
    /\ answer' = -1
    /\ stopping' = needStop
    /\ UNCHANGED <<needStop, radius, legs, driven>>
SplitTarget(p, action) ==
    /\ Cleared
    /\ in' = p
    /\ AcceptTarget(p, action) \/ RefuseTarget(p)

(* And with a rotation, which is not split. *)
SetRotation ==
    /\ Cleared
    /\ needStop' = FALSE
    /\ UNCHANGED <<in, answer, radius, legs, stopping, driven>>

SplitNext ==
    \/ ClearSubpath
    \/ \E p \in Inputs, action \in Actions : SplitTarget(p, action)
    \/ SetRotation

SplitSpec == SplitInit /\ [][SplitNext]_splitVars

-----------------------------------------------------------------------------
(* Where the car is when a leg begins, and its heading there: Aimed, if it *)
(* was found near enough to a direction that the model does not compute.   *)
Heading(p, path, i) ==
    IF i = 1 THEN IF p.off = 0 THEN Aimed ELSE p.angle
    ELSE IF path[i - 1].mode # "rotate" THEN path[i - 1].angle
    ELSE IF path[i - 1].angle = Aimed THEN Aimed
    ELSE (p.angle - path[i - 1].angle + 360) % 360
HeadsFor(heading, angle) == heading = Aimed \/ Abs(AngleDiff(heading, angle)) <= Aside
Forth(p, from, leg, heading) ==     \* how far ahead the end of the leg is, times 1000
    Way(p) * ((leg.x - from.x) * Cos(heading) + (leg.y - from.y) * Sin(heading))

(* A line: the car is at most 20 cm beside it, heads along it, and drives  *)
(* to its end, not away from it.                                           *)
LineFits(p, from, leg, heading) ==
    /\ Abs((leg.x - from.x) * Sin(leg.angle) - (leg.y - from.y) * Cos(leg.angle)) <= 1000 * Near
    /\ HeadsFor(heading, leg.angle)
    /\ Forth(p, from, leg, leg.angle) >= 0

(* An arc: it ends along leg.angle, so its centre is square to that, on    *)
(* the side the car comes from; the car stands on it, within a cm, heads   *)
(* along it, and drives to its end, at most a quarter of a turn away.      *)
Centre(p, from, leg) ==
    IF leg.angle = 0
    THEN [x |-> leg.x, y |-> IF from.y > 0 THEN leg.y + radius ELSE leg.y - radius]
    ELSE [x |-> leg.x - Way(p) * radius, y |-> leg.y]
Across(from, centre, heading) ==    \* 0 for a heading at right angles to the centre
    (from.x - centre.x) * Cos(heading) + (from.y - centre.y) * Sin(heading)
ArcFits(p, from, leg, heading) ==
    /\ Abs(Gap2(from, Centre(p, from, leg)) - radius * radius) <= 4 * radius
    /\ Gap2(from, leg) <= 2 * radius * radius + 4 * radius
    /\ heading # Aimed =>
         /\ Abs(Across(from, Centre(p, from, leg), heading))
                <= 342 * radius + 3000          \* the sine of 20 degrees
         /\ Forth(p, from, leg, heading) >= 0

(* The legs join: each begins where the one before left the car, in its    *)
(* direction, and can be driven with the radius chosen, forward by a car   *)
(* that goes forward and backward by one that goes backward.               *)
(* (AgvMoveHelperForklift.cpp:1844-2425, written twice; :2429 mirrors.)    *)
Drivable ==
    \A i \in DOMAIN legs :
        LET from == From(in, legs, i)
            heading == Heading(in, legs, i)
        IN CASE legs[i].mode = "line" -> LineFits(in, from, legs[i], heading)
             [] legs[i].mode = "arc" -> ArcFits(in, from, legs[i], heading)
             [] OTHER -> i = 1

(* The legs that are left (:2495-2550) bring the car to the target: they   *)
(* end at most 20 cm from it, exactly there if needStop was set, and the   *)
(* car then heads along the target's line.                                 *)
Arrives ==
    answer = 0 =>
        LET n == Len(driven)
            end == IF driven[n].mode = "rotate" THEN in ELSE driven[n]
        IN /\ n > 0
           /\ Gap2(end, Home) <= Near * Near
           /\ stopping => driven[n] = Home
           /\ HeadsFor(Heading(in, Append(driven, Home), n + 1), 0)
=============================================================================
