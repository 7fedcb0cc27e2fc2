--------------------------- MODULE MCRoutePlanner ---------------------------
(* Small routes for RoutePlanner: the empty one, one point, three points   *)
(* and another route of two points that shares no station with them.       *)
EXTENDS RoutePlanner

Point(id, action, h) ==
    [id |-> id, runMode |-> GoForwardMode, action |-> action, liftHeight |-> h,
     align |-> {}, actionFinish |-> FALSE]

MCPaths ==
    { << >>,
      << Point(1, ActionStop, NoHeight) >>,
      << Point(1, ActionRun, NoHeight), Point(2, ActionLiftUpDown, 1), Point(3, ActionCharge, NoHeight) >>,
      << Point(4, ActionRun, 0), Point(5, ActionLiftUpDown, 0) >> }

MCHeights == {0, 1}
=============================================================================
