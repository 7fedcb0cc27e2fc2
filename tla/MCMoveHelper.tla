---------------------------- MODULE MCMoveHelper ----------------------------
EXTENDS MoveHelper

MCTargets == {
    [station |-> 1, mode |-> GoForwardMode, action |-> ActionStop],
    [station |-> 2, mode |-> GoBackwardMode, action |-> ActionLiftUpDown],
    [station |-> 3, mode |-> RotateLeftMode, action |-> ActionRun]}

(* A forward path may be an arc alone: a short last line is dropped.       *)
MCPlans == [m \in Straight \cup Rotation |->
    IF m = GoForwardMode THEN {<<ForwardToArcMode>>}
    ELSE IF m = GoBackwardMode THEN {<<RotateLeftMode, GoBackwardMode>>}
    ELSE {<<m>>}]
=============================================================================
