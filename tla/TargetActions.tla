---------------------------- MODULE TargetActions ----------------------------
(* enum ArrivedAcation, what a car does at a target: the part of it that   *)
(* the forklift's move helper tells apart.                                 *)
ActionRun == 0
ActionStop == 1
ActionLiftUpDown == 4
ActionCharge == 5
=============================================================================
