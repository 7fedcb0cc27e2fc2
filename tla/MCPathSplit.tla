---- MODULE MCPathSplit ----
(* Positions around every limit of the code: 20 and 30 cm, one and two radii. *)
EXTENDS PathSplit
MCXs == {-700, -420, -250, -110, -25, 0, 15, 150, 300, 600}
MCYs == {-450, -170, 0, 12, -20, 21, 90, 150, 201, 310, 820}
MCAngles == {0, 15, 45, 75, 90, 105, 180, 270, 285, 300, 345, 360}
====
