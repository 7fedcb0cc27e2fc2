---------------------------- MODULE MCEventQueue ----------------------------
(* One producer besides the main thread and its timer.                    *)
EXTENDS EventQueue

CONSTANTS main, timer, can, free, signal

MCInterruptible == {main, timer, can}
=============================================================================
