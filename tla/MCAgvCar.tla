------------------------------ MODULE MCAgvCar ------------------------------
(* Small routes and inputs for AgvCar.                                     *)
EXTENDS AgvCar

Point(id, mode, action, h, align) ==
    [id |-> id, runMode |-> mode, action |-> action, liftHeight |-> h,
     align |-> align, actionFinish |-> FALSE]

F(id, action, h) == Point(id, GoForwardMode, action, h, {})
L(id, action, h) == Point(id, GoForwardMode, action, h, {"inLine", "longLeg"})
B(id, action, h) == Point(id, GoBackwardMode, action, h, {})

(* Run through, fetch at height 2, turn back and charge.                   *)
Fetch == << F(1, ActionRun, NoHeight), B(2, ActionLiftUpDown, 2), F(3, ActionCharge, NoHeight) >>
(* Points in line, the first with a height, the last put down.             *)
Straight == << F(4, ActionRun, NoHeight), L(5, ActionRun, 2), L(6, ActionRun, NoHeight) >>

(* Two lifts with a point between them.                                    *)
TwoLifts == << F(7, ActionLiftUpDown, 2), F(8, ActionRun, NoHeight), F(9, ActionLiftUpDown, 0) >>

(* The direction 0x03 of the protocol, which the car refuses.              *)
TurnLeftMode == 3
Turn == << F(10, ActionRun, NoHeight), Point(11, TurnLeftMode, ActionStop, NoHeight, {}),
           F(12, ActionStop, NoHeight) >>

MCRoutes == {Fetch, Straight, TwoLifts}
MCPaths == {Fetch, Straight, Turn, << >>}

In(ev, param) == [ev |-> ev, param |-> param]
MCKeys == {In("evKeyStart", 0), In("evKeyStop", 0), In("evUrgentStop", 0),
         In("evKeyAutoMode", 0), In("evKeyManualMode", 0)}
Others == {In("evNetworkOK", 0), In("ev10msTimer", 0), In("ev1sTimer", 0),
           In("evTurnOnCharge", 1), In("evTurnOffCharge", 0),
           In("evSchedulerOffline", 0), In("evSensorOffline", 0)}
MCInputs == MCKeys \cup Others
MCFlaps == {In("evNetworkOK", 0)}
MCFaultCodes == {0, -5}
MCLiftReports == {LiftMoving, AtTop}
=============================================================================
