-------------------------- MODULE MCShiftAttendance --------------------------
(***************************************************************************)
(* Two scenes of one working day, which TLC explores apart: the day from   *)
(* its beginning, with one overtime request and two operations at a time;  *)
(* and the afternoon of an employee whose overtime was approved, with a    *)
(* second request and a third operation in flight.                         *)
(***************************************************************************)
EXTENDS ShiftAttendance, TLC

VARIABLE scene

(* Two shifts back to back.                                                *)
BackToBack == [a |-> [start |-> 0, end |-> 2], b |-> [start |-> 2, end |-> 3]]
TwoShifts == DOMAIN BackToBack
StoreRules == [grace |-> 0, earlyGrace |-> 0, earlyCheckin |-> 1,
               lateCheckout |-> 1, creditLateEarly |-> FALSE]

First == CHOOSE r \in Overtimes : TRUE
NewRow == [status |-> "APPROVED", in |-> Null, out |-> Null, att |-> "NULL",
           late |-> 0, auto |-> FALSE, adjStart |-> Null, adjEnd |-> Null, worked |-> 0]
(* Checked in for the first shift, the first overtime approved and its end *)
(* in force, nothing in flight.                                            *)
OvertimeApproved ==
  /\ now = 3 /\ acts = 0 /\ crashes = 0 /\ ran = {} /\ late = {}
  /\ asg = [a |-> [NewRow EXCEPT !.in = 0, !.status = "CONFIRMED", !.att = "ON_TIME"],
            b |-> NewRow]
  /\ logs = [a |-> [in |-> 1, out |-> 0], b |-> [in |-> 0, out |-> 0]]
  /\ wf = [a |-> [state |-> "OVERTIME_APPROVED", sched |-> 2, eff |-> 3, ot |-> First],
           b |-> None]
  /\ ot = [r \in Overtimes |->
             IF r = First THEN [status |-> "APPROVED", a |-> "a", end |-> 3]
             ELSE [status |-> "NONE", a |-> None, end |-> 0]]
  /\ lv = [l \in Leaves |->
             [status |-> "NONE", kind |-> "OFF", a |-> None, at |-> Null]]
  /\ jobs = {[a |-> "a", end |-> 2], [a |-> "a", end |-> 3]}
  /\ op = [w \in Workers |-> Idle]

WorkdayInit == \/ scene = "day" /\ Init
               \/ scene = "overtime" /\ OvertimeApproved
WorkdayNext ==
  /\ Next
  /\ scene' = scene
  /\ scene = "day" => /\ Cardinality(Busy') <= 2
                      /\ \A r \in Overtimes \ {First} : ot'[r].status = "NONE"
WorkdaySpec == WorkdayInit /\ [][WorkdayNext]_<<vars, scene>>
=============================================================================
