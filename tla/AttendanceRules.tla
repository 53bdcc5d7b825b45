--------------------------- MODULE AttendanceRules ---------------------------
(***************************************************************************)
(* The arithmetic of attendance (attendance-rules.ts,                      *)
(* attendance-time.utils.ts and attendance-enforcement.ts): when check-in  *)
(* opens, which minutes of lateness are forgiven, which minutes of a shift *)
(* are paid, and which store policy a check-in offends.  Instants and      *)
(* durations are integers; Null stands for an absent value.                *)
(***************************************************************************)
EXTENDS Integers, FiniteSets

Null == -1

Present(v) == v # Null
OrElse(v, fallback) == IF Present(v) THEN v ELSE fallback
AtLeast(x, y) == IF x >= y THEN x ELSE y
AtMost(x, y) == IF x <= y THEN x ELSE y

-----------------------------------------------------------------------------
(* Windows of a shift                                                      *)

(* An end that is not after the start belongs to the next day.             *)
ResolveShiftBoundaries(start, end, day) ==
  [start |-> start, end |-> IF end <= start THEN end + day ELSE end]

(* The window of an assignment: an approved late arrival or early leave    *)
(* moves one of its ends.                                                  *)
EffectiveWindow(slot, adjustedStartAt, adjustedEndAt) ==
  [start |-> OrElse(adjustedStartAt, slot.start),
   end   |-> OrElse(adjustedEndAt, slot.end)]

(* The instant a clock time of a request names: on the day of the shift or *)
(* on the day after, whichever lies in the scheduled window.               *)
ResolveRequestedInstant(slot, clock, day) ==
  CASE clock \in slot.start .. slot.end       -> clock
    [] clock \notin slot.start .. slot.end
       /\ clock + day \in slot.start .. slot.end -> clock + day
    [] OTHER                                  -> Null

LateMinutes(start, at) == AtLeast(0, at - start)
EarlyMinutes(end, at)  == AtLeast(0, end - at)

-----------------------------------------------------------------------------
(* The store's rules                                                       *)

DefaultAttendanceRules ==
  [grace |-> 0, earlyGrace |-> 0, earlyCheckin |-> 15, lateCheckout |-> 15,
   creditLateEarly |-> FALSE]

MinutesOr(value, fallback) == IF value < 0 THEN fallback ELSE value

(* A saved setting row gives the rules; the allowance for leaving early is *)
(* the one for coming late unless the store says otherwise.                *)
ResolveAttendanceRules(s) ==
  LET grace == MinutesOr(s.allowedLate, DefaultAttendanceRules.grace)
  IN IF ~s.saved THEN DefaultAttendanceRules
     ELSE [grace           |-> grace,
           earlyGrace      |-> MinutesOr(s.allowedEarlyLeave, grace),
           earlyCheckin    |-> MinutesOr(s.earlyCheckin,
                                         DefaultAttendanceRules.earlyCheckin),
           lateCheckout    |-> MinutesOr(s.lateCheckout,
                                         DefaultAttendanceRules.lateCheckout),
           creditLateEarly |-> s.countFullTimeIfLate \/ ~s.deductWorkTimeIfLate]

ApplyGrace(raw, allowed) == IF raw <= allowed THEN 0 ELSE raw

CheckInOpensAt(start, rules) == start - rules.earlyCheckin

(* The minutes of a shift that are paid.  w is the window, checkIn and     *)
(* checkOut the recorded instants, late the minutes stored at check-in     *)
(* (zero: forgiven) or Null, paidUntil the end of approved overtime or     *)
(* Null, actual whether the store pays the time between the two readings   *)
(* and capped whether even that ends with the shift.                       *)
CreditedWorkedMinutes(w, checkIn, checkOut, rules, late, paidUntil,
                      actual, capped) ==
  LET paidEnd == AtLeast(w.end, paidUntil)
      forgivenLate ==
        rules.creditLateEarly
        \/ (IF Present(late) THEN late
            ELSE ApplyGrace(checkIn - w.start, rules.grace)) = 0
      forgivenEarly ==
        rules.creditLateEarly
        \/ ApplyGrace(w.end - checkOut, rules.earlyGrace) = 0
      from == IF checkIn < w.start \/ forgivenLate THEN w.start ELSE checkIn
      to   == IF checkOut < w.end /\ forgivenEarly THEN w.end
              ELSE AtMost(checkOut, paidEnd)
  IN IF actual
     THEN AtLeast(0, (IF capped THEN AtMost(checkOut, paidEnd) ELSE checkOut)
                       - checkIn)
     ELSE AtLeast(0, to - from)

-----------------------------------------------------------------------------
(* What a check-in or check-out offends                                    *)

QRRequirements  == {"LOCATION_QR_GPS_FACEID", "QR_ONLY", "GPS_QR"}
GPSRequirements == {"LOCATION_QR_GPS_FACEID", "GPS_ONLY", "GPS_QR"}
DefaultAttendanceRadius == 50

(* The store asks for everything unless it chose otherwise.                *)
Requirement(i) ==
  IF i.requirement = "NONE" THEN "LOCATION_QR_GPS_FACEID" ELSE i.requirement

(* With a photograph: qr is "none", "own" or "other" store, fix whether a  *)
(* location came along, distance Null when it could not be measured.       *)
EvaluateAttendanceRules(i) ==
  LET qrRequired == i.requireQrScan /\ Requirement(i) \in QRRequirements
      locationRequired == i.requireLocation /\ ~i.locationExempt
                          /\ Requirement(i) \in GPSRequirements
  IN  {v \in {"QR_MISMATCH"} : i.qr = "other"}
      \cup {v \in {"QR_REQUIRED"} : i.qr = "none" /\ qrRequired}
      \cup {v \in {"LOCATION_REQUIRED"} : ~i.fix /\ locationRequired}
      \cup {v \in {"OUT_OF_RANGE"} : /\ i.fix
                                     /\ locationRequired
                                     /\ i.radius > 0
                                     /\ Present(i.distance)
                                     /\ i.distance > i.radius}

(* Without one: only stores that chose GPS and QR, or QR alone, accept it, *)
(* and then the code and the place are always demanded.                    *)
EvaluateFacelessAttendance(i) ==
  LET radius == IF i.radius > 0 THEN i.radius ELSE DefaultAttendanceRadius
      gps == i.requirement = "GPS_QR"
  IN  IF i.requirement \notin {"GPS_QR", "QR_ONLY"} THEN {"FACE_REQUIRED"}
      ELSE {v \in {"QR_REQUIRED"} : i.qr = "none"}
           \cup {v \in {"QR_MISMATCH"} : i.qr = "other"}
           \cup {v \in {"STORE_LOCATION_MISSING"} : gps /\ ~i.storeHasLocation}
           \cup {v \in {"LOCATION_REQUIRED"} :
                   gps /\ i.storeHasLocation /\ ~Present(i.distance)}
           \cup {v \in {"OUT_OF_RANGE"} : /\ gps
                                          /\ i.storeHasLocation
                                          /\ Present(i.distance)
                                          /\ i.distance > radius}

(* Whether the policy lets the attendance through: violations refuse a     *)
(* faceless one always, one with a photograph only when enforcing.  The    *)
(* distance is measured when both ends of it are known.                    *)
ApplyAttendancePolicy(i, faceless, enforcing) ==
  LET j == [i EXCEPT !.distance = IF i.fix /\ i.storeHasLocation THEN @ ELSE Null]
  IN IF faceless THEN EvaluateFacelessAttendance(j) = {}
     ELSE enforcing => EvaluateAttendanceRules(j) = {}
=============================================================================
