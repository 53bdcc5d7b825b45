--------------------------- MODULE PlanningProofs ---------------------------
(***************************************************************************)
(* Proofs about ShiftReminders, OwnerAlerts, WorkedTimeRules,              *)
(* CustomShifts, WorkSupplements and ChangeRequests: the promises that a   *)
(* run checks hold for every value of the constants.                       *)
(***************************************************************************)
EXTENDS ShiftReminders, OwnerAlerts, WorkedTimeRules, CustomShifts, WorkSupplements,
        ChangeRequests, FiniteSetTheorems, WellFoundedInduction, TLAPS

-----------------------------------------------------------------------------
(* Least elements, instead of an induction of ours: the library's order    *)
(* of the natural numbers is well founded.                                 *)

\* A set of numbers that is not empty has a least one.
LEMMA LeastOf ==
  ASSUME NEW T \in SUBSET Nat, T # {}
  PROVE  \E m \in T : \A t \in T : m <= t
<1>1. \E m \in T : \A t \in T : ~(<<t, m>> \in OpToRel(<, Nat))
  BY NatLessThanWellFounded, WFMin
<1>2. \A x, y \in Nat : x < y => <<x, y>> \in OpToRel(<, Nat)
  BY DEF OpToRel
<1>3. PICK m \in T : \A t \in T : ~(<<t, m>> \in OpToRel(<, Nat))
  BY <1>1
<1>4. ASSUME NEW t \in T PROVE m <= t
  <2>1. ~(t < m) /\ t \in Nat /\ m \in Nat
    BY <1>2, <1>3
  <2> QED
    BY <2>1
<1> QED
  BY <1>4


-----------------------------------------------------------------------------
(* ShiftReminders.  What is inductive: whoever is between two calls of the *)
(* queue holds the lease, so what he has seen of the jobs still goes for   *)
(* them; the ids never hold two jobs of one plan; nothing is sent before   *)
(* its time, and from then on what was sent and what can still be sent is  *)
(* accounted for; and somebody minds that the right job waits.             *)

RemJobSet == {NoRemJob} \cup JobsIn(RemJobStates)
Ops == {"sync", "cancel"}

(* Shapes: plans, jobs of the queue, desks.                                *)
LEMMA PlansAreTimes ==
  /\ \A fp \in Plans : fp[1] \in Nat /\ fp[2] \in Nat /\ DueOf(fp) \in Int
  /\ \A s \in RemShifts : /\ s.approved \in BOOLEAN /\ s.leave \in BOOLEAN
                          /\ s.start \in Nat /\ s.lead \in Nat /\ Fingerprint(s) \in Plans
                          /\ DueOf(Fingerprint(s)) = s.start - s.lead
<1>1. \A fp \in Plans : fp[1] \in Nat /\ fp[2] \in Nat
  BY RemindersAssumption DEF Plans
<1>2. \A fp \in Plans : DueOf(fp) \in Int
  BY <1>1 DEF DueOf
<1>3. \A s \in RemShifts : /\ s.approved \in BOOLEAN /\ s.leave \in BOOLEAN
                           /\ s.start \in ShiftStarts /\ s.lead \in Leads
  BY DEF RemShifts
<1>4. \A s \in RemShifts : /\ s.start \in Nat /\ s.lead \in Nat /\ Fingerprint(s) \in Plans
                           /\ DueOf(Fingerprint(s)) = s.start - s.lead
  BY <1>3, RemindersAssumption DEF Fingerprint, Plans, DueOf
<1> QED
  BY <1>1, <1>2, <1>3, <1>4

LEMMA RemJobShapes ==
  /\ NoRemJob.state = "none" /\ NoRemJob \in RemJobSet
  /\ \A fp, due, st : /\ RemJob(fp, due, st).state = st /\ RemJob(fp, due, st).fp = fp
                      /\ RemJob(fp, due, st).due = due /\ (st # "none" => RemJob(fp, due, st) # NoRemJob)
  /\ \A j \in JobsIn(RemJobStates) :
       /\ j.state \in RemJobStates /\ j.fp \in Plans /\ j.due = DueOf(j.fp)
       /\ j = RemJob(j.fp, DueOf(j.fp), j.state) /\ j # NoRemJob
  /\ \A j \in RemJobSet : j.state = "none" <=> j = NoRemJob
  /\ \A j \in RemJobSet : j # NoRemJob => j \in JobsIn(RemJobStates)
  /\ \A fp \in Plans, st \in RemJobStates : RemJob(fp, DueOf(fp), st) \in RemJobSet
  /\ JobsIn({"delayed"}) \subseteq JobsIn(RemJobStates)
  /\ \A j \in JobsIn({"delayed"}) : j.state = "delayed"
  /\ Planned \subseteq RemJobSet
<1>1. NoRemJob.state = "none" /\ NoRemJob \in RemJobSet
  BY DEF NoRemJob, RemJobSet
<1>2. \A fp, due, st : /\ RemJob(fp, due, st).state = st /\ RemJob(fp, due, st).fp = fp
                       /\ RemJob(fp, due, st).due = due
  BY DEF RemJob
<1>3. \A fp, due, st : st # "none" => RemJob(fp, due, st) # NoRemJob
  BY <1>1, <1>2
<1>4. \A j \in JobsIn(RemJobStates) :
       /\ j.state \in RemJobStates /\ j.fp \in Plans /\ j.due = DueOf(j.fp)
       /\ j = RemJob(j.fp, DueOf(j.fp), j.state)
  BY <1>2 DEF JobsIn
<1>5. \A j \in JobsIn(RemJobStates) : j # NoRemJob /\ j.state # "none"
  BY <1>1, <1>4 DEF RemJobStates
<1>6. \A j \in RemJobSet : /\ j.state = "none" <=> j = NoRemJob
                           /\ j # NoRemJob => j \in JobsIn(RemJobStates)
  BY <1>1, <1>5 DEF RemJobSet
<1>7. \A fp \in Plans, st \in RemJobStates : RemJob(fp, DueOf(fp), st) \in RemJobSet
  BY DEF RemJobSet, JobsIn
<1>8. /\ JobsIn({"delayed"}) \subseteq JobsIn(RemJobStates)
      /\ \A j \in JobsIn({"delayed"}) : j.state = "delayed"
  BY <1>2 DEF JobsIn, RemJobStates
<1> QED
  BY <1>1, <1>2, <1>3, <1>4, <1>5, <1>6, <1>7, <1>8 DEF Planned, RemJobSet

LEMMA RemDeskShapes ==
  /\ IdleRemDesk \in RemDeskStates /\ IdleRemDesk.at = "idle"
  /\ \A s \in RemDeskStates :
       /\ s.at \in {"idle", "wait", "read", "renew", "primary", "successor", "add"}
       /\ s.at = "idle" => s = IdleRemDesk
       /\ s.at # "idle" => s.op \in Ops /\ s.tries \in {1, 2}
       /\ s.at = "wait" => s = [at |-> "wait", op |-> s.op, tries |-> s.tries]
       /\ s.at = "renew" => s.saw \in RemShifts
       /\ s.at \in {"primary", "successor"} => s.job \in Planned
       /\ s.at = "successor" => s.kept \in RemJobSet
       /\ s.at = "add" => s.job \in JobsIn({"delayed"}) /\ s.id \in JobIds /\ s.op = "sync"
  /\ \A o \in Ops, t \in {1, 2} :
       /\ [at |-> "wait", op |-> o, tries |-> t] \in RemDeskStates
       /\ [at |-> "read", op |-> o, tries |-> t] \in RemDeskStates
       /\ \A w \in RemShifts : [at |-> "renew", op |-> o, tries |-> t, saw |-> w] \in RemDeskStates
       /\ \A j \in Planned :
            /\ [at |-> "primary", op |-> o, tries |-> t, job |-> j] \in RemDeskStates
            /\ \A k \in RemJobSet :
                 [at |-> "successor", op |-> o, tries |-> t, job |-> j, kept |-> k] \in RemDeskStates
  /\ \A t \in {1, 2}, j \in JobsIn({"delayed"}), i \in JobIds :
       [at |-> "add", op |-> "sync", tries |-> t, job |-> j, id |-> i] \in RemDeskStates
<1>1. IdleRemDesk \in RemDeskStates /\ IdleRemDesk.at = "idle"
  BY DEF RemDeskStates, IdleRemDesk
<1>2. \A s \in RemDeskStates :
       /\ s.at \in {"idle", "wait", "read", "renew", "primary", "successor", "add"}
       /\ s.at = "idle" => s = IdleRemDesk
       /\ s.at # "idle" => s.op \in Ops /\ s.tries \in {1, 2}
       /\ s.at = "wait" => s = [at |-> "wait", op |-> s.op, tries |-> s.tries]
       /\ s.at = "renew" => s.saw \in RemShifts
       /\ s.at \in {"primary", "successor"} => s.job \in Planned
       /\ s.at = "successor" => s.kept \in RemJobSet
       /\ s.at = "add" => s.job \in JobsIn({"delayed"}) /\ s.id \in JobIds /\ s.op = "sync"
  <2> USE DEF IdleRemDesk, RemDeskStates, Ops, RemJobSet
  <2>1. \A s \in RemDeskStates :
       /\ s.at \in {"idle", "wait", "read", "renew", "primary", "successor", "add"}
       /\ s.at = "idle" => s = IdleRemDesk
       /\ s.at # "idle" => s.op \in Ops /\ s.tries \in {1, 2}
    OBVIOUS
  <2>2. \A s \in RemDeskStates :
       /\ s.at = "wait" => s = [at |-> "wait", op |-> s.op, tries |-> s.tries]
       /\ s.at = "renew" => s.saw \in RemShifts
    OBVIOUS
  <2>3. \A s \in RemDeskStates :
       /\ s.at \in {"primary", "successor"} => s.job \in Planned
       /\ s.at = "successor" => s.kept \in RemJobSet
       /\ s.at = "add" => s.job \in JobsIn({"delayed"}) /\ s.id \in JobIds /\ s.op = "sync"
    OBVIOUS
  <2> QED
    BY <2>1, <2>2, <2>3
<1>3. \A o \in Ops, t \in {1, 2} :
       /\ [at |-> "wait", op |-> o, tries |-> t] \in RemDeskStates
       /\ [at |-> "read", op |-> o, tries |-> t] \in RemDeskStates
       /\ \A w \in RemShifts : [at |-> "renew", op |-> o, tries |-> t, saw |-> w] \in RemDeskStates
  BY DEF RemDeskStates, Ops
<1>4. \A o \in Ops, t \in {1, 2} : \A j \in Planned :
       /\ [at |-> "primary", op |-> o, tries |-> t, job |-> j] \in RemDeskStates
       /\ \A k \in RemJobSet :
            [at |-> "successor", op |-> o, tries |-> t, job |-> j, kept |-> k] \in RemDeskStates
  BY DEF RemDeskStates, Ops, RemJobSet
<1>5. \A t \in {1, 2}, j \in JobsIn({"delayed"}), i \in JobIds :
       [at |-> "add", op |-> "sync", tries |-> t, job |-> j, id |-> i] \in RemDeskStates
  BY DEF RemDeskStates
<1> QED
  BY <1>1, <1>2, <1>3, <1>4, <1>5

LEMMA PlanIsAJob ==
  ASSUME NEW s \in RemShifts, NEW now \in Nat
  PROVE  /\ ReminderPlan(s, now) \in Planned
         /\ ReminderPlan(s, now) # NoRemJob =>
              /\ ReminderPlan(s, now) \in JobsIn({"delayed"})
              /\ now < DueOf(ReminderPlan(s, now).fp)
         /\ ReminderPlan(s, now + 1) # NoRemJob => ReminderPlan(s, now + 1) = ReminderPlan(s, now)
<1> DEFINE job == RemJob(Fingerprint(s), DueOf(Fingerprint(s)), "delayed")
<1>1. /\ DueOf(Fingerprint(s)) = s.start - s.lead /\ s.start \in Nat /\ s.lead \in Nat
      /\ Fingerprint(s) \in Plans
  BY PlansAreTimes
<1>2. /\ job \in JobsIn({"delayed"}) /\ job # NoRemJob /\ job.fp = Fingerprint(s)
  BY <1>1, RemJobShapes DEF JobsIn
<1>3. \A t \in Nat : ReminderPlan(s, t) =
        IF s.approved /\ s.lead # 0 /\ s.start - s.lead > t THEN job ELSE NoRemJob
  BY <1>1 DEF ReminderPlan
<1> HIDE DEF job
<1>4. ReminderPlan(s, now) \in Planned
  BY <1>2, <1>3 DEF Planned
<1>5. ReminderPlan(s, now) # NoRemJob =>
              /\ ReminderPlan(s, now) \in JobsIn({"delayed"})
              /\ now < DueOf(ReminderPlan(s, now).fp)
  BY <1>1, <1>2, <1>3
<1>6. ReminderPlan(s, now + 1) # NoRemJob => ReminderPlan(s, now + 1) = ReminderPlan(s, now)
  <2>1. now + 1 \in Nat /\ (s.start - s.lead > now + 1 => s.start - s.lead > now)
    BY <1>1
  <2> QED
    BY <1>3, <2>1
<1> QED
  BY <1>4, <1>5, <1>6

LEMMA SamePlanLater ==
  ASSUME NEW s \in RemShifts, NEW r \in RemShifts, NEW now \in Nat,
         ReminderPlan(s, now) = ReminderPlan(r, now), ReminderPlan(r, now + 1) # NoRemJob
  PROVE  ReminderPlan(s, now + 1) = ReminderPlan(r, now + 1)
<1> DEFINE Job(x) == RemJob(Fingerprint(x), DueOf(Fingerprint(x)), "delayed")
<1>1. \A x \in RemShifts : DueOf(Fingerprint(x)) = x.start - x.lead /\ x.start \in Nat /\ x.lead \in Nat
  BY PlansAreTimes
<1>2. \A x \in RemShifts : \A t \in Nat : ReminderPlan(x, t) =
        IF x.approved /\ x.lead # 0 /\ DueOf(Fingerprint(x)) > t THEN Job(x) ELSE NoRemJob
  BY <1>1 DEF ReminderPlan
<1>3. \A x \in RemShifts : Job(x) # NoRemJob /\ Job(x).fp = Fingerprint(x)
  BY RemJobShapes
<1> HIDE DEF Job
<1>4. now + 1 \in Nat /\ ReminderPlan(r, now + 1) = Job(r) /\ DueOf(Fingerprint(r)) > now + 1
  BY <1>2
<1>5. ReminderPlan(r, now) = Job(r)
  BY <1>4, <1>3, PlanIsAJob
<1>6. s.approved /\ s.lead # 0 /\ Job(s) = Job(r) /\ Fingerprint(s) = Fingerprint(r)
  BY <1>2, <1>3, <1>5
<1> QED
  BY <1>2, <1>4, <1>6

RemKnown ==
  SectionsAreAlone /\ OneJobForAPlan /\ RemindersInTime /\ SendsAccounted /\ SomebodyMinds
Plan == ReminderPlan(remShift, remClock)

\* The desk of d changes, and no other.
RemTurnsTo(d, s) == remDesk' = [remDesk EXCEPT ![d] = s]

LEMMA OneRemDeskTurns ==
  ASSUME RemindersTypeOK, NEW d \in RemDesks, NEW s \in RemDeskStates, RemTurnsTo(d, s)
  PROVE  /\ remDesk' \in [RemDesks -> RemDeskStates]
         /\ \A e \in RemDesks : remDesk'[e] = IF e = d THEN s ELSE remDesk[e]
         /\ remDesk'[d] = s
BY DEF RemindersTypeOK, RemTurnsTo

\* What is known of the queue outlives a step that leaves the queue alone
\* and lets nobody in.
LEMMA QueueUntouched ==
  ASSUME RemindersTypeOK, RemKnown, UNCHANGED <<remClock, remJobs, reminded, remMishaps>>,
         \A e \in RemDesks : InSection(e)' =>
           InSection(e) /\ remDesk'[e] = remDesk[e] /\ remLease' = e
  PROVE  SectionsAreAlone' /\ OneJobForAPlan' /\ RemindersInTime' /\ SendsAccounted'
<1>1. SectionsAreAlone'
  BY DEF RemKnown, SectionsAreAlone, InSection
<1>2. OneJobForAPlan' /\ RemindersInTime'
  BY DEF RemKnown, OneJobForAPlan, RemindersInTime
<1>3. \A fp \in Plans : (CanSend(fp)' <=> CanSend(fp)) /\ (WillAdd(fp)' => WillAdd(fp))
  BY DEF CanSend, WillAdd, InSection
<1>4. \A fp \in Plans : reminded[fp] \in Nat /\ remMishaps \in Nat
  BY RemindersAssumption DEF RemindersTypeOK
<1>5. SendsAccounted'
  BY <1>3, <1>4 DEF RemKnown, SendsAccounted
<1> QED
  BY <1>1, <1>2, <1>5

\* A desk that is not idle takes a step: the others mind what they minded,
\* so it is enough that this one goes on minding, or that something is
\* missed.
LEMMA MindingGoesOn ==
  ASSUME RemindersTypeOK, RemKnown, NEW d \in RemDesks, NEW s \in RemDeskStates,
         RemTurnsTo(d, s), remDesk[d].at # "idle", UNCHANGED <<remShift, remClock>>,
         remMissed => remMissed',
         \A e \in RemDesks : e # d /\ remLease' = e => remLease = e,
         ~remMissed' /\ Plan # NoRemJob /\ Minds(d, Plan) =>
           Minds(d, Plan)' \/ ((\A e \in RemDesks : remDesk'[e] = IdleRemDesk)
                                /\ \E id \in JobIds : remJobs'[id] = Plan)
                           \/ \E e \in RemDesks : e # d /\ Minds(e, Plan)
  PROVE  SomebodyMinds'
<1>1. Plan' = Plan /\ ReminderPlan(remShift, remClock)' = Plan
  BY DEF Plan
<1>2. \A e \in RemDesks : e # d => remDesk'[e] = remDesk[e]
  BY OneRemDeskTurns
<1>3. \A e \in RemDesks : e # d /\ Minds(e, Plan) => Minds(e, Plan)'
  BY <1>1, <1>2 DEF Minds
<1> SUFFICES ASSUME ~remMissed', ~remShift'.leave, Plan # NoRemJob
             PROVE  \/ \E e \in RemDesks : Minds(e, Plan)'
                    \/ /\ \A e \in RemDesks : remDesk'[e] = IdleRemDesk
                       /\ \E id \in JobIds : remJobs'[id] = Plan
  BY <1>1 DEF SomebodyMinds
<1>4. remDesk[d] # IdleRemDesk
  BY RemDeskShapes
<1>5. \E e \in RemDesks : Minds(e, Plan)
  BY <1>4 DEF RemKnown, SomebodyMinds, Plan
<1> QED
  BY <1>3, <1>5

LEMMA SomebodyStartsMinding ==
  ASSUME NEW d \in RemDesks, Minds(d, Plan)'
  PROVE  SomebodyMinds'
BY DEF SomebodyMinds, Plan

LEMMA RemCallIsState ==
  ASSUME RemindersTypeOK, NEW d \in RemDesks, NEW op \in Ops, RemCall(d, op)
  PROVE  /\ RemTurnsTo(d, [at |-> "wait", op |-> op, tries |-> 1])
         /\ [at |-> "wait", op |-> op, tries |-> 1] \in RemDeskStates
         /\ remDesk'[d].at = "wait" /\ remDesk' \in [RemDesks -> RemDeskStates]
         /\ \A e \in RemDesks : e # d => remDesk'[e] = remDesk[e]
<1> DEFINE s == [at |-> "wait", op |-> op, tries |-> 1]
<1>1. RemTurnsTo(d, s) /\ s \in RemDeskStates /\ s.at = "wait"
  BY RemDeskShapes DEF RemCall, RemTurnsTo
<1> HIDE DEF s
<1>2. /\ remDesk' \in [RemDesks -> RemDeskStates] /\ remDesk'[d] = s
      /\ \A e \in RemDesks : e # d => remDesk'[e] = remDesk[e]
  BY <1>1, OneRemDeskTurns
<1> QED
  BY <1>1, <1>2 DEF s

\* Somebody idle is asked to bring the queue into line.
LEMMA CallKeeps ==
  ASSUME RemindersTypeOK, RemKnown, NEW d \in RemDesks, remDesk[d] = IdleRemDesk,
         NEW op \in Ops, RemCall(d, op), remShift' \in RemShifts,
         UNCHANGED <<remClock, remJobs, remLease, remMissed, reminded, remMishaps>>
  PROVE  RemindersTypeOK' /\ RemKnown'
<1>1. /\ remDesk'[d].at = "wait" /\ remDesk' \in [RemDesks -> RemDeskStates]
      /\ \A e \in RemDesks : e # d => remDesk'[e] = remDesk[e]
      /\ remDesk[d].at = "idle"
  BY RemCallIsState, RemDeskShapes
<1>2. RemindersTypeOK'
  BY <1>1 DEF RemindersTypeOK
<1>3. \A e \in RemDesks : InSection(e)' =>
           InSection(e) /\ remDesk'[e] = remDesk[e] /\ remLease' = e
  BY <1>1 DEF InSection, RemKnown, SectionsAreAlone
<1>4. SomebodyMinds'
  BY <1>1, SomebodyStartsMinding DEF Minds
<1> QED
  BY <1>2, <1>3, <1>4, QueueUntouched DEF RemKnown

LEMMA ChangeBookingKeeps ==
  ASSUME RemindersTypeOK, RemKnown, NEW d \in RemDesks, ChangeBooking(d)
  PROVE  RemindersTypeOK' /\ RemKnown'
<1>1. remShift.leave \in BOOLEAN
  BY PlansAreTimes DEF RemindersTypeOK
<1>2. PICK s \in [approved : BOOLEAN, leave : {remShift.leave}, start : ShiftStarts, lead : Leads] :
        remShift' = s /\ RemCall(d, IF s.approved THEN "sync" ELSE "cancel")
  BY DEF ChangeBooking
<1>3. remShift' \in RemShifts
  BY <1>1, <1>2 DEF RemShifts
<1>4. PICK op \in Ops : RemCall(d, op)
  BY <1>2 DEF Ops
<1> QED
  BY <1>3, <1>4, CallKeeps DEF ChangeBooking

LEMMA ReconcileKeeps ==
  ASSUME RemindersTypeOK, RemKnown, NEW d \in RemDesks, ReconcileReminders(d)
  PROVE  RemindersTypeOK' /\ RemKnown'
<1>1. RemCall(d, "sync") /\ "sync" \in Ops /\ remShift' \in RemShifts
  BY DEF ReconcileReminders, Ops, RemindersTypeOK
<1> QED
  BY <1>1, CallKeeps DEF ReconcileReminders

LEMMA LeaveApprovedKeeps ==
  ASSUME RemindersTypeOK, RemKnown, NEW d \in RemDesks, LeaveApproved(d)
  PROVE  RemindersTypeOK' /\ RemKnown'
<1>1. remShift' \in RemShifts /\ remShift'.leave
  BY DEF LeaveApproved, RemindersTypeOK, RemShifts
<1>2. CASE RemCall(d, "cancel")
  BY <1>1, <1>2, CallKeeps DEF LeaveApproved, Ops
<1>3. CASE UNCHANGED remDesk
  <2>1. RemindersTypeOK'
    BY <1>1, <1>3 DEF LeaveApproved, RemindersTypeOK
  <2>2. \A e \in RemDesks : InSection(e)' =>
           InSection(e) /\ remDesk'[e] = remDesk[e] /\ remLease' = e
    BY <1>3 DEF LeaveApproved, InSection, RemKnown, SectionsAreAlone
  <2>3. SomebodyMinds'
    BY <1>1 DEF SomebodyMinds
  <2> QED
    BY <2>1, <2>2, <2>3, QueueUntouched DEF LeaveApproved, RemKnown
<1> QED
  BY <1>2, <1>3 DEF LeaveApproved

LEMMA LeaveWithdrawnKeeps ==
  ASSUME RemindersTypeOK, RemKnown, LeaveWithdrawn
  PROVE  RemindersTypeOK' /\ RemKnown'
<1>1. remShift' \in RemShifts /\ remMissed'
      /\ UNCHANGED <<remClock, remJobs, remLease, remDesk, reminded, remMishaps>>
  BY DEF LeaveWithdrawn, RemindersTypeOK, RemShifts
<1>2. RemindersTypeOK'
  BY <1>1 DEF RemindersTypeOK, LeaveWithdrawn
<1>3. \A e \in RemDesks : InSection(e)' =>
         InSection(e) /\ remDesk'[e] = remDesk[e] /\ remLease' = e
  BY <1>1 DEF InSection, RemKnown, SectionsAreAlone
<1>4. SomebodyMinds'
  BY <1>1 DEF SomebodyMinds
<1> QED
  BY <1>1, <1>2, <1>3, <1>4, QueueUntouched DEF RemKnown

LEMMA AcquireLeaseKeeps ==
  ASSUME RemindersTypeOK, RemKnown, NEW d \in RemDesks, AcquireLease(d)
  PROVE  RemindersTypeOK' /\ RemKnown'
<1> DEFINE s == [at |-> "read", op |-> remDesk[d].op, tries |-> remDesk[d].tries]
<1>1. remDesk[d] \in RemDeskStates /\ remDesk[d].at = "wait"
  BY DEF AcquireLease, RemindersTypeOK
<1>2. remDesk[d] = [at |-> "wait", op |-> remDesk[d].op, tries |-> remDesk[d].tries]
      /\ s \in RemDeskStates /\ s.at = "read"
  BY <1>1, RemDeskShapes
<1>3. RemTurnsTo(d, s)
  <2>1. [remDesk[d] EXCEPT !.at = "read"] = s
    BY <1>2
  <2>2. remDesk' = [remDesk EXCEPT ![d] = [remDesk[d] EXCEPT !.at = "read"]]
    BY DEF AcquireLease
  <2> QED
    BY <2>1, <2>2 DEF RemTurnsTo
<1> HIDE DEF s
<1>4. /\ remDesk' \in [RemDesks -> RemDeskStates] /\ remDesk'[d] = s
      /\ \A e \in RemDesks : e # d => remDesk'[e] = remDesk[e]
  BY <1>2, <1>3, OneRemDeskTurns
<1>5. RemindersTypeOK'
  BY <1>2, <1>4 DEF AcquireLease, RemindersTypeOK
<1>6. \A e \in RemDesks : ~InSection(e)'
  BY <1>2, <1>4, RemindersAssumption DEF AcquireLease, InSection, RemKnown, SectionsAreAlone
<1>7. SomebodyMinds'
  BY <1>2, <1>4, SomebodyStartsMinding DEF Minds
<1> QED
  BY <1>5, <1>6, <1>7, QueueUntouched DEF AcquireLease, RemKnown

\* Somebody outside the section gives up, which is noted.
LEMMA GivingUpKeeps ==
  ASSUME RemindersTypeOK, RemKnown, NEW d \in RemDesks, remLease # d, Gone(d), remMissed' = TRUE,
         UNCHANGED <<remClock, remShift, remJobs, remLease, reminded, remMishaps>>
  PROVE  RemindersTypeOK' /\ RemKnown'
<1>1. /\ remDesk' \in [RemDesks -> RemDeskStates] /\ remDesk'[d] = IdleRemDesk
      /\ \A e \in RemDesks : e # d => remDesk'[e] = remDesk[e]
  BY OneRemDeskTurns, RemDeskShapes DEF Gone, RemTurnsTo
<1>2. RemindersTypeOK'
  BY <1>1 DEF RemindersTypeOK
<1>3. \A e \in RemDesks : InSection(e)' =>
         InSection(e) /\ remDesk'[e] = remDesk[e] /\ remLease' = e
  BY <1>1, RemDeskShapes DEF InSection, RemKnown, SectionsAreAlone
<1>4. SomebodyMinds'
  BY DEF SomebodyMinds
<1> QED
  BY <1>2, <1>3, <1>4, QueueUntouched DEF RemKnown

LEMMA LeaseUnavailableKeeps ==
  ASSUME RemindersTypeOK, RemKnown, NEW d \in RemDesks, LeaseUnavailable(d)
  PROVE  RemindersTypeOK' /\ RemKnown'
<1>1. remLease # d
  BY RemindersAssumption DEF LeaseUnavailable, RemindersTypeOK
<1> QED
  BY <1>1, GivingUpKeeps DEF LeaseUnavailable

LEMMA LeaseRunsOutKeeps ==
  ASSUME RemindersTypeOK, RemKnown, LeaseRunsOut
  PROVE  RemindersTypeOK' /\ RemKnown'
<1>1. RemindersTypeOK'
  BY DEF LeaseRunsOut, RemindersTypeOK
<1>2. \A e \in RemDesks : ~InSection(e)'
  BY DEF LeaseRunsOut, InSection, RemKnown, SectionsAreAlone
<1>3. \A e \in RemDesks : Minds(e, Plan) => Minds(e, Plan)'
  BY RemindersAssumption DEF LeaseRunsOut, Minds, Plan
<1>4. SomebodyMinds'
  BY <1>3 DEF LeaseRunsOut, RemKnown, SomebodyMinds, Plan
<1> QED
  BY <1>1, <1>2, <1>4, QueueUntouched DEF LeaseRunsOut, RemKnown

LEMMA ReadBookingKeeps ==
  ASSUME RemindersTypeOK, RemKnown, NEW d \in RemDesks, ReadBooking(d)
  PROVE  RemindersTypeOK' /\ RemKnown'
<1> DEFINE s == [at |-> "renew", op |-> remDesk[d].op, tries |-> remDesk[d].tries, saw |-> remShift]
<1>1. remDesk[d] \in RemDeskStates /\ remDesk[d].at = "read" /\ remShift \in RemShifts
  BY DEF ReadBooking, RemindersTypeOK
<1>2. s \in RemDeskStates /\ s.at = "renew" /\ RemTurnsTo(d, s) /\ s.saw = remShift
  BY <1>1, RemDeskShapes DEF ReadBooking, RemTurnsTo
<1> HIDE DEF s
<1>3. /\ remDesk' \in [RemDesks -> RemDeskStates] /\ remDesk'[d] = s
      /\ \A e \in RemDesks : e # d => remDesk'[e] = remDesk[e]
  BY <1>2, OneRemDeskTurns
<1>4. RemindersTypeOK'
  BY <1>2, <1>3 DEF ReadBooking, RemindersTypeOK
<1>5. \A e \in RemDesks : InSection(e)' =>
         InSection(e) /\ remDesk'[e] = remDesk[e] /\ remLease' = e
  BY <1>2, <1>3 DEF ReadBooking, InSection, RemKnown, SectionsAreAlone
<1>6. Minds(d, Plan)'
  BY <1>2, <1>3 DEF ReadBooking, Minds, Plan
<1> QED
  BY <1>4, <1>5, <1>6, SomebodyStartsMinding, QueueUntouched DEF ReadBooking, RemKnown

LEMMA RenewLeaseKeeps ==
  ASSUME RemindersTypeOK, RemKnown, NEW d \in RemDesks, RenewLease(d)
  PROVE  RemindersTypeOK' /\ RemKnown'
<1> DEFINE job == IF remDesk[d].op = "sync" THEN ReminderPlan(remDesk[d].saw, remClock) ELSE NoRemJob
           s == [at |-> "primary", op |-> remDesk[d].op, tries |-> remDesk[d].tries, job |-> job]
<1>1. remDesk[d] \in RemDeskStates /\ remDesk[d].at = "renew" /\ remClock \in Nat
  BY RemindersAssumption DEF RenewLease, RemindersTypeOK
<1>2. CASE remLease # d
  BY <1>2, GivingUpKeeps DEF RenewLease
<1>3. CASE remLease = d
  <2>1. job \in Planned /\ (job # NoRemJob => remClock < DueOf(job.fp) /\ job.fp \in Plans)
    <3>1. remDesk[d].saw \in RemShifts
      BY <1>1, RemDeskShapes
    <3> QED
      BY <1>1, <3>1, PlanIsAJob, RemJobShapes DEF Planned
  <2>2. s \in RemDeskStates /\ s.at = "primary" /\ s.op = remDesk[d].op /\ s.job = job
    BY <1>1, <2>1, RemDeskShapes
  <2>3. RemTurnsTo(d, s) /\ UNCHANGED <<remMissed, remClock, remShift, remJobs, remLease, reminded, remMishaps>>
    BY <1>3 DEF RenewLease, RemTurnsTo
  <2>4. job = NoRemJob \/ remDesk[d].op = "sync"
    OBVIOUS
  <2>5. Plan # NoRemJob /\ Minds(d, Plan) => remDesk[d].op = "cancel" \/ job = Plan
    BY <1>1, <1>3, RemDeskShapes DEF Minds, Ops
  <2>11. Minds(d, Plan)' <=> s.op = "cancel" \/ s.job = Plan
    <3>1. remDesk'[d] = s /\ Plan' = Plan
      BY <2>2, <2>3, OneRemDeskTurns DEF Plan
    <3> QED
      BY <2>2, <3>1 DEF Minds
  <2> HIDE DEF s, job
  <2>6. /\ remDesk' \in [RemDesks -> RemDeskStates] /\ remDesk'[d] = s
        /\ \A e \in RemDesks : e # d => remDesk'[e] = remDesk[e]
    BY <2>2, <2>3, OneRemDeskTurns
  <2>7. RemindersTypeOK'
    BY <2>2, <2>3, <2>6 DEF RemindersTypeOK
  <2>8. \A e \in RemDesks : (InSection(e)' <=> e = d) /\ (e # d => ~InSection(e))
    BY <1>3, <2>2, <2>6 DEF InSection, RemKnown, SectionsAreAlone
  <2>9. SectionsAreAlone'
    <3> SUFFICES ASSUME NEW e \in RemDesks
                 PROVE  /\ InSection(e)' => remLease' = e
                        /\ remDesk'[e].at \in {"primary", "successor"} /\ remDesk'[e].op = "cancel" =>
                             remDesk'[e].job = NoRemJob
                        /\ remDesk'[e].at \notin {"successor", "add"}
      BY DEF SectionsAreAlone
    <3>1. CASE e = d
      BY <1>3, <2>2, <2>3, <2>4, <2>6, <3>1 DEF Ops
    <3>2. CASE e # d
      BY <2>6, <2>8, <3>2 DEF InSection
    <3> QED
      BY <3>1, <3>2
  <2>10. SendsAccounted'
    <3>1. \A fp \in Plans : DueOf(fp) <= remClock => ~WillAdd(fp)'
      <4>1. \A fp \in Plans : DueOf(fp) \in Int
        BY PlansAreTimes
      <4> QED
        BY <1>1, <2>1, <2>2, <2>6, <2>8, <4>1 DEF WillAdd
    <3>2. \A fp \in Plans : CanSend(fp)' <=> CanSend(fp)
      BY <2>3 DEF CanSend
    <3>3. \A fp \in Plans : reminded[fp] \in Nat /\ remMishaps \in Nat
      BY RemindersAssumption DEF RemindersTypeOK
    <3> QED
      BY <2>3, <3>1, <3>2, <3>3 DEF RemKnown, SendsAccounted
  <2>12. SomebodyMinds'
    BY <1>1, <2>2, <2>3, <2>5, <2>11, MindingGoesOn
  <2>13. OneJobForAPlan' /\ RemindersInTime'
    BY <2>3 DEF RemKnown, OneJobForAPlan, RemindersInTime
  <2> QED
    BY <2>7, <2>9, <2>10, <2>12, <2>13 DEF RemKnown
<1> QED
  BY <1>2, <1>3

\* Whoever is in the section takes jobs away and moves on within it, or
\* leaves it.
LEMMA SectionGoesOn ==
  ASSUME RemindersTypeOK, RemKnown, NEW d \in RemDesks, InSection(d),
         NEW s \in RemDeskStates, RemTurnsTo(d, s),
         remJobs' \in [JobIds -> RemJobSet],
         \A id \in JobIds : remJobs'[id] \in {remJobs[id], NoRemJob},
         UNCHANGED <<remClock, remShift, reminded, remMishaps>>,
         InSection(d)' => s.job = remDesk[d].job /\ remLease' = d,
         remLease' \in {remLease, NoRemDesk},
         remLease' = d => s.at \notin {"idle", "wait"},
         remMissed' \in BOOLEAN,
         s.at \in {"primary", "successor"} /\ s.op = "cancel" => s.job = NoRemJob,
         s.at = "successor" =>
           /\ remJobs'["primary"] # NoRemJob => s.kept # NoRemJob /\ remJobs'["primary"].fp = s.kept.fp
           /\ s.kept # NoRemJob => DueOf(s.kept.fp) <= remClock,
         s.at = "add" =>
           /\ remJobs'[s.id] = NoRemJob
           /\ \A id \in JobIds : remJobs'[id] # NoRemJob => remJobs'[id].fp # s.job.fp
  PROVE  /\ RemindersTypeOK' /\ SectionsAreAlone' /\ OneJobForAPlan'
         /\ RemindersInTime' /\ SendsAccounted'
<1>1. /\ remDesk' \in [RemDesks -> RemDeskStates] /\ remDesk'[d] = s
      /\ \A e \in RemDesks : e # d => remDesk'[e] = remDesk[e]
  BY OneRemDeskTurns
<1>2. remLease = d /\ \A e \in RemDesks : e # d => ~InSection(e)
  BY DEF RemKnown, SectionsAreAlone
<1>3. \A e \in RemDesks : e # d => ~InSection(e)'
  BY <1>1, <1>2 DEF InSection
<1>4. RemindersTypeOK'
  BY <1>1, <1>2, RemindersAssumption DEF RemindersTypeOK, RemJobSet
<1>5. SectionsAreAlone'
  <2>1. \A e \in RemDesks : e # d => remDesk'[e].at \notin {"primary", "successor", "add"}
    BY <1>3 DEF InSection
  <2> QED
    BY <1>1, <1>3, <2>1 DEF SectionsAreAlone
<1>6. OneJobForAPlan' /\ RemindersInTime'
  <2>1. "primary" \in JobIds /\ "successor" \in JobIds
    BY DEF JobIds
  <2> QED
    BY <2>1, RemJobShapes DEF RemKnown, OneJobForAPlan, RemindersInTime
<1>7. \A fp \in Plans : (CanSend(fp)' => CanSend(fp)) /\ (WillAdd(fp)' => WillAdd(fp))
  <2>1. \A fp \in Plans : CanSend(fp)' => CanSend(fp)
    BY RemJobShapes DEF CanSend
  <2>2. \A fp \in Plans : WillAdd(fp)' => WillAdd(fp)
    BY <1>1, <1>3 DEF WillAdd
  <2> QED
    BY <2>1, <2>2
<1>8. SendsAccounted'
  <2>1. \A fp \in Plans : reminded[fp] \in Nat /\ remMishaps \in Nat
    BY RemindersAssumption DEF RemindersTypeOK
  <2> QED
    BY <1>7, <2>1 DEF RemKnown, SendsAccounted
<1> QED
  BY <1>4, <1>5, <1>6, <1>8

LEMMA LeftIsRunning ==
  ASSUME RemindersTypeOK, RemKnown, NEW id \in JobIds
  PROVE  /\ remJobs[id] \in RemJobSet /\ LeftOf(id) \in RemJobSet
         /\ LeftOf(id) \in {remJobs[id], NoRemJob}
         /\ LeftOf(id) # NoRemJob => DueOf(LeftOf(id).fp) <= remClock
<1>1. remJobs[id] \in RemJobSet
  BY DEF RemindersTypeOK, RemJobSet
<1>2. Locked(id) => DueOf(remJobs[id].fp) <= remClock
  BY DEF Locked, RemKnown, RemindersInTime
<1> QED
  BY <1>1, <1>2, RemJobShapes DEF LeftOf

LEMMA RemovePrimaryKeeps ==
  ASSUME RemindersTypeOK, RemKnown, NEW d \in RemDesks, RemovePrimary(d)
  PROVE  RemindersTypeOK' /\ RemKnown'
<1> DEFINE left == LeftOf("primary")
           s == [at |-> "successor", op |-> remDesk[d].op, tries |-> remDesk[d].tries,
                 job |-> remDesk[d].job, kept |-> left]
<1>1. remDesk[d] \in RemDeskStates /\ remDesk[d].at = "primary" /\ "primary" \in JobIds
  BY DEF RemovePrimary, RemindersTypeOK, JobIds
<1>2. /\ left \in RemJobSet /\ left \in {remJobs["primary"], NoRemJob}
      /\ left # NoRemJob => DueOf(left.fp) <= remClock
  BY <1>1, LeftIsRunning
<1>3. /\ s \in RemDeskStates /\ s.at = "successor" /\ s.op = remDesk[d].op
      /\ s.job = remDesk[d].job /\ s.kept = left
  BY <1>1, <1>2, RemDeskShapes
<1>4. /\ RemTurnsTo(d, s) /\ remJobs' = [remJobs EXCEPT !["primary"] = left]
      /\ UNCHANGED <<remClock, remShift, remLease, remMissed, reminded, remMishaps>>
  BY DEF RemovePrimary, RemTurnsTo
<1> HIDE DEF s, left
<1>5. remDesk'[d] = s /\ InSection(d) /\ InSection(d)'
  BY <1>1, <1>3, <1>4, OneRemDeskTurns DEF InSection
<1>6. /\ remJobs' \in [JobIds -> RemJobSet] /\ remJobs'["primary"] = left
      /\ \A id \in JobIds : remJobs'[id] \in {remJobs[id], NoRemJob}
  BY <1>1, <1>2, <1>4 DEF RemindersTypeOK, RemJobSet
<1>7. remLease = d /\ (s.op = "cancel" => s.job = NoRemJob)
  BY <1>1, <1>3, <1>5 DEF RemKnown, SectionsAreAlone
<1>8. /\ RemindersTypeOK' /\ SectionsAreAlone' /\ OneJobForAPlan'
      /\ RemindersInTime' /\ SendsAccounted'
  <2>1. remMissed' \in BOOLEAN
    BY <1>4 DEF RemindersTypeOK
  <2> QED
    BY <1>2, <1>3, <1>4, <1>5, <1>6, <1>7, <2>1, SectionGoesOn
<1>9. Minds(d, Plan) => Minds(d, Plan)'
  BY <1>1, <1>3, <1>4, <1>5 DEF Minds, Plan
<1>10. SomebodyMinds'
  BY <1>1, <1>3, <1>4, <1>9, MindingGoesOn
<1> QED
  BY <1>8, <1>10 DEF RemKnown

LEMMA ReplacementFits ==
  ASSUME NEW job, NEW primary, NEW successor,
         NEW id, id = PrepareReplacement(job, primary, successor)
  PROVE  /\ id \in {"null", "locked", "primary", "successor"}
         /\ id = "null" => \/ primary # NoRemJob /\ primary.fp = job.fp
                           \/ successor # NoRemJob /\ successor.fp = job.fp
         /\ id = "primary" => primary = NoRemJob
                             /\ (successor # NoRemJob => successor.fp # job.fp)
         /\ id = "successor" => primary # NoRemJob /\ primary.fp # job.fp /\ successor = NoRemJob
BY DEF PrepareReplacement

LEMMA RemoveSuccessorKeeps ==
  ASSUME RemindersTypeOK, RemKnown, NEW d \in RemDesks, RemoveSuccessor(d)
  PROVE  RemindersTypeOK' /\ RemKnown'
<1> DEFINE desk == remDesk[d]
           left == LeftOf("successor")
           id == IF desk.job = NoRemJob THEN "null"
                 ELSE PrepareReplacement(desk.job, desk.kept, left)
           idle == IdleRemDesk
           add == [at |-> "add", op |-> "sync", tries |-> desk.tries, job |-> desk.job, id |-> id]
           wait == [at |-> "wait", op |-> "sync", tries |-> 2]
<1>1. desk \in RemDeskStates /\ desk.at = "successor" /\ "primary" \in JobIds /\ "successor" \in JobIds
  BY DEF RemoveSuccessor, RemindersTypeOK, JobIds
<1>2. /\ left \in RemJobSet /\ left \in {remJobs["successor"], NoRemJob}
      /\ left # NoRemJob => DueOf(left.fp) <= remClock
  BY <1>1, LeftIsRunning
<1>3. remJobs' = [remJobs EXCEPT !["successor"] = left]
      /\ UNCHANGED <<remClock, remShift, reminded, remMishaps>>
  BY DEF RemoveSuccessor
<1>4. /\ remLease = d /\ InSection(d)
      /\ desk.op = "cancel" => desk.job = NoRemJob
      /\ remJobs["primary"] # NoRemJob => desk.kept # NoRemJob /\ remJobs["primary"].fp = desk.kept.fp
      /\ desk.kept # NoRemJob => DueOf(desk.kept.fp) <= remClock
  BY <1>1 DEF RemKnown, SectionsAreAlone, InSection
<1>5. /\ remJobs' \in [JobIds -> RemJobSet] /\ remJobs'["successor"] = left
      /\ remJobs'["primary"] = remJobs["primary"]
      /\ \A i \in JobIds : remJobs'[i] \in {remJobs[i], NoRemJob}
  BY <1>1, <1>2, <1>3 DEF RemindersTypeOK, RemJobSet
<1>6. desk.job \in Planned /\ desk.tries \in {1, 2} /\ desk.op \in Ops
  BY <1>1, RemDeskShapes
<1>7. idle \in RemDeskStates /\ idle.at = "idle" /\ wait \in RemDeskStates /\ wait.at = "wait"
  BY RemDeskShapes DEF Ops
<1>8. \/ id \in JobIds /\ RemTurnsTo(d, add) /\ UNCHANGED <<remLease, remMissed>>
      \/ /\ id = "null" /\ RemTurnsTo(d, idle) /\ Unlock(d)
         /\ remMissed' = (remMissed \/ (desk.op = "cancel" /\ Plan # NoRemJob))
      \/ id = "locked" /\ RemTurnsTo(d, wait) /\ Unlock(d) /\ remMissed' = remMissed
      \/ id = "locked" /\ RemTurnsTo(d, idle) /\ Unlock(d) /\ remMissed' = TRUE
  BY DEF RemoveSuccessor, RemTurnsTo, Gone, Plan
<1>9. Unlock(d) => remLease' = NoRemDesk /\ remLease' # d
  BY <1>4, RemindersAssumption DEF Unlock
<1>10. remMissed \in BOOLEAN
  BY DEF RemindersTypeOK
<1>11. CASE id \in JobIds /\ RemTurnsTo(d, add) /\ UNCHANGED <<remLease, remMissed>>
  <2>1. desk.job # NoRemJob /\ id = PrepareReplacement(desk.job, desk.kept, left)
    BY <1>11 DEF JobIds
  <2>2. /\ add \in RemDeskStates /\ add.at = "add" /\ add.job = desk.job /\ add.id = id
        /\ add.op = "sync"
    BY <1>6, <1>11, <2>1, RemDeskShapes DEF Planned
  <2>3. /\ remJobs'[id] = NoRemJob
        /\ \A i \in JobIds : remJobs'[i] # NoRemJob => remJobs'[i].fp # desk.job.fp
    BY <1>4, <1>5, <1>11, <2>1, ReplacementFits DEF JobIds
  <2> HIDE DEF desk, left, id, idle, add, wait
  <2>4. remDesk'[d] = add
    BY <1>11, <2>2, OneRemDeskTurns
  <2>5. /\ RemindersTypeOK' /\ SectionsAreAlone' /\ OneJobForAPlan'
        /\ RemindersInTime' /\ SendsAccounted'
    BY <1>3, <1>4, <1>5, <1>10, <1>11, <2>2, <2>3, <2>4, SectionGoesOn DEF desk
  <2>6. Plan # NoRemJob /\ Minds(d, Plan) => Minds(d, Plan)'
    <3>1. Plan # NoRemJob /\ Minds(d, Plan) => desk.job = Plan
      BY <1>1, <1>4, <2>1 DEF Minds, desk
    <3> QED
      BY <1>3, <2>2, <2>4, <3>1 DEF Minds, Plan
  <2>7. SomebodyMinds'
    BY <1>1, <1>3, <1>11, <2>2, <2>6, MindingGoesOn DEF desk
  <2> QED
    BY <2>5, <2>7 DEF RemKnown
<1>12. ASSUME NEW s \in {idle, wait}, RemTurnsTo(d, s), Unlock(d), remMissed' \in BOOLEAN,
              s = idle => remMissed' \/ ~(Plan # NoRemJob /\ Minds(d, Plan)),
              remMissed => remMissed'
       PROVE  RemindersTypeOK' /\ RemKnown'
  <2>1. s \in RemDeskStates /\ s.at \in {"idle", "wait"}
    BY <1>7
  <2> HIDE DEF desk, left, id, add, idle, wait
  <2>2. remDesk'[d] = s
    BY <1>12, <2>1, OneRemDeskTurns
  <2>3. /\ RemindersTypeOK' /\ SectionsAreAlone' /\ OneJobForAPlan'
        /\ RemindersInTime' /\ SendsAccounted'
    <3>1. ~InSection(d)'
      BY <2>1, <2>2 DEF InSection
    <3> QED
      BY <1>3, <1>4, <1>5, <1>9, <1>12, <2>1, <3>1, SectionGoesOn
  <2>4. s = wait => Minds(d, Plan)'
    BY <1>7, <2>2 DEF Minds
  <2>5. SomebodyMinds'
    BY <1>1, <1>3, <1>9, <1>12, <2>1, <2>4, MindingGoesOn, RemindersAssumption DEF desk
  <2> QED
    BY <2>3, <2>5 DEF RemKnown
<1>13. CASE /\ id = "null" /\ RemTurnsTo(d, idle) /\ Unlock(d)
            /\ remMissed' = (remMissed \/ (desk.op = "cancel" /\ Plan # NoRemJob))
  <2>1. ASSUME Plan # NoRemJob, desk.job = Plan
        PROVE  FALSE
    <3>1. remClock < DueOf(Plan.fp) /\ Plan.fp \in Plans /\ DueOf(Plan.fp) \in Int /\ remClock \in Nat
      BY <2>1, PlanIsAJob, RemJobShapes, PlansAreTimes, RemindersAssumption DEF Plan, RemindersTypeOK
    <3>2. (desk.kept # NoRemJob /\ desk.kept.fp = Plan.fp) \/ (left # NoRemJob /\ left.fp = Plan.fp)
      BY <1>13, <2>1, ReplacementFits
    <3> QED
      BY <1>2, <1>4, <3>1, <3>2
  <2>2. Plan # NoRemJob /\ Minds(d, Plan) => desk.op = "cancel"
    BY <1>1, <2>1 DEF Minds
  <2>3. remMissed' \in BOOLEAN /\ (remMissed => remMissed')
        /\ (remMissed' \/ ~(Plan # NoRemJob /\ Minds(d, Plan)))
    BY <1>10, <1>13, <2>2
  <2> QED
    BY <1>12, <1>13, <2>3
<1>14. CASE id = "locked" /\ RemTurnsTo(d, wait) /\ Unlock(d) /\ remMissed' = remMissed
  <2>1. wait # idle
    BY <1>7
  <2> QED
    BY <1>10, <1>12, <1>14, <2>1
<1>15. CASE id = "locked" /\ RemTurnsTo(d, idle) /\ Unlock(d) /\ remMissed' = TRUE
  BY <1>12, <1>15
<1> QED
  BY <1>8, <1>11, <1>13, <1>14, <1>15

LEMMA FinishAddKeeps ==
  ASSUME RemindersTypeOK, RemKnown, NEW d \in RemDesks, FinishAdd(d)
  PROVE  RemindersTypeOK' /\ RemKnown'
<1> DEFINE desk == remDesk[d]
<1>1. desk \in RemDeskStates /\ desk.at = "add" /\ InSection(d) /\ remLease = d
  BY DEF FinishAdd, RemindersTypeOK, InSection, RemKnown, SectionsAreAlone
<1>2. desk.job \in JobsIn({"delayed"}) /\ desk.id \in JobIds
  BY <1>1, RemDeskShapes
<1>3. /\ desk.job \in RemJobSet /\ desk.job # NoRemJob /\ desk.job.state = "delayed"
      /\ desk.job.fp \in Plans
  BY <1>2, RemJobShapes
<1>4. /\ remJobs[desk.id] = NoRemJob
      /\ \A i \in JobIds : remJobs[i] # NoRemJob => remJobs[i].fp # desk.job.fp
  BY <1>1 DEF RemKnown, SectionsAreAlone
<1>5. remJobs' = [remJobs EXCEPT ![desk.id] = desk.job] /\ RemTurnsTo(d, IdleRemDesk)
      /\ UNCHANGED <<remClock, remShift, remMissed, reminded, remMishaps>>
  BY <1>4 DEF FinishAdd, Gone, RemTurnsTo
<1>6. remLease' = NoRemDesk
  BY <1>1 DEF FinishAdd, Unlock
<1>7. /\ remDesk' \in [RemDesks -> RemDeskStates] /\ remDesk'[d] = IdleRemDesk
      /\ \A e \in RemDesks : e # d => remDesk'[e] = remDesk[e]
  BY <1>5, RemDeskShapes, OneRemDeskTurns
<1>8. /\ remJobs' \in [JobIds -> RemJobSet]
      /\ \A i \in JobIds : remJobs'[i] = IF i = desk.id THEN desk.job ELSE remJobs[i]
  BY <1>2, <1>3, <1>5 DEF RemindersTypeOK, RemJobSet
<1> HIDE DEF desk
<1>9. RemindersTypeOK'
  BY <1>5, <1>6, <1>7, <1>8, RemindersAssumption DEF RemindersTypeOK, RemJobSet
<1>10. \A e \in RemDesks : ~InSection(e)' /\ (e # d => ~InSection(e))
  BY <1>1, <1>7, RemDeskShapes DEF InSection, RemKnown, SectionsAreAlone
<1>11. SectionsAreAlone'
  BY <1>10 DEF SectionsAreAlone, InSection
<1>12. OneJobForAPlan'
  BY <1>4, <1>8 DEF RemKnown, OneJobForAPlan, JobIds
<1>13. RemindersInTime'
  BY <1>3, <1>5, <1>8 DEF RemKnown, RemindersInTime
<1>14. WillAdd(desk.job.fp)
  BY <1>1, <1>3 DEF WillAdd, desk
<1>15. \A fp \in Plans : ~WillAdd(fp)' /\ (CanSend(fp)' => fp = desk.job.fp \/ CanSend(fp))
  BY <1>8, <1>10 DEF WillAdd, CanSend
<1>16. SendsAccounted'
  <2>1. \A fp \in Plans : reminded[fp] \in Nat /\ remMishaps \in Nat
    BY RemindersAssumption DEF RemindersTypeOK
  <2> QED
    BY <1>5, <1>14, <1>15, <2>1 DEF RemKnown, SendsAccounted
<1>17. \A e \in RemDesks : e # d =>
         \/ remDesk'[e] = IdleRemDesk
         \/ Minds(e, Plan)
  <2>1. \A e \in RemDesks : e # d => remDesk[e].at \in {"idle", "wait", "read", "renew"}
                                   /\ (remDesk[e].at = "idle" => remDesk[e] = IdleRemDesk)
    BY <1>10, RemDeskShapes DEF InSection, RemindersTypeOK
  <2> QED
    BY <1>1, <1>7, <2>1 DEF Minds
<1>18. Minds(d, Plan) => \E i \in JobIds : remJobs'[i] = Plan
  BY <1>1, <1>2, <1>8 DEF Minds, desk
<1>19. SomebodyMinds'
  BY <1>1, <1>5, <1>6, <1>7, <1>17, <1>18, RemDeskShapes, RemindersAssumption, MindingGoesOn DEF desk
<1> QED
  BY <1>9, <1>11, <1>12, <1>13, <1>16, <1>19 DEF RemKnown

-----------------------------------------------------------------------------
Live == {"delayed", "active", "checked"}

LEMMA SumsUp ==
  ASSUME NEW n \in Int, NEW a \in Int, NEW w \in Int, NEW c \in Int, NEW r \in Int,
         NEW m \in Int, NEW k \in Int, n + a + m <= r + c + k, r + c + w <= 1 + m
  PROVE  n + a + w <= 1 + k
OBVIOUS

\* The worker moves a job on whose time has come: what is sent and what can
\* still be sent grow together only with a mishap.
LEMMA JobMoves ==
  ASSUME RemindersTypeOK, RemKnown, NEW id \in JobIds, remJobs[id] # NoRemJob,
         DueOf(remJobs[id].fp) <= remClock, NEW st \in RemJobStates,
         remJobs' = [remJobs EXCEPT ![id] = RemJob(remJobs[id].fp, DueOf(remJobs[id].fp), st)],
         UNCHANGED <<remClock, remShift, remLease, remDesk, remMissed>>,
         NEW n \in Nat, reminded' = [reminded EXCEPT ![remJobs[id].fp] = n],
         remMishaps' \in 0 .. MaxMishaps, remMishaps <= remMishaps',
         n + (IF st \in Live THEN 1 ELSE 0) + remMishaps
           <= reminded[remJobs[id].fp] + (IF remJobs[id].state \in Live THEN 1 ELSE 0) + remMishaps'
  PROVE  RemindersTypeOK' /\ RemKnown'
<1>0. PICK f \in Plans : f = remJobs[id].fp
  BY RemJobShapes DEF RemindersTypeOK, RemJobSet
<1> DEFINE j == RemJob(f, DueOf(f), st)
<1>1. /\ j \in RemJobSet /\ j.fp = f /\ j.state = st /\ j # NoRemJob /\ st # "none"
  BY <1>0, RemJobShapes DEF RemindersTypeOK, RemJobSet, RemJobStates
<1>2. /\ remJobs' \in [JobIds -> RemJobSet]
      /\ \A i \in JobIds : remJobs'[i] = IF i = id THEN j ELSE remJobs[i]
  BY <1>0, <1>1 DEF RemindersTypeOK, RemJobSet
<1>3. /\ reminded' \in [Plans -> Nat] /\ reminded'[f] = n
      /\ \A fp \in Plans : fp # f => reminded'[fp] = reminded[fp]
  BY <1>0 DEF RemindersTypeOK
<1>4. \A i \in JobIds : i # id /\ remJobs[i] # NoRemJob => remJobs[i].fp # f
  BY <1>0 DEF RemKnown, OneJobForAPlan, JobIds
<1>5. DueOf(f) <= remClock
  BY <1>0
<1>6. \A fp \in Plans : DueOf(fp) \in Int /\ reminded[fp] \in Nat /\ reminded'[fp] \in Nat
  BY <1>3, PlansAreTimes DEF RemindersTypeOK
<1>7. remMishaps \in Nat /\ remMishaps' \in Nat /\ remClock \in Nat
  BY RemindersAssumption DEF RemindersTypeOK
<1>8. n + (IF st \in Live THEN 1 ELSE 0) + remMishaps
        <= reminded[f] + (IF remJobs[id].state \in Live THEN 1 ELSE 0) + remMishaps'
  BY <1>0
<1>9. (CanSend(f) <=> remJobs[id].state \in Live)
  BY <1>0, <1>4, RemJobShapes DEF CanSend, Live
<1> HIDE DEF j
<1>10. (CanSend(f)' <=> st \in Live)
  BY <1>1, <1>2, <1>4, RemJobShapes DEF CanSend, Live
<1>11. \A fp \in Plans : fp # f => (CanSend(fp)' <=> CanSend(fp))
  BY <1>0, <1>1, <1>2 DEF CanSend
<1>12. \A fp \in Plans : WillAdd(fp)' <=> WillAdd(fp)
  BY DEF WillAdd, InSection
<1>13. RemindersTypeOK'
  BY <1>2, <1>3 DEF RemindersTypeOK, RemJobSet
<1>14. SectionsAreAlone'
  <2>1. \A i \in JobIds : /\ remJobs'[i] = NoRemJob <=> remJobs[i] = NoRemJob
                          /\ remJobs'[i].fp = remJobs[i].fp
    BY <1>0, <1>1, <1>2
  <2>2. "primary" \in JobIds /\ \A e \in RemDesks : remDesk[e].at = "add" => remDesk[e].id \in JobIds
    BY RemDeskShapes DEF JobIds, RemindersTypeOK
  <2> QED
    BY <2>1, <2>2 DEF RemKnown, SectionsAreAlone, InSection
<1>15. OneJobForAPlan'
  BY <1>0, <1>1, <1>2 DEF RemKnown, OneJobForAPlan, JobIds
<1>16. RemindersInTime'
  BY <1>1, <1>2, <1>3, <1>5, <1>6, <1>7 DEF RemKnown, RemindersInTime
<1>17. SendsAccounted'
  <2> SUFFICES ASSUME NEW fp \in Plans, DueOf(fp) <= remClock
               PROVE  reminded'[fp] + (IF CanSend(fp)' THEN 1 ELSE 0) + (IF WillAdd(fp)' THEN 1 ELSE 0)
                        <= 1 + remMishaps'
    BY DEF SendsAccounted
  <2>1. reminded[fp] + (IF CanSend(fp) THEN 1 ELSE 0) + (IF WillAdd(fp) THEN 1 ELSE 0)
          <= 1 + remMishaps
    BY DEF RemKnown, SendsAccounted
  <2>2. PICK w \in {0, 1}, c \in {0, 1}, a \in {0, 1} :
          /\ w = (IF WillAdd(fp) THEN 1 ELSE 0) /\ c = (IF CanSend(fp) THEN 1 ELSE 0)
          /\ a = (IF CanSend(fp)' THEN 1 ELSE 0)
    OBVIOUS
  <2>3. reminded[fp] + c + w <= 1 + remMishaps
    BY <2>1, <2>2
  <2>4. (IF WillAdd(fp)' THEN 1 ELSE 0) = w
    BY <1>12, <2>2
  <2>5. CASE fp = f
    <3>1. a = (IF st \in Live THEN 1 ELSE 0)
      BY <1>10, <2>2, <2>5
    <3>2. c = (IF remJobs[id].state \in Live THEN 1 ELSE 0)
      BY <1>9, <2>2, <2>5
    <3>3. n + a + remMishaps <= reminded[f] + c + remMishaps'
      BY <1>8, <3>1, <3>2
    <3>4. PICK r \in Nat, m \in Nat, k \in Nat : r = reminded[f] /\ m = remMishaps /\ k = remMishaps'
      BY <1>6, <1>7
    <3>5. n + a + m <= r + c + k /\ r + c + w <= 1 + m
      BY <2>3, <2>5, <3>3, <3>4
    <3>6. n + a + w <= 1 + k
      BY <3>5, SumsUp
    <3> QED
      BY <1>3, <2>2, <2>4, <2>5, <3>4, <3>6
  <2>6. CASE fp # f
    <3>1. a = c
      BY <1>11, <2>2, <2>6
    <3>2. reminded'[fp] + a + w <= 1 + remMishaps'
      BY <1>3, <1>6, <1>7, <2>3, <2>6, <3>1
    <3> QED
      BY <2>2, <2>4, <3>2
  <2> QED
    BY <2>5, <2>6
<1>18. SomebodyMinds'
  <2>1. Plan' = Plan /\ \A e \in RemDesks : Minds(e, Plan)' <=> Minds(e, Plan)
    BY DEF Plan, Minds
  <2>2. \A i \in JobIds : Plan # NoRemJob /\ remJobs[i] = Plan => remJobs'[i] = Plan
    <3>1. Plan # NoRemJob => remClock < DueOf(Plan.fp) /\ Plan.fp \in Plans
      BY <1>7, PlanIsAJob, RemJobShapes DEF Plan, RemindersTypeOK
    <3> QED
      BY <1>0, <1>2, <1>5, <1>6, <1>7, <3>1
  <2> QED
    BY <2>1, <2>2 DEF RemKnown, SomebodyMinds, Plan
<1> QED
  BY <1>13, <1>14, <1>15, <1>16, <1>17, <1>18 DEF RemKnown

LEMMA SetJobIsAJob ==
  ASSUME RemindersTypeOK, RemKnown, NEW id \in JobIds, remJobs[id].state # "none",
         NEW st \in RemJobStates, SetJob(id, st)
  PROVE  /\ remJobs' = [remJobs EXCEPT ![id] = RemJob(remJobs[id].fp, DueOf(remJobs[id].fp), st)]
         /\ remJobs[id] # NoRemJob /\ remJobs[id].fp \in Plans
         /\ remJobs[id].due = DueOf(remJobs[id].fp)
         /\ remJobs[id].state # "delayed" => DueOf(remJobs[id].fp) <= remClock
         /\ reminded = [reminded EXCEPT ![remJobs[id].fp] = reminded[remJobs[id].fp]]
         /\ reminded[remJobs[id].fp] \in Nat
<1>1. /\ remJobs[id] # NoRemJob /\ remJobs[id].fp \in Plans /\ remJobs[id].due = DueOf(remJobs[id].fp)
      /\ remJobs[id] = RemJob(remJobs[id].fp, DueOf(remJobs[id].fp), remJobs[id].state)
  BY RemJobShapes DEF RemindersTypeOK, RemJobSet
<1>2. \A fp, due, old : [RemJob(fp, due, old) EXCEPT !.state = st] = RemJob(fp, due, st)
  BY DEF RemJob
<1>3. [remJobs[id] EXCEPT !.state = st] = RemJob(remJobs[id].fp, DueOf(remJobs[id].fp), st)
  <2> DEFINE f == remJobs[id].fp
             old == remJobs[id].state
  <2>1. remJobs[id] = RemJob(f, DueOf(f), old)
    BY <1>1
  <2> HIDE DEF f, old
  <2> QED
    BY <1>2, <2>1 DEF f
<1>4. remJobs' = [remJobs EXCEPT ![id] = [remJobs[id] EXCEPT !.state = st]]
  BY DEF SetJob
<1>5. remJobs[id].state # "delayed" => DueOf(remJobs[id].fp) <= remClock
  BY DEF RemKnown, RemindersInTime
<1>6. /\ reminded = [reminded EXCEPT ![remJobs[id].fp] = reminded[remJobs[id].fp]]
      /\ reminded[remJobs[id].fp] \in Nat
  BY <1>1 DEF RemindersTypeOK
<1> QED
  BY <1>1, <1>3, <1>4, <1>5, <1>6

LEMMA TakeReminderKeeps ==
  ASSUME RemindersTypeOK, RemKnown, NEW id \in JobIds, TakeReminder(id)
  PROVE  RemindersTypeOK' /\ RemKnown'
<1>1. remJobs[id].state = "delayed" /\ remJobs[id].due <= remClock /\ SetJob(id, "active")
      /\ UNCHANGED <<remClock, remShift, remLease, remDesk, remMissed, reminded, remMishaps>>
  BY DEF TakeReminder
<1>2. "active" \in RemJobStates /\ "active" \in Live /\ "delayed" \in Live
  BY DEF RemJobStates, Live
<1>3. remMishaps' \in 0 .. MaxMishaps /\ remMishaps <= remMishaps' /\ remMishaps \in Nat
  BY <1>1, RemindersAssumption DEF RemindersTypeOK
<1>4. /\ remJobs' = [remJobs EXCEPT ![id] = RemJob(remJobs[id].fp, DueOf(remJobs[id].fp), "active")]
      /\ remJobs[id] # NoRemJob /\ DueOf(remJobs[id].fp) <= remClock
      /\ reminded' = [reminded EXCEPT ![remJobs[id].fp] = reminded[remJobs[id].fp]]
      /\ reminded[remJobs[id].fp] \in Nat
  BY <1>1, <1>2, SetJobIsAJob
<1>5. (IF "active" \in Live THEN 1 ELSE 0) = 1 /\ (IF remJobs[id].state \in Live THEN 1 ELSE 0) = 1
  BY <1>1, <1>2
<1>6. reminded[remJobs[id].fp] + (IF "active" \in Live THEN 1 ELSE 0) + remMishaps
        <= reminded[remJobs[id].fp] + (IF remJobs[id].state \in Live THEN 1 ELSE 0) + remMishaps'
  BY <1>1, <1>3, <1>4, <1>5
<1> QED
  BY <1>1, <1>2, <1>3, <1>4, <1>6, JobMoves

\* A running job comes to an end, or goes on towards sending.
LEMMA RunningJobMoves ==
  ASSUME RemindersTypeOK, RemKnown, NEW id \in JobIds,
         remJobs[id].state \in {"active", "checked", "sent"}, NEW st \in RemJobStates, SetJob(id, st),
         st \in Live => remJobs[id].state \in Live,
         UNCHANGED <<remClock, remShift, remLease, remDesk, remMissed, reminded, remMishaps>>
  PROVE  RemindersTypeOK' /\ RemKnown'
<1>1. remMishaps' \in 0 .. MaxMishaps /\ remMishaps <= remMishaps' /\ remMishaps \in Nat
  BY RemindersAssumption DEF RemindersTypeOK
<1>2. /\ remJobs' = [remJobs EXCEPT ![id] = RemJob(remJobs[id].fp, DueOf(remJobs[id].fp), st)]
      /\ remJobs[id] # NoRemJob /\ DueOf(remJobs[id].fp) <= remClock
      /\ reminded' = [reminded EXCEPT ![remJobs[id].fp] = reminded[remJobs[id].fp]]
      /\ reminded[remJobs[id].fp] \in Nat
  BY SetJobIsAJob
<1>3. reminded[remJobs[id].fp] + (IF st \in Live THEN 1 ELSE 0) + remMishaps
        <= reminded[remJobs[id].fp] + (IF remJobs[id].state \in Live THEN 1 ELSE 0) + remMishaps'
  <2> DEFINE a == IF st \in Live THEN 1 ELSE 0
             c == IF remJobs[id].state \in Live THEN 1 ELSE 0
  <2>1. a \in Int /\ c \in Int /\ a <= c
    OBVIOUS
  <2> HIDE DEF a, c
  <2>2. reminded[remJobs[id].fp] + a + remMishaps <= reminded[remJobs[id].fp] + c + remMishaps'
    BY <1>1, <1>2, <2>1
  <2> QED
    BY <2>2 DEF a, c
<1> QED
  BY <1>1, <1>2, <1>3, JobMoves

LEMMA CheckReminderKeeps ==
  ASSUME RemindersTypeOK, RemKnown, NEW id \in JobIds, CheckReminder(id)
  PROVE  RemindersTypeOK' /\ RemKnown'
<1>1. remJobs[id].state = "active"
      /\ UNCHANGED <<remClock, remShift, remLease, remDesk, remMissed, reminded, remMishaps>>
  BY DEF CheckReminder
<1>2. PICK st \in {"checked", "done"} : SetJob(id, st)
  <2>1. CASE ReminderHolds(remJobs[id].fp)
    <3>1. remJobs' = [remJobs EXCEPT ![id] =
                        [remJobs[id] EXCEPT !.state = "checked", !.fp = Fingerprint(remShift)]]
      BY <2>1 DEF CheckReminder
    <3>2. Fingerprint(remShift) = remJobs[id].fp
      BY <2>1 DEF ReminderHolds
    <3>3. remJobs[id] = RemJob(remJobs[id].fp, DueOf(remJobs[id].fp), remJobs[id].state)
      BY <1>1, RemJobShapes DEF RemindersTypeOK, RemJobSet
    <3>4. \A fp, due, old : [RemJob(fp, due, old) EXCEPT !.state = "checked", !.fp = fp]
                              = [RemJob(fp, due, old) EXCEPT !.state = "checked"]
      <4> SUFFICES ASSUME NEW fp, NEW due, NEW old
                   PROVE  [RemJob(fp, due, old) EXCEPT !.state = "checked", !.fp = fp]
                            = [RemJob(fp, due, old) EXCEPT !.state = "checked"]
        OBVIOUS
      <4> DEFINE r == [RemJob(fp, due, old) EXCEPT !.state = "checked"]
      <4>1. r = RemJob(fp, due, "checked")
        BY DEF RemJob
      <4>2. [RemJob(fp, due, "checked") EXCEPT !.fp = fp] = RemJob(fp, due, "checked")
        BY DEF RemJob
      <4>3. [r EXCEPT !.fp = fp] = r
        <5> HIDE DEF r
        <5> QED
          BY <4>1, <4>2
      <4> QED
        BY <4>3
    <3>5. [remJobs[id] EXCEPT !.state = "checked", !.fp = remJobs[id].fp]
            = [remJobs[id] EXCEPT !.state = "checked"]
      <4> DEFINE f == remJobs[id].fp
                 old == remJobs[id].state
      <4>1. remJobs[id] = RemJob(f, DueOf(f), old)
        BY <3>3
      <4> HIDE DEF f, old
      <4>2. [RemJob(f, DueOf(f), old) EXCEPT !.state = "checked", !.fp = f]
              = [RemJob(f, DueOf(f), old) EXCEPT !.state = "checked"]
        BY <3>4
      <4>3. [remJobs[id] EXCEPT !.state = "checked", !.fp = f] = [remJobs[id] EXCEPT !.state = "checked"]
        BY <4>1, <4>2
      <4> QED
        BY <4>3 DEF f
    <3>6. remJobs' = [remJobs EXCEPT ![id] = [remJobs[id] EXCEPT !.state = "checked"]]
      BY <3>1, <3>2, <3>5
    <3> QED
      BY <3>6 DEF SetJob
  <2>2. CASE ~ReminderHolds(remJobs[id].fp)
    BY <2>2 DEF CheckReminder, SetJob
  <2> QED
    BY <2>1, <2>2
<1>3. st \in RemJobStates /\ "active" \in Live
  BY DEF RemJobStates, Live
<1> QED
  BY <1>1, <1>2, <1>3, RunningJobMoves

LEMMA EndOfReminderKeeps ==
  ASSUME RemindersTypeOK, RemKnown, NEW id \in JobIds, ReminderFails(id) \/ CompleteReminder(id)
  PROVE  RemindersTypeOK' /\ RemKnown'
<1>1. remJobs[id].state \in {"checked", "sent"} /\ SetJob(id, "done")
      /\ UNCHANGED <<remClock, remShift, remLease, remDesk, remMissed, reminded, remMishaps>>
  BY DEF ReminderFails, CompleteReminder
<1>2. "done" \in RemJobStates /\ "done" \notin Live
  BY DEF RemJobStates, Live
<1> QED
  BY <1>1, <1>2, RunningJobMoves

LEMMA SendReminderKeeps ==
  ASSUME RemindersTypeOK, RemKnown, NEW id \in JobIds, SendReminder(id)
  PROVE  RemindersTypeOK' /\ RemKnown'
<1> DEFINE f == remJobs[id].fp
           n == reminded[f] + 1
<1>1. remJobs[id].state = "checked" /\ SetJob(id, "sent") /\ reminded' = [reminded EXCEPT ![f] = n]
      /\ UNCHANGED <<remClock, remShift, remLease, remDesk, remMissed, remMishaps>>
  BY DEF SendReminder
<1>2. "sent" \in RemJobStates /\ "sent" \notin Live /\ "checked" \in Live
  BY DEF RemJobStates, Live
<1>3. remMishaps' \in 0 .. MaxMishaps /\ remMishaps <= remMishaps' /\ remMishaps \in Nat
  BY <1>1, RemindersAssumption DEF RemindersTypeOK
<1>4. /\ remJobs' = [remJobs EXCEPT ![id] = RemJob(f, DueOf(f), "sent")]
      /\ remJobs[id] # NoRemJob /\ DueOf(f) <= remClock /\ reminded[f] \in Nat
  BY <1>1, <1>2, SetJobIsAJob
<1>5. n \in Nat /\ n + 0 + remMishaps <= reminded[f] + 1 + remMishaps'
  BY <1>1, <1>3, <1>4
<1> HIDE DEF n
<1> QED
  BY <1>1, <1>2, <1>3, <1>4, <1>5, JobMoves DEF f

LEMMA ReminderStallsKeeps ==
  ASSUME RemindersTypeOK, RemKnown, NEW id \in JobIds, ReminderStalls(id)
  PROVE  RemindersTypeOK' /\ RemKnown'
<1>1. remJobs[id].state \in {"active", "checked", "sent"} /\ SetJob(id, "delayed")
      /\ remMishaps < MaxMishaps /\ remMishaps' = remMishaps + 1
      /\ UNCHANGED <<remClock, remShift, remLease, remDesk, remMissed, reminded>>
  BY DEF ReminderStalls, Locked
<1>2. "delayed" \in RemJobStates /\ "delayed" \in Live
  BY DEF RemJobStates, Live
<1>3. remMishaps' \in 0 .. MaxMishaps /\ remMishaps <= remMishaps' /\ remMishaps \in Nat
  BY <1>1, RemindersAssumption DEF RemindersTypeOK
<1>4. /\ remJobs' = [remJobs EXCEPT ![id] = RemJob(remJobs[id].fp, DueOf(remJobs[id].fp), "delayed")]
      /\ remJobs[id] # NoRemJob /\ DueOf(remJobs[id].fp) <= remClock
      /\ reminded' = [reminded EXCEPT ![remJobs[id].fp] = reminded[remJobs[id].fp]]
      /\ reminded[remJobs[id].fp] \in Nat
  BY <1>1, <1>2, SetJobIsAJob
<1>5. reminded[remJobs[id].fp] + 1 + remMishaps
        <= reminded[remJobs[id].fp] + (IF remJobs[id].state \in Live THEN 1 ELSE 0) + remMishaps'
  BY <1>1, <1>3, <1>4
<1> QED
  BY <1>1, <1>2, <1>3, <1>4, <1>5, JobMoves

LEMMA JobsLostKeeps ==
  ASSUME RemindersTypeOK, RemKnown, JobsLost
  PROVE  RemindersTypeOK' /\ RemKnown'
<1>1. /\ remJobs' = [id \in JobIds |-> NoRemJob] /\ remMissed' = TRUE
      /\ remMishaps' = remMishaps + 1 /\ remMishaps < MaxMishaps
      /\ UNCHANGED <<remClock, remShift, remLease, remDesk, reminded>>
  BY DEF JobsLost
<1>2. remMishaps' \in 0 .. MaxMishaps /\ remMishaps \in Nat /\ remMishaps' \in Nat
      /\ remMishaps <= remMishaps' /\ \A fp \in Plans : reminded[fp] \in Nat
  BY <1>1, RemindersAssumption DEF RemindersTypeOK
<1>3. RemindersTypeOK'
  BY <1>1, <1>2 DEF RemindersTypeOK
<1>4. \A id \in JobIds : remJobs'[id] = NoRemJob /\ remJobs'[id].state = "none"
  BY <1>1, RemJobShapes
<1>5. SectionsAreAlone'
  <2>1. "primary" \in JobIds /\ \A e \in RemDesks : remDesk[e].at = "add" => remDesk[e].id \in JobIds
    BY RemDeskShapes DEF JobIds, RemindersTypeOK
  <2> QED
    BY <1>1, <1>4, <2>1 DEF RemKnown, SectionsAreAlone, InSection
<1>6. OneJobForAPlan' /\ RemindersInTime'
  BY <1>1, <1>4 DEF OneJobForAPlan, RemindersInTime, JobIds, RemKnown
<1>7. \A fp \in Plans : ~CanSend(fp)' /\ (WillAdd(fp)' <=> WillAdd(fp))
  BY <1>1, <1>4 DEF CanSend, WillAdd, InSection
<1>8. SendsAccounted'
  BY <1>1, <1>2, <1>7 DEF RemKnown, SendsAccounted
<1> QED
  BY <1>1, <1>3, <1>5, <1>6, <1>8 DEF RemKnown, SomebodyMinds

LEMMA RemTickKeeps ==
  ASSUME RemindersTypeOK, RemKnown, RemTick
  PROVE  RemindersTypeOK' /\ RemKnown'
<1>1. /\ remClock < MaxRemClock /\ remClock' = remClock + 1
      /\ UNCHANGED <<remShift, remJobs, remLease, remDesk, remMissed, reminded>>
      /\ remMishaps' = IF \E d \in RemDesks : InSection(d) THEN remMishaps + 1 ELSE remMishaps
      /\ (\E d \in RemDesks : InSection(d)) => remMishaps < MaxMishaps
  BY DEF RemTick
<1>2. /\ remClock \in Nat /\ remClock' \in 0 .. MaxRemClock /\ remMishaps' \in 0 .. MaxMishaps
      /\ remMishaps \in Nat /\ remMishaps' \in Nat /\ remMishaps <= remMishaps'
      /\ \A fp \in Plans : reminded[fp] \in Nat /\ DueOf(fp) \in Int
  BY <1>1, RemindersAssumption, PlansAreTimes DEF RemindersTypeOK
<1>3. RemindersTypeOK'
  BY <1>1, <1>2 DEF RemindersTypeOK
<1>4. SectionsAreAlone' /\ OneJobForAPlan'
  <2>1. \A e \in RemDesks : remDesk[e].at = "successor" /\ remDesk[e].kept # NoRemJob =>
                             DueOf(remDesk[e].kept.fp) \in Int
    BY RemDeskShapes, RemJobShapes, <1>2 DEF RemindersTypeOK
  <2>2. SectionsAreAlone'
    BY <1>1, <1>2, <2>1 DEF RemKnown, SectionsAreAlone, InSection
  <2> QED
    BY <1>1, <2>2 DEF RemKnown, OneJobForAPlan
<1>5. RemindersInTime'
  <2>1. \A id \in JobIds : remJobs[id].state # "none" => DueOf(remJobs[id].fp) \in Int
    BY <1>2, RemJobShapes DEF RemindersTypeOK, RemJobSet
  <2> QED
    BY <1>1, <1>2, <2>1 DEF RemKnown, RemindersInTime
<1>6. \A fp \in Plans : (CanSend(fp)' <=> CanSend(fp)) /\ (WillAdd(fp)' <=> WillAdd(fp))
  BY <1>1 DEF CanSend, WillAdd, InSection
<1>7. SendsAccounted'
  <2> SUFFICES ASSUME NEW fp \in Plans, DueOf(fp) <= remClock'
               PROVE  reminded[fp] + (IF CanSend(fp) THEN 1 ELSE 0) + (IF WillAdd(fp) THEN 1 ELSE 0)
                        <= 1 + remMishaps'
    BY <1>1, <1>6 DEF SendsAccounted
  <2>1. CASE DueOf(fp) <= remClock
    BY <1>2, <2>1 DEF RemKnown, SendsAccounted
  <2>2. CASE ~(DueOf(fp) <= remClock)
    <3>1. reminded[fp] = 0
      BY <1>2, <2>2 DEF RemKnown, RemindersInTime
    <3> DEFINE c == IF CanSend(fp) THEN 1 ELSE 0
               w == IF WillAdd(fp) THEN 1 ELSE 0
    <3>2. WillAdd(fp) => remMishaps' = remMishaps + 1
      BY <1>1 DEF WillAdd
    <3>3. c \in {0, 1} /\ w \in {0, 1} /\ (w = 1 => remMishaps' = remMishaps + 1)
      BY <3>2
    <3> HIDE DEF c, w
    <3>4. reminded[fp] + c + w <= 1 + remMishaps'
      <4>1. remMishaps \in Nat /\ remMishaps' \in Nat /\ reminded[fp] + c + w = c + w
        BY <1>2, <3>1, <3>3
      <4>2. CASE w = 0
        BY <3>3, <4>1, <4>2
      <4>3. CASE w = 1
        BY <3>3, <4>1, <4>3
      <4> QED
        BY <3>3, <4>2, <4>3
    <3> QED
      BY <3>4 DEF c, w
  <2> QED
    BY <2>1, <2>2
<1>8. SomebodyMinds'
  <2>1. Plan' # NoRemJob => Plan' = Plan
    BY <1>1, <1>2, PlanIsAJob DEF Plan, RemindersTypeOK
  <2>2. \A e \in RemDesks : Plan' # NoRemJob /\ Minds(e, Plan) => Minds(e, Plan)'
    <3> SUFFICES ASSUME NEW e \in RemDesks, Plan' # NoRemJob, Minds(e, Plan)
                 PROVE  Minds(e, Plan)'
      OBVIOUS
    <3>1. CASE remDesk[e].at = "renew" /\ ReminderPlan(remDesk[e].saw, remClock) = Plan
      <4>1. remDesk[e].saw \in RemShifts /\ remShift \in RemShifts
        BY <3>1, RemDeskShapes DEF RemindersTypeOK
      <4>2. ReminderPlan(remDesk[e].saw, remClock + 1) = ReminderPlan(remShift, remClock + 1)
        <5>1. Plan' = ReminderPlan(remShift, remClock + 1)
          BY <1>1 DEF Plan
        <5>2. ReminderPlan(remDesk[e].saw, remClock) = ReminderPlan(remShift, remClock)
          BY <3>1 DEF Plan
        <5>3. ReminderPlan(remShift, remClock + 1) # NoRemJob
          BY <5>1
        <5> QED
          BY <1>2, <4>1, <5>2, <5>3, SamePlanLater
      <4> QED
        BY <1>1, <3>1, <4>2 DEF Minds, Plan
    <3>2. CASE ~(remDesk[e].at = "renew" /\ ReminderPlan(remDesk[e].saw, remClock) = Plan)
      BY <1>1, <2>1, <3>2 DEF Minds
    <3> QED
      BY <3>1, <3>2
  <2> QED
    BY <1>1, <2>1, <2>2 DEF RemKnown, SomebodyMinds, Plan
<1> QED
  BY <1>3, <1>4, <1>5, <1>7, <1>8 DEF RemKnown

LEMMA RemindersStart == RemindersInit => RemindersTypeOK /\ RemKnown
<1> SUFFICES ASSUME RemindersInit PROVE RemindersTypeOK /\ RemKnown
  OBVIOUS
<1>1. /\ remClock = 0 /\ remShift \in RemShifts /\ remJobs = [id \in JobIds |-> NoRemJob]
      /\ remLease = NoRemDesk /\ remDesk = [d \in RemDesks |-> IdleRemDesk] /\ remMissed = TRUE
      /\ reminded = [fp \in Plans |-> 0] /\ remMishaps = 0
  BY DEF RemindersInit, RemShifts
<1>2. RemindersTypeOK
  BY <1>1, RemDeskShapes, RemindersAssumption DEF RemindersTypeOK
<1>3. \A id \in JobIds : remJobs[id] = NoRemJob /\ remJobs[id].state = "none"
  BY <1>1, RemJobShapes
<1>4. \A e \in RemDesks : remDesk[e].at = "idle"
  BY <1>1, RemDeskShapes
<1>5. SectionsAreAlone /\ OneJobForAPlan /\ RemindersInTime
  BY <1>1, <1>3, <1>4 DEF SectionsAreAlone, InSection, OneJobForAPlan, RemindersInTime, JobIds
<1>6. \A fp \in Plans : ~CanSend(fp) /\ ~WillAdd(fp)
  BY <1>3, <1>4 DEF CanSend, WillAdd, InSection
<1>7. SendsAccounted
  BY <1>1, <1>6 DEF SendsAccounted
<1> QED
  BY <1>1, <1>2, <1>5, <1>7 DEF RemKnown, SomebodyMinds

LEMMA RemindersStep ==
  ASSUME RemindersTypeOK, RemKnown, [RemindersNext]_reminderVars
  PROVE  RemindersTypeOK' /\ RemKnown'
<1>1. CASE \E d \in RemDesks :
       \/ ChangeBooking(d) \/ LeaveApproved(d) \/ ReconcileReminders(d)
       \/ AcquireLease(d) \/ LeaseUnavailable(d) \/ ReadBooking(d) \/ RenewLease(d)
       \/ RemovePrimary(d) \/ RemoveSuccessor(d) \/ FinishAdd(d)
  BY <1>1, ChangeBookingKeeps, LeaveApprovedKeeps, ReconcileKeeps, AcquireLeaseKeeps,
     LeaseUnavailableKeeps, ReadBookingKeeps, RenewLeaseKeeps, RemovePrimaryKeeps,
     RemoveSuccessorKeeps, FinishAddKeeps
<1>2. CASE LeaveWithdrawn \/ LeaseRunsOut \/ JobsLost \/ RemTick
  BY <1>2, LeaveWithdrawnKeeps, LeaseRunsOutKeeps, JobsLostKeeps, RemTickKeeps
<1>3. CASE \E id \in JobIds :
       \/ TakeReminder(id) \/ CheckReminder(id) \/ SendReminder(id) \/ ReminderFails(id)
       \/ CompleteReminder(id) \/ ReminderStalls(id)
  BY <1>3, TakeReminderKeeps, CheckReminderKeeps, SendReminderKeeps, EndOfReminderKeeps,
     ReminderStallsKeeps
<1>4. CASE UNCHANGED reminderVars
  <2>1. UNCHANGED <<remClock, remShift, remJobs, remLease, remDesk, remMissed, reminded, remMishaps>>
    BY <1>4 DEF reminderVars
  <2>2. RemindersTypeOK'
    BY <2>1 DEF RemindersTypeOK
  <2>3. \A e \in RemDesks : InSection(e)' =>
           InSection(e) /\ remDesk'[e] = remDesk[e] /\ remLease' = e
    BY <2>1 DEF InSection, RemKnown, SectionsAreAlone
  <2>4. SomebodyMinds'
    BY <2>1 DEF RemKnown, SomebodyMinds, Minds
  <2> QED
    BY <2>1, <2>2, <2>3, <2>4, QueueUntouched DEF RemKnown
<1> QED
  BY <1>1, <1>2, <1>3, <1>4 DEF RemindersNext

LEMMA RemindersFollow ==
  ASSUME RemindersTypeOK, RemKnown
  PROVE  ShiftRemindersPromise
<1>1. RemindedOnce
  <2> SUFFICES ASSUME NEW fp \in Plans PROVE reminded[fp] <= 1 + remMishaps
    BY DEF RemindedOnce
  <2>1. reminded[fp] \in Nat /\ remMishaps \in Nat /\ DueOf(fp) \in Int /\ remClock \in Nat
    BY PlansAreTimes, RemindersAssumption DEF RemindersTypeOK
  <2>2. CASE remClock < DueOf(fp)
    BY <2>1, <2>2 DEF RemKnown, RemindersInTime
  <2>3. CASE DueOf(fp) <= remClock
    <3>1. reminded[fp] + (IF CanSend(fp) THEN 1 ELSE 0) + (IF WillAdd(fp) THEN 1 ELSE 0) <= 1 + remMishaps
      BY <2>3 DEF RemKnown, SendsAccounted
    <3> QED
      BY <2>1, <3>1
  <2> QED
    BY <2>1, <2>2, <2>3
<1>2. ReminderIsQueued
  <2>1. \A plan : (\A d \in RemDesks : remDesk[d] = IdleRemDesk) => \A d \in RemDesks : ~Minds(d, plan)
    BY RemDeskShapes DEF Minds
  <2> QED
    BY <2>1 DEF RemKnown, SomebodyMinds, ReminderIsQueued
<1> QED
  BY <1>1, <1>2 DEF RemKnown, ShiftRemindersPromise

(* Reminders of booked shifts: for any number of desks that bring the      *)
(* queue into line, any start times and leads, each plan is reminded of    *)
(* once, plus once for each mishap, and a booking that stands has its job  *)
(* waiting when nobody is at work and nothing was missed.                  *)
THEOREM RemindersKept == RemindersSpec => []ShiftRemindersPromise
<1>1. RemindersInit => RemindersTypeOK /\ RemKnown
  BY RemindersStart
<1>2. (RemindersTypeOK /\ RemKnown) /\ [RemindersNext]_reminderVars => (RemindersTypeOK /\ RemKnown)'
  BY RemindersStep
<1>3. RemindersTypeOK /\ RemKnown => ShiftRemindersPromise
  BY RemindersFollow
<1> QED
  BY <1>1, <1>2, <1>3, PTL DEF RemindersSpec

-----------------------------------------------------------------------------
(* OwnerAlerts.  What is inductive: a message on its way has its key in    *)
(* the log and is the only one with it, and a key that is free, or whose   *)
(* message is still on its way, was told by failures only.                 *)

(* The rest of the promise follows from the invariant; all of it is kept.  *)
AlertsKnown ==
  /\ StorersHoldTheKey /\ UntoldUntilStored
  /\ \A key \in AlertKeys :
       /\ told[key] <= 1 + alertFaults
       /\ (alertFaults = 0 /\ key \in alertLog) => told[key] = 1 \/ Storing(key)

LEMMA PromiseIsKnown == OwnerAlertsPromise <=> AlertsTypeOK /\ AlertsKnown
BY DEF OwnerAlertsPromise, AlertsKnown

LEMMA AlertDeskShapes ==
  /\ IdleAlertDesk \in AlertDeskStates /\ IdleAlertDesk.at = "idle"
  /\ \A s \in AlertDeskStates :
       /\ s.at \in {"idle", "load", "claim", "store", "look", "add"}
       /\ s.at \in {"claim", "store"} =>
            /\ s.tell \in {"check_in", "check_out"}
            /\ s = [at |-> s.at, tell |-> s.tell]
       /\ s.at \in {"look", "add"} =>
            /\ s.left \in {Kinds, {"shift_ending"}}
            /\ s.plan \in [Kinds -> {NoAlertJob} \cup AlertJob({"delayed"})]
            /\ s = [at |-> s.at, left |-> s.left, plan |-> s.plan]
  /\ \A t \in {"check_in", "check_out"}, a \in {"claim", "store"} :
       [at |-> a, tell |-> t] \in AlertDeskStates
  /\ [at |-> "load", tell |-> "none"] \in AlertDeskStates
  /\ \A l \in {Kinds, {"shift_ending"}},
        p \in [Kinds -> {NoAlertJob} \cup AlertJob({"delayed"})], a \in {"look", "add"} :
       [at |-> a, left |-> l, plan |-> p] \in AlertDeskStates
<1>1. IdleAlertDesk \in AlertDeskStates /\ IdleAlertDesk.at = "idle"
  BY DEF AlertDeskStates, IdleAlertDesk
<1>2. \A s \in AlertDeskStates :
       /\ s.at \in {"idle", "load", "claim", "store", "look", "add"}
       /\ s.at \in {"claim", "store"} =>
            /\ s.tell \in {"check_in", "check_out"}
            /\ s = [at |-> s.at, tell |-> s.tell]
       /\ s.at \in {"look", "add"} =>
            /\ s.left \in {Kinds, {"shift_ending"}}
            /\ s.plan \in [Kinds -> {NoAlertJob} \cup AlertJob({"delayed"})]
            /\ s = [at |-> s.at, left |-> s.left, plan |-> s.plan]
  BY DEF AlertDeskStates, IdleAlertDesk
<1>3. \A t \in {"check_in", "check_out"}, a \in {"claim", "store"} :
       [at |-> a, tell |-> t] \in AlertDeskStates
  BY DEF AlertDeskStates
<1>4. [at |-> "load", tell |-> "none"] \in AlertDeskStates
  BY DEF AlertDeskStates
<1>5. \A l \in {Kinds, {"shift_ending"}},
        p \in [Kinds -> {NoAlertJob} \cup AlertJob({"delayed"})], a \in {"look", "add"} :
       [at |-> a, left |-> l, plan |-> p] \in AlertDeskStates
  BY DEF AlertDeskStates
<1> QED
  BY <1>1, <1>2, <1>3, <1>4, <1>5

AlertJobStates == {"delayed", "active", "claimed", "failed"}
AlertJobSet == {NoAlertJob} \cup AlertJob(AlertJobStates)

LEMMA AlertJobShapes ==
  /\ NoAlertJob \in AlertJobSet /\ NoAlertJob.state = "none"
  /\ AlertJob({"delayed"}) \subseteq AlertJobSet
  /\ \A j \in AlertJob({"delayed"}) : j.state = "delayed"
  /\ \A j \in AlertJobSet :
       /\ j.state \in {"none"} \cup AlertJobStates
       /\ j.state # "none" => j \in AlertJob(AlertJobStates) /\ j.fp[1] \in BeginTimes
  /\ \A j \in AlertJob(AlertJobStates), st \in AlertJobStates :
       /\ [j EXCEPT !.state = st] \in AlertJob(AlertJobStates)
       /\ [j EXCEPT !.tries = @ + 1, !.state = st] \in AlertJob(AlertJobStates)
<1>1. NoAlertJob \in AlertJobSet /\ NoAlertJob.state = "none"
  BY DEF AlertJobSet, NoAlertJob
<1>2. /\ AlertJob({"delayed"}) \subseteq AlertJobSet
      /\ \A j \in AlertJob({"delayed"}) : j.state = "delayed"
  BY DEF AlertJobSet, AlertJob, AlertJobStates
<1>3. \A j \in AlertJobSet :
       /\ j.state \in {"none"} \cup AlertJobStates
       /\ j.state # "none" => j \in AlertJob(AlertJobStates) /\ j.fp[1] \in BeginTimes
  BY DEF AlertJobSet, AlertJob, AlertJobStates, NoAlertJob
<1>4. \A j \in AlertJob(AlertJobStates), st \in AlertJobStates :
       /\ [j EXCEPT !.state = st] \in AlertJob(AlertJobStates)
       /\ [j EXCEPT !.tries = @ + 1, !.state = st] \in AlertJob(AlertJobStates)
  <2> SUFFICES ASSUME NEW j \in AlertJob(AlertJobStates), NEW st \in AlertJobStates
               PROVE  /\ [j EXCEPT !.state = st] \in AlertJob(AlertJobStates)
                      /\ [j EXCEPT !.tries = @ + 1, !.state = st] \in AlertJob(AlertJobStates)
    OBVIOUS
  <2>1. j.tries + 1 \in Nat
    BY DEF AlertJob
  <2>2. [j EXCEPT !.state = st] \in AlertJob(AlertJobStates)
    BY DEF AlertJob
  <2> DEFINE t == j.tries + 1
  <2>3. t \in Nat
    BY <2>1
  <2>4. [j EXCEPT !.tries = t, !.state = st] \in AlertJob(AlertJobStates)
    <3> HIDE DEF t
    <3> QED
      BY <2>3 DEF AlertJob
  <2> QED
    BY <2>2, <2>4
<1> QED
  BY <1>1, <1>2, <1>3, <1>4

\* The desk of d changes, and no other desk.
TurnsTo(d, s) == alertDesk' = [alertDesk EXCEPT ![d] = s]

LEMMA OneDeskTurns ==
  ASSUME AlertsTypeOK, NEW d \in AlertDesks, NEW s \in AlertDeskStates, TurnsTo(d, s)
  PROVE  /\ alertDesk' \in [AlertDesks -> AlertDeskStates]
         /\ \A e \in AlertDesks : alertDesk'[e] = IF e = d THEN s ELSE alertDesk[e]
BY DEF AlertsTypeOK, TurnsTo

LEMMA OneJobTurns ==
  ASSUME AlertsTypeOK, NEW k \in Kinds, NEW j \in AlertJobSet,
         alertJobs' = [alertJobs EXCEPT ![k] = j]
  PROVE  /\ alertJobs' \in [Kinds -> AlertJobSet]
         /\ \A l \in Kinds : alertJobs'[l] = IF l = k THEN j ELSE alertJobs[l]
BY DEF AlertsTypeOK, AlertJobSet, AlertJobStates

\* A step that stores nothing, claims nothing and stops nobody on his way,
\* unless it is a failure, keeps what is known.
LEMMA NothingStored ==
  ASSUME AlertsTypeOK, AlertsKnown, AlertsTypeOK', UNCHANGED <<alertLog, told>>,
         alertFaults <= alertFaults',
         \A k \in Kinds : alertJobs'[k].state = "claimed" => alertJobs'[k] = alertJobs[k],
         \A d \in AlertDesks : alertDesk'[d].at = "store" => alertDesk'[d] = alertDesk[d],
         \A k \in Kinds : alertFaults' = 0 /\ alertJobs[k].state = "claimed" =>
                            alertJobs'[k] = alertJobs[k],
         \A d \in AlertDesks : alertFaults' = 0 /\ alertDesk[d].at = "store" =>
                                 alertDesk'[d] = alertDesk[d]
  PROVE  AlertsKnown'
<1>1. \A key \in AlertKeys : \A k \in Kinds : JobStores(k, key)' => JobStores(k, key)
  BY DEF JobStores, AlertKey
<1>2. \A key \in AlertKeys : \A d \in AlertDesks : DeskStores(d, key)' => DeskStores(d, key)
  BY DEF DeskStores
<1>3. \A key \in AlertKeys : Storing(key)' => Storing(key)
  BY <1>1, <1>2 DEF Storing
<1>4. \A key \in AlertKeys : alertFaults' = 0 /\ Storing(key) => Storing(key)'
  BY DEF Storing, JobStores, DeskStores, AlertKey
<1>5. alertFaults \in Nat /\ alertFaults' \in Nat /\ \A key \in AlertKeys : told[key] \in Nat
  BY AlertsAssumption DEF AlertsTypeOK
<1>6. StorersHoldTheKey'
  BY <1>2, <1>3 DEF AlertsKnown, StorersHoldTheKey
<1>7. UntoldUntilStored'
  BY <1>3, <1>5 DEF AlertsKnown, UntoldUntilStored
<1>8. \A key \in AlertKeys :
       /\ told'[key] <= 1 + alertFaults'
       /\ (alertFaults' = 0 /\ key \in alertLog') => told'[key] = 1 \/ Storing(key)'
  BY <1>4, <1>5 DEF AlertsKnown
<1> QED
  BY <1>6, <1>7, <1>8 DEF AlertsKnown

LEMMA KindsOfAlerts ==
  /\ Kinds = {"pre_shift", "shift_ending"}
  /\ \A k \in Kinds : k # "check_in" /\ k # "check_out"
  /\ \A t \in {"check_in", "check_out"} : <<t, 0>> \in AlertKeys
  /\ \A k \in Kinds, b \in BeginTimes : <<k, b>> \in AlertKeys
BY DEF Kinds, AlertKeys

LEMMA PlansAreJobs ==
  ASSUME AlertsTypeOK
  PROVE  [k \in Kinds |-> PlanJob(k, duty, alertWish, alertClock)]
           \in [Kinds -> {NoAlertJob} \cup AlertJob({"delayed"})]
<1> SUFFICES ASSUME NEW k \in Kinds
             PROVE  PlanJob(k, duty, alertWish, alertClock)
                      \in {NoAlertJob} \cup AlertJob({"delayed"})
  OBVIOUS
<1>1. duty.start \in BeginTimes /\ alertWish.lead \in PreLeads
  BY DEF AlertsTypeOK, AlertDuties, AlertWishes
<1>2. AlertPrint(k, duty, alertWish) \in BeginTimes \X (PreLeads \cup {0})
  BY <1>1 DEF AlertPrint
<1>3. RunAt(k, duty, alertWish) \in Int
  <2>1. /\ duty.start \in Nat /\ alertWish.lead \in Nat /\ ShiftSpan \in Nat /\ EndLead \in Nat
        /\ RunAt(k, duty, alertWish) = IF k = "pre_shift" THEN duty.start - alertWish.lead
                                       ELSE duty.start + ShiftSpan - EndLead
    BY <1>1, AlertsAssumption DEF RunAt
  <2> QED
    BY <2>1
<1> QED
  BY <1>2, <1>3 DEF PlanJob, AlertJob

LEMMA AlertsStart == AlertsInit => AlertsTypeOK /\ AlertsKnown
<1> SUFFICES ASSUME AlertsInit PROVE AlertsTypeOK /\ AlertsKnown
  OBVIOUS
<1>1. /\ alertJobs = [k \in Kinds |-> NoAlertJob]
      /\ alertDesk = [d \in AlertDesks |-> IdleAlertDesk]
      /\ alertClock = 0 /\ alertLog = {} /\ told = [k \in AlertKeys |-> 0] /\ alertFaults = 0
      /\ duty \in AlertDuties
  BY DEF AlertsInit, AlertDuties
<1>2. (CHOOSE l \in PreLeads : TRUE) \in PreLeads
  BY AlertsAssumption
<1>3. alertWish \in AlertWishes
  <2> DEFINE l == CHOOSE x \in PreLeads : TRUE
  <2>1. l \in PreLeads /\ alertWish = [pre |-> TRUE, lead |-> l, ending |-> TRUE, check |-> TRUE]
    BY <1>2 DEF AlertsInit
  <2> HIDE DEF l
  <2> QED
    BY <2>1 DEF AlertWishes
<1>4. AlertsTypeOK
  BY <1>1, <1>3, AlertDeskShapes, AlertsAssumption DEF AlertsTypeOK
<1>5. \A key \in AlertKeys : ~Storing(key)
  BY <1>1, AlertDeskShapes, AlertJobShapes DEF Storing, JobStores, DeskStores
<1>6. \A key \in AlertKeys, d \in AlertDesks : ~DeskStores(d, key)
  BY <1>1, AlertDeskShapes DEF DeskStores
<1>7. StorersHoldTheKey /\ UntoldUntilStored
  BY <1>1, <1>5, <1>6 DEF StorersHoldTheKey, UntoldUntilStored
<1> QED
  BY <1>1, <1>4, <1>7 DEF AlertsKnown

\* A desk that neither was about to store nor becomes so takes a step.
LEMMA DeskGoesOn ==
  ASSUME AlertsTypeOK, AlertsKnown, AlertsTypeOK',
         NEW d \in AlertDesks, NEW s \in AlertDeskStates, TurnsTo(d, s),
         alertDesk[d].at # "store", s.at # "store",
         UNCHANGED <<alertJobs, alertLog, told, alertFaults>>
  PROVE  AlertsKnown'
<1>1. alertFaults <= alertFaults'
  BY AlertsAssumption DEF AlertsTypeOK
<1>2. \A e \in AlertDesks : alertDesk'[e] = IF e = d THEN s ELSE alertDesk[e]
  BY OneDeskTurns
<1> QED
  BY <1>1, <1>2, NothingStored

LEMMA SyncIsState ==
  ASSUME NEW d \in AlertDesks, Sync(d, "none")
  PROVE  /\ TurnsTo(d, [at |-> "load", tell |-> "none"])
         /\ [at |-> "load", tell |-> "none"] \in AlertDeskStates
         /\ [at |-> "load", tell |-> "none"].at = "load"
BY AlertDeskShapes DEF Sync, TurnsTo

LEMMA CancelIsState ==
  ASSUME NEW d \in AlertDesks, CancelAssignments(d)
  PROVE  \E s \in AlertDeskStates : TurnsTo(d, s) /\ s.at = "look"
<1> DEFINE s == [at |-> "look", left |-> Kinds, plan |-> NothingPlanned]
<1>1. NothingPlanned \in [Kinds -> {NoAlertJob} \cup AlertJob({"delayed"})]
  BY DEF NothingPlanned
<1>2. s \in AlertDeskStates
  BY <1>1, AlertDeskShapes
<1>3. TurnsTo(d, s)
  BY DEF CancelAssignments, TurnsTo
<1> QED
  BY <1>2, <1>3

LEMMA ChangeDutyKeeps ==
  ASSUME AlertsTypeOK, AlertsKnown, NEW d \in AlertDesks, ChangeDuty(d)
  PROVE  AlertsTypeOK' /\ AlertsKnown'
<1>1. PICK s \in AlertDeskStates : TurnsTo(d, s) /\ s.at # "store"
  <2>1. Sync(d, "none") \/ CancelAssignments(d)
    BY DEF ChangeDuty
  <2> QED
    BY <2>1, SyncIsState, CancelIsState
<1>2. duty' \in AlertDuties
  BY DEF ChangeDuty, AlertsTypeOK, AlertDuties
<1>3. alertDesk[d].at = "idle"
  BY AlertDeskShapes DEF ChangeDuty
<1>4. AlertsTypeOK'
  BY <1>1, <1>2, OneDeskTurns DEF ChangeDuty, AlertsTypeOK
<1> QED
  BY <1>1, <1>3, <1>4, DeskGoesOn DEF ChangeDuty

LEMMA UpdateAlertSettingsKeeps ==
  ASSUME AlertsTypeOK, AlertsKnown, NEW d \in AlertDesks, UpdateAlertSettings(d)
  PROVE  AlertsTypeOK' /\ AlertsKnown'
<1>1. alertWish' \in AlertWishes
  BY DEF UpdateAlertSettings
<1>2. alertDesk[d].at = "idle" /\ alertDesk[d] = IdleAlertDesk
  BY AlertDeskShapes DEF UpdateAlertSettings
<1>3. \/ TurnsTo(d, [at |-> "load", tell |-> "none"])
      \/ alertDesk' = alertDesk
  BY SyncIsState DEF UpdateAlertSettings
<1>4. TurnsTo(d, [at |-> "load", tell |-> "none"]) \/ TurnsTo(d, IdleAlertDesk)
  BY <1>2, <1>3 DEF TurnsTo, AlertsTypeOK
<1>5. AlertsTypeOK'
  BY <1>1, <1>4, OneDeskTurns, AlertDeskShapes DEF UpdateAlertSettings, AlertsTypeOK
<1> QED
  BY <1>2, <1>4, <1>5, DeskGoesOn, AlertDeskShapes DEF UpdateAlertSettings

LEMMA AfterAttendanceKeeps ==
  ASSUME AlertsTypeOK, AlertsKnown, NEW d \in AlertDesks, AfterAttendance(d)
  PROVE  AlertsTypeOK' /\ AlertsKnown'
<1>1. PICK t \in {"check_in", "check_out"} : TurnsTo(d, [at |-> "claim", tell |-> t])
  BY DEF AfterAttendance, TurnsTo
<1>2. duty' \in AlertDuties
  BY DEF AfterAttendance, AlertsTypeOK, AlertDuties
<1>3. alertDesk[d].at = "idle"
  BY AlertDeskShapes DEF AfterAttendance
<1>4. AlertsTypeOK'
  BY <1>1, <1>2, OneDeskTurns, AlertDeskShapes DEF AfterAttendance, AlertsTypeOK
<1> QED
  BY <1>1, <1>3, <1>4, DeskGoesOn, AlertDeskShapes DEF AfterAttendance

LEMMA ClaimAttendanceKeeps ==
  ASSUME AlertsTypeOK, AlertsKnown, NEW d \in AlertDesks, ClaimAttendance(d)
  PROVE  AlertsTypeOK' /\ AlertsKnown'
<1> DEFINE key == <<alertDesk[d].tell, 0>>
           s == [at |-> "store", tell |-> alertDesk[d].tell]
<1>1. alertDesk[d] \in AlertDeskStates /\ alertDesk[d].at = "claim"
  BY DEF AlertsTypeOK, ClaimAttendance
<1>2. /\ alertDesk[d].tell \in {"check_in", "check_out"}
      /\ alertDesk[d] = [at |-> "claim", tell |-> alertDesk[d].tell]
  BY <1>1, AlertDeskShapes
<1>3. key \in AlertKeys /\ s \in AlertDeskStates /\ s.at = "store" /\ s.tell = alertDesk[d].tell
  BY <1>2, AlertDeskShapes, KindsOfAlerts
<1>4. UNCHANGED <<alertClock, duty, alertWish, alertJobs, told, alertFaults>>
  BY DEF ClaimAttendance
<1>5. CASE alertWish.check /\ key \notin alertLog
  <2>1. alertLog' = alertLog \cup {key} /\ TurnsTo(d, s)
    BY <1>2, <1>5 DEF ClaimAttendance, TurnsTo
  <2> HIDE DEF s, key
  <2>2. \A e \in AlertDesks : alertDesk'[e] = IF e = d THEN s ELSE alertDesk[e]
    BY <1>3, <2>1, OneDeskTurns
  <2>3. AlertsTypeOK'
    BY <1>3, <1>4, <2>1, OneDeskTurns DEF AlertsTypeOK
  <2>4. \A k \in AlertKeys : \A e \in AlertDesks :
          DeskStores(e, k)' <=> (e = d /\ k = key) \/ (e # d /\ DeskStores(e, k))
    BY <1>3, <2>2 DEF DeskStores, key
  <2>5. \A k \in AlertKeys : \A l \in Kinds : JobStores(l, k)' <=> JobStores(l, k)
    BY <1>4 DEF JobStores, AlertKey
  <2>6. ~DeskStores(d, key) /\ \A k \in AlertKeys : ~DeskStores(d, k)
    BY <1>1 DEF DeskStores
  <2>7. \A k \in AlertKeys : Storing(k)' <=> k = key \/ Storing(k)
    BY <2>4, <2>5, <2>6 DEF Storing
  <2>8. ~Storing(key) /\ key \notin alertLog
    BY <1>3, <1>5 DEF AlertsKnown, StorersHoldTheKey, key
  <2>9. StorersHoldTheKey'
    <3>1. \A k \in AlertKeys : Storing(k)' => k \in alertLog'
      BY <2>1, <2>7 DEF AlertsKnown, StorersHoldTheKey
    <3>2. \A e \in AlertDesks : ~DeskStores(e, key)
      BY <2>8 DEF Storing
    <3>3. \A k \in AlertKeys : \A e, f \in AlertDesks :
            DeskStores(e, k)' /\ DeskStores(f, k)' => e = f
      BY <2>4, <3>2 DEF AlertsKnown, StorersHoldTheKey
    <3> QED
      BY <3>1, <3>3 DEF StorersHoldTheKey
  <2>10. UntoldUntilStored'
    BY <1>4, <2>1, <2>7, <2>8 DEF AlertsKnown, UntoldUntilStored
  <2>11. \A k \in AlertKeys :
       /\ told'[k] <= 1 + alertFaults'
       /\ (alertFaults' = 0 /\ k \in alertLog') => told'[k] = 1 \/ Storing(k)'
    BY <1>4, <2>1, <2>7 DEF AlertsKnown
  <2> QED
    BY <2>3, <2>9, <2>10, <2>11 DEF AlertsKnown
<1>6. CASE ~(alertWish.check /\ key \notin alertLog)
  <2>1. TurnsTo(d, [at |-> "load", tell |-> "none"]) /\ alertLog' = alertLog
    BY <1>6, SyncIsState DEF ClaimAttendance
  <2>2. AlertsTypeOK'
    BY <1>4, <2>1, OneDeskTurns, AlertDeskShapes DEF AlertsTypeOK
  <2> QED
    BY <1>1, <1>4, <2>1, <2>2, DeskGoesOn, AlertDeskShapes
<1> QED
  BY <1>5, <1>6

LEMMA StoreAttendanceKeeps ==
  ASSUME AlertsTypeOK, AlertsKnown, NEW d \in AlertDesks, StoreAttendance(d)
  PROVE  AlertsTypeOK' /\ AlertsKnown'
<1> DEFINE key == <<alertDesk[d].tell, 0>>
           s == [at |-> "load", tell |-> "none"]
<1>1. alertDesk[d] \in AlertDeskStates /\ alertDesk[d].at = "store"
  BY DEF AlertsTypeOK, StoreAttendance
<1>2. key \in AlertKeys
  BY <1>1, AlertDeskShapes, KindsOfAlerts
<1>3. s \in AlertDeskStates /\ s.at = "load" /\ TurnsTo(d, s)
  BY SyncIsState DEF StoreAttendance
<1>4. UNCHANGED <<alertClock, duty, alertWish, alertJobs>>
  BY DEF StoreAttendance
<1>5. alertFaults \in Nat /\ \A k \in AlertKeys : told[k] \in Nat
  BY AlertsAssumption DEF AlertsTypeOK
<1>6. PICK stored \in BOOLEAN, fails \in BOOLEAN :
        /\ told' = [told EXCEPT ![key] = IF stored THEN @ + 1 ELSE @]
        /\ ~fails => stored /\ alertLog' = alertLog /\ alertFaults' = alertFaults
        /\ fails => /\ alertLog' \in {alertLog \ {key}, alertLog}
                    /\ alertFaults' = alertFaults + 1 /\ alertFaults < MaxAlertFaults
  <2>1. CASE told' = [told EXCEPT ![key] = @ + 1] /\ UNCHANGED <<alertLog, alertFaults>>
    <3>1. told' = [told EXCEPT ![key] = IF TRUE THEN @ + 1 ELSE @]
      BY <2>1
    <3> QED
      BY <2>1, <3>1
  <2>2. CASE /\ alertFaults < MaxAlertFaults /\ alertFaults' = alertFaults + 1
             /\ alertLog' \in {alertLog \ {key}, alertLog}
             /\ \E stored \in BOOLEAN : told' = [told EXCEPT ![key] = IF stored THEN @ + 1 ELSE @]
    BY <2>2
  <2> QED
    BY <2>1, <2>2 DEF StoreAttendance
<1>7. DeskStores(d, key) /\ key \in alertLog /\ told[key] <= alertFaults
  BY <1>1, <1>2 DEF DeskStores, Storing, AlertsKnown, StorersHoldTheKey, UntoldUntilStored
<1> HIDE DEF s
<1>8. \A e \in AlertDesks : alertDesk'[e] = IF e = d THEN s ELSE alertDesk[e]
  BY <1>3, OneDeskTurns
<1>9. AlertsTypeOK'
  <2>1. told' \in [AlertKeys -> Nat] /\ alertLog' \subseteq AlertKeys
    BY <1>2, <1>5, <1>6 DEF AlertsTypeOK
  <2>2. alertFaults' \in 0 .. MaxAlertFaults
    BY <1>6, AlertsAssumption DEF AlertsTypeOK
  <2> QED
    BY <1>3, <1>4, <2>1, <2>2, OneDeskTurns DEF AlertsTypeOK
<1>10. \A k \in AlertKeys : told'[k] = IF k = key THEN told'[key] ELSE told[k]
  BY <1>6 DEF AlertsTypeOK
<1>11. told'[key] = IF stored THEN told[key] + 1 ELSE told[key]
  BY <1>2, <1>6 DEF AlertsTypeOK
<1>12. \A k \in AlertKeys : \A e \in AlertDesks :
         DeskStores(e, k)' <=> e # d /\ DeskStores(e, k)
  BY <1>3, <1>8 DEF DeskStores
<1>13. \A k \in AlertKeys : \A e \in AlertDesks :
         DeskStores(d, k) => k = key
  BY DEF DeskStores
<1>14. \A k \in AlertKeys : \A l \in Kinds : JobStores(l, k)' <=> JobStores(l, k)
  BY <1>4 DEF JobStores, AlertKey
<1>15. \A l \in Kinds : ~JobStores(l, key)
  BY <1>1, AlertDeskShapes, KindsOfAlerts DEF JobStores, AlertKey
<1>16. \A k \in AlertKeys : Storing(k)' <=> k # key /\ Storing(k)
  BY <1>2, <1>7, <1>12, <1>13, <1>14, <1>15 DEF Storing, AlertsKnown, StorersHoldTheKey
<1> HIDE DEF key
<1>17. told'[key] <= 1 + alertFaults /\ (alertFaults' = 0 => told'[key] = 1)
       /\ alertFaults' \in Nat /\ alertFaults <= alertFaults'
       /\ (key \notin alertLog' => told'[key] <= alertFaults')
  BY <1>2, <1>5, <1>6, <1>7, <1>11 DEF AlertsTypeOK
<1>18. StorersHoldTheKey'
  BY <1>6, <1>12, <1>16 DEF AlertsKnown, StorersHoldTheKey
<1>19. \A k \in AlertKeys : k # key => (k \in alertLog' <=> k \in alertLog)
  BY <1>6
<1>20. UntoldUntilStored'
  BY <1>2, <1>5, <1>10, <1>16, <1>17, <1>19 DEF AlertsKnown, UntoldUntilStored
<1>21. \A k \in AlertKeys :
       /\ told'[k] <= 1 + alertFaults'
       /\ (alertFaults' = 0 /\ k \in alertLog') => told'[k] = 1 \/ Storing(k)'
  <2> SUFFICES ASSUME NEW k \in AlertKeys
               PROVE  /\ told'[k] <= 1 + alertFaults'
                      /\ (alertFaults' = 0 /\ k \in alertLog') => told'[k] = 1 \/ Storing(k)'
    OBVIOUS
  <2>0. told[k] \in Nat /\ told'[k] \in Nat /\ told'[key] \in Nat
    BY <1>2, <1>5, <1>9 DEF AlertsTypeOK
  <2>1. CASE k = key
    BY <1>5, <1>17, <2>0, <2>1
  <2>2. CASE k # key
    BY <1>5, <1>10, <1>16, <1>17, <1>19, <2>0, <2>2 DEF AlertsKnown
  <2> QED
    BY <2>1, <2>2
<1> QED
  BY <1>9, <1>18, <1>20, <1>21 DEF AlertsKnown

LEMMA LoadContextKeeps ==
  ASSUME AlertsTypeOK, AlertsKnown, NEW d \in AlertDesks, LoadContext(d)
  PROVE  AlertsTypeOK' /\ AlertsKnown'
<1> DEFINE pl == [k \in Kinds |-> PlanJob(k, duty, alertWish, alertClock)]
           s == [at |-> "look", left |-> Kinds, plan |-> pl]
<1>1. s \in AlertDeskStates /\ TurnsTo(d, s) /\ s.at = "look"
  BY PlansAreJobs, AlertDeskShapes DEF LoadContext, TurnsTo
<1>2. alertDesk[d].at # "store"
  BY DEF LoadContext
<1> HIDE DEF s, pl
<1>3. AlertsTypeOK'
  BY <1>1, OneDeskTurns DEF LoadContext, AlertsTypeOK
<1> QED
  BY <1>1, <1>2, <1>3, DeskGoesOn DEF LoadContext

LEMMA SettledIsState ==
  ASSUME NEW s \in AlertDeskStates, s.at \in {"look", "add"}
  PROVE  /\ NextKind(s) \in Kinds
         /\ s.plan[NextKind(s)] \in {NoAlertJob} \cup AlertJob({"delayed"})
         /\ Settled(s, NextKind(s)) \in AlertDeskStates
         /\ Settled(s, NextKind(s)).at # "store"
<1>1. s.left \in {Kinds, {"shift_ending"}} /\ Kinds # {"shift_ending"}
  BY AlertDeskShapes, KindsOfAlerts
<1>2. s.left = Kinds => NextKind(s) = "pre_shift"
  BY DEF NextKind
<1>3. s.left = {"shift_ending"} => NextKind(s) = "shift_ending"
  BY <1>1 DEF NextKind
<1>4. NextKind(s) \in Kinds
  BY <1>1, <1>2, <1>3, KindsOfAlerts
<1>5. Kinds \ {"pre_shift"} = {"shift_ending"} /\ Kinds # {"pre_shift"}
  BY KindsOfAlerts
<1>6. s.plan \in [Kinds -> {NoAlertJob} \cup AlertJob({"delayed"})]
  BY AlertDeskShapes
<1>7. CASE s.left = {"shift_ending"}
  BY <1>3, <1>4, <1>6, <1>7, AlertDeskShapes DEF Settled
<1>8. CASE s.left = Kinds
  <2>1. Settled(s, NextKind(s)) = [at |-> "look", left |-> {"shift_ending"}, plan |-> s.plan]
    BY <1>2, <1>5, <1>8 DEF Settled
  <2> QED
    BY <1>4, <1>6, <2>1, AlertDeskShapes
<1> QED
  BY <1>1, <1>7, <1>8

\* A desk that looks after the jobs of one kind leaves a job that runs
\* alone and never starts one.
LEMMA DeskMinds ==
  ASSUME AlertsTypeOK, AlertsKnown, NEW d \in AlertDesks, NEW s \in AlertDeskStates,
         TurnsTo(d, s), alertDesk[d].at # "store", s.at # "store",
         NEW k \in Kinds, NEW j \in AlertJobSet,
         alertJobs' = [alertJobs EXCEPT ![k] = j],
         j = alertJobs[k] \/ (j.state # "claimed" /\ alertJobs[k].state # "claimed"),
         UNCHANGED <<alertClock, duty, alertWish, alertLog, told, alertFaults>>
  PROVE  AlertsTypeOK' /\ AlertsKnown'
<1>1. /\ alertJobs' \in [Kinds -> AlertJobSet]
      /\ \A l \in Kinds : alertJobs'[l] = IF l = k THEN j ELSE alertJobs[l]
  BY OneJobTurns
<1>2. /\ alertDesk' \in [AlertDesks -> AlertDeskStates]
      /\ \A e \in AlertDesks : alertDesk'[e] = IF e = d THEN s ELSE alertDesk[e]
  BY OneDeskTurns
<1>3. AlertsTypeOK'
  BY <1>1, <1>2 DEF AlertsTypeOK, AlertJobSet, AlertJobStates
<1>4. alertFaults <= alertFaults'
  BY AlertsAssumption DEF AlertsTypeOK
<1> QED
  BY <1>1, <1>2, <1>3, <1>4, NothingStored

LEMMA LookAtJobKeeps ==
  ASSUME AlertsTypeOK, AlertsKnown, NEW d \in AlertDesks, LookAtJob(d)
  PROVE  AlertsTypeOK' /\ AlertsKnown'
<1> DEFINE desk == alertDesk[d]
           k == NextKind(desk)
           s == [at |-> "add", left |-> desk.left, plan |-> desk.plan]
           j == alertJobs'[k]
<1>1. desk \in AlertDeskStates /\ desk.at = "look"
  BY DEF AlertsTypeOK, LookAtJob
<1>2. k \in Kinds /\ Settled(desk, k) \in AlertDeskStates /\ Settled(desk, k).at # "store"
  BY <1>1, SettledIsState
<1>3. s \in AlertDeskStates /\ s.at = "add" /\ s = [desk EXCEPT !.at = "add"]
  BY <1>1, AlertDeskShapes
<1>4. TurnsTo(d, Settled(desk, k)) \/ TurnsTo(d, s)
  BY <1>3 DEF LookAtJob, TurnsTo
<1>5. alertJobs[k] \in AlertJobSet /\ NoAlertJob \in AlertJobSet /\ NoAlertJob.state = "none"
  BY <1>2, AlertJobShapes DEF AlertsTypeOK, AlertJobSet, AlertJobStates
<1>6. \E new \in {alertJobs[k], NoAlertJob} :
        /\ alertJobs' = [alertJobs EXCEPT ![k] = new]
        /\ new = alertJobs[k] \/ alertJobs[k].state # "claimed"
  <2>1. alertJobs' = alertJobs \/ alertJobs' = [alertJobs EXCEPT ![k] = IF AlertRuns(k) THEN @ ELSE NoAlertJob]
    BY DEF LookAtJob
  <2>2. alertJobs = [alertJobs EXCEPT ![k] = alertJobs[k]]
    BY <1>2 DEF AlertsTypeOK
  <2> QED
    BY <2>1, <2>2 DEF AlertRuns
<1>7. UNCHANGED <<alertClock, duty, alertWish, alertLog, told, alertFaults>>
  BY DEF LookAtJob
<1>8. alertDesk[d].at # "store"
  BY <1>1
<1> HIDE DEF desk, k, s, j
<1> QED
  BY <1>2, <1>3, <1>4, <1>5, <1>6, <1>7, <1>8, DeskMinds

LEMMA AddAlertKeeps ==
  ASSUME AlertsTypeOK, AlertsKnown, NEW d \in AlertDesks, AddAlert(d)
  PROVE  AlertsTypeOK' /\ AlertsKnown'
<1> DEFINE desk == alertDesk[d]
           k == NextKind(desk)
           j == IF alertJobs[k] = NoAlertJob THEN desk.plan[k] ELSE alertJobs[k]
<1>1. desk \in AlertDeskStates /\ desk.at = "add"
  BY DEF AlertsTypeOK, AddAlert
<1>2. /\ k \in Kinds /\ Settled(desk, k) \in AlertDeskStates /\ Settled(desk, k).at # "store"
      /\ desk.plan[k] \in {NoAlertJob} \cup AlertJob({"delayed"})
  BY <1>1, SettledIsState
<1>3. /\ TurnsTo(d, Settled(desk, k)) /\ alertJobs' = [alertJobs EXCEPT ![k] = j]
      /\ UNCHANGED <<alertClock, duty, alertWish, alertLog, told, alertFaults>>
  BY DEF AddAlert, TurnsTo
<1>4. alertJobs[k] \in AlertJobSet
  BY <1>2 DEF AlertsTypeOK, AlertJobSet, AlertJobStates
<1>5. /\ j \in AlertJobSet
      /\ j = alertJobs[k] \/ (j.state # "claimed" /\ alertJobs[k].state # "claimed")
  BY <1>2, <1>4, AlertJobShapes
<1>6. alertDesk[d].at # "store"
  BY <1>1
<1> HIDE DEF desk, k, j
<1> QED
  BY <1>2, <1>3, <1>5, <1>6, DeskMinds

\* A job that is not storing and does not become so changes.
LEMMA JobGoesOn ==
  ASSUME AlertsTypeOK, AlertsKnown, NEW k \in Kinds, NEW j \in AlertJobSet,
         alertJobs' = [alertJobs EXCEPT ![k] = j], j.state # "claimed",
         UNCHANGED <<alertClock, duty, alertWish, alertDesk, alertLog, told>>,
         \/ alertFaults' = alertFaults /\ alertJobs[k].state # "claimed"
         \/ alertFaults' = alertFaults + 1 /\ alertFaults < MaxAlertFaults
  PROVE  AlertsTypeOK' /\ AlertsKnown'
<1>1. /\ alertJobs' \in [Kinds -> AlertJobSet]
      /\ \A l \in Kinds : alertJobs'[l] = IF l = k THEN j ELSE alertJobs[l]
  BY OneJobTurns
<1>2. alertFaults' \in 0 .. MaxAlertFaults /\ alertFaults <= alertFaults'
      /\ (alertFaults' = 0 => alertFaults' = alertFaults)
  BY AlertsAssumption DEF AlertsTypeOK
<1>3. AlertsTypeOK'
  BY <1>1, <1>2 DEF AlertsTypeOK, AlertJobSet, AlertJobStates
<1>4. \A l \in Kinds : alertFaults' = 0 /\ alertJobs[l].state = "claimed" =>
                           alertJobs'[l] = alertJobs[l]
  BY <1>1, <1>2
<1>5. \A l \in Kinds : alertJobs'[l].state = "claimed" => alertJobs'[l] = alertJobs[l]
  BY <1>1
<1> QED
  BY <1>2, <1>3, <1>4, <1>5, NothingStored

LEMMA RunningJob ==
  ASSUME AlertsTypeOK, NEW k \in Kinds, alertJobs[k].state # "none"
  PROVE  /\ alertJobs[k] \in AlertJob(AlertJobStates) /\ AlertKey(k) \in AlertKeys
         /\ \A st \in AlertJobStates :
              /\ [alertJobs[k] EXCEPT !.state = st] \in AlertJobSet
              /\ [alertJobs[k] EXCEPT !.state = st].state = st
              /\ [alertJobs[k] EXCEPT !.state = st].fp = alertJobs[k].fp
              /\ [alertJobs[k] EXCEPT !.tries = @ + 1, !.state = st] \in AlertJobSet
              /\ [alertJobs[k] EXCEPT !.tries = @ + 1, !.state = st].state = st
<1>1. alertJobs[k] \in AlertJobSet
  BY DEF AlertsTypeOK, AlertJobSet, AlertJobStates
<1>2. alertJobs[k] \in AlertJob(AlertJobStates) /\ alertJobs[k].fp[1] \in BeginTimes
  BY <1>1, AlertJobShapes
<1>3. AlertKey(k) \in AlertKeys
  BY <1>2, KindsOfAlerts DEF AlertKey
<1> SUFFICES ASSUME NEW st \in AlertJobStates
             PROVE  /\ [alertJobs[k] EXCEPT !.state = st] \in AlertJobSet
                    /\ [alertJobs[k] EXCEPT !.state = st].state = st
                    /\ [alertJobs[k] EXCEPT !.state = st].fp = alertJobs[k].fp
                    /\ [alertJobs[k] EXCEPT !.tries = @ + 1, !.state = st] \in AlertJobSet
                    /\ [alertJobs[k] EXCEPT !.tries = @ + 1, !.state = st].state = st
  BY <1>2, <1>3
<1>4. /\ [alertJobs[k] EXCEPT !.state = st] \in AlertJobSet
      /\ [alertJobs[k] EXCEPT !.tries = @ + 1, !.state = st] \in AlertJobSet
  BY <1>2, AlertJobShapes DEF AlertJobSet
<1>5. /\ [alertJobs[k] EXCEPT !.state = st].state = st
      /\ [alertJobs[k] EXCEPT !.state = st].fp = alertJobs[k].fp
      /\ [alertJobs[k] EXCEPT !.tries = @ + 1, !.state = st].state = st
  BY <1>2 DEF AlertJob
<1> QED
  BY <1>4, <1>5

LEMMA TakeAlertKeeps ==
  ASSUME AlertsTypeOK, AlertsKnown, NEW k \in Kinds, TakeAlert(k)
  PROVE  AlertsTypeOK' /\ AlertsKnown'
<1> DEFINE j == [alertJobs[k] EXCEPT !.state = "active"]
<1>1. j \in AlertJobSet /\ j.state = "active"
  BY RunningJob DEF TakeAlert, AlertJobStates
<1>2. alertJobs' = [alertJobs EXCEPT ![k] = j] /\ alertJobs[k].state = "delayed"
      /\ UNCHANGED <<alertClock, duty, alertWish, alertDesk, alertLog, told, alertFaults>>
  BY DEF TakeAlert
<1> HIDE DEF j
<1> QED
  BY <1>1, <1>2, JobGoesOn

LEMMA AlertStallsKeeps ==
  ASSUME AlertsTypeOK, AlertsKnown, NEW k \in Kinds, AlertStalls(k)
  PROVE  AlertsTypeOK' /\ AlertsKnown'
<1> DEFINE j == [alertJobs[k] EXCEPT !.state = "delayed"]
<1>1. j \in AlertJobSet /\ j.state = "delayed"
  BY RunningJob DEF AlertStalls, AlertRuns, AlertJobStates
<1>2. alertJobs' = [alertJobs EXCEPT ![k] = j] /\ alertFaults < MaxAlertFaults
      /\ alertFaults' = alertFaults + 1
      /\ UNCHANGED <<alertClock, duty, alertWish, alertDesk, alertLog, told>>
  BY DEF AlertStalls
<1> HIDE DEF j
<1> QED
  BY <1>1, <1>2, JobGoesOn

LEMMA ClaimAlertKeeps ==
  ASSUME AlertsTypeOK, AlertsKnown, NEW k \in Kinds, ClaimAlert(k)
  PROVE  AlertsTypeOK' /\ AlertsKnown'
<1> DEFINE j == [alertJobs[k] EXCEPT !.state = "claimed"]
           key == AlertKey(k)
<1>1. /\ j \in AlertJobSet /\ j.state = "claimed" /\ j.fp = alertJobs[k].fp
      /\ key \in AlertKeys /\ alertJobs[k].state = "active" /\ key = <<k, j.fp[1]>>
  BY RunningJob DEF ClaimAlert, AlertJobStates, AlertKey
<1>2. UNCHANGED <<alertClock, duty, alertWish, alertDesk, told, alertFaults>>
  BY DEF ClaimAlert
<1>3. CASE AlertHolds(k, alertJobs[k].fp) /\ AlertKey(k) \notin alertLog
  <2>1. alertLog' = alertLog \cup {key} /\ alertJobs' = [alertJobs EXCEPT ![k] = j]
        /\ key \notin alertLog
    BY <1>3 DEF ClaimAlert
  <2> HIDE DEF j, key
  <2>2. /\ alertJobs' \in [Kinds -> AlertJobSet]
        /\ \A l \in Kinds : alertJobs'[l] = IF l = k THEN j ELSE alertJobs[l]
    BY <1>1, <2>1, OneJobTurns
  <2>3. AlertsTypeOK'
    BY <1>1, <1>2, <2>1, <2>2 DEF AlertsTypeOK, AlertJobSet, AlertJobStates
  <2>4. \A x \in AlertKeys : \A l \in Kinds :
          JobStores(l, x)' <=> (l = k /\ x = key) \/ (l # k /\ JobStores(l, x))
    BY <1>1, <2>2 DEF JobStores, AlertKey
  <2>5. \A x \in AlertKeys : \A d \in AlertDesks : DeskStores(d, x)' <=> DeskStores(d, x)
    BY <1>2 DEF DeskStores
  <2>6. \A x \in AlertKeys : ~JobStores(k, x)
    BY <1>1 DEF JobStores
  <2>7. \A x \in AlertKeys : Storing(x)' <=> x = key \/ Storing(x)
    BY <2>4, <2>5, <2>6 DEF Storing
  <2>8. StorersHoldTheKey'
    BY <2>1, <2>5, <2>7 DEF AlertsKnown, StorersHoldTheKey
  <2>9. UntoldUntilStored'
    BY <1>2, <2>1, <2>7 DEF AlertsKnown, UntoldUntilStored
  <2>10. \A x \in AlertKeys :
       /\ told'[x] <= 1 + alertFaults'
       /\ (alertFaults' = 0 /\ x \in alertLog') => told'[x] = 1 \/ Storing(x)'
    BY <1>2, <2>1, <2>7 DEF AlertsKnown
  <2> QED
    BY <2>3, <2>8, <2>9, <2>10 DEF AlertsKnown
<1>4. CASE ~(AlertHolds(k, alertJobs[k].fp) /\ AlertKey(k) \notin alertLog)
  <2>1. alertJobs' = [alertJobs EXCEPT ![k] = NoAlertJob] /\ alertLog' = alertLog
    BY <1>4 DEF ClaimAlert
  <2> QED
    BY <1>1, <1>2, <2>1, JobGoesOn, AlertJobShapes
<1> QED
  BY <1>3, <1>4

\* A message is stored, or fails and may have been stored all the same;
\* then the job is over or waits for its next attempt.
LEMMA AlertLeavesTheDesk ==
  ASSUME AlertsTypeOK, AlertsKnown, NEW k \in Kinds, alertJobs[k].state = "claimed",
         NEW j \in AlertJobSet, j.state # "claimed",
         alertJobs' = [alertJobs EXCEPT ![k] = j],
         NEW stored \in BOOLEAN, NEW fails \in BOOLEAN,
         told' = [told EXCEPT ![AlertKey(k)] = IF stored THEN @ + 1 ELSE @],
         ~fails => stored /\ alertLog' = alertLog /\ alertFaults' = alertFaults,
         fails => /\ alertLog' \in {alertLog \ {AlertKey(k)}, alertLog}
                  /\ alertFaults' = alertFaults + 1 /\ alertFaults < MaxAlertFaults,
         UNCHANGED <<alertClock, duty, alertWish, alertDesk>>
  PROVE  AlertsTypeOK' /\ AlertsKnown'
<1> DEFINE key == AlertKey(k)
<1>1. key \in AlertKeys
  BY RunningJob
<1>2. JobStores(k, key) /\ Storing(key) /\ key \in alertLog /\ told[key] <= alertFaults
  BY <1>1 DEF JobStores, Storing, AlertsKnown, StorersHoldTheKey, UntoldUntilStored
<1>3. alertFaults \in Nat /\ \A x \in AlertKeys : told[x] \in Nat
  BY AlertsAssumption DEF AlertsTypeOK
<1>4. /\ alertJobs' \in [Kinds -> AlertJobSet]
      /\ \A l \in Kinds : alertJobs'[l] = IF l = k THEN j ELSE alertJobs[l]
  BY OneJobTurns
<1>5. \A x \in AlertKeys : \A l \in Kinds : JobStores(l, x)' <=> l # k /\ JobStores(l, x)
  BY <1>4 DEF JobStores, AlertKey
<1>6. \A x \in AlertKeys : JobStores(k, x) => x = key
  BY DEF JobStores
<1>7. \A x \in AlertKeys : \A d \in AlertDesks : DeskStores(d, x)' <=> DeskStores(d, x)
  BY DEF DeskStores
<1>8. \A l \in Kinds : l # k => ~JobStores(l, key)
  BY DEF JobStores, AlertKey
<1>9. \A d \in AlertDesks : ~DeskStores(d, key)
  <2>1. \A d \in AlertDesks : alertDesk[d].at = "store" =>
                               alertDesk[d].tell \in {"check_in", "check_out"}
    BY AlertDeskShapes DEF AlertsTypeOK
  <2> QED
    BY <2>1, KindsOfAlerts DEF DeskStores, AlertKey
<1>10. \A x \in AlertKeys : Storing(x)' <=> x # key /\ Storing(x)
  BY <1>1, <1>5, <1>6, <1>7, <1>8, <1>9 DEF Storing
<1> HIDE DEF key
<1>11. told' = [told EXCEPT ![key] = IF stored THEN @ + 1 ELSE @]
       /\ (fails => alertLog' \in {alertLog \ {key}, alertLog})
  BY DEF key
<1>12. told'[key] = (IF stored THEN told[key] + 1 ELSE told[key])
       /\ \A x \in AlertKeys : x # key => told'[x] = told[x]
  BY <1>1, <1>11 DEF AlertsTypeOK
<1>13. AlertsTypeOK'
  <2>1. told' \in [AlertKeys -> Nat] /\ alertLog' \subseteq AlertKeys
    <3>1. (IF stored THEN told[key] + 1 ELSE told[key]) \in Nat
      BY <1>1, <1>3
    <3>2. told' \in [AlertKeys -> Nat]
      BY <1>11, <3>1 DEF AlertsTypeOK
    <3>3. alertLog' = alertLog \/ alertLog' \in {alertLog \ {key}, alertLog}
      BY <1>11
    <3> QED
      BY <3>2, <3>3 DEF AlertsTypeOK
  <2>2. alertFaults' \in 0 .. MaxAlertFaults
    BY AlertsAssumption DEF AlertsTypeOK
  <2> QED
    BY <1>4, <2>1, <2>2 DEF AlertsTypeOK, AlertJobSet, AlertJobStates
<1>14. told'[key] <= 1 + alertFaults /\ (alertFaults' = 0 => told'[key] = 1)
       /\ alertFaults' \in Nat /\ alertFaults <= alertFaults' /\ told'[key] \in Nat
       /\ (key \notin alertLog' => told'[key] <= alertFaults')
  BY <1>1, <1>2, <1>3, <1>12
<1>15. \A x \in AlertKeys : x # key => (x \in alertLog' <=> x \in alertLog)
  BY <1>11
<1>16. StorersHoldTheKey'
  BY <1>7, <1>10, <1>15 DEF AlertsKnown, StorersHoldTheKey
<1>17. UntoldUntilStored'
  <2> SUFFICES ASSUME NEW x \in AlertKeys, x \notin alertLog' \/ Storing(x)'
               PROVE  told'[x] <= alertFaults'
    BY DEF UntoldUntilStored
  <2>1. CASE x = key
    BY <1>10, <1>14, <2>1
  <2>2. CASE x # key
    BY <1>3, <1>10, <1>12, <1>14, <1>15, <2>2 DEF AlertsKnown, UntoldUntilStored
  <2> QED
    BY <2>1, <2>2
<1>18. \A x \in AlertKeys :
       /\ told'[x] <= 1 + alertFaults'
       /\ (alertFaults' = 0 /\ x \in alertLog') => told'[x] = 1 \/ Storing(x)'
  <2> SUFFICES ASSUME NEW x \in AlertKeys
               PROVE  /\ told'[x] <= 1 + alertFaults'
                      /\ (alertFaults' = 0 /\ x \in alertLog') => told'[x] = 1 \/ Storing(x)'
    OBVIOUS
  <2>1. CASE x = key
    BY <1>3, <1>14, <2>1
  <2>2. CASE x # key
    BY <1>3, <1>10, <1>12, <1>14, <1>15, <2>2 DEF AlertsKnown
  <2> QED
    BY <2>1, <2>2
<1> QED
  BY <1>13, <1>16, <1>17, <1>18 DEF AlertsKnown

LEMMA StoreAlertKeeps ==
  ASSUME AlertsTypeOK, AlertsKnown, NEW k \in Kinds, StoreAlert(k)
  PROVE  AlertsTypeOK' /\ AlertsKnown'
<1>1. told' = [told EXCEPT ![AlertKey(k)] = IF TRUE THEN @ + 1 ELSE @]
  BY DEF StoreAlert
<1>2. /\ alertJobs[k].state = "claimed" /\ alertJobs' = [alertJobs EXCEPT ![k] = NoAlertJob]
      /\ UNCHANGED <<alertClock, duty, alertWish, alertDesk, alertLog, alertFaults>>
  BY DEF StoreAlert
<1> QED
  BY <1>1, <1>2, AlertLeavesTheDesk, AlertJobShapes

LEMMA StoreAlertFailsKeeps ==
  ASSUME AlertsTypeOK, AlertsKnown, NEW k \in Kinds, StoreAlertFails(k)
  PROVE  AlertsTypeOK' /\ AlertsKnown'
<1> DEFINE j == Retried(k)
<1>1. alertJobs[k].state = "claimed" /\ alertJobs' = [alertJobs EXCEPT ![k] = j]
  BY DEF StoreAlertFails
<1>2. j \in AlertJobSet /\ j.state # "claimed"
  <2> DEFINE st == IF alertJobs[k].tries + 1 < MaxAttempts THEN "delayed" ELSE "failed"
  <2>1. st \in AlertJobStates /\ st # "claimed"
    BY DEF AlertJobStates
  <2>2. j = [alertJobs[k] EXCEPT !.tries = @ + 1, !.state = st]
    BY DEF Retried
  <2> HIDE DEF st, j
  <2> QED
    BY <1>1, <2>1, <2>2, RunningJob
<1>3. PICK stored \in BOOLEAN : told' = [told EXCEPT ![AlertKey(k)] = IF stored THEN @ + 1 ELSE @]
  BY DEF StoreAlertFails
<1>4. /\ alertLog' \in {alertLog \ {AlertKey(k)}, alertLog} /\ alertFaults' = alertFaults + 1
      /\ alertFaults < MaxAlertFaults /\ UNCHANGED <<alertClock, duty, alertWish, alertDesk>>
  BY DEF StoreAlertFails
<1> HIDE DEF j
<1> QED
  BY <1>1, <1>2, <1>3, <1>4, AlertLeavesTheDesk

LEMMA AlertsStep ==
  ASSUME AlertsTypeOK, AlertsKnown, [AlertsNext]_alertVars
  PROVE  AlertsTypeOK' /\ AlertsKnown'
<1>1. CASE AlertTick \/ UNCHANGED alertVars
  <2>1. UNCHANGED <<duty, alertWish, alertJobs, alertDesk, alertLog, told, alertFaults>>
    BY <1>1 DEF AlertTick, alertVars
  <2>2. alertClock' \in 0 .. MaxAlertClock /\ alertFaults <= alertFaults'
    BY <1>1, AlertsAssumption DEF AlertTick, alertVars, AlertsTypeOK
  <2>3. AlertsTypeOK'
    BY <2>1, <2>2 DEF AlertsTypeOK
  <2> QED
    BY <2>1, <2>2, <2>3, NothingStored
<1>2. CASE \E d \in AlertDesks :
       \/ ChangeDuty(d) \/ UpdateAlertSettings(d) \/ AfterAttendance(d)
       \/ ClaimAttendance(d) \/ StoreAttendance(d)
       \/ LoadContext(d) \/ LookAtJob(d) \/ AddAlert(d)
  BY <1>2, ChangeDutyKeeps, UpdateAlertSettingsKeeps, AfterAttendanceKeeps,
     ClaimAttendanceKeeps, StoreAttendanceKeeps, LoadContextKeeps, LookAtJobKeeps, AddAlertKeeps
<1>3. CASE \E k \in Kinds :
       \/ TakeAlert(k) \/ SendOnceClaims(k) \/ StoreAlert(k) \/ StoreAlertFails(k)
       \/ AlertStalls(k)
  BY <1>3, TakeAlertKeeps, ClaimAlertKeeps, StoreAlertKeeps, StoreAlertFailsKeeps,
     AlertStallsKeeps DEF SendOnceClaims
<1> QED
  BY <1>1, <1>2, <1>3 DEF AlertsNext

(* Alerts of the owner: for any number of desks and any number of changes  *)
(* and failures, each key is told at most once, plus once for each         *)
(* failure, and a key in the log has been told or is about to be.          *)
THEOREM AlertsKept == AlertsSpec => []OwnerAlertsPromise
<1>1. AlertsInit => AlertsTypeOK /\ AlertsKnown
  BY AlertsStart
<1>2. (AlertsTypeOK /\ AlertsKnown) /\ [AlertsNext]_alertVars => (AlertsTypeOK /\ AlertsKnown)'
  BY AlertsStep
<1>3. AlertsTypeOK /\ AlertsKnown => OwnerAlertsPromise
  BY PromiseIsKnown
<1> QED
  BY <1>1, <1>2, <1>3, PTL DEF AlertsSpec

-----------------------------------------------------------------------------
(* WorkedTimeRules.  What is inductive: groups are numbered in the order   *)
(* they are saved and each covers a minute at least; a rule on its way to  *)
(* be saved speaks of the future, so no later group reaches into the past. *)

TimeRulesInv == WorkedTimeTypeOK /\ RulesInTurn /\ RequestsAreForTheFuture /\ OneRulePerMoment
RuleRequest == [pc : {"free", "create", "delete"}, g : Nat, since : Nat,
                rule : StoreWorkedTimeRule]

\* A bounded set of numbers has a greatest one.
LEMMA GreatestOf ==
  ASSUME NEW n \in Nat, NEW T \in SUBSET (0 .. n), T # {}
  PROVE  \E m \in T : \A t \in T : t <= m
<1>1. PICK S : S = {n - t : t \in T}
  OBVIOUS
<1>2. S \in SUBSET Nat /\ S # {}
  <2>1. \A t \in T : t \in 0 .. n /\ n - t \in Nat
    OBVIOUS
  <2> QED
    BY <1>1, <2>1
<1>3. PICK k \in S : \A s \in S : k <= s
  BY <1>2, LeastOf
<1>4. PICK m \in T : k = n - m
  BY <1>1
<1>5. ASSUME NEW t \in T PROVE t <= m
  <2>1. n - m <= n - t
    BY <1>1, <1>3, <1>4
  <2> QED
    BY <2>1
<1> QED
  BY <1>5

LEMMA RuleShapes ==
  /\ Endless \notin Nat /\ Endless \notin PaidStaff
  /\ Cardinality(RuleIds) \in Nat /\ RuleIds \subseteq Nat
  /\ NoTimeRule \in StoreWorkedTimeRule /\ ~Before(NoTimeRule.start, NoTimeRule.end)
  /\ FreeDesk \in RuleRequest /\ FreeDesk.pc = "free"
<1>1. Cardinality(RuleIds) \in Nat
  BY WorkedTimeAssumption, FS_CardinalityType
<1>2. RuleIds \subseteq Nat
  BY <1>1, WorkedTimeAssumption
<1>3. NoTimeRule \in StoreWorkedTimeRule /\ ~Before(NoTimeRule.start, NoTimeRule.end)
  BY WorkedTimeAssumption DEF NoTimeRule, StoreWorkedTimeRule, WorkedTimeModes, Before
<1>4. FreeDesk \in RuleRequest /\ FreeDesk.pc = "free"
  BY <1>3 DEF FreeDesk, RuleRequest
<1> QED
  BY <1>1, <1>2, <1>3, <1>4, WorkedTimeAssumption

\* The clock in minutes.
LEMMA MinutesAreNumbers ==
  ASSUME NEW at \in Nat
  PROVE  VnKeyCeil(at) \in Nat
BY DEF VnKeyCeil

\* A desk turns to something else, and the rules stay.
LEMMA RuleDeskTurns ==
  ASSUME TimeRulesInv, NEW w \in RuleDesks, NEW o \in RuleRequest,
         ruleDesk' = [ruleDesk EXCEPT ![w] = o], timeRules' = timeRules,
         ruleClock' = ruleClock,
         o.pc = "create" => /\ o.rule.start >= o.since /\ o.rule.cut = Endless
                            /\ Before(o.rule.start, o.rule.end),
         o.pc = "delete" => o.g \in RuleIds /\ timeRules[o.g] # NoTimeRule
  PROVE  TimeRulesInv'
<1>1. ruleDesk \in [RuleDesks -> RuleRequest]
  BY DEF TimeRulesInv, WorkedTimeTypeOK, RuleRequest
<1>2. ruleDesk' \in [RuleDesks -> RuleRequest]
  BY <1>1
<1>3. \A v \in RuleDesks : ruleDesk'[v] = IF v = w THEN o ELSE ruleDesk[v]
  BY <1>1
<1>4. RequestsAreForTheFuture'
  BY <1>3 DEF RequestsAreForTheFuture, TimeRulesInv
<1>5. WorkedTimeTypeOK' /\ RulesInTurn' /\ OneRulePerMoment'
  BY <1>2 DEF TimeRulesInv, WorkedTimeTypeOK, RulesInTurn, OneRulePerMoment, RuleRequest
<1> QED
  BY <1>4, <1>5 DEF TimeRulesInv

LEMMA CreateRuleKeeps ==
  ASSUME TimeRulesInv, NEW w \in RuleDesks, NEW wish \in RuleWishes,
         CreateWorkedTimeRule(w, wish)
  PROVE  TimeRulesInv'
<1> DEFINE nowKey == VnKeyCeil(ruleClock)
           from == IF wish.start < nowKey THEN nowKey ELSE wish.start
           end == RuleWindowEnd(from, wish.length)
           rule == [for |-> wish.for, mode |-> wish.mode, start |-> from, end |-> end,
                    cut |-> Endless]
           o == [pc |-> "create", g |-> 0, since |-> nowKey, rule |-> rule]
<1>1. /\ wish.for \in SUBSET PaidStaff /\ wish.mode \in WorkedTimeModes
      /\ wish.start \in Nat /\ wish.length \in (Nat \ {0}) \cup {Endless}
  BY WorkedTimeAssumption
<1>2. ruleClock \in Nat /\ nowKey \in Nat
  <2>1. ruleClock \in 0 .. MaxRuleClock /\ MaxRuleClock \in Nat
    BY WorkedTimeAssumption DEF TimeRulesInv, WorkedTimeTypeOK
  <2>2. ruleClock \in Nat
    BY <2>1
  <2> QED
    BY <2>2, MinutesAreNumbers
<1>3. from \in Nat /\ from >= nowKey
  BY <1>1, <1>2
<1>4. end \in Nat \cup {Endless} /\ Before(from, end)
  <2>1. CASE wish.length = Endless
    BY <2>1 DEF RuleWindowEnd, Before
  <2>2. CASE wish.length # Endless
    <3>1. wish.length \in Nat /\ wish.length > 0 /\ end = from + wish.length
      BY <1>1, <2>2 DEF RuleWindowEnd
    <3> QED
      BY <1>3, <3>1 DEF Before
  <2> QED
    BY <2>1, <2>2
<1>5. o \in RuleRequest
  <2> HIDE DEF nowKey, from, end
  <2> QED
    BY <1>1, <1>2, <1>3, <1>4 DEF RuleRequest, StoreWorkedTimeRule
<1>6. ruleDesk' = [ruleDesk EXCEPT ![w] = o] /\ UNCHANGED <<ruleClock, timeRules>>
  BY DEF CreateWorkedTimeRule
<1>7. o.rule.start >= o.since /\ o.rule.cut = Endless /\ Before(o.rule.start, o.rule.end)
      /\ o.pc = "create"
  BY <1>3, <1>4
<1> HIDE DEF o
<1> QED
  BY <1>5, <1>6, <1>7, RuleDeskTurns

LEMMA DeleteRuleKeeps ==
  ASSUME TimeRulesInv, NEW w \in RuleDesks, NEW g \in RuleIds, DeleteWorkedTimeRule(w, g)
  PROVE  TimeRulesInv'
<1> DEFINE o == [pc |-> "delete", g |-> g, rule |-> NoTimeRule, since |-> 0]
<1>1. o \in RuleRequest /\ o.pc = "delete" /\ o.g = g
  BY RuleShapes DEF RuleRequest
<1>2. /\ ruleDesk' = [ruleDesk EXCEPT ![w] = o] /\ UNCHANGED <<ruleClock, timeRules>>
      /\ timeRules[g] # NoTimeRule
  BY DEF DeleteWorkedTimeRule
<1> HIDE DEF o
<1> QED
  BY <1>1, <1>2, RuleDeskTurns

\* Who a rule is for, and whether two windows overlap, goes both ways.
LEMMA BothWays ==
  /\ \A a, b \in StoreWorkedTimeRule : SamePeople(a, b) => SamePeople(b, a)
  /\ \A a, b : RuleWindowsOverlap(a, b) => RuleWindowsOverlap(b, a)
<1>1. \A a, b \in StoreWorkedTimeRule : SamePeople(a, b) => SamePeople(b, a)
  BY DEF SamePeople, StoreWorkedTimeRule
<1>2. \A a, b : RuleWindowsOverlap(a, b) => RuleWindowsOverlap(b, a)
  BY DEF RuleWindowsOverlap
<1> QED
  BY <1>1, <1>2

\* A rule that is saved takes the first number that is free.
LEMMA NextNumberIsFree ==
  ASSUME TimeRulesInv,
         {g \in RuleIds : timeRules[g] # NoTimeRule} # RuleIds
  PROVE  LET n == Cardinality({g \in RuleIds : timeRules[g] # NoTimeRule}) IN
         /\ n \in Nat /\ n + 1 \in RuleIds /\ timeRules[n + 1] = NoTimeRule
         /\ n + 1 \in 0 .. Cardinality(RuleIds)
         /\ {g \in RuleIds : timeRules[g] # NoTimeRule} = 1 .. n
<1> DEFINE taken == {g \in RuleIds : timeRules[g] # NoTimeRule}
           all == Cardinality(RuleIds)
<1>1. PICK n \in 0 .. all : taken = 1 .. n
  BY DEF TimeRulesInv, RulesInTurn
<1>2. n \in Nat /\ all \in Nat /\ n <= all
  BY <1>1, RuleShapes
<1>3. Cardinality(1 .. n) = n
  BY <1>2, FS_Interval
<1>4. n # all
  BY <1>1, WorkedTimeAssumption
<1>5. RuleIds = 1 .. all
  BY WorkedTimeAssumption
<1>6. n + 1 \in RuleIds /\ n + 1 \notin taken /\ n + 1 \in 0 .. all
  BY <1>1, <1>2, <1>4, <1>5
<1>7. timeRules[n + 1] = NoTimeRule
  BY <1>6
<1> QED
  BY <1>1, <1>2, <1>3, <1>6, <1>7

LEMMA SaveRuleKeeps ==
  ASSUME TimeRulesInv, NEW w \in RuleDesks, SaveWorkedTimeRule(w)
  PROVE  TimeRulesInv'
<1> DEFINE new == ruleDesk[w].rule
           taken == {g \in RuleIds : timeRules[g] # NoTimeRule}
           clash == {g \in taken : /\ timeRules[g].cut = Endless
                                   /\ SamePeople(new, timeRules[g])
                                   /\ RuleWindowsOverlap(new, timeRules[g])}
           n == Cardinality(taken)
<1>1. /\ ruleDesk[w].pc = "create" /\ taken # RuleIds
      /\ timeRules' = IF clash # {} THEN timeRules ELSE [timeRules EXCEPT ![n + 1] = new]
      /\ ruleDesk' = [ruleDesk EXCEPT ![w] = FreeDesk] /\ ruleClock' = ruleClock
  BY DEF SaveWorkedTimeRule
<1>2. CASE clash # {}
  BY <1>1, <1>2, RuleShapes, RuleDeskTurns
<1>3. CASE clash = {}
  <2>1. /\ n \in Nat /\ n + 1 \in RuleIds /\ timeRules[n + 1] = NoTimeRule
        /\ n + 1 \in 0 .. Cardinality(RuleIds) /\ taken = 1 .. n
    BY <1>1, NextNumberIsFree
  <2>2. /\ timeRules \in [RuleIds -> StoreWorkedTimeRule]
        /\ ruleDesk \in [RuleDesks -> RuleRequest] /\ ruleClock \in 0 .. MaxRuleClock
    BY DEF TimeRulesInv, WorkedTimeTypeOK, RuleRequest
  <2>3. new \in StoreWorkedTimeRule
    BY <2>2 DEF RuleRequest
  <2>4. Before(new.start, new.end) /\ new # NoTimeRule
    BY <1>1, RuleShapes DEF TimeRulesInv, RequestsAreForTheFuture
  <2>5. timeRules' = [timeRules EXCEPT ![n + 1] = new]
    BY <1>1, <1>3
  <2> HIDE DEF n, new, clash
  <2>6. \A g \in RuleIds : timeRules'[g] = IF g = n + 1 THEN new ELSE timeRules[g]
    BY <2>1, <2>2, <2>5
  <2>7. ruleDesk' \in [RuleDesks -> RuleRequest]
        /\ \A v \in RuleDesks : ruleDesk'[v] = IF v = w THEN FreeDesk ELSE ruleDesk[v]
    BY <1>1, <2>2, RuleShapes
  <2>8. WorkedTimeTypeOK'
    <3>1. timeRules' \in [RuleIds -> StoreWorkedTimeRule]
      BY <2>2, <2>3, <2>5
    <3>2. ruleClock' \in 0 .. MaxRuleClock
      BY <1>1, <2>2
    <3> QED
      BY <2>7, <3>1, <3>2 DEF WorkedTimeTypeOK, RuleRequest
  <2>9. RulesInTurn'
    <3>1. {g \in RuleIds : timeRules'[g] # NoTimeRule} = taken \cup {n + 1}
      BY <2>1, <2>4, <2>6
    <3>2. taken \cup {n + 1} = 1 .. n + 1
      BY <2>1
    <3>3. \E k \in 0 .. Cardinality(RuleIds) :
            {g \in RuleIds : timeRules'[g] # NoTimeRule} = 1 .. k
      BY <2>1, <3>1, <3>2
    <3> QED
      BY <3>3, <2>4, <2>6 DEF RulesInTurn, TimeRulesInv
  <2>10. RequestsAreForTheFuture'
    BY <2>4, <2>6, <2>7, RuleShapes DEF RequestsAreForTheFuture, TimeRulesInv
  <2>11. \A g \in taken : timeRules[g].cut = Endless /\ SamePeople(new, timeRules[g])
                            => ~RuleWindowsOverlap(new, timeRules[g])
    BY <1>3 DEF clash
  <2>12. OneRulePerMoment'
    <3> SUFFICES ASSUME NEW g \in RuleIds, NEW h \in RuleIds, g # h,
                        timeRules'[g] # NoTimeRule, timeRules'[h] # NoTimeRule,
                        timeRules'[g].cut = Endless, timeRules'[h].cut = Endless,
                        SamePeople(timeRules'[g], timeRules'[h])
                 PROVE  ~RuleWindowsOverlap(timeRules'[g], timeRules'[h])
      BY DEF OneRulePerMoment
    <3>1. CASE g = n + 1
      BY <2>6, <2>11, <3>1
    <3>2. CASE h = n + 1
      <4>1. timeRules'[h] = new /\ timeRules'[g] = timeRules[g] /\ g \in taken
        BY <2>6, <3>2
      <4>2. timeRules[g] \in StoreWorkedTimeRule
        BY <2>2
      <4>3. SamePeople(new, timeRules[g])
        BY <2>3, <4>1, <4>2, BothWays
      <4>4. ~RuleWindowsOverlap(new, timeRules[g])
        BY <2>11, <4>1, <4>3
      <4> QED
        BY <4>1, <4>4, BothWays
    <3>3. CASE g # n + 1 /\ h # n + 1
      BY <2>6, <3>3 DEF TimeRulesInv, OneRulePerMoment
    <3> QED
      BY <3>1, <3>2, <3>3
  <2> QED
    BY <2>8, <2>9, <2>10, <2>12 DEF TimeRulesInv
<1> QED
  BY <1>2, <1>3

LEMMA CutRuleKeeps ==
  ASSUME TimeRulesInv, NEW w \in RuleDesks, CutWorkedTimeRule(w)
  PROVE  TimeRulesInv'
<1> DEFINE g == ruleDesk[w].g
           now == VnKeyCeil(ruleClock)
<1>1. /\ ruleDesk[w].pc = "delete" /\ ruleClock' = ruleClock
      /\ timeRules' = [timeRules EXCEPT ![g].cut = now]
      /\ ruleDesk' = [ruleDesk EXCEPT ![w] = FreeDesk]
  BY DEF CutWorkedTimeRule
<1>2. /\ timeRules \in [RuleIds -> StoreWorkedTimeRule]
      /\ ruleDesk \in [RuleDesks -> RuleRequest] /\ ruleClock \in 0 .. MaxRuleClock
      /\ ruleClock \in Nat
  BY WorkedTimeAssumption DEF TimeRulesInv, WorkedTimeTypeOK, RuleRequest
<1>3. now \in Nat
  BY <1>2, MinutesAreNumbers
<1>4. g \in RuleIds /\ timeRules[g] # NoTimeRule
  BY <1>1 DEF TimeRulesInv, RequestsAreForTheFuture
<1> HIDE DEF g, now
<1> DEFINE cut == [timeRules[g] EXCEPT !.cut = now]
<1>5. timeRules[g] \in StoreWorkedTimeRule /\ Before(timeRules[g].start, timeRules[g].end)
  BY <1>2, <1>4 DEF TimeRulesInv, RulesInTurn
<1>6. /\ cut \in StoreWorkedTimeRule /\ cut.cut = now /\ cut.start = timeRules[g].start
      /\ cut.end = timeRules[g].end
  BY <1>3, <1>5 DEF StoreWorkedTimeRule
<1>7. cut # NoTimeRule
  BY <1>5, <1>6, RuleShapes
<1>8. timeRules' = [timeRules EXCEPT ![g] = cut]
  BY <1>1
<1> HIDE DEF cut
<1>9. \A h \in RuleIds : timeRules'[h] = IF h = g THEN cut ELSE timeRules[h]
  BY <1>2, <1>4, <1>8
<1>10. ruleDesk' \in [RuleDesks -> RuleRequest]
       /\ \A v \in RuleDesks : ruleDesk'[v] = IF v = w THEN FreeDesk ELSE ruleDesk[v]
  BY <1>1, <1>2, RuleShapes
<1>11. WorkedTimeTypeOK'
  <2>1. timeRules' \in [RuleIds -> StoreWorkedTimeRule]
    BY <1>2, <1>6, <1>8
  <2>2. ruleClock' \in 0 .. MaxRuleClock
    BY <1>1, <1>2
  <2> QED
    BY <1>10, <2>1, <2>2 DEF WorkedTimeTypeOK, RuleRequest
<1>12. \A h \in RuleIds : timeRules'[h] # NoTimeRule <=> timeRules[h] # NoTimeRule
  BY <1>4, <1>7, <1>9
<1>13. RulesInTurn'
  <2>1. {h \in RuleIds : timeRules'[h] # NoTimeRule} = {h \in RuleIds : timeRules[h] # NoTimeRule}
    BY <1>12
  <2> QED
    BY <2>1, <1>5, <1>6, <1>9 DEF RulesInTurn, TimeRulesInv
<1>14. RequestsAreForTheFuture'
  BY <1>10, <1>12, RuleShapes DEF RequestsAreForTheFuture, TimeRulesInv
<1>15. OneRulePerMoment'
  <2>1. cut.cut # Endless
    BY <1>3, <1>6, RuleShapes
  <2> QED
    BY <1>9, <2>1 DEF OneRulePerMoment, TimeRulesInv
<1> QED
  BY <1>11, <1>13, <1>14, <1>15 DEF TimeRulesInv

\* The desk that takes a request is one of the free ones.
LEMMA RequestsAreTaken ==
  ASSUME WorkedTimeNext
  PROVE  \/ RuleTick
         \/ \E w \in RuleDesks :
              \/ \E wish \in RuleWishes : CreateWorkedTimeRule(w, wish)
              \/ \E g \in RuleIds : DeleteWorkedTimeRule(w, g)
              \/ SaveWorkedTimeRule(w) \/ CutWorkedTimeRule(w)
<1> DEFINE free == {w \in RuleDesks : ruleDesk[w] = FreeDesk}
           d == CHOOSE w \in free : TRUE
<1>1. free # {} => d \in RuleDesks
  OBVIOUS
<1>2. CASE /\ free # {}
           /\ \/ \E wish \in RuleWishes : CreateWorkedTimeRule(d, wish)
              \/ \E g \in RuleIds : DeleteWorkedTimeRule(d, g)
  BY <1>1, <1>2
<1>3. CASE RuleTick \/ \E w \in RuleDesks : SaveWorkedTimeRule(w) \/ CutWorkedTimeRule(w)
  BY <1>3
<1> QED
  BY <1>2, <1>3 DEF WorkedTimeNext

LEMMA WorkedTimeStep == TimeRulesInv /\ [WorkedTimeNext]_workedTimeVars => TimeRulesInv'
<1> SUFFICES ASSUME TimeRulesInv, [WorkedTimeNext]_workedTimeVars PROVE TimeRulesInv'
  OBVIOUS
<1>1. CASE UNCHANGED <<timeRules, ruleDesk>> /\ ruleClock' \in 0 .. MaxRuleClock
  BY <1>1 DEF TimeRulesInv, WorkedTimeTypeOK, RulesInTurn, RequestsAreForTheFuture,
              OneRulePerMoment
<1>2. CASE RuleTick
  BY <1>1, <1>2, WorkedTimeAssumption DEF RuleTick, TimeRulesInv, WorkedTimeTypeOK
<1>3. CASE UNCHANGED workedTimeVars
  BY <1>1, <1>3 DEF workedTimeVars, TimeRulesInv, WorkedTimeTypeOK
<1>4. CASE WorkedTimeNext
  BY <1>2, <1>4, RequestsAreTaken, CreateRuleKeeps, DeleteRuleKeeps, SaveRuleKeeps,
     CutRuleKeeps
<1> QED
  BY <1>3, <1>4

LEMMA WorkedTimeStarts == WorkedTimeInit => TimeRulesInv
<1> SUFFICES ASSUME WorkedTimeInit PROVE TimeRulesInv
  OBVIOUS
<1>1. /\ ruleClock = 0 /\ timeRules = [g \in RuleIds |-> NoTimeRule]
      /\ ruleDesk = [w \in RuleDesks |-> FreeDesk]
  BY DEF WorkedTimeInit
<1>2. WorkedTimeTypeOK
  BY <1>1, RuleShapes, WorkedTimeAssumption DEF WorkedTimeTypeOK, RuleRequest
<1>3. RulesInTurn
  <2>1. {g \in RuleIds : timeRules[g] # NoTimeRule} = 1 .. 0
    BY <1>1
  <2>2. 0 \in 0 .. Cardinality(RuleIds)
    BY RuleShapes
  <2> QED
    BY <1>1, <2>1, <2>2 DEF RulesInTurn
<1>4. RequestsAreForTheFuture
  BY <1>1, RuleShapes DEF RequestsAreForTheFuture
<1>5. OneRulePerMoment
  BY <1>1 DEF OneRulePerMoment
<1> QED
  BY <1>2, <1>3, <1>4, <1>5 DEF TimeRulesInv

\* The way a shift is counted depends on the rules that cover its beginning.
LEMMA CountedAlike ==
  ASSUME NEW e \in PaidStaff, NEW k,
         \A x \in {e, Endless} : Covering(x, k, timeRules') = Covering(x, k, timeRules),
         \A x \in {e, Endless} : \A g \in Covering(x, k, timeRules) :
           timeRules'[g].mode = timeRules[g].mode
  PROVE  ResolveWorkedTimeMode(e, k, timeRules') = ResolveWorkedTimeMode(e, k, timeRules)
<1> DEFINE newest(S) == CHOOSE g \in S : \A h \in S : h <= g
           own == Covering(e, k, timeRules)
           store == Covering(Endless, k, timeRules)
           mode(rules) == IF own # {} THEN rules[newest(own)].mode
                          ELSE IF store # {} THEN rules[newest(store)].mode
                          ELSE IF k >= ActualFrom THEN "ACTUAL" ELSE "SHIFT"
<1>1. /\ ResolveWorkedTimeMode(e, k, timeRules) = mode(timeRules)
      /\ ResolveWorkedTimeMode(e, k, timeRules') = mode(timeRules')
  <2>1. Covering(e, k, timeRules') = own /\ Covering(Endless, k, timeRules') = store
    OBVIOUS
  <2> QED
    BY <2>1 DEF ResolveWorkedTimeMode
<1>2. ASSUME NEW x \in {e, Endless}, Covering(x, k, timeRules) # {}
      PROVE  newest(Covering(x, k, timeRules)) \in Covering(x, k, timeRules)
  <2>1. PICK S : S = Covering(x, k, timeRules)
    OBVIOUS
  <2>2. S \in SUBSET (0 .. Cardinality(RuleIds))
    BY <2>1, RuleShapes, WorkedTimeAssumption DEF Covering
  <2>3. \E m \in S : \A t \in S : t <= m
    BY <1>2, <2>1, <2>2, RuleShapes, GreatestOf
  <2>4. newest(S) \in S
    BY <2>3
  <2> QED
    BY <2>1, <2>4
<1>3. mode(timeRules') = mode(timeRules)
  <2> HIDE DEF newest
  <2> QED
    BY <1>2
<1> QED
  BY <1>1, <1>3

\* Whether a rule covers a minute before a moment does not depend on a rule
\* that begins later, nor on one that is cut off later.
LEMMA BegunKeep ==
  ASSUME TimeRulesInv, WorkedTimeNext, NEW e \in PaidStaff, NEW k \in Minutes,
         ResolveWorkedTimeMode(e, k, timeRules') # ResolveWorkedTimeMode(e, k, timeRules)
  PROVE  \E w \in RuleDesks :
           \/ ruleDesk[w].pc = "create" /\ k >= ruleDesk[w].since
           \/ /\ ruleDesk[w].pc = "delete"
              /\ \/ k >= VnKeyCeil(ruleClock)
                 \/ timeRules[ruleDesk[w].g].cut # Endless
<1>0. /\ timeRules \in [RuleIds -> StoreWorkedTimeRule]
      /\ ruleDesk \in [RuleDesks -> RuleRequest] /\ ruleClock \in Nat
      /\ k \in Int
  BY WorkedTimeAssumption DEF TimeRulesInv, WorkedTimeTypeOK, RuleRequest, Minutes
<1>1. timeRules' # timeRules
  OBVIOUS
<1>2. ASSUME NEW w \in RuleDesks, SaveWorkedTimeRule(w), k < ruleDesk[w].since
      PROVE  FALSE
  <2> DEFINE new == ruleDesk[w].rule
             taken == {g \in RuleIds : timeRules[g] # NoTimeRule}
             n == Cardinality(taken)
  <2>1. ruleDesk[w].pc = "create" /\ taken # RuleIds
        /\ timeRules' \in {timeRules, [timeRules EXCEPT ![n + 1] = new]}
    BY <1>2 DEF SaveWorkedTimeRule
  <2>2. timeRules' = [timeRules EXCEPT ![n + 1] = new]
    BY <1>1, <2>1
  <2>3. n + 1 \in RuleIds /\ timeRules[n + 1] = NoTimeRule
    BY <2>1, NextNumberIsFree
  <2>4. new.start \in Nat /\ ruleDesk[w].since \in Nat
    BY <1>0 DEF RuleRequest, StoreWorkedTimeRule
  <2>5. k < new.start
    BY <1>0, <1>2, <2>1, <2>4 DEF TimeRulesInv, RequestsAreForTheFuture
  <2>6. ~RuleCovers(new, k)
    BY <1>0, <2>4, <2>5 DEF RuleCovers
  <2> HIDE DEF n, new
  <2>7. \A g \in RuleIds : timeRules'[g] = IF g = n + 1 THEN new ELSE timeRules[g]
    BY <1>0, <2>2, <2>3
  <2>8. \A x \in {e, Endless} : Covering(x, k, timeRules') = Covering(x, k, timeRules)
    BY <2>3, <2>6, <2>7 DEF Covering
  <2>9. \A x \in {e, Endless} : \A g \in Covering(x, k, timeRules) :
          timeRules'[g].mode = timeRules[g].mode
    BY <2>3, <2>7 DEF Covering
  <2> QED
    BY <2>8, <2>9, CountedAlike
<1>3. ASSUME NEW w \in RuleDesks, CutWorkedTimeRule(w), k < VnKeyCeil(ruleClock),
             timeRules[ruleDesk[w].g].cut = Endless
      PROVE  FALSE
  <2>1. PICK g, now : g = ruleDesk[w].g /\ now = VnKeyCeil(ruleClock)
    OBVIOUS
  <2>2. ruleDesk[w].pc = "delete" /\ timeRules' = [timeRules EXCEPT ![g].cut = now]
    BY <1>3, <2>1 DEF CutWorkedTimeRule
  <2>3. g \in RuleIds /\ timeRules[g] # NoTimeRule /\ now \in Nat
    BY <1>0, <2>1, <2>2, MinutesAreNumbers DEF TimeRulesInv, RequestsAreForTheFuture
  <2>4. PICK old : old = timeRules[g]
    OBVIOUS
  <2>5. PICK cut : cut = [old EXCEPT !.cut = now]
    OBVIOUS
  <2>6. old \in StoreWorkedTimeRule /\ Before(old.start, old.end)
    BY <1>0, <2>3, <2>4 DEF TimeRulesInv, RulesInTurn
  <2>7. /\ cut.cut = now /\ cut.start = old.start /\ cut.end = old.end
        /\ cut.for = old.for /\ cut.mode = old.mode
    BY <2>5, <2>6 DEF StoreWorkedTimeRule
  <2>8. cut # NoTimeRule /\ old # NoTimeRule
    BY <2>6, <2>7, RuleShapes
  <2>9. \A h \in RuleIds : timeRules'[h] = IF h = g THEN cut ELSE timeRules[h]
    BY <1>0, <2>2, <2>3, <2>4, <2>5
  <2>10. RuleCovers(cut, k) <=> RuleCovers(old, k)
    BY <1>0, <1>3, <2>1, <2>3, <2>4, <2>7 DEF RuleCovers, Before
  <2>11. \A x \in {e, Endless} : Covering(x, k, timeRules') = Covering(x, k, timeRules)
    BY <2>4, <2>7, <2>8, <2>9, <2>10 DEF Covering
  <2>12. \A x \in {e, Endless} : \A h \in Covering(x, k, timeRules) :
           timeRules'[h].mode = timeRules[h].mode
    BY <2>4, <2>7, <2>9 DEF Covering
  <2> QED
    BY <2>11, <2>12, CountedAlike
<1>4. PICK w \in RuleDesks : SaveWorkedTimeRule(w) \/ CutWorkedTimeRule(w)
  BY <1>1, RequestsAreTaken DEF RuleTick, CreateWorkedTimeRule, DeleteWorkedTimeRule
<1>5. CASE SaveWorkedTimeRule(w)
  <2>1. ruleDesk[w].pc = "create" /\ ruleDesk[w].since \in Nat
    BY <1>0, <1>5 DEF SaveWorkedTimeRule, RuleRequest
  <2> QED
    BY <1>0, <1>2, <1>5, <2>1
<1>6. CASE CutWorkedTimeRule(w)
  <2>1. ruleDesk[w].pc = "delete"
    BY <1>6 DEF CutWorkedTimeRule
  <2> QED
    BY <1>0, <1>3, <1>6, <2>1, MinutesAreNumbers
<1> QED
  BY <1>4, <1>5, <1>6

(* The rules of paid time: for any employees, wishes, desks and numbers of *)
(* rules, each moment has one way of counting, and no request changes how  *)
(* a shift is counted that began before it was received.                   *)
THEOREM WorkedTimeKept == WorkedTimeSpec => WorkedTimePromise
<1>1. TimeRulesInv /\ [WorkedTimeNext]_workedTimeVars =>
        [\A e \in PaidStaff, k \in Minutes :
           ResolveWorkedTimeMode(e, k, timeRules')
               # ResolveWorkedTimeMode(e, k, timeRules)
             => \E w \in RuleDesks :
                  \/ ruleDesk[w].pc = "create" /\ k >= ruleDesk[w].since
                  \/ /\ ruleDesk[w].pc = "delete"
                     /\ \/ k >= VnKeyCeil(ruleClock)
                        \/ timeRules[ruleDesk[w].g].cut # Endless]_workedTimeVars
  BY BegunKeep
<1>2. TimeRulesInv => /\ WorkedTimeTypeOK /\ RulesInTurn /\ RequestsAreForTheFuture
                      /\ OneRulePerMoment
  BY DEF TimeRulesInv
<1> QED
  BY <1>1, <1>2, WorkedTimeStarts, WorkedTimeStep, PTL
     DEF WorkedTimeSpec, WorkedTimePromise, BegunShiftsKeepTheirMode

-----------------------------------------------------------------------------
(* CustomShifts.  What is inductive: the row of a request is held from the *)
(* moment it is read, and the row of the store while the shifts are put    *)
(* down, so neither the answer nor the roster moves under an approval.     *)

PlansInv == PlansTypeOK /\ LocksAreHeld /\ ApprovedMeansBooked /\ ShiftsAreApart
Shift == [date : PlanDates, hours : PlanHours, name : Nat, ask : AskIds \cup {0}]
PlanDeskStates == {IdlePlanDesk} \cup [at : {"locked", "store"}, ask : AskIds]

LEMMA PlanDeskShapes ==
  /\ IdlePlanDesk \in PlanDeskStates /\ IdlePlanDesk.at = "idle"
  /\ \A o \in PlanDeskStates : o.at # "idle" => o.at \in {"locked", "store"} /\ o.ask \in AskIds
  /\ NoAsk.status = "NONE" /\ 0 \notin AskIds /\ 0 \notin PlanDesks
BY PlansAssumption DEF IdlePlanDesk, PlanDeskStates, NoAsk

\* Every date has a free name among one more names than there are shifts.
LEMMA ANameIsFree ==
  ASSUME PlansTypeOK, NEW x
  PROVE  /\ FreeName(x) \in Nat
         /\ \A b \in booked : b.date = x => b.name # FreeName(x)
<1> DEFINE n == Cardinality(booked)
           free == {m \in 1 .. n + 1 : ~\E b \in booked : b.date = x /\ b.name = m}
<1>1. n \in Nat /\ IsFiniteSet(booked)
  BY FS_CardinalityType DEF PlansTypeOK
<1>2. free # {}
  <2> SUFFICES ASSUME free = {} PROVE FALSE
    OBVIOUS
  <2>1. \A m \in 1 .. n + 1 : \E b \in booked : b.date = x /\ b.name = m
    OBVIOUS
  <2>2. PICK f : f = [m \in 1 .. n + 1 |-> CHOOSE b \in booked : b.date = x /\ b.name = m]
    OBVIOUS
  <2>3. f \in [1 .. n + 1 -> booked] /\ \A m \in 1 .. n + 1 : f[m].name = m
    BY <2>1, <2>2
  <2>4. IsFiniteSet(1 .. n + 1) /\ Cardinality(1 .. n + 1) = n + 1
    BY <1>1, FS_Interval
  <2>5. n < n + 1
    BY <1>1
  <2>6. \E i, j \in 1 .. n + 1 : i # j /\ f[i] = f[j]
    BY <1>1, <2>3, <2>4, <2>5, FS_PigeonHole
  <2> QED
    BY <2>3, <2>6
<1>3. free \in SUBSET Nat
  BY <1>1
<1> HIDE DEF free
<1>4. PICK m \in free : \A t \in free : m <= t
  BY <1>2, <1>3, LeastOf
<1>5. Min(free) \in free
  BY <1>4 DEF Min
<1>6. FreeName(x) = Min(free)
  BY DEF FreeName, free
<1> QED
  BY <1>3, <1>5, <1>6 DEF free

LEMMA OverlapBothWays == \A g, h : HoursOverlap(g, h) => HoursOverlap(h, g)
BY DEF HoursOverlap

LEMMA PlansStart == PlansInit => PlansInv
<1> SUFFICES ASSUME PlansInit PROVE PlansInv
  OBVIOUS
<1>1. PlansTypeOK
  BY FS_EmptySet DEF PlansInit, PlansTypeOK
<1>2. LocksAreHeld
  BY PlanDeskShapes DEF PlansInit, LocksAreHeld
<1>3. ApprovedMeansBooked /\ ShiftsAreApart
  BY PlanDeskShapes DEF PlansInit, ApprovedMeansBooked, ShiftsAreApart
<1> QED
  BY <1>1, <1>2, <1>3 DEF PlansInv

\* A request that nobody works on, and that has no shift, is written.
LEMMA AskWritten ==
  ASSUME PlansInv, NEW r \in AskIds, RowFree(r), asks[r].status # "APPROVED",
         NEW a \in CustomShiftRequest, a.status # "APPROVED",
         asks' = [asks EXCEPT ![r] = a], UNCHANGED <<booked, storeHolder, planDesk>>
  PROVE  PlansInv'
<1>1. \A q \in AskIds : asks'[q] = IF q = r THEN a ELSE asks[q]
  BY DEF PlansInv, PlansTypeOK
<1>2. PlansTypeOK'
  BY DEF PlansInv, PlansTypeOK
<1>3. LocksAreHeld'
  <2>1. \A d \in PlanDesks : planDesk[d].at # "idle" =>
          planDesk[d].ask \in AskIds /\ planDesk[d].ask # r
    BY PlanDeskShapes DEF PlansInv, PlansTypeOK, PlanDeskStates, RowFree
  <2> QED
    BY <1>1, <2>1 DEF PlansInv, LocksAreHeld
<1>4. ApprovedMeansBooked'
  BY <1>1 DEF PlansInv, ApprovedMeansBooked
<1>5. ShiftsAreApart'
  BY DEF PlansInv, ShiftsAreApart
<1> QED
  BY <1>2, <1>3, <1>4, <1>5 DEF PlansInv

LEMMA AskKeeps ==
  ASSUME PlansInv, NEW r \in AskIds, Ask(r)
  PROVE  PlansInv'
<1>1. PICK dates \in SUBSET PlanDates, h \in PlanHours :
        asks' = [asks EXCEPT ![r] = [status |-> "PENDING", dates |-> dates, hours |-> h,
                                     ref |-> {}]]
  BY DEF Ask
<1> DEFINE a == [status |-> "PENDING", dates |-> dates, hours |-> h, ref |-> {}]
<1>2. a \in CustomShiftRequest /\ a.status = "PENDING"
  BY DEF CustomShiftRequest
<1>3. asks[r].status = "NONE" /\ UNCHANGED <<booked, storeHolder, planDesk>>
  BY PlanDeskShapes DEF Ask
<1>4. RowFree(r)
  BY <1>3 DEF RowFree, PlansInv, LocksAreHeld
<1> HIDE DEF a
<1> QED
  BY <1>1, <1>2, <1>3, <1>4, AskWritten DEF a

LEMMA CloseAskKeeps ==
  ASSUME PlansInv, NEW r \in AskIds, CloseAsk(r)
  PROVE  PlansInv'
<1>1. PICK s \in {"CANCELLED", "REJECTED"} : asks' = [asks EXCEPT ![r].status = s]
  BY DEF CloseAsk
<1>2. /\ asks[r].status = "PENDING" /\ RowFree(r)
      /\ UNCHANGED <<booked, storeHolder, planDesk>>
  BY DEF CloseAsk
<1>3. asks[r] \in CustomShiftRequest
  BY <1>2, PlanDeskShapes DEF PlansInv, PlansTypeOK
<1>4. PICK a : a = [asks[r] EXCEPT !.status = s]
  OBVIOUS
<1>5. a \in CustomShiftRequest /\ a.status = s
  BY <1>3, <1>4 DEF CustomShiftRequest
<1>6. asks' = [asks EXCEPT ![r] = a]
  BY <1>1, <1>4
<1> QED
  BY <1>2, <1>5, <1>6, AskWritten

LEMMA ApproveLocksKeeps ==
  ASSUME PlansInv, NEW d \in PlanDesks, NEW r \in AskIds, ApproveLocks(d, r)
  PROVE  PlansInv'
<1> DEFINE o == [at |-> "locked", ask |-> r]
<1>1. /\ planDesk[d] = IdlePlanDesk /\ RowFree(r) /\ asks[r].status = "PENDING"
      /\ planDesk' = [planDesk EXCEPT ![d] = o] /\ UNCHANGED <<asks, booked, storeHolder>>
  BY DEF ApproveLocks
<1>2. o \in PlanDeskStates /\ o.at = "locked" /\ o.ask = r
  BY DEF PlanDeskStates
<1> HIDE DEF o
<1>3. planDesk \in [PlanDesks -> PlanDeskStates]
  BY DEF PlansInv, PlansTypeOK, PlanDeskStates
<1>4. \A e \in PlanDesks : planDesk'[e] = IF e = d THEN o ELSE planDesk[e]
  BY <1>1, <1>3
<1>5. PlansTypeOK'
  BY <1>1, <1>2, <1>3 DEF PlansInv, PlansTypeOK, PlanDeskStates
<1>6. LocksAreHeld'
  BY <1>1, <1>2, <1>4 DEF PlansInv, LocksAreHeld, RowFree
<1>7. ApprovedMeansBooked' /\ ShiftsAreApart'
  BY <1>1 DEF PlansInv, ApprovedMeansBooked, ShiftsAreApart
<1> QED
  BY <1>5, <1>6, <1>7 DEF PlansInv

LEMMA WaitForStoreKeeps ==
  ASSUME PlansInv, NEW d \in PlanDesks, WaitForStore(d)
  PROVE  PlansInv'
<1>1. /\ planDesk[d].at = "locked" /\ storeHolder = 0 /\ storeHolder' = d
      /\ planDesk' = [planDesk EXCEPT ![d].at = "store"] /\ UNCHANGED <<asks, booked>>
  BY DEF WaitForStore
<1>2. planDesk \in [PlanDesks -> PlanDeskStates]
  BY DEF PlansInv, PlansTypeOK, PlanDeskStates
<1>3. planDesk[d] \in [at : {"locked", "store"}, ask : AskIds]
  BY <1>1, <1>2, PlanDeskShapes DEF PlanDeskStates
<1>4. PICK o : o = [planDesk[d] EXCEPT !.at = "store"]
  OBVIOUS
<1>5. o \in PlanDeskStates /\ o.at = "store" /\ o.ask = planDesk[d].ask
  BY <1>3, <1>4 DEF PlanDeskStates
<1>6. planDesk' = [planDesk EXCEPT ![d] = o]
  BY <1>1, <1>4
<1>7. \A e \in PlanDesks : planDesk'[e] = IF e = d THEN o ELSE planDesk[e]
  BY <1>2, <1>6
<1>8. PlansTypeOK'
  BY <1>1, <1>2, <1>5, <1>6 DEF PlansInv, PlansTypeOK, PlanDeskStates
<1>9. \A e \in PlanDesks : planDesk[e].at # "store"
  BY <1>1, PlanDeskShapes DEF PlansInv, LocksAreHeld
<1>10. LocksAreHeld'
  BY <1>1, <1>5, <1>7, <1>9 DEF PlansInv, LocksAreHeld
<1>11. ApprovedMeansBooked' /\ ShiftsAreApart'
  BY <1>1 DEF PlansInv, ApprovedMeansBooked, ShiftsAreApart
<1> QED
  BY <1>8, <1>10, <1>11 DEF PlansInv

\* The desk that books lets go of both locks.
LEMMA LettingStoreGo ==
  ASSUME PlansInv, NEW d \in PlanDesks, planDesk[d].at = "store",
         storeHolder' = 0, planDesk' = [planDesk EXCEPT ![d] = IdlePlanDesk],
         \A q \in AskIds : q # planDesk[d].ask => asks'[q] = asks[q]
  PROVE  /\ LocksAreHeld' /\ storeHolder' \in PlanDesks \cup {0}
         /\ planDesk' \in [PlanDesks -> PlanDeskStates]
<1>1. planDesk \in [PlanDesks -> PlanDeskStates]
  BY DEF PlansInv, PlansTypeOK, PlanDeskStates
<1>2. \A e \in PlanDesks : planDesk'[e] = IF e = d THEN IdlePlanDesk ELSE planDesk[e]
  BY <1>1
<1>3. planDesk' \in [PlanDesks -> PlanDeskStates]
  BY <1>1, PlanDeskShapes
<1>4. ASSUME NEW e \in PlanDesks, planDesk'[e].at # "idle"
      PROVE  /\ e # d /\ planDesk'[e] = planDesk[e] /\ planDesk[e].ask # planDesk[d].ask
             /\ planDesk[e].ask \in AskIds /\ planDesk[e].at # "store"
  <2>1. e # d /\ planDesk'[e] = planDesk[e] /\ planDesk[e].ask \in AskIds
    BY <1>1, <1>2, <1>4, PlanDeskShapes
  <2>2. planDesk[e].ask # planDesk[d].ask /\ planDesk[e].at # "store"
    BY <1>4, <2>1 DEF PlansInv, LocksAreHeld
  <2> QED
    BY <2>1, <2>2
<1>5. LocksAreHeld'
  BY <1>4 DEF PlansInv, LocksAreHeld
<1> QED
  BY <1>3, <1>5

LEMMA ApproveBooksKeeps ==
  ASSUME PlansInv, NEW d \in PlanDesks, ApproveBooks(d)
  PROVE  PlansInv'
<1> DEFINE r == planDesk[d].ask
           dates == {x \in asks[r].dates : x >= planToday}
           shift(x) == [date |-> x, hours |-> asks[r].hours, name |-> FreeName(x), ask |-> r]
<1>1. /\ planDesk[d].at = "store" /\ storeHolder' = 0
      /\ planDesk' = [planDesk EXCEPT ![d] = IdlePlanDesk]
      /\ IF dates # {} /\ ~AskConflicts(r, dates)
         THEN /\ booked' = booked \cup {shift(x) : x \in dates}
              /\ asks' = [asks EXCEPT ![r].status = "APPROVED", ![r].ref = dates]
         ELSE UNCHANGED <<booked, asks>>
  BY DEF ApproveBooks
<1>2. r \in AskIds /\ asks[r].status = "PENDING"
  BY <1>1, PlanDeskShapes DEF PlansInv, PlansTypeOK, PlanDeskStates, LocksAreHeld
<1>3. asks \in [AskIds -> CustomShiftRequest \cup {NoAsk}]
      /\ booked \subseteq Shift /\ IsFiniteSet(booked)
  BY DEF PlansInv, PlansTypeOK, Shift
<1>4. asks[r] \in CustomShiftRequest
  BY <1>2, <1>3, PlanDeskShapes
<1>5. dates \subseteq PlanDates /\ asks[r].hours \in PlanHours /\ IsFiniteSet(dates)
  <2>1. asks[r].dates \subseteq PlanDates /\ asks[r].hours \in PlanHours
    BY <1>4 DEF CustomShiftRequest
  <2>2. dates \in SUBSET PlanDates
    BY <2>1
  <2> QED
    BY <2>1, <2>2, PlansAssumption, FS_Subset
<1> HIDE DEF dates, r
<1>6. CASE ~(dates # {} /\ ~AskConflicts(r, dates))
  <2>1. UNCHANGED <<booked, asks>>
    BY <1>1, <1>6
  <2>2. /\ LocksAreHeld' /\ storeHolder' \in PlanDesks \cup {0}
        /\ planDesk' \in [PlanDesks -> PlanDeskStates]
    BY <1>1, <2>1, LettingStoreGo
  <2>3. ApprovedMeansBooked' /\ ShiftsAreApart'
    BY <2>1 DEF PlansInv, ApprovedMeansBooked, ShiftsAreApart
  <2> QED
    BY <2>1, <2>2, <2>3 DEF PlansInv, PlansTypeOK, PlanDeskStates
<1>7. CASE dates # {} /\ ~AskConflicts(r, dates)
  <2> DEFINE new == {shift(x) : x \in dates}
  <2>1. booked' = booked \cup new
        /\ asks' = [asks EXCEPT ![r].status = "APPROVED", ![r].ref = dates]
    BY <1>1, <1>7
  <2>2. PICK a : a = [asks[r] EXCEPT !.status = "APPROVED", !.ref = dates]
    OBVIOUS
  <2>3. a \in CustomShiftRequest /\ a.status = "APPROVED" /\ a.ref = dates
    BY <1>4, <1>5, <2>2 DEF CustomShiftRequest
  <2>4. \A q \in AskIds : asks'[q] = IF q = r THEN a ELSE asks[q]
    BY <1>3, <2>1, <2>2
  <2>5. asks' \in [AskIds -> CustomShiftRequest \cup {NoAsk}]
    BY <1>2, <1>3, <2>1, <2>2, <2>3
  <2>6. \A x \in dates : /\ shift(x) \in Shift /\ shift(x).date = x /\ shift(x).ask = r
                         /\ shift(x).hours = asks[r].hours /\ shift(x).name = FreeName(x)
    BY <1>2, <1>5, ANameIsFree DEF Shift, PlansInv
  <2> HIDE DEF shift
  <2>7. IsFiniteSet(new) /\ Cardinality(new) = Cardinality(dates)
    <3>1. PICK f : f = [x \in dates |-> shift(x)]
      OBVIOUS
    <3>2. f \in [dates -> new] /\ \A x \in dates : f[x] = shift(x)
      BY <3>1
    <3>3. f \in Bijection(dates, new)
      <4>1. \A x, y \in dates : f[x] = f[y] => x = y
        BY <2>6, <3>2
      <4>2. \A b \in new : \E x \in dates : f[x] = b
        BY <3>2
      <4> QED
        BY <3>2, <4>1, <4>2 DEF Bijection, Injection, Surjection, IsInjective
    <3> QED
      BY <1>5, <3>3, FS_Bijection DEF ExistsBijection
  <2>8. IsFiniteSet(booked \cup new)
    BY <1>3, <2>7, FS_Union
  <2>9. new \subseteq Shift /\ \A b \in new : b.ask = r /\ b.date \in dates
    BY <2>6
  <2>10. {b.date : b \in new} = dates
    BY <2>6
  <2>11. {b \in booked : b.ask = r} = {}
    BY <1>2 DEF PlansInv, ApprovedMeansBooked
  <2>12. /\ LocksAreHeld' /\ storeHolder' \in PlanDesks \cup {0}
         /\ planDesk' \in [PlanDesks -> PlanDeskStates]
    BY <1>1, <2>4, LettingStoreGo DEF r
  <2>13. PlansTypeOK'
    BY <1>3, <2>1, <2>5, <2>8, <2>9, <2>12 DEF PlansTypeOK, Shift, PlanDeskStates
  <2>14. ApprovedMeansBooked'
    <3>1. {b \in booked' : b.ask = r} = new
      BY <2>1, <2>9, <2>11
    <3>2. ASSUME NEW q \in AskIds, q # r
          PROVE  {b \in booked' : b.ask = q} = {b \in booked : b.ask = q}
      BY <2>1, <2>9, <3>2
    <3>3. asks'[r].status = "APPROVED" /\ asks'[r].ref = dates
      BY <1>2, <2>3, <2>4
    <3>4. {b.date : b \in {c \in booked' : c.ask = r}} = asks'[r].ref
      BY <2>10, <3>1, <3>3
    <3>5. Cardinality({b \in booked' : b.ask = r}) = Cardinality(asks'[r].ref)
      BY <2>7, <3>1, <3>3
    <3> HIDE DEF new
    <3>6. ASSUME NEW q \in AskIds
          PROVE  LET mine == {b \in booked' : b.ask = q} IN
                 IF asks'[q].status = "APPROVED"
                 THEN {b.date : b \in mine} = asks'[q].ref
                      /\ Cardinality(mine) = Cardinality(asks'[q].ref)
                 ELSE mine = {}
      <4>1. CASE q = r
        BY <3>3, <3>4, <3>5, <4>1
      <4>2. CASE q # r
        <5>1. asks'[q] = asks[q]
          BY <2>4, <4>2
        <5> QED
          BY <3>2, <4>2, <5>1 DEF PlansInv, ApprovedMeansBooked
      <4> QED
        BY <4>1, <4>2
    <3> QED
      BY <3>6 DEF ApprovedMeansBooked
  <2>15. ASSUME NEW b \in booked, NEW c \in new, b.date = c.date
         PROVE  ~HoursOverlap(b.hours, c.hours) /\ b.name # c.name
    <3>1. PICK x \in dates : c = shift(x)
      OBVIOUS
    <3>2. b.date = x /\ c.hours = asks[r].hours /\ c.name = FreeName(x)
      BY <2>6, <2>15, <3>1
    <3>3. ~HoursOverlap(b.hours, asks[r].hours)
      BY <1>7, <3>2 DEF AskConflicts
    <3>4. b.name # FreeName(x)
      BY <3>2, ANameIsFree DEF PlansInv
    <3> QED
      BY <3>2, <3>3, <3>4
  <2>16. ASSUME NEW b \in new, NEW c \in new, b.date = c.date PROVE b = c
    BY <2>6, <2>16
  <2>17. ShiftsAreApart'
    <3> HIDE DEF new
    <3> SUFFICES ASSUME NEW b \in booked', NEW c \in booked', b # c, b.date = c.date
                 PROVE  ~HoursOverlap(b.hours, c.hours) /\ b.name # c.name
      BY DEF ShiftsAreApart
    <3>1. CASE b \in booked /\ c \in booked
      BY <3>1 DEF PlansInv, ShiftsAreApart
    <3>2. CASE b \in booked /\ c \in new
      BY <2>15, <3>2
    <3>3. CASE b \in new /\ c \in booked
      BY <2>15, <3>3, OverlapBothWays
    <3>4. CASE b \in new /\ c \in new
      BY <2>16, <3>4
    <3> QED
      BY <2>1, <3>1, <3>2, <3>3, <3>4
  <2> QED
    BY <2>12, <2>13, <2>14, <2>17 DEF PlansInv
<1> QED
  BY <1>6, <1>7

LEMMA OwnerBooksKeeps ==
  ASSUME PlansInv, OwnerBooks
  PROVE  PlansInv'
<1>1. PICK x \in PlanDates, h \in PlanHours :
        /\ ~\E b \in booked : b.date = x /\ (HoursOverlap(b.hours, h) \/ b.name = 1)
        /\ booked' = booked \cup {[date |-> x, hours |-> h, name |-> 1, ask |-> 0]}
  BY DEF OwnerBooks
<1> DEFINE s == [date |-> x, hours |-> h, name |-> 1, ask |-> 0]
<1>2. UNCHANGED <<asks, storeHolder, planDesk>>
  BY DEF OwnerBooks
<1>3. s \in Shift /\ s.date = x /\ s.hours = h /\ s.name = 1 /\ s.ask \notin AskIds
  BY PlanDeskShapes DEF Shift
<1> HIDE DEF s
<1>4. booked' = booked \cup {s}
  BY <1>1 DEF s
<1>5. booked \subseteq Shift /\ IsFiniteSet(booked')
  BY <1>4, FS_AddElement DEF PlansInv, PlansTypeOK, Shift
<1>6. PlansTypeOK'
  BY <1>2, <1>3, <1>4, <1>5 DEF PlansInv, PlansTypeOK, Shift
<1>7. LocksAreHeld'
  BY <1>2 DEF PlansInv, LocksAreHeld
<1>8. ApprovedMeansBooked'
  <2>1. \A q \in AskIds : {b \in booked' : b.ask = q} = {b \in booked : b.ask = q}
    BY <1>3, <1>4
  <2> QED
    BY <1>2, <2>1 DEF PlansInv, ApprovedMeansBooked
<1>9. ShiftsAreApart'
  <2> SUFFICES ASSUME NEW b \in booked', NEW c \in booked', b # c, b.date = c.date
               PROVE  ~HoursOverlap(b.hours, c.hours) /\ b.name # c.name
    BY DEF ShiftsAreApart
  <2>1. CASE b \in booked /\ c \in booked
    BY <2>1 DEF PlansInv, ShiftsAreApart
  <2>2. CASE b \in booked /\ c = s
    BY <1>1, <1>3, <2>2
  <2>3. CASE b = s /\ c \in booked
    BY <1>1, <1>3, <2>3, OverlapBothWays
  <2> QED
    BY <1>4, <2>1, <2>2, <2>3
<1> QED
  BY <1>6, <1>7, <1>8, <1>9 DEF PlansInv

LEMMA PlansStep == PlansInv /\ [PlansNext]_planVars => PlansInv'
<1> SUFFICES ASSUME PlansInv, [PlansNext]_planVars PROVE PlansInv'
  OBVIOUS
<1>1. CASE UNCHANGED <<asks, booked, storeHolder, planDesk>>
  BY <1>1 DEF PlansInv, PlansTypeOK, LocksAreHeld, ApprovedMeansBooked, ShiftsAreApart
<1>2. CASE EmployeeLeaves \/ NextPlanDay \/ UNCHANGED planVars
  BY <1>1, <1>2 DEF EmployeeLeaves, NextPlanDay, planVars
<1> QED
  BY <1>2, AskKeeps, CloseAskKeeps, ApproveLocksKeeps, WaitForStoreKeeps, ApproveBooksKeeps,
     OwnerBooksKeeps DEF PlansNext

\* An answer is given to requests that are pending, and to no other.
LEMMA AnswersKeep ==
  ASSUME PlansInv, PlansNext, NEW r \in AskIds,
         asks[r].status \in {"APPROVED", "REJECTED", "CANCELLED"}
  PROVE  asks'[r] = asks[r]
<1>0. asks \in [AskIds -> CustomShiftRequest \cup {NoAsk}] /\ asks[r] # NoAsk
  BY PlanDeskShapes DEF PlansInv, PlansTypeOK
<1>1. ASSUME NEW q \in AskIds, Ask(q) \/ CloseAsk(q)
      PROVE  asks'[r] = asks[r]
  <2>1. q # r
    BY <1>0, <1>1 DEF Ask, CloseAsk
  <2> QED
    BY <1>0, <1>1, <2>1 DEF Ask, CloseAsk
<1>2. ASSUME NEW d \in PlanDesks, ApproveBooks(d)
      PROVE  asks'[r] = asks[r]
  <2>1. planDesk[d].ask # r
    BY <1>2 DEF ApproveBooks, PlansInv, LocksAreHeld
  <2> QED
    BY <1>0, <1>2, <2>1 DEF ApproveBooks
<1>3. CASE UNCHANGED asks
  BY <1>3
<1> QED
  BY <1>1, <1>2, <1>3 DEF PlansNext, ApproveLocks, WaitForStore, OwnerBooks, EmployeeLeaves,
                          NextPlanDay

(* Custom shifts: for any number of requests, desks and dates, a request   *)
(* has its shifts when it is approved and none otherwise, no two shifts    *)
(* overlap or share a name, and an answer stands.                          *)
THEOREM CustomShiftsKept == PlansSpec => CustomShiftsPromise
<1>1. PlansInv /\ [PlansNext]_planVars =>
        [\A r \in AskIds : asks[r].status \in {"APPROVED", "REJECTED", "CANCELLED"} =>
           asks'[r] = asks[r]]_planVars
  BY AnswersKeep
<1>2. PlansInv => PlansTypeOK /\ LocksAreHeld /\ ApprovedMeansBooked /\ ShiftsAreApart
  BY DEF PlansInv
<1> QED
  BY <1>1, <1>2, PlansStart, PlansStep, PTL DEF PlansSpec, CustomShiftsPromise, AnswersStand

-----------------------------------------------------------------------------
(* WorkSupplements.  What is inductive: an approved claim names a shift    *)
(* whose two times are recorded and whose end is the employee's, which a   *)
(* later claim only moves outwards.                                        *)

SupInv == SupTypeOK /\ CreditsStand /\ ApprovedIsRecorded /\ NoTraceOfRefused
SupDeskStates == {IdleSupDesk}
        \cup [at : {"credits"}, r : SupIds, turn : SupTurns] \cup [at : {"cancels"}, r : SupIds]
Sups == BonusWorkRequest \cup {NoSup}

LEMMA SupTimesAreNumbers ==
  /\ MaybeTime \subseteq Int /\ Null = -1 /\ Null \in MaybeTime
  /\ SupTimesNamed \subseteq MaybeTime /\ SupTimesNamed \subseteq Nat
  /\ MaybeTime \subseteq SupTimesNamed \cup {Null} /\ 0 .. MaxSupClock \subseteq MaybeTime
  /\ \A x \in 0 .. MaxSupClock : x + SupDay \in SupTimesNamed /\ x \in SupTimesNamed
  /\ \A s \in SupTurns : SupWindow[s].start \in Nat /\ SupWindow[s].end \in Nat
<1>1. MaxSupClock \in Nat /\ SupDay \in Nat
  BY SupplementsAssumption
<1>2. \A s \in SupTurns : SupWindow[s].start \in Nat /\ SupWindow[s].end \in Nat
  BY SupplementsAssumption
<1> QED
  BY <1>1, <1>2 DEF MaybeTime, SupTimesNamed, Null

LEMMA SupShapes ==
  /\ NoSup.status = "NONE" /\ IdleSupDesk.at = "idle" /\ IdleSupDesk \in SupDeskStates
  /\ \A o \in SupDeskStates :
       /\ o.at # "idle" => o.r \in SupIds
       /\ o.at = "credits" => o.r \in SupIds /\ o.turn \in SupTurns
       /\ o.at = "cancels" => o.r \in SupIds
  /\ \A q \in Sups : q.status \in {"PENDING", "APPROVED", "REJECTED", "CANCELLED"} =>
       q \in BonusWorkRequest /\ q # NoSup
BY DEF NoSup, IdleSupDesk, SupDeskStates, Sups

LEMMA SupTyped ==
  ASSUME SupTypeOK
  PROVE  /\ record \in [SupTurns -> ShiftRecord] /\ sup \in [SupIds -> Sups]
         /\ supDesk \in [SupDesks -> SupDeskStates] /\ creditedFor \in [SupIds -> Nat]
         /\ slipOpen \in BOOLEAN /\ supClock \in 0 .. MaxSupClock
         /\ supClock \in Nat /\ supClock \in MaybeTime
BY SupplementsAssumption, SupTimesAreNumbers DEF SupTypeOK, Sups, SupDeskStates

LEMMA SupStarts == SupInit => SupInv
<1> SUFFICES ASSUME SupInit PROVE SupInv
  OBVIOUS
<1>1. [status |-> "APPROVED", in |-> Null, out |-> Null, auto |-> FALSE, late |-> 0,
       early |-> 0, worked |-> 0, onLeave |-> FALSE] \in ShiftRecord
  BY SupTimesAreNumbers DEF ShiftRecord
<1>2. SupTypeOK
  BY <1>1, SupplementsAssumption DEF SupInit, SupTypeOK
<1>3. /\ \A r \in SupIds : sup[r].status = "NONE" /\ creditedFor[r] = 0
      /\ \A d \in SupDesks : supDesk[d].at = "idle"
  BY SupShapes DEF SupInit
<1> QED
  BY <1>2, <1>3 DEF SupInv, CreditsStand, ApprovedIsRecorded, NoTraceOfRefused

\* Steps that leave requests and records alone.
LEMMA SupDeskTurns ==
  ASSUME SupInv, UNCHANGED <<record, sup, creditedFor>>,
         supClock' \in 0 .. MaxSupClock, slipOpen' \in BOOLEAN,
         supDesk' = supDesk
         \/ \E d \in SupDesks, o \in SupDeskStates :
              /\ supDesk' = [supDesk EXCEPT ![d] = o]
              /\ o.at # "idle" => sup[o.r] # NoSup
  PROVE  SupInv'
<1>1. supDesk' \in [SupDesks -> SupDeskStates]
  BY SupTyped DEF SupInv
<1>2. SupTypeOK'
  BY <1>1 DEF SupInv, SupTypeOK, SupDeskStates
<1>3. \A d \in SupDesks : supDesk'[d].at # "idle" => sup[supDesk'[d].r] # NoSup
  BY SupTyped DEF SupInv, CreditsStand
<1> QED
  BY <1>2, <1>3 DEF SupInv, CreditsStand, ApprovedIsRecorded, NoTraceOfRefused

\* Attendance and the roster write a shift that is not closed yet.
LEMMA RecordedKeeps ==
  ASSUME SupInv, NEW s \in SupTurns, NEW q \in ShiftRecord, record[s].status = "APPROVED",
         Recorded(s, q)
  PROVE  SupInv'
<1>1. /\ record' = [record EXCEPT ![s] = q]
      /\ UNCHANGED <<supClock, sup, slipOpen, supDesk, creditedFor>>
  BY DEF Recorded
<1>2. \A t \in SupTurns : record'[t] = IF t = s THEN q ELSE record[t]
  BY <1>1, SupTyped DEF SupInv
<1>3. SupTypeOK'
  BY <1>1 DEF SupInv, SupTypeOK
<1>4. \A r \in SupIds : sup[r].status = "APPROVED" =>
        sup[r].turn \in SupTurns /\ record'[sup[r].turn] = record[sup[r].turn]
  BY <1>2 DEF SupInv, CreditsStand, ApprovedIsRecorded
<1> QED
  BY <1>1, <1>3, <1>4 DEF SupInv, CreditsStand, ApprovedIsRecorded, NoTraceOfRefused

LEMMA AttendanceKeeps ==
  ASSUME SupInv, NEW s \in SupTurns, PunchIn(s) \/ PunchOut(s) \/ AutoOut(s) \/ TurnTaken(s)
  PROVE  SupInv'
<1>1. record[s] \in ShiftRecord /\ supClock \in MaybeTime /\ record[s].status = "APPROVED"
  BY SupTyped DEF SupInv, PunchIn, PunchOut, AutoOut, TurnTaken
<1>2. SupWindow[s].end \in MaybeTime \/ ~(supClock >= SupWindow[s].end)
  <2>1. SupWindow[s].end \in Nat /\ supClock \in 0 .. MaxSupClock /\ MaxSupClock \in Nat
    BY SupTimesAreNumbers, SupTyped, SupplementsAssumption DEF SupInv
  <2>2. supClock >= SupWindow[s].end => SupWindow[s].end \in 0 .. MaxSupClock
    BY <2>1
  <2> QED
    BY <2>2, SupTimesAreNumbers
<1>3. CASE PunchIn(s)
  <2>1. [record[s] EXCEPT !.in = supClock] \in ShiftRecord
    BY <1>1 DEF ShiftRecord
  <2> QED
    BY <1>1, <1>3, <2>1, RecordedKeeps DEF PunchIn
<1>4. CASE PunchOut(s)
  <2>1. [record[s] EXCEPT !.out = supClock, !.status = "COMPLETED"] \in ShiftRecord
    BY <1>1 DEF ShiftRecord
  <2> QED
    BY <1>1, <1>4, <2>1, RecordedKeeps DEF PunchOut
<1>5. CASE AutoOut(s)
  <2>1. [record[s] EXCEPT !.out = SupWindow[s].end, !.auto = TRUE, !.status = "COMPLETED"]
          \in ShiftRecord
    BY <1>1, <1>2, <1>5 DEF ShiftRecord, AutoOut
  <2> QED
    BY <1>1, <1>5, <2>1, RecordedKeeps DEF AutoOut
<1>6. CASE TurnTaken(s)
  <2>1. /\ [record[s] EXCEPT !.status = "CANCELLED"] \in ShiftRecord
        /\ [record[s] EXCEPT !.onLeave = TRUE] \in ShiftRecord
    BY <1>1 DEF ShiftRecord
  <2> QED
    BY <1>1, <1>6, <2>1, RecordedKeeps DEF TurnTaken
<1> QED
  BY <1>3, <1>4, <1>5, <1>6

\* A request is written, not to be approved, and the records stay.
LEMMA SupWritten ==
  ASSUME SupInv, NEW r \in SupIds, NEW q \in BonusWorkRequest, q.status # "APPROVED",
         sup' = [sup EXCEPT ![r] = q], UNCHANGED <<supClock, record, slipOpen, creditedFor>>,
         supDesk' = supDesk
         \/ \E d \in SupDesks : supDesk' = [supDesk EXCEPT ![d] = IdleSupDesk],
         q.status \in {"PENDING", "REJECTED"} => creditedFor[r] = 0
  PROVE  SupInv'
<1>1. \A p \in SupIds : sup'[p] = IF p = r THEN q ELSE sup[p]
  BY SupTyped DEF SupInv
<1>2. q # NoSup
  BY SupShapes DEF BonusWorkRequest
<1>3. /\ supDesk' \in [SupDesks -> SupDeskStates]
      /\ \A d \in SupDesks : supDesk'[d].at # "idle" =>
           supDesk'[d] = supDesk[d] /\ supDesk[d].r \in SupIds
  BY SupTyped, SupShapes DEF SupInv
<1>4. SupTypeOK'
  BY <1>3 DEF SupInv, SupTypeOK, SupDeskStates
<1> QED
  BY <1>1, <1>2, <1>3, <1>4 DEF SupInv, CreditsStand, ApprovedIsRecorded, NoTraceOfRefused

LEMMA CreateSupplementKeeps ==
  ASSUME SupInv, NEW r \in SupIds, NEW from \in SupClocks, NEW to \in SupClocks,
         CreateSupplement(r, from, to)
  PROVE  SupInv'
<1> DEFINE q == [status |-> "PENDING", from |-> ClaimedTime(from, to).from,
                 to |-> ClaimedTime(from, to).to, turn |-> "none"]
<1>1. /\ sup[r] = NoSup /\ sup' = [sup EXCEPT ![r] = q]
      /\ UNCHANGED <<supClock, record, slipOpen, supDesk, creditedFor>>
  BY DEF CreateSupplement
<1>2. q \in BonusWorkRequest /\ q.status = "PENDING"
  <2>1. from \in 0 .. MaxSupClock /\ to \in 0 .. MaxSupClock
    BY SupplementsAssumption
  <2>2. ClaimedTime(from, to).from \in SupTimesNamed /\ ClaimedTime(from, to).to \in SupTimesNamed
    BY <2>1, SupTimesAreNumbers DEF ClaimedTime
  <2> QED
    BY <2>2 DEF BonusWorkRequest
<1> HIDE DEF q
<1>3. creditedFor[r] = 0
  BY <1>1 DEF SupInv, CreditsStand
<1> QED
  BY <1>1, <1>2, <1>3, SupWritten

LEMMA RejectSupplementKeeps ==
  ASSUME SupInv, NEW r \in SupIds, RejectSupplement(r)
  PROVE  SupInv'
<1>1. /\ sup[r].status = "PENDING" /\ sup' = [sup EXCEPT ![r].status = "REJECTED"]
      /\ UNCHANGED <<supClock, record, slipOpen, supDesk, creditedFor>>
  BY DEF RejectSupplement
<1>2. sup[r] \in BonusWorkRequest
  BY <1>1, SupTyped, SupShapes DEF SupInv
<1>3. PICK q : q = [sup[r] EXCEPT !.status = "REJECTED"]
  OBVIOUS
<1>4. q \in BonusWorkRequest /\ q.status = "REJECTED" /\ sup' = [sup EXCEPT ![r] = q]
  BY <1>1, <1>2, <1>3 DEF BonusWorkRequest
<1>5. creditedFor[r] = 0
  BY <1>1 DEF SupInv, NoTraceOfRefused
<1> QED
  BY <1>1, <1>4, <1>5, SupWritten

LEMMA SaveCancelledKeeps ==
  ASSUME SupInv, NEW d \in SupDesks, SaveCancelledSupplement(d)
  PROVE  SupInv'
<1>1. PICK r : r = supDesk[d].r
  OBVIOUS
<1>2. /\ supDesk[d].at = "cancels" /\ sup' = [sup EXCEPT ![r].status = "CANCELLED"]
      /\ supDesk' = [supDesk EXCEPT ![d] = IdleSupDesk]
      /\ UNCHANGED <<supClock, record, slipOpen, creditedFor>>
  BY <1>1 DEF SaveCancelledSupplement, SupDeskGoes
<1>3. r \in SupIds /\ sup[r] \in BonusWorkRequest
  BY <1>1, <1>2, SupTyped, SupShapes DEF SupInv, CreditsStand, Sups
<1>4. PICK q : q = [sup[r] EXCEPT !.status = "CANCELLED"]
  OBVIOUS
<1>5. q \in BonusWorkRequest /\ q.status = "CANCELLED" /\ sup' = [sup EXCEPT ![r] = q]
  BY <1>2, <1>3, <1>4 DEF BonusWorkRequest
<1> QED
  BY <1>2, <1>3, <1>5, SupWritten

\* Of the shifts that overlap a claim there is one that overlaps it most.
LEMMA BestIsACandidate ==
  ASSUME SupInv, NEW r \in SupIds, sup[r] \in BonusWorkRequest, Candidates(r) # {}
  PROVE  Best(r) \in SupTurns
<1> DEFINE room(s) == (sup[r].to - sup[r].from) - Overlap(r, s)
<1>1. PICK T : T = {room(s) : s \in Candidates(r)}
  OBVIOUS
<1>2. \A s \in SupTurns : room(s) \in Nat /\ Overlap(r, s) \in Int
  <2>1. sup[r].from \in Int /\ sup[r].to \in Int
    BY SupTimesAreNumbers DEF BonusWorkRequest
  <2>2. ASSUME NEW s \in SupTurns PROVE room(s) \in Nat /\ Overlap(r, s) \in Int
    <3>1. SupWindow[s].start \in Int /\ SupWindow[s].end \in Int
      BY SupTimesAreNumbers
    <3> QED
      BY <2>1, <3>1 DEF Overlap, AtMost, AtLeast
  <2> HIDE DEF room
  <2> QED
    BY <2>2
<1>3. Candidates(r) \subseteq SupTurns
  BY DEF Candidates
<1>4. T \in SUBSET Nat /\ T # {}
  <2> HIDE DEF room
  <2> QED
    BY <1>1, <1>2, <1>3
<1>5. PICK m \in T : \A t \in T : m <= t
  BY <1>4, LeastOf
<1>6. PICK s \in Candidates(r) : m = room(s)
  BY <1>1, <1>5
<1>7. ASSUME NEW t \in Candidates(r) PROVE Overlap(r, s) >= Overlap(r, t)
  <2>1. room(s) <= room(t)
    BY <1>1, <1>5, <1>6
  <2>2. Overlap(r, s) \in Int /\ Overlap(r, t) \in Int /\ sup[r].to \in Int /\ sup[r].from \in Int
    BY <1>2, <1>3, SupTimesAreNumbers DEF BonusWorkRequest
  <2> QED
    BY <2>1, <2>2
<1>8. Best(r) \in Candidates(r)
  BY <1>6, <1>7 DEF Best
<1> QED
  BY <1>3, <1>8

LEMMA ApprovingKeeps ==
  ASSUME SupInv, NEW d \in SupDesks, NEW r \in SupIds, ApproveWorkSupplement(d, r)
  PROVE  SupInv'
<1>1. sup[r] \in BonusWorkRequest /\ sup[r] # NoSup
  BY SupTyped, SupShapes DEF SupInv, ApproveWorkSupplement
<1>2. Best(r) \in SupTurns
  BY <1>1, BestIsACandidate DEF ApproveWorkSupplement
<1> DEFINE o == [at |-> "credits", r |-> r, turn |-> Best(r)]
<1>3. o \in SupDeskStates /\ o.r = r
  BY <1>2 DEF SupDeskStates
<1>4. supDesk' = [supDesk EXCEPT ![d] = o] /\ UNCHANGED <<supClock, record, sup, slipOpen, creditedFor>>
  BY DEF ApproveWorkSupplement, SupDeskGoes
<1> HIDE DEF o
<1> QED
  BY <1>1, <1>3, <1>4, SupDeskTurns, SupTyped DEF SupInv

LEMMA CancellingKeeps ==
  ASSUME SupInv, NEW d \in SupDesks, NEW r \in SupIds, CancelSupplement(d, r)
  PROVE  SupInv'
<1>1. sup[r] # NoSup
  BY SupShapes DEF CancelSupplement
<1> DEFINE o == [at |-> "cancels", r |-> r]
<1>2. o \in SupDeskStates /\ o.r = r
  BY DEF SupDeskStates
<1>3. supDesk' = [supDesk EXCEPT ![d] = o] /\ UNCHANGED <<supClock, record, sup, slipOpen, creditedFor>>
  BY DEF CancelSupplement, SupDeskGoes
<1> HIDE DEF o
<1> QED
  BY <1>1, <1>2, <1>3, SupDeskTurns, SupTyped DEF SupInv

\* What is recorded with a claim merged in holds the claim, and what the
\* employee recorded himself.
LEMMA MergedHolds ==
  ASSUME NEW old \in ShiftRecord, NEW r \in SupIds, sup[r] \in BonusWorkRequest
  PROVE  LET m == Merged(old, r) IN
         /\ m.in \in SupTimesNamed /\ m.out \in SupTimesNamed
         /\ m.in <= sup[r].from /\ m.out >= sup[r].to
         /\ old.in # Null => m.in <= old.in
         /\ old.out # Null /\ ~old.auto => m.out >= old.out
<1>1. /\ sup[r].from \in SupTimesNamed /\ sup[r].to \in SupTimesNamed
      /\ old.in \in MaybeTime /\ old.out \in MaybeTime
  BY DEF ShiftRecord, BonusWorkRequest
<1>2. /\ sup[r].from \in Nat /\ sup[r].to \in Nat /\ old.in \in Int /\ old.out \in Int
      /\ old.in # Null => old.in \in SupTimesNamed
      /\ old.out # Null => old.out \in SupTimesNamed
  BY <1>1, SupTimesAreNumbers
<1> QED
  BY <1>1, <1>2 DEF Merged, AtLeast

LEMMA CreditedMinutes ==
  ASSUME NEW s \in SupTurns, NEW in \in Int, NEW out \in Int
  PROVE  LET late == ApplyGrace(LateMinutes(SupWindow[s].start, in), SupRules.grace)
             early == ApplyGrace(EarlyMinutes(SupWindow[s].end, out), SupRules.earlyGrace)
         IN /\ late \in Nat /\ early \in Nat
            /\ CreditedWorkedMinutes(SupWindow[s], in, out, SupRules, late, Null, FALSE, FALSE)
                 \in Nat
<1>1. /\ SupWindow[s].start \in Nat /\ SupWindow[s].end \in Nat
      /\ SupRules.grace \in Nat /\ SupRules.earlyGrace \in Nat
  BY SupTimesAreNumbers, SupplementsAssumption
<1>2. LateMinutes(SupWindow[s].start, in) \in Nat /\ EarlyMinutes(SupWindow[s].end, out) \in Nat
  BY <1>1 DEF LateMinutes, EarlyMinutes, AtLeast
<1>3. \A raw \in Nat, allowed \in Nat : ApplyGrace(raw, allowed) \in Nat
  BY DEF ApplyGrace
<1>4. \A late \in Nat :
        CreditedWorkedMinutes(SupWindow[s], in, out, SupRules, late, Null, FALSE, FALSE) \in Nat
  BY <1>1 DEF CreditedWorkedMinutes, AtLeast, AtMost, Null
<1> QED
  BY <1>1, <1>2, <1>3, <1>4

\* What the transaction of an approval writes.
LEMMA CreditEffect ==
  ASSUME SupInv, NEW d \in SupDesks, CreditSupplement(d), ~UNCHANGED <<record, sup, creditedFor>>
  PROVE  \E r \in SupIds, s \in SupTurns, q \in BonusWorkRequest, rec \in ShiftRecord :
           /\ sup[r] \in BonusWorkRequest /\ sup[r].status = "PENDING"
           /\ record[s].status # "CANCELLED"
           /\ q.status = "APPROVED" /\ q.turn = s /\ q.from = sup[r].from /\ q.to = sup[r].to
           /\ rec.status = "COMPLETED" /\ ~rec.auto /\ rec.in # Null /\ rec.out # Null
           /\ rec.in <= sup[r].from /\ rec.out >= sup[r].to
           /\ record[s].in # Null => rec.in <= record[s].in
           /\ record[s].out # Null /\ ~record[s].auto => rec.out >= record[s].out
           /\ sup' = [sup EXCEPT ![r] = q] /\ record' = [record EXCEPT ![s] = rec]
           /\ creditedFor' = [creditedFor EXCEPT ![r] = @ + 1]
<1>1. PICK r, s : r = supDesk[d].r /\ s = supDesk[d].turn
  OBVIOUS
<1>2. PICK m : m = Merged(record[s], r)
  OBVIOUS
<1> DEFINE late == ApplyGrace(LateMinutes(SupWindow[s].start, m.in), SupRules.grace)
           early == ApplyGrace(EarlyMinutes(SupWindow[s].end, m.out), SupRules.earlyGrace)
           worked == CreditedWorkedMinutes(SupWindow[s], m.in, m.out, SupRules, late, Null,
                                           FALSE, FALSE)
<1>3. /\ supDesk[d].at = "credits" /\ record[s].status # "CANCELLED"
      /\ sup[r].status = "PENDING"
      /\ sup' = [sup EXCEPT ![r].status = "APPROVED", ![r].turn = s]
      /\ record' = [record EXCEPT ![s] =
           [@ EXCEPT !.status = "COMPLETED", !.in = m.in, !.out = m.out,
              !.auto = FALSE, !.late = late, !.early = early, !.worked = worked]]
      /\ creditedFor' = [creditedFor EXCEPT ![r] = @ + 1]
  BY <1>1, <1>2 DEF CreditSupplement
<1>4. r \in SupIds /\ s \in SupTurns
  BY <1>1, <1>3, SupTyped, SupShapes DEF SupInv
<1>5. sup[r] \in BonusWorkRequest /\ record[s] \in ShiftRecord
  BY <1>3, <1>4, SupTyped, SupShapes DEF SupInv
<1>6. /\ m.in \in MaybeTime /\ m.out \in MaybeTime /\ m.in # Null /\ m.out # Null
      /\ m.in <= sup[r].from /\ m.out >= sup[r].to
      /\ record[s].in # Null => m.in <= record[s].in
      /\ record[s].out # Null /\ ~record[s].auto => m.out >= record[s].out
  <2>1. /\ m.in \in SupTimesNamed /\ m.out \in SupTimesNamed
        /\ m.in <= sup[r].from /\ m.out >= sup[r].to
        /\ record[s].in # Null => m.in <= record[s].in
        /\ record[s].out # Null /\ ~record[s].auto => m.out >= record[s].out
    BY <1>2, <1>4, <1>5, MergedHolds
  <2>2. m.in # Null /\ m.out # Null /\ m.in \in MaybeTime /\ m.out \in MaybeTime
    <3>1. m.in \in Nat /\ m.out \in Nat /\ m.in \in MaybeTime /\ m.out \in MaybeTime
      BY <2>1, SupTimesAreNumbers
    <3>2. \A x \in Nat : x # Null
      BY SupTimesAreNumbers
    <3> QED
      BY <3>1, <3>2
  <2> QED
    BY <2>1, <2>2
<1>7. late \in Nat /\ early \in Nat /\ worked \in Nat
  BY <1>4, <1>6, CreditedMinutes, SupTimesAreNumbers
<1> HIDE DEF late, early, worked
<1>8. PICK rec : rec = [record[s] EXCEPT !.status = "COMPLETED", !.in = m.in, !.out = m.out,
                          !.auto = FALSE, !.late = late, !.early = early, !.worked = worked]
  OBVIOUS
<1>9. /\ rec \in ShiftRecord /\ rec.status = "COMPLETED" /\ ~rec.auto
      /\ rec.in = m.in /\ rec.out = m.out
  BY <1>5, <1>6, <1>7, <1>8 DEF ShiftRecord
<1>10. PICK q : q = [sup[r] EXCEPT !.status = "APPROVED", !.turn = s]
  OBVIOUS
<1>11. /\ q \in BonusWorkRequest /\ q.status = "APPROVED" /\ q.turn = s
       /\ q.from = sup[r].from /\ q.to = sup[r].to
  BY <1>4, <1>5, <1>10 DEF BonusWorkRequest
<1>12. sup' = [sup EXCEPT ![r] = q]
  BY <1>3, <1>4, <1>10, SupTyped DEF SupInv
<1>13. record' = [record EXCEPT ![s] = rec]
  BY <1>3, <1>4, <1>8, SupTyped DEF SupInv
<1>14. /\ sup[r] \in BonusWorkRequest /\ sup[r].status = "PENDING"
       /\ record[s].status # "CANCELLED"
       /\ q.status = "APPROVED" /\ q.turn = s /\ q.from = sup[r].from /\ q.to = sup[r].to
       /\ rec.status = "COMPLETED" /\ ~rec.auto /\ rec.in # Null /\ rec.out # Null
       /\ rec.in <= sup[r].from /\ rec.out >= sup[r].to
       /\ record[s].in # Null => rec.in <= record[s].in
       /\ record[s].out # Null /\ ~record[s].auto => rec.out >= record[s].out
       /\ sup' = [sup EXCEPT ![r] = q] /\ record' = [record EXCEPT ![s] = rec]
       /\ creditedFor' = [creditedFor EXCEPT ![r] = @ + 1]
  BY <1>3, <1>5, <1>6, <1>9, <1>11, <1>12, <1>13
<1> QED
  BY <1>4, <1>9, <1>11, <1>14, Zenon

LEMMA CreditKeeps ==
  ASSUME SupInv, NEW d \in SupDesks, CreditSupplement(d)
  PROVE  SupInv'
<1>0. supDesk' = [supDesk EXCEPT ![d] = IdleSupDesk] /\ UNCHANGED <<supClock, slipOpen>>
  BY DEF CreditSupplement, SupDeskGoes
<1>1. CASE UNCHANGED <<record, sup, creditedFor>>
  BY <1>0, <1>1, SupShapes, SupTyped, SupDeskTurns DEF SupInv
<1>2. CASE ~UNCHANGED <<record, sup, creditedFor>>
  <2>1. PICK r \in SupIds, s \in SupTurns, q \in BonusWorkRequest, rec \in ShiftRecord :
           /\ sup[r] \in BonusWorkRequest /\ sup[r].status = "PENDING"
           /\ record[s].status # "CANCELLED"
           /\ q.status = "APPROVED" /\ q.turn = s /\ q.from = sup[r].from /\ q.to = sup[r].to
           /\ rec.status = "COMPLETED" /\ ~rec.auto /\ rec.in # Null /\ rec.out # Null
           /\ rec.in <= sup[r].from /\ rec.out >= sup[r].to
           /\ record[s].in # Null => rec.in <= record[s].in
           /\ record[s].out # Null /\ ~record[s].auto => rec.out >= record[s].out
           /\ sup' = [sup EXCEPT ![r] = q] /\ record' = [record EXCEPT ![s] = rec]
           /\ creditedFor' = [creditedFor EXCEPT ![r] = @ + 1]
    BY <1>2, CreditEffect
  <2>2. /\ record \in [SupTurns -> ShiftRecord] /\ sup \in [SupIds -> Sups]
        /\ creditedFor \in [SupIds -> Nat]
    BY SupTyped DEF SupInv
  <2>3. /\ \A p \in SupIds : sup'[p] = IF p = r THEN q ELSE sup[p]
        /\ \A t \in SupTurns : record'[t] = IF t = s THEN rec ELSE record[t]
        /\ \A p \in SupIds : creditedFor'[p] = IF p = r THEN creditedFor[p] + 1
                                                        ELSE creditedFor[p]
    BY <2>1, <2>2
  <2>4. q # NoSup
    BY <2>1, SupShapes
  <2>5. SupTypeOK'
    <3>1. supDesk' \in [SupDesks -> SupDeskStates]
      BY <1>0, SupTyped, SupShapes DEF SupInv
    <3>2. sup' \in [SupIds -> Sups] /\ record' \in [SupTurns -> ShiftRecord]
          /\ creditedFor' \in [SupIds -> Nat]
      BY <2>1, <2>2 DEF Sups
    <3> QED
      BY <1>0, <3>1, <3>2 DEF SupInv, SupTypeOK, SupDeskStates, Sups
  <2>6. CreditsStand'
    <3>1. \A p \in SupIds :
            /\ sup'[p].status = "APPROVED" =>
                 /\ sup'[p].turn \in SupTurns /\ ~record'[sup'[p].turn].auto
                 /\ record'[sup'[p].turn].in # Null /\ record'[sup'[p].turn].out # Null
            /\ sup'[p] = NoSup => creditedFor'[p] = 0
      BY <2>1, <2>3, <2>4 DEF SupInv, CreditsStand
    <3>2. \A e \in SupDesks : supDesk'[e].at # "idle" =>
            supDesk'[e] = supDesk[e] /\ supDesk[e].r \in SupIds
      BY <1>0, SupTyped, SupShapes DEF SupInv
    <3>3. \A e \in SupDesks : supDesk'[e].at # "idle" => sup'[supDesk'[e].r] # NoSup
      BY <2>3, <2>4, <3>2 DEF SupInv, CreditsStand
    <3> QED
      BY <3>1, <3>3 DEF CreditsStand
  <2>7. NoTraceOfRefused'
    BY <2>1, <2>3 DEF SupInv, NoTraceOfRefused
  <2>8. ApprovedIsRecorded'
    <3> SUFFICES ASSUME NEW p \in SupIds, sup'[p].status = "APPROVED"
                 PROVE  LET rc == record'[sup'[p].turn] IN
                        /\ creditedFor'[p] = 1
                        /\ rc.status = "COMPLETED" /\ rc.in <= sup'[p].from
                        /\ rc.out >= sup'[p].to
      BY DEF ApprovedIsRecorded
    <3>1. CASE p = r
      <4>1. creditedFor[r] = 0
        BY <2>1 DEF SupInv, NoTraceOfRefused
      <4> QED
        BY <2>1, <2>2, <2>3, <3>1, <4>1
    <3>2. CASE p # r
      <4>1. /\ sup'[p] = sup[p] /\ sup[p].turn \in SupTurns /\ ~record[sup[p].turn].auto
            /\ creditedFor'[p] = 1 /\ record[sup[p].turn].status = "COMPLETED"
            /\ record[sup[p].turn].in # Null /\ record[sup[p].turn].out # Null
            /\ record[sup[p].turn].in <= sup[p].from /\ record[sup[p].turn].out >= sup[p].to
        BY <2>3, <3>2 DEF SupInv, CreditsStand, ApprovedIsRecorded
      <4>2. CASE sup[p].turn # s
        BY <2>3, <4>1, <4>2
      <4>3. CASE sup[p].turn = s
        <5>1. sup[p] \in BonusWorkRequest
          BY <2>2, <3>2, <2>3, SupShapes
        <5>2. /\ record[s].in \in Int /\ record[s].out \in Int /\ rec.in \in Int
              /\ rec.out \in Int /\ sup[p].from \in Int /\ sup[p].to \in Int
              /\ sup[r].from \in Int /\ sup[r].to \in Int
          BY <2>1, <2>2, <5>1, SupTimesAreNumbers DEF ShiftRecord, BonusWorkRequest
        <5>3. rec.in <= sup[p].from
          BY <2>1, <4>1, <4>3, <5>2
        <5>4. rec.out >= sup[p].to
          BY <2>1, <4>1, <4>3, <5>2
        <5> QED
          BY <2>1, <2>3, <4>1, <4>3, <5>3, <5>4
      <4> QED
        BY <4>2, <4>3
    <3> QED
      BY <3>1, <3>2
  <2> QED
    BY <2>5, <2>6, <2>7, <2>8 DEF SupInv
<1> QED
  BY <1>1, <1>2

\* Time and payroll: nothing here is touched but the clock and the payslip.
LEMMA SupClockKeeps ==
  ASSUME SupInv, SupTick \/ PayslipCloses \/ UNCHANGED supVars
  PROVE  SupInv'
<1>1. MaxSupClock \in Nat /\ supClock \in 0 .. MaxSupClock /\ slipOpen \in BOOLEAN
  BY SupplementsAssumption DEF SupInv, SupTypeOK
<1>2. CASE SupTick
  BY <1>1, <1>2, SupDeskTurns DEF SupTick
<1>3. CASE PayslipCloses
  BY <1>1, <1>3, SupDeskTurns DEF PayslipCloses
<1>4. CASE UNCHANGED supVars
  BY <1>1, <1>4, SupDeskTurns DEF supVars
<1> QED
  BY <1>2, <1>3, <1>4

LEMMA SupStep == SupInv /\ [SupNext]_supVars => SupInv'
BY SupClockKeeps, AttendanceKeeps, CreateSupplementKeeps, RejectSupplementKeeps,
   ApprovingKeeps, CancellingKeeps, CreditKeeps, SaveCancelledKeeps DEF SupNext

\* A step that changes a record is one of attendance or the credit of a claim.
LEMMA NothingTakenStep ==
  ASSUME SupInv, SupNext, NEW s \in SupTurns
  PROVE  /\ record[s].in # Null => record'[s].in <= record[s].in
         /\ record[s].out # Null /\ ~record[s].auto => record'[s].out >= record[s].out
         /\ record[s].status = "CANCELLED" => record'[s] = record[s]
<1>1. /\ record \in [SupTurns -> ShiftRecord]
      /\ record[s].in \in Int /\ record[s].out \in Int
  BY SupTyped, SupTimesAreNumbers DEF SupInv, ShiftRecord
<1>2. CASE record' = record
  BY <1>1, <1>2
<1>3. ASSUME NEW t \in SupTurns, PunchIn(t) \/ PunchOut(t) \/ AutoOut(t) \/ TurnTaken(t)
      PROVE  /\ record[s].in # Null => record'[s].in = record[s].in
             /\ record[s].out # Null => record'[s].out = record[s].out
             /\ record[s].status = "CANCELLED" => record'[s] = record[s]
  <2>1. record[t] \in ShiftRecord /\ record[t].status = "APPROVED"
    BY <1>1, <1>3 DEF PunchIn, PunchOut, AutoOut, TurnTaken
  <2>2. PICK q : /\ record' = [record EXCEPT ![t] = q]
                 /\ record[t].in # Null => q.in = record[t].in
                 /\ record[t].out # Null => q.out = record[t].out
    <3>1. CASE PunchIn(t)
      <4>1. PICK q : q = [record[t] EXCEPT !.in = supClock]
        OBVIOUS
      <4>2. record' = [record EXCEPT ![t] = q] /\ record[t].in = Null
        BY <3>1, <4>1 DEF PunchIn, Recorded
      <4>3. q.out = record[t].out
        BY <2>1, <4>1 DEF ShiftRecord
      <4> QED
        BY <4>2, <4>3
    <3>2. CASE PunchOut(t)
      <4>1. PICK q : q = [record[t] EXCEPT !.out = supClock, !.status = "COMPLETED"]
        OBVIOUS
      <4>2. record' = [record EXCEPT ![t] = q] /\ record[t].out = Null
        BY <3>2, <4>1 DEF PunchOut, Recorded
      <4>3. q.in = record[t].in
        BY <2>1, <4>1 DEF ShiftRecord
      <4> QED
        BY <4>2, <4>3
    <3>3. CASE AutoOut(t)
      <4>1. PICK q : q = [record[t] EXCEPT !.out = SupWindow[t].end, !.auto = TRUE,
                                           !.status = "COMPLETED"]
        OBVIOUS
      <4>2. record' = [record EXCEPT ![t] = q] /\ record[t].out = Null
        BY <3>3, <4>1 DEF AutoOut, Recorded
      <4>3. q.in = record[t].in
        BY <2>1, <4>1 DEF ShiftRecord
      <4> QED
        BY <4>2, <4>3
    <3>4. CASE TurnTaken(t)
      <4>1. PICK q \in {[record[t] EXCEPT !.status = "CANCELLED"],
                         [record[t] EXCEPT !.onLeave = TRUE]} :
              record' = [record EXCEPT ![t] = q]
        <5>1. Recorded(t, [record[t] EXCEPT !.status = "CANCELLED"])
              \/ Recorded(t, [record[t] EXCEPT !.onLeave = TRUE])
          BY <3>4 DEF TurnTaken
        <5> QED
          BY <5>1 DEF Recorded
      <4>2. q.in = record[t].in /\ q.out = record[t].out
        BY <2>1 DEF ShiftRecord
      <4> QED
        BY <4>1, <4>2
    <3> QED
      BY <1>3, <3>1, <3>2, <3>3, <3>4
  <2> QED
    BY <1>1, <2>1, <2>2
<1>4. ASSUME NEW d \in SupDesks, CreditSupplement(d), record' # record
      PROVE  /\ record[s].in # Null => record'[s].in <= record[s].in
             /\ record[s].out # Null /\ ~record[s].auto => record'[s].out >= record[s].out
             /\ record[s].status = "CANCELLED" => record'[s] = record[s]
  <2>1. PICK t \in SupTurns, rec \in ShiftRecord :
          /\ record[t].status # "CANCELLED" /\ record' = [record EXCEPT ![t] = rec]
          /\ record[t].in # Null => rec.in <= record[t].in
          /\ record[t].out # Null /\ ~record[t].auto => rec.out >= record[t].out
    BY <1>4, CreditEffect
  <2> QED
    BY <1>1, <2>1
<1>5. \/ record' = record
      \/ \E t \in SupTurns : PunchIn(t) \/ PunchOut(t) \/ AutoOut(t) \/ TurnTaken(t)
      \/ \E d \in SupDesks : CreditSupplement(d) /\ record' # record
  BY DEF SupNext, SupTick, PayslipCloses, CreateSupplement, RejectSupplement,
         ApproveWorkSupplement, CancelSupplement, SaveCancelledSupplement
<1> QED
  BY <1>1, <1>2, <1>3, <1>4, <1>5

(***************************************************************************)
(* For all shifts, requests and office workers at once: an approved        *)
(* supplement is recorded and stays recorded, a refused one leaves no      *)
(* trace, and no claim takes away what the employee recorded himself.      *)
(***************************************************************************)
THEOREM SupplementsKept == SupSpec => WorkSupplementsPromise
<1>1. SupInit => SupInv
  BY SupStarts
<1>2. SupInv /\ [SupNext]_supVars => SupInv'
  BY SupStep
<1>3. SupInv => SupTypeOK /\ CreditsStand /\ ApprovedIsRecorded /\ NoTraceOfRefused
  BY DEF SupInv
<1>4. SupInv /\ [SupNext]_supVars =>
        [\A s \in SupTurns :
           /\ record[s].in # Null => record'[s].in <= record[s].in
           /\ record[s].out # Null /\ ~record[s].auto => record'[s].out >= record[s].out
           /\ record[s].status = "CANCELLED" => record'[s] = record[s]]_supVars
  BY NothingTakenStep
<1> QED
  BY <1>1, <1>2, <1>3, <1>4, PTL DEF SupSpec, WorkSupplementsPromise, NothingTakenAway

-----------------------------------------------------------------------------
(* ChangeRequests.  What is inductive: what the locked transaction read   *)
(* still holds when it inserts, because whoever takes no lock only takes   *)
(* requests away; and a request on its way has an id of its own.           *)

\* What the desks and rows are.
LEMMA ChangesTyped ==
  ASSUME ChangesTypeOK, NEW d \in PaperDesks
  PROVE  /\ paperDesk[d] \in PaperDeskState
         /\ Files(d) => paperDesk[d].paper \in Papers /\ paperDesk[d].row \in ShiftChangeRequest
         /\ paperDesk[d].at = "counted" => Files(d) /\ paperDesk[d].limit \in Nat
         /\ paperDesk[d].at = "cancels" =>
              paperDesk[d].paper \in Papers /\ paperDesk[d] = [at |-> "cancels", paper |-> paperDesk[d].paper]
<1>1. paperDesk[d] \in PaperDeskState
  BY DEF ChangesTypeOK
<1> QED
  BY <1>1 DEF PaperDeskState, Files

\* The limits of a policy are numbers.
LEMMA LimitsAreNumbers ==
  ASSUME ChangesTypeOK, NEW kind
  PROVE  LimitOf(kind, Policy) \in Nat
<1>1. Policy \in StoreApprovalSetting
  <2>1. DefaultApprovalSetting \in StoreApprovalSetting
    BY DEF DefaultApprovalSetting, StoreApprovalSetting
  <2> QED
    BY <2>1 DEF Policy, ChangesTypeOK
<1> QED
  BY <1>1 DEF LimitOf, StoreApprovalSetting

\* A transaction that counted fewer than its limit has fewer still when requests
\* were only taken away, and no pending one has come.
LEMMA ReadsHoldOn ==
  ASSUME ChangesInd, NEW d \in PaperDesks, paperDesk[d].at = "counted",
         paperDesk'[d] = paperDesk[d],
         papers' \in [Papers -> ShiftChangeRequest \cup {NoPaper}],
         \A p \in Papers : papers'[p] # papers[p] =>
           /\ papers[p] # NoPaper /\ papers'[p] \in ShiftChangeRequest
           /\ papers'[p].status # "PENDING"
           /\ papers'[p].status = "CANCELLED" \/ papers[p].status = "PENDING"
           /\ papers'[p].kind = papers[p].kind /\ papers'[p].month = papers[p].month
  PROVE  ReadHolds(d)'
<1> DEFINE o == paperDesk[d]
           m == MonthOf(TurnStart[o.row.turn])
           New == {p \in Papers : /\ papers'[p] # NoPaper
                                  /\ papers'[p].status \in {"PENDING", "APPROVED"}
                                  /\ papers'[p].kind \in Group(o.row.kind) /\ papers'[p].month = m}
<1>1. /\ Files(d) /\ o.limit \in Nat /\ o.row.status = "PENDING"
      /\ o.row.kind # "SWAP" => ~\E p \in Papers : papers[p] = o.row
      /\ o.row.kind # "SUDDEN" /\ o.limit > 0 => Cardinality(Counted(o.row.kind, m)) < o.limit
  BY ChangesTyped DEF ChangesInd, RequestsInHand, ReadsStillHold, ReadHolds, Alike
<1>2. o.row.kind # "SWAP" => ~\E p \in Papers : papers'[p] = o.row
  BY <1>1
<1>3. New \subseteq Counted(o.row.kind, m)
  BY DEF Counted, LiveRequest
<1>4. IsFiniteSet(Counted(o.row.kind, m)) /\ Counted(o.row.kind, m) \subseteq Papers
  <2>1. Counted(o.row.kind, m) \subseteq Papers
    BY DEF Counted
  <2> QED
    BY <2>1, ChangeRequestsAssumption, FS_Subset
<1>5. /\ Cardinality(New) <= Cardinality(Counted(o.row.kind, m))
      /\ Cardinality(New) \in Nat /\ Cardinality(Counted(o.row.kind, m)) \in Nat
  BY <1>3, <1>4, FS_Subset, FS_CardinalityType
<1>6. Counted(o.row.kind, MonthOf(TurnStart[o.row.turn]))' = New
  BY DEF Counted, LiveRequest
<1>7. o.row.kind # "SUDDEN" /\ o.limit > 0 => Cardinality(New) < o.limit
  BY <1>1, <1>5
<1> HIDE DEF New
<1> QED
  BY <1>2, <1>6, <1>7 DEF ReadHolds, Alike

\* A step that changes neither requests nor desks, or only the settings, the
\* clock, the roster or the employment, keeps all of it.
LEMMA AroundKeeps ==
  ASSUME ChangesInd, UNCHANGED <<papers, paperDesk>>,
         setting' \in StoreApprovalSetting \cup {NoPaper},
         standing' \in {"PROBATION", "ACTIVE", "GONE"}
  PROVE  ChangesInd'
<1>1. ChangesTypeOK' /\ NoTwoAlike' /\ RequestsInHand'
  BY DEF ChangesInd, ChangesTypeOK, NoTwoAlike, RequestsInHand, Files
<1>2. ReadsStillHold'
  BY DEF ChangesInd, ReadsStillHold, ReadHolds, Alike, Counted, LiveRequest
<1> QED
  BY <1>1, <1>2 DEF ChangesInd

\* A desk that files nothing and one that cancels what is there.
LEMMA DeskKeeps ==
  ASSUME ChangesInd, NEW d \in PaperDesks, NEW o \in PaperDeskState,
         DeskGoesTo(d, o), UNCHANGED <<papers, setting, standing>>,
         \/ o = IdlePaperDesk
         \/ \E p \in Papers : o = [at |-> "cancels", paper |-> p] /\ papers[p] # NoPaper
  PROVE  ChangesInd'
<1>1. /\ paperDesk' = [paperDesk EXCEPT ![d] = o]
      /\ paperDesk \in [PaperDesks -> PaperDeskState]
      /\ o.at \in {"idle", "cancels"}
      /\ o.at = "cancels" => papers[o.paper] # NoPaper
  BY DEF ChangesInd, ChangesTypeOK, DeskGoesTo, IdlePaperDesk
<1>2. /\ paperDesk' \in [PaperDesks -> PaperDeskState] /\ paperDesk'[d] = o
      /\ \A e \in PaperDesks \ {d} : paperDesk'[e] = paperDesk[e]
  BY <1>1
<1>3. ChangesTypeOK' /\ NoTwoAlike'
  BY <1>2 DEF ChangesInd, ChangesTypeOK, NoTwoAlike
<1>4. RequestsInHand'
  BY <1>1, <1>2 DEF ChangesInd, RequestsInHand, Files
<1>5. ReadsStillHold'
  <2> SUFFICES ASSUME NEW e \in PaperDesks, paperDesk'[e].at = "counted"
               PROVE  /\ \A f \in PaperDesks : paperDesk'[f].at = "counted" => f = e
                      /\ ReadHolds(e)'
    BY DEF ReadsStillHold
  <2>1. e # d /\ paperDesk'[e] = paperDesk[e]
    BY <1>1, <1>2
  <2>2. \A f \in PaperDesks : paperDesk'[f].at = "counted" => f = e
    BY <1>1, <1>2, <2>1 DEF ChangesInd, ReadsStillHold
  <2> QED
    BY <2>1, <2>2, ReadsHoldOn DEF ChangesInd, ChangesTypeOK
<1> QED
  BY <1>3, <1>4, <1>5 DEF ChangesInd

\* A request is decided or withdrawn; its desk, if any, is done.
LEMMA DecisionKeeps ==
  ASSUME ChangesInd, NEW p \in Papers, NEW status \in {"APPROVED", "REJECTED", "CANCELLED"},
         papers[p] # NoPaper, status = "CANCELLED" \/ papers[p].status = "PENDING",
         papers' = [papers EXCEPT ![p].status = status],
         paperDesk' \in [PaperDesks -> PaperDeskState],
         \A e \in PaperDesks : paperDesk'[e] \in {paperDesk[e], IdlePaperDesk},
         UNCHANGED <<setting, standing>>
  PROVE  ChangesInd'
<1>1. /\ papers \in [Papers -> ShiftChangeRequest \cup {NoPaper}]
      /\ papers[p] \in ShiftChangeRequest /\ NoPaper \notin ShiftChangeRequest
  BY ChangeRequestsAssumption DEF ChangesInd, ChangesTypeOK
<1>2. /\ papers'[p] \in ShiftChangeRequest /\ papers'[p].status = status
      /\ papers'[p].kind = papers[p].kind /\ papers'[p].month = papers[p].month
      /\ \A q \in Papers \ {p} : papers'[q] = papers[q]
  BY <1>1 DEF ShiftChangeRequest, Statuses
<1>3. /\ papers' \in [Papers -> ShiftChangeRequest \cup {NoPaper}]
      /\ \A q \in Papers : papers'[q] = NoPaper <=> papers[q] = NoPaper
  BY <1>1, <1>2
<1>4. ChangesTypeOK'
  BY <1>3 DEF ChangesInd, ChangesTypeOK
<1>5. NoTwoAlike'
  BY <1>1, <1>2 DEF ChangesInd, NoTwoAlike
<1>6. \A e \in PaperDesks : paperDesk'[e] = paperDesk[e] \/ paperDesk'[e].at = "idle"
  BY DEF IdlePaperDesk
<1>7. RequestsInHand'
  BY <1>3, <1>6 DEF ChangesInd, RequestsInHand, Files
<1>8. ReadsStillHold'
  <2> SUFFICES ASSUME NEW e \in PaperDesks, paperDesk'[e].at = "counted"
               PROVE  /\ \A f \in PaperDesks : paperDesk'[f].at = "counted" => f = e
                      /\ ReadHolds(e)'
    BY DEF ReadsStillHold
  <2>1. paperDesk'[e] = paperDesk[e]
    BY <1>6
  <2>2. \A f \in PaperDesks : paperDesk'[f].at = "counted" => f = e
    BY <1>6, <2>1 DEF ChangesInd, ReadsStillHold
  <2>3. ReadHolds(e)'
    BY <2>1, <1>1, <1>2, <1>3, ReadsHoldOn
  <2> QED
    BY <2>2, <2>3
<1> QED
  BY <1>4, <1>5, <1>7, <1>8 DEF ChangesInd

LEMMA ReviewKeeps ==
  ASSUME ChangesInd, NEW p \in Papers, NEW status \in {"APPROVED", "REJECTED"},
         ReviewRequest(p, status)
  PROVE  ChangesInd'
<1>1. paperDesk' \in [PaperDesks -> PaperDeskState]
      /\ \A e \in PaperDesks : paperDesk'[e] \in {paperDesk[e], IdlePaperDesk}
  BY DEF ReviewRequest, ChangesInd, ChangesTypeOK
<1> QED
  BY <1>1, DecisionKeeps DEF ReviewRequest

LEMMA WithdrawalSavedKeeps ==
  ASSUME ChangesInd, NEW d \in PaperDesks, SaveCancelled(d)
  PROVE  ChangesInd'
<1>1. paperDesk[d].paper \in Papers /\ papers[paperDesk[d].paper] # NoPaper
  BY ChangesTyped DEF SaveCancelled, ChangesInd, RequestsInHand
<1>2. IdlePaperDesk \in PaperDeskState
  BY DEF IdlePaperDesk, PaperDeskState
<1>3. paperDesk' \in [PaperDesks -> PaperDeskState]
      /\ \A e \in PaperDesks : paperDesk'[e] \in {paperDesk[e], IdlePaperDesk}
  BY <1>2 DEF SaveCancelled, DeskGoesTo, ChangesInd, ChangesTypeOK
<1> QED
  BY <1>1, <1>3, DecisionKeeps DEF SaveCancelled

\* A request is taken in hand under an id that is nobody's.
LEMMA TakesKeeps ==
  ASSUME ChangesInd, NEW d \in PaperDesks, NEW p \in Papers, NEW kind \in RequestKinds,
         NEW turn \in Turns, NEW current \in BOOLEAN, NEW month \in Months,
         Takes(d, p, kind, turn, current, month)
  PROVE  ChangesInd'
<1> DEFINE o == [at |-> "asked", paper |-> p,
                 row |-> [kind |-> kind, turn |-> turn, current |-> current,
                          month |-> month, status |-> "PENDING"]]
<1>1. /\ paperDesk' = [paperDesk EXCEPT ![d] = o] /\ paperDesk[d] = IdlePaperDesk
      /\ UNCHANGED <<papers, setting, standing>> /\ NextId(p)
  BY DEF Takes, DeskGoesTo
<1>2. o \in PaperDeskState /\ o.at = "asked" /\ o.row.status = "PENDING" /\ o.paper = p
  BY DEF PaperDeskState, ShiftChangeRequest, Statuses
<1>3. /\ paperDesk' \in [PaperDesks -> PaperDeskState] /\ paperDesk'[d] = o
      /\ \A e \in PaperDesks \ {d} : paperDesk'[e] = paperDesk[e]
  BY <1>1, <1>2 DEF ChangesInd, ChangesTypeOK
<1>4. papers[p] = NoPaper /\ \A e \in PaperDesks : Files(e) => paperDesk[e].paper # p
  BY <1>1 DEF NextId, InHand, Files
<1> HIDE DEF o
<1>5. ChangesTypeOK' /\ NoTwoAlike'
  BY <1>1, <1>3 DEF ChangesInd, ChangesTypeOK, NoTwoAlike
<1>6. RequestsInHand'
  BY <1>1, <1>2, <1>3, <1>4 DEF ChangesInd, RequestsInHand, Files
<1>7. ReadsStillHold'
  <2> SUFFICES ASSUME NEW e \in PaperDesks, paperDesk'[e].at = "counted"
               PROVE  /\ \A f \in PaperDesks : paperDesk'[f].at = "counted" => f = e
                      /\ ReadHolds(e)'
    BY DEF ReadsStillHold
  <2>1. e # d /\ paperDesk'[e] = paperDesk[e]
    BY <1>2, <1>3
  <2>2. \A f \in PaperDesks : paperDesk'[f].at = "counted" => f = e
    BY <1>2, <1>3, <2>1 DEF ChangesInd, ReadsStillHold
  <2>3. ReadHolds(e)'
    BY <2>1, <1>1, ReadsHoldOn DEF ChangesInd, ChangesTypeOK
  <2> QED
    BY <2>2, <2>3
<1> QED
  BY <1>5, <1>6, <1>7 DEF ChangesInd

\* The transaction reads, alone with the employee's row.
LEMMA CountKeeps ==
  ASSUME ChangesInd, NEW d \in PaperDesks, CountRequests(d)
  PROVE  ChangesInd'
<1> DEFINE row_ == paperDesk[d].row
           o == [at |-> "counted", paper |-> paperDesk[d].paper, row |-> row_,
                 limit |-> LimitOf(row_.kind, Policy)]
<1>1. /\ paperDesk[d].at = "asked" /\ RequesterFree
      /\ UNCHANGED <<hour, papers, setting, settings, turnStatus, standing>>
  BY DEF CountRequests
<1>2. CASE DeskGoesTo(d, IdlePaperDesk)
  <2>1. IdlePaperDesk \in PaperDeskState
    BY DEF IdlePaperDesk, PaperDeskState
  <2> QED
    BY <1>1, <1>2, <2>1, DeskKeeps
<1>3. CASE /\ DeskGoesTo(d, o)
           /\ row_.kind # "SWAP" => ~\E p \in Papers : Alike(p, row_)
           /\ AssertApprovalPolicy(row_.kind, row_.turn)
  <2>1. /\ Files(d) /\ paperDesk[d].paper \in Papers /\ row_ \in ShiftChangeRequest
        /\ papers[paperDesk[d].paper] = NoPaper /\ row_.status = "PENDING"
        /\ \A e \in PaperDesks \ {d} : Files(e) => paperDesk[e].paper # paperDesk[d].paper
    BY <1>1, ChangesTyped DEF ChangesInd, RequestsInHand, Files
  <2>2. LimitOf(row_.kind, Policy) \in Nat
    BY LimitsAreNumbers DEF ChangesInd
  <2>3. /\ o \in PaperDeskState /\ o.at = "counted" /\ o.paper = paperDesk[d].paper
        /\ o.row = row_ /\ o.limit = LimitOf(row_.kind, Policy)
    BY <2>1, <2>2 DEF PaperDeskState
  <2> HIDE DEF o
  <2>4. /\ paperDesk' \in [PaperDesks -> PaperDeskState] /\ paperDesk'[d] = o
        /\ \A e \in PaperDesks \ {d} : paperDesk'[e] = paperDesk[e]
    BY <1>3, <2>3 DEF ChangesInd, ChangesTypeOK, DeskGoesTo
  <2>5. ChangesTypeOK' /\ NoTwoAlike'
    BY <1>1, <2>4 DEF ChangesInd, ChangesTypeOK, NoTwoAlike
  <2>6. RequestsInHand'
    BY <1>1, <2>1, <2>3, <2>4 DEF ChangesInd, RequestsInHand, Files
  <2>7. \A e \in PaperDesks \ {d} : paperDesk'[e].at # "counted"
    BY <1>1, <2>4 DEF RequesterFree
  <2>8. ReadHolds(d)'
    <3>1. row_.kind # "SUDDEN" /\ o.limit > 0 =>
            Cardinality(Counted(row_.kind, MonthOf(TurnStart[row_.turn]))) < o.limit
      BY <1>3, <2>3 DEF AssertApprovalPolicy, RequestPolicyAllows
    <3>2. Counted(paperDesk[d].row.kind, MonthOf(TurnStart[paperDesk[d].row.turn]))'
            = Counted(row_.kind, MonthOf(TurnStart[row_.turn]))
      BY <1>1, <2>3, <2>4 DEF Counted, LiveRequest
    <3> QED
      BY <1>1, <1>3, <2>3, <2>4, <3>1, <3>2 DEF ReadHolds, Alike
  <2> QED
    BY <2>5, <2>6, <2>7, <2>8 DEF ChangesInd, ReadsStillHold
<1> QED
  BY <1>2, <1>3 DEF CountRequests

\* The request enters, and the row of the employee is free again.
LEMMA InsertKeeps ==
  ASSUME ChangesInd, NEW d \in PaperDesks, InsertRequest(d)
  PROVE  ChangesInd'
<1> DEFINE o == paperDesk[d]
<1>1. /\ o.at = "counted" /\ papers' = [papers EXCEPT ![o.paper] = o.row]
      /\ paperDesk' = [paperDesk EXCEPT ![d] = IdlePaperDesk]
      /\ UNCHANGED <<setting, standing>>
  BY DEF InsertRequest, DeskGoesTo
<1>2. /\ Files(d) /\ o.paper \in Papers /\ o.row \in ShiftChangeRequest
      /\ papers[o.paper] = NoPaper /\ o.row.status = "PENDING"
      /\ \A e \in PaperDesks \ {d} : Files(e) => paperDesk[e].paper # o.paper
      /\ \A e \in PaperDesks \ {d} : paperDesk[e].at # "counted"
      /\ o.row.kind # "SWAP" => \A q \in Papers : papers[q] # o.row
  BY <1>1, ChangesTyped DEF ChangesInd, RequestsInHand, ReadsStillHold, ReadHolds, Alike, Files
<1>3. IdlePaperDesk \in PaperDeskState /\ IdlePaperDesk.at = "idle"
  BY DEF IdlePaperDesk, PaperDeskState
<1>4. /\ paperDesk' \in [PaperDesks -> PaperDeskState] /\ paperDesk'[d].at = "idle"
      /\ \A e \in PaperDesks \ {d} : paperDesk'[e] = paperDesk[e]
      /\ papers' \in [Papers -> ShiftChangeRequest \cup {NoPaper}] /\ papers'[o.paper] = o.row
      /\ \A q \in Papers \ {o.paper} : papers'[q] = papers[q]
  BY <1>1, <1>2, <1>3 DEF ChangesInd, ChangesTypeOK
<1>5. ChangesTypeOK'
  BY <1>1, <1>4 DEF ChangesInd, ChangesTypeOK
<1>6. NoTwoAlike'
  BY <1>2, <1>4 DEF ChangesInd, NoTwoAlike
<1>7. o.row # NoPaper
  BY <1>2, ChangeRequestsAssumption
<1>8. RequestsInHand'
  BY <1>1, <1>2, <1>4, <1>7 DEF ChangesInd, RequestsInHand, Files
<1>9. ReadsStillHold'
  BY <1>2, <1>4 DEF ReadsStillHold
<1> QED
  BY <1>5, <1>6, <1>8, <1>9 DEF ChangesInd

\* A store begins without requests.
LEMMA ChangesStart == ChangesInit => ChangesInd
<1> SUFFICES ASSUME ChangesInit PROVE ChangesInd
  OBVIOUS
<1>1. ChangesTypeOK
  BY DEF ChangesInit, ChangesTypeOK, PaperDeskState, IdlePaperDesk
<1>2. \A d \in PaperDesks : paperDesk[d].at = "idle"
  BY DEF ChangesInit, IdlePaperDesk
<1>3. \A p \in Papers : papers[p] = NoPaper
  BY DEF ChangesInit
<1> QED
  BY <1>1, <1>2, <1>3 DEF ChangesInd, NoTwoAlike, RequestsInHand, Files, ReadsStillHold

\* Every step keeps the invariant.
LEMMA ChangesStep ==
  ASSUME ChangesInd, [ChangesNext]_paperVars
  PROVE  ChangesInd'
<1>1. CASE \/ HourPasses \/ GetApprovalSetting
           \/ \E new \in Settings : UpsertApprovalSetting(new)
           \/ \E turn \in Turns : TurnCancelled(turn)
           \/ \E new \in {"ACTIVE", "GONE"} : StandingChanges(new)
           \/ UNCHANGED paperVars
  <2>1. UNCHANGED <<papers, paperDesk>>
    BY <1>1 DEF HourPasses, GetApprovalSetting, UpsertApprovalSetting, TurnCancelled,
                StandingChanges, paperVars
  <2>2. setting' \in StoreApprovalSetting \cup {NoPaper}
    <3>1. DefaultApprovalSetting \in StoreApprovalSetting
      BY DEF DefaultApprovalSetting, StoreApprovalSetting
    <3> QED
      BY <1>1, <3>1, ChangeRequestsAssumption
         DEF HourPasses, GetApprovalSetting, UpsertApprovalSetting, TurnCancelled,
             StandingChanges, paperVars, ChangesInd, ChangesTypeOK
  <2>3. standing' \in {"PROBATION", "ACTIVE", "GONE"}
    BY <1>1 DEF HourPasses, GetApprovalSetting, UpsertApprovalSetting, TurnCancelled,
                StandingChanges, paperVars, ChangesInd, ChangesTypeOK
  <2> QED
    BY <2>1, <2>2, <2>3, AroundKeeps
<1>2. ASSUME NEW d \in PaperDesks, NEW p \in Papers, NEW turn \in Turns,
             \/ \E month \in Months, current \in BOOLEAN :
                  CreateShiftChangeRequest(d, p, turn, current, month)
             \/ CreateShiftSwap(d, p, turn)
             \/ \E kind \in LeaveKinds : CreateLeaveRequest(d, p, kind, turn)
      PROVE  ChangesInd'
  <2>1. MonthOf(TurnStart[turn]) \in Months
    BY DEF Months
  <2>2. \A kind \in LeaveKinds : kind \in RequestKinds
    BY ChangeRequestsAssumption DEF RequestKinds
  <2>3. "CHANGE" \in RequestKinds /\ "SWAP" \in RequestKinds
    BY DEF RequestKinds
  <2> QED
    BY <1>2, <2>1, <2>2, <2>3, TakesKeeps
       DEF CreateShiftChangeRequest, CreateShiftSwap, CreateLeaveRequest
<1>3. ASSUME NEW d \in PaperDesks, CountRequests(d) \/ InsertRequest(d) \/ SaveCancelled(d)
      PROVE  ChangesInd'
  BY <1>3, CountKeeps, InsertKeeps, WithdrawalSavedKeeps
<1>4. ASSUME NEW p \in Papers, NEW status \in {"APPROVED", "REJECTED"}, ReviewRequest(p, status)
      PROVE  ChangesInd'
  BY <1>4, ReviewKeeps
<1>5. ASSUME NEW d \in PaperDesks, NEW p \in Papers, CancelRequest(d, p)
      PROVE  ChangesInd'
  <2>1. [at |-> "cancels", paper |-> p] \in PaperDeskState
    BY DEF PaperDeskState
  <2> QED
    BY <1>5, <2>1, DeskKeeps DEF CancelRequest
<1> QED
  BY <1>1, <1>2, <1>3, <1>4, <1>5 DEF ChangesNext

\* What is counted without the request that enters is no more.
LEMMA EntersWithinLimit ==
  ASSUME ChangesInd, NEW d \in PaperDesks, paperDesk[d].at = "counted",
         paperDesk[d].row.kind # "SUDDEN", paperDesk[d].limit > 0
  PROVE  Cardinality({q \in Papers \ {paperDesk[d].paper} :
                        /\ LiveRequest(q) /\ papers[q].kind \in Group(paperDesk[d].row.kind)
                        /\ papers[q].month = MonthOf(TurnStart[paperDesk[d].row.turn])})
           < paperDesk[d].limit
<1> DEFINE all == Counted(paperDesk[d].row.kind, MonthOf(TurnStart[paperDesk[d].row.turn]))
           others == {q \in Papers \ {paperDesk[d].paper} :
                        /\ LiveRequest(q) /\ papers[q].kind \in Group(paperDesk[d].row.kind)
                        /\ papers[q].month = MonthOf(TurnStart[paperDesk[d].row.turn])}
<1>1. others \subseteq all /\ all \subseteq Papers
  BY DEF Counted
<1>2. IsFiniteSet(all)
  BY <1>1, ChangeRequestsAssumption, FS_Subset
<1>3. Cardinality(others) <= Cardinality(all) /\ Cardinality(others) \in Nat
      /\ Cardinality(all) \in Nat
  BY <1>1, <1>2, FS_Subset, FS_CardinalityType
<1>4. Cardinality(all) < paperDesk[d].limit /\ paperDesk[d].limit \in Nat
  BY ChangesTyped DEF ChangesInd, ReadsStillHold, ReadHolds
<1> QED
  BY <1>3, <1>4

\* A request changes when it enters, when it is decided, and when a withdrawal is saved.
LEMMA DecidedOnce ==
  ASSUME ChangesInd, [ChangesNext]_paperVars, NEW p \in Papers,
         papers[p] # NoPaper, papers'[p] # papers[p]
  PROVE  /\ papers[p].status \in {"REJECTED", "CANCELLED"} => papers'[p].status = "CANCELLED"
         /\ papers[p].status = "APPROVED" =>
              \E d \in PaperDesks : paperDesk[d] = [at |-> "cancels", paper |-> p]
<1>1. /\ papers \in [Papers -> ShiftChangeRequest \cup {NoPaper}]
      /\ papers[p] \in ShiftChangeRequest
  BY DEF ChangesInd, ChangesTypeOK
<1>2. \/ \E d \in PaperDesks : InsertRequest(d) \/ SaveCancelled(d)
      \/ \E q \in Papers, status \in {"APPROVED", "REJECTED"} : ReviewRequest(q, status)
  BY DEF ChangesNext, paperVars, HourPasses, GetApprovalSetting, UpsertApprovalSetting,
         TurnCancelled, StandingChanges, CreateShiftChangeRequest, CreateShiftSwap,
         CreateLeaveRequest, Takes, CountRequests, CancelRequest
<1>3. ASSUME NEW d \in PaperDesks, InsertRequest(d) PROVE FALSE
  <2>1. Files(d) /\ papers[paperDesk[d].paper] = NoPaper
    BY <1>3 DEF InsertRequest, ChangesInd, RequestsInHand, Files
  <2> QED
    BY <1>3, <2>1, <1>1 DEF InsertRequest
<1>4. ASSUME NEW d \in PaperDesks, SaveCancelled(d)
      PROVE  papers'[p].status = "CANCELLED" /\ paperDesk[d] = [at |-> "cancels", paper |-> p]
  <2>1. paperDesk[d].at = "cancels"
        /\ papers' = [papers EXCEPT ![paperDesk[d].paper].status = "CANCELLED"]
    BY <1>4 DEF SaveCancelled
  <2>2. paperDesk[d].paper \in Papers
        /\ paperDesk[d] = [at |-> "cancels", paper |-> paperDesk[d].paper]
    BY <2>1, ChangesTyped DEF ChangesInd
  <2>3. paperDesk[d].paper = p
    BY <2>1, <2>2, <1>1
  <2>4. papers'[p].status = "CANCELLED"
    BY <2>1, <2>3, <1>1 DEF ShiftChangeRequest
  <2> QED
    BY <2>2, <2>3, <2>4
<1>5. ASSUME NEW q \in Papers, NEW status \in {"APPROVED", "REJECTED"}, ReviewRequest(q, status)
      PROVE  papers[p].status = "PENDING"
  BY <1>5, <1>1 DEF ReviewRequest
<1> QED
  BY <1>2, <1>3, <1>4, <1>5

(***************************************************************************)
(* For any number of requests, desks, shifts and kinds, and whatever the   *)
(* owner sets: no two pending requests are alike, none enters beyond the   *)
(* month's limit it was counted against, and decisions stand but for       *)
(* withdrawals that had begun (requests.part.ts).                          *)
(***************************************************************************)
THEOREM ChangesKept == ChangesSpec => ChangeRequestsPromise
<1>1. ChangesSpec => []ChangesInd
  <2>1. ChangesInit => ChangesInd
    BY ChangesStart
  <2>2. ChangesInd /\ [ChangesNext]_paperVars => ChangesInd'
    BY ChangesStep
  <2> QED
    BY <2>1, <2>2, PTL DEF ChangesSpec
<1>2. ChangesInd => \A d \in PaperDesks :
        paperDesk[d].at = "counted" /\ paperDesk[d].row.kind # "SUDDEN" /\ paperDesk[d].limit > 0
          => Cardinality({q \in Papers \ {paperDesk[d].paper} :
                            /\ LiveRequest(q) /\ papers[q].kind \in Group(paperDesk[d].row.kind)
                            /\ papers[q].month = MonthOf(TurnStart[paperDesk[d].row.turn])})
               < paperDesk[d].limit
  BY EntersWithinLimit
<1>3. ChangesSpec => WithinLimit
  <2>1. ChangesInd /\ [ChangesNext]_paperVars =>
          [\A d \in PaperDesks :
             LET o == paperDesk[d]
                 others == {q \in Papers \ {o.paper} :
                              /\ LiveRequest(q) /\ papers[q].kind \in Group(o.row.kind)
                              /\ papers[q].month = MonthOf(TurnStart[o.row.turn])}
             IN  /\ o.at = "counted" /\ papers'[o.paper] # papers[o.paper]
                 /\ o.row.kind # "SUDDEN" /\ o.limit > 0
                 => Cardinality(others) < o.limit]_paperVars
    BY <1>2
  <2> QED
    BY <1>1, <2>1, PTL DEF ChangesSpec, WithinLimit
<1>4. ChangesSpec => DecisionsStand
  <2>1. ChangesInd /\ [ChangesNext]_paperVars =>
          [\A p \in Papers : papers[p] # NoPaper /\ papers'[p] # papers[p] =>
             /\ papers[p].status \in {"REJECTED", "CANCELLED"} =>
                  papers'[p].status = "CANCELLED"
             /\ papers[p].status = "APPROVED" =>
                  \E d \in PaperDesks : paperDesk[d] = [at |-> "cancels", paper |-> p]]_paperVars
    BY DecidedOnce
  <2> QED
    BY <1>1, <2>1, PTL DEF ChangesSpec, DecisionsStand
<1>5. ChangesInd => NoTwoAlike
  BY DEF ChangesInd
<1> QED
  BY <1>1, <1>3, <1>4, <1>5, PTL DEF ChangeRequestsPromise
=============================================================================
