----------------------------- MODULE StoreNotices -----------------------------
(***************************************************************************)
(* What a store is told by itself: the daily report rows that check-in,    *)
(* check-out and the end-of-day scan append to (stores.service.ts), the    *)
(* announcements of free seats behind a throttle that one process keeps in *)
(* memory (scheduling.part.ts and shift-assignment-notification.ts), and   *)
(* the review reminder of the career ladder (career-reminder.service.ts).  *)
(*                                                                         *)
(* A desk is one background task: it reads, and acts on what it read in a  *)
(* later step.  One store and one report day; ticks of noticeClock stand   *)
(* for the throttle's minutes and for the days of the review calendar.     *)
(***************************************************************************)
EXTENDS FiniteSets, Integers, Sequences, SequencesExt

CONSTANTS NoticeDesks, Crew,
          ReportIds,                    \* numbered in their order
          SeatSlots, SeatStart,         \* the tick each slot starts at
          MaxSeats,
          Wishers,                      \* crew with new-shift notices turned on
          ThrottleWindow, MaxEntries,
          AnnounceDays,                 \* GENERATED_SLOT_ANNOUNCE_WINDOW_DAYS
          Frequencies,                  \* review frequencies: ticks in a period
          MaxNoticeClock, MaxNoticeOps, NoReport, NoPeriod
VARIABLES noticeClock,
          reports,        \* daily_employee_reports of the day
          attendance,     \* what became of each employee's shift
          seats,          \* shift_slots: seats (0 is any number) and holders
          throttle,       \* SlotAnnouncementThrottle: oldest entry first
          told,           \* the notifications the latest notice stored
          career,         \* store_career_settings
          noticeDesk, noticeOps,
          recorded,       \* history: appends that reached a row
          announcedAt,    \* history: when free seats of a slot were announced
          forgotten,      \* history: slots whose entry went before its time
          claimed,        \* history: reminders claimed for each period
          irregular       \* history: the frequency changed, or a run outlived its period
noticeVars ==
  <<noticeClock, reports, attendance, seats, throttle, told, career,
    noticeDesk, noticeOps, recorded, announcedAt, forgotten, claimed, irregular>>
historyVars == <<recorded, announcedAt, forgotten, claimed, irregular>>

ReportFields == {"lateArrivals", "earlyDepartures", "forgotClockOut",
                 "unauthorizedLeaves", "authorizedLeaves"}
DailyEmployeeReport == [ReportFields -> BoundedSeq(Crew, 2)]
EmptyReport == [f \in ReportFields |-> <<>>]
Attendance == {"due", "working", "done", "forgot_checkout", "absent", "on_leave"}
Periods == {<<n, t \div n>> : n \in Frequencies, t \in 0..MaxNoticeClock}
StoreCareerSetting ==
  [enabled : BOOLEAN, frequency : Frequencies, lastReminded : Periods \cup {NoPeriod}]
IdleNoticeDesk == [at |-> "idle"]

NoticeDeskGoes(d, state) == noticeDesk' = [noticeDesk EXCEPT ![d] = state]
Takes(d, state) == /\ noticeDesk[d] = IdleNoticeDesk
                   /\ noticeOps < MaxNoticeOps /\ noticeOps' = noticeOps + 1
                   /\ NoticeDeskGoes(d, state)

-----------------------------------------------------------------------------
(* Daily reports                                                           *)

ReportJob(jobs) == [at |-> "find_report", jobs |-> jobs]
AfterAppend(d, jobs) ==
  NoticeDeskGoes(d, IF jobs = {} THEN IdleNoticeDesk ELSE ReportJob(jobs))

\* checkIn and checkOut start an append and do not wait for it.
CheckInLate(d, e) ==
  /\ attendance[e] = "due"
  /\ attendance' = [attendance EXCEPT ![e] = "working"]
  /\ Takes(d, ReportJob({<<"lateArrivals", e>>}))
  /\ UNCHANGED <<noticeClock, reports, seats, throttle, told, career, historyVars>>

CheckOutEarly(d, e) ==
  /\ attendance[e] = "working"
  /\ attendance' = [attendance EXCEPT ![e] = "done"]
  /\ Takes(d, ReportJob({<<"earlyDepartures", e>>}))
  /\ UNCHANGED <<noticeClock, reports, seats, throttle, told, career, historyVars>>

\* The shift ends without the employee: the shift-end workflow says how.
ShiftIsOver(e, how) ==
  /\ \/ attendance[e] = "due" /\ how \in {"absent", "on_leave"}
     \/ attendance[e] = "working" /\ how = "forgot_checkout"
  /\ attendance' = [attendance EXCEPT ![e] = how]
  /\ noticeOps < MaxNoticeOps /\ noticeOps' = noticeOps + 1
  /\ UNCHANGED <<noticeClock, reports, seats, throttle, told, career,
                 noticeDesk, historyVars>>

\* The list the end-of-day scan puts a finished shift in.
IssueFields(how) ==
  {f \in ReportFields :
     \/ how = "forgot_checkout" /\ f = "forgotClockOut"
     \/ how = "absent" /\ f = "unauthorizedLeaves"
     \/ how = "on_leave" /\ f = "authorizedLeaves"}

DetectEndOfDayAttendanceIssues(d) ==
  LET jobs == {<<f, e>> \in ReportFields \X Crew : f \in IssueFields(attendance[e])} IN
  /\ jobs # {}
  /\ Takes(d, ReportJob(jobs))
  /\ UNCHANGED <<noticeClock, reports, attendance, seats, throttle, told, career,
                 historyVars>>

\* createDailyReportForStore: look for a row of the day, and insert one later
\* when there was none.  Nothing in the table forbids a second row.
FindDailyReport(d) ==
  /\ noticeDesk[d].at = "find_report"
  /\ LET here == {r \in ReportIds : reports[r] # NoReport} IN
     IF here = {} THEN NoticeDeskGoes(d, [at |-> "insert_report", jobs |-> noticeDesk[d].jobs])
     ELSE \E r \in here :
            NoticeDeskGoes(d, [at |-> "append", jobs |-> noticeDesk[d].jobs,
                               row |-> r, seen |-> reports[r]])
  /\ UNCHANGED <<noticeClock, reports, attendance, seats, throttle, told, career,
                 noticeOps, historyVars>>

CreateDailyReport(d) ==
  /\ noticeDesk[d].at = "insert_report"
  /\ \E r \in ReportIds :
       /\ {q \in ReportIds : reports[q] = NoReport /\ q <= r} = {r}
       /\ reports' = [reports EXCEPT ![r] = EmptyReport]
       /\ NoticeDeskGoes(d, [at |-> "append", jobs |-> noticeDesk[d].jobs,
                             row |-> r, seen |-> EmptyReport])
  /\ UNCHANGED <<noticeClock, attendance, seats, throttle, told, career,
                 noticeOps, historyVars>>

\* A plausible slip: the list is written back as it was read.
AppendAsRead(row, seen, f, e) == Append(seen[f], e)
\* The UPDATE appends to the list as it is now, unless it already has him.
Appended(row, seen, f, e) ==
  IF e \in ToSet(reports[row][f]) THEN reports[row][f] ELSE Append(reports[row][f], e)

AppendToDailyReport(d) ==
  /\ noticeDesk[d].at = "append"
  /\ LET row == noticeDesk[d].row IN
     \E job \in noticeDesk[d].jobs :
       /\ AfterAppend(d, noticeDesk[d].jobs \ {job})
       /\ IF reports[row] = NoReport THEN UNCHANGED <<reports, recorded>>
          ELSE /\ reports' = [reports EXCEPT ![row][job[1]] =
                                Appended(row, noticeDesk[d].seen, job[1], job[2])]
               /\ recorded' = recorded \cup {<<row, job[1], job[2]>>}
  /\ UNCHANGED <<noticeClock, attendance, seats, throttle, told, career, noticeOps,
                 announcedAt, forgotten, claimed, irregular>>

\* A statement of the append fails: it is logged, and a scan goes on.
AppendFails(d) ==
  /\ noticeDesk[d].at \in {"find_report", "insert_report", "append"}
  /\ \E job \in noticeDesk[d].jobs : AfterAppend(d, noticeDesk[d].jobs \ {job})
  /\ UNCHANGED <<noticeClock, reports, attendance, seats, throttle, told, career,
                 noticeOps, historyVars>>

DeleteDailyReport(r) ==
  /\ reports[r] # NoReport
  /\ noticeOps < MaxNoticeOps /\ noticeOps' = noticeOps + 1
  /\ reports' = [reports EXCEPT ![r] = NoReport]
  /\ recorded' = {entry \in recorded : entry[1] # r}
  /\ UNCHANGED <<noticeClock, attendance, seats, throttle, told, career, noticeDesk,
                 announcedAt, forgotten, claimed, irregular>>

-----------------------------------------------------------------------------
(* Free seats                                                              *)

AnnounceJob(slots, without) == [at |-> "read_slots", slots |-> slots, without |-> without]

\* updateShiftSlot raised maxStaff.
RaiseMaxStaff(d, s) ==
  /\ seats[s].max < MaxSeats
  /\ seats' = [seats EXCEPT ![s].max = @ + 1]
  /\ Takes(d, AnnounceJob({s}, {}))
  /\ UNCHANGED <<noticeClock, reports, attendance, throttle, told, career, historyVars>>

\* An approved assignment is cancelled by the owner.
CancelAssignment(d, s, e) ==
  /\ e \in seats[s].holders
  /\ seats' = [seats EXCEPT ![s].holders = @ \ {e}]
  /\ Takes(d, AnnounceJob({s}, {e}))
  /\ UNCHANGED <<noticeClock, reports, attendance, throttle, told, career, historyVars>>

\* An employee withdraws from every slot to come.
CancelUpcoming(d, e) ==
  LET freed == {s \in SeatSlots : e \in seats[s].holders /\ SeatStart[s] > noticeClock} IN
  /\ freed # {}
  /\ seats' = [s \in SeatSlots |->
                 IF s \in freed THEN [seats[s] EXCEPT !.holders = @ \ {e}] ELSE seats[s]]
  /\ Takes(d, AnnounceJob(freed, {e}))
  /\ UNCHANGED <<noticeClock, reports, attendance, throttle, told, career, historyVars>>

ReadSlots(d) ==
  /\ noticeDesk[d].at = "read_slots"
  /\ NoticeDeskGoes(d, [at |-> "announce", slots |-> noticeDesk[d].slots,
                        without |-> noticeDesk[d].without, view |-> seats])
  /\ UNCHANGED <<noticeClock, reports, attendance, seats, throttle, told, career,
                 noticeOps, historyVars>>

SelectFreeSeatAnnouncement(slot, s) ==
  /\ slot.max > 0 => Cardinality(slot.holders) < slot.max
  /\ SeatStart[s] > noticeClock

\* SlotAnnouncementThrottle.claim on [last, won, lost]: expired entries go when
\* the map is full, then the oldest one if it still is; the slot's own entry
\* moves to the end.
Fresh(entry) == noticeClock - entry.at < ThrottleWindow
Claim(t, s) ==
  LET swept == IF Len(t.last) >= MaxEntries THEN SelectSeq(t.last, Fresh) ELSE t.last
      kept  == IF Len(swept) >= MaxEntries THEN Tail(swept) ELSE swept
      Others(entry) == entry.slot # s
  IN  IF \E i \in DOMAIN t.last : t.last[i].slot = s /\ Fresh(t.last[i]) THEN t
      ELSE [last |-> Append(SelectSeq(kept, Others), [slot |-> s, at |-> noticeClock]),
            won  |-> t.won \cup {s},
            lost |-> (t.lost \ {s}) \cup
                     (IF kept # swept THEN {swept[1].slot} ELSE {})]

\* notifyEmployeesOfCreatedShifts: one notice for each wisher, about the slots
\* he has no seat in.
ShiftsOpenTo(e, view, slots) == {s \in slots : e \notin view[s].holders}
CreatedShiftNotices(view, slots, without) ==
  {[to |-> e, kind |-> "created", about |-> ShiftsOpenTo(e, view, slots)] :
     e \in {p \in Wishers \ without : ShiftsOpenTo(p, view, slots) # {}}}

\* announceFreeSeatsOfSlot leaves out the holders it read as well; with one
\* slot shiftsOpenTo leaves them out anyhow.  Any of the sends may fail.
AnnounceFreeSeats(d) ==
  /\ noticeDesk[d].at = "announce"
  /\ LET view == noticeDesk[d].view
         open == {s \in noticeDesk[d].slots : SelectFreeSeatAnnouncement(view[s], s)}
     IN  \E order \in SetToSeqs(open) :
           LET t == FoldLeft(Claim, [last |-> throttle, won |-> {}, lost |-> forgotten], order)
           IN  /\ throttle' = t.last
               /\ forgotten' = t.lost
               /\ announcedAt' = [s \in SeatSlots |->
                                    IF s \in t.won THEN noticeClock ELSE announcedAt[s]]
               /\ \E sent \in SUBSET CreatedShiftNotices(view, t.won, noticeDesk[d].without) :
                    told' = sent
  /\ NoticeDeskGoes(d, IdleNoticeDesk)
  /\ UNCHANGED <<noticeClock, reports, attendance, seats, career, noticeOps,
                 recorded, claimed, irregular>>

\* The nightly job made slots: those of the coming days are announced, without
\* a claim.
GeneratedSlotAnnouncements ==
  {s \in SeatSlots : /\ SeatStart[s] < noticeClock + AnnounceDays
                     /\ SelectFreeSeatAnnouncement(seats[s], s)}
AnnounceGeneratedSlots(d) ==
  /\ GeneratedSlotAnnouncements # {}
  /\ Takes(d, IdleNoticeDesk)
  /\ \E sent \in SUBSET CreatedShiftNotices(seats, GeneratedSlotAnnouncements, {}) :
       told' = sent
  /\ UNCHANGED <<noticeClock, reports, attendance, seats, throttle, career, historyVars>>

\* An employee takes a seat; the owner is told in the background.
RegisterToShiftSlot(d, s, e) ==
  /\ e \notin seats[s].holders
  /\ SelectFreeSeatAnnouncement(seats[s], s)
  /\ seats' = [seats EXCEPT ![s].holders = @ \cup {e}]
  /\ Takes(d, [at |-> "tell_owner", slot |-> s, who |-> e])
  /\ UNCHANGED <<noticeClock, reports, attendance, throttle, told, career, historyVars>>

NotifyOwnerOfShiftRegistration(d) ==
  /\ noticeDesk[d].at = "tell_owner"
  /\ \/ told' = {[to |-> "owner", kind |-> "registration",
                            about |-> {noticeDesk[d].slot}]}
     \/ told' = {}
  /\ NoticeDeskGoes(d, [at |-> "tell_holder", slot |-> noticeDesk[d].slot,
                        who |-> noticeDesk[d].who])
  /\ UNCHANGED <<noticeClock, reports, attendance, seats, throttle, career, noticeOps,
                 historyVars>>

\* notifyEmployeesOfNewShifts: the row may be gone by the time it is read.
NotifyEmployeesOfNewShifts(d) ==
  /\ noticeDesk[d].at = "tell_holder"
  /\ \/ told' = {[to |-> noticeDesk[d].who, kind |-> "approved",
                            about |-> {noticeDesk[d].slot}]}
     \/ told' = {}
  /\ NoticeDeskGoes(d, IdleNoticeDesk)
  /\ UNCHANGED <<noticeClock, reports, attendance, seats, throttle, career, noticeOps,
                 historyVars>>

-----------------------------------------------------------------------------
(* The review reminder                                                     *)

ReviewPeriodKey(frequency) == <<frequency, noticeClock \div frequency>>

\* sendDueReminders lists the stores; the period is worked out from the list.
ListDueStores(d) ==
  /\ career.enabled
  /\ career.lastReminded # ReviewPeriodKey(career.frequency)
  /\ Takes(d, [at |-> "remind", period |-> ReviewPeriodKey(career.frequency)])
  /\ UNCHANGED <<noticeClock, reports, attendance, seats, throttle, told, career,
                 historyVars>>

ClaimReminder(d) ==
  LET period == noticeDesk[d].period IN
  /\ noticeDesk[d].at = "remind"
  /\ IF career.lastReminded = period \/ ~career.enabled
     THEN NoticeDeskGoes(d, IdleNoticeDesk) /\ UNCHANGED <<career, claimed, irregular>>
     ELSE /\ career' = [career EXCEPT !.lastReminded = period]
          /\ claimed' = [claimed EXCEPT ![period] = @ + 1]
          /\ irregular' = (irregular \/ period # ReviewPeriodKey(career.frequency))
          /\ NoticeDeskGoes(d, [at |-> "tell_review", period |-> period])
  /\ UNCHANGED <<noticeClock, reports, attendance, seats, throttle, told, noticeOps,
                 recorded, announcedAt, forgotten>>

\* The claim stays when the send fails: the error is only logged.
SendReminder(d) ==
  /\ noticeDesk[d].at = "tell_review"
  /\ \/ told' = {[to |-> "owner", kind |-> "review", about |-> {}]}
     \/ told' = {}
  /\ NoticeDeskGoes(d, IdleNoticeDesk)
  /\ UNCHANGED <<noticeClock, reports, attendance, seats, throttle, career, noticeOps,
                 historyVars>>

UpdateCareerSettings(enabled, frequency) ==
  /\ noticeOps < MaxNoticeOps /\ noticeOps' = noticeOps + 1
  /\ career' = [enabled |-> enabled, frequency |-> frequency,
                lastReminded |-> IF frequency = career.frequency THEN career.lastReminded
                                 ELSE NoPeriod]
  /\ career' # career
  /\ irregular' = (irregular \/ frequency # career.frequency)
  /\ UNCHANGED <<noticeClock, reports, attendance, seats, throttle, told, noticeDesk,
                 recorded, announcedAt, forgotten, claimed>>

-----------------------------------------------------------------------------
NoticeTick ==
  /\ noticeClock < MaxNoticeClock
  /\ noticeClock' = noticeClock + 1
  /\ UNCHANGED <<reports, attendance, seats, throttle, told, career, noticeDesk,
                 noticeOps, historyVars>>

\* The process restarts: tasks in flight and the throttle are lost.
NoticeRestart ==
  /\ noticeOps < MaxNoticeOps /\ noticeOps' = noticeOps + 1
  /\ noticeDesk' = [d \in NoticeDesks |-> IdleNoticeDesk]
  /\ throttle' = <<>>
  /\ forgotten' = forgotten \cup {throttle[i].slot : i \in DOMAIN throttle}
  /\ UNCHANGED <<noticeClock, reports, attendance, seats, told, career,
                 recorded, announcedAt, claimed, irregular>>

NoticesInit ==
  /\ noticeClock = 0
  /\ reports = [r \in ReportIds |-> NoReport]
  /\ attendance = [e \in Crew |-> "due"]
  /\ seats = [s \in SeatSlots |-> [max |-> 0, holders |-> Crew \ Wishers]]
  /\ throttle = <<>> /\ told = {}
  /\ career = [enabled |-> TRUE, frequency |-> CHOOSE n \in Frequencies : TRUE,
               lastReminded |-> NoPeriod]
  /\ noticeDesk = [d \in NoticeDesks |-> IdleNoticeDesk]
  /\ noticeOps = 0
  /\ recorded = {} /\ forgotten = {} /\ irregular = FALSE
  /\ announcedAt = [s \in SeatSlots |-> -ThrottleWindow]
  /\ claimed = [p \in Periods |-> 0]

NoticesNext ==
  \/ NoticeTick \/ NoticeRestart
  \/ \E e \in Crew, how \in Attendance : ShiftIsOver(e, how)
  \/ \E r \in ReportIds : DeleteDailyReport(r)
  \/ \E on \in BOOLEAN, n \in Frequencies : UpdateCareerSettings(on, n)
  \/ \E d \in NoticeDesks :
       \/ \E e \in Crew : \/ CheckInLate(d, e) \/ CheckOutEarly(d, e) \/ CancelUpcoming(d, e)
                          \/ \E s \in SeatSlots : \/ CancelAssignment(d, s, e)
                                                  \/ RegisterToShiftSlot(d, s, e)
       \/ \E s \in SeatSlots : RaiseMaxStaff(d, s)
       \/ DetectEndOfDayAttendanceIssues(d) \/ FindDailyReport(d)
       \/ CreateDailyReport(d) \/ AppendToDailyReport(d) \/ AppendFails(d)
       \/ ReadSlots(d) \/ AnnounceFreeSeats(d) \/ AnnounceGeneratedSlots(d)
       \/ NotifyOwnerOfShiftRegistration(d) \/ NotifyEmployeesOfNewShifts(d)
       \/ ListDueStores(d) \/ ClaimReminder(d) \/ SendReminder(d)
NoticesSpec == NoticesInit /\ [][NoticesNext]_noticeVars

-----------------------------------------------------------------------------
NoticesTypeOK ==
  /\ reports \in [ReportIds -> DailyEmployeeReport \cup {NoReport}]
  /\ attendance \in [Crew -> Attendance]
  /\ career \in StoreCareerSetting
  /\ throttle \in BoundedSeq([slot : SeatSlots, at : 0..noticeClock], MaxEntries)

\* An entry that reached a row stays in it, once, whoever appends at the time.
AppendsKept ==
  \A entry \in recorded :
    /\ reports[entry[1]] # NoReport
    /\ Cardinality({i \in DOMAIN reports[entry[1]][entry[2]] :
                      reports[entry[1]][entry[2]][i] = entry[3]}) = 1

\* The throttle holds one entry of a slot, oldest first, and never too many.
ThrottleInOrder ==
  /\ Len(throttle) <= MaxEntries
  /\ \A i, j \in DOMAIN throttle :
       i < j => throttle[i].slot # throttle[j].slot /\ throttle[i].at <= throttle[j].at

\* A store is reminded at most once of a period, unless the frequency
\* changed or a run was still at it when the period ended.
RemindedOnce == irregular \/ \A p \in Periods : claimed[p] <= 1

\* Free seats of a slot are announced again within the window only when the
\* process lost the slot's entry: by a restart, or by a full throttle.
AnnouncedOncePerWindow ==
  LET now == {s \in SeatSlots : announcedAt'[s] # announcedAt[s]} IN
  \A s \in now : \/ announcedAt'[s] - announcedAt[s] >= ThrottleWindow
                 \/ s \in forgotten
                 \/ Cardinality(now) > 1 /\ Len(throttle) = MaxEntries

\* What the notices of a store promise.
StoreNoticesPromise ==
  /\ [](NoticesTypeOK /\ AppendsKept /\ ThrottleInOrder /\ RemindedOnce)
  /\ [][AnnouncedOncePerWindow]_noticeVars
=============================================================================
