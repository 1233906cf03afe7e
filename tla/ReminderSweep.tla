---------------------------- MODULE ReminderSweep ----------------------------
(***************************************************************************)
(* The reminder sweep (apps/law/backend/src/domain/reminders/sweep.ts):    *)
(* every replica, every interval, lists the deadlines and hearings that    *)
(* are close and writes one Notification per occasion; the unique dedup    *)
(* key is the only memory of what was sent.  Meanwhile people edit         *)
(* deadlines and hearings, members leave, days pass, ticks fail.           *)
(*                                                                         *)
(* Each hearing is on a case of its own, whose lead and team stand still   *)
(* here (CaseTeam models how they change).                                 *)
(***************************************************************************)
EXTENDS Integers, FiniteSets

CONSTANTS
    Replicas,      \* processes that run the sweep
    Deadlines, Hearings, Members,
    OwnerAtFirst,  \* of each deadline
    LeadOf, TeamOf, \* the lead and the team of each hearing's case
    Dates,         \* the days people put deadlines and hearings on
    LastDay,       \* bound on the days of a behaviour
    Page,          \* PAGE: rows of one list
    MaxUpsets,     \* bound on what people change and on failed ticks, together
    Nothing

VARIABLES
    today,      \* todayInFirmTimezone
    due, owner, open,     \* each deadline
    date, unrecorded,     \* each hearing
    active,     \* FirmMember.spec.active
    notices,    \* Notification rows: dedup key -> recipient
    phase, at,     \* each replica: in a tick or not, and at which of its lists
    clock,      \* `today` of the tick, read once when it begins
    queue,      \* what the current list left to tell
    next,       \* the notice being written
    upsets,
    edited,     \* history: deadlines and hearings that were ever edited
    unsettled   \* history: what changed since each tick began

rowVars  == <<due, owner, open, date, unrecorded, active>>
tickVars == <<phase, at, clock, queue, next>>
RSvars == <<today, rowVars, notices, tickVars, upsets, edited, unsettled>>

Days == 0..LastDay    \* of the clock; a date may lie beyond

\* deadline:{id}:{window}, unrecorded_outcome:{hearing},
\* hearing_reminder:{hearing}:{member}:{date}
Windows == {"t-7", "t-3", "t-1", "day-of"}
DeadlineKey == [about : Deadlines, window : Windows]
OutcomeKey  == [about : Hearings, window : {"past"}]
ReminderKey == [about : Hearings, to : Members, date : Dates]
Keys == DeadlineKey \cup OutcomeKey \cup ReminderKey

\* One createNotification of a list's loop.
Telling == [key : Keys, to : Members]

\* The lists of a tick, in order.
Lists == <<"t-7", "t-3", "t-1", "day-of", "past", "reminders">>

ASSUME ConstantsAssumption ==
    /\ Dates \subseteq Nat /\ LastDay \in Nat
    /\ Page \in Nat \ {0} /\ MaxUpsets \in Nat
    /\ Nothing \notin Members \cup Telling
    /\ IsFiniteSet(Deadlines) /\ IsFiniteSet(Hearings)
    /\ Deadlines \cap Hearings = {}
    /\ OwnerAtFirst \in [Deadlines -> Members]
    /\ LeadOf \in [Hearings -> Members] /\ TeamOf \in [Hearings -> SUBSET Members]

-----------------------------------------------------------------------------
\* Mutant: t-3 is the day three days before.
ExactRange(window) ==
    CASE window = "t-7"    -> 4..7
      [] window = "t-3"    -> 3..3
      [] window = "t-1"    -> 1..1
      [] window = "day-of" -> 0..0

\* DEADLINE_WINDOWS: days from the tick's today to the due date.
RangeOf(window) ==
    CASE window = "t-7"    -> 4..7
      [] window = "t-3"    -> 2..3
      [] window = "t-1"    -> 1..1
      [] window = "day-of" -> 0..0

\* Mutant: reminders two days ahead.
EarlyHits(k, list) ==
    IF list \in Windows
    THEN {d \in Deadlines : open[d] /\ due[d] - clock[k] \in RangeOf(list)}
    ELSE {h \in Hearings : /\ unrecorded[h]
                           /\ IF list = "past" THEN date[h] < clock[k]
                                               ELSE date[h] - clock[k] \in 0..2}

\* The rows a list's filter selects.
Hits(k, list) ==
    IF list \in Windows
    THEN {d \in Deadlines : open[d] /\ due[d] - clock[k] \in RangeOf(list)}
    ELSE {h \in Hearings : /\ unrecorded[h]
                           /\ IF list = "past" THEN date[h] < clock[k]
                                               ELSE date[h] - clock[k] \in 0..1}

DayOf(x) == IF x \in Deadlines THEN due[x] ELSE date[x]

\* One page, the earliest first; ties in any order.
Pages(k, list) ==
    {s \in SUBSET Hits(k, list) :
        /\ Cardinality(s) <= Page
        /\ s # Hits(k, list) => Cardinality(s) = Page
        /\ \A x \in s, y \in Hits(k, list) \ s : DayOf(x) <= DayOf(y)}

\* Mutant: an unrecorded hearing is nobody's.
TellingsUnowned(list, x) ==
    CASE list \in Windows    -> {[key |-> [about |-> x, window |-> list], to |-> owner[x]]}
      [] list = "past"       -> {[key |-> [about |-> x, window |-> "past"], to |-> Nothing]}
      [] list = "reminders"  ->
            {[key |-> [about |-> x, to |-> m, date |-> date[x]], to |-> m] : m \in TeamOf[x]}

\* Whom a row concerns, and under which key.
TellingsOf(list, x) ==
    CASE list \in Windows    -> {[key |-> [about |-> x, window |-> list], to |-> owner[x]]}
      [] list = "past"       -> {[key |-> [about |-> x, window |-> "past"], to |-> LeadOf[x]]}
      [] list = "reminders"  ->
            {[key |-> [about |-> x, to |-> m, date |-> date[x]], to |-> m] : m \in TeamOf[x]}

Enter(k, stage) == phase' = [phase EXCEPT ![k] = stage]

\* Something changes under every tick that is under way.
Unsettle(x) ==
    unsettled' = [k \in Replicas |-> IF phase[k] = "run" THEN unsettled[k] \cup {x} ELSE {}]

RSInit ==
    /\ today = 0
    /\ due \in [Deadlines -> Dates]
    /\ owner = OwnerAtFirst
    /\ open = [d \in Deadlines |-> TRUE]
    /\ date \in [Hearings -> Dates]
    /\ unrecorded = [h \in Hearings |-> TRUE]
    /\ active = Members
    /\ notices = [key \in Keys |-> Nothing]
    /\ phase = [k \in Replicas |-> "idle"]
    /\ at = [k \in Replicas |-> 0]
    /\ clock = [k \in Replicas |-> 0]
    /\ queue = [k \in Replicas |-> {}]
    /\ next = [k \in Replicas |-> Nothing]
    /\ upsets = 0
    /\ edited = {}
    /\ unsettled = [k \in Replicas |-> {}]

-----------------------------------------------------------------------------
(* A tick.                                                                 *)

\* setInterval, and once at boot; `today` is read once per tick.  A process
\* does not wait for its last tick to end: the tick that overlaps it is
\* another replica's here, they share nothing but the tables.
Tick(k) ==
    /\ phase[k] = "idle"
    /\ Enter(k, "run")
    /\ clock' = [clock EXCEPT ![k] = today]
    /\ UNCHANGED <<today, rowVars, notices, at, queue, next, upsets,
                   edited, unsettled>>

Told(k) == phase[k] = "run" /\ queue[k] = {} /\ next[k] = Nothing

\* The next list, once everything the last one gave is told.
List(k) ==
    /\ Told(k) /\ at[k] < 6
    /\ at' = [at EXCEPT ![k] = @ + 1]
    /\ \E s \in Pages(k, Lists[at[k] + 1]) :
          queue' = [queue EXCEPT ![k] =
                       UNION {TellingsOf(Lists[at[k] + 1], x) : x \in s}]
    /\ UNCHANGED <<today, rowVars, notices, phase, clock, next, upsets, edited, unsettled>>

\* userIdOfMember: a deactivated member gets no reminders.
LookUp(k, telling) ==
    /\ telling \in queue[k] /\ next[k] = Nothing
    /\ queue' = [queue EXCEPT ![k] = @ \ {telling}]
    /\ next' = [next EXCEPT ![k] = IF telling.to \in active THEN telling ELSE Nothing]
    /\ UNCHANGED <<today, rowVars, notices, phase, at, clock, upsets, edited, unsettled>>

\* createNotification; ALREADY_EXISTS is taken for success.
Notify(k) ==
    /\ next[k] # Nothing
    /\ notices' = [notices EXCEPT ![next[k].key] = IF @ = Nothing THEN next[k].to ELSE @]
    /\ next' = [next EXCEPT ![k] = Nothing]
    /\ UNCHANGED <<today, rowVars, phase, at, clock, queue, upsets, edited, unsettled>>

\* Nothing of a tick is left but the notices it wrote.
Leave(k) ==
    /\ Enter(k, "idle")
    /\ at' = [at EXCEPT ![k] = 0]
    /\ clock' = [clock EXCEPT ![k] = 0]
    /\ unsettled' = [unsettled EXCEPT ![k] = {}]

Finish(k) ==
    /\ Told(k) /\ at[k] = 6
    /\ Leave(k)
    /\ UNCHANGED <<today, rowVars, notices, queue, next, upsets, edited>>

\* Anything thrown, or the process ending, is the end of this tick.
TickFails(k) ==
    /\ phase[k] = "run"
    /\ upsets < MaxUpsets
    /\ upsets' = upsets + 1
    /\ Leave(k)
    /\ queue' = [queue EXCEPT ![k] = {}]
    /\ next' = [next EXCEPT ![k] = Nothing]
    /\ UNCHANGED <<today, rowVars, notices, edited>>

-----------------------------------------------------------------------------
(* The firm.                                                               *)

Edit(x) ==
    /\ upsets < MaxUpsets
    /\ upsets' = upsets + 1
    /\ Unsettle(x)
    /\ UNCHANGED <<today, notices, tickVars>>

EditDeadline(d) ==
    /\ Edit(d)
    /\ edited' = edited \cup {d}
    /\ \/ /\ \E day \in Dates : due' = [due EXCEPT ![d] = day]
          /\ UNCHANGED <<owner, open>>
       \/ /\ \E m \in Members : owner' = [owner EXCEPT ![d] = m]
          /\ UNCHANGED <<due, open>>
       \/ /\ open' = [open EXCEPT ![d] = ~ @]
          /\ UNCHANGED <<due, owner>>
    /\ UNCHANGED <<date, unrecorded, active>>

\* A hearing moves while it is unrecorded, and its outcome is recorded once.
EditHearing(h) ==
    /\ Edit(h)
    /\ unrecorded[h]
    /\ edited' = edited \cup {h}
    /\ \/ /\ \E day \in Dates : date' = [date EXCEPT ![h] = day]
          /\ UNCHANGED unrecorded
       \/ /\ unrecorded' = [unrecorded EXCEPT ![h] = FALSE]
          /\ UNCHANGED date
    /\ UNCHANGED <<due, owner, open, active>>

SwitchMember(m) ==
    /\ Edit(m)
    /\ active' = IF m \in active THEN active \ {m} ELSE active \cup {m}
    /\ UNCHANGED <<due, owner, open, date, unrecorded, edited>>

NewDay ==
    /\ today < LastDay
    /\ today' = today + 1
    /\ UNCHANGED <<rowVars, notices, tickVars, upsets, edited, unsettled>>

TickStep(k) ==
    \/ Tick(k) \/ List(k) \/ Notify(k) \/ Finish(k)
    \/ \E telling \in queue[k] : LookUp(k, telling)

RSNext ==
    \/ \E k \in Replicas : TickStep(k) \/ TickFails(k)
    \/ \E d \in Deadlines : EditDeadline(d)
    \/ \E h \in Hearings : EditHearing(h)
    \/ \E m \in Members : SwitchMember(m)
    \/ NewDay

RSSpec == RSInit /\ [][RSNext]_RSvars

\* The interval timer keeps firing and the event loop runs what it has begun.
RSFairSpec == RSSpec /\ \A k \in Replicas : WF_RSvars(TickStep(k))

-----------------------------------------------------------------------------
(* Properties.                                                             *)

\* Every variable has its type.
RSTypeOK ==
    /\ today \in Days /\ due \in [Deadlines -> Dates] /\ date \in [Hearings -> Dates]
    /\ owner \in [Deadlines -> Members] /\ open \in [Deadlines -> BOOLEAN]
    /\ unrecorded \in [Hearings -> BOOLEAN] /\ active \in SUBSET Members
    /\ notices \in [Keys -> Members \cup {Nothing}]
    /\ phase \in [Replicas -> {"idle", "run"}] /\ at \in [Replicas -> 0..6]
    /\ clock \in [Replicas -> Days]
    /\ queue \in [Replicas -> SUBSET Telling]
    /\ next \in [Replicas -> Telling \cup {Nothing}]
    /\ upsets \in 0..MaxUpsets
    /\ edited \subseteq Deadlines \cup Hearings
    /\ unsettled \in [Replicas -> SUBSET (Deadlines \cup Hearings \cup Members)]

\* The rung of the ladder a deadline stands on that many days ahead.
Rung(days) ==
    CASE days = 0       -> "day-of"
      [] days = 1       -> "t-1"
      [] days \in 2..3  -> "t-3"
      [] days \in 4..7  -> "t-7"

DaysBefore(window) ==
    CASE window = "day-of" -> 0
      [] window = "t-1"    -> 1
      [] window = "t-3"    -> 3
      [] window = "t-7"    -> 7

\* Everybody whom the rows concern on that day has been told: the owner of a
\* deadline on its rung, the team of a hearing today or tomorrow, the lead of
\* an unrecorded one.  Rows and members in `excused` are not asked about.
ToldOn(day, excused) ==
    /\ \A d \in Deadlines \ excused :
          /\ open[d] /\ due[d] - day \in 0..7
          /\ owner[d] \in active \ excused
          => LET told == notices[[about |-> d, window |-> Rung(due[d] - day)]]
             IN  /\ told # Nothing
                 /\ d \notin edited => told = owner[d]
    /\ \A h \in Hearings \ excused :
          /\ unrecorded[h] /\ date[h] - day \in 0..1
          => \A m \in (TeamOf[h] \cap active) \ excused :
                notices[[about |-> h, to |-> m, date |-> date[h]]] = m
    /\ \A h \in Hearings \ excused :
          /\ unrecorded[h] /\ date[h] < day
          /\ LeadOf[h] \in active \ excused
          => notices[[about |-> h, window |-> "past"]] = LeadOf[h]

FitsAPage == Cardinality(Deadlines) <= Page /\ Cardinality(Hearings) <= Page

\* A tick that ends well owes nothing for its day, whatever earlier ticks and
\* other replicas did, except about rows that changed under it.
FullTicksTellEverybody ==
    [][\A k \in Replicas :
          Finish(k) /\ FitsAPage => ToldOn(clock[k], unsettled[k])]_RSvars

\* Once the calendar and the people stand still, nothing stays owed, through
\* failing and overlapping ticks.
NothingStaysOwed == FitsAPage => <>[]ToldOn(today, {})

\* Nobody is told too early, or of what is not theirs.
NoticesAreTimely ==
    /\ \A d \in Deadlines \ edited, w \in Windows :
          notices[[about |-> d, window |-> w]] # Nothing
             => /\ today >= due[d] - DaysBefore(w)
                /\ notices[[about |-> d, window |-> w]] = owner[d]
                /\ open[d]
    /\ \A h \in Hearings, m \in Members, day \in Dates :
          notices[[about |-> h, to |-> m, date |-> day]] # Nothing
             => today >= day - 1 /\ m \in TeamOf[h]
    /\ \A h \in Hearings \ edited :
          notices[[about |-> h, window |-> "past"]] # Nothing => date[h] < today
=============================================================================
