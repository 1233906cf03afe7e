------------------------------ MODULE CaseDiary ------------------------------
(***************************************************************************)
(* Hearings and the next-hearing date a Case stores                        *)
(* (apps/law/backend/src/domain/hearing, .../case).  Every hearing write   *)
(* publishes an event; its subscriber re-sends the case through the update *)
(* pipeline, whose recompute step reads the Hearings table.  Each read and *)
(* each write of the store is a step of its own: nothing holds a lock, and *)
(* save checks no version.                                                 *)
(*                                                                         *)
(* The hearing that request r creates has the id r, whether r schedules it *)
(* or books it as the follow-up of an outcome it records.  Dates are days  *)
(* 1..LastDay of the firm's calendar.  A recorded outcome is the name of   *)
(* the request that recorded it.                                           *)
(***************************************************************************)
EXTENDS Naturals

CONSTANTS
    Requests,     \* requests, each sent once
    Cases,        \* the cases that exist
    Booked,       \* ids of the hearings scheduled at boot
    Bodies,       \* what a user writes into a case's spec
    Operations,   \* the operations requests may ask for
    LastDay,      \* bound on the calendar
    None

ASSUME LastDayAssumption == LastDay \in Nat \ {0}
ASSUME OperationsAssumption ==
    Operations \subseteq {"schedule", "edit", "record", "amend", "lifecycle"}

VARIABLES
    cases,        \* the Case table
    hearings,     \* the Hearing table: id -> row or None
    today,        \* the firm's clock
    pc,           \* where each request is
    call,         \* what each request asks for
    row,          \* ctx.existing: the row it has loaded
    target,       \* the case it writes or refreshes
    sent,         \* the spec it sends for that case
    fact,         \* the next-hearing date it has recomputed
    undisturbed   \* history: alone since it began, same day, no event lost

vars == <<cases, hearings, today, pc, call, row, target, sent, fact, undisturbed>>
request == <<call, row, target, sent, fact>>

Days == 1..LastDay
Ids == Booked \cup Requests
Lifecycles == {"active", "closed"}

CaseRow == [body : Bodies, lifecycle : Lifecycles, next : Days \cup {None}]
HearingRow == [case : Cases, date : Days, outcome : Requests \cup {None}]

Call ==
    [op : {"schedule"}, case : Cases, date : Days]
      \cup [op : {"edit"}, id : Ids, case : Cases, date : Days]
      \cup [op : {"record"}, id : Ids, next : Days \cup {None}]
      \cup [op : {"amend"}, case : Cases, body : Bodies]
      \cup [op : {"lifecycle"}, case : Cases, to : Lifecycles]

\* None is neither a hearing nor a call.
ASSUME NoneAssumption == None \notin HearingRow /\ None \notin Call

Stages == {"idle", "load", "write", "readCase", "loadCase", "recompute",
           "saveCase", "followUp", "done", "refused", "stopped"}

-----------------------------------------------------------------------------
\* Mutant: the store filter forgets that recorded hearings are over.
RecordedToo(table, c, day) ==
    {table[h].date : h \in {i \in Ids : /\ table[i] # None
                                        /\ table[i].case = c
                                        /\ table[i].date >= day}}

\* The days of a case's hearings that have no outcome and are not past.
OpenDays(table, c, day) ==
    {table[h].date : h \in {i \in Ids : /\ table[i] # None
                                        /\ table[i].case = c
                                        /\ table[i].outcome = None
                                        /\ table[i].date >= day}}

Earliest(days) ==
    IF days = {} THEN None ELSE CHOOSE d \in days : \A e \in days : d <= e

NextHearing(c) == Earliest(OpenDays(hearings, c, today))

Goto(r, stage) == pc' = [pc EXCEPT ![r] = stage]
Busy(r) == pc[r] \notin {"idle", "done", "refused", "stopped"}

OnHearing(r) == call[r] # None /\ call[r].op \in {"schedule", "edit", "record"}

\* Mutant: an edit of a completed hearing is let through.
EditAnything(r, h) ==
    h # None /\ (call[r].op = "record" =>
                    h.outcome = None /\ (call[r].next # None => call[r].next > h.date))

\* What the loaded hearing must be: refuse-completed-edit, and the two checks
\* of recordOutcome.
Admits(r, h) ==
    /\ h # None
    /\ h.outcome = None
    /\ call[r].op = "record" /\ call[r].next # None => call[r].next > h.date

\* Where a request continues once its event has been handled.
AfterRefresh(r) ==
    IF call[r].op = "record" /\ call[r].next # None /\ hearings[r] = None
    THEN "followUp"
    ELSE "done"

Init ==
    /\ hearings \in [Ids -> HearingRow \cup {None}]
    /\ \A h \in Booked : hearings[h] # None /\ hearings[h].outcome = None
    /\ \A r \in Requests : hearings[r] = None
    /\ today \in Days
    /\ \E body \in Bodies :
          cases = [c \in Cases |-> [body |-> body, lifecycle |-> "active",
                                    next |-> NextHearing(c)]]
    /\ pc = [r \in Requests |-> "idle"]
    /\ call = [r \in Requests |-> None]
    /\ row = [r \in Requests |-> None]
    /\ target = [r \in Requests |-> None]
    /\ sent = [r \in Requests |-> None]
    /\ fact = [r \in Requests |-> None]
    /\ undisturbed = [r \in Requests |-> FALSE]

-----------------------------------------------------------------------------
(* A request.                                                              *)

Receive(r) ==
    /\ pc[r] = "idle"
    /\ \E c \in Call :
          /\ c.op \in Operations
          /\ call' = [call EXCEPT ![r] = c]
          /\ target' = [target EXCEPT ![r] =
                 IF c.op \in {"amend", "lifecycle"} THEN c.case ELSE None]
          /\ sent' = [sent EXCEPT ![r] = IF c.op = "amend" THEN c.body ELSE None]
          /\ Goto(r, CASE c.op = "schedule"             -> "write"
                       [] c.op \in {"edit", "record"}   -> "load"
                       [] c.op \in {"amend", "lifecycle"} -> "loadCase")
    /\ undisturbed' = [q \in Requests |->
           q = r /\ \A o \in Requests \ {r} : ~ Busy(o)]
    /\ UNCHANGED <<cases, hearings, today, row, fact>>

\* load-existing and the guards that read what it loaded.
Load(r) ==
    /\ pc[r] = "load"
    /\ LET found == hearings[call[r].id]
       IN  IF Admits(r, found)
           THEN row' = [row EXCEPT ![r] = found] /\ Goto(r, "write")
           ELSE UNCHANGED row /\ Goto(r, "refused")
    /\ UNCHANGED <<cases, hearings, today, call, target, sent, fact, undisturbed>>

\* Policy, reference and attendee checks, and the follow-up's own create
\* pipeline, may refuse before the write they stand in front of.
Refuse(r) ==
    /\ \/ pc[r] \in {"write", "followUp"}
       \/ pc[r] \in {"loadCase", "recompute", "saveCase"} /\ ~ OnHearing(r)
    /\ Goto(r, "refused")
    /\ UNCHANGED <<cases, hearings, today, request, undisturbed>>

\* The hearing's insert or save.  An edit replaces the spec and keeps the
\* loaded status; recordOutcome keeps the loaded spec and sets the status.
WriteHearing(r) ==
    /\ pc[r] = "write"
    /\ LET new == CASE call[r].op = "schedule" ->
                         [case |-> call[r].case, date |-> call[r].date, outcome |-> None]
                    [] call[r].op = "edit" ->
                         [case |-> call[r].case, date |-> call[r].date,
                          outcome |-> row[r].outcome]
                    [] call[r].op = "record" -> [row[r] EXCEPT !.outcome = r]
           id == IF call[r].op = "schedule" THEN r ELSE call[r].id
       IN  /\ hearings' = [hearings EXCEPT ![id] = new]
           /\ target' = [target EXCEPT ![r] = new.case]
    /\ Goto(r, "readCase")
    /\ UNCHANGED <<cases, today, call, row, sent, fact, undisturbed>>

\* Write two of the cycle: the follow-up, through the whole create pipeline.
BookFollowUp(r) ==
    /\ pc[r] = "followUp"
    /\ hearings' = [hearings EXCEPT ![r] =
           [case |-> target[r], date |-> call[r].next, outcome |-> None]]
    /\ Goto(r, "readCase")
    /\ UNCHANGED <<cases, today, request, undisturbed>>

-----------------------------------------------------------------------------
(* The refresh a hearing event triggers, inside the publishing request, and *)
(* the case writes of users.                                               *)

\* The handler reads the case and sends its spec back.
ReadCase(r) ==
    /\ pc[r] = "readCase"
    /\ sent' = [sent EXCEPT ![r] = cases[target[r]].body]
    /\ Goto(r, "loadCase")
    /\ UNCHANGED <<cases, hearings, today, call, row, target, fact, undisturbed>>

\* load-existing of the update pipeline, or ctx.load of updateStatus.
LoadCase(r) ==
    /\ pc[r] = "loadCase"
    /\ row' = [row EXCEPT ![r] = cases[target[r]]]
    /\ Goto(r, IF call[r].op = "lifecycle" THEN "saveCase" ELSE "recompute")
    /\ UNCHANGED <<cases, hearings, today, call, target, sent, fact, undisturbed>>

\* recompute-next-hearing.
Recompute(r) ==
    /\ pc[r] = "recompute"
    /\ fact' = [fact EXCEPT ![r] = NextHearing(target[r])]
    /\ Goto(r, "saveCase")
    /\ UNCHANGED <<cases, hearings, today, call, row, target, sent, undisturbed>>

\* persist.  updateStatus writes back the date it loaded.
SaveCase(r) ==
    /\ pc[r] = "saveCase"
    /\ cases' = [cases EXCEPT ![target[r]] =
           IF call[r].op = "lifecycle"
           THEN [row[r] EXCEPT !.lifecycle = call[r].to]
           ELSE [body |-> sent[r], lifecycle |-> row[r].lifecycle, next |-> fact[r]]]
    /\ Goto(r, IF OnHearing(r) THEN AfterRefresh(r) ELSE "done")
    /\ UNCHANGED <<hearings, today, request, undisturbed>>

\* A failing subscriber is contained: the request goes on without it.
LoseEvent(r) ==
    /\ OnHearing(r)
    /\ pc[r] \in {"readCase", "loadCase", "recompute", "saveCase"}
    /\ Goto(r, AfterRefresh(r))
    /\ undisturbed' = [undisturbed EXCEPT ![r] = FALSE]
    /\ UNCHANGED <<cases, hearings, today, request>>

\* The process ends under the request.
Stop(r) ==
    /\ Busy(r)
    /\ Goto(r, "stopped")
    /\ UNCHANGED <<cases, hearings, today, request, undisturbed>>

\* Midnight in the firm's timezone.
NextDay ==
    /\ today < LastDay
    /\ today' = today + 1
    /\ undisturbed' = [r \in Requests |-> FALSE]
    /\ UNCHANGED <<cases, hearings, pc, request>>

RequestStep(r) ==
    \/ Receive(r) \/ Load(r) \/ Refuse(r) \/ WriteHearing(r) \/ BookFollowUp(r)
    \/ ReadCase(r) \/ LoadCase(r) \/ Recompute(r) \/ SaveCase(r)
    \/ LoseEvent(r) \/ Stop(r)

Next == NextDay \/ \E r \in Requests : RequestStep(r)

Spec == Init /\ [][Next]_vars

-----------------------------------------------------------------------------
(* Properties.                                                             *)

\* Every variable has its type.
TypeOK ==
    /\ cases \in [Cases -> CaseRow]
    /\ hearings \in [Ids -> HearingRow \cup {None}]
    /\ today \in Days
    /\ pc \in [Requests -> Stages]
    /\ call \in [Requests -> Call \cup {None}]
    /\ row \in [Requests -> CaseRow \cup HearingRow \cup {None}]
    /\ target \in [Requests -> Cases \cup {None}]
    /\ sent \in [Requests -> Bodies \cup {None}]
    /\ fact \in [Requests -> Days \cup {None}]
    /\ undisturbed \in [Requests -> BOOLEAN]

Finishes(r) == pc[r] # "done" /\ pc'[r] = "done"
LosesFollowUp(r) == pc[r] = "followUp" /\ pc'[r] \in {"refused", "stopped"}

\* What the stored date is meant to be: the first appearance still to come.
StoresNextHearing(c) ==
    LET ahead == {h \in Ids : /\ hearings[h] # None /\ hearings[h].case = c
                              /\ hearings[h].outcome = None
                              /\ hearings[h].date >= today}
    IN  /\ ahead = {} => cases[c].next = None
        /\ ahead # {} => \E h \in ahead :
               /\ cases[c].next = hearings[h].date
               /\ \A g \in ahead : hearings[h].date <= hearings[g].date

\* "The next write recomputes from source": whatever races, lost events and
\* midnights left behind, a case update or a hearing write that runs
\* undisturbed leaves its case with the date the Hearings table says.  So does
\* a recording whose follow-up is refused or cut off: if its refresh ran, the
\* case names no date that nobody is listed for.
NextWriteHeals ==
    [][\A r \in Requests :
          undisturbed'[r] /\ (Finishes(r) \/ LosesFollowUp(r))
            /\ call[r].op # "lifecycle"
          => StoresNextHearing(target[r])']_vars

\* A completed appearance is frozen: no request that ran undisturbed alters
\* the case, the date or the outcome of a hearing whose outcome was recorded.
FrozenUnlessRaced ==
    [][\A r \in Requests, h \in Ids :
          undisturbed[r] /\ RequestStep(r) /\ hearings[h] # None
            /\ hearings[h].outcome # None
          => hearings'[h] = hearings[h]]_vars
=============================================================================
