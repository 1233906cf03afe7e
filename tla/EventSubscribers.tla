--------------------------- MODULE EventSubscribers ---------------------------
(***************************************************************************)
(* What hangs off a record's events: the assignment notices of a Task      *)
(* (notification/task-assignment-handler.ts) and the audit lines of a      *)
(* Deadline (audit/audit-subscriber.ts).  Concurrent requests write one    *)
(* record; each, after its save, hands its event to the kind's subscriber, *)
(* which writes a row of its own under a dedup key that names the record's *)
(* version.                                                                *)
(*                                                                         *)
(* Of a record only the person in charge (assignee_id, owner_id), the      *)
(* state and the version are kept.  Users and their FirmMembers are one to *)
(* one, so a member stands for both.                                       *)
(***************************************************************************)
EXTENDS Naturals, FiniteSets

CONSTANTS
    Requests,   \* writes of the record, each sent once
    Members,    \* firm members: actors, assignees, owners
    None        \* no row, nobody, no request

VARIABLES
    kind,      \* the record's kind, which no step changes
    row,       \* the record as stored
    active,    \* FirmMember.spec.active
    notices,   \* Notification rows by dedup key: the request they tell of
    lines,     \* AuditEntry rows by dedup key
    pc, call,  \* each request: where it is, what it asks
    held,      \* event.previous: the row a request loaded
    saved,     \* history: requests whose write stands
    replaced,  \* history: the row each save wrote over
    lost,      \* history: requests whose event a fault kept from its subscriber
    benched    \* history: members who have been inactive

vars == <<kind, row, active, notices, lines, pc, call, held, saved, replaced,
          lost, benched>>

Record == [person : Members \cup {None}, state : {"open", "done"},
           version : 1..Cardinality(Requests)]

\* task_assignment:{task}:{assignee}:v{version}
NoticeKey == [to : Members, version : 1..Cardinality(Requests)]

Change == [field : {"person", "state"},
           old : Members \cup {None, "open", "done"},
           new : Members \cup {None, "open", "done"}]
Line == [type : {"CREATED", "UPDATED"}, actor : Members, changes : SUBSET Change]

ASSUME ConstantsAssumption ==
    /\ IsFiniteSet(Requests)
    /\ None \notin Requests \cup Members \cup Record
    /\ None \notin Line

Calls == [op : {"create", "update"}, actor : Members, person : Members \cup {None}]
           \cup [op : {"updateStatus"}, actor : Members, state : {"open", "done"}]

Stages == {"idle", "load", "save", "lookup", "notify", "audit", "done",
           "refused", "stopped"}

-----------------------------------------------------------------------------
Goto(r, stage) == pc' = [pc EXCEPT ![r] = stage]

\* Create; update (the whole spec over the loaded status); updateStatus (the
\* loaded row with another state).  Versions count from the row loaded.
NextRow(r) ==
    CASE call[r].op = "create" ->
           [person |-> call[r].person, state |-> "open", version |-> 1]
      [] call[r].op = "update" ->
           [person |-> call[r].person, state |-> held[r].state,
            version |-> held[r].version + 1]
      [] call[r].op = "updateStatus" ->
           [held[r] EXCEPT !.state = call[r].state, !.version = @ + 1]

\* The event names somebody the previous row did not.
NamesNewPerson(r) ==
    /\ NextRow(r).person # None
    /\ held[r] = None \/ held[r].person # NextRow(r).person

\* Mutant: a dedup key without the version.
UnversionedKey(r) == [to |-> NextRow(r).person, version |-> 1]

KeyOf(r) == [to |-> NextRow(r).person, version |-> NextRow(r).version]

\* Mutant: the state is bookkeeping.
SpecChanges(r) ==
    {c \in Change :
        /\ held[r] # None /\ c.field = "person"
        /\ c.old = held[r].person /\ c.new = NextRow(r).person /\ c.old # c.new}

\* diffFlat over the spec and the audited status fields; a creation has none.
Changes(r) ==
    {c \in Change :
        /\ held[r] # None
        /\ c.old = held[r][c.field] /\ c.new = NextRow(r)[c.field]
        /\ c.old # c.new}

LineOf(r) ==
    [type    |-> IF held[r] = None THEN "CREATED" ELSE "UPDATED",
     actor   |-> call[r].actor,
     changes |-> Changes(r)]

HistoryWorthy(r) == held[r] = None \/ Changes(r) # {}

\* Mutant: status updates have no history.
SkipStatus(r) ==
    CASE kind = "Task" /\ NamesNewPerson(r)    -> "lookup"
      [] kind = "Deadline" /\ call[r].op # "updateStatus" /\ HistoryWorthy(r) -> "audit"
      [] OTHER                                 -> "done"

\* The subscriber of the kind, and whether it has anything to do.
Subscriber(r) ==
    CASE kind = "Task" /\ NamesNewPerson(r)    -> "lookup"
      [] kind = "Deadline" /\ HistoryWorthy(r) -> "audit"
      [] OTHER                                 -> "done"

Init ==
    /\ kind \in {"Task", "Deadline"}
    /\ row = None
    /\ active \in SUBSET Members
    /\ notices = [k \in NoticeKey |-> None]
    /\ lines = [v \in 1..Cardinality(Requests) |-> None]
    /\ pc = [r \in Requests |-> "idle"]
    /\ call = [r \in Requests |-> None]
    /\ held = [r \in Requests |-> None]
    /\ saved = {}
    /\ replaced = [r \in Requests |-> None]
    /\ lost = {}
    /\ benched = Members \ active

\* Only one request creates this record: every other create mints another id.
Receive(r) ==
    /\ pc[r] = "idle"
    /\ \E c \in Calls :
          /\ c.op = "create" => \A q \in Requests : call[q] # None => call[q].op # "create"
          /\ call' = [call EXCEPT ![r] = c]
          /\ Goto(r, IF c.op = "create" THEN "save" ELSE "load")
    /\ UNCHANGED <<kind, row, active, notices, lines, held, saved, replaced, lost, benched>>

Load(r) ==
    /\ pc[r] = "load"
    /\ held' = [held EXCEPT ![r] = row]
    /\ Goto(r, IF row = None THEN "refused" ELSE "save")
    /\ UNCHANGED <<kind, row, active, notices, lines, call, saved, replaced, lost, benched>>

\* Policy and reference checks, before anything is written.
Refuse(r) ==
    /\ pc[r] = "save"
    /\ Goto(r, "refused")
    /\ UNCHANGED <<kind, row, active, notices, lines, call, held, saved, replaced, lost, benched>>

\* store.insert or store.save, which compares nothing with the row it writes over.
Save(r) ==
    /\ pc[r] = "save"
    /\ row' = NextRow(r)
    /\ saved' = saved \cup {r}
    /\ replaced' = [replaced EXCEPT ![r] = row]
    /\ Goto(r, Subscriber(r))
    /\ UNCHANGED <<kind, active, notices, lines, call, held, lost, benched>>

\* The assignee's FirmMember, as it is now: nobody notifies the inactive, or
\* people of what they did themselves.
Lookup(r) ==
    /\ pc[r] = "lookup"
    /\ Goto(r, IF NextRow(r).person \in active \ {call[r].actor} THEN "notify" ELSE "done")
    /\ UNCHANGED <<kind, row, active, notices, lines, call, held, saved, replaced, lost, benched>>

\* ALREADY_EXISTS is taken for success.
Notify(r) ==
    /\ pc[r] = "notify"
    /\ notices' = [notices EXCEPT ![KeyOf(r)] = IF @ = None THEN r ELSE @]
    /\ Goto(r, "done")
    /\ UNCHANGED <<kind, row, active, lines, call, held, saved, replaced, lost, benched>>

\* The entry's key is idempotent: the same line converges, another is refused
\* and the refusal contained.  Either way the line that is there stays.
WriteLine(r) ==
    /\ pc[r] = "audit"
    /\ lines' = [lines EXCEPT ![NextRow(r).version] = IF @ = None THEN LineOf(r) ELSE @]
    /\ Goto(r, "done")
    /\ UNCHANGED <<kind, row, active, notices, call, held, saved, replaced, lost, benched>>

\* A store failure inside the handler: contained, the write stands.
HandlerFails(r) ==
    /\ pc[r] \in {"lookup", "notify", "audit"}
    /\ lost' = lost \cup {r}
    /\ Goto(r, "done")
    /\ UNCHANGED <<kind, row, active, notices, lines, call, held, saved, replaced, benched>>

\* The process ends between two awaits.
Stop(r) ==
    /\ pc[r] \notin {"idle", "done", "refused", "stopped"}
    /\ lost' = lost \cup {r}
    /\ Goto(r, "stopped")
    /\ UNCHANGED <<kind, row, active, notices, lines, call, held, saved, replaced, benched>>

\* A partner deactivates a member or takes one back.
SwitchMember(m) ==
    /\ active' = IF m \in active THEN active \ {m} ELSE active \cup {m}
    /\ benched' = benched \cup {m}
    /\ UNCHANGED <<kind, row, notices, lines, pc, call, held, saved, replaced, lost>>

Next ==
    \/ \E r \in Requests :
          \/ Receive(r) \/ Load(r) \/ Refuse(r) \/ Save(r) \/ Lookup(r)
          \/ Notify(r) \/ WriteLine(r) \/ HandlerFails(r) \/ Stop(r)
    \/ \E m \in Members : SwitchMember(m)

Spec == Init /\ [][Next]_vars

-----------------------------------------------------------------------------
(* Properties.                                                             *)

\* Every variable has its type.
TypeOK ==
    /\ kind \in {"Task", "Deadline"}
    /\ row \in Record \cup {None}
    /\ active \in SUBSET Members
    /\ notices \in [NoticeKey -> Requests \cup {None}]
    /\ lines \in [1..Cardinality(Requests) -> Line \cup {None}]
    /\ pc \in [Requests -> Stages]
    /\ call \in [Requests -> Calls \cup {None}]
    /\ held \in [Requests -> Record \cup {None}]
    /\ saved \in SUBSET Requests
    /\ replaced \in [Requests -> Record \cup {None}]
    /\ lost \in SUBSET Requests
    /\ benched \in SUBSET Members

\* The event of a write reached its subscriber and was dealt with.
Heard(r) == r \in saved \ lost /\ pc[r] = "done"

\* Two writes that loaded before either saved may store one version twice.
SameVersion(r, q) == q \in saved /\ q # r /\ NextRow(q).version = NextRow(r).version

\* Whoever is put in charge of a task by somebody else is told of that very
\* assignment, unless inactive meanwhile: only another write of the same
\* version, which names the same person, can have taken its key.
AssignmentsAreTold ==
    \A r \in Requests :
        /\ kind = "Task" /\ Heard(r) /\ NamesNewPerson(r)
        /\ NextRow(r).person \notin benched \cup {call[r].actor}
        => \E q \in Requests :
              /\ notices[KeyOf(r)] = q
              /\ q = r \/ (SameVersion(r, q) /\ NextRow(q).person = NextRow(r).person)

\* Every change of an audited record has its line of history: only another
\* write of the same version can have taken its place.
ChangesHaveTheirLine ==
    \A r \in Requests :
        /\ kind = "Deadline" /\ Heard(r)
        /\ held[r] # None => NextRow(r) # [held[r] EXCEPT !.version = @ + 1]
        => \/ lines[NextRow(r).version] = LineOf(r)
           \/ \E q \in Requests : SameVersion(r, q) /\ lines[NextRow(r).version] = LineOf(q)

\* What the lines up to version v say a field holds, if it began as first.
Replay(field, first, v) ==
    LET told == {w \in 2..v : /\ lines[w] # None
                              /\ \E c \in lines[w].changes : c.field = field}
    IN  IF told = {}
        THEN first
        ELSE LET last == CHOOSE w \in told : \A x \in told : x <= w
             IN  (CHOOSE c \in lines[last].changes : c.field = field).new

Raced == \E r \in saved : replaced[r] # held[r]

\* The audit history is complete: replayed over the record as it was created,
\* it gives the record as it is stored, unless a save wrote over a row it had
\* not loaded or a fault lost an event.
HistoryReplays ==
    /\ kind = "Deadline" /\ row # None
    /\ ~ Raced /\ lost = {}
    /\ \A r \in Requests : pc[r] # "audit"
    => \A r \in saved :
          held[r] = None =>
              /\ row.person = Replay("person", NextRow(r).person, row.version)
              /\ row.state = Replay("state", NextRow(r).state, row.version)
=============================================================================
