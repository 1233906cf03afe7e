----------------------------- MODULE AuthzTuples -----------------------------
(***************************************************************************)
(* The authorization engine's relationship tuples as a projection of the   *)
(* firm's rows (apps/law/backend/src/domain/authz): FirmMember, Case and   *)
(* CaseMember writes sync the tuples of their row in the same request; the *)
(* reconcile loop of every replica reads all rows and all tuples and       *)
(* writes the difference.  Rows and tuples live in two stores with no      *)
(* transaction between them.                                               *)
(*                                                                         *)
(* A FirmMember, Case or CaseMember created by write w has the id w.  What *)
(* may refuse a write before it persists (policy, lockout guards, reference*)
(* checks) is one nondeterministic Refuse: a refused write changes nothing *)
(* here.                                                                   *)
(***************************************************************************)
EXTENDS Naturals

CONSTANTS
    Writers,           \* writes, each sent once
    Replicas,          \* processes that run the reconcile loop
    Members, Cases, Periods,   \* ids of rows that may exist at boot
    Users, Roles,
    MaxFailures,       \* bound on failed engine or store calls
    None

ASSUME MaxFailuresAssumption == MaxFailures \in Nat

VARIABLES
    rows,      \* the three tables: id -> row or None
    tuples,    \* what the engine holds
    pc,        \* where each write and each replica is
    call,      \* what each write asks for: the id, and the row it sends
    held,      \* ctx.existing: the row a write has loaded
    delta,     \* what a write's sync is about to write and delete
    snap,      \* what a reconcile has read of each kind so far
    seen,      \* the kinds it has read
    plan,      \* the difference it is about to write
    failures,  \* failed calls so far
    missed,    \* history: a persisted row whose sync never completed
    lone       \* history: nobody else has run since this one began

vars == <<rows, tuples, pc, call, held, delta, snap, seen, plan, failures, missed, lone>>

Ids == Members \cup Cases \cup Periods \cup Writers
Kinds == {"member", "case", "period"}

MemberRow == [kind : {"member"}, user : Users, role : Roles, active : BOOLEAN]
CaseRow   == [kind : {"case"}, lead : Members]
PeriodRow == [kind : {"period"}, case : Cases, member : Members, active : BOOLEAN]
Row == MemberRow \cup CaseRow \cup PeriodRow

\* Ids are ULIDs: no two tables, and no table and process, share one.  The
\* object of the roles is none of them, and None is no row.
ASSUME IdsAssumption ==
    /\ Members \cap Cases = {} /\ Members \cap Periods = {} /\ Cases \cap Periods = {}
    /\ Writers \cap (Members \cup Cases \cup Periods \cup Replicas) = {}
    /\ "firm" \notin Cases \cup Writers
    /\ None \notin Row

Tuple ==
    [user : Users, relation : Roles, object : {"firm"}]
      \cup [user : {"firm"}, relation : {"firm"}, object : Cases \cup Writers]
      \cup [user : Users, relation : {"lead", "member"}, object : Cases \cup Writers]

Stages == {"idle", "load", "guard", "persist", "former", "next", "sync",
           "refused", "done", "stopped", "read", "engine", "apply"}

-----------------------------------------------------------------------------
(* The projection (tuples.ts).                                             *)

\* Mutant: the role tuple hangs off the member instead of the firm.
RoleTupleOnUser(row) ==
    [user |-> row.user, relation |-> row.role, object |-> row.user]
RoleTuple(row) == [user |-> row.user, relation |-> row.role, object |-> "firm"]

FirmTuple(c) == [user |-> "firm", relation |-> "firm", object |-> c]

\* A role needs an active member.
RoleTuples(row) == IF row # None /\ row.active THEN {RoleTuple(row)} ELSE {}

\* A reference to a FirmMember, joined to its user in the given table.
PersonTuple(table, m, relation, c) ==
    IF table[m] = None
    THEN {}
    ELSE {[user |-> table[m].user, relation |-> relation, object |-> c]}

\* The tuples of one row.  Only a role depends on a member being active: lead
\* and membership tuples survive a deactivation.
RowTuples(table, i, row) ==
    IF row = None THEN {} ELSE
    CASE row.kind = "member" -> RoleTuples(row)
      [] row.kind = "case"   -> {FirmTuple(i)} \cup PersonTuple(table, row.lead, "lead", i)
      [] row.kind = "period" -> IF row.active
                                THEN PersonTuple(table, row.member, "member", row.case)
                                ELSE {}

Projection(table) == UNION {RowTuples(table, i, table[i]) : i \in Ids}

InStep == tuples = Projection(rows)

Delta == [writes : SUBSET Tuple, deletes : SUBSET Tuple]
NoDelta == [writes |-> {}, deletes |-> {}]

\* Mutant: a reconcile that only adds what is missing.
AdditiveDifference(desired, actual) ==
    [writes |-> desired \ actual, deletes |-> {}]

Difference(desired, actual) ==
    [writes |-> desired \ actual, deletes |-> actual \ desired]

Apply(d) == tuples' = (tuples \cup d.writes) \ d.deletes

\* The engine's write is not transactional: a failing one settles any part.
ApplyPart(d) ==
    \E w \in SUBSET d.writes, x \in SUBSET d.deletes :
        tuples' = (tuples \cup w) \ x

-----------------------------------------------------------------------------
Goto(p, stage) == pc' = [pc EXCEPT ![p] = stage]

Busy(p) == pc[p] \notin {"idle", "refused", "done", "stopped"}

\* The history of who ran undisturbed: p begins, and everyone else who is
\* under way no longer has the store and the engine to himself.
Begin(p) ==
    lone' = [q \in Writers \cup Replicas |->
                q = p /\ \A o \in (Writers \cup Replicas) \ {p} : ~ Busy(o)]

\* Active natural keys: one FirmMember per user, one live period per pair.
Collides(row, other) ==
    \/ row.kind = "member" /\ other.kind = "member" /\ row.user = other.user
    \/ /\ row.kind = "period" /\ other.kind = "period"
       /\ row.active /\ other.active
       /\ row.case = other.case /\ row.member = other.member

KeyTaken(row, i) ==
    \E j \in Ids \ {i} : rows[j] # None /\ Collides(row, rows[j])

\* A create sends a row for its own id; an update sends the complete desired
\* row; CaseMember.remove sends only the id.
Calls(w) ==
    [id : {w}, row : {row \in Row : row.kind = "period" => row.active}]
      \cup [id : (Members \cup Cases \cup Writers) \ {w}, row : MemberRow \cup CaseRow]
      \cup [id : (Periods \cup Writers) \ {w}, row : {None}]

\* Full-row replacement; a removal closes the period that was loaded.
NextRow(w) ==
    IF call[w].row = None THEN [held[w] EXCEPT !.active = FALSE] ELSE call[w].row

\* Boot: the rows that exist, with the engine reconciled before any listener.
Init ==
    /\ \E user \in [Members -> Users], role \in [Members -> Roles],
          active \in [Members -> BOOLEAN], lead \in [Cases -> Members], member \in [Periods -> Members],
          case \in [Periods -> Cases] :
          /\ \A m, n \in Members : user[m] = user[n] => m = n
          /\ \A p, q \in Periods : case[p] = case[q] /\ member[p] = member[q] => p = q
          /\ rows = [i \in Ids |->
                CASE i \in Members -> [kind |-> "member", user |-> user[i],
                                       role |-> role[i], active |-> active[i]]
                  [] i \in Cases   -> [kind |-> "case", lead |-> lead[i]]
                  [] i \in Periods -> [kind |-> "period", case |-> case[i],
                                       member |-> member[i], active |-> TRUE]
                  [] i \in Writers -> None]
    /\ tuples = Projection(rows)
    /\ pc = [p \in Writers \cup Replicas |-> "idle"]
    /\ call = [w \in Writers |-> None]
    /\ held = [w \in Writers |-> None]
    /\ delta = [w \in Writers |-> NoDelta]
    /\ snap = [k \in Replicas |-> [i \in Ids |-> None]]
    /\ seen = [k \in Replicas |-> {}]
    /\ plan = [k \in Replicas |-> NoDelta]
    /\ failures = 0
    /\ missed = FALSE
    /\ lone = [p \in Writers \cup Replicas |-> FALSE]

-----------------------------------------------------------------------------
(* The deltas of one write (firmMemberTupleDelta, caseTupleDelta,           *)
(* caseMemberTupleDelta): a program of their own, beside the projection.    *)

\* A member's role tuple, where it differs.
MemberDelta(w) ==
    LET before == RoleTuples(held[w])
        after  == RoleTuples(NextRow(w))
    IN  IF before = after THEN NoDelta ELSE [writes |-> after, deletes |-> before]

\* What a write knows of its delta before it resolves anybody: the roles of a
\* member, the firm link of a new case.
FirstDelta(w) ==
    CASE NextRow(w).kind = "member" -> MemberDelta(w)
      [] NextRow(w).kind = "case" /\ held[w] = None ->
            [writes |-> {FirmTuple(call[w].id)}, deletes |-> {}]
      [] OTHER -> NoDelta

WasActive(w) == held[w] # None /\ held[w].active

\* Whom it reads next: the lead of before and the lead of now, of a case that
\* changed its lead; the person of a period that opened or closed.
FirstRead(w) ==
    LET row == NextRow(w) IN
    CASE row.kind = "case" /\ held[w] = None -> "next"
      [] row.kind = "case" /\ held[w] # None /\ held[w].lead # row.lead -> "former"
      [] row.kind = "period" /\ row.active # WasActive(w) -> "next"
      [] OTHER -> "sync"

-----------------------------------------------------------------------------
(* Writes.                                                                 *)

Receive(w) ==
    /\ pc[w] = "idle"
    /\ \E c \in Calls(w) :
          /\ call' = [call EXCEPT ![w] = c]
          /\ Goto(w, IF c.id = w THEN "persist" ELSE "load")
    /\ Begin(w)
    /\ UNCHANGED <<rows, tuples, held, delta, snap, seen, plan, failures, missed>>

\* load-existing; a removal needs a period that is still open.
Load(w) ==
    /\ pc[w] = "load"
    /\ LET row == rows[call[w].id]
           fits == /\ row # None
                   /\ row.kind = IF call[w].row = None THEN "period"
                                                       ELSE call[w].row.kind
                   /\ call[w].row = None => row.active
       IN  IF fits
           THEN /\ held' = [held EXCEPT ![w] = row]
                /\ Goto(w, IF call[w].row = None THEN "guard" ELSE "persist")
           ELSE Goto(w, "refused") /\ UNCHANGED held
    /\ UNCHANGED <<rows, tuples, call, delta, snap, seen, plan, failures, missed, lone>>

\* remove reads the case: its lead's membership is load-bearing.
CheckLead(w) ==
    /\ pc[w] = "guard"
    /\ Goto(w, IF rows[held[w].case].lead = held[w].member THEN "refused"
                                                         ELSE "persist")
    /\ UNCHANGED <<rows, tuples, call, held, delta, snap, seen, plan, failures, missed, lone>>

\* Policy, lockout guards and reference checks, before anything is written.
Refuse(w) ==
    /\ pc[w] = "persist"
    /\ Goto(w, "refused")
    /\ UNCHANGED <<rows, tuples, call, held, delta, snap, seen, plan, failures, missed, lone>>

Persist(w) ==
    /\ pc[w] = "persist"
    /\ IF KeyTaken(NextRow(w), call[w].id)
       THEN Goto(w, "refused") /\ UNCHANGED <<rows, delta>>
       ELSE /\ rows' = [rows EXCEPT ![call[w].id] = NextRow(w)]
            /\ delta' = [delta EXCEPT ![w] = FirstDelta(w)]
            /\ Goto(w, FirstRead(w))
    /\ UNCHANGED <<tuples, call, held, snap, seen, plan, failures, missed, lone>>

\* Mutant: the former lead keeps the tuple.
ForgetFormer(w) ==
    /\ pc[w] = "former"
    /\ Goto(w, "next")
    /\ UNCHANGED <<rows, tuples, call, held, delta, snap, seen, plan, failures, missed, lone>>

\* resolveMemberUserId of the lead the case had.
ResolveFormer(w) ==
    /\ pc[w] = "former"
    /\ delta' = [delta EXCEPT ![w].deletes =
                    PersonTuple(rows, held[w].lead, "lead", call[w].id)]
    /\ Goto(w, "next")
    /\ UNCHANGED <<rows, tuples, call, held, snap, seen, plan, failures, missed, lone>>

\* resolveMemberUserId of the lead the case has now, or of the period's member.
ResolveNext(w) ==
    /\ pc[w] = "next"
    /\ LET row == NextRow(w)
           added == IF row.kind = "case"
                    THEN PersonTuple(rows, row.lead, "lead", call[w].id)
                    ELSE PersonTuple(rows, row.member, "member", row.case)
       IN  delta' = IF row.kind = "period" /\ ~ row.active
                    THEN [delta EXCEPT ![w].deletes = added]
                    ELSE [delta EXCEPT ![w].writes = @ \cup added]
    /\ Goto(w, "sync")
    /\ UNCHANGED <<rows, tuples, call, held, snap, seen, plan, failures, missed, lone>>

\* applyTupleDeltaSafely: the row already stands.
Sync(w) ==
    /\ pc[w] = "sync"
    /\ Apply(delta[w])
    /\ delta' = [delta EXCEPT ![w] = NoDelta]
    /\ Goto(w, "done")
    /\ UNCHANGED <<rows, call, held, snap, seen, plan, failures, missed, lone>>

\* A saved row whose tuples still have to reach the engine.
Owes(w) == pc[w] \in {"former", "next"} \/ (pc[w] = "sync" /\ delta[w] # NoDelta)

\* A failed read of a person or write to the engine is contained: the request
\* succeeds.
SyncFails(w) ==
    /\ Owes(w)
    /\ failures < MaxFailures
    /\ failures' = failures + 1
    /\ IF pc[w] = "sync" THEN ApplyPart(delta[w]) ELSE UNCHANGED tuples
    /\ missed' = TRUE
    /\ delta' = [delta EXCEPT ![w] = NoDelta]
    /\ Goto(w, "done")
    /\ UNCHANGED <<rows, call, held, snap, seen, plan, lone>>

\* The process ends under the request.
Stop(w) ==
    /\ w \in Writers /\ Busy(w)
    /\ missed' = (missed \/ Owes(w))
    /\ delta' = [delta EXCEPT ![w] = NoDelta]
    /\ Goto(w, "stopped")
    /\ UNCHANGED <<rows, tuples, call, held, snap, seen, plan, failures, lone>>

-----------------------------------------------------------------------------
(* The reconcile loop: the next tick starts from nothing.                  *)

Tick(k) ==
    /\ pc[k] = "idle"
    /\ Goto(k, "read")
    /\ snap' = [snap EXCEPT ![k] = [i \in Ids |-> None]]
    /\ seen' = [seen EXCEPT ![k] = {}]
    /\ Begin(k)
    /\ UNCHANGED <<rows, tuples, call, held, delta, plan, failures, missed>>

\* projectAuthorizationTuples lists the three kinds concurrently.
ReadKind(k, kind) ==
    /\ pc[k] = "read"
    /\ kind \notin seen[k]
    /\ snap' = [snap EXCEPT ![k] =
           [i \in Ids |-> IF rows[i] # None /\ rows[i].kind = kind
                          THEN rows[i] ELSE @[i]]]
    /\ seen' = [seen EXCEPT ![k] = @ \cup {kind}]
    /\ Goto(k, IF seen'[k] = Kinds THEN "engine" ELSE "read")
    /\ UNCHANGED <<rows, tuples, call, held, delta, plan, failures, missed, lone>>

\* engine.readAll, after the rows.
ReadEngine(k) ==
    /\ pc[k] = "engine"
    /\ plan' = [plan EXCEPT ![k] = Difference(Projection(snap[k]), tuples)]
    /\ snap' = [snap EXCEPT ![k] = [i \in Ids |-> None]]
    /\ Goto(k, "apply")
    /\ UNCHANGED <<rows, tuples, call, held, delta, seen, failures, missed, lone>>

WriteDifference(k) ==
    /\ pc[k] = "apply"
    /\ Apply(plan[k])
    /\ plan' = [plan EXCEPT ![k] = NoDelta]
    /\ Goto(k, "idle")
    /\ UNCHANGED <<rows, call, held, delta, snap, seen, failures, missed, lone>>

\* A failed list, read or write ends this run; the next tick retries.
ReconcileFails(k) ==
    /\ pc[k] \in {"read", "engine", "apply"}
    /\ failures < MaxFailures
    /\ failures' = failures + 1
    /\ IF pc[k] = "apply" THEN ApplyPart(plan[k]) ELSE UNCHANGED tuples
    /\ plan' = [plan EXCEPT ![k] = NoDelta]
    /\ Goto(k, "idle")
    /\ UNCHANGED <<rows, call, held, delta, snap, seen, missed, lone>>

WriterStep(w) ==
    \/ Load(w) \/ CheckLead(w) \/ Refuse(w) \/ Persist(w)
    \/ ResolveFormer(w) \/ ResolveNext(w) \/ Sync(w)

ReplicaStep(k) ==
    \/ Tick(k) \/ ReadEngine(k) \/ WriteDifference(k)
    \/ \E kind \in Kinds : ReadKind(k, kind)

Next ==
    \/ \E w \in Writers : Receive(w) \/ WriterStep(w) \/ SyncFails(w) \/ Stop(w)
    \/ \E k \in Replicas : ReplicaStep(k) \/ ReconcileFails(k)

Spec == Init /\ [][Next]_vars

\* The event loop runs what it has accepted; the interval timer keeps firing.
Fairness ==
    /\ \A w \in Writers : WF_vars(WriterStep(w))
    /\ \A k \in Replicas : WF_vars(ReplicaStep(k))

FairSpec == Spec /\ Fairness

-----------------------------------------------------------------------------
(* Properties.                                                             *)

\* Every variable has its type.
TypeOK ==
    /\ rows \in [Ids -> Row \cup {None}]
    /\ tuples \subseteq Tuple
    /\ pc \in [Writers \cup Replicas -> Stages]
    /\ DOMAIN call = Writers
    /\ \A w \in Writers : call[w] = None \/ call[w] \in Calls(w)
    /\ held \in [Writers -> Row \cup {None}]
    /\ delta \in [Writers -> Delta]
    /\ snap \in [Replicas -> [Ids -> Row \cup {None}]]
    /\ seen \in [Replicas -> SUBSET Kinds]
    /\ plan \in [Replicas -> Delta]
    /\ failures \in 0..MaxFailures
    /\ missed \in BOOLEAN
    /\ lone \in [Writers \cup Replicas -> BOOLEAN]

\* A reconcile that nobody disturbed leaves the engine equal to the projection
\* of the rows, whatever drift it found: missing grants appear, stale go.
ReconcileHeals ==
    [][\A k \in Replicas : lone[k] /\ WriteDifference(k) => InStep']_vars

\* A FirmMember update may name another user; the delta of that row does not
\* reach the lead and membership tuples of the person.
MovesUser(w) ==
    /\ held[w] # None
    /\ held[w].kind = "member"
    /\ held[w].user # NextRow(w).user

\* Write w runs alone and finds the engine in step with the rows of before.
FindsInStep(w) ==
    lone[w] /\ tuples = Projection([rows EXCEPT ![call[w].id] = held[w]])

\* The incremental path agrees with the full projection: the sync of a write
\* that finds the engine in step and keeps its member's user (a role, an
\* activation, a new case, a change of lead, a period opened or closed) leaves
\* nothing for the next reconcile to do.
SyncKeepsInStep ==
    [][\A w \in Writers :
          Sync(w) /\ FindsInStep(w) /\ ~ MovesUser(w) => InStep']_vars

\* Once the writes stop, the engine comes to equal the projection and stays.
EngineConverges == <>[]InStep

\* reconcile-loop.ts: "same-request sync can miss exactly one way (a contained
\* engine failure or a crash between persist and the sync step)".
OnlyMissedSyncsDrift ==
    (\A p \in Writers \cup Replicas : ~ Busy(p)) /\ ~ missed => InStep
=============================================================================
