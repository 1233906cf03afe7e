-------------------------- MODULE ResourcePipeline --------------------------
(***************************************************************************)
(* The operation pipelines of one resource kind (packages/resource-api):   *)
(* create, update and custom mutations as the concurrent requests of any   *)
(* number of server processes over one table.                              *)
(*                                                                         *)
(* Every `await` on the store, the policy or the publisher is a point      *)
(* where other requests run, so a pipeline is cut into one action per      *)
(* awaited step; the synchronous steps between two awaits (build-new-state,*)
(* resolve-duplicate) belong to the action of the await that follows.      *)
(*                                                                         *)
(* A request that creates a row mints that row's id, and ids are never     *)
(* reused (ULIDs), so the id minted by request r is named r.               *)
(***************************************************************************)
EXTENDS Naturals

CONSTANTS
    Requests,    \* the requests of a behaviour, each sent once
    Callers,     \* principals
    Keys,        \* natural-key values
    Bodies,      \* everything else in a spec
    Statuses,    \* what the kind's custom operations write into status
    NoKey, NoStatus, None,
    Operations,  \* the operations the kind declares
    Permitted    \* <<caller, operation>> pairs the kind's policy allows

ASSUME ConstantsAssumption ==
    /\ Operations \subseteq {"create", "update", "custom"}
    /\ Permitted \subseteq Callers \X Operations
    /\ NoKey \notin Keys

ASSUME NoneAssumption ==
    /\ None \notin Requests
    /\ None \notin [id : Requests,
                    spec : [key : Keys \cup {NoKey}, body : Bodies],
                    status : Statuses \cup {NoStatus},
                    version : Nat, createdBy : Callers]

VARIABLES
    idempotent, \* naturalKey.duplicate = "idempotent" (else "refuse"): the
                \* kind's definition, which no step changes
    rows,     \* the table of the kind
    pc,       \* where each request is
    call,     \* what each request asks for
    held,     \* ctx.existing or ctx.holder: the row a request has read
    answer,   \* what each request was answered
    events,   \* the events handed to the kind's subscribers
    replaced, \* history: the row each request's save wrote over
    dropped   \* history: requests whose event a fault kept from everybody

history == <<replaced, dropped>>
vars == <<idempotent, rows, pc, call, held, answer, events, replaced, dropped>>

Table == INSTANCE ResourceTable WITH Ids <- Requests

Content  == Table!Content
Row      == Table!Row
Stored   == Table!Stored
\* Mutant: the table without its natural-key constraint.
NoKeyConstraint(key, id) == FALSE

KeyTaken(key, id) == Table!KeyTaken(key, id)

CreateCall == [op : {"create"}, caller : Callers, spec : Content]
\* requireRef: an update names its row by id, or by the natural key it carries.
UpdateCall == {c \in [op : {"update"}, caller : Callers, spec : Content,
                      id : Requests \cup {None}] :
                  c.id # None \/ c.spec.key # NoKey}
CustomCall == [op : {"custom"}, caller : Callers, id : Requests,
               status : Statuses]

Calls == {c \in CreateCall \cup UpdateCall \cup CustomCall :
             c.op \in Operations}

Stages == {"idle", "load", "authorize", "check", "persist", "reread",
           "announce", "done", "stopped"}

Codes == {"OK", "NOT_FOUND", "REFUSED", "ALREADY_EXISTS", "CONFLICT",
          "INTERNAL"}

Answer == [code : Codes, row : Row \cup {None}]

Event == [type : {"created", "updated"}, resource : Row,
          previous : Row \cup {None}]

-----------------------------------------------------------------------------
(* What the synchronous steps build.                                       *)

\* buildCreateState: fresh id, version 1, the caller's stamp, status cleared.
CreatedRow(r) ==
    [id |-> r, spec |-> call[r].spec, status |-> NoStatus,
     version |-> 1, createdBy |-> call[r].caller]

\* Mutant: an update that clears the status, as a create does.
UpdatedRowUnset(r) ==
    [id |-> held[r].id, spec |-> call[r].spec, status |-> NoStatus,
     version |-> held[r].version + 1, createdBy |-> held[r].createdBy]

\* buildUpdateState: the caller's whole spec over the status, identity and
\* create stamp of the row that was LOADED.
UpdatedRow(r) ==
    [id |-> held[r].id, spec |-> call[r].spec, status |-> held[r].status,
     version |-> held[r].version + 1, createdBy |-> held[r].createdBy]

\* stampCustomMutation: the loaded row with the handler's status change.
StampedRow(r) ==
    [id |-> held[r].id, spec |-> held[r].spec, status |-> call[r].status,
     version |-> held[r].version + 1, createdBy |-> held[r].createdBy]

NewState(r) ==
    CASE call[r].op = "create" -> CreatedRow(r)
      [] call[r].op = "update" -> UpdatedRow(r)
      [] call[r].op = "custom" -> StampedRow(r)

\* getByNaturalKey and loadByRef: at most one row each.
Holders(key) == {i \in Stored : rows[i].spec.key = key}
Referenced(c) == IF c.id # None THEN Stored \cap {c.id}
                                ELSE Holders(c.spec.key)

\* The key check runs for a create with a key, and for an update that
\* changes its row's key to another one.
ChecksKey(r) ==
    /\ call[r].op # "custom"
    /\ call[r].spec.key # NoKey
    /\ call[r].op = "update" => call[r].spec.key # held[r].spec.key

-----------------------------------------------------------------------------
Goto(r, stage) == pc' = [pc EXCEPT ![r] = stage]

Finish(r, code, row) ==
    /\ Goto(r, "done")
    /\ answer' = [answer EXCEPT ![r] = [code |-> code, row |-> row]]

\* deriveAll runs on the answer of every succeeded chain and may itself fail.
Respond(r, row) == Finish(r, "OK", row) \/ Finish(r, "INTERNAL", None)

\* Mutant: the row the create would have written as the answer.
SettleOnNewState(r, holder) ==
    IF holder.spec = call[r].spec THEN Respond(r, CreatedRow(r))
                                  ELSE Finish(r, "CONFLICT", None)

\* settleOnHolder: same spec, same answer; different spec, a conflict.
Settle(r, holder) ==
    IF holder.spec = call[r].spec THEN Respond(r, holder)
                                  ELSE Finish(r, "CONFLICT", None)

Init ==
    /\ idempotent \in BOOLEAN
    /\ Table!TableInit
    /\ pc = [r \in Requests |-> "idle"]
    /\ call = [r \in Requests |-> None]
    /\ held = [r \in Requests |-> None]
    /\ answer = [r \in Requests |-> None]
    /\ events = {}
    /\ replaced = [r \in Requests |-> None]
    /\ dropped = {}

\* validate-input accepted the request.
Receive(r) ==
    /\ pc[r] = "idle"
    /\ \E c \in Calls :
          /\ call' = [call EXCEPT ![r] = c]
          /\ Goto(r, IF c.op = "create" THEN "authorize" ELSE "load")
    /\ UNCHANGED <<rows, held, answer, events>>
    /\ UNCHANGED history

\* load-existing, and CustomContext.load: existence before authorization.
Load(r) ==
    /\ pc[r] = "load"
    /\ \/ /\ Referenced(call[r]) = {}
          /\ Finish(r, "NOT_FOUND", None)
          /\ UNCHANGED held
       \/ \E i \in Referenced(call[r]) :
             /\ held' = [held EXCEPT ![r] = rows[i]]
             /\ Goto(r, "authorize")
             /\ UNCHANGED answer
    /\ UNCHANGED <<rows, call, events>>
    /\ UNCHANGED history

\* Mutant: the natural-key check before the policy's verdict.
AuthorizeAfterKey(r) ==
    /\ pc[r] = "authorize"
    /\ IF ChecksKey(r) \/ <<call[r].caller, call[r].op>> \in Permitted
       THEN /\ Goto(r, IF ChecksKey(r) THEN "check" ELSE "persist")
            /\ UNCHANGED answer
       ELSE Finish(r, "REFUSED", None)
    /\ UNCHANGED <<rows, call, held, events>>
    /\ UNCHANGED history

\* The policy's verdict comes before the lookup of the key a request wants.
Authorize(r) ==
    /\ pc[r] = "authorize"
    /\ IF <<call[r].caller, call[r].op>> \in Permitted
       THEN /\ Goto(r, IF ChecksKey(r) THEN "check" ELSE "persist")
            /\ UNCHANGED answer
       ELSE Finish(r, "REFUSED", None)
    /\ UNCHANGED <<rows, call, held, events>>
    /\ UNCHANGED history

\* check-duplicate of a create: a refuse kind answers at once; an idempotent
\* kind keeps the holder for the verdict on content.
CheckCreate(r) ==
    /\ pc[r] = "check"
    /\ call[r].op = "create"
    /\ \/ /\ Holders(call[r].spec.key) = {}
          /\ Goto(r, "persist")
          /\ UNCHANGED <<held, answer>>
       \/ /\ Holders(call[r].spec.key) # {}
          /\ ~ idempotent
          /\ Finish(r, "ALREADY_EXISTS", None)
          /\ UNCHANGED held
       \/ \E i \in Holders(call[r].spec.key) :
             /\ idempotent
             /\ held' = [held EXCEPT ![r] = rows[i]]
             /\ Goto(r, "persist")
             /\ UNCHANGED answer
    /\ UNCHANGED <<rows, call, events>>
    /\ UNCHANGED history

\* check-duplicate of an update whose key changes: another row may not hold it.
CheckUpdate(r) ==
    /\ pc[r] = "check"
    /\ call[r].op = "update"
    /\ IF Holders(call[r].spec.key) \ {held[r].id} = {}
       THEN Goto(r, "persist") /\ UNCHANGED answer
       ELSE Finish(r, "ALREADY_EXISTS", None)
    /\ UNCHANGED <<rows, call, held, events>>
    /\ UNCHANGED history

\* resolve-duplicate and the skipped persist of a settled create.
ResolveDuplicate(r) ==
    /\ pc[r] = "persist"
    /\ call[r].op = "create"
    /\ held[r] # None
    /\ Settle(r, held[r])
    /\ UNCHANGED <<rows, call, held, events>>
    /\ UNCHANGED history

\* insertNew: a plain INSERT with the constraint as the race backstop.
InsertNew(r) ==
    /\ pc[r] = "persist"
    /\ call[r].op = "create"
    /\ held[r] = None
    /\ \/ /\ ~ KeyTaken(call[r].spec.key, r)
          /\ rows' = [rows EXCEPT ![r] = NewState(r)]
          /\ Goto(r, "announce")
          /\ UNCHANGED answer
       \/ /\ KeyTaken(call[r].spec.key, r)
          /\ idempotent
          /\ Goto(r, "reread")
          /\ UNCHANGED <<rows, answer>>
       \/ /\ KeyTaken(call[r].spec.key, r)
          /\ ~ idempotent
          /\ Finish(r, "ALREADY_EXISTS", None)
          /\ UNCHANGED rows
    /\ UNCHANGED <<call, held, events>>
    /\ UNCHANGED history

\* The idempotent race arm: the same verdict on the row that won, or
\* ALREADY_EXISTS when it has let go of the key meanwhile.
Reread(r) ==
    /\ pc[r] = "reread"
    /\ \/ /\ Holders(call[r].spec.key) = {}
          /\ Finish(r, "ALREADY_EXISTS", None)
       \/ \E i \in Holders(call[r].spec.key) : Settle(r, rows[i])
    /\ UNCHANGED <<rows, call, held, events>>
    /\ UNCHANGED history

\* persist of an update or custom mutation: the upsert replaces the whole row.
Save(r) ==
    /\ pc[r] = "persist"
    /\ call[r].op # "create"
    /\ \/ /\ ~ KeyTaken(NewState(r).spec.key, held[r].id)
          /\ rows' = [rows EXCEPT ![held[r].id] = NewState(r)]
          /\ replaced' = [replaced EXCEPT ![r] = rows[held[r].id]]
          /\ Goto(r, "announce")
          /\ UNCHANGED answer
       \/ /\ KeyTaken(NewState(r).spec.key, held[r].id)
          /\ Finish(r, "ALREADY_EXISTS", None)
          /\ UNCHANGED <<rows, replaced>>
    /\ UNCHANGED <<call, held, events, dropped>>

\* publishSafely: the dispatcher contains every failure, so the event either
\* reaches the subscribers or is lost, and the request succeeds either way.
EventOf(r) ==
    [type |-> IF call[r].op = "create" THEN "created" ELSE "updated",
     resource |-> NewState(r), previous |-> held[r]]

\* Mutant: a custom mutation whose handler forgets to publish.
PublishGeneratedOnly(r) ==
    /\ pc[r] = "announce"
    /\ events' = IF call[r].op = "custom" THEN events
                                         ELSE events \cup {EventOf(r)}
    /\ Respond(r, NewState(r))
    /\ UNCHANGED <<rows, call, held>>
    /\ UNCHANGED history

Publish(r) ==
    /\ pc[r] = "announce"
    /\ \/ events' = events \cup {EventOf(r)} /\ UNCHANGED dropped
       \/ UNCHANGED events /\ dropped' = dropped \cup {r}
    /\ Respond(r, NewState(r))
    /\ UNCHANGED <<rows, call, held, replaced>>

\* An afterPersist step that throws fails the request, not the write; the
\* publishing step behind it is never reached.
AfterPersistFails(r) ==
    /\ pc[r] = "announce"
    /\ Finish(r, "INTERNAL", None)
    /\ dropped' = dropped \cup {r}
    /\ UNCHANGED <<rows, call, held, events, replaced>>

\* The process ends, or the store or policy call fails: the rest of the
\* pipeline never runs.
Stop(r) ==
    /\ pc[r] \notin {"idle", "done", "stopped"}
    /\ Goto(r, "stopped")
    /\ dropped' = IF pc[r] = "announce" THEN dropped \cup {r} ELSE dropped
    /\ UNCHANGED <<rows, call, held, answer, events, replaced>>

Step(r) ==
    \/ Load(r) \/ Authorize(r) \/ CheckCreate(r) \/ CheckUpdate(r)
    \/ ResolveDuplicate(r) \/ InsertNew(r) \/ Reread(r) \/ Save(r)
    \/ Publish(r) \/ AfterPersistFails(r)

Next ==
    /\ \E r \in Requests : Receive(r) \/ Step(r) \/ Stop(r)
    /\ UNCHANGED idempotent

Spec == Init /\ [][Next]_vars

-----------------------------------------------------------------------------
(* Properties.                                                             *)

\* Every variable has its type.
TypeOK ==
    /\ idempotent \in BOOLEAN
    /\ rows \in [Requests -> Row \cup {None}]
    /\ pc \in [Requests -> Stages]
    /\ call \in [Requests -> Calls \cup {None}]
    /\ held \in [Requests -> Row \cup {None}]
    /\ answer \in [Requests -> Answer \cup {None}]
    /\ events \in SUBSET Event
    /\ replaced \in [Requests -> Row \cup {None}]
    /\ dropped \in SUBSET Requests

\* The pipelines use the table as the store port promises it: rows appear
\* once at version 1 and under a key no other row holds, and no write moves a
\* row's id or its creator.  Both key checks read before they write, so the
\* free key is the constraint's doing: two requests pass the checks together.
ImplementsTable == Table!TableSpec

Succeeded(r) == answer[r] # None /\ answer[r].code = "OK"

\* An OK answer carries the content the caller sent, also when the row that
\* is answered was written by someone else (a settled idempotent create).
AnswerCarriesWhatWasAsked ==
    \A r \in Requests :
        Succeeded(r) /\ call[r].op \in {"create", "update"} =>
            answer[r].row.spec = call[r].spec

NoUpdates == \A q \in Requests : pc[q] # "idle" => call[q].op # "update"

\* Where no update moves a key, all creates of one natural key that are
\* answered OK are answered with one row, found by the pre-check or by the
\* constraint; a refuse kind therefore answers OK at most once.
CreatesConverge ==
    \A r, s \in Requests :
        /\ NoUpdates
        /\ Succeeded(r) /\ call[r].op = "create"
        /\ Succeeded(s) /\ call[s].op = "create"
        /\ call[r].spec.key = call[s].spec.key
        /\ call[r].spec.key # NoKey
        => /\ answer[r].row.id = answer[s].row.id
           /\ ~ idempotent => r = s

\* What a caller may build on: an OK answer carries what was sent, and callers
\* who raced to create one key are answered with one row, though the losers
\* re-read the holder after it was written, edited or moved away.
AnswersConverge == AnswerCarriesWhatWasAsked /\ CreatesConverge

\* A create that settles on a row already recorded writes nothing and
\* publishes nothing; a created event always names a row that was inserted.
SettledCreateIsSilent ==
    /\ \A r \in Requests :
          Succeeded(r) /\ call[r].op = "create" /\ answer[r].row.id # r
              => rows[r] = None /\ \A e \in events : e.resource.id # r
    /\ \A e \in events :
          /\ rows[e.resource.id] # None
          /\ e.type = "created" => e.resource.id \in Requests
                                   /\ e.previous = None
                                   /\ e.resource.version = 1

\* The row a request addresses: by its id, or by the natural key it carries.
Addresses(c, row) ==
    /\ c.op # "create"
    /\ IF c.id # None THEN row.id = c.id ELSE row.spec.key = c.spec.key

\* A caller the policy refuses writes nothing, and the one thing its answer
\* tells is whether the row it ADDRESSED was there: a create is refused
\* whoever holds its key, and so is an update of a row named by id whatever
\* key it would take.  (An update addressed by natural key is loaded by it
\* before the verdict, so NOT_FOUND and REFUSED do tell of that one key.)
RefusalsTellOnlyOfTheRowAddressed ==
    \A r \in Requests :
        call[r] # None /\ <<call[r].caller, call[r].op>> \notin Permitted =>
            /\ rows[r] = None /\ replaced[r] = None
            /\ held[r] # None => Addresses(call[r], held[r])
            /\ answer[r] # None =>
                  answer[r].code = IF call[r].op = "create" \/ held[r] # None
                                   THEN "REFUSED" ELSE "NOT_FOUND"

Wrote(r) == rows[r] # None \/ replaced[r] # None

\* publisher.ts: an event is lost with the process, by a contained failure or
\* behind a failed afterPersist step, and in no other way; and nobody is told
\* of a write that was not made.
EventsTellTheWrites ==
    /\ \A r \in Requests :
          Wrote(r) /\ pc[r] # "announce" /\ r \notin dropped =>
              EventOf(r) \in events
    /\ \A e \in events : \E r \in Requests : Wrote(r) /\ e = EventOf(r)

Writers(i) == {r \in Requests : replaced[r] # None /\ replaced[r].id = i}
Raced(r) == replaced[r] # held[r]

\* Last writer wins, and only in a race: as long as every save of a row wrote
\* over the very row it had loaded, no two of them minted one version, and a
\* status is gone only through a later custom mutation.
WritesAreLostOnlyByRace ==
    \A r \in Requests :
        replaced[r] # None =>
            LET i == replaced[r].id IN
            \/ \E s \in Writers(i) : Raced(s)
            \/ /\ \A s \in Writers(i) \ {r} : held[s].version # held[r].version
               /\ \/ call[r].op # "custom"
                  \/ rows[i].status = call[r].status
                  \/ \E s \in Writers(i) :
                        call[s].op = "custom" /\ held[s].version > held[r].version
=============================================================================
