# A verification of the apps' commons and of the law app's domain

TLA+ models, TLC checks and TLAPS proofs of the server side of this
repository: the resource pipelines every kind is built from
(`packages/resource-api`), the session and credential tables
(`packages/identity`), the authorization engine's tuples and its bootstrap
(`packages/authorization`), the migration runner and the boot of the law app,
and the parts of the law app's domain (`apps/law/backend/src/domain`) whose
rules span several rows, several requests, several replicas, or the database
and another store.

`PROJECT.json` lists the components, the runs, which lines each definition
models, a mutant for each property, the hazards and the theorems. Run a check
with `tlc -config <cfg> <MC module>`, a proof with `tlapm <module>_proofs.tla`.

## 1. The system

One Node process (or several replicas) serves gRPC-style operations on
*resource kinds*. A kind is a Postgres table of JSON rows behind a
`ResourceStore`; its operations are pipelines of steps over a shared context.
Everything concurrent comes from one place: every `await` (store, policy,
authorization engine, publisher) lets other requests run, on this process or
on another. There are no row locks around a pipeline and no version check in
`save` (`audit.ts:57-61` accepts that), so every guard that reads before it
writes is a race to be looked at; only single SQL statements and the few
explicit transactions are atomic. Timers run beside the requests on every
replica: the tuple reconcile, the reminder sweep and the two document sweeps;
none of them knows of its copies on other replicas.

| component | state it keeps | operations | what is hard | what makes it correct |
|---|---|---|---|---|
| Resource pipelines | the request's context (`existing`, `holder`, new state) | create, update, custom mutation | check-then-write, idempotent creates, events after the write, whole-row writes from a loaded row | racing creates agree; a settled create writes and announces nothing; a refused caller learns of no key but the one it addressed |
| Resource store | rows, natural-key constraint | insert, save, get, list | the constraint is the only backstop of the races above | rows appear once at version 1, keep id and creator |
| Reference checks | none | lookup before the write | row gone after the check | refusal only before a write |
| Policy seam | none | authorize, scope | position in the pipeline: after the load, before the key check | its refusal comes before anything is written or checked |
| Migration runner | ledger, checksums, advisory lock | migrate | two processes at boot, failing half way | each migration once, whole or not |
| Sessions and credentials | `refresh_tokens`, `user_credentials`, `activation_codes` | login, refresh, logout, redeem, issue, change and set password | concurrent and repeated presentation, expiry, purge, stops | a rotation is linear; a code is used once; reuse stays recognisable |
| Login rate limiter | windows per key | check, recordFailure | checks before the failures of those in flight | budget, key cap |
| Tokens, keys, authenticators | none | verify | – | – |
| Engine adapter | tuples (external) | write, readAll, check | write is not transactional | idempotent difference |
| Engine bootstrap | store and model id (external) | find or create | two first boots; a create whose answer is lost | a store is made by a first boot only, and once by each |
| Tuple projection, reconcile loop | none of its own | full projection, per-row delta, periodic reconcile | rows and tuples in two stores without a transaction; a delta read in several awaits; several replicas | the deltas do what the projection would; the engine converges |
| Law policy table, model | none | decisions per operation | reads a row and the engine, one after the other | deactivated members stay out |
| Firm members | rows with role and status | create, update | lockout guard counts, then saves | an administrator is left |
| Cases | rows with lead, lifecycle, next hearing | create, update, updateStatus | stored facts that other tables decide | cached date heals; lead is a member |
| Hearings and the refresh | rows with date and outcome | create, update, recordOutcome | outcome guard races; event handler rewrites the case; a stop before the follow-up | outcome frozen, date heals |
| Case members, lead handler | membership periods | create, remove | guard against a moving lead; handler races with itself | lead is always a member |
| Audit history | lines keyed by row and version | subscriber | relies on the version to name a state | one line per state |
| Notifications, task assignment | rows keyed by a dedup key | handlers | at-least-once producers | one notification per occurrence |
| Reminder sweep | none | timer | repeats, replicas, date windows | once per occasion |
| Documents, two sweeps | objects, document rows, pages, status | store, extract, OCR | object then row; resume after a crash; ticks of one replica and of several overlap | no row without object; extraction ends |
| PDF text, annotations | rows | plain | – | – |
| Citations (shelf) | natural-keyed rows, uses | file, promote | find-or-create from two cases | one authority per reference |
| Tasks, comments, notes, deadlines, clients, money | rows with a status | create, update, status operations | state transitions from a loaded status | legal transitions |
| Server, files, MCP, assistant | config, open servers | boot, routes | boot order | reconcile before listening |
| OCR and object-store adapters; web client; ledger demo; scripts | external, or UI, or tooling | – | – | – |

How they interact: a request enters a pipeline, which asks the **policy**
(row read, then engine), writes the **store**, then runs the kind's own
`afterPersist` steps (the **tuple sync** of the three kinds that project
tuples) and the **publisher**, whose subscribers run inside the request and
have their failures contained: the **next-hearing refresh** re-sends the case
through its update pipeline, the **lead handler** creates a `CaseMember`, the
**deactivation handler** revokes **sessions**, the audit subscriber writes a
line. The **reconcile loop** is the only other writer of the engine.

## 2. The modules

| module | models | proofs |
|---|---|---|
| `ResourceTable` | what the store promises of one table: the abstract specification | – |
| `ResourcePipeline` | the create, update and custom pipelines over one table | `ResourcePipeline_proofs` |
| `RefreshSessions` | the three credential tables and the calls over them | `RefreshSessions_proofs` |
| `AuthzTuples` | FirmMember, Case and CaseMember writes, their tuples, every replica's reconcile | `AuthzTuples_proofs` |
| `CaseDiary` | hearings, case writes, the refresh between them | `DiaryAndDocuments_proofs` |
| `FirmRoster` | who may change the roster; the lockout guards | `FirmRoster_proofs` |
| `CaseTeam` | leads, membership periods and the handler between them | `TeamAndReminders_proofs` |
| `DocumentSweeps` | filing a paper, the extraction sweep, the OCR sweep | `DiaryAndDocuments_proofs` |
| `EventSubscribers` | what hangs off a record's events: assignment notices and audit lines | `EventSubscribers_proofs` |
| `ReminderSweep` | the reminder ticks of every replica | `TeamAndReminders_proofs` |
| `BootSequence` | migrations behind the lock, the engine's store and model, the order of the boot | `BootSequence_proofs` |

`MC*` modules only give operations, callers, images and symmetry sets. Each
domain module composes what its rules need of the pipeline (load, guards, save,
handler) instead of instantiating `ResourcePipeline`: the pipeline's own
promises (one row per key, refusal before the write, which writes and events a
race can lose) are checked and proved once, in general, and are what the domain
modules take as the atomicity of `save` and as the key that refuses a duplicate
notice or period.

Conventions, the same everywhere:

* **One action per await.** The synchronous steps between two awaits belong to
  the action of the await that follows; in a few places a check on data no
  other request can change shares the action of the load before it. `pc[r]` is
  where request `r` is; `at[w]` where a sweep is in its tick.
* **Ids named after requests.** A row, token, code or period minted by request
  `r` is called `r`: ids are ULIDs or 128 random bits and never repeat. Rows
  that exist at boot have constants of their own.
* **Requests are sent once.** A retry or a duplicate is another request with
  the same content, so TLC explores it.
* **Refuse** stands for what may end a request before its write and is not the
  subject of the module (policy, references, validation, a failing read).
  **Stop** is the process ending between two awaits, for that request.
* **Contained failures** (`LoseEvent`, `SyncFails`, `HandlerFails`, the dropped
  event of `Publish`) let the request go on, as `publishSafely` and
  `applyTupleDeltaSafely` do.
* **Faults are counted.** `Faulty`, `Fault` and `MaxUpsets` bound what goes
  wrong on its own, because a system that fails for ever finishes nothing; what
  an input makes fail every time (an image no provider reads) needs no fault
  and has no bound.
* **History variables** never enable or disable an action. `undisturbed` and
  `lone`: no other request was under way at any time since this one began (in
  CaseDiary also: same day, no event lost). `barred`: the caller was inactive
  when the request came and has not been active since. `missed`, `lost`,
  `raced`, `dropped`, `doubted`: a sync, a handler, an event or a create did
  not complete as its caller was told. `company`: another tick had the document
  of this one in hand since it took it. `late`, `made`: whether a store was
  there when a boot began, and how many it has made. `replaced`: the row a save wrote over.
  `signIn`, `ended`: which login a token descends from, and whose rows were
  revoked.
* **Names.** Two proof modules extend two components each: what belongs to one
  case (`DiaryAndDocuments_proofs`) and who is on it and is told of it
  (`TeamAndReminders_proofs`). So that the components' names do not meet,
  DocumentSweeps and ReminderSweep prefix what every module has (`DSInit`,
  `DSNext`, `DSSpec`, `DSTypeOK`, `DSvars`; `RSInit`, …), call the absent value
  `Nothing`, and ReminderSweep calls a replica's place `phase`. The two
  components of such a module share no constant and no variable, and no theorem
  speaks of both.
* **Mutants** stand in the module beside what they change, marked
  `Mutant:`; no specification uses them.

Module by module:

**ResourcePipeline** (`resource.ts`, `audit.ts`, `publisher.ts`). `Receive` is
a request validation let through; `Load`, `Authorize`, `CheckCreate` /
`CheckUpdate`, `InsertNew` / `Save`, `Publish` follow the step lists of
`resource.ts`. Whether the kind refuses duplicates or is idempotent is chosen
in `Init`. An idempotent kind's create keeps the holder it found (`held`) and
`ResolveDuplicate` answers by content; `Reread` is the arm a lost insert race
takes. `UpdatedRow` is built from the row that was *loaded*, as
`buildUpdateState` does, so a stale status, version or stamp really is written
back. `ResourceTable` is the abstract specification, and `ImplementsTable` the
refinement (the identity on `rows`; the rest of the state is hidden).

**RefreshSessions** (`auth-service.ts`, `postgres/stores.ts`). `Consume` is the
transaction under the row's lock with its four outcomes: unknown, already
consumed (every row of the user goes), expired, good. `Purge` and `Insert` are
the two statements of `insert`, not one transaction. `SetHash` and `Revoke` are
separate calls. Tokens and codes expire at any moment. Hashing and the User row
are left out.

**AuthzTuples** (`domain/authz/tuples.ts`, `reconcile-loop.ts`,
`packages/authorization`). `Projection` is the full projection of the rows. The
per-request deltas are the other program they are in the code, not differences
of projections: `MemberDelta` compares role tuples; `FirstDelta` and
`FirstRead` are what `caseTupleDelta` and `caseMemberTupleDelta` do before they
resolve anybody; `ResolveFormer` and `ResolveNext` are the awaited
`resolveMemberUserId` reads, which leave what they found in `delta`; `Sync` is
the engine's write. Other requests and reconciles run between any two of these
steps. An empty delta writes nothing and cannot fail. Engine writes are not
transactional: a failing one settles any part. A reconcile reads the three
kinds in any order, then the engine, and writes the difference of what it read;
the replicas do this concurrently with the writes. A member's update may name
another user. The boot reconciles before it listens, so the engine starts in
step, over any rows, members deactivated earlier among them.

**CaseDiary** (`hearing-resource.ts`, `case-resource.ts`,
`next-hearing-refresh-handler.ts`). A hearing write ends with the handler
reading the case (`ReadCase`), then the case's own update pipeline (`LoadCase`,
`Recompute`, `SaveCase`). `recordOutcome` is two writes: the outcome and
(`BookFollowUp`) the next hearing. `lifecycle` (`updateStatus`) writes back the
date it loaded. Midnight changes `today`.

**FirmRoster** (`firmmember-resource.ts`, `authz/policy.ts`). Every role but
managing partner is one. `CheckLiveness` is the row read, `AskEngine` the
tuple, which is stale whenever a sync failed (`SyncFails`, `Stop`) until a
`Reconcile`; `Guard` is `protect-firm-administration`. A row's user is not
changed here (AuthzTuples has that).

**CaseTeam** (`casemember-resource.ts`, `lead-membership-handler.ts`).
`assign` sends a lead; `rewrite` is any case write that sends back the lead it
read; both end in the handler (`Lookup`, `Open`). `remove` loads, guards and
closes. Cases exist at boot; a case's creation is `assign` on a fresh one.

**DocumentSweeps** (`store-document.ts`, `extraction-sweep.ts`,
`ocr-sweep.ts`). `Put`, `CreateRow`, `Cleanup` are `storeDocument`, with the
create that fails *after* its row was stored (`doubted`). A worker is a *place
for one tick*, of either sweep (`sweep`): both are bare intervals that start a
tick whether or not the last one is over (`extraction-sweep.ts:111`,
`ocr-sweep.ts:253-258`), so a replica has as many places as ticks may be at
work on it at once. `Home` says which replica a place is on; the OCR ticks of
one replica share its `backoff`. `Take`, `WritePage`, `BatchWritten`, `Record`
are what both sweeps do with a document, `Extract` and
`Open`/`ListPages`/`Recognize` what each does before. Nothing locks a document.
`Restart` ends everything a replica runs and empties its backoff. `Papers` says
what a paper may turn out to be, among them objects that can never be read and
images on which every provider call fails, which is what the backoff is for: it
counts a document's failures in a row and passes it over for as many ticks as
`Windows` says (in the code 2, 4, 8, 16, 32 intervals). Its clock is abstracted
to the starts of that replica's ticks, which are an interval apart. Left out:
which text a page has, the bound on the backoff's map.
Nothing in the code writes `PENDING`, and no operation updates or deletes a
Document or a DocumentPage, so the sweeps are the only writers. The shelf entry
that `storeDocument` may create beside the row is not modelled.

**EventSubscribers** (`task-assignment-handler.ts`, `audit-subscriber.ts`).
Requests create and change one record, a Task or a Deadline (chosen in `Init`);
after its save each hands `held` and `NextRow` to the kind's subscriber. Both
dedup keys name the version the write *computed*, so two writes that loaded the
same row share a key; `SameVersion` is that case. `Changes` is `diffFlat`.
`Replay` is what a reader of the history does: the last line that tells of a
field.

**ReminderSweep** (`reminders/sweep.ts`). A tick reads its six lists one after
the other (`List`, one page each, earliest first), then looks each recipient up
(`LookUp`) and writes the notice (`Notify`), with the date it read once at its
beginning. Days pass, rows and members change in between, a tick may fail at
any point, and the replicas' ticks overlap; the unique dedup key is the only
memory.

**BootSequence** (`migrate.ts`, `bootstrap.ts`, `main.ts`). Replicas boot from
images of different ages. `TakeLock` is the session advisory lock; the ledger
is read once under it (`known`); `RunSql` and `CommitFile` are the transaction
of one file, which a failure rolls back and whose commit may take effect
unheard. `FindStore`, `CreateStore`, `ReadModel`, `WriteModel` are the engine
bootstrap, retried `Attempts` times; the engine does not keep store names
unique, and only the listing an attempt starts with keeps it from making a
second store after a create whose answer was lost. `FindStore` takes *any* store of the
listing, as `bootstrap.ts:98-111` takes the first match of an order nobody
states. Then the reconcile, and only then the listeners. A migration file's SQL
is only the fact that it has run.

## 3. The runs

| run | instance | distinct states | shows |
|---|---|---|---|
| `pipeline` | 3 requests, 2 callers (one refused), 1 key, 2 bodies, both kinds | 1.02 M | the pipelines implement the table; a refused caller is told of no key but one by which it addressed the row; racing creates converge on one answer; events and writes are lost only by faults and races |
| `sessions` | 4 requests, 2 users, 1 password | 1.58 M | one live token per sign-in; a code is redeemed once and leaves a password; a revoked sign-in stays dead but for requests already past their check; evidence of reuse outlives the purge |
| `authz` | any one write beside the reconciles of 2 replicas; 2 members (a lead, and one deactivated before), 3 users, 2 roles, a case, a period still to open, 1 failure | 921 k | only tuples of the model reach the engine; the delta an undisturbed write puts together (role, activation, lead, period, new row) is what the projection would have a reconcile write; an undisturbed reconcile heals any drift; under fairness the engine ends equal to the projection |
| `authz_drift` | 2 writers, no replica, no failure | finding 1 | drift without a missed sync |
| `diary_records` | 2 requests of all kinds, 2 cases, 1 hearing at boot, 3 days | 2.28 M | the next undisturbed write heals the stored date, also one whose follow-up is refused or cut off; a completed appearance is frozen unless raced |
| `roster_alone` | 2 requests, 2 members and the created ones | 427 k | a caller barred throughout writes nothing; the lockout guard holds for a request nobody disturbs |
| `roster_lockout` | the same | finding 2 | two demotions leave no administrator |
| `team_leads` | 3 requests, 1 case, 2 people, 2 periods | 107 k | a lead is a member unless a handler failed or a removal overlapped; the next undisturbed case write heals |
| `documents` | 2 papers; 1 replica with 2 places, each for a tick of either sweep; 2 pages a PDF, 1 page a call and as the budget of a tick, 2 documents a tick, windows of 2 and 4 ticks, 1 fault | 663 k | a status never promises what is not there; a row has its object; a verdict fits the paper; a tick keeps its budget, and bills no written page of a document it has to itself; every readable paper settles |
| `record_events` | 3 writes of one record, 2 members, both kinds | 1.19 M | assignments are told and changes have their line unless another write took the version; the history replays to the row |
| `reminders` | 2 replicas, 1 deadline, 1 hearing, 2 members, dates inside and beyond 3 days, 1 edit or failed tick | 788 k | nobody is told early; a tick that ends well owes nothing for its day; in the end nothing stays owed |
| `boot` | 2 replicas, 3 images, 3 files, 2 attempts, 3 boots, 2 faults | 728 k | migrations run once and in order; nobody listens unready; only first boots make stores, each one at most; every boot ends |

**Why these bounds.** Every race the code has is between two requests; two
requests that may be of any operation meet in every order. Three are used
where a third is the interesting one: in the pipelines, a key let go between a
lost insert and its re-read, and a custom operation between the load and the
save of an update; in the case team, a lead who comes back (A, B, A removed, A
again) and a handler that works from an old event; in the events, a creation
with two writes that load it at once. Four calls are what a session needs for
login, two presentations of one token and one of the successor. Two bodies tell
same from different content; two cases let a hearing move; three days give a
past, a present and a future. Two members are the smallest firm in which the
lockout guard can be fooled. Two replicas let one's plan go stale under the
other. In the documents run the first paper is one that fails in some way, the
second one that can be read: the smallest queue whose head may starve the rest;
a scan of two pages needs two provider calls and exceeds the tick's
budget, a photo does not, so both sides of the budget's gate are met. The two
places hold any two ticks, of one sweep or of both: they overlap on one
document, on the shared backoff, and a restart or a failure comes between any
two of their steps; more places and replicas are left to the proofs, which cover
any number. In `authz` one write may be any (a role, an activation, a user, a
lead, a period, a new row), from a start in which each is one write away
(`OneStart`); what a second write does to the first one's delta is the race of
`authz_drift`, and the proofs take any number of both. Three
boots are a crash, the boot that overlaps it and the one that comes after; the
three images are a rollout, a rollback and an edited file. The engine's failures
in `authz`, the faults and the upsets are bounded by the liveness they are
checked with.

**Symmetry** is used over ids, requests and values, none of which the modules
compare except by equality; the runs that check liveness use none.

**Deadlock** checking is off throughout: every request is sent once and ends,
after which the instance stops. A request that hangs half way is not hidden by
this: for every stage of `pc` some action other than `Stop` is enabled, and in
the four runs with liveness a hanging step would show.

**Fairness** is stated in four modules, never for what somebody must decide to
do. `AuthzTuples`: weak fairness of each *accepted* writer's next step (the
event loop runs a promise that is ready) and of each replica's (the interval
timer fires again, whatever the last run did). `ReminderSweep`: weak fairness
of each replica's step, for the same timer.
`DocumentSweeps`: a tick that runs takes its next step (weak: the promise it
awaits is ready), and a replica on which a place comes free again and again
starts a tick of each sweep again and again (strong: the two intervals fire
whatever became of the ticks before, and a place is only free between two of
them); nothing is owed to a filing. `BootSequence`: a
process that has started goes on (weak), and a process that waits for the
advisory lock gets it if it keeps coming free (strong: Postgres grants a lock
in the order of its waiters). A stop, a failure, a start and an edit need no
fairness and are bounded or unneeded. The other modules state safety only:
what they promise for later is a property of "the next write", which nobody
has to send.

**Liveness has a condition of the code's own.** `EveryPaperSettles` asks
nothing of papers that fail for ever, and holds only while those are fewer than
`DocumentsPerTick`: the extraction sweep has no backoff, so that many unreadable
objects at the head of its queue (oldest first) would keep every later paper
out. The OCR sweep passes over those inside their window and pulls `Overfetch`
more than it processes; in the run, where two documents are all there are, a
pull of two needs no more. That the window grows matters: with one fixed at two
ticks, ticks that overlap may use it up while the paper behind is still at work,
and a failing paper whose call eats the budget comes first again.

## 4. Where the code and its comments disagree

1. **`OnlyMissedSyncsDrift`** (`authz_drift`) – `reconcile-loop.ts:4-6` says a
   same-request sync can be missed in one way only, a contained failure or a
   crash. Two requests on one row may apply their deltas in the other order of
   their saves, or a delta of the row as it was before the other's save: for
   instance two updates load a deactivated member, one saves it active, the
   other saves it inactive again and so has no delta, and the first one's sync
   grants the role. Nothing fails, and the engine disagrees until the next tick.
2. **`FirmIsAdministered`** (`roster_lockout`) – `firmmember-resource.ts:76-80`
   promises a firm is never without an administrator. Two concurrent demotions
   each count the other.

Modelled, and visible in traces, but accepted by the code, promised nowhere or
the same race seen again, so no run of its own:

* `tuples.ts:16-19` says the projection and the per-request deltas are kept
  consistent. A FirmMember update that names another user moves the role tuple;
  the lead and membership tuples, which the projection joins to the member's
  present user, stay with the former one until the next reconcile, though nobody
  raced and nothing failed. `SyncKeepsInStep` is the same promise for every
  other write, and excepts this one;
* `hearing-resource.ts:10-13` and `144-148` say both residues of a crash in
  `recordOutcome` surface in a view. Between the save of the outcome and the
  refresh of the case they do not: the case still names the recorded date, the
  appearance has its outcome, and the follow-up is lost. `NextWriteHeals` starts
  where the refresh has run;
* `ocr-sweep.ts:298-301` says only pages not written yet are requested, and
  `85-89` that concurrent replicas are harmless. Two ticks, of one replica or of
  two, list a document's pages before either has written any: the rows are
  written once, the pages are billed twice. `WrittenPagesAreNotBilled` is the
  promise of a tick that has the document to itself;
* `bootstrap.ts:2-9` calls the bootstrap idempotent. Two first boots list before
  either creates, make a store each, and serve from different ones;
  `FirstBootsMakeTheStores` says that it stays with those;
* an update writes back the status it loaded, undoing a status operation that
  saved in between (`audit.ts:57-61` names the missing version check);
  `WritesAreLostOnlyByRace` states what is left of the promise;
* two updates that load one version save and publish two states of the next
  version, where `auditentry-resource.ts:65-71` takes a line's content for a
  function of its source version; `ChangesHaveTheirLine` and
  `AssignmentsAreTold` say what that costs;
* `hearing.proto:61` and `hearing-resource.ts:4` call an outcome immutable, but
  two calls that loaded the hearing before either saved both record one;
  `FrozenUnlessRaced` therefore speaks of undisturbed requests;
* the refresh sends back a case spec it read three awaits earlier and undoes a
  user's edit for good, where the handler's comment
  (`next-hearing-refresh-handler.ts:29-31`) speaks of the date alone, which the
  next write does repair;
* `updateStatus` writes back the next-hearing date it loaded
  (`case-resource.ts:244`), which `NextWriteHeals` therefore excludes;
* a hearing moved to another case refreshes only the case it moved to;
* a removal that read the lead before a lead change closes the new lead's
  period; the next case write reopens one;
* `tuples.ts:27-29` calls a missed tuple under-permission, never
  over-permission: true of a missed grant, not of a missed delete;
* a create that fails after its row persisted deletes the object
  (`store-document.ts:170-178`), which `extraction-sweep.ts:128-131` takes for
  impossible: `RowHasObject` excepts it, and the sweep concludes `FAILED`;
* a late extraction tick puts an `EXTRACTED` scan back to `NO_TEXT_LAYER`; its
  pages are there, so the OCR sweep bills nothing and restores the state
  (`EveryPaperSettles` asks for `<>[]`);
* an update addressed by natural key is loaded by it before it is authorized
  (`resource.ts:667-676`), so `NOT_FOUND` and `PERMISSION_DENIED` tell a refused
  caller whether that one key is held; `RefusalsTellOnlyOfTheRowAddressed`
  states what stays hidden: the key a create sends, and the key an update by id
  would take;
* sources are migrated "in declared order" within one run only: a later image
  may add a file to the first source after the second has long run;
  `MigratedOnceInOrder` orders the files of one source;
* replicas of a rolling deployment run an old image on a newer schema, and a
  rollback writes the older model over the newer one: `ListenersAreReady` asks
  for the image's own files and that its model was written, not that it is the
  latest.

## 5. The proofs

Every theorem holds for all values of the constants: any number of requests,
users, cases, members, papers, sweeps, replicas, images and days, and for any
bound on faults and boots. The named assumptions are that `None` (`Nothing`) is
not one of the values it stands beside, that ids of different kinds differ (a
ULID is minted once; the firm's object is no case), that deadlines and hearings
are finitely many and not the same rows (a page is full only of a finite
table), that every case has a lead and a team of members, that the operator is not a member's id, that
`Permitted` and `Operations` are drawn from their sets, that the calendar has a
day, that the sweeps' limits are positive, that requests whose versions are
counted are finite, and, for the boot, that an image that ships a file ships
the lower-numbered files of its source before it, and none twice. TLC evaluates
a module's assumptions in each of its runs.

Each proof module has one inductive invariant `IInv`, preserved action by action
(or, in the smaller modules, conjunct by conjunct, with one step per action
that can disturb it); the theorems follow from it in one temporal step. Where a
promise needs more than the others, its own invariant is proved on top of
`IInv` (named below), so that a change to one does not disturb the other.

| theorem | property | the invariant it needs, beyond types |
|---|---|---|
| `ResourcePipeline_proofs!PipelineImplementsTable` | `ImplementsTable` | `KeysNameOneRow` (which the constraint alone carries, not the read-then-write checks), `RowsInOrder` (a row's id is its index, its version positive), `HeldIsStored` (a loaded row is still in the table, with the same creator), `StagesInOrder` |
| `…!RefusalsTellNoOtherKey` | `RefusalsTellOnlyOfTheRowAddressed` | what a refused request has written, held and been answered at each stage (`RefusedStep`) |
| `…!AnswersFit`, `…!CreatesOfOneKeyConverge`, `…!RacingCreatesConverge` | `AnswerCarriesWhatWasAsked`, `CreatesConverge`, `AnswersConverge` | the content a request was answered with, and `SpecsStand`: while no update came, a stored row has the content of the create that made it, so a key names one row |
| `…!SettlingIsSilent` | `SettledCreateIsSilent` | `Silence`: a request that has inserted nothing has announced nothing |
| `…!WritesAreTold` | `EventsTellTheWrites` | `HistoryInOrder` (what a request has replaced and dropped at each stage) |
| `…!OnlyRacesLoseWrites` | `WritesAreLostOnlyByRace` | `AllKept`: along a row's unraced saves versions ascend and the latest custom status stands |
| `RefreshSessions_proofs!RotationIsLinear` | `OneLiveTokenPerSignIn` | `OneHolder` (per sign-in there is one live token *or* one request about to insert one), which needs `TokensOfFinished`, `RootsHaveStarted`, `StagesInOrder` |
| `…!OneRedemptionPerCode` | `CodeRedeemedOnce` | `CodesInOrder` (a stored code was issued by a finished request for the user it is under), `RedeemedOnce` (a redeemed code is stored nowhere) |
| `…!CodesBuyPasswords` | `SpentCodeLeavesPassword` | stages of a redemption; no step takes a password away |
| `…!RevokedStaysRevoked` | `EndedStaysEnded` | `EndInv`: every row and every minting request of an ended sign-in is known by its user (`OneUser`, `RowsNameTheSubject`), and none holds anything (`EndedHoldNothing`) |
| `…!EvidenceIsKept` | `EvidenceStays` | types |
| `DiaryAndDocuments_proofs!NextWriteRecomputes` | `NextWriteHeals` | `InHand` (what a stage has read it holds), `Alone` (an undisturbed request is the only one under way), `Fresh` (what it recomputed is still the earliest open day); `NextHearingIsNext` relates the recompute step to the earliest of the open hearings, by the well-founded minimum of a set of days; `Refreshed` (the case of an undisturbed recording stores its next hearing by the time the follow-up is due), for a recording that breaks off there |
| `…!AppearancesAreFrozen` | `FrozenUnlessRaced` | `HearingsInv`: `Named` and `OwnIdIsFree` (a request's id is a hearing of its own once it wrote it), `StillOpen` (what an undisturbed request loaded has no outcome yet) |
| `FirmRoster_proofs!DeactivationCloses` | `DeactivatedStaysOut` | `BarredIsInactive`: the caller's row is inactive as long as it is barred; nothing is assumed of the tuples |
| `…!LoneChangeIsSafe`, `…!LoneLeavingIsRefused` | `LoneChangeKeepsAdministrator`, `NobodyLeavesAlone` | `InHand`, `RowsFollowRequests`, `Alone`, `StillSo` (what an undisturbed guard admitted still holds at the save) |
| `TeamAndReminders_proofs!LeadsStayMembers` | `LeadIsMemberUnlessRaced` | `Covered`: unless lost or raced, every lead has a period or a handler on its way that will open one; `OpensLater` (a request that has not finished owns no row) |
| `…!LeadIsSpared`, `…!CaseWriteHeals` | `RemovalSparesLead`, `NextCaseWriteHeals` | `InHand`, `Alone`, `StillSo` |
| `DiaryAndDocuments_proofs!PagesPrecedeStatus`, `…!VerdictsAreTrue` | `ExtractedMeansPages`, `StatusFitsPaper` | `Told` and `AllWorking`: what a state, or a worker about to record one, promises of its document (`Fits`); it stays true because pages are never deleted and a missing object stays missing (`PromisesStay`), so overlapping ticks need no lock |
| `…!ObjectsPrecedeRows` | `RowHasObject` | `Filed`: a row is behind its object until its create has failed |
| `…!RetriesBillTheRest` | `WrittenPagesAreNotBilled` | `Together`: two ticks with one document in hand both know of it (`company`), on whatever replicas they run; `Unbilled`: the pages a tick that had the document to itself still asks for are nobody's |
| `…!TicksKeepTheirBudget` | `TickStaysInBudget` | `AllSpending`: what is still to bill fits what is left of the budget, or the document in hand is the tick's first |
| `…!SettledPapersStay` | `SettledIsFinal`, the safety half of `EveryPaperSettles` | `Filed`: a filing gives a state only to a paper that has none; queues take only papers without a final state |
| `AuthzTuples_proofs!ReconcileIsComplete` | `ReconcileHeals` | `Alone` and `LoneReads`: what an undisturbed reconcile has read of each kind is still in the tables, so its plan is the difference to the rows as they are |
| `…!SyncAgreesWithReconcile` | `SyncKeepsInStep` | `TablesFit` (a row is of the kind its id belongs to), `UniqueKeys` (the active natural keys), `LoneWrites` (the row an undisturbed write loaded is the one it replaces, and no other has its keys), `LoneDeltas` (the delta it has put together so far, read by read, and that it is `Exact` once nobody is left to read): then no tuple of the row is also another's (`TuplesOfTheirOwn`), no two leads share a tuple (`LeadsApart`), and the delta may delete what it deletes |
| `…!ReconcilesConvergeTogether` | `ConvergingStep`, the safety half of `EngineConverges` | `Current`: every plan `Completes`, that is, its write gives the projection and deletes nothing of it; any part of one such plan, written by another replica, leaves the others so (`PartsComplete`) |
| `TeamAndReminders_proofs!NobodyIsToldTooEarly` | `NoticesAreTimely` | `AllTimely`: not only the notices but everything a tick has in its queue and in hand is due, its owner's and its row's, or the row was edited; `TicksInDay` (a tick's day has come) |
| `…!FullTicksOweNothing` | `FullTicksTellEverybody` | `ListsAccounted`: of every list a tick has read, each telling about what did not change is told or in its hands; a full page is the whole list (`PageIsAll`); the four windows leave no day out (`RungIsAList`) |
| `…!DebtsComeFromEdits` | `ToldStaysTold`, the safety half of `NothingStaysOwed` | a notice is never taken back (`NoticesStand`) |
| `EventSubscribers_proofs!AssigneesAreTold`, `…!ChangesAreWritten` | `AssignmentsAreTold`, `ChangesHaveTheirLine` | `NoticesFit`, `LinesFit` (a notice or line is that of a saved write that has its key), `DoneTold`, `DoneWritten`, `BenchedFits`; `VersionsCount` (no version exceeds the number of saves, by induction over the steps with finite cardinalities) |
| `…!HistoryIsComplete` | `HistoryReplays` | `ReplayInv`: while nobody raced, the writes form a `Chain` with a version each, and of each field the row has what its last changer wrote (`AllFromLast`) |
| `BootSequence_proofs!MigrationsRunOnce`, `…!LockSerializes` | `MigratedOnceInOrder`, `NoBootLosesARace` | `MInv`: `OpenFits` (a transaction is open from the SQL to its commit), `Passed` and `Whole` (what the loop has passed is in the ledger as the image has it), `Fresh` (what the holder of the lock read of the files ahead is still so) |
| `…!ListeningIsReady` | `ListenersAreReady` | `Served` (the store a replica serves from, and what is in it), on top of `MInv` |
| `…!StoresAreFirstBoots` | `FirstBootsMakeTheStores` | `Makers`: who may still create a store has listed none since it was a first boot, and has made none that an attempt of its own does not find |

The type invariant of each of the ten components is proved (`TypeCorrect`,
`DSTypeCorrect`, `RSTypeCorrect`). Two runs also check it (`authz`,
`reminders`), because there a type says something of the code: that only tuples
of the relation model reach the engine, and that every notice has a member to
go to.

Every safety property of a passing run, invariant or action property, is the
statement of a theorem.

**Model-checked only.** The liveness: `EngineConverges`, `EveryPaperSettles`,
`NothingStaysOwed`, `EveryBootEnds`. Liveness under fairness is out of the
prover's reach, as are `ENABLED`, induction over data by the library's theorems,
and anything reached through a `RECURSIVE` operator; no module here declares
one. Of the first three the half that is safety is proved: what holds once the
environment is quiet is never lost again, and what step brings it about. What is
left to TLC is that the step is taken. The second half of
`EveryPaperSettles` needs it most: a tick that took a paper up before it was
settled may put an earlier state back, once.

The properties of the two runs that expect a violation are false of the code
(section 4) and have no theorem.

## 6. Not modelled

* **Login rate limiter** – counters of one process, changed without an await;
  what can go wrong is the budget of attempts already in flight.
* **Tokens, keys, authenticators** – stateless verification.
* **Citations** – `create` and `update` are the generic pipelines with a natural
  key; `promote` copies a paper through `storeDocument` and then creates its
  entry, and the paper a lost race or a stop leaves without an entry is
  documented (`store-document.ts:181-188`) and repaired by hand.
* **The decisions of the policy table** on kinds other than FirmMember –
  stateless questions to the engine, which `policy.test.ts` compares with an
  oracle.
* **Redaction in the audit history, `markRead`, the listing operations** –
  reads, or writes of one row by its only writer.
* **PDF text and annotations, the OCR provider and object-store adapters** –
  libraries and external services; what the sweeps rely on is in
  `DocumentSweeps`.
* **Generated protobuf code, the web client, HTTP routes, MCP tool
  descriptions, configuration parsing, the ledger demo, build and publish
  scripts** – no state of the server's own, or tooling.

Left out of the modelled components: list filters and paging, court-number
uniqueness, which row a reference check looks up, the migration ledger's shape
of before the sources had names and the checks on the declared file names, the
200-page cap of a document and the bound on the backoff map, legal transitions
of the one-row status operations.
