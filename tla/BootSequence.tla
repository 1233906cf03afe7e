---------------------------- MODULE BootSequence ----------------------------
(***************************************************************************)
(* The boot of the law backend (main.ts): every replica migrates the       *)
(* database behind an advisory lock (migrate.ts), probes it, finds or      *)
(* makes the authorization store and its model (bootstrap.ts, retried a    *)
(* bounded number of times), reconciles the tuples, and only then listens. *)
(*                                                                         *)
(* Replicas boot at the same time, from images of different ages, and any  *)
(* of them may be killed between two calls.  A migration file is a record  *)
(* [source, n]; its SQL is only the fact that it has run.  An image is its *)
(* list of files, the checksum of each, and its authorization model.       *)
(***************************************************************************)
EXTENDS Integers, Sequences, FiniteSets

CONSTANTS Replicas,   \* the processes of the deployment
          Images,     \* the builds they are started from
          Files,      \* migration files, [source, n]
          Plan,       \* Plan[i]: the files of image i, sources in declared order
          Sum,        \* Sum[i][f]: the checksum of file f in image i
          Sums,       \* the checksums
          None,       \* no row, no holder, no store
          Attempts,   \* tries of the engine bootstrap (30 in main.ts)
          MaxStarts,  \* bound: boots of the whole history
          MaxFaults   \* bound: failed calls and kills of the whole history

(* Why a boot stops before it listens. *)
Causes == {"drift", "fault", "conflict"}

(* listMigrationFiles sorts a directory by name, so an image that holds a  *)
(* file holds the lower-numbered files of its source before it: files are  *)
(* added to a directory, never taken away.                                 *)
ASSUME BootAssumption ==
  /\ \A f \in Files : f.n \in Nat
  /\ Images # {}
  /\ Plan \in [Images -> Seq(Files)]
  /\ \A i \in Images : \A j, k \in 1..Len(Plan[i]) :
        Plan[i][j] = Plan[i][k] => j = k
  /\ \A i \in Images : \A k \in 1..Len(Plan[i]) : \A f \in Files :
        (f.source = Plan[i][k].source /\ f.n < Plan[i][k].n)
        => \E j \in 1..(k - 1) : Plan[i][j] = f
  /\ Sum \in [Images -> [Files -> Sums]]
  /\ None \notin Sums \cup Replicas \cup Images \cup Causes
  /\ Attempts \in Nat \ {0} /\ MaxStarts \in Nat /\ MaxFaults \in Nat

VARIABLES
  ledger,     \* schema_migrations: the checksum recorded for a file, or None
  ran,        \* how many times a file's SQL is in the committed schema
  lock,       \* the holder of the advisory lock
  stores,     \* the engine's stores named "law": each the models written to it
  reconciled, \* the stores whose tuples a boot has brought up to date
  pc,         \* where a replica's boot stands
  image,      \* the image it runs
  known,      \* appliedChecksums: the ledger as it was read
  next,       \* the plan's index the loop is at
  open,       \* the files whose SQL ran in the transaction that is open
  bound,      \* the store it is bound to
  attempt,    \* the try of the engine bootstrap it is at
  cause,      \* why it is stopping, None while it is not
  late,       \* history: whether a store was there when its boot started
  made,       \* history: how many stores its boot has made
  starts, faults

db     == <<ledger, ran, lock>>
engine == <<stores, reconciled>>
mine   == <<image, known, next, open, bound, attempt, cause>>
history == <<late, made>>
vars   == <<db, engine, pc, mine, history, starts, faults>>

Migrating == {"read", "files", "sql", "unlock"}
Asking    == {"find", "create", "model", "write"}
Stages    == {"down", "connect", "probe", "reconcile", "listen"} \cup Migrating \cup Asking
NoRows    == [f \in Files |-> None]

Init ==
  /\ ledger = NoRows /\ ran = [f \in Files |-> 0] /\ lock = None
  /\ stores = <<>> /\ reconciled = {}
  /\ pc = [p \in Replicas |-> "down"]
  /\ image = [p \in Replicas |-> CHOOSE i \in Images : TRUE]
  /\ known = [p \in Replicas |-> NoRows]
  /\ next = [p \in Replicas |-> 1]
  /\ open = [p \in Replicas |-> {}]
  /\ bound = [p \in Replicas |-> None]
  /\ attempt = [p \in Replicas |-> 1]
  /\ cause = [p \in Replicas |-> None]
  /\ late = [p \in Replicas |-> FALSE]
  /\ made = [p \in Replicas |-> 0]
  /\ starts = 0 /\ faults = 0

Goto(p, stage) == pc' = [pc EXCEPT ![p] = stage]
Fault == faults < MaxFaults /\ faults' = faults + 1

-----------------------------------------------------------------------------
(* A container starts, from any image: a rollout, a rollback, a restart.   *)
Start(p, i) ==
  /\ pc[p] = "down" /\ starts < MaxStarts
  /\ starts' = starts + 1
  /\ image' = [image EXCEPT ![p] = i]
  /\ known' = [known EXCEPT ![p] = NoRows]
  /\ next' = [next EXCEPT ![p] = 1]
  /\ open' = [open EXCEPT ![p] = {}]
  /\ bound' = [bound EXCEPT ![p] = None]
  /\ attempt' = [attempt EXCEPT ![p] = 1]
  /\ cause' = [cause EXCEPT ![p] = None]
  /\ late' = [late EXCEPT ![p] = stores # <<>>]
  /\ made' = [made EXCEPT ![p] = 0]
  /\ Goto(p, "connect")
  /\ UNCHANGED <<db, engine, faults>>

(* Mutant: the lock is not asked for.                                      *)
NoLock(p) ==
  /\ pc[p] = "connect"
  /\ Goto(p, "read")
  /\ UNCHANGED <<db, engine, mine, history, starts, faults>>

(* pg_advisory_lock waits until the lock is free. *)
TakeLock(p) ==
  /\ pc[p] = "connect" /\ lock = None
  /\ lock' = p
  /\ Goto(p, "read")
  /\ UNCHANGED <<ledger, ran, engine, mine, history, starts, faults>>

(* ensureLedger and the read of the whole ledger. *)
ReadLedger(p) ==
  /\ pc[p] = "read"
  /\ known' = [known EXCEPT ![p] = ledger]
  /\ Goto(p, "files")
  /\ UNCHANGED <<db, engine, image, next, open, bound, attempt, cause, history, starts, faults>>

Current(p) == Plan[image[p]][next[p]]
HasFile(p) == next[p] <= Len(Plan[image[p]])

(* Mutant: a file found in the ledger is skipped whatever it says now. *)
DriftIgnored(p) == FALSE

(* The file is in the ledger under another checksum. *)
Drifted(p) ==
  LET recorded == known[p][Current(p)]
  IN  recorded # None /\ recorded # Sum[image[p]][Current(p)]

SkipFile(p) ==
  /\ pc[p] = "files" /\ HasFile(p)
  /\ known[p][Current(p)] # None /\ ~Drifted(p)
  /\ next' = [next EXCEPT ![p] = @ + 1]
  /\ UNCHANGED <<db, engine, pc, image, known, open, bound, attempt, cause, history, starts, faults>>

RefuseDrift(p) ==
  /\ pc[p] = "files" /\ HasFile(p)
  /\ Drifted(p)
  /\ cause' = [cause EXCEPT ![p] = "drift"]
  /\ Goto(p, "unlock")
  /\ UNCHANGED <<db, engine, image, known, next, open, bound, attempt, history, starts, faults>>

(* Mutant: no BEGIN, the file's SQL commits as it runs. *)
RunAtOnce(p) ==
  /\ pc[p] = "files" /\ HasFile(p)
  /\ known[p][Current(p)] = None
  /\ ran' = [ran EXCEPT ![Current(p)] = @ + 1]
  /\ Goto(p, "sql")
  /\ UNCHANGED <<ledger, lock, engine, mine, history, starts, faults>>

(* BEGIN and the file's SQL. *)
RunSql(p) ==
  /\ pc[p] = "files" /\ HasFile(p)
  /\ known[p][Current(p)] = None
  /\ open' = [open EXCEPT ![p] = {Current(p)}]
  /\ Goto(p, "sql")
  /\ UNCHANGED <<db, engine, image, known, next, bound, attempt, cause, history, starts, faults>>

RowIsThere(p) == ledger[Current(p)] # None

(* What COMMIT makes durable: the open SQL and the ledger row.  A row that *)
(* is there already breaks the ledger's primary key, and the transaction   *)
(* is rolled back.                                                         *)
Committed(p) ==
  /\ ledger' = [ledger EXCEPT
       ![Current(p)] = IF RowIsThere(p) THEN @ ELSE Sum[image[p]][Current(p)]]
  /\ ran' = [f \in Files |->
       IF f \in open[p] /\ ~RowIsThere(p) THEN ran[f] + 1 ELSE ran[f]]
  /\ open' = [open EXCEPT ![p] = {}]

(* The ledger row and COMMIT. *)
CommitFile(p) ==
  /\ pc[p] = "sql"
  /\ Committed(p)
  /\ next' = [next EXCEPT ![p] = IF RowIsThere(p) THEN @ ELSE @ + 1]
  /\ cause' = [cause EXCEPT ![p] = IF RowIsThere(p) THEN "conflict" ELSE @]
  /\ Goto(p, IF RowIsThere(p) THEN "unlock" ELSE "files")
  /\ UNCHANGED <<lock, engine, image, known, bound, attempt, history, starts, faults>>

(* The SQL or the insert fails: ROLLBACK, and the runner throws. *)
FileFails(p) ==
  /\ pc[p] = "sql" /\ Fault
  /\ open' = [open EXCEPT ![p] = {}]
  /\ cause' = [cause EXCEPT ![p] = "fault"]
  /\ Goto(p, "unlock")
  /\ UNCHANGED <<db, engine, image, known, next, bound, attempt, history, starts>>

(* COMMIT takes effect and its answer is lost: the runner throws too. *)
CommitUnheard(p) ==
  /\ pc[p] = "sql" /\ ~RowIsThere(p) /\ Fault
  /\ Committed(p)
  /\ cause' = [cause EXCEPT ![p] = "fault"]
  /\ Goto(p, "unlock")
  /\ UNCHANGED <<lock, engine, image, known, next, bound, attempt, history, starts>>

FilesDone(p) ==
  /\ pc[p] = "files" /\ ~HasFile(p)
  /\ Goto(p, "unlock")
  /\ UNCHANGED <<db, engine, mine, history, starts, faults>>

AfterUnlock(p) == IF cause[p] = None THEN "probe" ELSE "down"

(* Mutant: the client goes back to the pool with the session lock held. *)
ReleaseOnly(p) ==
  /\ pc[p] = "unlock"
  /\ Goto(p, AfterUnlock(p))
  /\ UNCHANGED <<db, engine, mine, history, starts, faults>>

(* The finally: unlock, release; a runner that threw ends the process. *)
Unlock(p) ==
  /\ pc[p] = "unlock"
  /\ lock' = None
  /\ Goto(p, AfterUnlock(p))
  /\ UNCHANGED <<ledger, ran, engine, mine, history, starts, faults>>

(* assertStoreCapabilities. *)
Probe(p) ==
  /\ pc[p] = "probe"
  /\ Goto(p, "find")
  /\ UNCHANGED <<db, engine, mine, history, starts, faults>>

-----------------------------------------------------------------------------
(* findOrCreateStore's listing, over all pages: the first of that name, in *)
(* whatever order the engine lists them.                                   *)
FindStore(p) ==
  /\ pc[p] = "find"
  /\ \/ stores = <<>> /\ Goto(p, "create") /\ UNCHANGED bound
     \/ \E s \in 1..Len(stores) :
          bound' = [bound EXCEPT ![p] = s] /\ Goto(p, "model")
  /\ UNCHANGED <<db, engine, image, known, next, open, attempt, cause, history, starts, faults>>

(* Names are not unique in the engine: it makes another store.             *)
Created(p) ==
  /\ stores' = Append(stores, <<>>)
  /\ made' = [made EXCEPT ![p] = @ + 1]

CreateStore(p) ==
  /\ pc[p] = "create"
  /\ Created(p)
  /\ bound' = [bound EXCEPT ![p] = Len(stores) + 1]
  /\ Goto(p, "model")
  /\ UNCHANGED <<db, reconciled, image, known, next, open, attempt, cause, late, starts, faults>>

Latest(s) == IF stores[s] = <<>> THEN None ELSE stores[s][Len(stores[s])]

(* readLatestAuthorizationModel and the comparison with the image's own;   *)
(* a read that fails counts as no model.                                   *)
ReadModel(p) ==
  /\ pc[p] = "model"
  /\ Goto(p, IF Latest(bound[p]) = image[p] THEN "reconcile" ELSE "write")
  /\ UNCHANGED <<db, engine, mine, history, starts, faults>>

ReadModelFails(p) ==
  /\ pc[p] = "model" /\ Fault
  /\ Goto(p, "write")
  /\ UNCHANGED <<db, engine, mine, history, starts>>

Written(p) == stores' = [stores EXCEPT ![bound[p]] = Append(@, image[p])]

WriteModel(p) ==
  /\ pc[p] = "write"
  /\ Written(p)
  /\ Goto(p, "reconcile")
  /\ UNCHANGED <<db, reconciled, mine, history, starts, faults>>

(* Mutant: a creation that failed is tried again without a new listing.    *)
RetryInPlace(p) ==
  Goto(p, IF attempt[p] < Attempts
          THEN IF pc[p] = "create" THEN "create" ELSE "find"
          ELSE "down")

(* retryForStartup: the whole bootstrap again, or the end of the boot. *)
Retry(p) == Goto(p, IF attempt[p] < Attempts THEN "find" ELSE "down")

(* The call that takes part in a failed attempt. *)
EngineCall(p) ==
  \/ pc[p] \in {"find", "create", "write"} /\ UNCHANGED <<stores, made>>
  \/ pc[p] = "create" /\ Created(p)
  \/ pc[p] = "write" /\ Written(p) /\ UNCHANGED made

(* An engine call fails, before or after it took effect. *)
AttemptFails(p) ==
  /\ EngineCall(p) /\ Fault
  /\ Retry(p)
  /\ bound' = [bound EXCEPT ![p] = None]
  /\ attempt' = [attempt EXCEPT ![p] = @ + 1]
  /\ cause' = [cause EXCEPT ![p] = IF attempt[p] < Attempts THEN None ELSE "fault"]
  /\ UNCHANGED <<db, reconciled, image, known, next, open, late, starts>>

(* reconcileAuthzOnce against the bound store, then the listeners. *)
Reconcile(p) ==
  /\ pc[p] = "reconcile"
  /\ reconciled' = reconciled \cup {bound[p]}
  /\ Goto(p, "listen")
  /\ UNCHANGED <<db, stores, mine, history, starts, faults>>

(* The end of a process: its memory goes, and its session's lock and       *)
(* transaction with it.                                                    *)
Gone(p) ==
  /\ lock' = IF lock = p THEN None ELSE lock
  /\ known' = [known EXCEPT ![p] = NoRows]
  /\ next' = [next EXCEPT ![p] = 1]
  /\ open' = [open EXCEPT ![p] = {}]
  /\ bound' = [bound EXCEPT ![p] = None]
  /\ attempt' = [attempt EXCEPT ![p] = 1]
  /\ Goto(p, "down")
  /\ UNCHANGED <<ledger, ran, engine, image, history, starts>>

(* A kill at any point of the boot, and the errors nothing retries (the    *)
(* capability probe, the reconcile), which end the process all the same.   *)
Crash(p) ==
  /\ pc[p] \notin {"down", "listen"} /\ Fault
  /\ cause' = [cause EXCEPT ![p] = "fault"]
  /\ Gone(p)

(* SIGTERM or the end of a listening process. *)
Stop(p) ==
  /\ pc[p] = "listen"
  /\ UNCHANGED <<cause, faults>>
  /\ Gone(p)

-----------------------------------------------------------------------------
Migrate(p) ==
  \/ ReadLedger(p) \/ SkipFile(p) \/ RefuseDrift(p) \/ RunSql(p)
  \/ CommitFile(p) \/ FilesDone(p) \/ Unlock(p)

Bootstrap(p) ==
  \/ Probe(p) \/ FindStore(p) \/ CreateStore(p)
  \/ ReadModel(p) \/ WriteModel(p) \/ Reconcile(p)

Failure(p) ==
  \/ FileFails(p) \/ CommitUnheard(p) \/ ReadModelFails(p)
  \/ AttemptFails(p) \/ Crash(p)

Next ==
  \E p \in Replicas :
    \/ \E i \in Images : Start(p, i)
    \/ TakeLock(p)
    \/ Migrate(p)
    \/ Bootstrap(p)
    \/ Failure(p)
    \/ Stop(p)

Spec == Init /\ [][Next]_vars

(* A process goes on with its boot, and Postgres serves the waiters of an  *)
(* advisory lock in the order they came, so none waits for ever while the  *)
(* lock keeps coming free.                                                 *)
FairSpec ==
  /\ Spec
  /\ \A p \in Replicas : /\ WF_vars(Migrate(p))
                         /\ WF_vars(Bootstrap(p))
                         /\ SF_vars(TakeLock(p))

-----------------------------------------------------------------------------
(* The variables keep their types; only the replica that holds the lock is *)
(* between taking and giving it back, and a store is bound from the moment *)
(* its model is asked for (migrate.ts:107-164, bootstrap.ts:119).          *)
TypeOK ==
  /\ ledger \in [Files -> Sums \cup {None}]
  /\ ran \in [Files -> Nat]
  /\ lock \in Replicas \cup {None}
  /\ stores \in Seq(Seq(Images))
  /\ reconciled \subseteq 1..Len(stores)
  /\ pc \in [Replicas -> Stages]
  /\ image \in [Replicas -> Images]
  /\ known \in [Replicas -> [Files -> Sums \cup {None}]]
  /\ next \in [Replicas -> Nat \ {0}]
  /\ open \in [Replicas -> SUBSET Files]
  /\ bound \in [Replicas -> Nat \cup {None}]
  /\ attempt \in [Replicas -> Nat]
  /\ cause \in [Replicas -> Causes \cup {None}]
  /\ late \in [Replicas -> BOOLEAN]
  /\ made \in [Replicas -> Nat]
  /\ starts \in Nat /\ faults \in Nat
  /\ \A p \in Replicas : (lock = p) <=> (pc[p] \in Migrating)
  /\ \A p \in Replicas :
       pc[p] \in {"model", "write", "reconcile"} => bound[p] \in 1..Len(stores)

(* A migration's SQL is in the schema exactly once if the ledger has its   *)
(* row and not at all otherwise, and never without the lower-numbered      *)
(* files of its source, whatever replicas ran at once and wherever one of  *)
(* them was killed ("Once", "Atomic per file", "Ordered", migrate.ts:20-33). *)
MigratedOnceInOrder ==
  /\ \A f \in Files : ran[f] = IF ledger[f] = None THEN 0 ELSE 1
  /\ \A f, g \in Files :
       (f.source = g.source /\ f.n < g.n /\ ran[g] > 0) => ran[f] > 0

(* A replica that listens has a schema in which every file of its image    *)
(* has run with the very content the image ships, and answers from a store *)
(* that holds its authorization model and whose tuples were reconciled     *)
(* (main.ts:99-102 "before any listener").                                 *)
ListenersAreReady ==
  \A p \in Replicas : pc[p] = "listen" =>
    /\ \A k \in 1..Len(Plan[image[p]]) :
         ledger[Plan[image[p]][k]] = Sum[image[p]][Plan[image[p]][k]]
    /\ bound[p] \in reconciled
    /\ \E m \in 1..Len(stores[bound[p]]) : stores[bound[p]][m] = image[p]

(* The stores of the name come from boots that started when there was none, *)
(* and each of those makes at most one, however its creation failed and was *)
(* tried again: a createStore whose answer was lost is found by the listing *)
(* the retry starts with ("find-or-create", bootstrap.ts:98-111).           *)
FirstBootsMakeTheStores ==
  \A p \in Replicas : made[p] <= IF late[p] THEN 0 ELSE 1

(* A boot gives up only over a changed file or a failed call, never because *)
(* of another replica's boot: the lock makes them "queue instead of racing" *)
(* (migrate.ts:32-33), so no insert meets a row the runner did not know of. *)
NoBootLosesARace == \A p \in Replicas : cause[p] # "conflict"

(* Every boot ends, with a replica that listens or that is down: nobody     *)
(* keeps the others waiting for the lock (finally, migrate.ts:162-166).     *)
EveryBootEnds ==
  \A p \in Replicas : (pc[p] = "connect") ~> (pc[p] \in {"listen", "down"})
=============================================================================
