------------------------ MODULE BootSequence_proofs ------------------------
(***************************************************************************)
(* Proofs about BootSequence, for any replicas, images and files, without  *)
(* the bounds on boots and faults: type correctness, that a migration runs *)
(* exactly once and in order, that no boot loses a race for a file, that   *)
(* who listens is ready, and that only first boots make the stores.        *)
(***************************************************************************)
EXTENDS BootSequence, TLAPS

FilesOf(p) == 1..Len(Plan[image[p]])
FileAt(p, k) == Plan[image[p]][k]
HasSum(p, k) == ledger[FileAt(p, k)] = Sum[image[p]][FileAt(p, k)]

Serving == {"model", "write", "reconcile", "listen"}
Migrated == {"probe"} \cup Asking \cup Serving

\* A transaction is open from the file's SQL to its COMMIT.
OpenFits == \A p \in Replicas :
  /\ pc[p] = "sql" => /\ HasFile(p) /\ known[p][Current(p)] = None
                      /\ open[p] = {Current(p)}
  /\ pc[p] # "sql" => open[p] = {}

\* What the loop has passed is in the ledger as the image has it.
Passed == \A p \in Replicas : pc[p] \in {"connect", "read", "files", "sql"} =>
  \A k \in FilesOf(p) : k < next[p] => HasSum(p, k)

\* And so is the whole plan, once the runner ended well.
Whole == \A p \in Replicas :
  pc[p] \in Migrated \/ (pc[p] = "unlock" /\ cause[p] = None) =>
    \A k \in FilesOf(p) : HasSum(p, k)

\* Nobody else writes while the runner holds the lock: what it read of the
\* files ahead of it is still so.
Fresh == \A p \in Replicas : pc[p] \in {"files", "sql"} =>
  \A k \in FilesOf(p) : k >= next[p] => known[p][FileAt(p, k)] = ledger[FileAt(p, k)]

Calm == \A p \in Replicas :
  /\ cause[p] # "conflict"
  /\ pc[p] \notin {"down", "unlock"} => cause[p] = None

\* The store a replica serves from, and what is in it.
Served == \A p \in Replicas :
  /\ pc[p] \in {"reconcile", "listen"} =>
       \E m \in 1..Len(stores[bound[p]]) : stores[bound[p]][m] = image[p]
  /\ pc[p] = "listen" => bound[p] \in reconciled

\* A boot that has made a store, or started when there was one, finds one.
Makers == \A p \in Replicas :
  /\ late[p] \/ made[p] > 0 => stores # <<>>
  /\ pc[p] = "create" => ~ late[p] /\ made[p] = 0
  /\ made[p] <= IF late[p] THEN 0 ELSE 1

Bounds == \A p \in Replicas : pc[p] \in Serving => bound[p] \in 1..Len(stores)

MInv == TypeOK /\ Bounds /\ MigratedOnceInOrder /\ OpenFits /\ Passed /\ Whole /\ Fresh /\ Calm
IInv == MInv /\ Served /\ Makers

-----------------------------------------------------------------------------
LEMMA NoneApart ==
  /\ None \notin Sums /\ None \notin Replicas /\ None \notin Images
  /\ None # "drift" /\ None # "fault" /\ None # "conflict"
BY BootAssumption DEF Causes

LEMMA PlanTypes ==
  ASSUME NEW i \in Images
  PROVE  /\ Plan[i] \in Seq(Files) /\ Len(Plan[i]) \in Nat
         /\ \A k \in 1..Len(Plan[i]) : Plan[i][k] \in Files
         /\ \A f \in Files : Sum[i][f] \in Sums /\ Sum[i][f] # None
BY BootAssumption

\* Nothing has started.
LEMMA InitIInv == Init => IInv
<1> SUFFICES ASSUME Init PROVE IInv
  OBVIOUS
<1>1. (CHOOSE i \in Images : TRUE) \in Images
  BY BootAssumption
<1>2. QED
  BY <1>1, NoneApart, BootAssumption
     DEF Init, NoRows, IInv, MInv, TypeOK, Bounds, MigratedOnceInOrder, OpenFits, Passed,
         Whole, Fresh, Calm, Served, Makers, Serving, Migrated, Asking, Migrating, Stages,
         Causes

\* One replica migrates at a time.
LEMMA Alone ==
  ASSUME TypeOK, NEW p \in Replicas, pc[p] \in Migrating, NEW q \in Replicas, q # p
  PROVE  pc[q] \notin Migrating
BY DEF TypeOK

\* A name for the file the loop is at.
LEMMA CurrentFile ==
  ASSUME TypeOK, NEW p \in Replicas, HasFile(p)
  PROVE  /\ Current(p) \in Files /\ image[p] \in Images
         /\ next[p] \in FilesOf(p) /\ Current(p) = FileAt(p, next[p])
         /\ Sum[image[p]][Current(p)] \in Sums
<1>1. image[p] \in Images /\ next[p] \in Nat \ {0}
  BY DEF TypeOK
<1>2. next[p] \in FilesOf(p)
  BY <1>1, PlanTypes DEF HasFile, FilesOf
<1>3. QED
  BY <1>1, <1>2, PlanTypes DEF Current, FileAt, FilesOf

\* A plan lists the lower-numbered files of a source first.
LEMMA PlanOrder ==
  ASSUME NEW i \in Images, NEW k \in 1..Len(Plan[i]), NEW f \in Files,
         f.source = Plan[i][k].source, f.n < Plan[i][k].n
  PROVE  \E j \in 1..(k - 1) : Plan[i][j] = f
BY BootAssumption

\* The loop meets no file twice.
LEMMA PlanOnce ==
  ASSUME TypeOK, NEW p \in Replicas, NEW j \in FilesOf(p), NEW k \in FilesOf(p),
         FileAt(p, j) = FileAt(p, k)
  PROVE  j = k
<1>1. image[p] \in Images
  BY DEF TypeOK
<1>2. QED
  BY <1>1, BootAssumption DEF FilesOf, FileAt

\* What is about to be committed is not there yet, and what comes before it is.
LEMMA Pending ==
  ASSUME MInv, NEW p \in Replicas, pc[p] = "sql"
  PROVE  /\ HasFile(p) /\ open[p] = {Current(p)}
         /\ ~ RowIsThere(p) /\ ran[Current(p)] = 0
         /\ \A f \in Files : f.source = Current(p).source /\ f.n < Current(p).n => ran[f] = 1
<1>1. HasFile(p) /\ open[p] = {Current(p)} /\ known[p][Current(p)] = None
  BY DEF MInv, OpenFits
<1>2. /\ Current(p) \in Files /\ image[p] \in Images
      /\ next[p] \in FilesOf(p) /\ Current(p) = FileAt(p, next[p])
  BY <1>1, CurrentFile DEF MInv
<1>3. next[p] \in Nat
  BY DEF MInv, TypeOK
<1>4. ledger[Current(p)] = None
  BY <1>1, <1>2, <1>3 DEF MInv, Fresh
<1>5. ASSUME NEW f \in Files, f.source = Current(p).source, f.n < Current(p).n
      PROVE  ran[f] = 1
  <2>0. /\ image[p] \in Images /\ next[p] \in 1..Len(Plan[image[p]])
        /\ f.source = Plan[image[p]][next[p]].source /\ f.n < Plan[image[p]][next[p]].n
    BY <1>2, <1>5 DEF FilesOf, FileAt
  <2>1. PICK j \in 1..(next[p] - 1) : Plan[image[p]][j] = f
    BY <2>0, PlanOrder
  <2>2. j \in FilesOf(p) /\ j < next[p] /\ FileAt(p, j) = f
    BY <1>2, <1>3, <2>1, PlanTypes DEF FilesOf, FileAt
  <2>3. ledger[f] = Sum[image[p]][f]
    BY <2>2 DEF MInv, Passed, HasSum
  <2>4. QED
    BY <1>2, <1>5, <2>3, PlanTypes DEF MInv, MigratedOnceInOrder
<1>6. QED
  BY <1>1, <1>2, <1>4, <1>5 DEF RowIsThere, MInv, MigratedOnceInOrder

\* A COMMIT adds the current file's row and its one run, and nothing else.
LEMMA Commits ==
  ASSUME MInv, NEW p \in Replicas, pc[p] = "sql", Committed(p)
  PROVE  /\ ledger' = [ledger EXCEPT ![Current(p)] = Sum[image[p]][Current(p)]]
         /\ ran' = [ran EXCEPT ![Current(p)] = 1]
         /\ Current(p) \in Files /\ Sum[image[p]][Current(p)] \in Sums
         /\ ledger[Current(p)] = None
         /\ MigratedOnceInOrder'
         /\ ledger' \in [Files -> Sums \cup {None}] /\ ran' \in [Files -> Nat]
<1>1. /\ HasFile(p) /\ open[p] = {Current(p)} /\ ~ RowIsThere(p) /\ ran[Current(p)] = 0
      /\ \A f \in Files : f.source = Current(p).source /\ f.n < Current(p).n => ran[f] = 1
  BY Pending
<1>2. Current(p) \in Files /\ Sum[image[p]][Current(p)] \in Sums
  BY <1>1, CurrentFile DEF MInv
<1>3. ledger' = [ledger EXCEPT ![Current(p)] = Sum[image[p]][Current(p)]]
  BY <1>1 DEF Committed
<1>4. ran \in [Files -> Nat] /\ ledger \in [Files -> Sums \cup {None}]
  BY DEF MInv, TypeOK
<1>5. ran' = [ran EXCEPT ![Current(p)] = 1]
  <2>1. ran' = [f \in Files |-> IF f = Current(p) THEN ran[f] + 1 ELSE ran[f]]
    BY <1>1, <1>2, <1>4 DEF Committed
  <2>2. ran' = [f \in Files |-> IF f = Current(p) THEN 1 ELSE ran[f]]
    BY <1>1, <1>2, <1>4, <2>1
  <2>3. QED
    BY <1>2, <1>4, <2>2
<1>6. MigratedOnceInOrder'
  <2> USE <1>1, <1>2, <1>3, <1>4, <1>5, NoneApart
  <2>1. \A f \in Files : ran'[f] = IF ledger'[f] = None THEN 0 ELSE 1
    BY DEF MInv, MigratedOnceInOrder
  <2>2. ASSUME NEW f \in Files, NEW g \in Files, f.source = g.source, f.n < g.n, ran'[g] > 0
        PROVE  ran'[f] > 0
    BY <2>2 DEF MInv, MigratedOnceInOrder
  <2>3. QED
    BY <2>1, <2>2 DEF MigratedOnceInOrder
<1>7. QED
  BY <1>1, <1>2, <1>3, <1>4, <1>5, <1>6 DEF RowIsThere

\* A row of the ledger is there for good.
LEMMA RowsStand ==
  ASSUME MInv, NEW p \in Replicas, pc[p] = "sql", Committed(p), NEW f \in Files, ledger[f] # None
  PROVE  ledger'[f] = ledger[f]
BY Commits DEF MInv, TypeOK

\* Nor does a COMMIT touch the rows of the files after its own.
LEMMA OthersStand ==
  ASSUME MInv, NEW p \in Replicas, pc[p] = "sql", Committed(p),
         NEW k \in FilesOf(p), k # next[p]
  PROVE  ledger'[FileAt(p, k)] = ledger[FileAt(p, k)]
<1>1. HasFile(p) /\ next[p] \in FilesOf(p) /\ Current(p) = FileAt(p, next[p]) /\ image[p] \in Images
  BY Pending, CurrentFile DEF MInv
<1>2. FileAt(p, k) # Current(p) /\ FileAt(p, k) \in Files
  BY <1>1, PlanOnce, PlanTypes DEF MInv, FileAt, FilesOf
<1>3. QED
  BY <1>2, Commits DEF MInv, TypeOK

\* A container that starts forgets what ran in it before.
LEMMA StartKeeps == ASSUME NEW p \in Replicas, NEW i \in Images, IInv, Start(p, i) PROVE (MInv /\ Served)'
<1> USE NoneApart DEF IInv, MInv, Start, Goto, db, engine, mine, history, NoRows
<1>1. TypeOK'
  <2>1. /\ ledger' \in [Files -> Sums \cup {None}] /\ ran' \in [Files -> Nat]
        /\ lock' \in Replicas \cup {None}
        /\ image' \in [Replicas -> Images] /\ next' \in [Replicas -> Nat \ {0}]
        /\ open' \in [Replicas -> SUBSET Files] /\ late' \in [Replicas -> BOOLEAN] /\ made' \in [Replicas -> Nat]
        /\ starts' \in Nat /\ faults' \in Nat
    BY PlanTypes, BootAssumption DEF TypeOK
  <2>2. /\ pc' \in [Replicas -> Stages] /\ cause' \in [Replicas -> Causes \cup {None}]
        /\ attempt' \in [Replicas -> Nat] /\ bound' \in [Replicas -> Nat \cup {None}]
    BY DEF TypeOK, Stages, Migrating, Asking, Causes
  <2>3. known' \in [Replicas -> [Files -> Sums \cup {None}]]
    BY DEF TypeOK
  <2>4. stores' \in Seq(Seq(Images)) /\ reconciled' \subseteq 1..Len(stores')
    BY DEF TypeOK
  <2>5. \A q \in Replicas : (lock' = q) <=> (pc'[q] \in Migrating)
    BY NoneApart DEF TypeOK, Stages, Migrating, Asking
  <2>6. \A q \in Replicas : pc'[q] \in {"model", "write", "reconcile"} => bound'[q] \in 1..Len(stores')
    BY DEF TypeOK, Stages, Migrating, Asking
  <2>7. QED
    BY <2>1, <2>2, <2>3, <2>4, <2>5, <2>6 DEF TypeOK
<1>2. Bounds'
  BY PlanTypes DEF TypeOK, Bounds, Serving, Stages, Migrating, Asking
<1>3. MigratedOnceInOrder'
  BY PlanTypes DEF TypeOK, MigratedOnceInOrder
<1>4. OpenFits'
  BY PlanTypes DEF TypeOK, OpenFits, HasFile, Current
<1>5. Passed'
  BY PlanTypes DEF TypeOK, Passed, HasSum, FileAt, FilesOf
<1>6. Whole'
  BY PlanTypes DEF TypeOK, Whole, HasSum, FileAt, FilesOf, Migrated, Asking, Serving, Calm
<1>7. Fresh'
  BY PlanTypes DEF TypeOK, Fresh, FileAt, FilesOf
<1>8. Calm'
  BY PlanTypes DEF TypeOK, Calm, Causes
<1>9. Served'
  BY PlanTypes DEF TypeOK, Bounds, Served, Serving
<1>10. QED
  BY <1>1, <1>2, <1>3, <1>4, <1>5, <1>6, <1>7, <1>8, <1>9

\* Whoever takes the lock is the only one to migrate.
LEMMA TakeLockKeeps == ASSUME NEW p \in Replicas, IInv, TakeLock(p) PROVE (MInv /\ Served)'
<1> USE NoneApart DEF IInv, MInv, TakeLock, Goto, db, engine, mine, history
<1>1. TypeOK'
  BY PlanTypes DEF TypeOK, Stages, Migrating, Asking, Causes
<1>2. Bounds'
  BY PlanTypes DEF TypeOK, Bounds, Serving, Stages, Migrating, Asking
<1>3. MigratedOnceInOrder'
  BY PlanTypes DEF TypeOK, MigratedOnceInOrder
<1>4. OpenFits'
  BY PlanTypes DEF TypeOK, OpenFits, HasFile, Current
<1>5. Passed'
  <2> DEFINE Passing(q) == \A k \in FilesOf(q) : k < next[q] => HasSum(q, k)
             Due(q) == pc[q] \in {"connect", "read", "files", "sql"}
  <2>1. \A q \in Replicas : Passing(q)' = Passing(q)
    BY DEF FilesOf, HasSum, FileAt
  <2>2. \A q \in Replicas : q # p => pc'[q] = pc[q] /\ cause'[q] = cause[q]
    BY DEF TypeOK
  <2>3. Due(p)' => Due(p)
    BY DEF TypeOK
  <2>4. \A q \in Replicas : Due(q) => Passing(q)
    BY DEF Passed
  <2> HIDE DEF Passing
  <2>5. \A q \in Replicas : Due(q)' => Passing(q)'
    BY <2>1, <2>2, <2>3, <2>4
  <2>6. QED
    BY <2>5 DEF Passed, Passing
<1>6. Whole'
  <2> DEFINE Said(q) == \A k \in FilesOf(q) : HasSum(q, k)
             Due(q) == pc[q] \in Migrated \/ (pc[q] = "unlock" /\ cause[q] = None)
  <2>1. \A q \in Replicas : Said(q)' = Said(q)
    BY DEF FilesOf, HasSum, FileAt
  <2>2. \A q \in Replicas : q # p => pc'[q] = pc[q] /\ cause'[q] = cause[q]
    BY DEF TypeOK
  <2>3. Due(p)' => Due(p)
    BY DEF TypeOK, Migrated, Asking, Serving, Calm
  <2>4. \A q \in Replicas : Due(q) => Said(q)
    BY DEF Whole
  <2> HIDE DEF Said
  <2>5. \A q \in Replicas : Due(q)' => Said(q)'
    BY <2>1, <2>2, <2>3, <2>4
  <2>6. QED
    BY <2>5 DEF Whole, Said
<1>7. Fresh'
  <2> DEFINE Ahead(q) == \A k \in FilesOf(q) : k >= next[q] =>
                         known[q][FileAt(q, k)] = ledger[FileAt(q, k)]
             Due(q) == pc[q] \in {"files", "sql"}
  <2>1. \A q \in Replicas : Ahead(q)' = Ahead(q)
    BY DEF FilesOf, HasSum, FileAt
  <2>2. \A q \in Replicas : q # p => pc'[q] = pc[q] /\ cause'[q] = cause[q]
    BY DEF TypeOK
  <2>3. Due(p)' => Due(p)
    BY DEF TypeOK
  <2>4. \A q \in Replicas : Due(q) => Ahead(q)
    BY DEF Fresh
  <2> HIDE DEF Ahead
  <2>5. \A q \in Replicas : Due(q)' => Ahead(q)'
    BY <2>1, <2>2, <2>3, <2>4
  <2>6. QED
    BY <2>5 DEF Fresh, Ahead
<1>8. Calm'
  BY PlanTypes DEF TypeOK, Calm, Causes
<1>9. Served'
  BY PlanTypes DEF TypeOK, Bounds, Served, Serving
<1>10. QED
  BY <1>1, <1>2, <1>3, <1>4, <1>5, <1>6, <1>7, <1>8, <1>9

\* The ledger as read is the ledger.
LEMMA ReadLedgerKeeps == ASSUME NEW p \in Replicas, IInv, ReadLedger(p) PROVE (MInv /\ Served)'
<1> USE NoneApart DEF IInv, MInv, ReadLedger, Goto, db, engine, mine, history
<1>1. TypeOK'
  BY PlanTypes DEF TypeOK, Stages, Migrating, Asking, Causes
<1>2. Bounds'
  BY PlanTypes DEF TypeOK, Bounds, Serving, Stages, Migrating, Asking
<1>3. MigratedOnceInOrder'
  BY PlanTypes DEF TypeOK, MigratedOnceInOrder
<1>4. OpenFits'
  BY PlanTypes DEF TypeOK, OpenFits, HasFile, Current
<1>5. Passed'
  <2> DEFINE Passing(q) == \A k \in FilesOf(q) : k < next[q] => HasSum(q, k)
             Due(q) == pc[q] \in {"connect", "read", "files", "sql"}
  <2>1. \A q \in Replicas : Passing(q)' = Passing(q)
    BY DEF FilesOf, HasSum, FileAt
  <2>2. \A q \in Replicas : q # p => pc'[q] = pc[q] /\ cause'[q] = cause[q]
    BY DEF TypeOK
  <2>3. Due(p)' => Due(p)
    BY DEF TypeOK
  <2>4. \A q \in Replicas : Due(q) => Passing(q)
    BY DEF Passed
  <2> HIDE DEF Passing
  <2>5. \A q \in Replicas : Due(q)' => Passing(q)'
    BY <2>1, <2>2, <2>3, <2>4
  <2>6. QED
    BY <2>5 DEF Passed, Passing
<1>6. Whole'
  <2> DEFINE Said(q) == \A k \in FilesOf(q) : HasSum(q, k)
             Due(q) == pc[q] \in Migrated \/ (pc[q] = "unlock" /\ cause[q] = None)
  <2>1. \A q \in Replicas : Said(q)' = Said(q)
    BY DEF FilesOf, HasSum, FileAt
  <2>2. \A q \in Replicas : q # p => pc'[q] = pc[q] /\ cause'[q] = cause[q]
    BY DEF TypeOK
  <2>3. Due(p)' => Due(p)
    BY DEF TypeOK, Migrated, Asking, Serving, Calm
  <2>4. \A q \in Replicas : Due(q) => Said(q)
    BY DEF Whole
  <2> HIDE DEF Said
  <2>5. \A q \in Replicas : Due(q)' => Said(q)'
    BY <2>1, <2>2, <2>3, <2>4
  <2>6. QED
    BY <2>5 DEF Whole, Said
<1>7. Fresh'
  BY PlanTypes DEF TypeOK, Fresh, FileAt, FilesOf
<1>8. Calm'
  BY PlanTypes DEF TypeOK, Calm, Causes
<1>9. Served'
  BY PlanTypes DEF TypeOK, Bounds, Served, Serving
<1>10. QED
  BY <1>1, <1>2, <1>3, <1>4, <1>5, <1>6, <1>7, <1>8, <1>9

\* A file that is skipped is in the ledger with its own sum.
LEMMA SkipFileKeeps == ASSUME NEW p \in Replicas, IInv, SkipFile(p) PROVE (MInv /\ Served)'
<1> USE NoneApart DEF IInv, MInv, SkipFile, Goto, db, engine, mine, history, Drifted, Current, HasFile
<1>1. TypeOK'
  <2>1. /\ ledger' \in [Files -> Sums \cup {None}] /\ ran' \in [Files -> Nat]
        /\ lock' \in Replicas \cup {None}
        /\ image' \in [Replicas -> Images] /\ late' \in [Replicas -> BOOLEAN] /\ made' \in [Replicas -> Nat]
        /\ starts' \in Nat /\ faults' \in Nat
    BY DEF TypeOK
  <2>8. next' \in [Replicas -> Nat \ {0}]
    BY DEF TypeOK
  <2>9. open' \in [Replicas -> SUBSET Files]
    BY DEF TypeOK
  <2>2. /\ pc' \in [Replicas -> Stages] /\ cause' \in [Replicas -> Causes \cup {None}]
        /\ attempt' \in [Replicas -> Nat] /\ bound' \in [Replicas -> Nat \cup {None}]
    BY DEF TypeOK, Stages, Migrating, Asking, Causes
  <2>3. known' \in [Replicas -> [Files -> Sums \cup {None}]]
    BY DEF TypeOK
  <2>4. stores' \in Seq(Seq(Images)) /\ reconciled' \subseteq 1..Len(stores')
    BY DEF TypeOK
  <2>5. \A q \in Replicas : (lock' = q) <=> (pc'[q] \in Migrating)
    BY NoneApart DEF TypeOK, Stages, Migrating, Asking
  <2>6. \A q \in Replicas : pc'[q] \in {"model", "write", "reconcile"} => bound'[q] \in 1..Len(stores')
    BY DEF TypeOK, Stages, Migrating, Asking
  <2>7. QED
    BY <2>1, <2>2, <2>3, <2>4, <2>5, <2>6, <2>8, <2>9 DEF TypeOK
<1>2. Bounds'
  BY PlanTypes DEF TypeOK, Bounds, Serving, Stages, Migrating, Asking
<1>3. MigratedOnceInOrder'
  BY PlanTypes DEF TypeOK, MigratedOnceInOrder
<1>4. OpenFits'
  BY PlanTypes DEF TypeOK, OpenFits, HasFile, Current
<1>5. Passed'
  <2> HasFile(p) /\ pc[p] = "files"
    BY DEF HasFile
  <2> /\ next[p] \in FilesOf(p) /\ Current(p) = FileAt(p, next[p]) /\ next[p] \in Nat \ {0}
      /\ image[p] \in Images
    BY CurrentFile DEF TypeOK
  <2>1. HasSum(p, next[p])
    BY DEF Fresh, HasSum, FilesOf, FileAt
  <2>2. ASSUME NEW k \in FilesOf(p), k < next[p] + 1 PROVE HasSum(p, k)
    BY <2>1, <2>2, PlanTypes DEF Passed, FilesOf
  <2>3. QED
    BY <2>2 DEF TypeOK, Passed, HasSum, FileAt, FilesOf
<1>6. Whole'
  <2> DEFINE Said(q) == \A k \in FilesOf(q) : HasSum(q, k)
             Due(q) == pc[q] \in Migrated \/ (pc[q] = "unlock" /\ cause[q] = None)
  <2>1. \A q \in Replicas : Said(q)' = Said(q)
    BY DEF FilesOf, HasSum, FileAt
  <2>2. \A q \in Replicas : q # p => pc'[q] = pc[q] /\ cause'[q] = cause[q]
    BY DEF TypeOK
  <2>3. Due(p)' => Due(p)
    BY DEF TypeOK, Migrated, Asking, Serving, Calm
  <2>4. \A q \in Replicas : Due(q) => Said(q)
    BY DEF Whole
  <2> HIDE DEF Said
  <2>5. \A q \in Replicas : Due(q)' => Said(q)'
    BY <2>1, <2>2, <2>3, <2>4
  <2>6. QED
    BY <2>5 DEF Whole, Said
<1>7. Fresh'
  <2> HasFile(p) /\ pc[p] = "files"
    BY DEF HasFile
  <2> /\ next[p] \in FilesOf(p) /\ Current(p) = FileAt(p, next[p]) /\ next[p] \in Nat \ {0}
      /\ image[p] \in Images
    BY CurrentFile DEF TypeOK
  <2>1. ASSUME NEW k \in FilesOf(p), k >= next[p] + 1 PROVE known[p][FileAt(p, k)] = ledger[FileAt(p, k)]
    BY <2>1, PlanTypes DEF Fresh, FilesOf
  <2>2. QED
    BY <2>1 DEF TypeOK, Fresh, FileAt, FilesOf
<1>8. Calm'
  BY PlanTypes DEF TypeOK, Calm, Causes
<1>9. Served'
  BY PlanTypes DEF TypeOK, Bounds, Served, Serving
<1>10. QED
  BY <1>1, <1>2, <1>3, <1>4, <1>5, <1>6, <1>7, <1>8, <1>9

\* A refusal ends the run with its cause.
LEMMA RefuseDriftKeeps == ASSUME NEW p \in Replicas, IInv, RefuseDrift(p) PROVE (MInv /\ Served)'
<1> USE NoneApart DEF IInv, MInv, RefuseDrift, Goto, db, engine, mine, history, Drifted, HasFile, Current
<1>1. TypeOK'
  BY PlanTypes DEF TypeOK, Stages, Migrating, Asking, Causes
<1>2. Bounds'
  BY PlanTypes DEF TypeOK, Bounds, Serving, Stages, Migrating, Asking
<1>3. MigratedOnceInOrder'
  BY PlanTypes DEF TypeOK, MigratedOnceInOrder
<1>4. OpenFits'
  BY PlanTypes DEF TypeOK, OpenFits, HasFile, Current
<1>5. Passed'
  <2> DEFINE Passing(q) == \A k \in FilesOf(q) : k < next[q] => HasSum(q, k)
             Due(q) == pc[q] \in {"connect", "read", "files", "sql"}
  <2>1. \A q \in Replicas : Passing(q)' = Passing(q)
    BY DEF FilesOf, HasSum, FileAt
  <2>2. \A q \in Replicas : q # p => pc'[q] = pc[q] /\ cause'[q] = cause[q]
    BY DEF TypeOK
  <2>3. Due(p)' => Due(p)
    BY DEF TypeOK
  <2>4. \A q \in Replicas : Due(q) => Passing(q)
    BY DEF Passed
  <2> HIDE DEF Passing
  <2>5. \A q \in Replicas : Due(q)' => Passing(q)'
    BY <2>1, <2>2, <2>3, <2>4
  <2>6. QED
    BY <2>5 DEF Passed, Passing
<1>6. Whole'
  <2> DEFINE Said(q) == \A k \in FilesOf(q) : HasSum(q, k)
             Due(q) == pc[q] \in Migrated \/ (pc[q] = "unlock" /\ cause[q] = None)
  <2>1. \A q \in Replicas : Said(q)' = Said(q)
    BY DEF FilesOf, HasSum, FileAt
  <2>2. \A q \in Replicas : q # p => pc'[q] = pc[q] /\ cause'[q] = cause[q]
    BY DEF TypeOK
  <2>3. Due(p)' => Due(p)
    BY DEF TypeOK, Migrated, Asking, Serving, Calm
  <2>4. \A q \in Replicas : Due(q) => Said(q)
    BY DEF Whole
  <2> HIDE DEF Said
  <2>5. \A q \in Replicas : Due(q)' => Said(q)'
    BY <2>1, <2>2, <2>3, <2>4
  <2>6. QED
    BY <2>5 DEF Whole, Said
<1>7. Fresh'
  <2> DEFINE Ahead(q) == \A k \in FilesOf(q) : k >= next[q] =>
                         known[q][FileAt(q, k)] = ledger[FileAt(q, k)]
             Due(q) == pc[q] \in {"files", "sql"}
  <2>1. \A q \in Replicas : Ahead(q)' = Ahead(q)
    BY DEF FilesOf, HasSum, FileAt
  <2>2. \A q \in Replicas : q # p => pc'[q] = pc[q] /\ cause'[q] = cause[q]
    BY DEF TypeOK
  <2>3. Due(p)' => Due(p)
    BY DEF TypeOK
  <2>4. \A q \in Replicas : Due(q) => Ahead(q)
    BY DEF Fresh
  <2> HIDE DEF Ahead
  <2>5. \A q \in Replicas : Due(q)' => Ahead(q)'
    BY <2>1, <2>2, <2>3, <2>4
  <2>6. QED
    BY <2>5 DEF Fresh, Ahead
<1>8. Calm'
  BY PlanTypes DEF TypeOK, Calm, Causes
<1>9. Served'
  BY PlanTypes DEF TypeOK, Bounds, Served, Serving
<1>10. QED
  BY <1>1, <1>2, <1>3, <1>4, <1>5, <1>6, <1>7, <1>8, <1>9

\* The transaction holds the current file.
LEMMA RunSqlKeeps == ASSUME NEW p \in Replicas, IInv, RunSql(p) PROVE (MInv /\ Served)'
<1> USE NoneApart DEF IInv, MInv, RunSql, Goto, db, engine, mine, history, HasFile, Current
<1>1. TypeOK'
  <2>1. /\ ledger' \in [Files -> Sums \cup {None}] /\ ran' \in [Files -> Nat]
        /\ lock' \in Replicas \cup {None}
        /\ image' \in [Replicas -> Images] /\ late' \in [Replicas -> BOOLEAN] /\ made' \in [Replicas -> Nat]
        /\ starts' \in Nat /\ faults' \in Nat
    BY DEF TypeOK
  <2>8. next' \in [Replicas -> Nat \ {0}]
    BY DEF TypeOK
  <2>9. open' \in [Replicas -> SUBSET Files]
    <3>1. Current(p) \in Files
      BY CurrentFile, PlanTypes DEF TypeOK, HasFile, FilesOf, FileAt
    <3>2. QED
      BY <3>1 DEF TypeOK
  <2>2. /\ pc' \in [Replicas -> Stages] /\ cause' \in [Replicas -> Causes \cup {None}]
        /\ attempt' \in [Replicas -> Nat] /\ bound' \in [Replicas -> Nat \cup {None}]
    BY DEF TypeOK, Stages, Migrating, Asking, Causes
  <2>3. known' \in [Replicas -> [Files -> Sums \cup {None}]]
    BY DEF TypeOK
  <2>4. stores' \in Seq(Seq(Images)) /\ reconciled' \subseteq 1..Len(stores')
    BY DEF TypeOK
  <2>5. \A q \in Replicas : (lock' = q) <=> (pc'[q] \in Migrating)
    BY NoneApart DEF TypeOK, Stages, Migrating, Asking
  <2>6. \A q \in Replicas : pc'[q] \in {"model", "write", "reconcile"} => bound'[q] \in 1..Len(stores')
    BY DEF TypeOK, Stages, Migrating, Asking
  <2>7. QED
    BY <2>1, <2>2, <2>3, <2>4, <2>5, <2>6, <2>8, <2>9 DEF TypeOK
<1>2. Bounds'
  BY PlanTypes DEF TypeOK, Bounds, Serving, Stages, Migrating, Asking
<1>3. MigratedOnceInOrder'
  BY PlanTypes DEF TypeOK, MigratedOnceInOrder
<1>4. OpenFits'
  BY PlanTypes DEF TypeOK, OpenFits, HasFile, Current
<1>5. Passed'
  <2> DEFINE Said(q) == \A k \in FilesOf(q) : HasSum(q, k)
             Passing(q) == \A k \in FilesOf(q) : k < next[q] => HasSum(q, k)
             Ahead(q) == \A k \in FilesOf(q) : k >= next[q] => known[q][FileAt(q, k)] = ledger[FileAt(q, k)]
  <2>1. \A q \in Replicas : Said(q)' = Said(q) /\ Passing(q)' = Passing(q) /\ Ahead(q)' = Ahead(q)
    BY DEF FilesOf, HasSum, FileAt
  <2>2. \A q \in Replicas : q # p => pc'[q] = pc[q] /\ cause'[q] = cause[q]
    BY DEF TypeOK
  <2>3. pc[p] = "files" /\ pc'[p] = "sql"
    BY DEF TypeOK
  <2> HIDE DEF Said, Passing, Ahead
  <2>4. QED
    BY <2>1, <2>2, <2>3 DEF Passed, Said, Passing, Ahead, Migrated, Asking, Serving
<1>6. Whole'
  <2> DEFINE Said(q) == \A k \in FilesOf(q) : HasSum(q, k)
             Passing(q) == \A k \in FilesOf(q) : k < next[q] => HasSum(q, k)
             Ahead(q) == \A k \in FilesOf(q) : k >= next[q] => known[q][FileAt(q, k)] = ledger[FileAt(q, k)]
  <2>1. \A q \in Replicas : Said(q)' = Said(q) /\ Passing(q)' = Passing(q) /\ Ahead(q)' = Ahead(q)
    BY DEF FilesOf, HasSum, FileAt
  <2>2. \A q \in Replicas : q # p => pc'[q] = pc[q] /\ cause'[q] = cause[q]
    BY DEF TypeOK
  <2>3. pc[p] = "files" /\ pc'[p] = "sql"
    BY DEF TypeOK
  <2> HIDE DEF Said, Passing, Ahead
  <2>4. QED
    BY <2>1, <2>2, <2>3 DEF Whole, Said, Passing, Ahead, Migrated, Asking, Serving
<1>7. Fresh'
  <2> DEFINE Said(q) == \A k \in FilesOf(q) : HasSum(q, k)
             Passing(q) == \A k \in FilesOf(q) : k < next[q] => HasSum(q, k)
             Ahead(q) == \A k \in FilesOf(q) : k >= next[q] => known[q][FileAt(q, k)] = ledger[FileAt(q, k)]
  <2>1. \A q \in Replicas : Said(q)' = Said(q) /\ Passing(q)' = Passing(q) /\ Ahead(q)' = Ahead(q)
    BY DEF FilesOf, HasSum, FileAt
  <2>2. \A q \in Replicas : q # p => pc'[q] = pc[q] /\ cause'[q] = cause[q]
    BY DEF TypeOK
  <2>3. pc[p] = "files" /\ pc'[p] = "sql"
    BY DEF TypeOK
  <2> HIDE DEF Said, Passing, Ahead
  <2>4. QED
    BY <2>1, <2>2, <2>3 DEF Fresh, Said, Passing, Ahead, Migrated, Asking, Serving
<1>8. Calm'
  BY PlanTypes DEF TypeOK, Calm, Causes
<1>9. Served'
  BY PlanTypes DEF TypeOK, Bounds, Served, Serving
<1>10. QED
  BY <1>1, <1>2, <1>3, <1>4, <1>5, <1>6, <1>7, <1>8, <1>9

\* COMMIT adds a row, and takes none away.
LEMMA CommitFileKeeps == ASSUME NEW p \in Replicas, IInv, CommitFile(p) PROVE (MInv /\ Served)'
<1> USE NoneApart DEF IInv
<1>1. /\ pc[p] = "sql" /\ Committed(p) /\ MInv /\ TypeOK
      /\ open' = [open EXCEPT ![p] = {}]
      /\ UNCHANGED <<lock, engine, image, known, bound, attempt, history, starts>>
  BY DEF CommitFile, Committed, MInv
<1>2. /\ HasFile(p) /\ next[p] \in FilesOf(p) /\ Current(p) = FileAt(p, next[p])
      /\ image[p] \in Images /\ ~ RowIsThere(p) /\ next[p] \in Nat \ {0}
  BY <1>1, Pending, CurrentFile DEF TypeOK
<1>3. /\ pc' = [pc EXCEPT ![p] = "files"]
      /\ next' = [next EXCEPT ![p] = @ + 1] /\ cause' = cause /\ faults' = faults
  BY <1>1, <1>2 DEF CommitFile, Goto, Fault, TypeOK
<1>4. /\ MigratedOnceInOrder' /\ ledger'[Current(p)] = Sum[image[p]][Current(p)]
      /\ ledger' \in [Files -> Sums \cup {None}] /\ ran' \in [Files -> Nat]
  BY <1>1, Commits DEF TypeOK
<1>5. \A f \in Files : ledger[f] # None => ledger'[f] = ledger[f]
  BY <1>1, RowsStand
<1>6. \A k \in FilesOf(p) : k # next[p] => ledger'[FileAt(p, k)] = ledger[FileAt(p, k)]
  BY <1>1, OthersStand
<1>7. \A q \in Replicas : q # p => pc[q] \notin {"read", "files", "sql", "unlock"} /\ pc'[q] = pc[q]
  BY <1>1, <1>3, Alone DEF Migrating, TypeOK
<1>8. \A q \in Replicas : \A k \in FilesOf(q) : HasSum(q, k) => HasSum(q, k)'
  <2> SUFFICES ASSUME NEW q \in Replicas, NEW k \in FilesOf(q), HasSum(q, k)
               PROVE  HasSum(q, k)'
    BY <1>1 DEF FilesOf
  <2>1. image' = image /\ image[q] \in Images
    BY <1>1 DEF TypeOK
  <2>2. FileAt(q, k) \in Files /\ Sum[image[q]][FileAt(q, k)] # None
    BY <2>1, PlanTypes DEF FileAt, FilesOf
  <2>3. ledger'[FileAt(q, k)] = ledger[FileAt(q, k)]
    BY <1>5, <2>2 DEF HasSum
  <2>4. QED
    BY <2>1, <2>3 DEF HasSum, FileAt
<1>9. TypeOK'
  <2>1. /\ image' \in [Replicas -> Images] /\ next' \in [Replicas -> Nat \ {0}]
        /\ open' \in [Replicas -> SUBSET Files] /\ late' \in [Replicas -> BOOLEAN] /\ made' \in [Replicas -> Nat]
        /\ starts' \in Nat /\ faults' \in Nat /\ lock' \in Replicas \cup {None}
    BY <1>1, <1>2, <1>3 DEF TypeOK, history
  <2>2. /\ pc' \in [Replicas -> Stages] /\ cause' \in [Replicas -> Causes \cup {None}]
        /\ attempt' \in [Replicas -> Nat] /\ bound' \in [Replicas -> Nat \cup {None}]
    BY <1>1, <1>3 DEF TypeOK, Stages, Migrating, Asking, Causes
  <2>3. known' \in [Replicas -> [Files -> Sums \cup {None}]]
    BY <1>1 DEF TypeOK
  <2>4. stores' \in Seq(Seq(Images)) /\ reconciled' \subseteq 1..Len(stores')
    BY <1>1 DEF TypeOK, engine
  <2>5. \A q \in Replicas : (lock' = q) <=> (pc'[q] \in Migrating)
    BY <1>1, <1>3 DEF TypeOK, Stages, Migrating, Asking
  <2>6. \A q \in Replicas : pc'[q] \in {"model", "write", "reconcile"} => bound'[q] \in 1..Len(stores')
    BY <1>1, <1>3 DEF TypeOK, Stages, Migrating, Asking, engine
  <2>7. QED
    BY <1>4, <2>1, <2>2, <2>3, <2>4, <2>5, <2>6 DEF TypeOK
<1>10. Bounds' /\ Served'
  BY <1>1, <1>3 DEF TypeOK, MInv, Bounds, Served, Serving, engine
<1>11. OpenFits'
  BY <1>1, <1>3, <1>7 DEF TypeOK, MInv, OpenFits
<1>12. Passed'
  <2>1. ASSUME NEW q \in Replicas, q # p, pc'[q] \in {"connect", "read", "files", "sql"},
               NEW k \in FilesOf(q), k < next[q]
        PROVE  HasSum(q, k)'
    BY <1>7, <1>8, <2>1 DEF MInv, Passed
  <2>2. ASSUME NEW k \in FilesOf(p), k < next[p] + 1 PROVE HasSum(p, k)'
    <3>1. CASE k = next[p]
      BY <1>1, <1>2, <1>4, <3>1 DEF HasSum, FileAt
    <3>2. CASE k # next[p]
      <4>1. k \in Nat
        BY <1>2, PlanTypes DEF FilesOf
      <4>2. k < next[p]
        BY <1>2, <2>2, <3>2, <4>1
      <4>3. QED
        BY <1>1, <1>8, <4>2 DEF MInv, Passed
    <3>3. QED
      BY <3>1, <3>2
  <2>3. QED
    BY <1>1, <1>3, <2>1, <2>2 DEF TypeOK, Passed, FilesOf
<1>13. Whole'
  BY <1>1, <1>3, <1>7, <1>8 DEF TypeOK, MInv, Whole, Migrated, Asking, Serving, FilesOf
<1>14. Fresh'
  <2>1. ASSUME NEW k \in FilesOf(p), k >= next[p] + 1
        PROVE  known[p][FileAt(p, k)] = ledger'[FileAt(p, k)]
    BY <1>1, <1>2, <1>6, <2>1, PlanTypes DEF MInv, Fresh, FilesOf
  <2>2. QED
    BY <1>1, <1>3, <1>7, <2>1 DEF TypeOK, Fresh, FilesOf, FileAt
<1>15. Calm'
  BY <1>1, <1>3 DEF TypeOK, MInv, Calm
<1>16. QED
  BY <1>4, <1>9, <1>10, <1>11, <1>12, <1>13, <1>14, <1>15 DEF MInv


\* A rollback leaves no trace.
LEMMA FileFailsKeeps == ASSUME NEW p \in Replicas, IInv, FileFails(p) PROVE (MInv /\ Served)'
<1> USE NoneApart DEF IInv, MInv, FileFails, Goto, db, engine, mine, history, Fault
<1>1. TypeOK'
  BY PlanTypes DEF TypeOK, Stages, Migrating, Asking, Causes
<1>2. Bounds'
  BY PlanTypes DEF TypeOK, Bounds, Serving, Stages, Migrating, Asking
<1>3. MigratedOnceInOrder'
  BY PlanTypes DEF TypeOK, MigratedOnceInOrder
<1>4. OpenFits'
  BY PlanTypes DEF TypeOK, OpenFits, HasFile, Current
<1>5. Passed'
  <2> DEFINE Passing(q) == \A k \in FilesOf(q) : k < next[q] => HasSum(q, k)
             Due(q) == pc[q] \in {"connect", "read", "files", "sql"}
  <2>1. \A q \in Replicas : Passing(q)' = Passing(q)
    BY DEF FilesOf, HasSum, FileAt
  <2>2. \A q \in Replicas : q # p => pc'[q] = pc[q] /\ cause'[q] = cause[q]
    BY DEF TypeOK
  <2>3. Due(p)' => Due(p)
    BY DEF TypeOK
  <2>4. \A q \in Replicas : Due(q) => Passing(q)
    BY DEF Passed
  <2> HIDE DEF Passing
  <2>5. \A q \in Replicas : Due(q)' => Passing(q)'
    BY <2>1, <2>2, <2>3, <2>4
  <2>6. QED
    BY <2>5 DEF Passed, Passing
<1>6. Whole'
  <2> DEFINE Said(q) == \A k \in FilesOf(q) : HasSum(q, k)
             Due(q) == pc[q] \in Migrated \/ (pc[q] = "unlock" /\ cause[q] = None)
  <2>1. \A q \in Replicas : Said(q)' = Said(q)
    BY DEF FilesOf, HasSum, FileAt
  <2>2. \A q \in Replicas : q # p => pc'[q] = pc[q] /\ cause'[q] = cause[q]
    BY DEF TypeOK
  <2>3. Due(p)' => Due(p)
    BY DEF TypeOK, Migrated, Asking, Serving, Calm
  <2>4. \A q \in Replicas : Due(q) => Said(q)
    BY DEF Whole
  <2> HIDE DEF Said
  <2>5. \A q \in Replicas : Due(q)' => Said(q)'
    BY <2>1, <2>2, <2>3, <2>4
  <2>6. QED
    BY <2>5 DEF Whole, Said
<1>7. Fresh'
  <2> DEFINE Ahead(q) == \A k \in FilesOf(q) : k >= next[q] =>
                         known[q][FileAt(q, k)] = ledger[FileAt(q, k)]
             Due(q) == pc[q] \in {"files", "sql"}
  <2>1. \A q \in Replicas : Ahead(q)' = Ahead(q)
    BY DEF FilesOf, HasSum, FileAt
  <2>2. \A q \in Replicas : q # p => pc'[q] = pc[q] /\ cause'[q] = cause[q]
    BY DEF TypeOK
  <2>3. Due(p)' => Due(p)
    BY DEF TypeOK
  <2>4. \A q \in Replicas : Due(q) => Ahead(q)
    BY DEF Fresh
  <2> HIDE DEF Ahead
  <2>5. \A q \in Replicas : Due(q)' => Ahead(q)'
    BY <2>1, <2>2, <2>3, <2>4
  <2>6. QED
    BY <2>5 DEF Fresh, Ahead
<1>8. Calm'
  BY PlanTypes DEF TypeOK, Calm, Causes
<1>9. Served'
  BY PlanTypes DEF TypeOK, Bounds, Served, Serving
<1>10. QED
  BY <1>1, <1>2, <1>3, <1>4, <1>5, <1>6, <1>7, <1>8, <1>9

\* COMMIT adds a row, and takes none away.
LEMMA CommitUnheardKeeps == ASSUME NEW p \in Replicas, IInv, CommitUnheard(p) PROVE (MInv /\ Served)'
<1> USE NoneApart DEF IInv
<1>1. /\ pc[p] = "sql" /\ Committed(p) /\ MInv /\ TypeOK
      /\ open' = [open EXCEPT ![p] = {}]
      /\ UNCHANGED <<lock, engine, image, known, bound, attempt, history, starts>>
  BY DEF CommitUnheard, Committed, MInv
<1>2. /\ HasFile(p) /\ next[p] \in FilesOf(p) /\ Current(p) = FileAt(p, next[p])
      /\ image[p] \in Images /\ ~ RowIsThere(p) /\ next[p] \in Nat \ {0}
  BY <1>1, Pending, CurrentFile DEF TypeOK
<1>3. /\ pc' = [pc EXCEPT ![p] = "unlock"]
      /\ next' = next /\ cause' = [cause EXCEPT ![p] = "fault"] /\ faults' = faults + 1
  BY <1>1, <1>2 DEF CommitUnheard, Goto, Fault, TypeOK
<1>4. /\ MigratedOnceInOrder' /\ ledger'[Current(p)] = Sum[image[p]][Current(p)]
      /\ ledger' \in [Files -> Sums \cup {None}] /\ ran' \in [Files -> Nat]
  BY <1>1, Commits DEF TypeOK
<1>5. \A f \in Files : ledger[f] # None => ledger'[f] = ledger[f]
  BY <1>1, RowsStand
<1>6. \A k \in FilesOf(p) : k # next[p] => ledger'[FileAt(p, k)] = ledger[FileAt(p, k)]
  BY <1>1, OthersStand
<1>7. \A q \in Replicas : q # p => pc[q] \notin {"read", "files", "sql", "unlock"} /\ pc'[q] = pc[q]
  BY <1>1, <1>3, Alone DEF Migrating, TypeOK
<1>8. \A q \in Replicas : \A k \in FilesOf(q) : HasSum(q, k) => HasSum(q, k)'
  <2> SUFFICES ASSUME NEW q \in Replicas, NEW k \in FilesOf(q), HasSum(q, k)
               PROVE  HasSum(q, k)'
    BY <1>1 DEF FilesOf
  <2>1. image' = image /\ image[q] \in Images
    BY <1>1 DEF TypeOK
  <2>2. FileAt(q, k) \in Files /\ Sum[image[q]][FileAt(q, k)] # None
    BY <2>1, PlanTypes DEF FileAt, FilesOf
  <2>3. ledger'[FileAt(q, k)] = ledger[FileAt(q, k)]
    BY <1>5, <2>2 DEF HasSum
  <2>4. QED
    BY <2>1, <2>3 DEF HasSum, FileAt
<1>9. TypeOK'
  <2>1. /\ image' \in [Replicas -> Images] /\ next' \in [Replicas -> Nat \ {0}]
        /\ open' \in [Replicas -> SUBSET Files] /\ late' \in [Replicas -> BOOLEAN] /\ made' \in [Replicas -> Nat]
        /\ starts' \in Nat /\ faults' \in Nat /\ lock' \in Replicas \cup {None}
    BY <1>1, <1>2, <1>3 DEF TypeOK, history
  <2>2. /\ pc' \in [Replicas -> Stages] /\ cause' \in [Replicas -> Causes \cup {None}]
        /\ attempt' \in [Replicas -> Nat] /\ bound' \in [Replicas -> Nat \cup {None}]
    BY <1>1, <1>3 DEF TypeOK, Stages, Migrating, Asking, Causes
  <2>3. known' \in [Replicas -> [Files -> Sums \cup {None}]]
    BY <1>1 DEF TypeOK
  <2>4. stores' \in Seq(Seq(Images)) /\ reconciled' \subseteq 1..Len(stores')
    BY <1>1 DEF TypeOK, engine
  <2>5. \A q \in Replicas : (lock' = q) <=> (pc'[q] \in Migrating)
    BY <1>1, <1>3 DEF TypeOK, Stages, Migrating, Asking
  <2>6. \A q \in Replicas : pc'[q] \in {"model", "write", "reconcile"} => bound'[q] \in 1..Len(stores')
    BY <1>1, <1>3 DEF TypeOK, Stages, Migrating, Asking, engine
  <2>7. QED
    BY <1>4, <2>1, <2>2, <2>3, <2>4, <2>5, <2>6 DEF TypeOK
<1>10. Bounds' /\ Served'
  BY <1>1, <1>3 DEF TypeOK, MInv, Bounds, Served, Serving, engine
<1>11. OpenFits'
  BY <1>1, <1>3, <1>7 DEF TypeOK, MInv, OpenFits
<1>12. Passed'
  <2>1. ASSUME NEW q \in Replicas, q # p, pc'[q] \in {"connect", "read", "files", "sql"},
               NEW k \in FilesOf(q), k < next[q]
        PROVE  HasSum(q, k)'
    BY <1>7, <1>8, <2>1 DEF MInv, Passed
  <2>2. ASSUME NEW k \in FilesOf(p), k < next[p] + 1 PROVE HasSum(p, k)'
    <3>1. CASE k = next[p]
      BY <1>1, <1>2, <1>4, <3>1 DEF HasSum, FileAt
    <3>2. CASE k # next[p]
      <4>1. k \in Nat
        BY <1>2, PlanTypes DEF FilesOf
      <4>2. k < next[p]
        BY <1>2, <2>2, <3>2, <4>1
      <4>3. QED
        BY <1>1, <1>8, <4>2 DEF MInv, Passed
    <3>3. QED
      BY <3>1, <3>2
  <2>3. QED
    BY <1>1, <1>3, <2>1, <2>2 DEF TypeOK, Passed, FilesOf
<1>13. Whole'
  BY <1>1, <1>3, <1>7, <1>8 DEF TypeOK, MInv, Whole, Migrated, Asking, Serving, FilesOf
<1>14. Fresh'
  <2>1. ASSUME NEW k \in FilesOf(p), k >= next[p] + 1
        PROVE  known[p][FileAt(p, k)] = ledger'[FileAt(p, k)]
    BY <1>1, <1>2, <1>6, <2>1, PlanTypes DEF MInv, Fresh, FilesOf
  <2>2. QED
    BY <1>1, <1>3, <1>7, <2>1 DEF TypeOK, Fresh, FilesOf, FileAt
<1>15. Calm'
  BY <1>1, <1>3 DEF TypeOK, MInv, Calm
<1>16. QED
  BY <1>4, <1>9, <1>10, <1>11, <1>12, <1>13, <1>14, <1>15 DEF MInv


\* The loop has passed every file.
LEMMA FilesDoneKeeps == ASSUME NEW p \in Replicas, IInv, FilesDone(p) PROVE (MInv /\ Served)'
<1> USE NoneApart DEF IInv, MInv, FilesDone, Goto, db, engine, mine, history, HasFile
<1>1. TypeOK'
  BY PlanTypes DEF TypeOK, Stages, Migrating, Asking, Causes
<1>2. Bounds'
  BY PlanTypes DEF TypeOK, Bounds, Serving, Stages, Migrating, Asking
<1>3. MigratedOnceInOrder'
  BY PlanTypes DEF TypeOK, MigratedOnceInOrder
<1>4. OpenFits'
  BY PlanTypes DEF TypeOK, OpenFits, HasFile, Current
<1>5. Passed'
  BY PlanTypes DEF TypeOK, Passed, HasSum, FileAt, FilesOf
<1>6. Whole'
  <2>1. \A k \in FilesOf(p) : HasSum(p, k)
    BY PlanTypes DEF TypeOK, Passed, FilesOf
  <2>2. QED
    BY <2>1 DEF TypeOK, Whole, HasSum, FileAt, FilesOf, Migrated, Asking, Serving
<1>7. Fresh'
  BY PlanTypes DEF TypeOK, Fresh, FileAt, FilesOf
<1>8. Calm'
  BY PlanTypes DEF TypeOK, Calm, Causes
<1>9. Served'
  BY PlanTypes DEF TypeOK, Bounds, Served, Serving
<1>10. QED
  BY <1>1, <1>2, <1>3, <1>4, <1>5, <1>6, <1>7, <1>8, <1>9

\* Only a run that ended well goes on.
LEMMA UnlockKeeps == ASSUME NEW p \in Replicas, IInv, Unlock(p) PROVE (MInv /\ Served)'
<1> USE NoneApart DEF IInv, MInv, Unlock, Goto, db, engine, mine, history, AfterUnlock
<1>1. TypeOK'
  BY PlanTypes DEF TypeOK, Stages, Migrating, Asking, Causes
<1>2. Bounds'
  BY PlanTypes DEF TypeOK, Bounds, Serving, Stages, Migrating, Asking
<1>3. MigratedOnceInOrder'
  BY PlanTypes DEF TypeOK, MigratedOnceInOrder
<1>4. OpenFits'
  BY PlanTypes DEF TypeOK, OpenFits, HasFile, Current
<1>5. Passed'
  <2> DEFINE Passing(q) == \A k \in FilesOf(q) : k < next[q] => HasSum(q, k)
             Due(q) == pc[q] \in {"connect", "read", "files", "sql"}
  <2>1. \A q \in Replicas : Passing(q)' = Passing(q)
    BY DEF FilesOf, HasSum, FileAt
  <2>2. \A q \in Replicas : q # p => pc'[q] = pc[q] /\ cause'[q] = cause[q]
    BY DEF TypeOK
  <2>3. Due(p)' => Due(p)
    BY DEF TypeOK
  <2>4. \A q \in Replicas : Due(q) => Passing(q)
    BY DEF Passed
  <2> HIDE DEF Passing
  <2>5. \A q \in Replicas : Due(q)' => Passing(q)'
    BY <2>1, <2>2, <2>3, <2>4
  <2>6. QED
    BY <2>5 DEF Passed, Passing
<1>6. Whole'
  <2> DEFINE Said(q) == \A k \in FilesOf(q) : HasSum(q, k)
             Due(q) == pc[q] \in Migrated \/ (pc[q] = "unlock" /\ cause[q] = None)
  <2>1. \A q \in Replicas : Said(q)' = Said(q)
    BY DEF FilesOf, HasSum, FileAt
  <2>2. \A q \in Replicas : q # p => pc'[q] = pc[q] /\ cause'[q] = cause[q]
    BY DEF TypeOK
  <2>3. Due(p)' => Due(p)
    BY DEF TypeOK, Migrated, Asking, Serving, Calm
  <2>4. \A q \in Replicas : Due(q) => Said(q)
    BY DEF Whole
  <2> HIDE DEF Said
  <2>5. \A q \in Replicas : Due(q)' => Said(q)'
    BY <2>1, <2>2, <2>3, <2>4
  <2>6. QED
    BY <2>5 DEF Whole, Said
<1>7. Fresh'
  <2> DEFINE Ahead(q) == \A k \in FilesOf(q) : k >= next[q] =>
                         known[q][FileAt(q, k)] = ledger[FileAt(q, k)]
             Due(q) == pc[q] \in {"files", "sql"}
  <2>1. \A q \in Replicas : Ahead(q)' = Ahead(q)
    BY DEF FilesOf, HasSum, FileAt
  <2>2. \A q \in Replicas : q # p => pc'[q] = pc[q] /\ cause'[q] = cause[q]
    BY DEF TypeOK
  <2>3. Due(p)' => Due(p)
    BY DEF TypeOK
  <2>4. \A q \in Replicas : Due(q) => Ahead(q)
    BY DEF Fresh
  <2> HIDE DEF Ahead
  <2>5. \A q \in Replicas : Due(q)' => Ahead(q)'
    BY <2>1, <2>2, <2>3, <2>4
  <2>6. QED
    BY <2>5 DEF Fresh, Ahead
<1>8. Calm'
  BY PlanTypes DEF TypeOK, Calm, Causes
<1>9. Served'
  BY PlanTypes DEF TypeOK, Bounds, Served, Serving
<1>10. QED
  BY <1>1, <1>2, <1>3, <1>4, <1>5, <1>6, <1>7, <1>8, <1>9

\* The probe changes nothing.
LEMMA ProbeKeeps == ASSUME NEW p \in Replicas, IInv, Probe(p) PROVE (MInv /\ Served)'
<1> USE NoneApart DEF IInv, MInv, Probe, Goto, db, engine, mine, history
<1>1. TypeOK'
  BY PlanTypes DEF TypeOK, Stages, Migrating, Asking, Causes
<1>2. Bounds'
  BY PlanTypes DEF TypeOK, Bounds, Serving, Stages, Migrating, Asking
<1>3. MigratedOnceInOrder'
  BY PlanTypes DEF TypeOK, MigratedOnceInOrder
<1>4. OpenFits'
  BY PlanTypes DEF TypeOK, OpenFits, HasFile, Current
<1>5. Passed'
  <2> DEFINE Passing(q) == \A k \in FilesOf(q) : k < next[q] => HasSum(q, k)
             Due(q) == pc[q] \in {"connect", "read", "files", "sql"}
  <2>1. \A q \in Replicas : Passing(q)' = Passing(q)
    BY DEF FilesOf, HasSum, FileAt
  <2>2. \A q \in Replicas : q # p => pc'[q] = pc[q] /\ cause'[q] = cause[q]
    BY DEF TypeOK
  <2>3. Due(p)' => Due(p)
    BY DEF TypeOK
  <2>4. \A q \in Replicas : Due(q) => Passing(q)
    BY DEF Passed
  <2> HIDE DEF Passing
  <2>5. \A q \in Replicas : Due(q)' => Passing(q)'
    BY <2>1, <2>2, <2>3, <2>4
  <2>6. QED
    BY <2>5 DEF Passed, Passing
<1>6. Whole'
  <2> DEFINE Said(q) == \A k \in FilesOf(q) : HasSum(q, k)
             Due(q) == pc[q] \in Migrated \/ (pc[q] = "unlock" /\ cause[q] = None)
  <2>1. \A q \in Replicas : Said(q)' = Said(q)
    BY DEF FilesOf, HasSum, FileAt
  <2>2. \A q \in Replicas : q # p => pc'[q] = pc[q] /\ cause'[q] = cause[q]
    BY DEF TypeOK
  <2>3. Due(p)' => Due(p)
    BY DEF TypeOK, Migrated, Asking, Serving, Calm
  <2>4. \A q \in Replicas : Due(q) => Said(q)
    BY DEF Whole
  <2> HIDE DEF Said
  <2>5. \A q \in Replicas : Due(q)' => Said(q)'
    BY <2>1, <2>2, <2>3, <2>4
  <2>6. QED
    BY <2>5 DEF Whole, Said
<1>7. Fresh'
  <2> DEFINE Ahead(q) == \A k \in FilesOf(q) : k >= next[q] =>
                         known[q][FileAt(q, k)] = ledger[FileAt(q, k)]
             Due(q) == pc[q] \in {"files", "sql"}
  <2>1. \A q \in Replicas : Ahead(q)' = Ahead(q)
    BY DEF FilesOf, HasSum, FileAt
  <2>2. \A q \in Replicas : q # p => pc'[q] = pc[q] /\ cause'[q] = cause[q]
    BY DEF TypeOK
  <2>3. Due(p)' => Due(p)
    BY DEF TypeOK
  <2>4. \A q \in Replicas : Due(q) => Ahead(q)
    BY DEF Fresh
  <2> HIDE DEF Ahead
  <2>5. \A q \in Replicas : Due(q)' => Ahead(q)'
    BY <2>1, <2>2, <2>3, <2>4
  <2>6. QED
    BY <2>5 DEF Fresh, Ahead
<1>8. Calm'
  BY PlanTypes DEF TypeOK, Calm, Causes
<1>9. Served'
  BY PlanTypes DEF TypeOK, Bounds, Served, Serving
<1>10. QED
  BY <1>1, <1>2, <1>3, <1>4, <1>5, <1>6, <1>7, <1>8, <1>9

\* Whichever store the listing shows first, it is one of the stores.
LEMMA FindStoreKeeps == ASSUME NEW p \in Replicas, IInv, FindStore(p) PROVE (MInv /\ Served)'
<1> USE NoneApart DEF IInv, MInv, FindStore, Goto, db, engine, mine, history
<1>0. /\ pc[p] = "find" /\ pc'[p] \in {"create", "model"}
      /\ pc' = [pc EXCEPT ![p] = pc'[p]]
      /\ bound' = [bound EXCEPT ![p] = bound'[p]] /\ bound'[p] \in Nat \cup {None}
      /\ pc'[p] = "model" => bound'[p] \in 1..Len(stores)
      /\ UNCHANGED <<db, engine, image, known, next, open, attempt, cause, history, starts, faults>>
  BY DEF TypeOK
<1> HIDE DEF FindStore
<1>1. TypeOK'
  <2>0. pc'[p] \in Stages
    BY <1>0 DEF Stages, Asking
  <2>1. pc' \in [Replicas -> Stages] /\ bound' \in [Replicas -> Nat \cup {None}]
    <3>1. pc \in [Replicas -> Stages] /\ bound \in [Replicas -> Nat \cup {None}]
      BY DEF TypeOK
    <3>2. ASSUME NEW S, NEW T, NEW f \in [S -> T], NEW v \in T PROVE [f EXCEPT ![p] = v] \in [S -> T]
      OBVIOUS
    <3>3. pc' \in [Replicas -> Stages]
      BY <1>0, <2>0, <3>1, <3>2
    <3>4. bound' \in [Replicas -> Nat \cup {None}]
      BY <1>0, <3>1, <3>2
    <3>5. QED
      BY <3>3, <3>4
  <2>2. \A q \in Replicas : (lock' = q) <=> (pc'[q] \in Migrating)
    BY <1>0 DEF TypeOK, Migrating
  <2>3. \A q \in Replicas : pc'[q] \in {"model", "write", "reconcile"} => bound'[q] \in 1..Len(stores')
    BY <1>0 DEF TypeOK
  <2>4. QED
    BY <1>0, <2>1, <2>2, <2>3 DEF TypeOK
<1>2. Bounds'
  BY <1>0, PlanTypes DEF TypeOK, Bounds, Serving, Stages, Migrating, Asking
<1>3. MigratedOnceInOrder'
  BY <1>0, PlanTypes DEF TypeOK, MigratedOnceInOrder
<1>4. OpenFits'
  BY <1>0, PlanTypes DEF TypeOK, OpenFits, HasFile, Current
<1>5. Passed'
  <2> DEFINE Passing(q) == \A k \in FilesOf(q) : k < next[q] => HasSum(q, k)
             Due(q) == pc[q] \in {"connect", "read", "files", "sql"}
  <2>1. \A q \in Replicas : Passing(q)' = Passing(q)
    BY <1>0 DEF FilesOf, HasSum, FileAt
  <2>2. \A q \in Replicas : q # p => pc'[q] = pc[q] /\ cause'[q] = cause[q]
    BY <1>0 DEF TypeOK
  <2>3. Due(p)' => Due(p)
    BY <1>0 DEF TypeOK
  <2>4. \A q \in Replicas : Due(q) => Passing(q)
    BY <1>0 DEF Passed
  <2> HIDE DEF Passing
  <2>5. \A q \in Replicas : Due(q)' => Passing(q)'
    BY <2>1, <2>2, <2>3, <2>4
  <2>6. QED
    BY <2>5 DEF Passed, Passing
<1>6. Whole'
  <2> DEFINE Said(q) == \A k \in FilesOf(q) : HasSum(q, k)
             Due(q) == pc[q] \in Migrated \/ (pc[q] = "unlock" /\ cause[q] = None)
  <2>1. \A q \in Replicas : Said(q)' = Said(q)
    BY <1>0 DEF FilesOf, HasSum, FileAt
  <2>2. \A q \in Replicas : q # p => pc'[q] = pc[q] /\ cause'[q] = cause[q]
    BY <1>0 DEF TypeOK
  <2>3. Due(p)' => Due(p)
    BY <1>0 DEF TypeOK, Migrated, Asking, Serving, Calm
  <2>4. \A q \in Replicas : Due(q) => Said(q)
    BY <1>0 DEF Whole
  <2> HIDE DEF Said
  <2>5. \A q \in Replicas : Due(q)' => Said(q)'
    BY <2>1, <2>2, <2>3, <2>4
  <2>6. QED
    BY <2>5 DEF Whole, Said
<1>7. Fresh'
  <2> DEFINE Ahead(q) == \A k \in FilesOf(q) : k >= next[q] =>
                         known[q][FileAt(q, k)] = ledger[FileAt(q, k)]
             Due(q) == pc[q] \in {"files", "sql"}
  <2>1. \A q \in Replicas : Ahead(q)' = Ahead(q)
    BY <1>0 DEF FilesOf, HasSum, FileAt
  <2>2. \A q \in Replicas : q # p => pc'[q] = pc[q] /\ cause'[q] = cause[q]
    BY <1>0 DEF TypeOK
  <2>3. Due(p)' => Due(p)
    BY <1>0 DEF TypeOK
  <2>4. \A q \in Replicas : Due(q) => Ahead(q)
    BY <1>0 DEF Fresh
  <2> HIDE DEF Ahead
  <2>5. \A q \in Replicas : Due(q)' => Ahead(q)'
    BY <2>1, <2>2, <2>3, <2>4
  <2>6. QED
    BY <2>5 DEF Fresh, Ahead
<1>8. Calm'
  BY <1>0, PlanTypes DEF TypeOK, Calm, Causes
<1>9. Served'
  <2>1. \A q \in Replicas : pc'[q] \in {"reconcile", "listen"} =>
           q # p /\ pc[q] = pc'[q] /\ bound'[q] = bound[q]
    BY <1>0 DEF TypeOK
  <2>2. stores' = stores /\ image' = image /\ reconciled' = reconciled
    BY <1>0
  <2>3. QED
    BY <2>1, <2>2 DEF Served
<1>10. QED
  BY <1>1, <1>2, <1>3, <1>4, <1>5, <1>6, <1>7, <1>8, <1>9

\* A store that was made is the last.
LEMMA CreateStoreKeeps == ASSUME NEW p \in Replicas, IInv, CreateStore(p) PROVE (MInv /\ Served)'
<1> USE NoneApart DEF IInv, MInv, CreateStore, Created, Goto, db, engine, mine, history
<1>1. TypeOK'
  <2>1. /\ ledger' \in [Files -> Sums \cup {None}] /\ ran' \in [Files -> Nat]
        /\ lock' \in Replicas \cup {None}
        /\ image' \in [Replicas -> Images] /\ next' \in [Replicas -> Nat \ {0}]
        /\ open' \in [Replicas -> SUBSET Files] /\ late' \in [Replicas -> BOOLEAN] /\ made' \in [Replicas -> Nat]
        /\ starts' \in Nat /\ faults' \in Nat
    BY PlanTypes, BootAssumption DEF TypeOK
  <2>2. /\ pc' \in [Replicas -> Stages] /\ cause' \in [Replicas -> Causes \cup {None}]
        /\ attempt' \in [Replicas -> Nat] /\ bound' \in [Replicas -> Nat \cup {None}]
    BY DEF TypeOK, Stages, Migrating, Asking, Causes
  <2>3. known' \in [Replicas -> [Files -> Sums \cup {None}]]
    BY DEF TypeOK
  <2>4. stores' \in Seq(Seq(Images)) /\ reconciled' \subseteq 1..Len(stores')
    BY DEF TypeOK
  <2>5. \A q \in Replicas : (lock' = q) <=> (pc'[q] \in Migrating)
    BY NoneApart DEF TypeOK, Stages, Migrating, Asking
  <2>6. \A q \in Replicas : pc'[q] \in {"model", "write", "reconcile"} => bound'[q] \in 1..Len(stores')
    BY DEF TypeOK, Stages, Migrating, Asking
  <2>7. QED
    BY <2>1, <2>2, <2>3, <2>4, <2>5, <2>6 DEF TypeOK
<1>2. Bounds'
  BY PlanTypes DEF TypeOK, Bounds, Serving, Stages, Migrating, Asking
<1>3. MigratedOnceInOrder'
  BY PlanTypes DEF TypeOK, MigratedOnceInOrder
<1>4. OpenFits'
  BY PlanTypes DEF TypeOK, OpenFits, HasFile, Current
<1>5. Passed'
  <2> DEFINE Passing(q) == \A k \in FilesOf(q) : k < next[q] => HasSum(q, k)
             Due(q) == pc[q] \in {"connect", "read", "files", "sql"}
  <2>1. \A q \in Replicas : Passing(q)' = Passing(q)
    BY DEF FilesOf, HasSum, FileAt
  <2>2. \A q \in Replicas : q # p => pc'[q] = pc[q] /\ cause'[q] = cause[q]
    BY DEF TypeOK
  <2>3. Due(p)' => Due(p)
    BY DEF TypeOK
  <2>4. \A q \in Replicas : Due(q) => Passing(q)
    BY DEF Passed
  <2> HIDE DEF Passing
  <2>5. \A q \in Replicas : Due(q)' => Passing(q)'
    BY <2>1, <2>2, <2>3, <2>4
  <2>6. QED
    BY <2>5 DEF Passed, Passing
<1>6. Whole'
  <2> DEFINE Said(q) == \A k \in FilesOf(q) : HasSum(q, k)
             Due(q) == pc[q] \in Migrated \/ (pc[q] = "unlock" /\ cause[q] = None)
  <2>1. \A q \in Replicas : Said(q)' = Said(q)
    BY DEF FilesOf, HasSum, FileAt
  <2>2. \A q \in Replicas : q # p => pc'[q] = pc[q] /\ cause'[q] = cause[q]
    BY DEF TypeOK
  <2>3. Due(p)' => Due(p)
    BY DEF TypeOK, Migrated, Asking, Serving, Calm
  <2>4. \A q \in Replicas : Due(q) => Said(q)
    BY DEF Whole
  <2> HIDE DEF Said
  <2>5. \A q \in Replicas : Due(q)' => Said(q)'
    BY <2>1, <2>2, <2>3, <2>4
  <2>6. QED
    BY <2>5 DEF Whole, Said
<1>7. Fresh'
  <2> DEFINE Ahead(q) == \A k \in FilesOf(q) : k >= next[q] =>
                         known[q][FileAt(q, k)] = ledger[FileAt(q, k)]
             Due(q) == pc[q] \in {"files", "sql"}
  <2>1. \A q \in Replicas : Ahead(q)' = Ahead(q)
    BY DEF FilesOf, HasSum, FileAt
  <2>2. \A q \in Replicas : q # p => pc'[q] = pc[q] /\ cause'[q] = cause[q]
    BY DEF TypeOK
  <2>3. Due(p)' => Due(p)
    BY DEF TypeOK
  <2>4. \A q \in Replicas : Due(q) => Ahead(q)
    BY DEF Fresh
  <2> HIDE DEF Ahead
  <2>5. \A q \in Replicas : Due(q)' => Ahead(q)'
    BY <2>1, <2>2, <2>3, <2>4
  <2>6. QED
    BY <2>5 DEF Fresh, Ahead
<1>8. Calm'
  BY PlanTypes DEF TypeOK, Calm, Causes
<1>9. Served'
  <2>1. /\ stores \in Seq(Seq(Images)) /\ stores' = Append(stores, <<>>) /\ Len(stores) \in Nat
        /\ pc[p] = "create" /\ pc' = [pc EXCEPT ![p] = "model"]
        /\ bound' = [bound EXCEPT ![p] = Len(stores) + 1]
    BY DEF TypeOK
  <2>2. stores' # <<>> /\ \A s \in 1..Len(stores) : stores'[s] = stores[s]
    BY <2>1
  <2>3. \A q \in Replicas : q # p => bound'[q] = bound[q] /\ pc'[q] = pc[q]
    BY <2>1 DEF TypeOK
  <2>4. pc'[p] = "model"
    BY <2>1 DEF TypeOK
  <2>5. ASSUME NEW q \in Replicas, q # p, pc[q] \in {"reconcile", "listen"}
        PROVE  \E m \in 1..Len(stores'[bound[q]]) : stores'[bound[q]][m] = image[q]
    BY <2>2, <2>5 DEF Bounds, Served, Serving
  <2>6. ASSUME NEW q \in Replicas
        PROVE  pc'[q] = "listen" => bound'[q] \in reconciled
    BY <2>2, <2>3, <2>4 DEF Served, Serving
  <2>7. ASSUME NEW q \in Replicas, pc'[q] \in {"reconcile", "listen"}
        PROVE  \E m \in 1..Len(stores'[bound'[q]]) : stores'[bound'[q]][m] = image[q]
    <3>1. q # p /\ pc[q] = pc'[q] /\ bound'[q] = bound[q]
      BY <2>3, <2>4, <2>7
    <3>2. QED
      BY <2>5, <2>7, <3>1
  <2>8. image' = image /\ reconciled' = reconciled
    OBVIOUS
  <2> HIDE DEF CreateStore, Created, Goto, engine, mine, db, IInv, MInv
  <2>9. QED
    BY <2>6, <2>7, <2>8 DEF Served
<1>10. QED
  BY <1>1, <1>2, <1>3, <1>4, <1>5, <1>6, <1>7, <1>8, <1>9

\* The image's own model is there already.
LEMMA ReadModelKeeps == ASSUME NEW p \in Replicas, IInv, ReadModel(p) PROVE (MInv /\ Served)'
<1> USE NoneApart DEF IInv, MInv, ReadModel, Goto, db, engine, mine, history, Latest
<1>1. TypeOK'
  BY PlanTypes DEF TypeOK, Stages, Migrating, Asking, Causes
<1>2. Bounds'
  BY PlanTypes DEF TypeOK, Bounds, Serving, Stages, Migrating, Asking
<1>3. MigratedOnceInOrder'
  BY PlanTypes DEF TypeOK, MigratedOnceInOrder
<1>4. OpenFits'
  BY PlanTypes DEF TypeOK, OpenFits, HasFile, Current
<1>5. Passed'
  <2> DEFINE Passing(q) == \A k \in FilesOf(q) : k < next[q] => HasSum(q, k)
             Due(q) == pc[q] \in {"connect", "read", "files", "sql"}
  <2>1. \A q \in Replicas : Passing(q)' = Passing(q)
    BY DEF FilesOf, HasSum, FileAt
  <2>2. \A q \in Replicas : q # p => pc'[q] = pc[q] /\ cause'[q] = cause[q]
    BY DEF TypeOK
  <2>3. Due(p)' => Due(p)
    BY DEF TypeOK
  <2>4. \A q \in Replicas : Due(q) => Passing(q)
    BY DEF Passed
  <2> HIDE DEF Passing
  <2>5. \A q \in Replicas : Due(q)' => Passing(q)'
    BY <2>1, <2>2, <2>3, <2>4
  <2>6. QED
    BY <2>5 DEF Passed, Passing
<1>6. Whole'
  <2> DEFINE Said(q) == \A k \in FilesOf(q) : HasSum(q, k)
             Due(q) == pc[q] \in Migrated \/ (pc[q] = "unlock" /\ cause[q] = None)
  <2>1. \A q \in Replicas : Said(q)' = Said(q)
    BY DEF FilesOf, HasSum, FileAt
  <2>2. \A q \in Replicas : q # p => pc'[q] = pc[q] /\ cause'[q] = cause[q]
    BY DEF TypeOK
  <2>3. Due(p)' => Due(p)
    BY DEF TypeOK, Migrated, Asking, Serving, Calm
  <2>4. \A q \in Replicas : Due(q) => Said(q)
    BY DEF Whole
  <2> HIDE DEF Said
  <2>5. \A q \in Replicas : Due(q)' => Said(q)'
    BY <2>1, <2>2, <2>3, <2>4
  <2>6. QED
    BY <2>5 DEF Whole, Said
<1>7. Fresh'
  <2> DEFINE Ahead(q) == \A k \in FilesOf(q) : k >= next[q] =>
                         known[q][FileAt(q, k)] = ledger[FileAt(q, k)]
             Due(q) == pc[q] \in {"files", "sql"}
  <2>1. \A q \in Replicas : Ahead(q)' = Ahead(q)
    BY DEF FilesOf, HasSum, FileAt
  <2>2. \A q \in Replicas : q # p => pc'[q] = pc[q] /\ cause'[q] = cause[q]
    BY DEF TypeOK
  <2>3. Due(p)' => Due(p)
    BY DEF TypeOK
  <2>4. \A q \in Replicas : Due(q) => Ahead(q)
    BY DEF Fresh
  <2> HIDE DEF Ahead
  <2>5. \A q \in Replicas : Due(q)' => Ahead(q)'
    BY <2>1, <2>2, <2>3, <2>4
  <2>6. QED
    BY <2>5 DEF Fresh, Ahead
<1>8. Calm'
  BY PlanTypes DEF TypeOK, Calm, Causes
<1>9. Served'
  <2>1. bound[p] \in 1..Len(stores) /\ pc[p] = "model" /\ stores \in Seq(Seq(Images)) /\ image[p] \in Images
    BY DEF TypeOK, Bounds, Serving
  <2>2. stores[bound[p]] \in Seq(Images)
    BY <2>1
  <2>3. ASSUME Latest(bound[p]) = image[p]
        PROVE  \E m \in 1..Len(stores[bound[p]]) : stores[bound[p]][m] = image[p]
    <3>1. stores[bound[p]] # <<>>
      BY <2>1, <2>3
    <3>2. Len(stores[bound[p]]) \in 1..Len(stores[bound[p]])
      BY <2>2, <3>1
    <3>3. QED
      BY <2>3, <3>1, <3>2
  <2>4. /\ \A q \in Replicas : q # p => pc'[q] = pc[q]
        /\ pc'[p] = IF Latest(bound[p]) = image[p] THEN "reconcile" ELSE "write"
    BY DEF TypeOK
  <2>5. QED
    BY <2>1, <2>3, <2>4 DEF Served, Serving
<1>10. QED
  BY <1>1, <1>2, <1>3, <1>4, <1>5, <1>6, <1>7, <1>8, <1>9

\* A failed read writes nothing.
LEMMA ReadModelFailsKeeps == ASSUME NEW p \in Replicas, IInv, ReadModelFails(p) PROVE (MInv /\ Served)'
<1> USE NoneApart DEF IInv, MInv, ReadModelFails, Goto, db, engine, mine, history, Fault
<1>1. TypeOK'
  <2>1. /\ ledger' \in [Files -> Sums \cup {None}] /\ ran' \in [Files -> Nat]
        /\ lock' \in Replicas \cup {None}
        /\ image' \in [Replicas -> Images] /\ next' \in [Replicas -> Nat \ {0}]
        /\ open' \in [Replicas -> SUBSET Files] /\ late' \in [Replicas -> BOOLEAN] /\ made' \in [Replicas -> Nat]
        /\ starts' \in Nat /\ faults' \in Nat
    BY PlanTypes, BootAssumption DEF TypeOK
  <2>2. /\ pc' \in [Replicas -> Stages] /\ cause' \in [Replicas -> Causes \cup {None}]
        /\ attempt' \in [Replicas -> Nat] /\ bound' \in [Replicas -> Nat \cup {None}]
    BY DEF TypeOK, Stages, Migrating, Asking, Causes
  <2>3. known' \in [Replicas -> [Files -> Sums \cup {None}]]
    BY DEF TypeOK
  <2>4. stores' \in Seq(Seq(Images)) /\ reconciled' \subseteq 1..Len(stores')
    BY DEF TypeOK
  <2>5. \A q \in Replicas : (lock' = q) <=> (pc'[q] \in Migrating)
    BY NoneApart DEF TypeOK, Stages, Migrating, Asking
  <2>6. \A q \in Replicas : pc'[q] \in {"model", "write", "reconcile"} => bound'[q] \in 1..Len(stores')
    BY DEF TypeOK, Stages, Migrating, Asking
  <2>7. QED
    BY <2>1, <2>2, <2>3, <2>4, <2>5, <2>6 DEF TypeOK
<1>2. Bounds'
  BY PlanTypes DEF TypeOK, Bounds, Serving, Stages, Migrating, Asking
<1>3. MigratedOnceInOrder'
  BY PlanTypes DEF TypeOK, MigratedOnceInOrder
<1>4. OpenFits'
  BY PlanTypes DEF TypeOK, OpenFits, HasFile, Current
<1>5. Passed'
  <2> DEFINE Passing(q) == \A k \in FilesOf(q) : k < next[q] => HasSum(q, k)
             Due(q) == pc[q] \in {"connect", "read", "files", "sql"}
  <2>1. \A q \in Replicas : Passing(q)' = Passing(q)
    BY DEF FilesOf, HasSum, FileAt
  <2>2. \A q \in Replicas : q # p => pc'[q] = pc[q] /\ cause'[q] = cause[q]
    BY DEF TypeOK
  <2>3. Due(p)' => Due(p)
    BY DEF TypeOK
  <2>4. \A q \in Replicas : Due(q) => Passing(q)
    BY DEF Passed
  <2> HIDE DEF Passing
  <2>5. \A q \in Replicas : Due(q)' => Passing(q)'
    BY <2>1, <2>2, <2>3, <2>4
  <2>6. QED
    BY <2>5 DEF Passed, Passing
<1>6. Whole'
  <2> DEFINE Said(q) == \A k \in FilesOf(q) : HasSum(q, k)
             Due(q) == pc[q] \in Migrated \/ (pc[q] = "unlock" /\ cause[q] = None)
  <2>1. \A q \in Replicas : Said(q)' = Said(q)
    BY DEF FilesOf, HasSum, FileAt
  <2>2. \A q \in Replicas : q # p => pc'[q] = pc[q] /\ cause'[q] = cause[q]
    BY DEF TypeOK
  <2>3. Due(p)' => Due(p)
    BY DEF TypeOK, Migrated, Asking, Serving, Calm
  <2>4. \A q \in Replicas : Due(q) => Said(q)
    BY DEF Whole
  <2> HIDE DEF Said
  <2>5. \A q \in Replicas : Due(q)' => Said(q)'
    BY <2>1, <2>2, <2>3, <2>4
  <2>6. QED
    BY <2>5 DEF Whole, Said
<1>7. Fresh'
  <2> DEFINE Ahead(q) == \A k \in FilesOf(q) : k >= next[q] =>
                         known[q][FileAt(q, k)] = ledger[FileAt(q, k)]
             Due(q) == pc[q] \in {"files", "sql"}
  <2>1. \A q \in Replicas : Ahead(q)' = Ahead(q)
    BY DEF FilesOf, HasSum, FileAt
  <2>2. \A q \in Replicas : q # p => pc'[q] = pc[q] /\ cause'[q] = cause[q]
    BY DEF TypeOK
  <2>3. Due(p)' => Due(p)
    BY DEF TypeOK
  <2>4. \A q \in Replicas : Due(q) => Ahead(q)
    BY DEF Fresh
  <2> HIDE DEF Ahead
  <2>5. \A q \in Replicas : Due(q)' => Ahead(q)'
    BY <2>1, <2>2, <2>3, <2>4
  <2>6. QED
    BY <2>5 DEF Fresh, Ahead
<1>8. Calm'
  BY PlanTypes DEF TypeOK, Calm, Causes
<1>9. Served'
  BY PlanTypes DEF TypeOK, Bounds, Served, Serving
<1>10. QED
  BY <1>1, <1>2, <1>3, <1>4, <1>5, <1>6, <1>7, <1>8, <1>9

\* The model written is the image's own.
LEMMA WriteModelKeeps == ASSUME NEW p \in Replicas, IInv, WriteModel(p) PROVE (MInv /\ Served)'
<1> USE NoneApart DEF IInv, MInv, WriteModel, Goto, db, engine, mine, history, Written
<1>1. TypeOK'
  <2>1. /\ ledger' \in [Files -> Sums \cup {None}] /\ ran' \in [Files -> Nat]
        /\ lock' \in Replicas \cup {None}
        /\ image' \in [Replicas -> Images] /\ next' \in [Replicas -> Nat \ {0}]
        /\ open' \in [Replicas -> SUBSET Files] /\ late' \in [Replicas -> BOOLEAN] /\ made' \in [Replicas -> Nat]
        /\ starts' \in Nat /\ faults' \in Nat
    BY PlanTypes, BootAssumption DEF TypeOK
  <2>2. /\ pc' \in [Replicas -> Stages] /\ cause' \in [Replicas -> Causes \cup {None}]
        /\ attempt' \in [Replicas -> Nat] /\ bound' \in [Replicas -> Nat \cup {None}]
    BY DEF TypeOK, Stages, Migrating, Asking, Causes
  <2>3. known' \in [Replicas -> [Files -> Sums \cup {None}]]
    BY DEF TypeOK
  <2>4. stores' \in Seq(Seq(Images)) /\ reconciled' \subseteq 1..Len(stores')
    BY DEF TypeOK
  <2>5. \A q \in Replicas : (lock' = q) <=> (pc'[q] \in Migrating)
    BY NoneApart DEF TypeOK, Stages, Migrating, Asking
  <2>6. \A q \in Replicas : pc'[q] \in {"model", "write", "reconcile"} => bound'[q] \in 1..Len(stores')
    BY DEF TypeOK, Stages, Migrating, Asking
  <2>7. QED
    BY <2>1, <2>2, <2>3, <2>4, <2>5, <2>6 DEF TypeOK
<1>2. Bounds'
  BY PlanTypes DEF TypeOK, Bounds, Serving, Stages, Migrating, Asking
<1>3. MigratedOnceInOrder'
  BY PlanTypes DEF TypeOK, MigratedOnceInOrder
<1>4. OpenFits'
  BY PlanTypes DEF TypeOK, OpenFits, HasFile, Current
<1>5. Passed'
  <2> DEFINE Passing(q) == \A k \in FilesOf(q) : k < next[q] => HasSum(q, k)
             Due(q) == pc[q] \in {"connect", "read", "files", "sql"}
  <2>1. \A q \in Replicas : Passing(q)' = Passing(q)
    BY DEF FilesOf, HasSum, FileAt
  <2>2. \A q \in Replicas : q # p => pc'[q] = pc[q] /\ cause'[q] = cause[q]
    BY DEF TypeOK
  <2>3. Due(p)' => Due(p)
    BY DEF TypeOK
  <2>4. \A q \in Replicas : Due(q) => Passing(q)
    BY DEF Passed
  <2> HIDE DEF Passing
  <2>5. \A q \in Replicas : Due(q)' => Passing(q)'
    BY <2>1, <2>2, <2>3, <2>4
  <2>6. QED
    BY <2>5 DEF Passed, Passing
<1>6. Whole'
  <2> DEFINE Said(q) == \A k \in FilesOf(q) : HasSum(q, k)
             Due(q) == pc[q] \in Migrated \/ (pc[q] = "unlock" /\ cause[q] = None)
  <2>1. \A q \in Replicas : Said(q)' = Said(q)
    BY DEF FilesOf, HasSum, FileAt
  <2>2. \A q \in Replicas : q # p => pc'[q] = pc[q] /\ cause'[q] = cause[q]
    BY DEF TypeOK
  <2>3. Due(p)' => Due(p)
    BY DEF TypeOK, Migrated, Asking, Serving, Calm
  <2>4. \A q \in Replicas : Due(q) => Said(q)
    BY DEF Whole
  <2> HIDE DEF Said
  <2>5. \A q \in Replicas : Due(q)' => Said(q)'
    BY <2>1, <2>2, <2>3, <2>4
  <2>6. QED
    BY <2>5 DEF Whole, Said
<1>7. Fresh'
  <2> DEFINE Ahead(q) == \A k \in FilesOf(q) : k >= next[q] =>
                         known[q][FileAt(q, k)] = ledger[FileAt(q, k)]
             Due(q) == pc[q] \in {"files", "sql"}
  <2>1. \A q \in Replicas : Ahead(q)' = Ahead(q)
    BY DEF FilesOf, HasSum, FileAt
  <2>2. \A q \in Replicas : q # p => pc'[q] = pc[q] /\ cause'[q] = cause[q]
    BY DEF TypeOK
  <2>3. Due(p)' => Due(p)
    BY DEF TypeOK
  <2>4. \A q \in Replicas : Due(q) => Ahead(q)
    BY DEF Fresh
  <2> HIDE DEF Ahead
  <2>5. \A q \in Replicas : Due(q)' => Ahead(q)'
    BY <2>1, <2>2, <2>3, <2>4
  <2>6. QED
    BY <2>5 DEF Fresh, Ahead
<1>8. Calm'
  BY PlanTypes DEF TypeOK, Calm, Causes
<1>9. Served'
  <2>1. /\ bound[p] \in 1..Len(stores) /\ stores \in Seq(Seq(Images)) /\ image[p] \in Images
        /\ stores' = [stores EXCEPT ![bound[p]] = Append(stores[bound[p]], image[p])]
    BY DEF TypeOK, Bounds, Serving
  <2>2. /\ Len(stores') = Len(stores) /\ DOMAIN stores = 1..Len(stores)
        /\ stores'[bound[p]] = Append(stores[bound[p]], image[p])
        /\ \A s \in 1..Len(stores) : s # bound[p] => stores'[s] = stores[s]
    BY <2>1
  <2>3. stores[bound[p]] \in Seq(Images) /\ Len(stores[bound[p]]) \in Nat
    BY <2>1
  <2>4. /\ Len(stores'[bound[p]]) = Len(stores[bound[p]]) + 1
        /\ stores'[bound[p]][Len(stores[bound[p]]) + 1] = image[p]
        /\ \A m \in 1..Len(stores[bound[p]]) : stores'[bound[p]][m] = stores[bound[p]][m]
    BY <2>1, <2>2, <2>3
  <2>5. \A s \in 1..Len(stores), i \in Images :
           (\E m \in 1..Len(stores[s]) : stores[s][m] = i) => \E m \in 1..Len(stores'[s]) : stores'[s][m] = i
    BY <2>1, <2>2, <2>3, <2>4
  <2>6. \E m \in 1..Len(stores'[bound[p]]) : stores'[bound[p]][m] = image[p]
    <3> DEFINE n == Len(stores[bound[p]]) + 1
    <3>1. n \in 1..Len(stores'[bound[p]]) /\ stores'[bound[p]][n] = image[p]
      BY <2>3, <2>4
    <3>2. QED
      BY <3>1
  <2>7. stores' # <<>>
    BY <2>1, <2>2
  <2>8. /\ \A q \in Replicas : q # p => pc'[q] = pc[q]
        /\ pc[p] = "write" /\ pc'[p] = "reconcile"
    BY DEF TypeOK
  <2>9. UNCHANGED <<image, reconciled, bound>>
    OBVIOUS
  <2>10. ASSUME NEW q \in Replicas, pc'[q] \in {"reconcile", "listen"}
        PROVE  \E m \in 1..Len(stores'[bound[q]]) : stores'[bound[q]][m] = image[q]
    <3>1. CASE q = p
      BY <2>6, <3>1
    <3>2. CASE q # p
      <4>1. pc[q] \in {"reconcile", "listen"} /\ bound[q] \in 1..Len(stores) /\ image[q] \in Images
        BY <2>8, <2>10, <3>2 DEF Bounds, Serving, TypeOK
      <4>2. \E m \in 1..Len(stores[bound[q]]) : stores[bound[q]][m] = image[q]
        BY <4>1 DEF Served
      <4>3. QED
        BY <2>5, <4>1, <4>2
    <3>3. QED
      BY <3>1, <3>2
  <2>11. ASSUME NEW q \in Replicas
        PROVE  pc'[q] = "listen" => bound[q] \in reconciled
    BY <2>7, <2>8 DEF Served, Serving
  <2>12. QED
    BY <2>9, <2>10, <2>11 DEF Served
<1>10. QED
  BY <1>1, <1>2, <1>3, <1>4, <1>5, <1>6, <1>7, <1>8, <1>9

\* A failed attempt unbinds the replica; what took effect stays.
LEMMA StoresGrow ==
  ASSUME IInv, NEW p \in Replicas, EngineCall(p)
  PROVE  /\ stores' \in Seq(Seq(Images)) /\ Len(stores) \in Nat /\ Len(stores') >= Len(stores)
         /\ stores # <<>> => stores' # <<>>
         /\ \A s \in 1..Len(stores), i \in Images :
              (\E m \in 1..Len(stores[s]) : stores[s][m] = i)
                => \E m \in 1..Len(stores'[s]) : stores'[s][m] = i
<1> USE DEF IInv, MInv
<1>0. stores \in Seq(Seq(Images)) /\ Len(stores) \in Nat
  BY DEF TypeOK
<1>1. CASE UNCHANGED stores
  BY <1>0, <1>1
<1>2. CASE pc[p] = "create" /\ stores' = Append(stores, <<>>)
  <2>1. \A s \in 1..Len(stores) : stores'[s] = stores[s]
    BY <1>0, <1>2
  <2>2. Len(stores') = Len(stores) + 1
    BY <1>0, <1>2
  <2>3. <<>> \in Seq(Images)
    OBVIOUS
  <2>4. stores' \in Seq(Seq(Images))
    BY <1>0, <1>2, <2>3
  <2>5. stores' # <<>>
    BY <1>0, <1>2
  <2>6. Len(stores') >= Len(stores)
    BY <1>0, <2>2
  <2>7. QED
    BY <1>0, <2>1, <2>4, <2>5, <2>6
<1>3. CASE pc[p] = "write" /\ Written(p)
  <2>1. /\ bound[p] \in 1..Len(stores) /\ stores \in Seq(Seq(Images)) /\ image[p] \in Images
        /\ stores' = [stores EXCEPT ![bound[p]] = Append(stores[bound[p]], image[p])]
    BY <1>3 DEF TypeOK, Bounds, Serving, Written
  <2>2. /\ Len(stores') = Len(stores) /\ DOMAIN stores = 1..Len(stores)
        /\ stores'[bound[p]] = Append(stores[bound[p]], image[p])
        /\ \A s \in 1..Len(stores) : s # bound[p] => stores'[s] = stores[s]
    BY <2>1
  <2>3. stores[bound[p]] \in Seq(Images) /\ Len(stores[bound[p]]) \in Nat
    BY <2>1
  <2>4. /\ Len(stores'[bound[p]]) = Len(stores[bound[p]]) + 1
        /\ stores'[bound[p]][Len(stores[bound[p]]) + 1] = image[p]
        /\ \A m \in 1..Len(stores[bound[p]]) : stores'[bound[p]][m] = stores[bound[p]][m]
    BY <2>1, <2>2, <2>3
  <2>5. \A s \in 1..Len(stores), i \in Images :
           (\E m \in 1..Len(stores[s]) : stores[s][m] = i) => \E m \in 1..Len(stores'[s]) : stores'[s][m] = i
    BY <2>1, <2>2, <2>3, <2>4
  <2>6. \E m \in 1..Len(stores'[bound[p]]) : stores'[bound[p]][m] = image[p]
    BY <2>3, <2>4
  <2>7. stores' # <<>>
    BY <2>1, <2>2
  <2>8. stores' \in Seq(Seq(Images))
    BY <2>1, <2>3
  <2>9. Len(stores') >= Len(stores)
    BY <1>0, <2>2
  <2>10. QED
    BY <1>0, <2>5, <2>7, <2>8, <2>9
<1>4. QED
  BY <1>1, <1>2, <1>3 DEF EngineCall, Created

LEMMA AttemptFailsKeeps == ASSUME NEW p \in Replicas, IInv, AttemptFails(p) PROVE (MInv /\ Served)'
<1> USE NoneApart DEF IInv, MInv
<1>1. /\ pc[p] \in {"find", "create", "write"} /\ pc'[p] \in {"find", "down"}
      /\ bound' = [bound EXCEPT ![p] = None] /\ faults' = faults + 1
      /\ pc' = [pc EXCEPT ![p] = pc'[p]]
      /\ cause' = [cause EXCEPT ![p] = IF attempt[p] < Attempts THEN None ELSE "fault"]
      /\ pc'[p] = IF attempt[p] < Attempts THEN "find" ELSE "down"
      /\ attempt' = [attempt EXCEPT ![p] = @ + 1]
      /\ UNCHANGED <<db, reconciled, image, known, next, open, late, starts>>
  BY DEF AttemptFails, EngineCall, Fault, Retry, Goto, TypeOK
<1>2. /\ stores' \in Seq(Seq(Images)) /\ Len(stores) \in Nat /\ Len(stores') >= Len(stores)
      /\ Len(stores') \in Nat
      /\ stores # <<>> => stores' # <<>>
      /\ \A s \in 1..Len(stores), i \in Images :
           (\E m \in 1..Len(stores[s]) : stores[s][m] = i)
             => \E m \in 1..Len(stores'[s]) : stores'[s][m] = i
  <2>1. EngineCall(p)
    BY DEF AttemptFails
  <2>2. ASSUME stores' \in Seq(Seq(Images)) PROVE Len(stores') \in Nat
    BY <2>2
  <2>3. QED
    BY <2>1, <2>2, StoresGrow
<1>3. \A q \in Replicas : q # p => pc'[q] = pc[q] /\ bound'[q] = bound[q]
  BY <1>1 DEF TypeOK
<1>4. TypeOK'
  <2>1. /\ pc' \in [Replicas -> Stages] /\ bound' \in [Replicas -> Nat \cup {None}]
        /\ cause' \in [Replicas -> Causes \cup {None}] /\ attempt' \in [Replicas -> Nat]
        /\ faults' \in Nat
    <3>1. pc'[p] \in Stages
      BY <1>1 DEF Stages, Asking
    <3>2. pc' \in [Replicas -> Stages]
      BY <1>1, <3>1 DEF TypeOK
    <3>3. (IF attempt[p] < Attempts THEN None ELSE "fault") \in Causes \cup {None}
      BY DEF Causes
    <3>4. cause' \in [Replicas -> Causes \cup {None}]
      BY <1>1, <3>3 DEF TypeOK
    <3>5. QED
      BY <1>1, <3>2, <3>4 DEF TypeOK
  <2>2. reconciled' \subseteq 1..Len(stores')
    BY <1>1, <1>2 DEF TypeOK
  <2>3. \A q \in Replicas : (lock' = q) <=> (pc'[q] \in Migrating)
    BY <1>1, <1>3 DEF TypeOK, Migrating, db
  <2>4. \A q \in Replicas : pc'[q] \in {"model", "write", "reconcile"} => bound'[q] \in 1..Len(stores')
    BY <1>1, <1>2, <1>3 DEF TypeOK
  <2>5. made' \in [Replicas -> Nat]
    BY DEF AttemptFails, EngineCall, Created, TypeOK
  <2>6. QED
    BY <1>1, <1>2, <2>1, <2>2, <2>3, <2>4, <2>5 DEF TypeOK, db
<1>5. Bounds'
  BY <1>1, <1>2, <1>3 DEF Bounds, Serving
<1>6. MigratedOnceInOrder' /\ OpenFits' /\ Passed' /\ Fresh'
  BY <1>1, <1>3 DEF db, MigratedOnceInOrder, OpenFits, HasFile, Current, Passed, Fresh,
                    FilesOf, FileAt, HasSum
<1>7. Whole'
  <2> DEFINE Said(q) == \A k \in FilesOf(q) : HasSum(q, k)
  <2>1. \A q \in Replicas : Said(q)' = Said(q)
    BY <1>1 DEF FilesOf, HasSum, FileAt, db
  <2>2. Said(p)
    BY <1>1 DEF Whole, Migrated, Asking
  <2>3. \A q \in Replicas : q # p => cause'[q] = cause[q]
    BY <1>1 DEF TypeOK
  <2> HIDE DEF Said
  <2>4. QED
    BY <1>3, <2>1, <2>2, <2>3 DEF Whole, Said
<1>8. Calm'
  BY <1>1, <1>3 DEF TypeOK, Calm
<1>9. Served'
  <2>1. ASSUME NEW q \in Replicas, q # p, pc[q] \in {"reconcile", "listen"}
        PROVE  \E m \in 1..Len(stores'[bound[q]]) : stores'[bound[q]][m] = image[q]
    <3>1. bound[q] \in 1..Len(stores) /\ image[q] \in Images
      BY <2>1 DEF Bounds, Serving, TypeOK
    <3>2. QED
      BY <1>2, <2>1, <3>1 DEF Served
  <2>2. ASSUME NEW q \in Replicas
        PROVE  pc'[q] = "listen" => bound'[q] \in reconciled
    BY <1>1, <1>2, <1>3 DEF Served, Serving
  <2>3. ASSUME NEW q \in Replicas, pc'[q] \in {"reconcile", "listen"}
        PROVE  \E m \in 1..Len(stores'[bound'[q]]) : stores'[bound'[q]][m] = image[q]
    <3>1. q # p /\ pc[q] = pc'[q] /\ bound'[q] = bound[q]
      BY <1>1, <1>3, <2>3
    <3>2. QED
      BY <2>1, <2>3, <3>1
  <2>4. QED
    BY <1>1, <2>2, <2>3 DEF Served
<1>10. QED
  BY <1>4, <1>5, <1>6, <1>7, <1>8, <1>9


\* Who listens has reconciled the store it uses.
LEMMA ReconcileKeeps == ASSUME NEW p \in Replicas, IInv, Reconcile(p) PROVE (MInv /\ Served)'
<1> USE NoneApart DEF IInv, MInv, Reconcile, Goto, db, engine, mine, history
<1>1. TypeOK'
  BY PlanTypes DEF TypeOK, Stages, Migrating, Asking, Causes
<1>2. Bounds'
  BY PlanTypes DEF TypeOK, Bounds, Serving, Stages, Migrating, Asking
<1>3. MigratedOnceInOrder'
  BY PlanTypes DEF TypeOK, MigratedOnceInOrder
<1>4. OpenFits'
  BY PlanTypes DEF TypeOK, OpenFits, HasFile, Current
<1>5. Passed'
  <2> DEFINE Passing(q) == \A k \in FilesOf(q) : k < next[q] => HasSum(q, k)
             Due(q) == pc[q] \in {"connect", "read", "files", "sql"}
  <2>1. \A q \in Replicas : Passing(q)' = Passing(q)
    BY DEF FilesOf, HasSum, FileAt
  <2>2. \A q \in Replicas : q # p => pc'[q] = pc[q] /\ cause'[q] = cause[q]
    BY DEF TypeOK
  <2>3. Due(p)' => Due(p)
    BY DEF TypeOK
  <2>4. \A q \in Replicas : Due(q) => Passing(q)
    BY DEF Passed
  <2> HIDE DEF Passing
  <2>5. \A q \in Replicas : Due(q)' => Passing(q)'
    BY <2>1, <2>2, <2>3, <2>4
  <2>6. QED
    BY <2>5 DEF Passed, Passing
<1>6. Whole'
  <2> DEFINE Said(q) == \A k \in FilesOf(q) : HasSum(q, k)
             Due(q) == pc[q] \in Migrated \/ (pc[q] = "unlock" /\ cause[q] = None)
  <2>1. \A q \in Replicas : Said(q)' = Said(q)
    BY DEF FilesOf, HasSum, FileAt
  <2>2. \A q \in Replicas : q # p => pc'[q] = pc[q] /\ cause'[q] = cause[q]
    BY DEF TypeOK
  <2>3. Due(p)' => Due(p)
    BY DEF TypeOK, Migrated, Asking, Serving, Calm
  <2>4. \A q \in Replicas : Due(q) => Said(q)
    BY DEF Whole
  <2> HIDE DEF Said
  <2>5. \A q \in Replicas : Due(q)' => Said(q)'
    BY <2>1, <2>2, <2>3, <2>4
  <2>6. QED
    BY <2>5 DEF Whole, Said
<1>7. Fresh'
  <2> DEFINE Ahead(q) == \A k \in FilesOf(q) : k >= next[q] =>
                         known[q][FileAt(q, k)] = ledger[FileAt(q, k)]
             Due(q) == pc[q] \in {"files", "sql"}
  <2>1. \A q \in Replicas : Ahead(q)' = Ahead(q)
    BY DEF FilesOf, HasSum, FileAt
  <2>2. \A q \in Replicas : q # p => pc'[q] = pc[q] /\ cause'[q] = cause[q]
    BY DEF TypeOK
  <2>3. Due(p)' => Due(p)
    BY DEF TypeOK
  <2>4. \A q \in Replicas : Due(q) => Ahead(q)
    BY DEF Fresh
  <2> HIDE DEF Ahead
  <2>5. \A q \in Replicas : Due(q)' => Ahead(q)'
    BY <2>1, <2>2, <2>3, <2>4
  <2>6. QED
    BY <2>5 DEF Fresh, Ahead
<1>8. Calm'
  BY PlanTypes DEF TypeOK, Calm, Causes
<1>9. Served'
  BY PlanTypes DEF TypeOK, Bounds, Served, Serving
<1>10. QED
  BY <1>1, <1>2, <1>3, <1>4, <1>5, <1>6, <1>7, <1>8, <1>9

\* A process that ends gives back its lock and its transaction.
LEMMA CrashKeeps == ASSUME NEW p \in Replicas, IInv, Crash(p) PROVE (MInv /\ Served)'
<1> USE NoneApart DEF IInv, MInv, Crash, Goto, db, engine, mine, history, Gone, NoRows, Fault
<1>1. TypeOK'
  <2>1. /\ ledger' \in [Files -> Sums \cup {None}] /\ ran' \in [Files -> Nat]
        /\ lock' \in Replicas \cup {None}
        /\ image' \in [Replicas -> Images] /\ next' \in [Replicas -> Nat \ {0}]
        /\ open' \in [Replicas -> SUBSET Files] /\ late' \in [Replicas -> BOOLEAN] /\ made' \in [Replicas -> Nat]
        /\ starts' \in Nat /\ faults' \in Nat
    BY PlanTypes, BootAssumption DEF TypeOK
  <2>2. /\ pc' \in [Replicas -> Stages] /\ cause' \in [Replicas -> Causes \cup {None}]
        /\ attempt' \in [Replicas -> Nat] /\ bound' \in [Replicas -> Nat \cup {None}]
    BY DEF TypeOK, Stages, Migrating, Asking, Causes
  <2>3. known' \in [Replicas -> [Files -> Sums \cup {None}]]
    BY DEF TypeOK
  <2>4. stores' \in Seq(Seq(Images)) /\ reconciled' \subseteq 1..Len(stores')
    BY DEF TypeOK
  <2>5. \A q \in Replicas : (lock' = q) <=> (pc'[q] \in Migrating)
    BY NoneApart DEF TypeOK, Stages, Migrating, Asking
  <2>6. \A q \in Replicas : pc'[q] \in {"model", "write", "reconcile"} => bound'[q] \in 1..Len(stores')
    BY DEF TypeOK, Stages, Migrating, Asking
  <2>7. QED
    BY <2>1, <2>2, <2>3, <2>4, <2>5, <2>6 DEF TypeOK
<1>2. Bounds'
  BY PlanTypes DEF TypeOK, Bounds, Serving, Stages, Migrating, Asking
<1>3. MigratedOnceInOrder'
  BY PlanTypes DEF TypeOK, MigratedOnceInOrder
<1>4. OpenFits'
  BY PlanTypes DEF TypeOK, OpenFits, HasFile, Current
<1>5. Passed'
  BY PlanTypes DEF TypeOK, Passed, HasSum, FileAt, FilesOf
<1>6. Whole'
  <2> DEFINE Said(q) == \A k \in FilesOf(q) : HasSum(q, k)
             Due(q) == pc[q] \in Migrated \/ (pc[q] = "unlock" /\ cause[q] = None)
  <2>1. \A q \in Replicas : Said(q)' = Said(q)
    BY DEF FilesOf, HasSum, FileAt
  <2>2. \A q \in Replicas : q # p => pc'[q] = pc[q] /\ cause'[q] = cause[q]
    BY DEF TypeOK
  <2>3. Due(p)' => Due(p)
    BY DEF TypeOK, Migrated, Asking, Serving, Calm
  <2>4. \A q \in Replicas : Due(q) => Said(q)
    BY DEF Whole
  <2> HIDE DEF Said
  <2>5. \A q \in Replicas : Due(q)' => Said(q)'
    BY <2>1, <2>2, <2>3, <2>4
  <2>6. QED
    BY <2>5 DEF Whole, Said
<1>7. Fresh'
  BY PlanTypes DEF TypeOK, Fresh, FileAt, FilesOf
<1>8. Calm'
  BY PlanTypes DEF TypeOK, Calm, Causes
<1>9. Served'
  BY PlanTypes DEF TypeOK, Bounds, Served, Serving
<1>10. QED
  BY <1>1, <1>2, <1>3, <1>4, <1>5, <1>6, <1>7, <1>8, <1>9

\* As does one that is stopped.
LEMMA StopKeeps == ASSUME NEW p \in Replicas, IInv, Stop(p) PROVE (MInv /\ Served)'
<1> USE NoneApart DEF IInv, MInv, Stop, Goto, db, engine, mine, history, Gone, NoRows
<1>1. TypeOK'
  <2>1. /\ ledger' \in [Files -> Sums \cup {None}] /\ ran' \in [Files -> Nat]
        /\ lock' \in Replicas \cup {None}
        /\ image' \in [Replicas -> Images] /\ next' \in [Replicas -> Nat \ {0}]
        /\ open' \in [Replicas -> SUBSET Files] /\ late' \in [Replicas -> BOOLEAN] /\ made' \in [Replicas -> Nat]
        /\ starts' \in Nat /\ faults' \in Nat
    BY PlanTypes, BootAssumption DEF TypeOK
  <2>2. /\ pc' \in [Replicas -> Stages] /\ cause' \in [Replicas -> Causes \cup {None}]
        /\ attempt' \in [Replicas -> Nat] /\ bound' \in [Replicas -> Nat \cup {None}]
    BY DEF TypeOK, Stages, Migrating, Asking, Causes
  <2>3. known' \in [Replicas -> [Files -> Sums \cup {None}]]
    BY DEF TypeOK
  <2>4. stores' \in Seq(Seq(Images)) /\ reconciled' \subseteq 1..Len(stores')
    BY DEF TypeOK
  <2>5. \A q \in Replicas : (lock' = q) <=> (pc'[q] \in Migrating)
    BY NoneApart DEF TypeOK, Stages, Migrating, Asking
  <2>6. \A q \in Replicas : pc'[q] \in {"model", "write", "reconcile"} => bound'[q] \in 1..Len(stores')
    BY DEF TypeOK, Stages, Migrating, Asking
  <2>7. QED
    BY <2>1, <2>2, <2>3, <2>4, <2>5, <2>6 DEF TypeOK
<1>2. Bounds'
  BY PlanTypes DEF TypeOK, Bounds, Serving, Stages, Migrating, Asking
<1>3. MigratedOnceInOrder'
  BY PlanTypes DEF TypeOK, MigratedOnceInOrder
<1>4. OpenFits'
  BY PlanTypes DEF TypeOK, OpenFits, HasFile, Current
<1>5. Passed'
  BY PlanTypes DEF TypeOK, Passed, HasSum, FileAt, FilesOf
<1>6. Whole'
  <2> DEFINE Said(q) == \A k \in FilesOf(q) : HasSum(q, k)
             Due(q) == pc[q] \in Migrated \/ (pc[q] = "unlock" /\ cause[q] = None)
  <2>1. \A q \in Replicas : Said(q)' = Said(q)
    BY DEF FilesOf, HasSum, FileAt
  <2>2. \A q \in Replicas : q # p => pc'[q] = pc[q] /\ cause'[q] = cause[q]
    BY DEF TypeOK
  <2>3. Due(p)' => Due(p)
    BY DEF TypeOK, Migrated, Asking, Serving, Calm
  <2>4. \A q \in Replicas : Due(q) => Said(q)
    BY DEF Whole
  <2> HIDE DEF Said
  <2>5. \A q \in Replicas : Due(q)' => Said(q)'
    BY <2>1, <2>2, <2>3, <2>4
  <2>6. QED
    BY <2>5 DEF Whole, Said
<1>7. Fresh'
  BY PlanTypes DEF TypeOK, Fresh, FileAt, FilesOf
<1>8. Calm'
  BY PlanTypes DEF TypeOK, Calm, Causes
<1>9. Served'
  BY PlanTypes DEF TypeOK, Bounds, Served, Serving
<1>10. QED
  BY <1>1, <1>2, <1>3, <1>4, <1>5, <1>6, <1>7, <1>8, <1>9

-----------------------------------------------------------------------------
\* Only a boot that has listed no store makes one, and from then on it finds it.
LEMMA MakersStep == ASSUME IInv, [Next]_vars PROVE Makers'
<1> USE DEF IInv, MInv, Makers, TypeOK, Goto, db, engine, mine, history
<1>1. ASSUME UNCHANGED <<stores, late, made>>,
             \A q \in Replicas : pc'[q] = "create" => pc[q] = "create"
      PROVE  Makers'
  BY <1>1
<1>2. CASE UNCHANGED vars
  BY <1>1, <1>2 DEF vars
<1>3. ASSUME NEW p \in Replicas, NEW i \in Images, Start(p, i) PROVE Makers'
  BY <1>3 DEF Start
<1>4. ASSUME NEW p \in Replicas, TakeLock(p) PROVE Makers'
  BY <1>1, <1>4 DEF TakeLock
<1>5. ASSUME NEW p \in Replicas, Migrate(p) PROVE Makers'
  <2>1. UNCHANGED <<stores, late, made>>
    BY <1>5 DEF Migrate, ReadLedger, SkipFile, RefuseDrift, RunSql, CommitFile, FilesDone, Unlock
  <2>2. \A q \in Replicas : pc'[q] = "create" => pc[q] = "create"
    BY <1>5 DEF Migrate, ReadLedger, SkipFile, RefuseDrift, RunSql, CommitFile, FilesDone,
                Unlock, AfterUnlock
  <2>3. QED
    BY <1>1, <2>1, <2>2
<1>6. ASSUME NEW p \in Replicas, FindStore(p) PROVE Makers'
  BY <1>6 DEF FindStore
<1>7. ASSUME NEW p \in Replicas, CreateStore(p) PROVE Makers'
  BY <1>7 DEF CreateStore, Created
<1>8. ASSUME NEW p \in Replicas, Probe(p) \/ ReadModel(p) \/ Reconcile(p) PROVE Makers'
  <2>1. UNCHANGED <<stores, late, made>>
    BY <1>8 DEF Probe, ReadModel, Reconcile
  <2>2. \A q \in Replicas : pc'[q] = "create" => pc[q] = "create"
    BY <1>8 DEF Probe, ReadModel, Reconcile
  <2>3. QED
    BY <1>1, <2>1, <2>2
<1>9. ASSUME NEW p \in Replicas, WriteModel(p) PROVE Makers'
  <2>1. stores # <<>> => stores' # <<>>
    BY <1>9 DEF WriteModel, Written
  <2>2. UNCHANGED <<late, made>> /\ \A q \in Replicas : pc'[q] = "create" => pc[q] = "create"
    BY <1>9 DEF WriteModel
  <2>3. QED
    BY <2>1, <2>2
<1>10. ASSUME NEW p \in Replicas, AttemptFails(p) PROVE Makers'
  <2>1. stores # <<>> => stores' # <<>>
    BY <1>10, StoresGrow DEF AttemptFails
  <2>2. late' = late /\ \A q \in Replicas : pc'[q] = "create" => pc[q] = "create"
    BY <1>10 DEF AttemptFails, Retry
  <2>3. CASE UNCHANGED made
    BY <2>1, <2>2, <2>3
  <2>4. CASE pc[p] = "create" /\ Created(p)
    <3>1. stores' # <<>> /\ pc'[p] # "create"
      BY <1>10, <2>4 DEF Created, AttemptFails, Retry
    <3>2. QED
      BY <2>2, <2>4, <3>1 DEF Created
  <2>5. QED
    BY <1>10, <2>3, <2>4 DEF AttemptFails, EngineCall
<1>11. ASSUME NEW p \in Replicas, Stop(p) \/ (Failure(p) /\ ~ AttemptFails(p)) PROVE Makers'
  <2>1. UNCHANGED <<stores, late, made>>
    BY <1>11 DEF Stop, Failure, FileFails, CommitUnheard, ReadModelFails, Crash, Gone
  <2>2. \A q \in Replicas : pc'[q] = "create" => pc[q] = "create"
    BY <1>11 DEF Stop, Failure, FileFails, CommitUnheard, ReadModelFails, Crash, Gone
  <2>3. QED
    BY <1>1, <2>1, <2>2
<1>12. QED
  BY <1>2, <1>3, <1>4, <1>5, <1>6, <1>7, <1>8, <1>9, <1>10, <1>11 DEF Next, Bootstrap

\* The invariant is inductive.
LEMMA NextIInv == IInv /\ [Next]_vars => IInv'
<1> SUFFICES ASSUME IInv, [Next]_vars PROVE IInv'
  OBVIOUS
<1>1. ASSUME UNCHANGED vars PROVE (MInv /\ Served)'
  <2> USE <1>1 DEF vars, db, engine, mine, history, IInv, MInv
  <2>1. TypeOK' /\ Bounds' /\ MigratedOnceInOrder'
    BY DEF TypeOK, Bounds, MigratedOnceInOrder
  <2>2. OpenFits' /\ Passed' /\ Whole' /\ Fresh' /\ Calm' /\ Served'
    BY DEF OpenFits, HasFile, Current, Passed, Whole, Fresh, Calm, Served, FilesOf, FileAt,
           HasSum
  <2>3. QED
    BY <2>1, <2>2
<1>2. ASSUME NEW p \in Replicas, NEW i \in Images, Start(p, i) PROVE (MInv /\ Served)'
  BY <1>2, StartKeeps
<1>3. ASSUME NEW p \in Replicas, TakeLock(p) PROVE (MInv /\ Served)'
  BY <1>3, TakeLockKeeps
<1>4. ASSUME NEW p \in Replicas, Migrate(p) PROVE (MInv /\ Served)'
  BY <1>4, ReadLedgerKeeps, SkipFileKeeps, RefuseDriftKeeps, RunSqlKeeps, CommitFileKeeps,
     FilesDoneKeeps, UnlockKeeps DEF Migrate
<1>5. ASSUME NEW p \in Replicas, Bootstrap(p) PROVE (MInv /\ Served)'
  BY <1>5, ProbeKeeps, FindStoreKeeps, CreateStoreKeeps, ReadModelKeeps, WriteModelKeeps,
     ReconcileKeeps DEF Bootstrap
<1>6. ASSUME NEW p \in Replicas, Failure(p) PROVE (MInv /\ Served)'
  BY <1>6, FileFailsKeeps, CommitUnheardKeeps, ReadModelFailsKeeps, AttemptFailsKeeps,
     CrashKeeps DEF Failure
<1>7. ASSUME NEW p \in Replicas, Stop(p) PROVE (MInv /\ Served)'
  BY <1>7, StopKeeps
<1>8. Makers'
  BY MakersStep
<1>9. QED
  BY <1>1, <1>2, <1>3, <1>4, <1>5, <1>6, <1>7, <1>8 DEF Next, IInv

LEMMA SpecIInv == Spec => []IInv
  BY InitIInv, NextIInv, PTL DEF Spec

\* The variables of the boot keep their types, and one replica migrates at a time.
THEOREM TypeCorrect == Spec => []TypeOK
<1>1. IInv => TypeOK
  BY DEF IInv, MInv
<1>2. QED
  BY <1>1, SpecIInv, PTL

\* Every migration's SQL is there once with its row, or not at all, and in order.
THEOREM MigrationsRunOnce == Spec => []MigratedOnceInOrder
<1>1. IInv => MigratedOnceInOrder
  BY DEF IInv, MInv
<1>2. QED
  BY <1>1, SpecIInv, PTL

\* No runner meets a row it did not know of.
THEOREM LockSerializes == Spec => []NoBootLosesARace
<1>1. IInv => NoBootLosesARace
  BY DEF IInv, MInv, Calm, NoBootLosesARace
<1>2. QED
  BY <1>1, SpecIInv, PTL

\* Who listens has its files applied, its model written and its store reconciled.
THEOREM ListeningIsReady == Spec => []ListenersAreReady
<1>1. IInv => ListenersAreReady
  BY DEF IInv, MInv, Whole, Served, Migrated, Asking, Serving, FilesOf, FileAt, HasSum,
         ListenersAreReady
<1>2. QED
  BY <1>1, SpecIInv, PTL

\* However first boots overlap and fail and are tried again, each makes at most
\* one store, and who boots when there is one makes none.
THEOREM StoresAreFirstBoots == Spec => []FirstBootsMakeTheStores
<1>1. IInv => FirstBootsMakeTheStores
  BY DEF IInv, Makers, FirstBootsMakeTheStores
<1>2. QED
  BY <1>1, SpecIInv, PTL
=============================================================================
