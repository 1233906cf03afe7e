---------------------------- MODULE DocumentSweeps ----------------------------
(***************************************************************************)
(* How a paper becomes text: storeDocument puts the object and then the    *)
(* row; the extraction sweep gives every new row pages or a verdict; the   *)
(* OCR sweep takes the scans it parked.  Nothing locks a document.         *)
(*                                                                         *)
(* A worker is a place for one tick, of either sweep, on some replica.  The *)
(* timer starts a tick whether or not the last one is over, so ticks overlap*)
(* on one replica as on several; those of one replica share its backoff.   *)
(* Document d is the d-th by createdAt, the order both queues are read in. *)
(* Nothing else writes a Document's status and no operation updates or     *)
(* deletes a Document or a DocumentPage.                                   *)
(***************************************************************************)
EXTENDS Integers, FiniteSets, Sequences

CONSTANTS
    NumDocs,          \* how many papers are ever stored
    Workers,          \* places for ticks that are at work at once
    Replicas,         \* processes, each with both sweeps and one OCR backoff
    Home,             \* the replica of each place
    Papers,           \* what each paper may turn out to be
    PagesPerPdf,      \* pages of every PDF; an image has one
    DocumentsPerTick, \* DOCUMENTS_PER_TICK
    Overfetch,        \* BACKOFF_OVERFETCH
    Windows,          \* ticks a document is passed over after the n-th failure
                      \* in a row: 2, 4 and so on to 2 ^ MAX_BACKOFF_EXPONENT
    PagesPerTick,     \* the OCR budget of one tick
    MaxPagesPerCall,  \* the provider's limit for one call
    MaxFaults,        \* bound on what may go wrong on its own
    Nothing

Docs == 1 .. NumDocs

\* "unreachable": reading its object always fails; "stubborn": an image on
\* which every provider call fails; "rejected": a scan the provider refuses.
Content == {"text", "scan", "garbled", "photo", "rejected",
            "unreachable", "stubborn"}

Verdicts == {"NO_TEXT_LAYER", "EXTRACTED", "FAILED", "OCR_FAILED"}

ASSUME ConstantsAssumption ==
    /\ NumDocs \in Nat
    /\ Papers \in [Docs -> SUBSET Content]
    /\ PagesPerPdf \in Nat \ {0}
    /\ DocumentsPerTick \in Nat \ {0}
    /\ Overfetch \in Nat
    /\ PagesPerTick \in Nat \ {0}
    /\ MaxPagesPerCall \in Nat \ {0}
    /\ MaxFaults \in Nat
    /\ Home \in [Workers -> Replicas]
    /\ Nothing \notin Docs
    /\ Nothing \notin Content
    /\ Nothing \notin Verdicts \cup {"unset"}

ASSUME WindowsAssumption ==
    Windows \in Seq(Nat) /\ Windows # <<>>

VARIABLES
    filing,   \* where each storeDocument call is
    paper,    \* what each uploaded paper is
    objects,  \* documents whose object is in the object store
    status,   \* each row's extraction state, Nothing where there is no row
    pages,    \* DocumentPage rows
    sweep,    \* the sweep each worker runs a tick of
    at,       \* where it is in that tick
    queue,    \* what each tick has still to look at
    hand,     \* the document each worker is on
    todo,     \* the pages it has still to write
    batch,    \* those of them the running provider call answers
    verdict,  \* the state it is about to record
    budget,   \* the pages each OCR tick may still bill
    taken,    \* the documents each OCR tick has processed
    backoff,  \* per replica and document: failures in a row, and how many
              \* ticks it is still passed over
    company,  \* whether another OCR tick had the document in hand meanwhile
    doubted,  \* documents whose create failed after its row was stored
    faults    \* faults so far

docVars == <<filing, paper, objects, status, pages, doubted>>
held == <<hand, company>>
tickVars == <<sweep, at, queue, held, todo, batch, verdict, budget, taken, backoff>>
DSvars == <<filing, paper, objects, status, pages, doubted, sweep, at, queue,
          hand, todo, batch, verdict, budget, taken, backoff, company, faults>>

IsImage(d) == paper[d] \in {"photo", "stubborn"}
NumPages(d) == IF IsImage(d) THEN 1 ELSE PagesPerPdf

AllPages(d) == 1 .. NumPages(d)

Written(d) == {p \in AllPages(d) : <<d, p>> \in pages}

\* The first n of a set of numbers: a LIMIT n in arrival order, and a slice.
FirstOf(S, n) == {x \in S : Cardinality({y \in S : y < x}) < n}
IsFirst(x, S) == x \in S /\ \A y \in S : x <= y

Ocr(w) == sweep[w] = "ocr"

\* No failure on record.
NoFailure == [streak |-> 0, left |-> 0]

WithStatus(s) == {d \in Docs : status[d] = s}

Faulty == faults < MaxFaults /\ faults' = faults + 1
NoFault == UNCHANGED faults

DSInit ==
    /\ filing = [d \in Docs |-> "idle"]
    /\ paper = [d \in Docs |-> Nothing]
    /\ objects = {}
    /\ status = [d \in Docs |-> Nothing]
    /\ pages = {}
    /\ doubted = {}
    /\ sweep = [w \in Workers |-> Nothing]
    /\ at = [w \in Workers |-> "idle"]
    /\ queue = [w \in Workers |-> {}]
    /\ hand = [w \in Workers |-> Nothing]
    /\ todo = [w \in Workers |-> {}]
    /\ batch = [w \in Workers |-> {}]
    /\ verdict = [w \in Workers |-> Nothing]
    /\ budget = [w \in Workers |-> PagesPerTick]
    /\ taken = [w \in Workers |-> 0]
    /\ backoff = [k \in Replicas |-> [d \in Docs |-> NoFailure]]
    /\ company = [w \in Workers |-> FALSE]
    /\ faults = 0

-----------------------------------------------------------------------------
(* storeDocument.                                                          *)

File(d, stage) == filing' = [filing EXCEPT ![d] = stage]

\* Mutant: the row first, its object only afterwards.
PutLate(d) ==
    /\ filing[d] = "idle"
    /\ \E c \in Papers[d] : paper' = [paper EXCEPT ![d] = c]
    /\ File(d, "create")
    /\ UNCHANGED <<objects, status, pages, doubted, faults>>
    /\ UNCHANGED tickVars

\* objectStore.put: a put that fails stores nothing and ends the call.
Put(d) ==
    /\ filing[d] = "idle"
    /\ \E c \in Papers[d] : paper' = [paper EXCEPT ![d] = c]
    /\ objects' = objects \cup {d}
    /\ File(d, "create")
    /\ UNCHANGED <<status, pages, doubted, faults>>
    /\ UNCHANGED tickVars

\* createDocument: stored; refused or failed before its row was stored; or
\* failed after it (the connection was lost on the way back).
CreateRow(d) ==
    /\ filing[d] = "create"
    /\ \/ /\ status' = [status EXCEPT ![d] = "unset"]
          /\ File(d, "filed")
          /\ NoFault
          /\ UNCHANGED doubted
       \/ /\ Faulty
          /\ File(d, "cleanup")
          /\ UNCHANGED <<status, doubted>>
       \/ /\ Faulty
          /\ status' = [status EXCEPT ![d] = "unset"]
          /\ doubted' = doubted \cup {d}
          /\ File(d, "cleanup")
    /\ UNCHANGED <<paper, objects, pages>>
    /\ UNCHANGED tickVars

\* The catch block: the object is deleted, best effort, and the call fails.
Cleanup(d) ==
    /\ filing[d] = "cleanup"
    /\ File(d, "failed")
    /\ \/ objects' = objects \ {d} /\ NoFault
       \/ Faulty /\ UNCHANGED objects
    /\ UNCHANGED <<paper, status, pages, doubted>>
    /\ UNCHANGED tickVars

\* The process ends between two steps of a call.
StopFiling(d) ==
    /\ filing[d] \in {"create", "cleanup"}
    /\ Faulty
    /\ File(d, "failed")
    /\ UNCHANGED <<paper, objects, status, pages, doubted>>
    /\ UNCHANGED tickVars

-----------------------------------------------------------------------------
(* Both sweeps: the loop of a tick and the writes.                         *)

\* The worker puts down what it was doing.
Clear(w) ==
    /\ hand' = [hand EXCEPT ![w] = Nothing]
    /\ company' = [company EXCEPT ![w] = FALSE]
    /\ todo' = [todo EXCEPT ![w] = {}]
    /\ batch' = [batch EXCEPT ![w] = {}]
    /\ verdict' = [verdict EXCEPT ![w] = Nothing]

\* The tick is over.
Idle(w) ==
    /\ Clear(w)
    /\ sweep' = [sweep EXCEPT ![w] = Nothing]
    /\ at' = [at EXCEPT ![w] = "idle"]
    /\ queue' = [queue EXCEPT ![w] = {}]

\* Mutant: a document that is left ends the tick.
LeaveEndingTick(w) == Idle(w)

\* Leave the document in hand, written or not, for the next of the queue.
Leave(w) ==
    /\ Clear(w)
    /\ at' = [at EXCEPT ![w] = "next"]
    /\ UNCHANGED <<sweep, queue>>

\* recordFailure, evict.
RecordFailure(w) ==
    LET failed == backoff[Home[w]][hand[w]].streak
        streak == IF failed = Len(Windows) THEN failed ELSE failed + 1
    IN  IF Ocr(w)
        THEN backoff' = [backoff EXCEPT ![Home[w]][hand[w]] =
                            [streak |-> streak, left |-> Windows[streak]]]
        ELSE UNCHANGED backoff

Evict(w) ==
    IF Ocr(w)
    THEN backoff' = [backoff EXCEPT ![Home[w]][hand[w]] = NoFailure]
    ELSE UNCHANGED backoff

\* A transient failure: no status is written; the sweep goes on.
FailTransiently(w) == Leave(w) /\ RecordFailure(w)

\* What makes the document in hand fail every time needs no fault.
Blamed(d, contents) == IF paper[d] \in contents THEN NoFault ELSE Faulty

Conclude(w, v) ==
    /\ at' = [at EXCEPT ![w] = "record"]
    /\ verdict' = [verdict EXCEPT ![w] = v]
    /\ todo' = [todo EXCEPT ![w] = {}]
    /\ batch' = [batch EXCEPT ![w] = {}]

\* isEligible, asked when the loop comes to the document.
Eligible(w, d) == Ocr(w) => backoff[Home[w]][d].left = 0

TickIsFull(w) == Ocr(w) /\ taken[w] >= DocumentsPerTick

\* The document in hand, and whether another OCR tick has it too.
TakeInHand(w, d) ==
    /\ hand' = [hand EXCEPT ![w] = d]
    /\ company' = [v \in Workers |->
           IF v = w THEN Ocr(w) /\ \E o \in Workers \ {w} : Ocr(o) /\ hand[o] = d
           ELSE company[v] \/ (Ocr(w) /\ Ocr(v) /\ hand[v] = d)]

\* Take the next document of the queue that is not passed over; the end of
\* the queue or the tick's bound on documents ends the tick.
Take(w) ==
    LET open == {d \in queue[w] : Eligible(w, d)} IN
    /\ at[w] = "next"
    /\ \/ /\ open = {} \/ TickIsFull(w)
          /\ Idle(w)
          /\ UNCHANGED taken
       \/ /\ ~ TickIsFull(w)
          /\ \E d \in open :
                /\ IsFirst(d, open)
                /\ queue' = [queue EXCEPT ![w] = {x \in @ : x > d}]
                /\ TakeInHand(w, d)
          /\ at' = [at EXCEPT ![w] = "fetch"]
          /\ taken' = IF Ocr(w) THEN [taken EXCEPT ![w] = @ + 1] ELSE taken
          /\ UNCHANGED <<sweep, todo, batch, verdict>>
    /\ UNCHANGED <<budget, backoff, faults>>
    /\ UNCHANGED docVars

\* Mutant: a missing page row does not keep a document from its status.
WritePageLoosely(w) ==
    /\ at[w] = "write"
    /\ \E p \in batch[w] :
          /\ IsFirst(p, batch[w])
          /\ pages' \in {pages, pages \cup {<<hand[w], p>>}}
          /\ batch' = [batch EXCEPT ![w] = @ \ {p}]
          /\ todo' = [todo EXCEPT ![w] = @ \ {p}]
    /\ UNCHANGED <<sweep, at, queue, held, verdict, budget, taken, backoff, faults>>
    /\ UNCHANGED <<filing, paper, objects, status, doubted>>

\* createDocumentPage for one page: written, or answered ALREADY_EXISTS; any
\* other failure is transient, whether or not the row was stored.
WritePage(w) ==
    /\ at[w] = "write"
    /\ \E p \in batch[w] :
          /\ IsFirst(p, batch[w])
          /\ \/ /\ pages' = pages \cup {<<hand[w], p>>}
                /\ batch' = [batch EXCEPT ![w] = @ \ {p}]
                /\ todo' = [todo EXCEPT ![w] = @ \ {p}]
                /\ NoFault
                /\ UNCHANGED <<sweep, at, queue, held, verdict, backoff>>
             \/ /\ Faulty
                /\ pages' \in {pages, pages \cup {<<hand[w], p>>}}
                /\ FailTransiently(w)
    /\ UNCHANGED <<filing, paper, objects, status, doubted, budget, taken>>

\* After the last page of a batch: the next provider call, or the status.
BatchWritten(w) ==
    /\ at[w] = "write"
    /\ batch[w] = {}
    /\ IF todo[w] = {}
       THEN Conclude(w, "EXTRACTED")
       ELSE /\ at' = [at EXCEPT ![w] = "recognize"]
            /\ UNCHANGED <<todo, batch, verdict>>
    /\ UNCHANGED <<sweep, queue, held, budget, taken, backoff, faults>>
    /\ UNCHANGED docVars

\* recordExtraction: load and save of a row whose only changing part is the
\* status this overwrites; it asks nothing of the status it replaces.
Record(w) ==
    /\ at[w] = "record"
    /\ \/ /\ status' = [status EXCEPT ![hand[w]] = verdict[w]]
          /\ Evict(w)
          /\ Leave(w)
          /\ NoFault
       \/ /\ Faulty
          /\ \/ UNCHANGED status
             \/ status' = [status EXCEPT ![hand[w]] = verdict[w]]
          /\ FailTransiently(w)
    /\ UNCHANGED <<filing, paper, objects, pages, doubted, budget, taken>>

-----------------------------------------------------------------------------
(* The extraction sweep.                                                   *)

\* The queue: rows without a status, oldest first.  (The second pull, for
\* PENDING, finds nothing: no code writes PENDING.)
ExtractTick(w) ==
    /\ at[w] = "idle"
    /\ WithStatus("unset") # {}
    /\ queue' = [queue EXCEPT ![w] =
                    FirstOf(WithStatus("unset"), DocumentsPerTick)]
    /\ sweep' = [sweep EXCEPT ![w] = "extract"]
    /\ at' = [at EXCEPT ![w] = "next"]
    /\ UNCHANGED <<held, todo, batch, verdict, budget, taken, backoff, faults>>
    /\ UNCHANGED docVars

\* Mutant: an object that could not be read taken for a missing one.
ExtractTakesErrorForMissing(w) ==
    LET d == hand[w] IN
    /\ at[w] = "fetch" /\ sweep[w] = "extract"
    /\ IF IsImage(d)
       THEN Conclude(w, "NO_TEXT_LAYER")
       ELSE IF d \in objects /\ paper[d] = "text"
            THEN /\ at' = [at EXCEPT ![w] = "write"]
                 /\ todo' = [todo EXCEPT ![w] = AllPages(d)]
                 /\ batch' = [batch EXCEPT ![w] = AllPages(d)]
                 /\ UNCHANGED verdict
            ELSE Conclude(w, IF d \in objects /\ paper[d] \in {"scan", "rejected"}
                             THEN "NO_TEXT_LAYER" ELSE "FAILED")
    /\ UNCHANGED <<sweep, queue, held, budget, taken, backoff, faults>>
    /\ UNCHANGED docVars

\* extractOne up to its first write: what the object says about the paper.
Extract(w) ==
    LET d == hand[w] IN
    /\ at[w] = "fetch" /\ sweep[w] = "extract"
    /\ \/ /\ IsImage(d)
          /\ Conclude(w, "NO_TEXT_LAYER")
          /\ NoFault
          /\ UNCHANGED <<sweep, queue, held, backoff>>
       \/ /\ ~ IsImage(d)
          /\ Blamed(d, {"unreachable"})
          /\ FailTransiently(w)
       \/ /\ ~ IsImage(d)
          /\ d \notin objects
          /\ Conclude(w, "FAILED")
          /\ NoFault
          /\ UNCHANGED <<sweep, queue, held, backoff>>
       \/ /\ d \in objects
          /\ paper[d] \in {"garbled", "scan", "rejected"}
          /\ Conclude(w, IF paper[d] = "garbled" THEN "FAILED"
                                                 ELSE "NO_TEXT_LAYER")
          /\ NoFault
          /\ UNCHANGED <<sweep, queue, held, backoff>>
       \/ /\ d \in objects
          /\ paper[d] = "text"
          /\ at' = [at EXCEPT ![w] = "write"]
          /\ todo' = [todo EXCEPT ![w] = AllPages(d)]
          /\ batch' = [batch EXCEPT ![w] = AllPages(d)]
          /\ NoFault
          /\ UNCHANGED <<sweep, queue, held, verdict, backoff>>
    /\ UNCHANGED <<budget, taken>>
    /\ UNCHANGED docVars

-----------------------------------------------------------------------------
(* The OCR sweep.                                                          *)

\* A new tick is another interval gone.
Nearer(failed) ==
    [failed EXCEPT !.left = IF @ = 0 THEN 0 ELSE @ - 1]

\* One pull, past the tick's own bound by Overfetch.
OcrTick(w) ==
    /\ at[w] = "idle"
    /\ WithStatus("NO_TEXT_LAYER") # {}
    /\ queue' = [queue EXCEPT ![w] = FirstOf(WithStatus("NO_TEXT_LAYER"),
                                             DocumentsPerTick + Overfetch)]
    /\ backoff' = [backoff EXCEPT ![Home[w]] =
                      [d \in Docs |-> Nearer(@[d])]]
    /\ budget' = [budget EXCEPT ![w] = PagesPerTick]
    /\ taken' = [taken EXCEPT ![w] = 0]
    /\ sweep' = [sweep EXCEPT ![w] = "ocr"]
    /\ at' = [at EXCEPT ![w] = "next"]
    /\ UNCHANGED <<held, todo, batch, verdict, faults>>
    /\ UNCHANGED docVars

\* ocrOne: get the object and count its pages.
Open(w) ==
    LET d == hand[w] IN
    /\ at[w] = "fetch" /\ Ocr(w)
    /\ \/ /\ Blamed(d, {"unreachable"})
          /\ FailTransiently(w)
       \/ /\ d \notin objects
          /\ Conclude(w, "FAILED")
          /\ NoFault
          /\ UNCHANGED <<sweep, queue, held, backoff>>
       \/ /\ d \in objects
          /\ paper[d] # "unreachable"
          /\ at' = [at EXCEPT ![w] = "list"]
          /\ NoFault
          /\ UNCHANGED <<sweep, queue, held, todo, batch, verdict, backoff>>
    /\ UNCHANGED <<budget, taken>>
    /\ UNCHANGED docVars

\* Mutant: a tick takes every document its queue holds.
NoGate(requested, remaining) == "process"

\* decideBudgetGate.
Gate(requested, remaining) ==
    IF requested <= remaining \/ remaining = PagesPerTick
    THEN "process" ELSE "stop"

\* Mutant: every page of the document is asked for again.
MissingAll(d) == AllPages(d)

Missing(d) == AllPages(d) \ Written(d)

\* The pages that exist already; the budget gate on the missing ones.
ListPages(w) ==
    LET missing == Missing(hand[w])
        gate == Gate(Cardinality(missing), budget[w])
    IN
    /\ at[w] = "list"
    /\ \/ /\ missing = {}
          /\ Conclude(w, "EXTRACTED")
          /\ UNCHANGED <<sweep, queue, held>>
       \/ /\ missing # {}
          /\ gate = "stop"
          /\ Idle(w)
       \/ /\ missing # {}
          /\ gate = "process"
          /\ todo' = [todo EXCEPT ![w] = missing]
          /\ at' = [at EXCEPT ![w] = "recognize"]
          /\ UNCHANGED <<sweep, queue, held, batch, verdict>>
    /\ UNCHANGED <<budget, taken, backoff, faults>>
    /\ UNCHANGED docVars

\* The pages of the next provider call.
Asks(w) == FirstOf(todo[w], MaxPagesPerCall)

\* One provider call, billed when it is attempted: answered in full, bytes
\* rejected, wrong configuration (the tick ends), or failed for the time
\* being, which an answer that omits a page counts as.
Recognize(w) ==
    LET d == hand[w] IN
    /\ at[w] = "recognize"
    /\ budget' = [budget EXCEPT ![w] = @ - Cardinality(Asks(w))]
    /\ \/ /\ paper[d] \notin {"rejected", "stubborn"}
          /\ batch' = [batch EXCEPT ![w] = Asks(w)]
          /\ at' = [at EXCEPT ![w] = "write"]
          /\ NoFault
          /\ UNCHANGED <<sweep, queue, held, todo, verdict, backoff>>
       \/ /\ paper[d] = "rejected"
          /\ Conclude(w, "OCR_FAILED")
          /\ NoFault
          /\ UNCHANGED <<sweep, queue, held, backoff>>
       \/ /\ Faulty
          /\ Idle(w)
          /\ UNCHANGED backoff
       \/ /\ Blamed(d, {"stubborn"})
          /\ FailTransiently(w)
    /\ UNCHANGED taken
    /\ UNCHANGED docVars

\* A replica restarts: what its ticks held and its backoff are in memory.
Restart(k) ==
    LET lost(f, empty) ==
            [w \in Workers |-> IF Home[w] = k THEN empty ELSE f[w]]
    IN
    /\ Faulty
    /\ sweep' = lost(sweep, Nothing)
    /\ at' = lost(at, "idle")
    /\ queue' = lost(queue, {})
    /\ hand' = lost(hand, Nothing)
    /\ company' = lost(company, FALSE)
    /\ todo' = lost(todo, {})
    /\ batch' = lost(batch, {})
    /\ verdict' = lost(verdict, Nothing)
    /\ backoff' = [backoff EXCEPT ![k] = [d \in Docs |-> NoFailure]]
    /\ UNCHANGED <<budget, taken>>
    /\ UNCHANGED docVars

FilingStep(d) == Put(d) \/ CreateRow(d) \/ Cleanup(d) \/ StopFiling(d)

WorkStep(w) ==
    \/ Take(w) \/ WritePage(w) \/ BatchWritten(w) \/ Record(w)
    \/ Extract(w)
    \/ Open(w) \/ ListPages(w) \/ Recognize(w)

DSNext ==
    \/ \E d \in Docs : FilingStep(d)
    \/ \E w \in Workers : ExtractTick(w) \/ OcrTick(w) \/ WorkStep(w)
    \/ \E k \in Replicas : Restart(k)

DSSpec == DSInit /\ [][DSNext]_DSvars

\* setInterval starts the next tick whatever became of the last ones, and the
\* event loop runs an await that is ready: a tick comes to its end, so a place
\* for the next one falls free again and again.  Nothing is owed to a filing.
Extracts(k) == \E w \in Workers : Home[w] = k /\ ExtractTick(w)
Recognizes(k) == \E w \in Workers : Home[w] = k /\ OcrTick(w)

DSFairSpec ==
    /\ DSSpec
    /\ \A k \in Replicas : SF_DSvars(Extracts(k)) /\ SF_DSvars(Recognizes(k))
    /\ \A w \in Workers : WF_DSvars(WorkStep(w))

-----------------------------------------------------------------------------
(* Properties.                                                             *)

FilingStages == {"idle", "create", "cleanup", "filed", "failed"}
TickStages == {"idle", "next", "fetch", "list", "recognize", "write", "record"}
PageNumbers == 1 .. PagesPerPdf
Failures == [streak : 0 .. Len(Windows), left : Nat]

\* Every variable has its type.
DSTypeOK ==
    /\ filing \in [Docs -> FilingStages]
    /\ paper \in [Docs -> Content \cup {Nothing}]
    /\ objects \in SUBSET Docs
    /\ status \in [Docs -> Verdicts \cup {"unset", Nothing}]
    /\ pages \in SUBSET (Docs \X PageNumbers)
    /\ doubted \in SUBSET Docs
    /\ sweep \in [Workers -> {"extract", "ocr", Nothing}]
    /\ at \in [Workers -> TickStages]
    /\ queue \in [Workers -> SUBSET Docs]
    /\ hand \in [Workers -> Docs \cup {Nothing}]
    /\ todo \in [Workers -> SUBSET PageNumbers]
    /\ batch \in [Workers -> SUBSET PageNumbers]
    /\ verdict \in [Workers -> Verdicts \cup {Nothing}]
    /\ budget \in [Workers -> Int]
    /\ taken \in [Workers -> 0 .. DocumentsPerTick]
    /\ backoff \in [Replicas -> [Docs -> Failures]]
    /\ company \in [Workers -> BOOLEAN]
    /\ faults \in 0 .. MaxFaults

\* "The EXTRACTED status is the promise that the pages exist": whatever ticks
\* overlap, fail or restart, a document in that state has all its pages.
ExtractedMeansPages ==
    \A d \in Docs : status[d] = "EXTRACTED" => Written(d) = AllPages(d)

\* storeDocument: "a persisted document can never 404 on download"; it holds
\* of every row whose create did not fail after storing it.
RowHasObject ==
    \A d \in Docs : status[d] # Nothing /\ d \notin doubted => d \in objects

\* Deterministic outcomes write a status, transient ones never do: whatever
\* failed on the way, a state says something true of the paper itself.
StatusFitsPaper ==
    \A d \in Docs :
        /\ status[d] = "EXTRACTED" => paper[d] \in {"text", "scan", "photo"}
        /\ status[d] = "NO_TEXT_LAYER" => paper[d] \notin {"text", "garbled"}
        /\ status[d] = "OCR_FAILED" => paper[d] = "rejected"
        /\ status[d] = "FAILED" => paper[d] = "garbled" \/ d \notin objects

\* The page budget is a spending ceiling: one tick bills at most the budget,
\* or one document if that document alone exceeds it.
TickStaysInBudget ==
    \A w \in Workers :
        \/ budget[w] >= 0
        \/ PagesPerTick - budget[w] <= PagesPerPdf

\* Resume from partial: whatever attempts on a document failed, broke off or
\* overlapped before, a tick that has it to itself all the while asks for no
\* page that was written.
WrittenPagesAreNotBilled ==
    \A w \in Workers :
        at[w] = "recognize" /\ ~ company[w] =>
            Asks(w) \cap Written(hand[w]) = {}

Settled == {"EXTRACTED", "FAILED", "OCR_FAILED"}

\* An outage cannot strand a document, and neither can a document that fails
\* for ever: every other one comes to a final state and stays there, also
\* when a late tick put an earlier state back.
EveryPaperSettles ==
    <>[](\A d \in Docs :
            status[d] # Nothing /\ paper[d] \notin {"unreachable", "stubborn"}
            => status[d] \in Settled)
=============================================================================
