----------------------- MODULE ResourcePipeline_proofs -----------------------
(***************************************************************************)
(* Proofs about ResourcePipeline, for any number of requests, callers,     *)
(* keys and contents: type correctness, that the pipelines implement       *)
(* ResourceTable, what callers are answered, and that events and writes    *)
(* are lost only by faults and by races.                                   *)
(***************************************************************************)
EXTENDS ResourcePipeline, TLAPS

\* Rows stand under their own ids and start at version 1.
RowsInOrder ==
    \A i \in Requests : rows[i] # None => rows[i].id = i /\ rows[i].version >= 1

\* A row a request has read is still in the table, by the same creator.
HeldIsStored ==
    \A r \in Requests :
        held[r] # None =>
            /\ rows[held[r].id] # None
            /\ rows[held[r].id].createdBy = held[r].createdBy
            /\ held[r].version >= 1

\* What a request holds, and what it has minted, at each stage.
StagesInOrder ==
    \A r \in Requests :
        /\ pc[r] # "idle" => call[r] \in Calls
        /\ pc[r] = "idle" => rows[r] = None /\ held[r] = None
        /\ pc[r] \in {"persist", "announce"} /\ call[r].op # "create" =>
              held[r] # None
        /\ pc[r] = "load" => call[r].op # "create" /\ held[r] = None
        /\ pc[r] = "authorize" /\ call[r].op # "create" => held[r] # None
        /\ pc[r] = "check" => call[r].op # "custom"
        /\ pc[r] = "check" /\ call[r].op = "update" => held[r] # None
        /\ pc[r] = "reread" => call[r].op = "create"
        /\ pc[r] = "announce" /\ call[r].op = "create" => held[r] = None
        /\ pc[r] \in {"authorize", "check"} /\ call[r].op = "create" => held[r] = None
        /\ rows[r] # None => /\ call[r].op = "create"
                             /\ pc[r] \in {"announce", "done", "stopped"}

\* One row per natural key: the constraint's doing alone.
KeysNameOneRow == Table!NaturalKeyUnique

IInv == TypeOK /\ RowsInOrder /\ HeldIsStored /\ StagesInOrder /\ KeysNameOneRow

-----------------------------------------------------------------------------
\* No row, no call: the initial states satisfy the invariant.
LEMMA InitIInv == Init => IInv
  BY NoneAssumption, ConstantsAssumption
     DEF Init, IInv, TypeOK, RowsInOrder, HeldIsStored, StagesInOrder,
         KeysNameOneRow, Stages, Table!TableInit, Table!NaturalKeyUnique,
         Table!Stored

\* An action that leaves the table and the held rows alone can disturb only
\* the types and the stages.
LEMMA QuietIInv ==
  ASSUME IInv, UNCHANGED <<rows, held>>, TypeOK', StagesInOrder'
  PROVE  IInv'
BY DEF IInv, RowsInOrder, HeldIsStored, KeysNameOneRow,
       Table!NaturalKeyUnique, Table!Stored

\* A request that arrives holds nothing and has minted nothing.
LEMMA ReceiveIInv == ASSUME NEW r \in Requests, IInv, Receive(r), UNCHANGED idempotent
  PROVE  IInv'
<1> USE NoneAssumption, ConstantsAssumption DEF IInv, Receive, history, Goto
<1>1. TypeOK'
  BY DEF TypeOK, Stages, Calls
<1>2. StagesInOrder'
  BY DEF StagesInOrder, TypeOK
<1>3. QED
  BY <1>1, <1>2, QuietIInv

\* A loaded row is a row of the table, and the request holds it.
LEMMA LoadIInv == ASSUME NEW r \in Requests, IInv, Load(r), UNCHANGED idempotent
  PROVE  IInv'
<1> USE NoneAssumption, ConstantsAssumption DEF IInv, Load, history, Goto, Finish
<1>1. TypeOK'
  BY DEF TypeOK, Stages, Answer, Codes, Referenced, Holders, Stored, Table!Stored
<1>2. RowsInOrder'
  BY DEF RowsInOrder, TypeOK
<1>3. HeldIsStored'
  <2>1. CASE Referenced(call[r]) = {}
    BY <2>1 DEF HeldIsStored, TypeOK
  <2>2. ASSUME NEW i \in Referenced(call[r]), held' = [held EXCEPT ![r] = rows[i]],
               rows' = rows
        PROVE  HeldIsStored'
    <3>1. i \in Requests /\ rows[i] # None /\ rows[i].id = i /\ rows[i].version >= 1
      BY DEF Referenced, Holders, Stored, Table!Stored, RowsInOrder
    <3>2. QED
      BY <2>2, <3>1 DEF HeldIsStored, TypeOK
  <2>3. QED
    BY <2>1, <2>2
<1>4. StagesInOrder'
  <2>1. \A i \in Referenced(call[r]) : rows[i] # None
    BY DEF Referenced, Holders, Stored, Table!Stored
  <2>2. QED
    BY <2>1 DEF StagesInOrder, TypeOK, Stages
<1>5. KeysNameOneRow'
  BY DEF KeysNameOneRow, Table!NaturalKeyUnique, Table!Stored
<1>6. QED
  BY <1>1, <1>2, <1>3, <1>4, <1>5

\* The verdict moves a request on or ends it.
LEMMA AuthorizeIInv == ASSUME NEW r \in Requests, IInv, Authorize(r), UNCHANGED idempotent
  PROVE  IInv'
<1> USE NoneAssumption, ConstantsAssumption DEF IInv, Authorize, history, Goto, Finish
<1>1. TypeOK'
  BY DEF TypeOK, Stages, Answer, Codes
<1>2. StagesInOrder'
  BY DEF StagesInOrder, TypeOK, Stages, ChecksKey, Calls, CreateCall, UpdateCall, CustomCall
<1>3. QED
  BY <1>1, <1>2, QuietIInv

\* A create of an idempotent kind may hold the row under its key.
LEMMA CheckCreateIInv == ASSUME NEW r \in Requests, IInv, CheckCreate(r), UNCHANGED idempotent
  PROVE  IInv'
<1> USE NoneAssumption, ConstantsAssumption DEF IInv, CheckCreate, history, Goto, Finish
<1>1. TypeOK'
  BY DEF TypeOK, Stages, Answer, Codes, Holders, Stored, Table!Stored
<1>2. RowsInOrder'
  BY DEF RowsInOrder, TypeOK
<1>3. HeldIsStored'
  <2>1. \A i \in Holders(call[r].spec.key) :
           i \in Requests /\ rows[i] # None /\ rows[i].id = i /\ rows[i].version >= 1
    BY DEF Holders, Stored, Table!Stored, RowsInOrder
  <2>2. QED
    BY <2>1 DEF HeldIsStored, TypeOK
<1>4. StagesInOrder'
  BY DEF StagesInOrder, TypeOK
<1>5. KeysNameOneRow'
  BY DEF KeysNameOneRow, Table!NaturalKeyUnique, Table!Stored
<1>6. QED
  BY <1>1, <1>2, <1>3, <1>4, <1>5

\* The key check of an update moves it on or ends it.
LEMMA CheckUpdateIInv == ASSUME NEW r \in Requests, IInv, CheckUpdate(r), UNCHANGED idempotent
  PROVE  IInv'
<1> USE NoneAssumption, ConstantsAssumption DEF IInv, CheckUpdate, history, Goto, Finish
<1>1. TypeOK'
  BY DEF TypeOK, Stages, Answer, Codes
<1>2. StagesInOrder'
  BY DEF StagesInOrder, TypeOK
<1>3. QED
  BY <1>1, <1>2, QuietIInv

\* A settled create is answered with the row it holds.
LEMMA ResolveDuplicateIInv == ASSUME NEW r \in Requests, IInv, ResolveDuplicate(r), UNCHANGED idempotent
  PROVE  IInv'
<1> USE NoneAssumption, ConstantsAssumption DEF IInv, ResolveDuplicate, history, Goto, Finish, Respond, Settle
<1>1. TypeOK'
  BY DEF TypeOK, Stages, Answer, Codes
<1>2. StagesInOrder'
  BY DEF StagesInOrder, TypeOK
<1>3. QED
  BY <1>1, <1>2, QuietIInv

\* A row is inserted in its request's own slot and under a free key.
LEMMA InsertNewIInv == ASSUME NEW r \in Requests, IInv, InsertNew(r), UNCHANGED idempotent
  PROVE  IInv'
<1> USE NoneAssumption, ConstantsAssumption DEF IInv, InsertNew, history, Goto, Finish
<1>1. TypeOK'
  <2>1. NewState(r) \in Row
    BY DEF StagesInOrder, Calls, CreateCall, UpdateCall, CustomCall,
           NewState, CreatedRow, Row, Content, Table!Row
  <2>2. QED
    BY <2>1 DEF TypeOK, Stages, Answer, Codes
<1>2. RowsInOrder'
  BY DEF RowsInOrder, TypeOK, NewState, CreatedRow, StagesInOrder
<1>3. HeldIsStored'
  <2>1. rows[r] = None
    BY DEF StagesInOrder
  <2>2. \A i \in Requests : rows[i] # None => rows'[i] = rows[i]
    BY <2>1 DEF TypeOK
  <2>3. held' = held
    OBVIOUS
  <2>4. \A q \in Requests : held[q] # None => held[q].id \in Requests
    BY DEF TypeOK, Row, Table!Row
  <2>5. QED
    BY <2>2, <2>3, <2>4 DEF HeldIsStored
<1>4. StagesInOrder'
  BY DEF StagesInOrder, TypeOK
<1>5. KeysNameOneRow'
  <2>1. CASE UNCHANGED rows
    BY <2>1 DEF KeysNameOneRow, Table!NaturalKeyUnique, Table!Stored
  <2>2. CASE ~ KeyTaken(call[r].spec.key, r) /\ rows' = [rows EXCEPT ![r] = NewState(r)]
    <3>1. rows'[r] = NewState(r) /\ NewState(r).spec = call[r].spec
      BY <2>2 DEF TypeOK, NewState, CreatedRow
    <3>2. \A i \in Requests \ {r} : rows'[i] = rows[i]
      BY <2>2 DEF TypeOK
    <3>3. QED
      BY <2>2, <3>1, <3>2
         DEF KeysNameOneRow, Table!NaturalKeyUnique, Table!Stored, KeyTaken, Table!KeyTaken
  <2>3. QED
    BY <2>1, <2>2
<1>6. QED
  BY <1>1, <1>2, <1>3, <1>4, <1>5

\* The race arm is answered with a row of the table.
LEMMA RereadIInv == ASSUME NEW r \in Requests, IInv, Reread(r), UNCHANGED idempotent
  PROVE  IInv'
<1> USE NoneAssumption, ConstantsAssumption DEF IInv, Reread, history, Goto, Finish, Respond, Settle
<1>1. TypeOK'
  BY DEF TypeOK, Stages, Answer, Codes, Holders, Stored, Table!Stored
<1>2. StagesInOrder'
  BY DEF StagesInOrder, TypeOK
<1>3. QED
  BY <1>1, <1>2, QuietIInv

\* A save overwrites the row that was loaded, which is still stored.
LEMMA SaveIInv == ASSUME NEW r \in Requests, IInv, Save(r), UNCHANGED idempotent
  PROVE  IInv'
<1> USE NoneAssumption, ConstantsAssumption DEF IInv
<1> DEFINE h == held[r]
           w == NewState(r)
<1>1. /\ h \in Row /\ h # None /\ h.id \in Requests
      /\ rows[h.id] # None /\ rows[h.id].createdBy = h.createdBy
      /\ h.version \in Nat /\ h.version >= 1
  BY DEF Save, TypeOK, HeldIsStored, StagesInOrder, Row, Table!Row
<1>2. /\ w \in Row /\ w # None /\ w.id = h.id
      /\ w.version \in Nat /\ w.version > 1
      /\ w.createdBy = h.createdBy
  <2>1. call[r] \in Calls /\ call[r].op # "create"
    BY DEF Save, StagesInOrder
  <2>2. CASE call[r].op = "update"
    <3>1. call[r].spec \in Content /\ w = UpdatedRow(r)
      BY <2>1, <2>2 DEF Calls, CreateCall, UpdateCall, CustomCall, NewState
    <3>2. QED
      BY <1>1, <3>1 DEF UpdatedRow, Row, Table!Row, Content, Table!Content
  <2>3. CASE call[r].op = "custom"
    <3>1. call[r].status \in Statuses /\ w = StampedRow(r)
      BY <2>1, <2>3 DEF Calls, CreateCall, UpdateCall, CustomCall, NewState
    <3>2. QED
      BY <1>1, <3>1 DEF StampedRow, Row, Table!Row, Content, Table!Content
  <2>4. QED
    BY <2>1, <2>2, <2>3 DEF Calls, CreateCall, UpdateCall, CustomCall
<1> HIDE DEF h, w
<1>3. CASE UNCHANGED rows
  <2>1. TypeOK'
    BY <1>1, <1>3 DEF TypeOK, Save, Goto, Finish, Stages, Answer, Codes, h, w
  <2>2. RowsInOrder' /\ HeldIsStored' /\ KeysNameOneRow'
    BY <1>3 DEF RowsInOrder, HeldIsStored, KeysNameOneRow, Table!NaturalKeyUnique, Table!Stored, Save
  <2>3. StagesInOrder'
    BY <1>3, <1>1 DEF StagesInOrder, Save, Goto, Finish, TypeOK, h, w
  <2>4. QED
    BY <2>1, <2>2, <2>3
<1>4. CASE /\ rows' = [rows EXCEPT ![h.id] = w] /\ ~ KeyTaken(w.spec.key, h.id)
           /\ replaced' = [replaced EXCEPT ![r] = rows[h.id]]
           /\ Goto(r, "announce")
           /\ UNCHANGED <<call, held, answer, events, dropped>>
  <2>0. /\ \A i \in Requests \ {h.id} : rows'[i] = rows[i]
        /\ rows'[h.id] = w
    BY <1>1, <1>4 DEF TypeOK
  <2>1. TypeOK'
    BY <1>1, <1>2, <1>4 DEF TypeOK, Goto, Stages
  <2>2. RowsInOrder'
    BY <1>1, <1>2, <2>0 DEF RowsInOrder
  <2>3. HeldIsStored'
    <3>1. \A q \in Requests : held[q] # None => held[q].id \in Requests
      BY DEF TypeOK, Row, Table!Row
    <3>2. QED
      BY <1>1, <1>2, <1>4, <2>0, <3>1 DEF HeldIsStored
  <2>4. StagesInOrder'
    BY <1>1, <1>2, <1>4, <2>0 DEF StagesInOrder, Goto, TypeOK, Save, h
  <2>5. KeysNameOneRow'
    BY <1>1, <1>2, <1>4, <2>0
       DEF KeysNameOneRow, Table!NaturalKeyUnique, Table!Stored, KeyTaken, Table!KeyTaken
  <2>6. QED
    BY <2>1, <2>2, <2>3, <2>4, <2>5
<1>5. QED
  BY <1>3, <1>4 DEF Save, h, w

\* An event carries the row that was written.
LEMMA PublishIInv == ASSUME NEW r \in Requests, IInv, Publish(r), UNCHANGED idempotent
  PROVE  IInv'
<1> USE NoneAssumption, ConstantsAssumption DEF IInv, Publish, history, Goto, Finish, Respond
<1>1. TypeOK'
  <2>1. CASE call[r].op = "create"
    <3>1. call[r] \in CreateCall /\ held[r] = None
      BY <2>1 DEF StagesInOrder, Calls, CreateCall, UpdateCall, CustomCall
    <3>2. NewState(r) \in Row
      BY <2>1, <3>1 DEF CreateCall, NewState, CreatedRow, Row, Table!Row, Content
    <3>3. EventOf(r) \in Event
      BY <3>1, <3>2 DEF EventOf, Event
    <3>4. QED
      BY <3>2, <3>3 DEF TypeOK, Stages, Answer, Codes
  <2>2. CASE call[r].op = "update"
    <3>1. call[r].spec \in Content /\ held[r] \in Row /\ held[r] # None
      BY <2>2 DEF StagesInOrder, Calls, CreateCall, UpdateCall, CustomCall, TypeOK
    <3>2. NewState(r) \in Row
      BY <2>2, <3>1 DEF NewState, UpdatedRow, Row, Table!Row, Content
    <3>3. EventOf(r) \in Event
      BY <3>1, <3>2 DEF EventOf, Event
    <3>4. QED
      BY <3>2, <3>3 DEF TypeOK, Stages, Answer, Codes
  <2>3. CASE call[r].op = "custom"
    <3>1. call[r].status \in Statuses /\ held[r] \in Row /\ held[r] # None
      BY <2>3 DEF StagesInOrder, Calls, CreateCall, UpdateCall, CustomCall, TypeOK
    <3>2. NewState(r) \in Row
      BY <2>3, <3>1 DEF NewState, StampedRow, Row, Table!Row
    <3>3. EventOf(r) \in Event
      BY <3>1, <3>2 DEF EventOf, Event
    <3>4. QED
      BY <3>2, <3>3 DEF TypeOK, Stages, Answer, Codes
  <2>4. QED
    BY <2>1, <2>2, <2>3 DEF StagesInOrder, Calls, CreateCall, UpdateCall, CustomCall
<1>2. RowsInOrder'
  BY DEF RowsInOrder, TypeOK
<1>3. HeldIsStored'
  BY DEF HeldIsStored, TypeOK
<1>4. StagesInOrder'
  BY DEF StagesInOrder, TypeOK
<1>5. KeysNameOneRow'
  BY DEF KeysNameOneRow, Table!NaturalKeyUnique, Table!Stored
<1>6. QED
  BY <1>1, <1>2, <1>3, <1>4, <1>5

\* A failed afterPersist step ends the request.
LEMMA AfterPersistFailsIInv == ASSUME NEW r \in Requests, IInv, AfterPersistFails(r), UNCHANGED idempotent
  PROVE  IInv'
<1> USE NoneAssumption, ConstantsAssumption DEF IInv, AfterPersistFails, history, Goto, Finish
<1>1. TypeOK'
  BY DEF TypeOK, Stages, Answer, Codes
<1>2. StagesInOrder'
  BY DEF StagesInOrder, TypeOK
<1>3. QED
  BY <1>1, <1>2, QuietIInv

\* A stopped request moves to its last stage.
LEMMA StopIInv == ASSUME NEW r \in Requests, IInv, Stop(r), UNCHANGED idempotent
  PROVE  IInv'
<1> USE NoneAssumption, ConstantsAssumption DEF IInv, Stop, history, Goto
<1>1. TypeOK'
  BY DEF TypeOK, Stages
<1>2. StagesInOrder'
  BY DEF StagesInOrder, TypeOK
<1>3. QED
  BY <1>1, <1>2, QuietIInv

-----------------------------------------------------------------------------
\* The invariant is inductive.
LEMMA NextIInv == IInv /\ [Next]_vars => IInv'
<1> SUFFICES ASSUME IInv, [Next]_vars PROVE IInv'
  OBVIOUS
<1>1. CASE UNCHANGED vars
  BY <1>1 DEF vars, IInv, TypeOK, RowsInOrder, HeldIsStored, StagesInOrder,
              KeysNameOneRow, Table!NaturalKeyUnique, Table!Stored
<1>2. ASSUME NEW r \in Requests, Receive(r) \/ Step(r) \/ Stop(r),
             UNCHANGED idempotent
      PROVE  IInv'
  BY <1>2, ReceiveIInv, LoadIInv, AuthorizeIInv, CheckCreateIInv, CheckUpdateIInv,
     ResolveDuplicateIInv, InsertNewIInv, RereadIInv, SaveIInv, PublishIInv,
     AfterPersistFailsIInv, StopIInv DEF Step
<1>3. QED
  BY <1>1, <1>2 DEF Next

\* It holds in every reachable state.
LEMMA SpecIInv == Spec => []IInv
  BY InitIInv, NextIInv, PTL DEF Spec

\* Every variable of the pipelines keeps its type, whatever the instance.
THEOREM TypeCorrect == Spec => []TypeOK
<1>1. IInv => TypeOK
  BY DEF IInv
<1>2. QED
  BY <1>1, SpecIInv, PTL

\* An insert fills the slot of a fresh id under a free key.
LEMMA InsertNewWritesTable ==
  ASSUME NEW r \in Requests, IInv, InsertNew(r)
  PROVE  [Table!TableNext]_rows
<1> USE NoneAssumption DEF IInv
<1>1. CASE UNCHANGED rows
  BY <1>1
<1>2. CASE ~ KeyTaken(call[r].spec.key, r) /\ rows' = [rows EXCEPT ![r] = NewState(r)]
  <2>1. rows[r] = None /\ call[r] \in CreateCall
    BY DEF InsertNew, StagesInOrder, Calls, CreateCall, UpdateCall, CustomCall
  <2>2. /\ NewState(r) \in Row /\ NewState(r).id = r /\ NewState(r).version = 1
        /\ NewState(r).status = NoStatus /\ NewState(r).spec = call[r].spec
    BY <2>1 DEF CreateCall, NewState, CreatedRow, Row, Table!Row, Content
  <2>3. rows'[r] = NewState(r)
    BY <1>2 DEF TypeOK
  <2>4. Table!WritesRow(r)
    BY <1>2, <2>2, <2>3 DEF Table!WritesRow, Row, KeyTaken
  <2>5. Table!InsertRow(r)
    BY <2>1, <2>2, <2>3, <2>4 DEF Table!InsertRow, Table!Stored
  <2>6. QED
    BY <2>5 DEF Table!TableNext
<1>3. QED
  BY <1>1, <1>2 DEF InsertNew

\* A save overwrites the row it loaded and keeps its id and creator.
LEMMA SaveWritesTable ==
  ASSUME NEW r \in Requests, IInv, Save(r), UNCHANGED idempotent
  PROVE  [Table!TableNext]_rows
<1> USE NoneAssumption DEF IInv
<1> DEFINE h == held[r]
           w == NewState(r)
<1>1. CASE UNCHANGED rows
  BY <1>1
<1>2. CASE ~ KeyTaken(w.spec.key, h.id) /\ rows' = [rows EXCEPT ![h.id] = w]
  <2>1. /\ h \in Row /\ h # None /\ h.id \in Requests
        /\ rows[h.id] # None /\ rows[h.id].createdBy = h.createdBy
        /\ h.version \in Nat /\ h.version >= 1
    BY DEF Save, TypeOK, HeldIsStored, StagesInOrder, Row, Table!Row
  <2>2. call[r] \in Calls /\ (call[r].op = "update" \/ call[r].op = "custom")
    BY DEF Save, StagesInOrder, Calls, CreateCall, UpdateCall, CustomCall
  <2>3. /\ w.id = h.id /\ w.version > 1 /\ w.createdBy = h.createdBy
    BY <2>1, <2>2 DEF NewState, UpdatedRow, StampedRow
  <2>4. rows'[h.id] = w /\ rows'[h.id] \in Row \cup {None}
    <3>1. IInv'
      BY SaveIInv
    <3>2. QED
      BY <1>2, <2>1, <3>1 DEF TypeOK
  <2>5. w # None
    <3>1. rows'[h.id] # None
      BY <2>1, <2>4, SaveIInv DEF HeldIsStored, Save
    <3>2. QED
      BY <2>4, <3>1
  <2> HIDE DEF h, w
  <2>6. Table!WritesRow(h.id)
    BY <1>2, <2>3, <2>4, <2>5 DEF Table!WritesRow, Row, KeyTaken
  <2>7. Table!SaveRow(h.id)
    BY <2>1, <2>3, <2>4, <2>6 DEF Table!SaveRow, Table!Stored
  <2>8. QED
    BY <2>1, <2>7 DEF Table!TableNext
<1>3. QED
  BY <1>1, <1>2 DEF Save

\* Every step of the pipelines is a step of the table, or leaves it alone.
LEMMA NextWritesTable == IInv /\ [Next]_vars => [Table!TableNext]_rows
<1> SUFFICES ASSUME IInv, [Next]_vars PROVE [Table!TableNext]_rows
  OBVIOUS
<1>1. CASE UNCHANGED vars
  BY <1>1 DEF vars
<1>2. ASSUME NEW r \in Requests, Receive(r) \/ Step(r) \/ Stop(r),
             UNCHANGED idempotent
      PROVE  [Table!TableNext]_rows
  <2>1. CASE InsertNew(r)
    BY <2>1, InsertNewWritesTable
  <2>2. CASE Save(r)
    BY <1>2, <2>2, SaveWritesTable
  <2>3. CASE ~ InsertNew(r) /\ ~ Save(r)
    BY <1>2, <2>3
       DEF Receive, Step, Stop, Load, Authorize, CheckCreate, CheckUpdate,
           ResolveDuplicate, Reread, Publish, AfterPersistFails
  <2>4. QED
    BY <2>1, <2>2, <2>3
<1>3. QED
  BY <1>1, <1>2 DEF Next

\* The pipelines use the store as its port promises: the table only ever
\* gains a row at version 1 under a free key, or has a row overwritten by one
\* of the same id and creator.
THEOREM PipelineImplementsTable == Spec => ImplementsTable
<1>1. Init => Table!TableInit
  BY DEF Init
<1>2. QED
  BY <1>1, SpecIInv, NextWritesTable, PTL DEF Spec, ImplementsTable, Table!TableSpec

-----------------------------------------------------------------------------
(* What requests are told, and what becomes of their writes.               *)

\* One step of request r.
Act(r) == (Receive(r) \/ Step(r) \/ Stop(r)) /\ UNCHANGED idempotent

\* A request is answered when it is done and writes before it announces.
HistoryOf(r) ==
    /\ pc[r] = "idle" => call[r] = None
    /\ answer[r] # None => pc[r] = "done"
    /\ pc[r] = "announce" => Wrote(r)
    /\ r \in dropped => pc[r] \in {"done", "stopped"}
    /\ replaced[r] # None =>
          /\ held[r] # None
          /\ replaced[r].id = held[r].id
          /\ call[r].op # "create"
          /\ pc[r] \in {"announce", "done", "stopped"}

HistoryInOrder == \A r \in Requests : HistoryOf(r)

\* The three ways a step of r treats the table.
Quiet == UNCHANGED <<rows, replaced>>

Inserts(r) ==
    /\ pc[r] = "persist" /\ call[r].op = "create" /\ held[r] = None
    /\ rows[r] = None /\ rows' = [rows EXCEPT ![r] = NewState(r)]
    /\ Goto(r, "announce")
    /\ UNCHANGED <<call, held, answer, events, replaced, dropped>>

Overwrites(r) ==
    /\ pc[r] = "persist" /\ call[r].op # "create" /\ held[r] # None
    /\ held[r].id \in Requests /\ rows[held[r].id] # None
    /\ rows' = [rows EXCEPT ![held[r].id] = NewState(r)]
    /\ replaced' = [replaced EXCEPT ![r] = rows[held[r].id]]
    /\ Goto(r, "announce")
    /\ UNCHANGED <<call, held, answer, events, dropped>>

\* A step touches the table only by an insert or a save.
LEMMA TableMoves ==
  ASSUME IInv, NEW r \in Requests, Act(r)
  PROVE  Quiet \/ Inserts(r) \/ Overwrites(r)
<1> USE DEF IInv, history
<1>1. CASE InsertNew(r)
  BY <1>1 DEF InsertNew, Quiet, Inserts, StagesInOrder
<1>2. CASE Save(r)
  <2>1. /\ held[r] # None /\ held[r].id \in Requests
        /\ rows[held[r].id] # None /\ pc[r] = "persist"
    BY <1>2 DEF Save, TypeOK, HeldIsStored, StagesInOrder, Row, Table!Row
  <2>2. QED
    BY <1>2, <2>1 DEF Save, Quiet, Overwrites
<1>3. CASE ~ InsertNew(r) /\ ~ Save(r)
  BY <1>3 DEF Act, Receive, Step, Stop, Load, Authorize, CheckCreate, CheckUpdate,
              ResolveDuplicate, Reread, Publish, AfterPersistFails, Quiet
<1>4. QED
  BY <1>1, <1>2, <1>3

\* A step of r is no step of another request, and a request that has ended
\* takes none.
LEMMA Others ==
  ASSUME IInv, NEW r \in Requests, Act(r), NEW q \in Requests, q # r
  PROVE  /\ pc[r] \notin {"done", "stopped"}
         /\ pc'[q] = pc[q] /\ call'[q] = call[q] /\ held'[q] = held[q]
         /\ answer'[q] = answer[q] /\ replaced'[q] = replaced[q]
         /\ (q \in dropped' <=> q \in dropped)
<1> USE DEF IInv, TypeOK, history, Goto, Finish, Respond, Settle
<1>1. CASE Receive(r)
  BY <1>1 DEF Receive
<1>2. CASE Load(r)
  BY <1>2 DEF Load
<1>3. CASE Authorize(r)
  BY <1>3 DEF Authorize
<1>4. CASE CheckCreate(r)
  BY <1>4 DEF CheckCreate
<1>5. CASE CheckUpdate(r)
  BY <1>5 DEF CheckUpdate
<1>6. CASE ResolveDuplicate(r)
  BY <1>6 DEF ResolveDuplicate
<1>7. CASE InsertNew(r)
  BY <1>7 DEF InsertNew
<1>8. CASE Reread(r)
  BY <1>8 DEF Reread
<1>9. CASE Save(r)
  BY <1>9 DEF Save
<1>10. CASE Publish(r)
  BY <1>10 DEF Publish
<1>11. CASE AfterPersistFails(r)
  BY <1>11 DEF AfterPersistFails
<1>12. CASE Stop(r)
  BY <1>12 DEF Stop
<1>13. QED
  BY <1>1, <1>2, <1>3, <1>4, <1>5, <1>6, <1>7, <1>8, <1>9, <1>10, <1>11, <1>12
     DEF Act, Step

\* What the acting request itself does on the way to its end.
LEMMA OwnStep ==
  ASSUME IInv, HistoryInOrder, NEW r \in Requests, Act(r)
  PROVE  /\ pc[r] \notin {"done", "stopped"}
         /\ pc'[r] # "idle"
         /\ answer'[r] # None => pc'[r] = "done"
         /\ pc[r] # "idle" => call'[r] = call[r]
         /\ pc'[r] = "announce" => Inserts(r) \/ Overwrites(r)
         /\ (r \in dropped' => pc'[r] \in {"done", "stopped"})
         /\ held'[r] # held[r] => pc[r] \in {"load", "check"}
         /\ pc[r] = "announce" => pc'[r] \in {"done", "stopped"}
<1> USE DEF IInv, TypeOK, history, Goto, Finish, Respond, Settle, HistoryInOrder, HistoryOf
<1>1. CASE Receive(r)
  BY <1>1 DEF Receive
<1>2. CASE Load(r)
  BY <1>2 DEF Load
<1>3. CASE Authorize(r)
  BY <1>3 DEF Authorize
<1>4. CASE CheckCreate(r)
  BY <1>4 DEF CheckCreate
<1>5. CASE CheckUpdate(r)
  BY <1>5 DEF CheckUpdate
<1>6. CASE ResolveDuplicate(r)
  BY <1>6 DEF ResolveDuplicate
<1>7. CASE InsertNew(r)
  BY <1>7 DEF InsertNew, Inserts, StagesInOrder
<1>8. CASE Reread(r)
  BY <1>8 DEF Reread
<1>9. CASE Save(r)
  <2>1. held[r] # None /\ held[r].id \in Requests /\ rows[held[r].id] # None
    BY <1>9 DEF Save, HeldIsStored, StagesInOrder, Row, Table!Row
  <2>2. QED
    BY <1>9, <2>1 DEF Save, Overwrites
<1>10. CASE Publish(r)
  BY <1>10 DEF Publish
<1>11. CASE AfterPersistFails(r)
  BY <1>11 DEF AfterPersistFails
<1>12. CASE Stop(r)
  BY <1>12 DEF Stop
<1>13. QED
  BY <1>1, <1>2, <1>3, <1>4, <1>5, <1>6, <1>7, <1>8, <1>9, <1>10, <1>11, <1>12
     DEF Act, Step

\* What is written is a row, under the id it belongs to.
LEMMA Minted ==
  ASSUME IInv, NEW r \in Requests, Inserts(r) \/ Overwrites(r)
  PROVE  /\ NewState(r) \in Row /\ NewState(r) # None
         /\ NewState(r).id = IF call[r].op = "create" THEN r ELSE held[r].id
<1> USE DEF IInv, Inserts, Overwrites, StagesInOrder
<1>1. call[r] \in Calls
  OBVIOUS
<1>2. CASE call[r].op = "create"
  <2>1. call[r] \in CreateCall
    BY <1>1, <1>2 DEF Calls, CreateCall, UpdateCall, CustomCall
  <2>2. QED
    BY <2>1, <1>2, NoneAssumption
       DEF CreateCall, NewState, CreatedRow, Row, Table!Row, Content, Table!Content
<1>3. CASE call[r].op = "update"
  <2>1. call[r].spec \in Content /\ held[r] \in Row
    BY <1>1, <1>3 DEF Calls, CreateCall, UpdateCall, CustomCall, TypeOK
  <2>2. QED
    BY <2>1, <1>3, NoneAssumption
       DEF NewState, UpdatedRow, Row, Table!Row, Content, Table!Content
<1>4. CASE call[r].op = "custom"
  <2>1. call[r].status \in Statuses /\ held[r] \in Row
    BY <1>1, <1>4 DEF Calls, CreateCall, UpdateCall, CustomCall, TypeOK
  <2>2. QED
    BY <2>1, <1>4, NoneAssumption
       DEF NewState, StampedRow, Row, Table!Row, Content, Table!Content
<1>5. QED
  BY <1>1, <1>2, <1>3, <1>4 DEF Calls, CreateCall, UpdateCall, CustomCall

\* A row, once stored, stays.
LEMMA RowsStay ==
  ASSUME IInv, NEW r \in Requests, Act(r), NEW i \in Requests, rows[i] # None
  PROVE  rows'[i] # None
  BY TableMoves, Minted DEF Quiet, Inserts, Overwrites, IInv, TypeOK

\* The stages of answers, writes and losses are kept.
LEMMA HistoryStep ==
  ASSUME IInv, HistoryInOrder, NEW r \in Requests, Act(r)
  PROVE  HistoryInOrder'
<1> SUFFICES ASSUME NEW q \in Requests PROVE HistoryOf(q)'
  BY DEF HistoryInOrder
<1>1. CASE q # r
  BY <1>1, Others, RowsStay DEF HistoryInOrder, HistoryOf, Wrote
<1>2. CASE q = r
  <2>1. HistoryOf(r)
    BY DEF HistoryInOrder
  <2>2. CASE Quiet /\ ~ Inserts(r) /\ ~ Overwrites(r)
    <3>1. replaced'[r] # None => pc[r] = "announce"
      BY <2>1, <2>2, OwnStep DEF HistoryOf, Quiet
    <3>2. QED
      BY <1>2, <2>1, <2>2, <3>1, OwnStep DEF HistoryOf, Wrote, Quiet
  <2>3. CASE Inserts(r)
    BY <1>2, <2>1, <2>3, Minted, OwnStep DEF HistoryOf, Wrote, Inserts, Goto, IInv, TypeOK
  <2>4. CASE Overwrites(r)
    <3>1. rows[held[r].id].id = held[r].id
      BY <2>4 DEF Overwrites, IInv, RowsInOrder
    <3>2. QED
      BY <1>2, <2>1, <2>4, <3>1, OwnStep DEF HistoryOf, Wrote, Overwrites, Goto, IInv, TypeOK
  <2>5. QED
    BY <2>2, <2>3, <2>4, TableMoves
<1>3. QED
  BY <1>1, <1>2

\* What a request of a refused caller has come to: it gets no further than the
\* policy's verdict, writes nothing, and holds nothing but the row it addressed.
RefusedOf(r) ==
    call[r] # None /\ <<call[r].caller, call[r].op>> \notin Permitted =>
        /\ pc[r] \in {"load", "authorize", "done", "stopped"}
        /\ rows[r] = None /\ replaced[r] = None
        /\ held[r] # None => Addresses(call[r], held[r])
        /\ answer[r] # None =>
              answer[r].code = IF call[r].op = "create" \/ held[r] # None
                               THEN "REFUSED" ELSE "NOT_FOUND"

RefusedInOrder == \A r \in Requests : RefusedOf(r)

\* A row that was loaded is the one that was addressed.
LEMMA LoadsTheAddressed ==
  ASSUME IInv, NEW r \in Requests, pc[r] = "load", NEW i \in Referenced(call[r])
  PROVE  rows[i] # None /\ Addresses(call[r], rows[i])
<1>1. /\ i \in Requests /\ rows[i] # None /\ rows[i].id = i
      /\ call[r] \in Calls /\ call[r].op # "create"
  BY DEF IInv, RowsInOrder, StagesInOrder, Referenced, Holders, Stored, Table!Stored
<1>2. QED
  BY <1>1 DEF Addresses, Referenced, Holders

\* No step takes a refused caller further.
LEMMA RefusedStep ==
  ASSUME IInv, HistoryInOrder, RefusedInOrder, NEW r \in Requests, Act(r)
  PROVE  RefusedInOrder'
<1> SUFFICES ASSUME NEW q \in Requests, call'[q] # None,
                    <<call'[q].caller, call'[q].op>> \notin Permitted
             PROVE  /\ pc'[q] \in {"load", "authorize", "done", "stopped"}
                    /\ rows'[q] = None /\ replaced'[q] = None
                    /\ held'[q] # None => Addresses(call'[q], held'[q])
                    /\ answer'[q] # None =>
                          answer'[q].code =
                              IF call'[q].op = "create" \/ held'[q] # None
                              THEN "REFUSED" ELSE "NOT_FOUND"
  BY DEF RefusedInOrder, RefusedOf, Addresses
<1>1. CASE q # r
  <2>1. RefusedOf(q) /\ rows[q] = None
    BY <1>1, Others DEF RefusedInOrder, RefusedOf
  <2>2. rows'[q] = None
    BY <1>1, <2>1, TableMoves DEF Quiet, Inserts, Overwrites, IInv, TypeOK
  <2>3. QED
    BY <1>1, <2>1, <2>2, Others DEF RefusedOf, Addresses
<1>2. CASE q = r
  <2>1. CASE pc[r] = "idle"
    <3>1. Receive(r)
      BY <2>1 DEF Act, Step, Load, Authorize, CheckCreate, CheckUpdate, ResolveDuplicate,
                  InsertNew, Reread, Save, Publish, AfterPersistFails, Stop
    <3>2. rows[r] = None /\ answer[r] = None /\ held[r] = None /\ replaced[r] = None
      BY <2>1 DEF IInv, StagesInOrder, HistoryInOrder, HistoryOf
    <3>3. QED
      BY <1>2, <3>1, <3>2 DEF Receive, history, Goto, IInv, TypeOK
  <2>2. CASE pc[r] # "idle"
    <3>1. /\ call'[r] = call[r] /\ call[r] # None
          /\ rows[r] = None /\ replaced[r] = None
          /\ held[r] # None => Addresses(call[r], held[r])
          /\ pc[r] \in {"load", "authorize"}
          /\ answer[r] = None
          /\ <<call[r].caller, call[r].op>> \notin Permitted
      BY <1>2, <2>2, OwnStep
         DEF RefusedInOrder, RefusedOf, HistoryInOrder, HistoryOf
    <3>2. Load(r) \/ Authorize(r) \/ Stop(r)
      BY <3>1 DEF Act, Receive, Step, CheckCreate, CheckUpdate, ResolveDuplicate,
                  InsertNew, Reread, Save, Publish, AfterPersistFails
    <3>3. CASE Load(r)
      <4>0. call[r].op # "create" /\ (rows' = rows) /\ (replaced' = replaced)
        BY <3>3 DEF Load, history, IInv, StagesInOrder
      <4>1. CASE Referenced(call[r]) = {} /\ Finish(r, "NOT_FOUND", None) /\ UNCHANGED held
        <5>1. held[r] = None
          BY <3>3 DEF Load, IInv, StagesInOrder
        <5>2. QED
          BY <1>2, <3>1, <4>0, <4>1, <5>1 DEF Goto, Finish, IInv, TypeOK
      <4>2. ASSUME NEW i \in Referenced(call[r]),
                   held' = [held EXCEPT ![r] = rows[i]],
                   Goto(r, "authorize"), UNCHANGED answer
            PROVE  /\ pc'[r] = "authorize" /\ answer'[r] = None
                   /\ Addresses(call[r], held'[r])
        BY <3>1, <3>3, <4>2, LoadsTheAddressed DEF Load, Goto, IInv, TypeOK
      <4>3. QED
        BY <1>2, <3>1, <3>3, <4>0, <4>1, <4>2 DEF Load
    <3>4. CASE Authorize(r)
      <4>1. call[r].op = "create" \/ held[r] # None
        BY <3>4 DEF Authorize, IInv, StagesInOrder
      <4>2. QED
        BY <1>2, <3>1, <3>4, <4>1 DEF Authorize, history, Goto, Finish, IInv, TypeOK
    <3>5. CASE Stop(r)
      BY <1>2, <3>1, <3>5 DEF Stop, Goto, IInv, TypeOK
    <3>6. QED
      BY <3>2, <3>3, <3>4, <3>5
  <2>3. QED
    BY <2>1, <2>2
<1>3. QED
  BY <1>1, <1>2

\* Only an idempotent kind reads a holder for a create.
KindOf(r) ==
    /\ pc[r] = "reread" => idempotent
    /\ held[r] # None /\ call[r].op = "create" => idempotent

KindInOrder == \A r \in Requests : KindOf(r)

\* A kind never changes how it treats duplicates.
LEMMA KindStep ==
  ASSUME IInv, HistoryInOrder, KindInOrder, NEW r \in Requests, Act(r)
  PROVE  KindInOrder'
<1> SUFFICES ASSUME NEW q \in Requests PROVE KindOf(q)'
  BY DEF KindInOrder
<1>1. CASE q # r
  BY <1>1, Others DEF KindInOrder, KindOf, Act
<1>2. CASE q = r
  <2> USE DEF IInv, TypeOK, Goto, Finish
  <2>1. KindOf(r) /\ idempotent' = idempotent
    BY DEF KindInOrder, Act
  <2>2. CASE InsertNew(r)
    BY <1>2, <2>1, <2>2 DEF InsertNew, KindOf
  <2>3. CASE CheckCreate(r)
    BY <1>2, <2>1, <2>3 DEF CheckCreate, KindOf
  <2>4. CASE Load(r)
    BY <1>2, <2>1, <2>4 DEF Load, KindOf, StagesInOrder
  <2>5. CASE Receive(r)
    BY <1>2, <2>1, <2>5 DEF Receive, KindOf, StagesInOrder
  <2>6. CASE Authorize(r) \/ CheckUpdate(r) \/ Save(r) \/ Stop(r)
    BY <1>2, <2>1, <2>6 DEF Authorize, CheckUpdate, Save, Stop, KindOf
  <2>7. CASE ResolveDuplicate(r) \/ Reread(r) \/ Publish(r) \/ AfterPersistFails(r)
    BY <1>2, <2>1, <2>7
       DEF ResolveDuplicate, Reread, Publish, AfterPersistFails, Respond, Settle, KindOf
  <2>8. QED
    BY <2>2, <2>3, <2>4, <2>5, <2>6, <2>7 DEF Act, Step
<1>3. QED
  BY <1>1, <1>2

\* An answer OK comes from a settled create, a race that was lost to an equal
\* row, or the request's own write.
LEMMA OkStep ==
  ASSUME IInv, HistoryInOrder, KindInOrder, NEW r \in Requests, Act(r), Succeeded(r)'
  PROVE  /\ UNCHANGED <<rows, call, held>>
         /\ \/ /\ idempotent
               /\ call[r].op = "create"
               /\ pc[r] \in {"persist", "reread"}
               /\ answer'[r].row.spec = call[r].spec
               /\ \/ held[r] # None /\ answer'[r].row = held[r]
                  \/ \E i \in Requests : rows[i] # None /\ answer'[r].row = rows[i]
            \/ pc[r] = "announce" /\ answer'[r].row = NewState(r)
<1> USE DEF IInv, TypeOK, Succeeded, Goto, Finish, HistoryInOrder, HistoryOf, KindInOrder, KindOf
<1>0. answer[r] = None
  BY OwnStep
<1>1. ResolveDuplicate(r) \/ Reread(r) \/ Publish(r)
  BY <1>0 DEF Act, Step, Receive, Load, Authorize, CheckCreate, CheckUpdate,
              InsertNew, Save, AfterPersistFails, Stop
<1>2. CASE ResolveDuplicate(r)
  BY <1>2 DEF ResolveDuplicate, Respond, Settle
<1>3. CASE Publish(r)
  BY <1>3 DEF Publish, Respond
<1>4. CASE Reread(r)
  <2>1. Holders(call[r].spec.key) # {}
    BY <1>0, <1>4 DEF Reread
  <2>2. PICK i \in Holders(call[r].spec.key) : Settle(r, rows[i])
    BY <2>1, <1>4 DEF Reread
  <2>3. i \in Requests /\ rows[i] # None
    BY DEF Holders, Stored, Table!Stored
  <2>4. call[r].op = "create" /\ idempotent
    BY <1>4 DEF Reread, StagesInOrder
  <2>5. answer'[r].row = rows[i] /\ rows[i].spec = call[r].spec
    BY <2>2 DEF Settle, Respond
  <2>6. QED
    BY <1>4, <2>3, <2>4, <2>5 DEF Reread
<1>5. QED
  BY <1>1, <1>2, <1>3, <1>4

\* The answer OK carries the content asked for.
LEMMA AnswerStep ==
  ASSUME IInv, HistoryInOrder, KindInOrder, AnswerCarriesWhatWasAsked,
         NEW r \in Requests, Act(r)
  PROVE  AnswerCarriesWhatWasAsked'
<1> SUFFICES ASSUME NEW q \in Requests, Succeeded(q)', call'[q].op \in {"create", "update"}
             PROVE  answer'[q].row.spec = call'[q].spec
  BY DEF AnswerCarriesWhatWasAsked
<1>1. CASE q # r
  BY <1>1, Others DEF AnswerCarriesWhatWasAsked, Succeeded
<1>2. CASE q = r
  <2>1. Succeeded(r)' /\ call'[r].op \in {"create", "update"}
    BY <1>2
  <2>2. call'[r] = call[r] /\ held'[r] = held[r]
    BY <2>1, OkStep
  <2>3. call[r].op \in {"create", "update"} => NewState(r).spec = call[r].spec
    BY DEF NewState, CreatedRow, UpdatedRow
  <2>4. answer'[r].row.spec = call[r].spec
    BY <2>1, <2>2, <2>3, OkStep
  <2>5. QED
    BY <1>2, <2>2, <2>4
<1>3. QED
  BY <1>1, <1>2

\* Without updates, a row keeps the spec its creator sent, in the table, in
\* what a request holds and in what a create is answered.
SpecOf(r) ==
    /\ rows[r] # None => rows[r].spec = call[r].spec
    /\ held[r] # None => held[r].spec = call[held[r].id].spec
    /\ Succeeded(r) /\ call[r].op = "create" =>
          /\ answer[r].row.id \in Requests
          /\ rows[answer[r].row.id] # None
          /\ answer[r].row.spec = call[answer[r].row.id].spec
          /\ ~ idempotent => answer[r].row.id = r

SpecsStand == NoUpdates => \A r \in Requests : SpecOf(r)

\* A call, once received, is not received again.
LEMMA CallsStay ==
  ASSUME IInv, HistoryInOrder, NEW r \in Requests, Act(r), NEW i \in Requests,
         pc[i] # "idle"
  PROVE  call'[i] = call[i]
  BY Others, OwnStep

\* Steps without updates keep the specs.
LEMMA SpecStep ==
  ASSUME IInv, HistoryInOrder, KindInOrder, SpecsStand, NEW r \in Requests, Act(r)
  PROVE  SpecsStand'
<1> SUFFICES ASSUME NoUpdates', NEW q \in Requests PROVE SpecOf(q)'
  BY DEF SpecsStand
<1>1. NoUpdates
  <2>1. \A i \in Requests : pc[i] # "idle" => call'[i] = call[i] /\ pc'[i] # "idle"
    BY CallsStay, Others, OwnStep
  <2>2. QED
    BY <2>1 DEF NoUpdates
<1>2. \A i \in Requests : SpecOf(i)
  BY <1>1 DEF SpecsStand
<1>3. \A i \in Requests : rows[i] # None =>
         rows'[i] # None /\ call'[i] = call[i] /\ rows[i].id = i
  BY RowsStay, CallsStay DEF IInv, StagesInOrder, RowsInOrder
<1>4. \A i \in Requests : held[i] # None =>
         held[i].id \in Requests /\ rows[held[i].id] # None
  BY DEF IInv, TypeOK, HeldIsStored, Row, Table!Row
<1>5. ASSUME Inserts(r) \/ Overwrites(r)
      PROVE  \A i \in Requests : rows'[i] # rows[i] =>
                /\ i = NewState(r).id
                /\ NewState(r).spec = call[i].spec
  <2>1. CASE Inserts(r)
    BY <2>1, Minted DEF Inserts, NewState, CreatedRow, IInv, TypeOK
  <2>2. CASE Overwrites(r)
    <3>1. call[r].op = "custom"
      BY <1>1, <2>2 DEF Overwrites, NoUpdates, IInv, StagesInOrder, Calls, CreateCall,
                       UpdateCall, CustomCall
    <3>2. NewState(r).spec = held[r].spec
      BY <3>1 DEF NewState, StampedRow
    <3>3. held[r].spec = call[held[r].id].spec
      BY <1>2, <2>2 DEF SpecOf, Overwrites
    <3>4. QED
      BY <2>2, <3>1, <3>2, <3>3, Minted DEF Overwrites, IInv, TypeOK
  <2>3. QED
    BY <1>5, <2>1, <2>2
<1>6. rows'[q] # None => rows'[q].spec = call'[q].spec
  <2>1. CASE rows'[q] = rows[q]
    BY <1>2, <1>3, <2>1 DEF SpecOf
  <2>2. CASE rows'[q] # rows[q]
    <3>1. Inserts(r) \/ Overwrites(r)
      BY <2>2, TableMoves DEF Quiet
    <3>2. rows'[q] = NewState(r) /\ NewState(r).spec = call[q].spec /\ pc[q] # "idle"
      BY <1>5, <2>2, <3>1 DEF Inserts, Overwrites, IInv, TypeOK, StagesInOrder
    <3>3. QED
      BY <3>2, CallsStay
  <2>3. QED
    BY <2>1, <2>2
<1>7. held'[q] # None => held'[q].spec = call'[held'[q].id].spec
  <2>1. CASE held'[q] = held[q]
    BY <1>2, <1>3, <1>4, <2>1 DEF SpecOf
  <2>2. CASE held'[q] # held[q]
    <3>1. q = r /\ pc[r] \in {"load", "check"}
      BY <2>2, Others, OwnStep
    <3>2. Load(r) \/ CheckCreate(r)
      BY <2>2, <3>1 DEF Act, Step, Receive, Authorize, CheckUpdate, ResolveDuplicate,
                        InsertNew, Reread, Save, Publish, AfterPersistFails, Stop
    <3>3. \E i \in Requests : rows[i] # None /\ held'[r] = rows[i]
      BY <2>2, <3>1, <3>2
         DEF Load, CheckCreate, Referenced, Holders, Stored, Table!Stored, IInv, TypeOK
    <3>4. QED
      BY <1>2, <1>3, <3>1, <3>3 DEF SpecOf
  <2>3. QED
    BY <2>1, <2>2
<1>8. ASSUME Succeeded(q)', call'[q].op = "create"
      PROVE  /\ answer'[q].row.id \in Requests
             /\ rows'[answer'[q].row.id] # None
             /\ answer'[q].row.spec = call'[answer'[q].row.id].spec
             /\ ~ idempotent' => answer'[q].row.id = q
  <2>1. CASE q # r
    BY <1>2, <1>3, <1>8, <2>1, Others DEF SpecOf, Succeeded, Act
  <2>2. CASE q = r
    <3>1. Succeeded(r)' /\ UNCHANGED <<rows, call, held>> /\ idempotent' = idempotent
      BY <1>8, <2>2, OkStep DEF Act
    <3>2. CASE pc[r] = "announce" /\ answer'[r].row = NewState(r)
      <4>1. rows[r] # None /\ NewState(r).id = r /\ NewState(r).spec = call[r].spec
        BY <1>8, <2>2, <3>1, <3>2
           DEF HistoryInOrder, HistoryOf, Wrote, NewState, CreatedRow
      <4>2. QED
        BY <2>2, <3>1, <3>2, <4>1
    <3>3. CASE idempotent /\ held[r] # None /\ answer'[r].row = held[r]
      BY <1>2, <1>4, <2>2, <3>1, <3>3 DEF SpecOf
    <3>4. CASE idempotent /\ \E i \in Requests : rows[i] # None /\ answer'[r].row = rows[i]
      BY <1>2, <1>3, <2>2, <3>1, <3>4 DEF SpecOf
    <3>5. QED
      BY <3>1, <3>2, <3>3, <3>4, OkStep
  <2>3. QED
    BY <2>1, <2>2
<1>9. QED
  BY <1>6, <1>7, <1>8 DEF SpecOf

\* Creates of one key that are answered OK name one row.
LEMMA Converging ==
  ASSUME IInv, AnswerCarriesWhatWasAsked, SpecsStand
  PROVE  CreatesConverge
<1> SUFFICES ASSUME NEW r \in Requests, NEW t \in Requests, NoUpdates,
                    Succeeded(r), call[r].op = "create",
                    Succeeded(t), call[t].op = "create",
                    call[r].spec.key = call[t].spec.key, call[r].spec.key # NoKey
             PROVE  answer[r].row.id = answer[t].row.id /\ (~ idempotent => r = t)
  BY DEF CreatesConverge
<1>1. SpecOf(r) /\ SpecOf(t)
  BY DEF SpecsStand
<1> DEFINE i == answer[r].row.id
           j == answer[t].row.id
<1>2. /\ i \in Requests /\ rows[i] # None /\ answer[r].row.spec = call[i].spec
      /\ j \in Requests /\ rows[j] # None /\ answer[t].row.spec = call[j].spec
      /\ ~ idempotent => i = r /\ j = t
  BY <1>1 DEF SpecOf
<1>3. rows[i].spec = call[r].spec /\ rows[j].spec = call[t].spec
  <2>1. SpecOf(i) /\ SpecOf(j)
    BY <1>2 DEF SpecsStand
  <2>2. QED
    BY <1>2, <2>1 DEF SpecOf, AnswerCarriesWhatWasAsked
<1>4. i = j
  BY <1>2, <1>3 DEF IInv, KeysNameOneRow, Table!NaturalKeyUnique, Table!Stored
<1>5. QED
  BY <1>2, <1>4

\* An event names a stored row, and every write that went past its
\* announcement has its event.
LEMMA EventsStep ==
  ASSUME IInv, HistoryInOrder, EventsTellTheWrites, NEW r \in Requests, Act(r)
  PROVE  EventsTellTheWrites'
<1>1. \A q \in Requests : Wrote(q) => Wrote(q)' /\ EventOf(q)' = EventOf(q)
  <2> SUFFICES ASSUME NEW q \in Requests, Wrote(q)
               PROVE  Wrote(q)' /\ EventOf(q)' = EventOf(q)
    OBVIOUS
  <2>1. pc[q] \in {"announce", "done", "stopped"}
    BY DEF Wrote, IInv, StagesInOrder, HistoryInOrder, HistoryOf
  <2>2. call'[q] = call[q] /\ held'[q] = held[q]
    BY <2>1, CallsStay, Others, OwnStep
  <2>3. rows[q] # None => rows'[q] # None
    BY RowsStay
  <2>4. replaced[q] # None => replaced'[q] # None
    BY <2>1, Others, OwnStep, TableMoves DEF Quiet, Inserts, Overwrites
  <2>5. QED
    BY <2>2, <2>3, <2>4
       DEF Wrote, EventOf, NewState, CreatedRow, UpdatedRow, StampedRow
<1>2. \/ events' = events
      \/ pc[r] = "announce" /\ events' = events \cup {EventOf(r)}
  <2>1. CASE Publish(r)
    BY <2>1 DEF Publish
  <2>2. CASE ~ Publish(r)
    BY <2>2
       DEF Act, Step, Receive, Load, Authorize, CheckCreate, CheckUpdate, ResolveDuplicate,
           InsertNew, Reread, Save, AfterPersistFails, Stop, history
  <2>3. QED
    BY <2>1, <2>2
<1>3. ASSUME NEW e \in events'
      PROVE  e \in events \/ (pc[r] = "announce" /\ e = EventOf(r))
  BY <1>2
<1>4. \A e \in events' : \E q \in Requests : Wrote(q)' /\ e = EventOf(q)'
  BY <1>1, <1>3 DEF EventsTellTheWrites, HistoryInOrder, HistoryOf
<1>5. ASSUME NEW q \in Requests, Wrote(q)', pc'[q] # "announce", q \notin dropped'
      PROVE  EventOf(q)' \in events'
  <2>1. CASE q # r
    <3>1. pc'[q] = pc[q] /\ replaced'[q] = replaced[q] /\ q \notin dropped
      BY <1>5, <2>1, Others
    <3>2. rows'[q] # None => rows[q] # None
      BY <2>1, TableMoves DEF Quiet, Inserts, Overwrites, IInv, TypeOK
    <3>3. Wrote(q)
      BY <1>5, <3>1, <3>2 DEF Wrote
    <3>4. QED
      BY <1>1, <1>2, <1>5, <3>1, <3>3 DEF EventsTellTheWrites
  <2>2. CASE q = r
    <3>1. ~ Inserts(r) /\ ~ Overwrites(r)
      BY <1>5, <2>2 DEF Inserts, Overwrites, Goto, IInv, TypeOK
    <3>2. UNCHANGED <<rows, replaced>>
      BY <3>1, TableMoves DEF Quiet
    <3>3. Wrote(r) /\ pc[r] = "announce"
      <4>1. Wrote(r)
        BY <1>5, <2>2, <3>2 DEF Wrote
      <4>2. QED
        BY <4>1, OwnStep DEF Wrote, IInv, StagesInOrder, HistoryInOrder, HistoryOf
    <3>4. Publish(r) \/ AfterPersistFails(r) \/ Stop(r)
      BY <3>3 DEF Act, Step, Receive, Load, Authorize, CheckCreate, CheckUpdate,
                  ResolveDuplicate, InsertNew, Reread, Save
    <3>5. EventOf(r) \in events'
      BY <1>5, <2>2, <3>3, <3>4 DEF Publish, AfterPersistFails, Stop, IInv, TypeOK
    <3>6. QED
      BY <1>1, <2>2, <3>3, <3>5
  <2>3. QED
    BY <2>1, <2>2
<1>6. QED
  BY <1>4, <1>5 DEF EventsTellTheWrites

\* A create that settled has written nothing, and what is announced is there.
SilentOf(r) ==
    Succeeded(r) /\ call[r].op = "create" /\ answer[r].row.id # r => rows[r] = None

EventStands(e) ==
    /\ e.resource.id \in Requests
    /\ rows[e.resource.id] # None
    /\ e.type = "created" => e.previous = None /\ e.resource.version = 1

Silence ==
    /\ \A r \in Requests : SilentOf(r)
    /\ \A e \in events : EventStands(e)

\* Silence is what SettledCreateIsSilent says.
LEMMA Silent == ASSUME IInv, Silence PROVE SettledCreateIsSilent
  BY DEF Silence, SilentOf, EventStands, SettledCreateIsSilent

\* Every step keeps it.
LEMMA SilentStep ==
  ASSUME IInv, HistoryInOrder, KindInOrder, Silence, EventsTellTheWrites,
         EventsTellTheWrites', NEW r \in Requests, Act(r)
  PROVE  Silence'
<1>1. ASSUME NEW q \in Requests, Succeeded(q)', call'[q].op = "create",
             answer'[q].row.id # q
      PROVE  rows'[q] = None
  <2>1. CASE q # r
    <3>1. rows[q] = None
      BY <1>1, <2>1, Others DEF Silence, SilentOf, Succeeded
    <3>2. QED
      BY <2>1, <3>1, TableMoves DEF Quiet, Inserts, Overwrites, IInv, TypeOK
  <2>2. CASE q = r
    <3>1. Succeeded(r)' /\ UNCHANGED <<rows, call, held>>
      BY <1>1, <2>2, OkStep
    <3>2. NewState(r).id = r
      BY <1>1, <2>2, <3>1 DEF NewState, CreatedRow
    <3>3. pc[r] \in {"persist", "reread"}
      BY <1>1, <2>2, <3>1, <3>2, OkStep
    <3>4. QED
      BY <2>2, <3>1, <3>3 DEF IInv, StagesInOrder
  <2>3. QED
    BY <2>1, <2>2
<1>2. ASSUME NEW e \in events' PROVE EventStands(e)'
  <2>1. CASE e \in events
    BY <2>1, RowsStay DEF Silence, EventStands
  <2>2. CASE e \notin events
    <3>1. pc[r] = "announce" /\ e = EventOf(r) /\ UNCHANGED <<rows, call, held>>
      <4>1. Publish(r)
        BY <2>2
           DEF Act, Step, Receive, Load, Authorize, CheckCreate, CheckUpdate,
               ResolveDuplicate, InsertNew, Reread, Save, AfterPersistFails, Stop, history
      <4>2. QED
        BY <2>2, <4>1 DEF Publish
    <3>2. call[r] \in Calls /\ Wrote(r) /\ HistoryOf(r)
      BY <3>1 DEF IInv, StagesInOrder, HistoryInOrder, HistoryOf
    <3>3. CASE call[r].op = "create"
      <4>1. rows[r] # None /\ held[r] = None
        BY <3>1, <3>2, <3>3 DEF Wrote, HistoryOf, IInv, StagesInOrder
      <4>2. QED
        BY <3>1, <3>3, <4>1 DEF EventStands, EventOf, NewState, CreatedRow
    <3>4. CASE call[r].op # "create"
      <4>1. held[r] # None /\ held[r].id \in Requests /\ rows[held[r].id] # None
        BY <3>1, <3>4 DEF IInv, TypeOK, StagesInOrder, HeldIsStored, Row, Table!Row
      <4>2. NewState(r).id = held[r].id
        BY <3>2, <3>4
           DEF Calls, CreateCall, UpdateCall, CustomCall, NewState, UpdatedRow, StampedRow
      <4>3. QED
        BY <3>1, <3>4, <4>1, <4>2 DEF EventStands, EventOf
    <3>5. QED
      BY <3>3, <3>4
  <2>3. QED
    BY <2>1, <2>2
<1>3. QED
  BY <1>1, <1>2 DEF Silence, SilentOf

\* As long as no save of a row wrote over another row than it had loaded, the
\* row is ahead of all that was loaded for its saves, and nothing is lost.
Kept(r) ==
    LET i == replaced[r].id IN
    \/ \E t \in Writers(i) : Raced(t)
    \/ /\ held[r].version < rows[i].version
       /\ \A t \in Writers(i) \ {r} : held[t].version # held[r].version
       /\ \/ call[r].op # "custom"
          \/ rows[i].status = call[r].status
          \/ \E t \in Writers(i) :
                call[t].op = "custom" /\ held[t].version > held[r].version

AllKept == \A r \in Requests : replaced[r] # None => Kept(r)

\* In particular, writes are lost only by a race.
LEMMA KeptIsNotLost == AllKept => WritesAreLostOnlyByRace
  BY DEF AllKept, Kept, WritesAreLostOnlyByRace

\* Every step keeps what was written, or is a race.
LEMMA KeptStep ==
  ASSUME IInv, IInv', HistoryInOrder, HistoryInOrder', AllKept,
         NEW r \in Requests, Act(r)
  PROVE  AllKept'
<1> SUFFICES ASSUME NEW q \in Requests, replaced'[q] # None PROVE Kept(q)'
  BY DEF AllKept
<1>1. ASSUME NEW t \in Requests, replaced[t] # None
      PROVE  /\ replaced'[t] = replaced[t] /\ held'[t] = held[t] /\ call'[t] = call[t]
             /\ replaced[t].id \in Requests /\ replaced[t].id = held[t].id
             /\ rows[replaced[t].id] # None /\ held[t].version \in Nat
  <2>2. /\ held[t] # None /\ replaced[t].id = held[t].id
        /\ pc[t] \in {"announce", "done", "stopped"}
    BY <1>1 DEF HistoryInOrder, HistoryOf
  <2>3. held'[t] = held[t] /\ call'[t] = call[t]
    BY <2>2, CallsStay, Others, OwnStep
  <2>4. replaced'[t] = replaced[t]
    BY <2>2, Others, TableMoves DEF Quiet, Inserts, Overwrites
  <2>5. QED
    BY <1>1, <2>2, <2>3, <2>4 DEF IInv, TypeOK, HeldIsStored, Row, Table!Row
<1>2. CASE ~ Overwrites(r)
  <2>1. replaced' = replaced
    BY <1>2, TableMoves DEF Quiet, Inserts
  <2>2. \A i \in Requests : rows[i] # None => rows'[i] = rows[i]
    BY <1>2, TableMoves DEF Quiet, Inserts, IInv, TypeOK
  <2>3. \A i : Writers(i)' = Writers(i)
    BY <2>1 DEF Writers
  <2>4. Kept(q)
    BY <2>1 DEF AllKept
  <2>5. QED
    BY <1>1, <2>1, <2>2, <2>3, <2>4 DEF Kept, Writers, Raced
<1>3. CASE Overwrites(r)
  <2>0. PICK i0 : i0 = held[r].id
    OBVIOUS
  <2>1. /\ replaced[r] = None /\ held' = held /\ call' = call
        /\ i0 \in Requests /\ rows[i0] # None /\ rows[i0].id = i0
        /\ replaced' = [replaced EXCEPT ![r] = rows[i0]]
        /\ rows' = [rows EXCEPT ![i0] = NewState(r)]
        /\ held[r].version \in Nat
    BY <1>3, <2>0 DEF Overwrites, HistoryInOrder, HistoryOf, IInv, RowsInOrder, TypeOK, Row, Table!Row
  <2>2. /\ NewState(r).version = held[r].version + 1
        /\ call[r].op = "custom" => NewState(r).status = call[r].status
        /\ call[r].op # "custom" => NewState(r).status = held[r].status
    <3>1. call[r] \in Calls /\ call[r].op # "create"
      BY <1>3 DEF Overwrites, IInv, StagesInOrder
    <3>2. QED
      BY <3>1 DEF Calls, CreateCall, UpdateCall, CustomCall, NewState, UpdatedRow, StampedRow
  <2>3. /\ \A i : Writers(i)' = IF i = i0 THEN Writers(i) \cup {r} ELSE Writers(i)
        /\ r \notin Writers(i0)
    BY <2>1 DEF Writers, IInv, TypeOK
  <2>4. \A t \in Requests \ {r} : replaced'[t] = replaced[t]
    BY <2>1 DEF IInv, TypeOK
  <2>5. /\ rows'[i0] = NewState(r) /\ replaced'[r] = rows[i0]
        /\ \A i \in Requests \ {i0} : rows'[i] = rows[i]
    BY <2>1 DEF IInv, TypeOK
  <2>6. CASE replaced'[q].id # i0
    <3>1. q # r /\ replaced'[q] = replaced[q] /\ replaced[q] # None
      BY <2>1, <2>4, <2>5, <2>6
    <3>2. Kept(q) /\ replaced[q].id \in Requests
      BY <1>1, <3>1 DEF AllKept
    <3>3. r \notin Writers(replaced[q].id)
      BY <2>1 DEF Writers
    <3>4. QED
      BY <2>1, <2>3, <2>4, <2>5, <2>6, <3>1, <3>2, <3>3 DEF Kept, Writers, Raced
  <2>7. CASE replaced'[q].id = i0 /\ rows[i0] # held[r]
    BY <2>1, <2>3, <2>5, <2>7 DEF Kept, Raced
  <2>8. CASE replaced'[q].id = i0 /\ \E t \in Writers(i0) : Raced(t)
    <3>1. PICK t \in Writers(i0) : Raced(t)
      BY <2>8
    <3>2. t # r /\ t \in Requests
      BY <2>3, <3>1 DEF Writers
    <3>3. t \in Writers(i0)' /\ Raced(t)'
      BY <2>1, <2>3, <2>4, <3>1, <3>2 DEF Raced
    <3>4. QED
      BY <2>8, <3>3 DEF Kept
  <2>9. CASE /\ replaced'[q].id = i0 /\ rows[i0] = held[r]
             /\ ~ \E t \in Writers(i0) : Raced(t)
    <3>1. ASSUME NEW t \in Writers(i0)
          PROVE  /\ t \in Requests /\ t # r /\ replaced[t].id = i0
                 /\ held[t].version \in Nat /\ held[t].version < held[r].version
                 /\ \A u \in Writers(i0) \ {t} : held[u].version # held[t].version
                 /\ \/ call[t].op # "custom"
                    \/ held[r].status = call[t].status
                    \/ \E u \in Writers(i0) :
                          call[u].op = "custom" /\ held[u].version > held[t].version
      <4>1. t \in Requests /\ t # r /\ replaced[t].id = i0 /\ replaced[t] # None
        BY <2>3 DEF Writers
      <4>2. Kept(t) /\ held[t].version \in Nat
        BY <1>1, <4>1 DEF AllKept
      <4>3. QED
        BY <2>9, <4>1, <4>2 DEF Kept
    <3>2. CASE q = r
      <4>1. \A t \in Writers(i0)' \ {r} : held[t].version # held[r].version
        BY <2>3, <3>1
      <4>2. QED
        BY <2>1, <2>2, <2>5, <2>9, <3>2, <4>1 DEF Kept
    <3>3. CASE q # r
      <4>1. q \in Writers(i0)
        BY <2>4, <2>9, <3>3 DEF Writers
      <4>2. held[q].version < rows'[i0].version
        BY <2>1, <2>2, <2>5, <3>1, <4>1
      <4>3. \A t \in Writers(i0)' \ {q} : held[t].version # held[q].version
        BY <2>1, <2>3, <3>1, <4>1
      <4>4. \/ call[q].op # "custom"
            \/ rows'[i0].status = call[q].status
            \/ \E u \in Writers(i0)' :
                  call[u].op = "custom" /\ held[u].version > held[q].version
        BY <2>1, <2>2, <2>3, <2>5, <3>1, <4>1
      <4>5. QED
        BY <2>1, <2>9, <4>2, <4>3, <4>4 DEF Kept
    <3>4. QED
      BY <3>2, <3>3
  <2>10. QED
    BY <2>6, <2>7, <2>8, <2>9
<1>4. QED
  BY <1>2, <1>3

-----------------------------------------------------------------------------
\* The invariant behind what requests are told and what becomes of writes.
Promises ==
    /\ HistoryInOrder /\ KindInOrder
    /\ RefusedInOrder /\ AnswerCarriesWhatWasAsked /\ SpecsStand
    /\ EventsTellTheWrites /\ Silence /\ AllKept

LEMMA InitPromises == Init => Promises
  BY DEF Init, Promises, HistoryInOrder, HistoryOf, KindInOrder, KindOf, Wrote,
         RefusedInOrder, RefusedOf, AnswerCarriesWhatWasAsked, SpecsStand, SpecOf, Succeeded,
         EventsTellTheWrites, Silence, SilentOf, AllKept, Table!TableInit

LEMMA NextPromises == IInv /\ IInv' /\ Promises /\ [Next]_vars => Promises'
<1> SUFFICES ASSUME IInv, IInv', Promises, [Next]_vars PROVE Promises'
  OBVIOUS
<1>1. CASE UNCHANGED vars
  <2> USE <1>1 DEF vars, Promises
  <2>1. /\ HistoryInOrder' /\ KindInOrder' /\ RefusedInOrder'
        /\ AnswerCarriesWhatWasAsked' /\ Silence'
    BY DEF HistoryInOrder, HistoryOf, KindInOrder, KindOf, Wrote, RefusedInOrder,
           RefusedOf, Addresses,
           AnswerCarriesWhatWasAsked, Succeeded, Silence, SilentOf, EventStands
  <2>2. SpecsStand'
    BY DEF SpecsStand, SpecOf, NoUpdates, Succeeded
  <2>3. EventsTellTheWrites'
    <3>1. \A q \in Requests : EventOf(q)' = EventOf(q) /\ (Wrote(q)' <=> Wrote(q))
      BY DEF EventOf, NewState, CreatedRow, UpdatedRow, StampedRow, Wrote
    <3>2. QED
      BY <3>1 DEF EventsTellTheWrites
  <2>4. AllKept'
    BY DEF AllKept, Kept, Writers, Raced
  <2>5. QED
    BY <2>1, <2>2, <2>3, <2>4
<1>2. ASSUME NEW r \in Requests, Act(r) PROVE Promises'
  BY <1>2, HistoryStep, KindStep, RefusedStep, AnswerStep, SpecStep, EventsStep,
     SilentStep, KeptStep DEF Promises
<1>3. QED
  BY <1>1, <1>2 DEF Next, Act

LEMMA SpecPromises == Spec => [](IInv /\ Promises)
  BY SpecIInv, InitPromises, NextPromises, PTL DEF Spec

\* Whatever the policy, and however refused requests race with permitted ones,
\* a refused caller writes nothing and is told of no key but one by which it
\* addressed the row itself.
THEOREM RefusalsTellNoOtherKey == Spec => []RefusalsTellOnlyOfTheRowAddressed
<1>1. Promises => RefusalsTellOnlyOfTheRowAddressed
  BY DEF Promises, RefusedInOrder, RefusedOf, RefusalsTellOnlyOfTheRowAddressed
<1>2. QED
  BY <1>1, SpecPromises, PTL

\* Whoever wrote the row, an OK answer carries the content that was sent.
THEOREM AnswersFit == Spec => []AnswerCarriesWhatWasAsked
<1>1. Promises => AnswerCarriesWhatWasAsked
  BY DEF Promises
<1>2. QED
  BY <1>1, SpecPromises, PTL

\* However many creates of one key race, all that succeed name one row.
THEOREM CreatesOfOneKeyConverge == Spec => []CreatesConverge
<1>1. IInv /\ Promises => CreatesConverge
  BY Converging DEF Promises
<1>2. QED
  BY <1>1, SpecPromises, PTL

\* The two together.
THEOREM RacingCreatesConverge == Spec => []AnswersConverge
BY AnswersFit, CreatesOfOneKeyConverge, PTL DEF AnswersConverge

\* A settled create leaves no row and no event of its own.
THEOREM SettlingIsSilent == Spec => []SettledCreateIsSilent
<1>1. IInv /\ Promises => SettledCreateIsSilent
  BY Silent DEF Promises
<1>2. QED
  BY <1>1, SpecPromises, PTL

\* Events are lost by faults alone, and none tells of a write that was not.
THEOREM WritesAreTold == Spec => []EventsTellTheWrites
<1>1. Promises => EventsTellTheWrites
  BY DEF Promises
<1>2. QED
  BY <1>1, SpecPromises, PTL

\* Versions repeat and statuses are undone by races alone.
THEOREM OnlyRacesLoseWrites == Spec => []WritesAreLostOnlyByRace
<1>1. Promises => WritesAreLostOnlyByRace
  BY KeptIsNotLost DEF Promises
<1>2. QED
  BY <1>1, SpecPromises, PTL
=============================================================================
