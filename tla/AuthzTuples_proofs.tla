------------------------ MODULE AuthzTuples_proofs ------------------------
(***************************************************************************)
(* Theorems about AuthzTuples: its types; that a reconcile nobody disturbs *)
(* leaves the engine equal to the projection of the rows; that reconciles  *)
(* which overlap do so too once the writes have stopped; and that the      *)
(* delta of one write agrees with the full projection.                     *)
(***************************************************************************)
EXTENDS AuthzTuples, TLAPS

WriterStages == {"idle", "load", "guard", "persist", "former", "next", "sync",
                 "refused", "done", "stopped"}
SavedStages == {"former", "next", "sync"}
ReplicaStages == {"idle", "read", "engine", "apply"}

\* A row is of the kind its id belongs to; an id that a write made may be
\* of any kind.
Fits(i, row) ==
    row # None =>
      /\ row.kind = "member" => i \in Members \cup Writers
      /\ row.kind = "case"   => i \in Cases \cup Writers
      /\ row.kind = "period" => i \in Periods \cup Writers

FitTable(table) == table \in [Ids -> Row \cup {None}] /\ \A i \in Ids : Fits(i, table[i])

\* The rows and every reconcile's copy of them are of the right kinds.
TablesFit == FitTable(rows) /\ \A k \in Replicas : FitTable(snap[k])

\* Writes and reconciles have stages of their own.
StagesApart ==
    /\ \A w \in Writers : pc[w] \in WriterStages
    /\ \A k \in Replicas : pc[k] \in ReplicaStages

\* What a write has in hand at each stage: an update has loaded a row of the
\* kind it sends, a removal a period, a create nothing.
Holds(w) ==
    /\ pc[w] \in {"load", "guard", "persist"} \cup SavedStages => call[w] \in Calls(w)
    /\ pc[w] \in {"idle", "load"} => held[w] = None
    /\ pc[w] = "load" => call[w].id # w
    /\ pc[w] = "guard" => call[w].row = None
    /\ pc[w] = "former" => held[w] # None /\ NextRow(w).kind = "case"
    /\ pc[w] = "next" => NextRow(w).kind \in {"case", "period"}
    /\ pc[w] \in {"guard", "persist"} \cup SavedStages =>
          IF call[w].id = w
          THEN held[w] = None
          ELSE /\ held[w] \in Row /\ Fits(call[w].id, held[w])
               /\ held[w].kind = IF call[w].row = None THEN "period"
                                                      ELSE call[w].row.kind

InHand == \A w \in Writers : Holds(w)

\* The active natural keys.
UniqueKeys ==
    \A i, j \in Ids :
        i # j /\ rows[i] # None /\ rows[j] # None => ~ Collides(rows[i], rows[j])

\* Nobody else is under way beside one that nobody disturbed.
Alone ==
    \A p, q \in Writers \cup Replicas : lone[p] /\ Busy(p) /\ Busy(q) => p = q

\* What a reconcile that nobody disturbed has read still holds.
LoneReads ==
    \A k \in Replicas :
        lone[k] =>
          /\ pc[k] = "read" =>
                snap[k] = [i \in Ids |->
                              IF rows[i] # None /\ rows[i].kind \in seen[k]
                              THEN rows[i] ELSE None]
          /\ pc[k] = "engine" => snap[k] = rows
          /\ pc[k] = "apply" => plan[k] = Difference(Projection(rows), tuples)

\* The row a write that nobody disturbed has loaded is the row it replaces,
\* and no other row has its keys.
LoneWrites ==
    \A w \in Writers :
        lone[w] /\ pc[w] \in {"guard", "persist"} \cup SavedStages =>
          /\ pc[w] \in SavedStages => rows[call[w].id] = NextRow(w)
          /\ call[w].id # w =>
                /\ pc[w] \notin SavedStages => rows[call[w].id] = held[w]
                /\ \A j \in Ids \ {call[w].id} :
                      rows[j] # None => ~ Collides(held[w], rows[j])

\* Delta d takes the tuples `before` of a row to the tuples `after`, and takes
\* away none that are not the row's own.
Exact(d, before, after) ==
    /\ d.deletes \subseteq before
    /\ (before \cup d.writes) \ d.deletes = after

\* The delta a write that nobody disturbed has put together so far: it lacks
\* what the write has yet to read.
DeltaHolds(w) ==
    lone[w] =>
      /\ pc[w] = "former" => held[w].lead # NextRow(w).lead /\ delta[w] = NoDelta
      /\ pc[w] = "next" /\ NextRow(w).kind = "case" =>
            IF held[w] = None
            THEN delta[w] = [writes |-> {FirmTuple(call[w].id)}, deletes |-> {}]
            ELSE /\ held[w].lead # NextRow(w).lead
                 /\ delta[w] = [writes |-> {},
                                deletes |-> PersonTuple(rows, held[w].lead, "lead", call[w].id)]
      /\ pc[w] = "next" /\ NextRow(w).kind = "period" =>
            delta[w] = NoDelta /\ NextRow(w).active # WasActive(w)
      /\ pc[w] = "sync" =>
            Exact(delta[w], RowTuples(rows, call[w].id, held[w]),
                            RowTuples(rows, call[w].id, NextRow(w)))

LoneDeltas == \A w \in Writers : DeltaHolds(w)

TypeInv == TypeOK /\ TablesFit /\ StagesApart /\ InHand
IInv == TypeInv /\ UniqueKeys /\ Alone /\ LoneReads /\ LoneWrites /\ LoneDeltas

-----------------------------------------------------------------------------
(* What rows, calls and tuples are made of.                                *)

\* The fields of a row, by its kind.
LEMMA RowFields ==
    ASSUME NEW row \in Row
    PROVE  /\ row # None /\ row.kind \in Kinds
           /\ row.kind = "member" => /\ row \in MemberRow /\ row.user \in Users
                                     /\ row.role \in Roles /\ row.active \in BOOLEAN
           /\ row.kind = "case" => row \in CaseRow /\ row.lead \in Members
           /\ row.kind = "period" => /\ row \in PeriodRow /\ row.case \in Cases
                                     /\ row.member \in Members /\ row.active \in BOOLEAN
BY IdsAssumption DEF Row, MemberRow, CaseRow, PeriodRow, Kinds

\* The id and the row of a call.
LEMMA CallFields ==
    ASSUME NEW w \in Writers, NEW c \in Calls(w)
    PROVE  /\ c.id \in Ids
           /\ c.row \in Row \cup {None}
           /\ c.row = None => c.id \in (Periods \cup Writers) \ {w}
           /\ c.row # None /\ c.id # w =>
                 /\ c.id \in Members \cup Cases \cup Writers
                 /\ c.row \in MemberRow \cup CaseRow
           /\ c.id = w /\ c.row.kind = "period" => c.row.active
<1>1. c \in [id : {w}, row : {row \in Row : row.kind = "period" => row.active}]
      => c.id = w /\ c.row \in Row /\ (c.row.kind = "period" => c.row.active)
  OBVIOUS
<1>2. c \in [id : (Members \cup Cases \cup Writers) \ {w}, row : MemberRow \cup CaseRow]
      => c.id \in (Members \cup Cases \cup Writers) \ {w} /\ c.row \in MemberRow \cup CaseRow
  OBVIOUS
<1>3. c \in [id : (Periods \cup Writers) \ {w}, row : {None}]
      => c.id \in (Periods \cup Writers) \ {w} /\ c.row = None
  OBVIOUS
<1> QED BY <1>1, <1>2, <1>3, IdsAssumption DEF Calls, Ids, Row

\* A table of the right kinds holds members under the members' ids.
LEMMA MembersAreMembers ==
    ASSUME NEW table, FitTable(table), NEW m \in Members, table[m] # None
    PROVE  table[m] \in Row /\ table[m].kind = "member" /\ table[m].user \in Users
<1>1. m \in Ids /\ m \notin Cases \cup Writers /\ m \notin Periods \cup Writers
  BY IdsAssumption DEF Ids
<1>2. table[m] \in Row /\ Fits(m, table[m])
  BY <1>1 DEF FitTable
<1> QED BY <1>1, <1>2, RowFields DEF Fits, Kinds

\* A person resolves to at most one tuple of the engine's.
LEMMA PersonTupleType ==
    ASSUME NEW table, FitTable(table), NEW m \in Members,
           NEW relation \in {"lead", "member"}, NEW c \in Cases \cup Writers
    PROVE  PersonTuple(table, m, relation, c) \subseteq Tuple
BY MembersAreMembers DEF PersonTuple, Tuple

\* The tuples of a row are tuples of the engine's.
LEMMA RowTuplesType ==
    ASSUME NEW table, FitTable(table), NEW i \in Ids,
           NEW row \in Row \cup {None}, Fits(i, row)
    PROVE  RowTuples(table, i, row) \subseteq Tuple
<1>1. CASE row = None
  BY <1>1 DEF RowTuples
<1>2. CASE row # None /\ row.kind = "member"
  <2>1. RoleTuple(row) \in Tuple
    BY <1>2, RowFields DEF RoleTuple, Tuple
  <2> QED BY <1>2, <2>1 DEF RowTuples, RoleTuples
<1>3. CASE row # None /\ row.kind = "case"
  <2>1. row.lead \in Members /\ i \in Cases \cup Writers
    BY <1>3, RowFields DEF Fits
  <2>2. FirmTuple(i) \in Tuple
    BY <2>1 DEF FirmTuple, Tuple
  <2>3. RowTuples(table, i, row) = {FirmTuple(i)} \cup PersonTuple(table, row.lead, "lead", i)
    BY <1>3 DEF RowTuples
  <2> QED BY <2>1, <2>2, <2>3, PersonTupleType
<1>4. CASE row # None /\ row.kind = "period"
  <2>1. row.member \in Members /\ row.case \in Cases \cup Writers
    BY <1>4, RowFields
  <2>2. RowTuples(table, i, row) = IF row.active
                                   THEN PersonTuple(table, row.member, "member", row.case)
                                   ELSE {}
    BY <1>4 DEF RowTuples
  <2> QED BY <2>1, <2>2, PersonTupleType
<1> QED BY <1>1, <1>2, <1>3, <1>4, RowFields DEF Kinds

\* What the projection of a table contains.
LEMMA ProjectionType ==
    ASSUME NEW table, FitTable(table)
    PROVE  Projection(table) \subseteq Tuple
<1> SUFFICES ASSUME NEW i \in Ids
             PROVE  RowTuples(table, i, table[i]) \subseteq Tuple
  BY DEF Projection
<1> QED BY RowTuplesType DEF FitTable

\* Applying any part of a difference between tuples leaves tuples.
LEMMA ApplyTypes ==
    ASSUME tuples \subseteq Tuple, NEW d, d.writes \subseteq Tuple,
           Apply(d) \/ ApplyPart(d)
    PROVE  tuples' \subseteq Tuple
BY DEF Apply, ApplyPart

\* The row a write is about to save, or has saved, is of the kind of its id.
LEMMA NextRowFits ==
    ASSUME TypeInv, NEW w \in Writers, pc[w] \in {"persist"} \cup SavedStages
    PROVE  /\ call[w].id \in Ids
           /\ NextRow(w) \in Row /\ Fits(call[w].id, NextRow(w))
           /\ Fits(call[w].id, held[w]) /\ held[w] \in Row \cup {None}
           /\ call[w].id # w => held[w] \in Row /\ held[w].kind = NextRow(w).kind
<1> DEFINE c == call[w]
<1>1. c \in Calls(w)
  BY DEF TypeInv, InHand, Holds
<1>2. IF c.id = w THEN held[w] = None
      ELSE /\ held[w] \in Row /\ Fits(c.id, held[w])
           /\ held[w].kind = IF c.row = None THEN "period" ELSE c.row.kind
  BY DEF TypeInv, InHand, Holds
<1>3. CASE c.row = None
  <2>1. c.id # w
    BY <1>1, <1>3, CallFields
  <2>2. held[w] \in PeriodRow
    BY <1>2, <1>3, <2>1, RowFields
  <2>3. [held[w] EXCEPT !.active = FALSE] \in PeriodRow
    BY <2>2 DEF PeriodRow
  <2>4. NextRow(w) \in PeriodRow /\ NextRow(w).kind = "period"
    BY <1>3, <2>3 DEF NextRow, PeriodRow
  <2> QED BY <1>1, <1>2, <1>3, <2>1, <2>4, CallFields DEF Fits, Row
<1>4. CASE c.row # None
  <2>1. NextRow(w) = c.row /\ c.row \in Row
    BY <1>1, <1>4, CallFields DEF NextRow
  <2>2. c.id \in Ids /\ (c.id = w => Fits(c.id, c.row) /\ Fits(c.id, held[w]))
    BY <1>1, <1>2, CallFields DEF Fits
  <2>3. c.id # w => /\ held[w] \in Row /\ Fits(c.id, held[w])
                    /\ held[w].kind = c.row.kind
    BY <1>2, <1>4
  <2>4. c.id # w => held[w] # None /\ Fits(c.id, c.row)
    BY <2>3, IdsAssumption DEF Fits
  <2> QED BY <1>2, <2>1, <2>2, <2>3, <2>4
<1> QED BY <1>3, <1>4

\* At boot every id has a row of its kind and every key one row.
LEMMA Initially == Init => IInv
<1> SUFFICES ASSUME Init PROVE IInv
  OBVIOUS
<1>1. PICK userOf \in [Members -> Users], roleOf \in [Members -> Roles],
           activeOf \in [Members -> BOOLEAN], leadOf \in [Cases -> Members],
           memberOf \in [Periods -> Members], caseOf \in [Periods -> Cases] :
        /\ \A m, n \in Members : userOf[m] = userOf[n] => m = n
        /\ \A p, q \in Periods : caseOf[p] = caseOf[q] /\ memberOf[p] = memberOf[q] => p = q
        /\ rows = [i \in Ids |->
              CASE i \in Members -> [kind |-> "member", user |-> userOf[i],
                                     role |-> roleOf[i], active |-> activeOf[i]]
                [] i \in Cases   -> [kind |-> "case", lead |-> leadOf[i]]
                [] i \in Periods -> [kind |-> "period", case |-> caseOf[i],
                                     member |-> memberOf[i], active |-> TRUE]
                [] i \in Writers -> None]
  BY DEF Init
<1> DEFINE Row0(i) ==
        CASE i \in Members -> [kind |-> "member", user |-> userOf[i],
                               role |-> roleOf[i], active |-> activeOf[i]]
          [] i \in Cases   -> [kind |-> "case", lead |-> leadOf[i]]
          [] i \in Periods -> [kind |-> "period", case |-> caseOf[i],
                               member |-> memberOf[i], active |-> TRUE]
          [] i \in Writers -> None
<1>2. rows = [i \in Ids |-> Row0(i)]
  BY <1>1
<1>3. \A m \in Members : Row0(m) = [kind |-> "member", user |-> userOf[m],
                                    role |-> roleOf[m], active |-> activeOf[m]]
  BY IdsAssumption
<1>4. \A c \in Cases : Row0(c) = [kind |-> "case", lead |-> leadOf[c]]
  BY IdsAssumption
<1>5. \A p \in Periods : Row0(p) = [kind |-> "period", case |-> caseOf[p],
                                    member |-> memberOf[p], active |-> TRUE]
  BY IdsAssumption
<1>6. \A w \in Writers : Row0(w) = None
  BY IdsAssumption
<1> HIDE DEF Row0
<1>7. \A w \in Writers : rows[w] = None
  BY <1>2, <1>6 DEF Ids
<1>8. /\ \A m \in Members : rows[m] \in Row /\ rows[m].kind = "member"
                            /\ rows[m].user = userOf[m]
      /\ \A c \in Cases : rows[c] \in Row /\ rows[c].kind = "case"
      /\ \A p \in Periods : rows[p] \in Row /\ rows[p].kind = "period"
                            /\ rows[p].case = caseOf[p] /\ rows[p].member = memberOf[p]
  <2>1. ASSUME NEW m \in Members
        PROVE  rows[m] \in MemberRow /\ rows[m].kind = "member" /\ rows[m].user = userOf[m]
    <3>1. rows[m] = [kind |-> "member", user |-> userOf[m],
                     role |-> roleOf[m], active |-> activeOf[m]]
      BY <1>2, <1>3 DEF Ids
    <3>2. userOf[m] \in Users /\ roleOf[m] \in Roles /\ activeOf[m] \in BOOLEAN
      OBVIOUS
    <3> QED BY <3>1, <3>2 DEF MemberRow
  <2>2. ASSUME NEW c \in Cases
        PROVE  rows[c] \in CaseRow /\ rows[c].kind = "case"
    <3>1. rows[c] = [kind |-> "case", lead |-> leadOf[c]]
      BY <1>2, <1>4 DEF Ids
    <3>2. leadOf[c] \in Members
      OBVIOUS
    <3> QED BY <3>1, <3>2 DEF CaseRow
  <2>3. ASSUME NEW p \in Periods
        PROVE  /\ rows[p] \in PeriodRow /\ rows[p].kind = "period"
               /\ rows[p].case = caseOf[p] /\ rows[p].member = memberOf[p]
    <3>1. rows[p] = [kind |-> "period", case |-> caseOf[p],
                     member |-> memberOf[p], active |-> TRUE]
      BY <1>2, <1>5 DEF Ids
    <3>2. caseOf[p] \in Cases /\ memberOf[p] \in Members
      OBVIOUS
    <3> QED BY <3>1, <3>2 DEF PeriodRow
  <2> QED BY <2>1, <2>2, <2>3 DEF Row
<1>9. FitTable(rows)
  <2>1. \A i \in Ids : rows[i] \in Row \cup {None}
    BY <1>7, <1>8 DEF Ids
  <2>2. \A i \in Ids : Fits(i, rows[i])
    <3>1. \A m \in Members : Fits(m, rows[m])
      BY <1>8 DEF Fits
    <3>2. \A c \in Cases : Fits(c, rows[c])
      BY <1>8 DEF Fits
    <3>3. \A p \in Periods : Fits(p, rows[p])
      BY <1>8 DEF Fits
    <3>4. \A w \in Writers : Fits(w, rows[w])
      BY <1>7 DEF Fits
    <3> QED BY <3>1, <3>2, <3>3, <3>4 DEF Ids
  <2> QED BY <1>2, <2>1, <2>2 DEF FitTable
<1>10. TypeInv
  <2>1. TypeOK
    <3>1. tuples \subseteq Tuple
      BY <1>9, ProjectionType DEF Init
    <3>2. rows \in [Ids -> Row \cup {None}]
      BY <1>9 DEF FitTable
    <3>3. /\ pc = [p \in Writers \cup Replicas |-> "idle"]
          /\ call = [w \in Writers |-> None]
          /\ held = [w \in Writers |-> None]
          /\ snap = [k \in Replicas |-> [i \in Ids |-> None]]
          /\ seen = [k \in Replicas |-> {}]
          /\ plan = [k \in Replicas |-> NoDelta]
          /\ delta = [w \in Writers |-> NoDelta]
          /\ failures = 0 /\ missed = FALSE
          /\ lone = [p \in Writers \cup Replicas |-> FALSE]
      BY DEF Init
    <3>4. pc \in [Writers \cup Replicas -> Stages] /\ lone \in [Writers \cup Replicas -> BOOLEAN]
      BY <3>3 DEF Stages
    <3>5. /\ held \in [Writers -> Row \cup {None}]
          /\ DOMAIN call = Writers /\ \A w \in Writers : call[w] = None
      BY <3>3
    <3>6. /\ snap \in [Replicas -> [Ids -> Row \cup {None}]]
          /\ seen \in [Replicas -> SUBSET Kinds]
      BY <3>3
    <3>7. plan \in [Replicas -> Delta] /\ delta \in [Writers -> Delta]
      BY <3>3 DEF NoDelta, Delta
    <3>8. failures \in 0..MaxFailures
      <4>1. failures = 0
        BY <3>3
      <4> QED BY <4>1, MaxFailuresAssumption
    <3>9. missed \in BOOLEAN
      <4>1. missed = FALSE
        BY <3>3
      <4> QED BY <4>1
    <3> QED BY <3>1, <3>2, <3>4, <3>5, <3>6, <3>7, <3>8, <3>9 DEF TypeOK
  <2>2. TablesFit
    BY <1>9 DEF Init, TablesFit, FitTable, Fits
  <2>3. StagesApart /\ InHand
    BY DEF Init, StagesApart, WriterStages, SavedStages, ReplicaStages, InHand, Holds
  <2> QED BY <2>1, <2>2, <2>3 DEF TypeInv
<1>11. UniqueKeys
  <2> SUFFICES ASSUME NEW i \in Ids, NEW j \in Ids,
                      rows[i] # None, rows[j] # None, Collides(rows[i], rows[j])
               PROVE  i = j
    BY DEF UniqueKeys
  <2>1. CASE rows[i].kind = "member" /\ rows[j].kind = "member"
    <3>1. i \in Members /\ j \in Members
      BY <2>1, <1>7, <1>8 DEF Ids
    <3>2. rows[i].user = userOf[i] /\ rows[j].user = userOf[j]
      BY <1>8, <3>1
    <3>3. userOf[i] = userOf[j]
      BY <2>1, <3>2 DEF Collides
    <3> QED BY <1>1, <3>1, <3>3
  <2>2. CASE rows[i].kind = "period" /\ rows[j].kind = "period"
    <3>1. i \in Periods /\ j \in Periods
      BY <2>2, <1>7, <1>8 DEF Ids
    <3>2. /\ rows[i].case = caseOf[i] /\ rows[i].member = memberOf[i]
          /\ rows[j].case = caseOf[j] /\ rows[j].member = memberOf[j]
      BY <1>8, <3>1
    <3>3. caseOf[i] = caseOf[j] /\ memberOf[i] = memberOf[j]
      BY <2>2, <3>2 DEF Collides
    <3> QED BY <1>1, <3>1, <3>3
  <2> QED BY <2>1, <2>2 DEF Collides
<1>12. Alone /\ LoneReads /\ LoneWrites /\ LoneDeltas
  BY DEF Init, Alone, LoneReads, LoneWrites, LoneDeltas, DeltaHolds
<1> QED BY <1>10, <1>11, <1>12 DEF IInv

-----------------------------------------------------------------------------
(* Types.                                                                  *)

\* A step that leaves a write where it is, or ends it, leaves what it holds.
LEMMA HoldsStays ==
    ASSUME NEW w \in Writers, Holds(w), call'[w] = call[w], held'[w] = held[w],
           pc'[w] = pc[w] \/ pc'[w] \in {"refused", "done", "stopped"}
    PROVE  Holds(w)'
BY DEF Holds, NextRow, SavedStages

\* A process moves alone, among the stages of its own.
LEMMA MovesAlone ==
    ASSUME TypeInv, NEW p \in Writers \cup Replicas, NEW stage \in Stages, Goto(p, stage),
           p \in Writers => stage \in WriterStages,
           p \in Replicas => stage \in ReplicaStages
    PROVE  /\ pc' \in [Writers \cup Replicas -> Stages] /\ StagesApart'
           /\ pc'[p] = stage
           /\ \A q \in (Writers \cup Replicas) \ {p} : pc'[q] = pc[q]
BY DEF TypeInv, TypeOK, StagesApart, Goto

\* A step of a write that ends it, or of a reconcile, leaves what writes hold.
LEMMA HandsStay ==
    ASSUME TypeInv, NEW p \in Writers \cup Replicas,
           NEW stage \in Stages, Goto(p, stage),
           p \in Writers => stage \in {"refused", "done", "stopped"},
           UNCHANGED <<call, held>>
    PROVE  InHand'
<1> SUFFICES ASSUME NEW w \in Writers PROVE Holds(w)'
  BY DEF InHand
<1>1. pc'[w] = IF w = p THEN stage ELSE pc[w]
  BY DEF TypeInv, TypeOK, Goto
<1> QED BY <1>1, HoldsStays, IdsAssumption DEF TypeInv, InHand

\* Receive: the call is one of the write's own.
LEMMA ReceiveTypes ==
    ASSUME TypeInv, NEW w \in Writers, Receive(w)
    PROVE  TypeInv'
<1>1. PICK c \in Calls(w) :
         /\ call' = [call EXCEPT ![w] = c]
         /\ Goto(w, IF c.id = w THEN "persist" ELSE "load")
  BY DEF Receive
<1>2. /\ pc' \in [Writers \cup Replicas -> Stages] /\ StagesApart'
      /\ pc'[w] = IF c.id = w THEN "persist" ELSE "load"
      /\ \A q \in (Writers \cup Replicas) \ {w} : pc'[q] = pc[q]
  BY <1>1, MovesAlone, IdsAssumption DEF WriterStages, Stages
<1>3. /\ DOMAIN call' = Writers /\ call'[w] = c
      /\ \A v \in Writers \ {w} : call'[v] = call[v]
  BY <1>1 DEF TypeInv, TypeOK
<1>4. TypeOK' /\ TablesFit'
  <2>1. \A v \in Writers : call'[v] = None \/ call'[v] \in Calls(v)
    BY <1>3 DEF TypeInv, TypeOK
  <2>2. lone' \in [Writers \cup Replicas -> BOOLEAN]
    BY DEF Receive, Begin
  <2> QED BY <1>2, <1>3, <2>1, <2>2 DEF Receive, TypeInv, TypeOK, TablesFit
<1>5. InHand'
  <2> SUFFICES ASSUME NEW v \in Writers PROVE Holds(v)'
    BY DEF InHand
  <2>1. CASE v # w
    BY <1>2, <1>3, <2>1, HoldsStays DEF Receive, TypeInv, InHand
  <2>2. CASE v = w
    <3>1. held'[w] = None
      BY DEF Receive, TypeInv, InHand, Holds
    <3> QED BY <1>2, <1>3, <2>2, <3>1 DEF Holds, SavedStages
  <2> QED BY <2>1, <2>2
<1> QED BY <1>2, <1>4, <1>5 DEF TypeInv

\* Load: the row is of the kind the call asks for.
LEMMA LoadTypes ==
    ASSUME TypeInv, NEW w \in Writers, Load(w)
    PROVE  TypeInv'
<1> DEFINE row == rows[call[w].id]
<1>1. call[w] \in Calls(w) /\ call[w].id # w /\ call[w].id \in Ids
  BY CallFields DEF Load, TypeInv, InHand, Holds
<1>2. row \in Row \cup {None} /\ Fits(call[w].id, row)
  BY <1>1 DEF TypeInv, TablesFit, FitTable
<1>3. CASE /\ row # None
           /\ row.kind = IF call[w].row = None THEN "period" ELSE call[w].row.kind
           /\ held' = [held EXCEPT ![w] = row]
           /\ Goto(w, IF call[w].row = None THEN "guard" ELSE "persist")
  <2>1. /\ pc' \in [Writers \cup Replicas -> Stages] /\ StagesApart'
        /\ pc'[w] = IF call[w].row = None THEN "guard" ELSE "persist"
        /\ \A q \in (Writers \cup Replicas) \ {w} : pc'[q] = pc[q]
    BY <1>3, MovesAlone, IdsAssumption DEF WriterStages, Stages
  <2>2. /\ held' \in [Writers -> Row \cup {None}] /\ held'[w] = row
        /\ \A v \in Writers \ {w} : held'[v] = held[v]
    BY <1>2, <1>3 DEF TypeInv, TypeOK
  <2>3. TypeOK' /\ TablesFit'
    BY <2>1, <2>2 DEF Load, TypeInv, TypeOK, TablesFit
  <2>4. InHand'
    <3> SUFFICES ASSUME NEW v \in Writers PROVE Holds(v)'
      BY DEF InHand
    <3>1. CASE v # w
      BY <2>1, <2>2, <3>1, HoldsStays DEF Load, TypeInv, InHand
    <3>2. CASE v = w
      BY <1>1, <1>2, <1>3, <2>1, <2>2, <3>2 DEF Load, Holds, Fits
    <3> QED BY <3>1, <3>2
  <2> QED BY <2>1, <2>3, <2>4 DEF TypeInv
<1>4. CASE Goto(w, "refused") /\ UNCHANGED held
  <2>1. InHand'
    BY <1>4, HandsStay DEF Load, Stages
  <2>2. pc' \in [Writers \cup Replicas -> Stages] /\ StagesApart'
    BY <1>4, MovesAlone, IdsAssumption DEF WriterStages, Stages
  <2> QED BY <1>4, <2>1, <2>2 DEF Load, TypeInv, TypeOK, TablesFit
<1> QED BY <1>3, <1>4 DEF Load

\* CheckLead moves on to persist with the period it holds.
LEMMA CheckLeadTypes ==
    ASSUME TypeInv, NEW w \in Writers, CheckLead(w)
    PROVE  TypeInv'
<1>1. PICK stage \in {"refused", "persist"} : Goto(w, stage)
  BY DEF CheckLead
<1>2. /\ pc' \in [Writers \cup Replicas -> Stages] /\ StagesApart'
      /\ pc'[w] = stage
      /\ \A q \in (Writers \cup Replicas) \ {w} : pc'[q] = pc[q]
  BY <1>1, MovesAlone, IdsAssumption DEF WriterStages, Stages
<1>3. TypeOK' /\ TablesFit'
  BY <1>2 DEF CheckLead, TypeInv, TypeOK, TablesFit
<1>4. InHand'
  <2> SUFFICES ASSUME NEW v \in Writers PROVE Holds(v)'
    BY DEF InHand
  <2>1. Holds(v) /\ call'[v] = call[v] /\ held'[v] = held[v]
    BY DEF CheckLead, TypeInv, InHand
  <2>2. CASE v # w
    BY <1>2, <2>1, <2>2, HoldsStays
  <2>3. CASE v = w
    BY <1>2, <2>1, <2>3 DEF CheckLead, Holds
  <2> QED BY <2>2, <2>3
<1> QED BY <1>2, <1>3, <1>4 DEF TypeInv

\* What a delta starts with, and where the write goes from there.
LEMMA FirstDeltaType ==
    ASSUME TypeInv, NEW w \in Writers, pc[w] = "persist"
    PROVE  /\ FirstDelta(w) \in Delta
           /\ FirstRead(w) \in SavedStages
           /\ FirstRead(w) = "former" => held[w] # None /\ NextRow(w).kind = "case"
           /\ FirstRead(w) = "next" => NextRow(w).kind \in {"case", "period"}
<1> DEFINE row == NextRow(w)
<1>1. /\ call[w].id \in Ids /\ row \in Row /\ Fits(call[w].id, row)
      /\ held[w] \in Row \cup {None}
      /\ held[w] # None => held[w] \in Row /\ held[w].kind = row.kind
  <2>1. call[w].id = w => held[w] = None
    BY DEF TypeInv, InHand, Holds
  <2> QED BY <2>1, NextRowFits
<1>2. row # None /\ row.kind \in Kinds
  BY <1>1, RowFields
<1>3. CASE row.kind = "member"
  <2>1. RoleTuples(row) \subseteq Tuple
    BY <1>1, <1>3, RowFields DEF RoleTuples, RoleTuple, Tuple
  <2>2. RoleTuples(held[w]) \subseteq Tuple
    <3>1. CASE held[w] = None
      BY <3>1 DEF RoleTuples
    <3>2. CASE held[w] # None
      BY <1>1, <1>3, <3>2, RowFields DEF RoleTuples, RoleTuple, Tuple
    <3> QED BY <3>1, <3>2
  <2>3. FirstDelta(w) = MemberDelta(w)
    BY <1>3 DEF FirstDelta
  <2>4. FirstDelta(w) \in Delta
    BY <2>1, <2>2, <2>3 DEF MemberDelta, NoDelta, Delta
  <2> QED BY <1>3, <2>4 DEF FirstRead, SavedStages
<1>4. CASE row.kind = "case"
  <2>1. FirmTuple(call[w].id) \in Tuple
    BY <1>1, <1>2, <1>4 DEF Fits, FirmTuple, Tuple
  <2>2. FirstDelta(w) \in Delta
    BY <1>4, <2>1 DEF FirstDelta, NoDelta, Delta
  <2> QED BY <1>4, <2>2 DEF FirstRead, SavedStages
<1>5. CASE row.kind = "period"
  BY <1>5 DEF FirstDelta, NoDelta, Delta, FirstRead, SavedStages
<1> QED BY <1>2, <1>3, <1>4, <1>5 DEF Kinds

\* Persist saves a row of the kind of its id.
LEMMA PersistTypes ==
    ASSUME TypeInv, NEW w \in Writers, Persist(w)
    PROVE  TypeInv'
<1>1. CASE Goto(w, "refused") /\ UNCHANGED <<rows, delta>>
  <2>1. InHand'
    BY <1>1, HandsStay DEF Persist, Stages
  <2>2. pc' \in [Writers \cup Replicas -> Stages] /\ StagesApart'
    BY <1>1, MovesAlone, IdsAssumption DEF WriterStages, Stages
  <2> QED BY <1>1, <2>1, <2>2 DEF Persist, TypeInv, TypeOK, TablesFit
<1>2. CASE /\ rows' = [rows EXCEPT ![call[w].id] = NextRow(w)]
           /\ delta' = [delta EXCEPT ![w] = FirstDelta(w)]
           /\ Goto(w, FirstRead(w))
  <2>1. /\ call[w].id \in Ids /\ NextRow(w) \in Row /\ Fits(call[w].id, NextRow(w))
    BY NextRowFits DEF Persist
  <2>0. /\ FirstDelta(w) \in Delta /\ FirstRead(w) \in SavedStages
        /\ FirstRead(w) = "former" => held[w] # None /\ NextRow(w).kind = "case"
        /\ FirstRead(w) = "next" => NextRow(w).kind \in {"case", "period"}
    BY FirstDeltaType DEF Persist
  <2>2. /\ pc' \in [Writers \cup Replicas -> Stages] /\ StagesApart' /\ pc'[w] = FirstRead(w)
        /\ \A q \in (Writers \cup Replicas) \ {w} : pc'[q] = pc[q]
    BY <1>2, <2>0, MovesAlone, IdsAssumption DEF WriterStages, SavedStages, Stages
  <2>3. TypeOK'
    <3>1. delta' \in [Writers -> Delta]
      BY <1>2, <2>0 DEF TypeInv, TypeOK
    <3> QED BY <1>2, <2>1, <2>2, <3>1 DEF Persist, TypeInv, TypeOK
  <2>4. TablesFit'
    <3>1. FitTable(rows')
      BY <1>2, <2>1 DEF TypeInv, TablesFit, FitTable
    <3> QED BY <3>1 DEF Persist, TypeInv, TablesFit
  <2>5. InHand'
    <3> SUFFICES ASSUME NEW v \in Writers PROVE Holds(v)'
      BY DEF InHand
    <3>1. Holds(v) /\ call'[v] = call[v] /\ held'[v] = held[v]
      BY DEF Persist, TypeInv, InHand
    <3>2. CASE v # w
      BY <2>2, <3>1, <3>2, HoldsStays
    <3>3. CASE v = w
      <4>1. NextRow(w)' = NextRow(w)
        BY <3>1, <3>3 DEF NextRow
      <4> QED BY <2>0, <2>2, <3>1, <3>3, <4>1 DEF Persist, Holds, SavedStages
    <3> QED BY <3>2, <3>3
  <2> QED BY <2>2, <2>3, <2>4, <2>5 DEF TypeInv
<1> QED BY <1>1, <1>2 DEF Persist

\* The reads of persons leave a delta of tuples.
LEMMA ResolveTypes ==
    ASSUME TypeInv, NEW w \in Writers, ResolveFormer(w) \/ ResolveNext(w)
    PROVE  TypeInv'
<1> DEFINE id == call[w].id
           row == NextRow(w)
<1>1. /\ id \in Ids /\ row \in Row /\ Fits(id, row) /\ Fits(id, held[w])
      /\ held[w] \in Row \cup {None}
      /\ id # w => held[w].kind = row.kind
  BY NextRowFits DEF ResolveFormer, ResolveNext, SavedStages
<1>2. FitTable(rows) /\ delta[w] \in Delta
  BY DEF TypeInv, TypeOK, TablesFit
<1>3. /\ UNCHANGED <<rows, tuples, call, held, snap, seen, plan, failures, missed, lone>>
      /\ pc'[w] \in {"next", "sync"}
      /\ pc'[w] = "next" => held[w] # None /\ row.kind = "case"
      /\ pc[w] \in {"former", "next"} /\ Goto(w, pc'[w])
  BY DEF ResolveFormer, ResolveNext, Goto, TypeInv, TypeOK, InHand, Holds
<1>4. delta' \in [Writers -> Delta]
  <2>1. CASE ResolveFormer(w)
    <3>1. held[w] # None /\ row.kind = "case"
      BY <2>1 DEF ResolveFormer, TypeInv, InHand, Holds
    <3>2. held[w].kind = "case" /\ held[w] \in Row
      <4>1. id = w => held[w] = None
        BY <1>3 DEF TypeInv, InHand, Holds, SavedStages
      <4> QED BY <1>1, <3>1, <4>1
    <3>3. held[w].lead \in Members /\ id \in Cases \cup Writers
      BY <1>1, <3>1, <3>2, RowFields DEF Fits
    <3>4. PersonTuple(rows, held[w].lead, "lead", id) \subseteq Tuple
      BY <1>2, <3>3, PersonTupleType
    <3>5. [delta[w] EXCEPT !.deletes = PersonTuple(rows, held[w].lead, "lead", id)] \in Delta
      BY <1>2, <3>4 DEF Delta
    <3> QED BY <2>1, <3>5 DEF ResolveFormer, TypeInv, TypeOK
  <2>2. CASE ResolveNext(w)
    <3> DEFINE added == IF row.kind = "case"
                        THEN PersonTuple(rows, row.lead, "lead", id)
                        ELSE PersonTuple(rows, row.member, "member", row.case)
    <3>1. row.kind \in {"case", "period"}
      BY <2>2 DEF ResolveNext, TypeInv, InHand, Holds
    <3>2. added \subseteq Tuple
      <4>1. CASE row.kind = "case"
        <5>1. row.lead \in Members /\ id \in Cases \cup Writers
          BY <1>1, <4>1, RowFields DEF Fits
        <5> QED BY <1>2, <4>1, <5>1, PersonTupleType
      <4>2. CASE row.kind = "period"
        <5>1. row.member \in Members /\ row.case \in Cases \cup Writers
          BY <1>1, <4>2, RowFields
        <5> QED BY <1>2, <4>2, <5>1, PersonTupleType
      <4> QED BY <3>1, <4>1, <4>2
    <3>3. delta' = IF row.kind = "period" /\ ~ row.active
                   THEN [delta EXCEPT ![w].deletes = added]
                   ELSE [delta EXCEPT ![w].writes = @ \cup added]
      BY <2>2 DEF ResolveNext
    <3> HIDE DEF added
    <3>4. /\ [delta[w] EXCEPT !.deletes = added] \in Delta
          /\ [delta[w] EXCEPT !.writes = @ \cup added] \in Delta
      BY <1>2, <3>2 DEF Delta
    <3> QED BY <3>3, <3>4 DEF TypeInv, TypeOK
  <2> QED BY <2>1, <2>2
<1>5. /\ pc' \in [Writers \cup Replicas -> Stages] /\ StagesApart'
      /\ \A q \in (Writers \cup Replicas) \ {w} : pc'[q] = pc[q]
  BY <1>3, MovesAlone, IdsAssumption DEF WriterStages, Stages
<1>6. TypeOK' /\ TablesFit'
  BY <1>3, <1>4, <1>5 DEF TypeInv, TypeOK, TablesFit
<1>7. InHand'
  <2> SUFFICES ASSUME NEW v \in Writers PROVE Holds(v)'
    BY DEF InHand
  <2>1. Holds(v) /\ call'[v] = call[v] /\ held'[v] = held[v]
    BY <1>3 DEF TypeInv, InHand
  <2>2. CASE v # w
    BY <1>5, <2>1, <2>2, HoldsStays
  <2>3. CASE v = w
    <3>1. NextRow(w)' = NextRow(w)
      BY <2>1, <2>3 DEF NextRow
    <3> QED BY <1>3, <2>1, <2>3, <3>1 DEF Holds, SavedStages
  <2> QED BY <2>2, <2>3
<1> QED BY <1>5, <1>6, <1>7 DEF TypeInv

\* The steps that end a write: refused, synced, failed or stopped.
LEMMA EndTypes ==
    ASSUME TypeInv, NEW w \in Writers, Refuse(w) \/ Sync(w) \/ SyncFails(w) \/ Stop(w)
    PROVE  TypeInv'
<1>1. PICK stage \in {"refused", "done", "stopped"} : Goto(w, stage)
  BY DEF Refuse, Sync, SyncFails, Stop
<1>0. delta' = delta \/ delta' = [delta EXCEPT ![w] = NoDelta]
  BY DEF Refuse, Sync, SyncFails, Stop
<1>8. delta' \in [Writers -> Delta] /\ delta[w] \in Delta
  <2>1. NoDelta \in Delta
    BY DEF NoDelta, Delta
  <2> QED BY <1>0, <2>1 DEF TypeInv, TypeOK
<1>2. pc' \in [Writers \cup Replicas -> Stages] /\ StagesApart'
  BY <1>1, MovesAlone, IdsAssumption DEF WriterStages, Stages
<1>3. UNCHANGED <<rows, call, held, snap, seen, plan, lone>>
  BY DEF Refuse, Sync, SyncFails, Stop
<1>4. InHand'
  BY <1>1, <1>3, HandsStay, IdsAssumption DEF Stages
<1>5. tuples' \subseteq Tuple
  <2>1. delta[w].writes \subseteq Tuple /\ tuples \subseteq Tuple
    BY <1>8 DEF Delta, TypeInv, TypeOK
  <2>2. CASE Apply(delta[w]) \/ ApplyPart(delta[w])
    BY <2>1, <2>2, ApplyTypes
  <2>3. CASE UNCHANGED tuples
    BY <2>1, <2>3
  <2> QED BY <2>2, <2>3 DEF Refuse, Sync, SyncFails, Stop
<1>6. failures' \in 0..MaxFailures
  BY MaxFailuresAssumption DEF Refuse, Sync, SyncFails, Stop, TypeInv, TypeOK
<1>7. missed' \in BOOLEAN
  <2>1. missed \in BOOLEAN
    BY DEF TypeInv, TypeOK
  <2> QED BY <2>1 DEF Refuse, Sync, SyncFails, Stop, Owes
<1> QED BY <1>2, <1>3, <1>4, <1>5, <1>6, <1>7, <1>8 DEF TypeInv, TypeOK, TablesFit

\* The steps of a reconcile.
LEMMA ReconcileTypes ==
    ASSUME TypeInv, NEW k \in Replicas, ReplicaStep(k) \/ ReconcileFails(k)
    PROVE  TypeInv'
<1>1. PICK stage \in ReplicaStages : Goto(k, stage)
  BY DEF ReplicaStep, ReconcileFails, Tick, ReadKind, ReadEngine, WriteDifference, ReplicaStages
<1>2. pc' \in [Writers \cup Replicas -> Stages] /\ StagesApart'
  BY <1>1, MovesAlone, IdsAssumption DEF ReplicaStages, Stages
<1>3. UNCHANGED <<rows, call, held, delta, missed>>
  BY DEF ReplicaStep, ReconcileFails, Tick, ReadKind, ReadEngine, WriteDifference
<1>4. InHand'
  BY <1>1, <1>3, HandsStay, IdsAssumption DEF Stages, ReplicaStages
<1>5. /\ snap' \in [Replicas -> [Ids -> Row \cup {None}]]
      /\ \A r \in Replicas : FitTable(snap'[r])
  <2>1. CASE Tick(k) \/ ReadEngine(k)
    <3>1. snap' = [snap EXCEPT ![k] = [i \in Ids |-> None]]
      BY <2>1 DEF Tick, ReadEngine
    <3>2. FitTable([i \in Ids |-> None])
      BY DEF FitTable, Fits
    <3> QED BY <3>1, <3>2 DEF TypeInv, TypeOK, TablesFit
  <2>2. ASSUME NEW kind \in Kinds, ReadKind(k, kind)
        PROVE  /\ snap' \in [Replicas -> [Ids -> Row \cup {None}]]
               /\ \A r \in Replicas : FitTable(snap'[r])
    <3> DEFINE read == [i \in Ids |-> IF rows[i] # None /\ rows[i].kind = kind
                                      THEN rows[i] ELSE snap[k][i]]
    <3>1. snap' = [snap EXCEPT ![k] = read]
      BY <2>2 DEF ReadKind
    <3>2. FitTable(read)
      BY DEF TypeInv, TablesFit, FitTable
    <3>3. read \in [Ids -> Row \cup {None}]
      BY <3>2 DEF FitTable
    <3> HIDE DEF read
    <3> QED BY <3>1, <3>2, <3>3 DEF TypeInv, TypeOK, TablesFit
  <2>3. CASE WriteDifference(k) \/ ReconcileFails(k)
    BY <2>3 DEF WriteDifference, ReconcileFails, TypeInv, TypeOK, TablesFit
  <2> QED BY <2>1, <2>2, <2>3 DEF ReplicaStep
<1>6. seen' \in [Replicas -> SUBSET Kinds]
  BY DEF ReplicaStep, ReconcileFails, Tick, ReadKind, ReadEngine, WriteDifference,
         TypeInv, TypeOK
<1>7. plan' \in [Replicas -> Delta]
  <2>1. CASE ReadEngine(k)
    <3>1. plan' = [plan EXCEPT ![k] = Difference(Projection(snap[k]), tuples)]
      BY <2>1 DEF ReadEngine
    <3>2. Projection(snap[k]) \subseteq Tuple /\ tuples \subseteq Tuple
      BY ProjectionType DEF TypeInv, TypeOK, TablesFit
    <3>3. Difference(Projection(snap[k]), tuples) \in Delta
      BY <3>2 DEF Difference, Delta
    <3> QED BY <3>1, <3>3 DEF TypeInv, TypeOK
  <2>2. CASE UNCHANGED plan
    BY <2>2 DEF TypeInv, TypeOK
  <2>3. CASE plan' = [plan EXCEPT ![k] = NoDelta]
    <3>1. NoDelta \in Delta
      BY DEF NoDelta, Delta
    <3> QED BY <2>3, <3>1 DEF TypeInv, TypeOK
  <2> QED BY <2>1, <2>2, <2>3
          DEF ReplicaStep, ReconcileFails, Tick, ReadKind, WriteDifference
<1>8. tuples' \subseteq Tuple
  <2>1. tuples \subseteq Tuple /\ plan[k].writes \subseteq Tuple
    BY DEF TypeInv, TypeOK, Delta
  <2>2. CASE Apply(plan[k]) \/ ApplyPart(plan[k])
    BY <2>1, <2>2, ApplyTypes
  <2>3. CASE UNCHANGED tuples
    BY <2>1, <2>3
  <2> QED BY <2>2, <2>3
          DEF ReplicaStep, ReconcileFails, Tick, ReadKind, ReadEngine, WriteDifference
<1>9. failures' \in 0..MaxFailures
  BY MaxFailuresAssumption DEF ReplicaStep, ReconcileFails, Tick, ReadKind, ReadEngine,
                               WriteDifference, TypeInv, TypeOK
<1>10. lone' \in [Writers \cup Replicas -> BOOLEAN]
  <2>1. CASE Begin(k)
    BY <2>1 DEF Begin
  <2>2. CASE UNCHANGED lone
    BY <2>2 DEF TypeInv, TypeOK
  <2> QED BY <2>1, <2>2
          DEF ReplicaStep, ReconcileFails, Tick, ReadKind, ReadEngine, WriteDifference
<1>11. TablesFit'
  BY <1>3, <1>5 DEF TypeInv, TablesFit
<1>12. TypeOK'
  BY <1>2, <1>3, <1>5, <1>6, <1>7, <1>8, <1>9, <1>10 DEF TypeInv, TypeOK
<1> QED BY <1>2, <1>4, <1>11, <1>12 DEF TypeInv

\* Every step keeps the types.
LEMMA TypesKept == TypeInv /\ [Next]_vars => TypeInv'
<1> SUFFICES ASSUME TypeInv, [Next]_vars PROVE TypeInv'
  OBVIOUS
<1>1. ASSUME NEW w \in Writers, Receive(w) \/ WriterStep(w) \/ SyncFails(w) \/ Stop(w)
      PROVE  TypeInv'
  BY <1>1, ReceiveTypes, LoadTypes, CheckLeadTypes, PersistTypes, ResolveTypes, EndTypes
     DEF WriterStep
<1>2. ASSUME NEW k \in Replicas, ReplicaStep(k) \/ ReconcileFails(k)
      PROVE  TypeInv'
  BY <1>2, ReconcileTypes
<1>3. CASE UNCHANGED vars
  BY <1>3 DEF vars, TypeInv, TypeOK, TablesFit, FitTable, Fits, StagesApart, InHand, Holds,
              Calls, NextRow
<1> QED BY <1>1, <1>2, <1>3 DEF Next

-----------------------------------------------------------------------------
(* Keys, and who runs undisturbed.                                         *)

\* Rows collide with each other.
LEMMA CollidesBoth ==
    ASSUME NEW row, NEW other, Collides(row, other)
    PROVE  Collides(other, row)
BY DEF Collides

\* The natural keys stay unique: a write whose key another row has persists
\* nothing.
LEMMA UniqueKeysKept == TypeInv /\ UniqueKeys /\ [Next]_vars => UniqueKeys'
<1> SUFFICES ASSUME TypeInv, UniqueKeys, [Next]_vars PROVE UniqueKeys'
  OBVIOUS
<1>1. ASSUME NEW w \in Writers, Persist(w), ~ KeyTaken(NextRow(w), call[w].id),
             rows' = [rows EXCEPT ![call[w].id] = NextRow(w)]
      PROVE  UniqueKeys'
  <2> DEFINE id == call[w].id
  <2>1. id \in Ids /\ rows'[id] = NextRow(w) /\ \A j \in Ids \ {id} : rows'[j] = rows[j]
    BY <1>1, NextRowFits DEF Persist, TypeInv, TypeOK
  <2>2. \A j \in Ids \ {id} : rows[j] # None => ~ Collides(NextRow(w), rows[j])
    BY <1>1 DEF KeyTaken
  <2> SUFFICES ASSUME NEW i \in Ids, NEW j \in Ids, i # j,
                      rows'[i] # None, rows'[j] # None
               PROVE  ~ Collides(rows'[i], rows'[j])
    BY DEF UniqueKeys, Collides
  <2> HIDE DEF id
  <2> QED BY <2>1, <2>2, CollidesBoth DEF UniqueKeys
<1>2. CASE UNCHANGED rows
  BY <1>2 DEF UniqueKeys, Collides
<1> QED BY <1>1, <1>2
        DEF Next, vars, Receive, WriterStep, Load, CheckLead, Refuse, Persist, ResolveFormer,
       ResolveNext, Sync,
            SyncFails, Stop, ReplicaStep, Tick, ReadKind, ReadEngine, WriteDifference,
            ReconcileFails

\* One process takes the step: it begins, or is under way already.
Moves(p) ==
    /\ \E stage \in Stages : Goto(p, stage)
    /\ Begin(p) \/ (Busy(p) /\ UNCHANGED lone)

\* Every step of the specification is one process's.
LEMMA WriterMoves ==
    ASSUME NEW w \in Writers, Receive(w) \/ WriterStep(w) \/ SyncFails(w) \/ Stop(w)
    PROVE  Moves(w)
BY DEF Receive, WriterStep, Load, CheckLead, Refuse, Persist, ResolveFormer,
       ResolveNext, Sync, SyncFails, Stop,
       FirstRead, Owes, Moves, Busy, Stages

LEMMA ReplicaMoves ==
    ASSUME NEW k \in Replicas, ReplicaStep(k) \/ ReconcileFails(k)
    PROVE  Moves(k)
BY DEF ReplicaStep, Tick, ReadKind, ReadEngine, WriteDifference, ReconcileFails,
       Moves, Busy, Stages

\* Who is undisturbed after another's step is not under way.
LEMMA OthersRest ==
    ASSUME TypeInv, Alone, NEW p \in Writers \cup Replicas, Moves(p),
           NEW q \in (Writers \cup Replicas) \ {p}, lone'[q]
    PROVE  pc'[q] = pc[q] /\ ~ Busy(q)
<1>1. lone[q] /\ Busy(p)
  BY DEF Moves, Begin
<1>2. pc'[q] = pc[q]
  BY DEF Moves, Goto, TypeInv, TypeOK
<1> QED BY <1>1, <1>2 DEF Alone

\* Nobody begins beside an undisturbed process without disturbing it.
LEMMA AloneKept == TypeInv /\ Alone /\ [Next]_vars => Alone'
<1> SUFFICES ASSUME TypeInv, Alone, [Next]_vars PROVE Alone'
  OBVIOUS
<1>1. ASSUME NEW p \in Writers \cup Replicas, Moves(p) PROVE Alone'
  <2> SUFFICES ASSUME NEW q \in Writers \cup Replicas, NEW o \in Writers \cup Replicas,
                      lone'[q], Busy(q)', Busy(o)'
               PROVE  q = o
    BY DEF Alone
  <2>1. q = p
    BY <1>1, OthersRest DEF Busy
  <2>2. \A r \in (Writers \cup Replicas) \ {p} : pc'[r] = pc[r]
    BY <1>1 DEF Moves, Goto, TypeInv, TypeOK
  <2>3. CASE Begin(p)
    BY <2>1, <2>2, <2>3 DEF Begin, Busy
  <2>4. CASE Busy(p) /\ UNCHANGED lone
    BY <2>1, <2>2, <2>4 DEF Alone, Busy
  <2> QED BY <1>1, <2>3, <2>4 DEF Moves
<1>2. CASE UNCHANGED vars
  BY <1>2 DEF vars, Alone, Busy
<1> QED BY <1>1, <1>2, WriterMoves, ReplicaMoves DEF Next

-----------------------------------------------------------------------------
(* What an undisturbed process has read still holds.                       *)

\* What the reconcile has read of the tables is what they hold.
RowsAreAsRead(k) ==
    /\ pc[k] = "read" =>
          snap[k] = [i \in Ids |-> IF rows[i] # None /\ rows[i].kind \in seen[k]
                                  THEN rows[i] ELSE None]
    /\ pc[k] = "engine" => snap[k] = rows

\* The clauses of LoneReads and LoneWrites, of one process.
ReadsHold(k) ==
    lone[k] =>
      /\ RowsAreAsRead(k)
      /\ pc[k] = "apply" => plan[k] = Difference(Projection(rows), tuples)

WriteHolds(w) ==
    lone[w] /\ pc[w] \in {"guard", "persist"} \cup SavedStages =>
      /\ pc[w] \in SavedStages => rows[call[w].id] = NextRow(w)
      /\ call[w].id # w =>
            /\ pc[w] \notin SavedStages => rows[call[w].id] = held[w]
            /\ \A j \in Ids \ {call[w].id} :
                  rows[j] # None => ~ Collides(held[w], rows[j])

\* A list gives the rows of its kind as they are.
LEMMA ReadKindHolds ==
    ASSUME TypeInv, NEW k \in Replicas, RowsAreAsRead(k), NEW kind \in Kinds,
           ReadKind(k, kind)
    PROVE  RowsAreAsRead(k)' /\ pc'[k] # "apply" /\ UNCHANGED lone
<1>0. UNCHANGED <<rows, lone>>
  BY DEF ReadKind
<1> DEFINE read == [i \in Ids |-> IF rows[i] # None /\ rows[i].kind \in seen'[k]
                                 THEN rows[i] ELSE None]
<1> SUFFICES /\ pc'[k] \in {"read", "engine"}
             /\ snap'[k] = read
             /\ pc'[k] = "engine" => snap'[k] = rows
  BY <1>0 DEF RowsAreAsRead
<1>1. snap[k] = [i \in Ids |-> IF rows[i] # None /\ rows[i].kind \in seen[k]
                               THEN rows[i] ELSE None]
  BY DEF RowsAreAsRead, ReadKind
<1>2. /\ snap'[k] = [i \in Ids |-> IF rows[i] # None /\ rows[i].kind = kind
                                  THEN rows[i] ELSE snap[k][i]]
      /\ seen'[k] = seen[k] \cup {kind}
      /\ pc'[k] = IF seen'[k] = Kinds THEN "engine" ELSE "read"
  BY DEF ReadKind, Goto, TypeInv, TypeOK
<1>3. snap'[k] = [i \in Ids |-> IF rows[i] # None /\ rows[i].kind \in seen'[k]
                                THEN rows[i] ELSE None]
  BY <1>1, <1>2
<1>4. ASSUME seen'[k] = Kinds PROVE snap'[k] = rows
  <2>1. \A i \in Ids : rows[i] # None => rows[i].kind \in Kinds
    BY RowFields DEF TypeInv, TypeOK
  <2>2. rows = [i \in Ids |-> rows[i]]
    BY DEF TypeInv, TypeOK
  <2> QED BY <1>3, <1>4, <2>1, <2>2
<1> QED BY <1>2, <1>3, <1>4

\* What an undisturbed reconcile has read stays what is there.
LEMMA LoneReadsKept == IInv /\ [Next]_vars => LoneReads'
<1> SUFFICES ASSUME IInv, [Next]_vars, NEW k \in Replicas, lone'[k]
             PROVE  ReadsHold(k)'
  BY DEF LoneReads, ReadsHold, RowsAreAsRead
<1> USE DEF IInv
<1>1. ASSUME NEW p \in Writers \cup Replicas, p # k, Moves(p)
      PROVE  ReadsHold(k)'
  <2>1. pc'[k] = pc[k] /\ ~ Busy(k)
    BY <1>1, OthersRest
  <2> QED BY <2>1 DEF ReadsHold, RowsAreAsRead, Busy
<1>2. ReadsHold(k)
  BY DEF LoneReads, ReadsHold, RowsAreAsRead
<1>3. CASE Tick(k)
  <2>1. /\ pc'[k] = "read" /\ seen'[k] = {} /\ rows' = rows
        /\ snap'[k] = [i \in Ids |-> None]
    BY <1>3 DEF Tick, Goto, TypeInv, TypeOK
  <2> QED BY <2>1 DEF ReadsHold, RowsAreAsRead
<1>4. ASSUME NEW kind \in Kinds, ReadKind(k, kind) PROVE ReadsHold(k)'
  <2>1. CASE lone[k]
    BY <1>2, <1>4, <2>1, ReadKindHolds DEF ReadsHold
  <2>2. CASE ~ lone[k]
    BY <1>4, <2>2 DEF ReadKind, ReadsHold
  <2> QED BY <2>1, <2>2
<1>5. CASE ReadEngine(k)
  <2>1. /\ pc'[k] = "apply" /\ plan'[k] = Difference(Projection(snap[k]), tuples)
        /\ lone[k] /\ pc[k] = "engine" /\ UNCHANGED <<rows, tuples>>
    BY <1>5 DEF ReadEngine, Goto, TypeInv, TypeOK
  <2>2. snap[k] = rows
    BY <1>2, <2>1 DEF ReadsHold, RowsAreAsRead
  <2> QED BY <2>1, <2>2 DEF ReadsHold, RowsAreAsRead
<1>6. CASE WriteDifference(k) \/ ReconcileFails(k)
  <2>1. pc'[k] = "idle"
    BY <1>6 DEF WriteDifference, ReconcileFails, Goto, TypeInv, TypeOK
  <2> QED BY <2>1 DEF ReadsHold, RowsAreAsRead
<1>7. CASE UNCHANGED vars
  BY <1>2, <1>7 DEF vars, ReadsHold, RowsAreAsRead
<1> QED BY <1>1, <1>3, <1>4, <1>5, <1>6, <1>7, WriterMoves, ReplicaMoves, IdsAssumption
        DEF Next, ReplicaStep

\* The row an undisturbed write has loaded stays the one it replaces.
LEMMA LoneWritesKept == IInv /\ [Next]_vars => LoneWrites'
<1> SUFFICES ASSUME IInv, [Next]_vars, NEW w \in Writers, lone'[w]
             PROVE  WriteHolds(w)'
  BY DEF LoneWrites, WriteHolds
<1> USE DEF IInv
<1>1. ASSUME NEW p \in Writers \cup Replicas, p # w, Moves(p)
      PROVE  WriteHolds(w)'
  <2>1. pc'[w] = pc[w] /\ ~ Busy(w)
    BY <1>1, OthersRest
  <2> QED BY <2>1 DEF WriteHolds, Busy, SavedStages
<1>2. WriteHolds(w) /\ Holds(w)
  BY DEF LoneWrites, WriteHolds, TypeInv, InHand
<1>3. CASE Receive(w)
  <2>1. PICK c \in Calls(w) :
           /\ call' = [call EXCEPT ![w] = c]
           /\ Goto(w, IF c.id = w THEN "persist" ELSE "load")
    BY <1>3 DEF Receive
  <2>2. call'[w] = c /\ pc'[w] = IF c.id = w THEN "persist" ELSE "load"
    BY <2>1 DEF Goto, TypeInv, TypeOK
  <2> QED BY <2>2 DEF WriteHolds, SavedStages
<1>4. CASE Load(w)
  <2>1. CASE Goto(w, "refused")
    BY <2>1 DEF Goto, WriteHolds, SavedStages, TypeInv, TypeOK
  <2>2. CASE /\ rows[call[w].id] # None /\ held' = [held EXCEPT ![w] = rows[call[w].id]]
             /\ \E stage \in {"guard", "persist"} : Goto(w, stage)
    <3>1. held'[w] = rows[call[w].id] /\ pc'[w] \in {"guard", "persist"}
      BY <2>2 DEF Goto, TypeInv, TypeOK
    <3>2. call[w].id \in Ids
      BY <1>2, <1>4, CallFields DEF Load, Holds
    <3>3. \A j \in Ids \ {call[w].id} :
             rows[j] # None => ~ Collides(rows[call[w].id], rows[j])
      BY <2>2, <3>2 DEF UniqueKeys
    <3> QED BY <1>4, <3>1, <3>3 DEF Load, WriteHolds, Collides, SavedStages
  <2> QED BY <1>4, <2>1, <2>2 DEF Load
<1>5. CASE CheckLead(w)
  <2>1. pc'[w] \in {"refused", "persist"}
    BY <1>5 DEF CheckLead, Goto, TypeInv, TypeOK
  <2>2. lone[w] /\ pc[w] = "guard" /\ UNCHANGED <<rows, call, held>>
    BY <1>5 DEF CheckLead
  <2> QED BY <1>2, <2>1, <2>2 DEF WriteHolds, Collides, SavedStages
<1>6. CASE Persist(w)
  <2>1. CASE Goto(w, "refused")
    BY <2>1 DEF Goto, WriteHolds, SavedStages, TypeInv, TypeOK
  <2>2. CASE rows' = [rows EXCEPT ![call[w].id] = NextRow(w)]
    <3>1. call[w].id \in Ids
      BY <1>6, NextRowFits DEF Persist
    <3>2. /\ rows'[call[w].id] = NextRow(w)
          /\ \A j \in Ids \ {call[w].id} : rows'[j] = rows[j]
      BY <2>2, <3>1 DEF TypeInv, TypeOK
    <3>3. pc[w] = "persist" /\ lone[w] /\ UNCHANGED <<call, held>>
      BY <1>6 DEF Persist
    <3>4. NextRow(w)' = NextRow(w)
      BY <3>3 DEF NextRow
    <3>5. call[w].id # w =>
             \A j \in Ids \ {call[w].id} : rows[j] # None => ~ Collides(held[w], rows[j])
      BY <1>2, <3>3 DEF WriteHolds
    <3>6. pc'[w] \in {"refused"} \cup SavedStages
      BY <1>6, FirstDeltaType DEF Persist, Goto, TypeInv, TypeOK
    <3> QED BY <3>2, <3>3, <3>4, <3>5, <3>6 DEF WriteHolds, Collides, SavedStages
  <2> QED BY <1>6, <2>1, <2>2 DEF Persist
<1>7. CASE Refuse(w) \/ Sync(w) \/ SyncFails(w) \/ Stop(w)
  <2>1. pc'[w] \in {"refused", "done", "stopped"}
    BY <1>7 DEF Refuse, Sync, SyncFails, Stop, Goto, TypeInv, TypeOK
  <2> QED BY <2>1 DEF WriteHolds, SavedStages
<1>9. CASE ResolveFormer(w) \/ ResolveNext(w)
  <2>1. /\ pc[w] \in SavedStages /\ pc'[w] \in SavedStages
        /\ UNCHANGED <<rows, call, held, lone>>
    BY <1>9 DEF ResolveFormer, ResolveNext, Goto, SavedStages, TypeInv, TypeOK
  <2> QED BY <1>2, <2>1 DEF WriteHolds, Collides, NextRow
<1>8. CASE UNCHANGED vars
  BY <1>2, <1>8 DEF vars, WriteHolds, NextRow, Collides
<1> QED BY <1>1, <1>3, <1>4, <1>5, <1>6, <1>7, <1>8, <1>9, WriterMoves, ReplicaMoves, IdsAssumption
        DEF Next, WriterStep

\* Everyone a lead or a member refers to resolves to himself: no two leads
\* share a tuple.
LEMMA LeadsApart ==
    ASSUME FitTable(rows), UniqueKeys, NEW m \in Members, NEW n \in Members, m # n, NEW c
    PROVE  PersonTuple(rows, m, "lead", c) \cap PersonTuple(rows, n, "lead", c) = {}
<1> SUFFICES ASSUME NEW t \in PersonTuple(rows, m, "lead", c),
                    t \in PersonTuple(rows, n, "lead", c)
             PROVE  FALSE
  OBVIOUS
<1>1. /\ rows[m] # None /\ rows[n] # None
      /\ t.user = rows[m].user /\ t.user = rows[n].user
  BY DEF PersonTuple
<1>2. rows[m].kind = "member" /\ rows[n].kind = "member" /\ m \in Ids /\ n \in Ids
  BY <1>1, MembersAreMembers DEF Ids
<1> QED BY <1>1, <1>2 DEF UniqueKeys, Collides

\* The start of a delta: with nobody left to read it is whole.
LEMMA FirstDeltaHolds ==
    ASSUME IInv, NEW w \in Writers, pc[w] = "persist", NEW table,
           NEW d, d = FirstDelta(w), NEW stage, stage = FirstRead(w)
    PROVE  /\ stage = "former" => held[w].lead # NextRow(w).lead /\ d = NoDelta
           /\ stage = "next" /\ NextRow(w).kind = "case" =>
                 /\ held[w] = None
                 /\ d = [writes |-> {FirmTuple(call[w].id)}, deletes |-> {}]
           /\ stage = "next" /\ NextRow(w).kind = "period" =>
                 d = NoDelta /\ NextRow(w).active # WasActive(w)
           /\ stage = "sync" =>
                 Exact(d, RowTuples(table, call[w].id, held[w]),
                          RowTuples(table, call[w].id, NextRow(w)))
<1> DEFINE row == NextRow(w)
           id == call[w].id
           before == RowTuples(table, id, held[w])
           after == RowTuples(table, id, row)
<1>1. /\ row \in Row /\ held[w] \in Row \cup {None}
      /\ held[w] # None => held[w] \in Row /\ held[w].kind = row.kind
  <2>1. call[w].id = w => held[w] = None
    BY DEF IInv, TypeInv, InHand, Holds
  <2> QED BY <2>1, NextRowFits DEF IInv
<1>2. row # None /\ row.kind \in Kinds
  BY <1>1, RowFields
<1>3. CASE row.kind = "member"
  <2>1. stage = "sync" /\ d = MemberDelta(w)
    BY <1>3 DEF FirstRead, FirstDelta
  <2>2. before = RoleTuples(held[w]) /\ after = RoleTuples(row)
    BY <1>1, <1>2, <1>3 DEF RowTuples, RoleTuples
  <2>3. \A p, q : RoleTuples(p) # RoleTuples(q) => RoleTuples(p) \cap RoleTuples(q) = {}
    BY DEF RoleTuples
  <2>4. Exact(d, RoleTuples(held[w]), RoleTuples(row))
    <3>1. CASE RoleTuples(held[w]) = RoleTuples(row)
      BY <2>1, <3>1 DEF MemberDelta, NoDelta, Exact
    <3>2. CASE RoleTuples(held[w]) # RoleTuples(row)
      <4>1. d = [writes |-> RoleTuples(row), deletes |-> RoleTuples(held[w])]
        BY <2>1, <3>2 DEF MemberDelta
      <4>2. RoleTuples(held[w]) \cap RoleTuples(row) = {}
        BY <2>3, <3>2
      <4> QED BY <4>1, <4>2 DEF Exact
    <3> QED BY <3>1, <3>2
  <2> QED BY <2>1, <2>2, <2>4, <1>3
<1>4. CASE row.kind = "case"
  <2>1. CASE held[w] = None
    BY <1>4, <2>1 DEF FirstRead, FirstDelta
  <2>2. CASE held[w] # None /\ held[w].lead # row.lead
    BY <1>4, <2>2 DEF FirstRead, FirstDelta
  <2>3. CASE held[w] # None /\ held[w].lead = row.lead
    <3>1. stage = "sync" /\ d = NoDelta
      BY <1>4, <2>3 DEF FirstRead, FirstDelta
    <3>2. before = after
      BY <1>1, <1>2, <1>4, <2>3 DEF RowTuples
    <3> QED BY <3>1, <3>2 DEF Exact, NoDelta
  <2> QED BY <2>1, <2>2, <2>3
<1>5. CASE row.kind = "period"
  <2>1. d = NoDelta
    BY <1>5 DEF FirstDelta
  <2>2. CASE row.active # WasActive(w)
    BY <1>5, <2>1, <2>2 DEF FirstRead
  <2>3. CASE row.active = WasActive(w)
    <3>1. stage = "sync"
      BY <1>5, <2>3 DEF FirstRead
    <3>2. ~ row.active /\ (held[w] # None => ~ held[w].active)
      <4>1. CASE call[w].id = w
        <5>1. held[w] = None
          BY <4>1 DEF IInv, TypeInv, InHand, Holds
        <5> QED BY <2>3, <5>1 DEF WasActive
      <4>2. CASE call[w].id # w
        <5>1. call[w].row = None
          <6>1. call[w] \in Calls(w)
            BY DEF IInv, TypeInv, InHand, Holds
          <6>2. call[w].row # None => call[w].row \in MemberRow \cup CaseRow
            BY <4>2, <6>1, CallFields
          <6>3. \A r \in MemberRow \cup CaseRow : r.kind # "period"
            BY DEF MemberRow, CaseRow
          <6> QED BY <1>5, <6>2, <6>3 DEF NextRow
        <5>2. held[w] \in PeriodRow
          BY <4>2, <1>5, NextRowFits, RowFields DEF IInv
        <5>3. ~ row.active
          BY <5>1, <5>2 DEF NextRow, PeriodRow
        <5> QED BY <2>3, <5>2, <5>3, RowFields, IdsAssumption DEF WasActive, Row
      <4> QED BY <4>1, <4>2
    <3>3. before = {} /\ after = {}
      BY <1>1, <1>2, <1>5, <3>2 DEF RowTuples
    <3> QED BY <2>1, <3>1, <3>3 DEF Exact, NoDelta
  <2> QED BY <2>2, <2>3, <1>5
<1> QED BY <1>2, <1>3, <1>4, <1>5 DEF Kinds

\* The last read completes the delta: the link and the lead of a new case, one
\* lead for the other, the tuple of the period that opened or closed.
LEMMA ResolvedIsExact ==
    ASSUME IInv, NEW w \in Writers, lone[w], ResolveNext(w)
    PROVE  Exact(delta'[w], RowTuples(rows, call[w].id, held[w]),
                            RowTuples(rows, call[w].id, NextRow(w)))
<1> DEFINE row == NextRow(w)
           id == call[w].id
           before == RowTuples(rows, id, held[w])
           after == RowTuples(rows, id, row)
           lead(m) == PersonTuple(rows, m, "lead", id)
<1>1. /\ row \in Row /\ row # None /\ held[w] \in Row \cup {None}
      /\ held[w] # None => held[w] \in Row /\ held[w].kind = row.kind
  <2>1. call[w].id = w => held[w] = None
    BY DEF IInv, TypeInv, InHand, Holds, SavedStages, ResolveNext
  <2> QED BY <2>1, NextRowFits, RowFields DEF IInv, ResolveNext, SavedStages
<1>2. /\ DeltaHolds(w) /\ pc[w] = "next" /\ row.kind \in {"case", "period"}
      /\ delta \in [Writers -> Delta] /\ FitTable(rows)
  BY DEF IInv, LoneDeltas, TypeInv, TypeOK, TablesFit, InHand, Holds, ResolveNext
<1>3. CASE row.kind = "case"
  <2>1. after = {FirmTuple(id)} \cup lead(row.lead) /\ row.lead \in Members
    BY <1>1, <1>3, RowFields DEF RowTuples
  <2>2. delta'[w] = [delta[w] EXCEPT !.writes = @ \cup lead(row.lead)]
    BY <1>2, <1>3 DEF ResolveNext
  <2>3. CASE held[w] = None
    <3>1. delta[w] = [writes |-> {FirmTuple(id)}, deletes |-> {}]
      BY <1>2, <1>3, <2>3 DEF DeltaHolds
    <3>2. before = {}
      BY <2>3 DEF RowTuples
    <3>3. delta'[w] = [writes |-> {FirmTuple(id)} \cup lead(row.lead), deletes |-> {}]
      BY <2>2, <3>1
    <3> QED BY <2>1, <3>2, <3>3 DEF Exact
  <2>4. CASE held[w] # None
    <3>1. /\ held[w].lead # row.lead
          /\ delta[w] = [writes |-> {}, deletes |-> lead(held[w].lead)]
      BY <1>2, <1>3, <2>4 DEF DeltaHolds
    <3>2. before = {FirmTuple(id)} \cup lead(held[w].lead) /\ held[w].lead \in Members
      BY <1>1, <1>3, <2>4, RowFields DEF RowTuples
    <3>3. delta'[w] = [writes |-> lead(row.lead), deletes |-> lead(held[w].lead)]
      BY <2>2, <3>1
    <3>4. lead(row.lead) \cap lead(held[w].lead) = {}
      BY <1>2, <2>1, <3>1, <3>2, LeadsApart DEF IInv
    <3>5. FirmTuple(id) \notin lead(held[w].lead)
      BY DEF FirmTuple, PersonTuple
    <3> HIDE DEF lead
    <3> QED BY <2>1, <3>2, <3>3, <3>4, <3>5 DEF Exact
  <2> QED BY <2>3, <2>4
<1>4. CASE row.kind = "period"
  <2> DEFINE tuple == PersonTuple(rows, row.member, "member", row.case)
  <2>1. delta[w] = NoDelta /\ row.active # WasActive(w) /\ row.active \in BOOLEAN
    BY <1>1, <1>2, <1>4, RowFields DEF DeltaHolds
  <2>2. after = IF row.active THEN tuple ELSE {}
    BY <1>1, <1>4 DEF RowTuples
  <2>3. delta'[w] = IF ~ row.active THEN [delta[w] EXCEPT !.deletes = tuple]
                                    ELSE [delta[w] EXCEPT !.writes = @ \cup tuple]
    BY <1>2, <1>4 DEF ResolveNext
  <2>4. CASE row.active
    <3>1. before = {}
      BY <1>1, <1>4, <2>1, <2>4 DEF RowTuples, WasActive
    <3>2. delta'[w] = [writes |-> tuple, deletes |-> {}]
      BY <2>1, <2>3, <2>4 DEF NoDelta
    <3> HIDE DEF tuple
    <3> QED BY <2>2, <2>4, <3>1, <3>2 DEF Exact
  <2>5. CASE ~ row.active
    <3>1. held[w] # None /\ held[w].active
      BY <2>1, <2>5 DEF WasActive
    <3>2. call[w].row = None
      <4>1. call[w] \in Calls(w) /\ call[w].id # w
        BY <1>2, <3>1 DEF IInv, TypeInv, InHand, Holds, SavedStages
      <4>2. call[w].row # None => call[w].row \in MemberRow \cup CaseRow
        BY <4>1, CallFields
      <4>3. \A r \in MemberRow \cup CaseRow : r.kind # "period"
        BY DEF MemberRow, CaseRow
      <4> QED BY <1>4, <4>2, <4>3 DEF NextRow
    <3>3. held[w] \in PeriodRow
      BY <1>1, <1>4, <3>1, RowFields
    <3>4. row.member = held[w].member /\ row.case = held[w].case
      BY <3>2, <3>3 DEF NextRow, PeriodRow
    <3>5. before = tuple
      BY <1>1, <1>4, <3>1, <3>4 DEF RowTuples
    <3>6. delta'[w] = [writes |-> {}, deletes |-> tuple]
      BY <2>1, <2>3, <2>5 DEF NoDelta
    <3> HIDE DEF tuple
    <3> QED BY <2>2, <2>5, <3>5, <3>6 DEF Exact
  <2> QED BY <2>1, <2>4, <2>5
<1> QED BY <1>2, <1>3, <1>4

\* The delta of a write that nobody disturbs comes together as the rows stand.
LEMMA LoneDeltasKept == IInv /\ [Next]_vars => LoneDeltas'
<1> SUFFICES ASSUME IInv, [Next]_vars, NEW w \in Writers, lone'[w]
             PROVE  DeltaHolds(w)'
  BY DEF LoneDeltas, DeltaHolds
<1>1. ASSUME NEW p \in Writers \cup Replicas, p # w, Moves(p)
      PROVE  DeltaHolds(w)'
  <2>1. pc'[w] = pc[w] /\ ~ Busy(w)
    BY <1>1, OthersRest DEF IInv
  <2> QED BY <2>1 DEF DeltaHolds, Busy
<1>2. DeltaHolds(w)
  BY DEF IInv, LoneDeltas
<1>3. ASSUME \/ Receive(w) \/ Load(w) \/ CheckLead(w) \/ Refuse(w)
             \/ Sync(w) \/ SyncFails(w) \/ Stop(w)
      PROVE  DeltaHolds(w)'
  <2>1. pc'[w] \notin SavedStages
    BY <1>3 DEF IInv, TypeInv, TypeOK, Goto, SavedStages, Receive, Load, CheckLead, Refuse,
                Sync, SyncFails, Stop
  <2> QED BY <2>1 DEF DeltaHolds, SavedStages
<1>4. CASE Persist(w)
  <2>1. CASE Goto(w, "refused")
    BY <2>1 DEF IInv, TypeInv, TypeOK, Goto, DeltaHolds
  <2>2. CASE delta' = [delta EXCEPT ![w] = FirstDelta(w)] /\ Goto(w, FirstRead(w))
    <3>1. delta'[w] = FirstDelta(w) /\ pc'[w] = FirstRead(w) /\ pc[w] = "persist"
      BY <1>4, <2>2 DEF IInv, TypeInv, TypeOK, Goto, Persist
    <3>2. UNCHANGED <<call, held>> /\ NextRow(w)' = NextRow(w)
      BY <1>4 DEF Persist, NextRow
    <3> QED BY <3>1, <3>2, FirstDeltaHolds DEF DeltaHolds, WasActive
  <2> QED BY <1>4, <2>1, <2>2 DEF Persist
<1>5. CASE ResolveFormer(w)
  <2>1. /\ pc[w] = "former" /\ pc'[w] = "next" /\ UNCHANGED <<rows, call, held, lone>>
        /\ delta'[w] = [delta[w] EXCEPT !.deletes =
                            PersonTuple(rows, held[w].lead, "lead", call[w].id)]
    BY <1>5 DEF ResolveFormer, Goto, IInv, TypeInv, TypeOK
  <2>2. /\ held[w] # None /\ NextRow(w).kind = "case" /\ NextRow(w)' = NextRow(w)
        /\ held[w].lead # NextRow(w).lead /\ delta[w] = NoDelta
    BY <1>2, <2>1 DEF IInv, TypeInv, InHand, Holds, DeltaHolds, NextRow
  <2>3. delta'[w] = [writes |-> {},
                     deletes |-> PersonTuple(rows, held[w].lead, "lead", call[w].id)]
    <3> DEFINE gone == PersonTuple(rows, held[w].lead, "lead", call[w].id)
    <3>1. delta'[w] = [NoDelta EXCEPT !.deletes = gone]
      BY <2>1, <2>2
    <3> HIDE DEF gone
    <3>2. [NoDelta EXCEPT !.deletes = gone] = [writes |-> {}, deletes |-> gone]
      BY DEF NoDelta
    <3>3. delta'[w] = [writes |-> {}, deletes |-> gone]
      BY <3>1, <3>2
    <3> QED BY <3>3 DEF gone
  <2> QED BY <2>1, <2>2, <2>3 DEF DeltaHolds
<1>6. CASE ResolveNext(w)
  <2>1. pc'[w] = "sync" /\ UNCHANGED <<rows, call, held, lone>> /\ NextRow(w)' = NextRow(w)
    BY <1>6 DEF ResolveNext, Goto, IInv, TypeInv, TypeOK, NextRow
  <2> QED BY <1>6, <2>1, ResolvedIsExact DEF DeltaHolds
<1>7. CASE UNCHANGED vars
  <2>1. UNCHANGED <<rows, pc, call, held, delta, lone>>
    BY <1>7 DEF vars
  <2>2. NextRow(w)' = NextRow(w) /\ WasActive(w)' = WasActive(w)
    BY <2>1 DEF NextRow, WasActive
  <2> QED BY <1>2, <2>1, <2>2 DEF DeltaHolds
<1> QED BY <1>1, <1>3, <1>4, <1>5, <1>6, <1>7, WriterMoves, ReplicaMoves, IdsAssumption
        DEF Next, WriterStep

\* The inductive invariant.
LEMMA Invariance == Spec => []IInv
<1>1. Init => IInv
  BY Initially
<1>2. IInv /\ [Next]_vars => IInv'
  BY TypesKept, UniqueKeysKept, AloneKept, LoneReadsKept, LoneWritesKept, LoneDeltasKept
     DEF IInv
<1> QED BY <1>1, <1>2, PTL DEF Spec

\* Every variable has its type: in particular what the engine holds are tuples
\* of the relation model, whatever part of a failed write it settled.
THEOREM TypeCorrect == Spec => []TypeOK
<1>1. IInv => TypeOK
  BY DEF IInv, TypeInv
<1> QED BY <1>1, Invariance, PTL

\* The steps of a behaviour from the invariant.
LEMMA Steps == Spec => [][IInv /\ Next]_vars
<1>1. IInv /\ [Next]_vars => [IInv /\ Next]_vars
  OBVIOUS
<1> QED BY <1>1, Invariance, PTL DEF Spec

\* A reconcile that nobody disturbed leaves the engine equal to the projection
\* of the rows, whatever drift it found, for any number of processes.
THEOREM ReconcileIsComplete == Spec => ReconcileHeals
<1>1. [IInv /\ Next]_vars => [\A k \in Replicas : lone[k] /\ WriteDifference(k) => InStep']_vars
  <2> SUFFICES ASSUME IInv, NEW k \in Replicas, lone[k], WriteDifference(k)
               PROVE  InStep'
    BY DEF vars
  <2> DEFINE desired == Projection(rows)
  <2>1. plan[k] = Difference(desired, tuples)
    BY DEF IInv, LoneReads, WriteDifference
  <2>2. tuples' = (tuples \cup (desired \ tuples)) \ (tuples \ desired)
    BY <2>1 DEF WriteDifference, Apply, Difference
  <2>3. tuples' = desired
    <3> HIDE DEF desired
    <3> QED BY <2>2
  <2> QED BY <2>3 DEF InStep, WriteDifference
<1> QED BY <1>1, Steps, PTL DEF ReconcileHeals

-----------------------------------------------------------------------------
(* Reconciles that overlap each other once the writes have stopped.        *)

\* Writing the difference d to an engine that holds `from` gives `desired`,
\* and d takes nothing away that is desired.
Completes(d, from, desired) ==
    /\ d.writes \subseteq desired /\ d.deletes \cap desired = {}
    /\ (from \cup d.writes) \ d.deletes = desired

\* The writes have stopped, and every reconcile under way began since.
Current ==
    /\ \A w \in Writers : pc[w] \in {"refused", "done", "stopped"}
    /\ \A k \in Replicas :
          /\ RowsAreAsRead(k)
          /\ pc[k] = "apply" => Completes(plan[k], tuples, Projection(rows))

\* Any part of a completing difference leaves the others completing, and an
\* engine in step in step.
LEMMA PartsComplete ==
    ASSUME NEW desired, NEW from, NEW d, NEW e,
           Completes(d, from, desired), Completes(e, from, desired),
           NEW writes \in SUBSET d.writes, NEW deletes \in SUBSET d.deletes
    PROVE  /\ Completes(e, (from \cup writes) \ deletes, desired)
           /\ from = desired => (from \cup writes) \ deletes = desired
BY DEF Completes

\* The difference from what the engine holds completes.
LEMMA DifferenceCompletes ==
    ASSUME NEW desired, NEW from
    PROVE  Completes(Difference(desired, from), from, desired)
BY DEF Completes, Difference

\* What one step does once the writes have stopped.
ConvergingStep ==
    Current => /\ Current'
               /\ InStep => InStep'
               /\ \A k \in Replicas : WriteDifference(k) => InStep'

\* A step of a reconcile leaves the others current.
LEMMA OthersStayCurrent ==
    ASSUME TypeInv, Current, NEW k \in Replicas, ReplicaStep(k) \/ ReconcileFails(k),
           \A j \in Replicas : Completes(plan[j], tuples, Projection(rows))
                                => Completes(plan[j], tuples', Projection(rows))
    PROVE  /\ \A w \in Writers : pc'[w] \in {"refused", "done", "stopped"}
           /\ \A j \in Replicas \ {k} :
                 /\ RowsAreAsRead(j)'
                 /\ pc'[j] = "apply" => Completes(plan'[j], tuples', Projection(rows'))
<1>1. Moves(k)
  BY ReplicaMoves
<1>2. \A p \in (Writers \cup Replicas) \ {k} : pc'[p] = pc[p]
  BY <1>1 DEF Moves, Goto, TypeInv, TypeOK
<1>3. /\ UNCHANGED rows
      /\ \A j \in Replicas \ {k} : snap'[j] = snap[j] /\ seen'[j] = seen[j] /\ plan'[j] = plan[j]
  BY DEF ReplicaStep, ReconcileFails, Tick, ReadKind, ReadEngine, WriteDifference,
         TypeInv, TypeOK
<1>4. \A w \in Writers : pc'[w] \in {"refused", "done", "stopped"}
  BY <1>2, IdsAssumption DEF Current
<1>5. ASSUME NEW j \in Replicas \ {k}
      PROVE  /\ RowsAreAsRead(j)'
             /\ pc'[j] = "apply" => Completes(plan'[j], tuples', Projection(rows'))
  <2>1. pc'[j] = pc[j]
    BY <1>2
  <2>2. RowsAreAsRead(j)'
    BY <1>3, <2>1 DEF Current, RowsAreAsRead
  <2> QED BY <1>3, <2>1, <2>2 DEF Current
<1> QED BY <1>4, <1>5

\* A reconcile that reads stays current; one that ends has nothing in hand.
LEMMA ReconcilesConverge ==
    ASSUME TypeInv, Current, NEW k \in Replicas, ReplicaStep(k) \/ ReconcileFails(k)
    PROVE  ConvergingStep
<1> DEFINE desired == Projection(rows)
           Others == \A j \in Replicas : Completes(plan[j], tuples, desired)
                                        => Completes(plan[j], tuples', desired)
           Mine == /\ RowsAreAsRead(k)'
                   /\ pc'[k] = "apply" => Completes(plan'[k], tuples', Projection(rows'))
           Reaches == /\ InStep => InStep'
                      /\ \A j \in Replicas : WriteDifference(j) => InStep'
<1>1. SUFFICES Others /\ Mine /\ Reaches
  <2>1. ASSUME Others, Mine, Reaches PROVE ConvergingStep
    <3>1. /\ \A w \in Writers : pc'[w] \in {"refused", "done", "stopped"}
          /\ \A j \in Replicas \ {k} :
                /\ RowsAreAsRead(j)'
                /\ pc'[j] = "apply" => Completes(plan'[j], tuples', Projection(rows'))
      BY <2>1, OthersStayCurrent
    <3>2. Current'
      BY <2>1, <3>1 DEF Current
    <3> QED BY <2>1, <3>2 DEF ConvergingStep
  <2> QED BY <2>1
<1>2. RowsAreAsRead(k) /\ (pc[k] = "apply" => Completes(plan[k], tuples, desired))
  BY DEF Current
<1>3. ASSUME UNCHANGED <<rows, tuples>>, pc[k] # "apply" PROVE Others /\ Reaches
  <2>1. \A j \in Replicas : ~ WriteDifference(j)
    <3> SUFFICES ASSUME NEW j \in Replicas, WriteDifference(j) PROVE FALSE
      OBVIOUS
    <3>1. j # k
      BY <1>3 DEF WriteDifference
    <3>2. pc[j] = "apply" /\ pc'[j] = "idle"
      BY DEF WriteDifference, Goto, TypeInv, TypeOK
    <3>3. pc'[j] = pc[j]
      BY <3>1, ReplicaMoves DEF Moves, Goto, TypeInv, TypeOK
    <3> QED BY <3>2, <3>3
  <2> QED BY <1>3, <2>1 DEF InStep
<1>4. CASE Tick(k)
  <2>1. /\ pc'[k] = "read" /\ seen'[k] = {} /\ UNCHANGED <<rows, tuples>>
        /\ snap'[k] = [i \in Ids |-> None] /\ pc[k] = "idle"
    BY <1>4 DEF Tick, Goto, TypeInv, TypeOK
  <2>2. Mine
    BY <2>1 DEF RowsAreAsRead
  <2> QED BY <1>3, <2>1, <2>2
<1>5. ASSUME NEW kind \in Kinds, ReadKind(k, kind) PROVE Others /\ Mine /\ Reaches
  <2>1. Mine
    BY <1>2, <1>5, ReadKindHolds
  <2> QED BY <1>3, <1>5, <2>1 DEF ReadKind
<1>6. CASE ReadEngine(k)
  <2>1. /\ pc'[k] = "apply" /\ plan'[k] = Difference(Projection(snap[k]), tuples)
        /\ pc[k] = "engine" /\ UNCHANGED <<rows, tuples>>
    BY <1>6 DEF ReadEngine, Goto, TypeInv, TypeOK
  <2>2. plan'[k] = Difference(desired, tuples)
    BY <1>2, <2>1 DEF RowsAreAsRead
  <2>3. Mine
    BY <2>1, <2>2, DifferenceCompletes DEF RowsAreAsRead
  <2> QED BY <1>3, <2>1, <2>3
<1>7. CASE WriteDifference(k)
  <2>1. /\ pc[k] = "apply" /\ pc'[k] = "idle" /\ UNCHANGED rows
        /\ tuples' = (tuples \cup plan[k].writes) \ plan[k].deletes
    BY <1>7 DEF WriteDifference, Apply, Goto, TypeInv, TypeOK
  <2>2. tuples' = desired
    BY <1>2, <2>1 DEF Completes
  <2>3. Mine
    BY <2>1 DEF RowsAreAsRead
  <2>4. Others
    BY <2>2 DEF Completes
  <2> QED BY <2>1, <2>2, <2>3, <2>4 DEF InStep
<1>8. CASE ReconcileFails(k) /\ pc[k] = "apply"
  <2>1. /\ pc'[k] = "idle" /\ UNCHANGED rows
    BY <1>8 DEF ReconcileFails, Goto, TypeInv, TypeOK
  <2>2. PICK writes \in SUBSET plan[k].writes, deletes \in SUBSET plan[k].deletes :
           tuples' = (tuples \cup writes) \ deletes
    BY <1>8 DEF ReconcileFails, ApplyPart
  <2>3. Mine
    BY <2>1 DEF RowsAreAsRead
  <2>4. Others /\ (tuples = desired => tuples' = desired)
    BY <1>2, <1>8, <2>2, PartsComplete
  <2>5. \A j \in Replicas : ~ WriteDifference(j)
    <3> SUFFICES ASSUME NEW j \in Replicas, WriteDifference(j) PROVE FALSE
      OBVIOUS
    <3>1. UNCHANGED failures /\ failures' = failures + 1 /\ failures \in Nat
      BY <1>8 DEF WriteDifference, ReconcileFails, TypeInv, TypeOK
    <3> QED BY <3>1
  <2> QED BY <2>1, <2>3, <2>4, <2>5 DEF InStep
<1>9. CASE ReconcileFails(k) /\ pc[k] # "apply"
  <2>1. /\ pc'[k] = "idle" /\ UNCHANGED <<rows, tuples>>
    BY <1>9 DEF ReconcileFails, Goto, TypeInv, TypeOK
  <2>2. Mine
    BY <2>1 DEF RowsAreAsRead
  <2> QED BY <1>3, <1>9, <2>1, <2>2
<1> QED BY <1>4, <1>5, <1>6, <1>7, <1>8, <1>9 DEF ReplicaStep

\* The safety half of EngineConverges: once the writes have stopped and every
\* reconcile under way began since, any one of them that completes puts the
\* engine in step, however they overlap and fail, and nothing takes it out of
\* step again.
THEOREM ReconcilesConvergeTogether == Spec => [][ConvergingStep]_vars
<1>1. [IInv /\ Next]_vars => [ConvergingStep]_vars
  <2> SUFFICES ASSUME IInv, Next, Current PROVE ConvergingStep
    BY DEF ConvergingStep
  <2>1. ASSUME NEW w \in Writers, Receive(w) \/ WriterStep(w) \/ SyncFails(w) \/ Stop(w)
        PROVE  FALSE
    BY <2>1 DEF Current, Receive, WriterStep, Load, CheckLead, Refuse, Persist, ResolveFormer,
       ResolveNext, Sync,
                SyncFails, Stop, Busy, Owes
  <2>2. ASSUME NEW k \in Replicas, ReplicaStep(k) \/ ReconcileFails(k)
        PROVE  ConvergingStep
    BY <2>2, ReconcilesConverge DEF IInv
  <2> QED BY <2>1, <2>2 DEF Next
<1> QED BY <1>1, Steps, PTL

-----------------------------------------------------------------------------
(* The incremental path against the full projection.                       *)

\* The table as it was before write w saved its row.
Before(w) == [rows EXCEPT ![call[w].id] = held[w]]

\* A write that keeps its member's user resolves every person as before.
LEMMA PersonsStay ==
    ASSUME TypeInv, NEW w \in Writers, pc[w] = "sync",
           rows[call[w].id] = NextRow(w), ~ MovesUser(w),
           NEW m \in Members, NEW relation, NEW c
    PROVE  PersonTuple(Before(w), m, relation, c) = PersonTuple(rows, m, relation, c)
<1> USE DEF SavedStages
<1> DEFINE id == call[w].id
<1>1. id \in Ids /\ m \in Ids /\ Before(w)[m] = IF m = id THEN held[w] ELSE rows[m]
  BY NextRowFits DEF Before, Ids, TypeInv, TypeOK
<1>2. CASE m = id
  <2>1. m # w
    BY IdsAssumption
  <2>2. /\ held[w] \in Row /\ held[w] # None /\ NextRow(w) \in Row /\ NextRow(w) # None
        /\ held[w].kind = NextRow(w).kind /\ Fits(m, NextRow(w))
    BY <1>2, <2>1, NextRowFits, IdsAssumption
  <2>3. held[w].kind = "member"
    BY <2>2, RowFields, IdsAssumption DEF Fits, Kinds
  <2>4. held[w].user = NextRow(w).user
    BY <2>2, <2>3 DEF MovesUser
  <2> QED BY <1>1, <1>2, <2>2, <2>4 DEF PersonTuple
<1>3. CASE m # id
  BY <1>1, <1>3 DEF PersonTuple
<1> QED BY <1>2, <1>3

\* So every row projects the same tuples in both tables.
LEMMA RowTuplesStay ==
    ASSUME TypeInv, NEW w \in Writers, pc[w] = "sync",
           rows[call[w].id] = NextRow(w), ~ MovesUser(w),
           NEW i \in Ids, NEW row \in Row \cup {None}
    PROVE  RowTuples(Before(w), i, row) = RowTuples(rows, i, row)
<1>1. CASE row = None
  BY <1>1 DEF RowTuples
<1>2. CASE row # None /\ row.kind = "member"
  BY <1>2 DEF RowTuples
<1>3. CASE row # None /\ row.kind = "case"
  <2>1. row.lead \in Members
    BY <1>3, RowFields
  <2>2. PersonTuple(Before(w), row.lead, "lead", i) = PersonTuple(rows, row.lead, "lead", i)
    BY <2>1, PersonsStay
  <2> QED BY <1>3, <2>2 DEF RowTuples
<1>4. CASE row # None /\ row.kind = "period"
  <2>1. row.member \in Members
    BY <1>4, RowFields
  <2>2. PersonTuple(Before(w), row.member, "member", row.case)
          = PersonTuple(rows, row.member, "member", row.case)
    BY <2>1, PersonsStay
  <2> QED BY <1>4, <2>2 DEF RowTuples
<1> QED BY <1>1, <1>2, <1>3, <1>4, RowFields DEF Kinds

\* What a tuple says of the row that projects it.
LEMMA TupleOfRow ==
    ASSUME FitTable(rows), NEW i \in Ids, NEW row \in Row, Fits(i, row),
           NEW t \in RowTuples(rows, i, row)
    PROVE  \/ row.kind = "member" /\ t.object = "firm" /\ t.user = row.user
           \/ row.kind = "case" /\ t.object = i /\ t.relation \in {"firm", "lead"}
           \/ /\ row.kind = "period" /\ row.active /\ row.member \in Members
              /\ rows[row.member] # None
              /\ t = [user |-> rows[row.member].user, relation |-> "member",
                      object |-> row.case]
<1>1. CASE row.kind = "member"
  <2>1. t = RoleTuple(row)
    BY <1>1, RowFields DEF RowTuples, RoleTuples
  <2> QED BY <1>1, <2>1 DEF RoleTuple
<1>2. CASE row.kind = "case"
  <2>1. t = FirmTuple(i) \/ t \in PersonTuple(rows, row.lead, "lead", i)
    BY <1>2, RowFields DEF RowTuples
  <2> QED BY <1>2, <2>1 DEF FirmTuple, PersonTuple
<1>3. CASE row.kind = "period"
  <2>1. row.active /\ t \in PersonTuple(rows, row.member, "member", row.case)
    BY <1>3, RowFields DEF RowTuples
  <2> QED BY <1>3, <2>1, RowFields DEF PersonTuple
<1> QED BY <1>1, <1>2, <1>3, RowFields DEF Kinds

\* No two rows project the same tuple unless they collide.
LEMMA TuplesOfTheirOwn ==
    ASSUME FitTable(rows), UniqueKeys,
           NEW i \in Ids, NEW j \in Ids, i # j,
           NEW row \in Row, Fits(i, row), NEW other \in Row, Fits(j, other),
           NEW t \in RowTuples(rows, i, row), t \in RowTuples(rows, j, other)
    PROVE  Collides(row, other)
<1>1. \/ row.kind = "member" /\ t.object = "firm" /\ t.user = row.user
      \/ row.kind = "case" /\ t.object = i /\ t.relation \in {"firm", "lead"}
      \/ /\ row.kind = "period" /\ row.active /\ row.member \in Members
         /\ rows[row.member] # None
         /\ t = [user |-> rows[row.member].user, relation |-> "member", object |-> row.case]
  BY TupleOfRow
<1>2. \/ other.kind = "member" /\ t.object = "firm" /\ t.user = other.user
      \/ other.kind = "case" /\ t.object = j /\ t.relation \in {"firm", "lead"}
      \/ /\ other.kind = "period" /\ other.active /\ other.member \in Members
         /\ rows[other.member] # None
         /\ t = [user |-> rows[other.member].user, relation |-> "member",
                 object |-> other.case]
  BY TupleOfRow
<1>3. CASE row.kind = "member"
  <2>1. t.object = "firm" /\ t.user = row.user
    BY <1>1, <1>3
  <2>2. other.kind # "case"
    BY <1>2, <2>1, IdsAssumption DEF Fits
  <2>3. other.kind # "period"
    BY <1>2, <2>1, RowFields, IdsAssumption
  <2> QED BY <1>2, <1>3, <2>1, <2>2, <2>3 DEF Collides
<1>4. CASE row.kind = "case"
  <2>1. t.object = i /\ t.relation # "member" /\ i # "firm"
    BY <1>1, <1>4, IdsAssumption DEF Fits
  <2> QED BY <1>2, <2>1
<1>5. CASE row.kind = "period"
  <2>1. /\ row.active /\ row.member \in Members /\ rows[row.member] # None
        /\ t = [user |-> rows[row.member].user, relation |-> "member", object |-> row.case]
    BY <1>1, <1>5
  <2>2. t.object \in Cases /\ t.relation = "member"
    BY <1>5, <2>1, RowFields
  <2>3. /\ other.kind = "period" /\ other.active /\ other.member \in Members
        /\ rows[other.member] # None
        /\ t = [user |-> rows[other.member].user, relation |-> "member", object |-> other.case]
    BY <1>2, <2>2, IdsAssumption
  <2>4. /\ row.case = other.case
        /\ rows[row.member].user = rows[other.member].user
    BY <2>1, <2>3
  <2>5. row.member = other.member
    <3>1. /\ rows[row.member].kind = "member" /\ rows[other.member].kind = "member"
          /\ row.member \in Ids /\ other.member \in Ids
      BY <2>1, <2>3, MembersAreMembers DEF Ids
    <3> QED BY <2>1, <2>3, <2>4, <3>1 DEF UniqueKeys, Collides
  <2> QED BY <1>5, <2>1, <2>3, <2>4, <2>5 DEF Collides
<1> QED BY <1>3, <1>4, <1>5, RowFields DEF Kinds

\* The delta of one row takes the projection of the old table to that of the
\* new one: what it deletes, no other row projects.
LEMMA DeltaIsExact ==
    ASSUME IInv, NEW w \in Writers, lone[w], pc[w] = "sync", ~ MovesUser(w),
           tuples = Projection(Before(w)), Apply(delta[w])
    PROVE  tuples' = Projection(rows)
<1> DEFINE id == call[w].id
           before == RowTuples(rows, id, held[w])
           after == RowTuples(rows, id, NextRow(w))
           others == UNION {RowTuples(rows, i, rows[i]) : i \in Ids \ {id}}
<1>1. /\ id \in Ids /\ rows[id] = NextRow(w) /\ NextRow(w) \in Row
      /\ held[w] \in Row \cup {None} /\ Fits(id, held[w])
  BY NextRowFits DEF IInv, LoneWrites, SavedStages
<1>2. FitTable(rows) /\ rows \in [Ids -> Row \cup {None}]
  BY DEF IInv, TypeInv, TypeOK, TablesFit
<1>3. Projection(rows) = others \cup after
  BY <1>1 DEF Projection
<1>4. Projection(Before(w)) = others \cup before
  <2>1. \A i \in Ids : Before(w)[i] = IF i = id THEN held[w] ELSE rows[i]
    BY <1>1, <1>2 DEF Before
  <2>2. \A i \in Ids : RowTuples(Before(w), i, Before(w)[i])
                        = IF i = id THEN before ELSE RowTuples(rows, i, rows[i])
    <3>1. \A i \in Ids : Before(w)[i] \in Row \cup {None}
      BY <1>1, <1>2, <2>1
    <3>2. \A i \in Ids : RowTuples(Before(w), i, Before(w)[i]) = RowTuples(rows, i, Before(w)[i])
      BY <1>1, <3>1, RowTuplesStay DEF IInv
    <3> QED BY <2>1, <3>2
  <2> HIDE DEF before
  <2> QED BY <1>1, <2>2 DEF Projection
<1>5. ASSUME NEW t \in before, t \in others PROVE FALSE
  <2>1. PICK j \in Ids \ {id} : t \in RowTuples(rows, j, rows[j])
    BY <1>5
  <2>2. held[w] # None /\ rows[j] # None
    BY <1>5, <2>1 DEF RowTuples
  <2>3. rows[j] \in Row /\ Fits(j, rows[j]) /\ held[w] \in Row
    BY <1>1, <1>2, <2>2 DEF FitTable
  <2>4. Collides(held[w], rows[j])
    BY <1>1, <1>2, <1>5, <2>1, <2>3, TuplesOfTheirOwn DEF IInv
  <2>5. id # w
    BY <2>2 DEF IInv, TypeInv, InHand, Holds, SavedStages
  <2> QED BY <2>1, <2>2, <2>4, <2>5 DEF IInv, LoneWrites, SavedStages
<1>6. tuples' = (tuples \cup delta[w].writes) \ delta[w].deletes
  BY DEF Apply
<1>7. delta[w].deletes \subseteq before /\ (before \cup delta[w].writes) \ delta[w].deletes = after
  BY DEF IInv, LoneDeltas, DeltaHolds, Exact
<1> HIDE DEF before, after, others
<1> QED BY <1>3, <1>4, <1>5, <1>6, <1>7

\* A write that finds the engine in step, runs alone and keeps its member's
\* user leaves it in step: the delta it puts together, read by read, is what a
\* reconcile would write.
THEOREM SyncAgreesWithReconcile == Spec => SyncKeepsInStep
<1>1. [IInv /\ Next]_vars
      => [\A w \in Writers :
             Sync(w) /\ FindsInStep(w) /\ ~ MovesUser(w) => InStep']_vars
  <2> SUFFICES ASSUME IInv, NEW w \in Writers, Sync(w), FindsInStep(w), ~ MovesUser(w)
               PROVE  InStep'
    BY DEF vars
  <2>1. tuples' = Projection(rows)
    BY DeltaIsExact DEF Sync, FindsInStep, Before
  <2> QED BY <2>1 DEF InStep, Sync
<1> QED BY <1>1, Steps, PTL DEF SyncKeepsInStep
=============================================================================
