----------------------- MODULE EventSubscribers_proofs -----------------------
(***************************************************************************)
(* Proofs about EventSubscribers, for any finite set of requests and any   *)
(* members: type correctness, that assignments are told and that changes   *)
(* have their line of history, but for a write of the same version, and    *)
(* that the history of a record nobody raced on replays to the record.     *)
(***************************************************************************)
EXTENDS EventSubscribers, FiniteSetTheorems, TLAPS

\* What a request has at each stage.
StagesInOrder == \A r \in Requests :
    /\ pc[r] = "idle" => call[r] = None
    /\ pc[r] # "idle" => call[r] \in Calls
    /\ pc[r] \in {"idle", "load"} => held[r] = None
    /\ pc[r] \in {"idle", "load", "save", "refused"} => r \notin saved
    /\ pc[r] \in {"lookup", "notify", "audit", "done"} => r \in saved
    /\ pc[r] = "load" => call[r].op # "create"
    /\ pc[r] = "save" \/ r \in saved => (call[r].op = "create" <=> held[r] = None)
    /\ pc[r] \in {"lookup", "notify"} => kind = "Task" /\ NamesNewPerson(r)
    /\ pc[r] = "audit" => kind = "Deadline"
    /\ r \in saved => NextRow(r) \in Record

\* Versions are counted by the saves.
VersionsCount ==
    /\ row # None => row.version <= Cardinality(saved)
    /\ \A r \in Requests : held[r] # None => held[r].version <= Cardinality(saved)

\* Who has never been inactive is active.
BenchedFits == Members \ active \subseteq benched

\* A notice and a line are those of a write that has their key.
NoticesFit == \A k \in NoticeKey :
    notices[k] # None => notices[k] \in saved /\ KeyOf(notices[k]) = k

LinesFit == \A v \in 1..Cardinality(Requests) :
    lines[v] # None => \E q \in saved : NextRow(q).version = v /\ lines[v] = LineOf(q)

\* Whoever is done has told whom it had to tell, and written its line.
DoneTold == \A r \in Requests :
    /\ pc[r] = "done" /\ r \notin lost /\ kind = "Task" /\ NamesNewPerson(r)
    /\ NextRow(r).person \notin benched \cup {call[r].actor}
    => notices[KeyOf(r)] # None

DoneWritten == \A r \in Requests :
    /\ pc[r] = "done" /\ r \notin lost /\ kind = "Deadline" /\ HistoryWorthy(r)
    => lines[NextRow(r).version] # None

IInv == /\ TypeOK /\ StagesInOrder /\ VersionsCount /\ BenchedFits
        /\ NoticesFit /\ LinesFit /\ DoneTold /\ DoneWritten

-----------------------------------------------------------------------------
LEMMA NoneApart ==
  /\ None \notin Requests /\ None \notin Members /\ None \notin Record /\ None \notin Line
BY ConstantsAssumption

\* There are at least as many versions as writes.
LEMMA Counting ==
  ASSUME NEW S \in SUBSET Requests
  PROVE  /\ IsFiniteSet(S) /\ Cardinality(S) \in Nat
         /\ Cardinality(S) <= Cardinality(Requests) /\ Cardinality(Requests) \in Nat
         /\ \A r \in Requests \ S : /\ Cardinality(S \cup {r}) = Cardinality(S) + 1
                                  /\ Cardinality(S) + 1 <= Cardinality(Requests)
<1>1. IsFiniteSet(S) /\ Cardinality(S) \in Nat /\ Cardinality(S) <= Cardinality(Requests)
      /\ Cardinality(Requests) \in Nat
  BY ConstantsAssumption, FS_Subset, FS_CardinalityType
<1>2. ASSUME NEW r \in Requests \ S
      PROVE  /\ Cardinality(S \cup {r}) = Cardinality(S) + 1
             /\ Cardinality(S) + 1 <= Cardinality(Requests)
  <2>1. Cardinality(S \cup {r}) = Cardinality(S) + 1
    BY <1>1, FS_AddElement
  <2>2. S \cup {r} \in SUBSET Requests
    OBVIOUS
  <2>3. Cardinality(S \cup {r}) <= Cardinality(Requests)
    BY <2>2, ConstantsAssumption, FS_Subset
  <2>4. QED
    BY <2>1, <2>3
<1>3. QED
  BY <1>1, <1>2

\* What a write stores and announces depends on its own call and copy only.
LEMMA Stands ==
  ASSUME NEW r \in Requests, call'[r] = call[r], held'[r] = held[r]
  PROVE  /\ NextRow(r)' = NextRow(r) /\ KeyOf(r)' = KeyOf(r)
         /\ NamesNewPerson(r)' = NamesNewPerson(r)
         /\ LineOf(r)' = LineOf(r) /\ HistoryWorthy(r)' = HistoryWorthy(r)
<1>1. NextRow(r)' = NextRow(r)
  BY DEF NextRow
<1>2. Changes(r)' = Changes(r)
  BY <1>1 DEF Changes
<1>3. QED
  BY <1>1, <1>2 DEF KeyOf, NamesNewPerson, LineOf, HistoryWorthy

\* A write about to be made stores a record, with a version not above the count.
LEMMA NextIsRecord ==
  ASSUME IInv, NEW r \in Requests, pc[r] = "save"
  PROVE  /\ NextRow(r) \in Record
         /\ NextRow(r).version <= Cardinality(saved) + 1
         /\ Cardinality(saved \cup {r}) = Cardinality(saved) + 1
<1>1. /\ call[r] \in Calls /\ r \notin saved /\ (call[r].op = "create" <=> held[r] = None)
      /\ held[r] \in Record \cup {None} /\ saved \in SUBSET Requests
  BY DEF IInv, StagesInOrder, TypeOK
<1>2. /\ Cardinality(saved) \in Nat /\ Cardinality(Requests) \in Nat
      /\ Cardinality(saved \cup {r}) = Cardinality(saved) + 1
      /\ Cardinality(saved) + 1 <= Cardinality(Requests)
  BY <1>1, Counting
<1>3. CASE call[r].op = "create"
  <2>1. call[r].person \in Members \cup {None}
    BY <1>1, <1>3 DEF Calls
  <2>2. NextRow(r) = [person |-> call[r].person, state |-> "open", version |-> 1]
    BY <1>3 DEF NextRow
  <2>3. QED
    BY <1>2, <2>1, <2>2 DEF Record
<1>4. CASE call[r].op # "create"
  <2>1. /\ held[r] \in Record /\ held[r].version <= Cardinality(saved)
        /\ held[r].version \in 1..Cardinality(Requests)
        /\ held[r].person \in Members \cup {None} /\ held[r].state \in {"open", "done"}
    BY <1>1, <1>4 DEF IInv, VersionsCount, Record
  <2>2. held[r].version + 1 \in 1..Cardinality(Requests)
    BY <1>2, <2>1
  <2>3. CASE call[r].op = "update"
    <3>1. call[r].person \in Members \cup {None}
      BY <1>1, <2>3 DEF Calls
    <3>2. NextRow(r) = [person |-> call[r].person, state |-> held[r].state,
                        version |-> held[r].version + 1]
      BY <2>3 DEF NextRow
    <3>3. QED
      BY <1>2, <2>1, <2>2, <3>1, <3>2 DEF Record
  <2>4. CASE call[r].op = "updateStatus"
    <3>1. call[r].state \in {"open", "done"}
      BY <1>1, <2>4 DEF Calls
    <3>2. NextRow(r) = [held[r] EXCEPT !.state = call[r].state, !.version = held[r].version + 1]
      BY <2>4 DEF NextRow
    <3>3. NextRow(r) \in Record /\ NextRow(r).version = held[r].version + 1
      BY <2>1, <2>2, <3>1, <3>2 DEF Record
    <3>4. QED
      BY <1>2, <2>1, <3>3
  <2>5. QED
    BY <1>1, <1>4, <2>3, <2>4 DEF Calls
<1>5. QED
  BY <1>3, <1>4

\* A line is a line.
LEMMA LineIsLine ==
  ASSUME IInv, NEW r \in saved
  PROVE  LineOf(r) \in Line
<1>1. r \in Requests /\ call[r] \in Calls
  BY DEF IInv, TypeOK, StagesInOrder
<1>2. call[r].actor \in Members
  BY <1>1 DEF Calls
<1>3. Changes(r) \in SUBSET Change
  BY DEF Changes
<1>4. QED
  BY <1>2, <1>3 DEF LineOf, Line

LEMMA InitIInv == Init => IInv
BY NoneApart, Counting
   DEF Init, IInv, TypeOK, Stages, StagesInOrder, VersionsCount, BenchedFits, NoticesFit,
       LinesFit, DoneTold, DoneWritten

\* A call that arrives has written nothing.
LEMMA ReceiveIInv == ASSUME NEW r \in Requests, IInv, Receive(r) PROVE IInv'
<1> USE NoneApart DEF IInv, Goto
<1>0. \A q \in Requests : q # r =>
         /\ NextRow(q)' = NextRow(q) /\ KeyOf(q)' = KeyOf(q)
         /\ NamesNewPerson(q)' = NamesNewPerson(q)
         /\ LineOf(q)' = LineOf(q) /\ HistoryWorthy(q)' = HistoryWorthy(q)
  BY Stands DEF Receive, TypeOK
<1>00. r \notin saved /\ pc[r] \in {"idle", "load"} /\ pc'[r] \in {"load", "save", "refused"}
  BY DEF Receive, StagesInOrder, TypeOK
<1>1. TypeOK'
  BY <1>0, <1>00 DEF Receive, TypeOK, Stages
<1>2. StagesInOrder'
  BY <1>0, <1>00 DEF Receive, TypeOK, StagesInOrder
<1>3. VersionsCount'
  BY <1>0, <1>00 DEF Receive, TypeOK, VersionsCount
<1>4. BenchedFits'
  BY <1>0, <1>00 DEF Receive, TypeOK, BenchedFits
<1>5. NoticesFit'
  BY <1>0, <1>00 DEF Receive, TypeOK, NoticesFit
<1>6. LinesFit'
  BY <1>0, <1>00 DEF Receive, TypeOK, LinesFit
<1>7. DoneTold'
  BY <1>0, <1>00 DEF Receive, TypeOK, DoneTold
<1>8. DoneWritten'
  BY <1>0, <1>00 DEF Receive, TypeOK, DoneWritten
<1>9. QED
  BY <1>1, <1>2, <1>3, <1>4, <1>5, <1>6, <1>7, <1>8

\* A row that is loaded was counted.
LEMMA LoadIInv == ASSUME NEW r \in Requests, IInv, Load(r) PROVE IInv'
<1> USE NoneApart DEF IInv, Goto
<1>0. \A q \in Requests : q # r =>
         /\ NextRow(q)' = NextRow(q) /\ KeyOf(q)' = KeyOf(q)
         /\ NamesNewPerson(q)' = NamesNewPerson(q)
         /\ LineOf(q)' = LineOf(q) /\ HistoryWorthy(q)' = HistoryWorthy(q)
  BY Stands DEF Load, TypeOK
<1>00. r \notin saved /\ pc[r] \in {"idle", "load"} /\ pc'[r] \in {"load", "save", "refused"}
  BY DEF Load, StagesInOrder, TypeOK
<1>1. TypeOK'
  BY <1>0, <1>00 DEF Load, TypeOK, Stages
<1>2. StagesInOrder'
  BY <1>0, <1>00 DEF Load, TypeOK, StagesInOrder
<1>3. VersionsCount'
  BY <1>0, <1>00 DEF Load, TypeOK, VersionsCount
<1>4. BenchedFits'
  BY <1>0, <1>00 DEF Load, TypeOK, BenchedFits
<1>5. NoticesFit'
  BY <1>0, <1>00 DEF Load, TypeOK, NoticesFit
<1>6. LinesFit'
  BY <1>0, <1>00 DEF Load, TypeOK, LinesFit
<1>7. DoneTold'
  BY <1>0, <1>00 DEF Load, TypeOK, DoneTold
<1>8. DoneWritten'
  BY <1>0, <1>00 DEF Load, TypeOK, DoneWritten
<1>9. QED
  BY <1>1, <1>2, <1>3, <1>4, <1>5, <1>6, <1>7, <1>8

\* A refusal writes nothing.
LEMMA RefuseIInv == ASSUME NEW r \in Requests, IInv, Refuse(r) PROVE IInv'
<1> USE NoneApart DEF IInv, Goto
<1>0. \A q \in Requests : /\ NextRow(q)' = NextRow(q) /\ KeyOf(q)' = KeyOf(q)
                           /\ NamesNewPerson(q)' = NamesNewPerson(q)
                           /\ LineOf(q)' = LineOf(q) /\ HistoryWorthy(q)' = HistoryWorthy(q)
  BY Stands DEF Refuse
<1>1. TypeOK'
  BY <1>0 DEF Refuse, TypeOK, Stages
<1>2. StagesInOrder'
  BY <1>0 DEF Refuse, TypeOK, StagesInOrder
<1>3. VersionsCount'
  BY <1>0 DEF Refuse, TypeOK, VersionsCount
<1>4. BenchedFits'
  BY <1>0 DEF Refuse, TypeOK, BenchedFits
<1>5. NoticesFit'
  BY <1>0 DEF Refuse, TypeOK, NoticesFit
<1>6. LinesFit'
  BY <1>0 DEF Refuse, TypeOK, LinesFit
<1>7. DoneTold'
  BY <1>0 DEF Refuse, TypeOK, DoneTold
<1>8. DoneWritten'
  BY <1>0 DEF Refuse, TypeOK, DoneWritten
<1>9. QED
  BY <1>1, <1>2, <1>3, <1>4, <1>5, <1>6, <1>7, <1>8

\* A save is counted, and goes to the subscriber it must.
LEMMA SaveIInv == ASSUME NEW r \in Requests, IInv, Save(r) PROVE IInv'
<1> USE NoneApart DEF IInv, Goto
<1>0. \A q \in Requests : /\ NextRow(q)' = NextRow(q) /\ KeyOf(q)' = KeyOf(q)
                           /\ NamesNewPerson(q)' = NamesNewPerson(q)
                           /\ LineOf(q)' = LineOf(q) /\ HistoryWorthy(q)' = HistoryWorthy(q)
  BY Stands DEF Save
<1>1. TypeOK'
  <2>1. /\ NextRow(r) \in Record /\ NextRow(r).version <= Cardinality(saved) + 1
        /\ Cardinality(saved \cup {r}) = Cardinality(saved) + 1
    BY NextIsRecord DEF Save
  <2>2. /\ Subscriber(r) \in {"lookup", "audit", "done"}
        /\ Subscriber(r) = "lookup" => kind = "Task" /\ NamesNewPerson(r)
        /\ Subscriber(r) = "audit" => kind = "Deadline"
        /\ Subscriber(r) = "done" /\ kind = "Task" => ~ NamesNewPerson(r)
        /\ Subscriber(r) = "done" /\ kind = "Deadline" => ~ HistoryWorthy(r)
    BY DEF Subscriber
  <2>3. QED
    BY <2>1, <2>2 DEF Save, TypeOK, Stages
<1>2. StagesInOrder'
  <2>1. /\ NextRow(r) \in Record /\ NextRow(r).version <= Cardinality(saved) + 1
        /\ Cardinality(saved \cup {r}) = Cardinality(saved) + 1
    BY NextIsRecord DEF Save
  <2>2. /\ Subscriber(r) \in {"lookup", "audit", "done"}
        /\ Subscriber(r) = "lookup" => kind = "Task" /\ NamesNewPerson(r)
        /\ Subscriber(r) = "audit" => kind = "Deadline"
        /\ Subscriber(r) = "done" /\ kind = "Task" => ~ NamesNewPerson(r)
        /\ Subscriber(r) = "done" /\ kind = "Deadline" => ~ HistoryWorthy(r)
    BY DEF Subscriber
  <2>3. pc' = [pc EXCEPT ![r] = Subscriber(r)] /\ saved' = saved \cup {r} /\ pc[r] = "save"
        /\ UNCHANGED <<kind, call, held>> /\ pc \in [Requests -> Stages]
    BY DEF Save, TypeOK
  <2>4. /\ call[r] \in Calls /\ (call[r].op = "create" <=> held[r] = None)
    BY <2>3 DEF StagesInOrder
  <2>5. QED
    BY <1>0, <2>1, <2>2, <2>3, <2>4 DEF StagesInOrder
<1>3. VersionsCount'
  <2>1. /\ NextRow(r) \in Record /\ NextRow(r).version <= Cardinality(saved) + 1
        /\ Cardinality(saved \cup {r}) = Cardinality(saved) + 1
    BY NextIsRecord DEF Save
  <2>2. /\ Cardinality(saved) \in Nat
        /\ row' = NextRow(r) /\ saved' = saved \cup {r} /\ held' = held
    BY Counting DEF Save, TypeOK
  <2>3. \A q \in Requests : held[q] # None => held[q].version <= Cardinality(saved) + 1
    <3> SUFFICES ASSUME NEW q \in Requests, held[q] # None
                 PROVE  held[q].version <= Cardinality(saved) + 1
      OBVIOUS
    <3>1. held[q].version \in Nat /\ held[q].version <= Cardinality(saved)
      BY Counting DEF TypeOK, Record, VersionsCount
    <3>2. QED
      BY <2>2, <3>1
  <2>4. QED
    BY <2>1, <2>2, <2>3 DEF VersionsCount
<1>4. BenchedFits'
  BY <1>0 DEF Save, TypeOK, BenchedFits
<1>5. NoticesFit'
  BY <1>0 DEF Save, TypeOK, NoticesFit
<1>6. LinesFit'
  BY <1>0 DEF Save, TypeOK, LinesFit
<1>7. DoneTold'
  <2>2. /\ Subscriber(r) \in {"lookup", "audit", "done"}
        /\ Subscriber(r) = "lookup" => kind = "Task" /\ NamesNewPerson(r)
        /\ Subscriber(r) = "audit" => kind = "Deadline"
        /\ Subscriber(r) = "done" /\ kind = "Task" => ~ NamesNewPerson(r)
        /\ Subscriber(r) = "done" /\ kind = "Deadline" => ~ HistoryWorthy(r)
    BY DEF Subscriber
  <2>3. \A q \in Requests : q # r => pc'[q] = pc[q]
    BY DEF Save, TypeOK
  <2>4. pc'[r] = Subscriber(r)
    BY DEF Save, TypeOK
  <2>5. UNCHANGED <<kind, lost, benched, call, notices>>
    BY DEF Save
  <2>6. QED
    BY <1>0, <2>2, <2>3, <2>4, <2>5 DEF DoneTold
<1>8. DoneWritten'
  <2>2. /\ Subscriber(r) \in {"lookup", "audit", "done"}
        /\ Subscriber(r) = "lookup" => kind = "Task" /\ NamesNewPerson(r)
        /\ Subscriber(r) = "audit" => kind = "Deadline"
        /\ Subscriber(r) = "done" /\ kind = "Task" => ~ NamesNewPerson(r)
        /\ Subscriber(r) = "done" /\ kind = "Deadline" => ~ HistoryWorthy(r)
    BY DEF Subscriber
  <2>3. \A q \in Requests : q # r => pc'[q] = pc[q]
    BY DEF Save, TypeOK
  <2>4. pc'[r] = Subscriber(r)
    BY DEF Save, TypeOK
  <2>5. UNCHANGED <<kind, lost, lines>>
    BY DEF Save
  <2>6. QED
    BY <1>0, <2>2, <2>3, <2>4, <2>5 DEF DoneWritten
<1>9. QED
  BY <1>1, <1>2, <1>3, <1>4, <1>5, <1>6, <1>7, <1>8

\* Only the inactive and the actor are not told.
LEMMA LookupIInv == ASSUME NEW r \in Requests, IInv, Lookup(r) PROVE IInv'
<1> USE NoneApart DEF IInv, Goto
<1>0. \A q \in Requests : /\ NextRow(q)' = NextRow(q) /\ KeyOf(q)' = KeyOf(q)
                           /\ NamesNewPerson(q)' = NamesNewPerson(q)
                           /\ LineOf(q)' = LineOf(q) /\ HistoryWorthy(q)' = HistoryWorthy(q)
  BY Stands DEF Lookup
<1>1. TypeOK'
  BY <1>0 DEF Lookup, TypeOK, Stages
<1>2. StagesInOrder'
  BY <1>0 DEF Lookup, TypeOK, StagesInOrder
<1>3. VersionsCount'
  BY <1>0 DEF Lookup, TypeOK, VersionsCount
<1>4. BenchedFits'
  BY <1>0 DEF Lookup, TypeOK, BenchedFits
<1>5. NoticesFit'
  BY <1>0 DEF Lookup, TypeOK, NoticesFit
<1>6. LinesFit'
  BY <1>0 DEF Lookup, TypeOK, LinesFit
<1>7. DoneTold'
  <2>1. r \in saved /\ NextRow(r) \in Record /\ NamesNewPerson(r)
    BY DEF Lookup, StagesInOrder
  <2>2. NextRow(r).person \in Members
    BY <2>1 DEF NamesNewPerson, Record
  <2>3. NextRow(r).person \notin benched => NextRow(r).person \in active
    BY <2>2 DEF BenchedFits
  <2>4. pc'[r] = "done" => NextRow(r).person \in benched \cup {call[r].actor}
    BY <2>3 DEF Lookup, TypeOK
  <2>5. \A q \in Requests : q # r => pc'[q] = pc[q]
    BY DEF Lookup, TypeOK
  <2>6. UNCHANGED <<kind, lost, benched, call, notices>>
    BY DEF Lookup
  <2>7. QED
    BY <1>0, <2>4, <2>5, <2>6 DEF DoneTold
<1>8. DoneWritten'
  <2>1. kind = "Task" /\ kind' = kind
    BY DEF Lookup, StagesInOrder
  <2>2. QED
    BY <2>1 DEF DoneWritten
<1>9. QED
  BY <1>1, <1>2, <1>3, <1>4, <1>5, <1>6, <1>7, <1>8

\* Whoever holds the key named the same person at the same version.
LEMMA NotifyIInv == ASSUME NEW r \in Requests, IInv, Notify(r) PROVE IInv'
<1> USE NoneApart DEF IInv, Goto
<1>0. \A q \in Requests : /\ NextRow(q)' = NextRow(q) /\ KeyOf(q)' = KeyOf(q)
                           /\ NamesNewPerson(q)' = NamesNewPerson(q)
                           /\ LineOf(q)' = LineOf(q) /\ HistoryWorthy(q)' = HistoryWorthy(q)
  BY Stands DEF Notify
<1>1. TypeOK'
  BY <1>0 DEF Notify, TypeOK, Stages
<1>2. StagesInOrder'
  BY <1>0 DEF Notify, TypeOK, StagesInOrder
<1>3. VersionsCount'
  BY <1>0 DEF Notify, TypeOK, VersionsCount
<1>4. BenchedFits'
  BY <1>0 DEF Notify, TypeOK, BenchedFits
<1>5. NoticesFit'
  <2>1. r \in saved /\ NextRow(r) \in Record /\ NamesNewPerson(r)
    BY DEF Notify, StagesInOrder
  <2>2. KeyOf(r) \in NoticeKey
    BY <2>1 DEF KeyOf, NoticeKey, Record, NamesNewPerson
  <2>3. SUFFICES ASSUME NEW k \in NoticeKey, notices'[k] # None
                 PROVE  notices'[k] \in saved' /\ KeyOf(notices[k])' = k
    BY DEF NoticesFit
  <2>4. saved' = saved /\ saved \in SUBSET Requests
    BY DEF Notify, TypeOK
  <2>5. CASE notices[k] # None
    <3>1. notices'[k] = notices[k]
      BY <2>2, <2>5 DEF Notify, TypeOK
    <3>2. notices[k] \in saved /\ KeyOf(notices[k]) = k
      BY <2>5 DEF NoticesFit
    <3>3. QED
      BY <2>4, <3>1, <3>2 DEF KeyOf, NextRow, Notify
  <2>6. CASE notices[k] = None
    <3>1. k = KeyOf(r) /\ notices'[k] = r
      BY <2>2, <2>3, <2>6 DEF Notify, TypeOK
    <3>2. QED
      BY <2>1, <2>4, <3>1 DEF KeyOf, NextRow, Notify
  <2>7. QED
    BY <2>5, <2>6
<1>6. LinesFit'
  BY <1>0 DEF Notify, TypeOK, LinesFit
<1>7. DoneTold'
  <2>1. r \in saved /\ NextRow(r) \in Record /\ NamesNewPerson(r)
    BY DEF Notify, StagesInOrder
  <2>2. KeyOf(r) \in NoticeKey
    BY <2>1 DEF KeyOf, NoticeKey, Record, NamesNewPerson
  <2>3. notices' = [notices EXCEPT ![KeyOf(r)] = IF notices[KeyOf(r)] = None THEN r ELSE notices[KeyOf(r)]]
        /\ notices \in [NoticeKey -> Requests \cup {None}]
    BY DEF Notify, TypeOK
  <2>4. notices'[KeyOf(r)] # None
    BY <2>2, <2>3
  <2>5. \A q \in Requests : notices[KeyOf(q)] # None => notices'[KeyOf(q)] # None
    <3> SUFFICES ASSUME NEW q \in Requests, notices[KeyOf(q)] # None
                 PROVE  notices'[KeyOf(q)] # None
      OBVIOUS
    <3>1. CASE KeyOf(q) = KeyOf(r)
      BY <2>4, <3>1
    <3>2. CASE KeyOf(q) # KeyOf(r)
      BY <2>3, <3>2
    <3>3. QED
      BY <3>1, <3>2
  <2>6. \A q \in Requests : q # r => pc'[q] = pc[q]
    BY DEF Notify, TypeOK
  <2>7. UNCHANGED <<kind, lost, benched, call>>
    BY DEF Notify
  <2>8. QED
    BY <1>0, <2>4, <2>5, <2>6, <2>7 DEF DoneTold
<1>8. DoneWritten'
  <2>1. kind = "Task" /\ kind' = kind
    BY DEF Notify, StagesInOrder
  <2>2. QED
    BY <2>1 DEF DoneWritten
<1>9. QED
  BY <1>1, <1>2, <1>3, <1>4, <1>5, <1>6, <1>7, <1>8

\* A line is never replaced.
LEMMA WriteLineIInv == ASSUME NEW r \in Requests, IInv, WriteLine(r) PROVE IInv'
<1> USE NoneApart DEF IInv, Goto
<1>0. \A q \in Requests : /\ NextRow(q)' = NextRow(q) /\ KeyOf(q)' = KeyOf(q)
                           /\ NamesNewPerson(q)' = NamesNewPerson(q)
                           /\ LineOf(q)' = LineOf(q) /\ HistoryWorthy(q)' = HistoryWorthy(q)
  BY Stands DEF WriteLine
<1>1. TypeOK'
  <2>1. /\ r \in saved /\ NextRow(r) \in Record /\ kind = "Deadline" /\ r \in Requests
        /\ NextRow(r).version \in 1..Cardinality(Requests)
    BY DEF WriteLine, StagesInOrder, Record
  <2>2. LineOf(r) \in Line /\ LineOf(r) # None
    BY <2>1, LineIsLine
  <2>3. lines' = [lines EXCEPT ![NextRow(r).version] =
                    IF lines[NextRow(r).version] = None THEN LineOf(r)
                    ELSE lines[NextRow(r).version]]
        /\ lines \in [1..Cardinality(Requests) -> Line \cup {None}]
    BY DEF WriteLine, TypeOK
  <2>4. lines' \in [1..Cardinality(Requests) -> Line \cup {None}]
    BY <2>1, <2>2, <2>3
  <2>5. QED
    BY <2>4 DEF WriteLine, TypeOK, Stages
<1>2. StagesInOrder'
  BY <1>0 DEF WriteLine, TypeOK, StagesInOrder
<1>3. VersionsCount'
  BY <1>0 DEF WriteLine, TypeOK, VersionsCount
<1>4. BenchedFits'
  BY <1>0 DEF WriteLine, TypeOK, BenchedFits
<1>5. NoticesFit'
  BY <1>0 DEF WriteLine, TypeOK, NoticesFit
<1>6. LinesFit'
  <2>1. /\ r \in saved /\ NextRow(r) \in Record /\ kind = "Deadline" /\ r \in Requests
        /\ NextRow(r).version \in 1..Cardinality(Requests)
    BY DEF WriteLine, StagesInOrder, Record
  <2>2. LineOf(r) \in Line /\ LineOf(r) # None
    BY <2>1, LineIsLine
  <2>3. lines' = [lines EXCEPT ![NextRow(r).version] =
                    IF lines[NextRow(r).version] = None THEN LineOf(r)
                    ELSE lines[NextRow(r).version]]
        /\ lines \in [1..Cardinality(Requests) -> Line \cup {None}]
    BY DEF WriteLine, TypeOK
  <2>4. SUFFICES ASSUME NEW v \in 1..Cardinality(Requests), lines'[v] # None
                 PROVE  \E q \in saved' : NextRow(q)'.version = v /\ lines'[v] = LineOf(q)'
    BY DEF LinesFit
  <2>5. saved' = saved /\ saved \in SUBSET Requests
    BY DEF WriteLine, TypeOK
  <2>6. CASE lines[v] # None
    <3>1. lines'[v] = lines[v]
      BY <2>1, <2>3, <2>6
    <3>2. PICK q \in saved : NextRow(q).version = v /\ lines[v] = LineOf(q)
      BY <2>6 DEF LinesFit
    <3>3. NextRow(q)' = NextRow(q) /\ LineOf(q)' = LineOf(q)
      BY <1>0, <2>5, <3>2
    <3>4. QED
      BY <2>5, <3>1, <3>2, <3>3
  <2>7. CASE lines[v] = None
    <3>1. v = NextRow(r).version /\ lines'[v] = LineOf(r)
      BY <2>1, <2>3, <2>4, <2>7
    <3>2. NextRow(r)' = NextRow(r) /\ LineOf(r)' = LineOf(r)
      BY <1>0
    <3>3. QED
      BY <2>1, <2>5, <3>1, <3>2
  <2>8. QED
    BY <2>6, <2>7
<1>7. DoneTold'
  <2>1. kind = "Deadline" /\ kind' = kind
    BY DEF WriteLine, StagesInOrder
  <2>2. QED
    BY <2>1 DEF DoneTold
<1>8. DoneWritten'
  <2>1. /\ r \in saved /\ NextRow(r) \in Record /\ kind = "Deadline" /\ r \in Requests
        /\ NextRow(r).version \in 1..Cardinality(Requests)
    BY DEF WriteLine, StagesInOrder, Record
  <2>2. LineOf(r) \in Line /\ LineOf(r) # None
    BY <2>1, LineIsLine
  <2>3. lines' = [lines EXCEPT ![NextRow(r).version] =
                    IF lines[NextRow(r).version] = None THEN LineOf(r)
                    ELSE lines[NextRow(r).version]]
        /\ lines \in [1..Cardinality(Requests) -> Line \cup {None}]
    BY DEF WriteLine, TypeOK
  <2>4. lines'[NextRow(r).version] # None
    BY <2>1, <2>2, <2>3
  <2>5. \A v : lines[v] # None => lines'[v] # None
    BY <2>1, <2>2, <2>3, <2>4
  <2>6. \A q \in Requests : q # r => pc'[q] = pc[q]
    BY DEF WriteLine, TypeOK
  <2>7. UNCHANGED <<kind, lost>>
    BY DEF WriteLine
  <2>8. QED
    BY <1>0, <2>4, <2>5, <2>6, <2>7 DEF DoneWritten
<1>9. QED
  BY <1>1, <1>2, <1>3, <1>4, <1>5, <1>6, <1>7, <1>8

\* A failure is remembered.
LEMMA HandlerFailsIInv == ASSUME NEW r \in Requests, IInv, HandlerFails(r) PROVE IInv'
<1> USE NoneApart DEF IInv, Goto
<1>0. \A q \in Requests : /\ NextRow(q)' = NextRow(q) /\ KeyOf(q)' = KeyOf(q)
                           /\ NamesNewPerson(q)' = NamesNewPerson(q)
                           /\ LineOf(q)' = LineOf(q) /\ HistoryWorthy(q)' = HistoryWorthy(q)
  BY Stands DEF HandlerFails
<1>1. TypeOK'
  BY <1>0 DEF HandlerFails, TypeOK, Stages
<1>2. StagesInOrder'
  BY <1>0 DEF HandlerFails, TypeOK, StagesInOrder
<1>3. VersionsCount'
  BY <1>0 DEF HandlerFails, TypeOK, VersionsCount
<1>4. BenchedFits'
  BY <1>0 DEF HandlerFails, TypeOK, BenchedFits
<1>5. NoticesFit'
  BY <1>0 DEF HandlerFails, TypeOK, NoticesFit
<1>6. LinesFit'
  BY <1>0 DEF HandlerFails, TypeOK, LinesFit
<1>7. DoneTold'
  BY <1>0 DEF HandlerFails, TypeOK, DoneTold
<1>8. DoneWritten'
  BY <1>0 DEF HandlerFails, TypeOK, DoneWritten
<1>9. QED
  BY <1>1, <1>2, <1>3, <1>4, <1>5, <1>6, <1>7, <1>8

\* So is a stop.
LEMMA StopIInv == ASSUME NEW r \in Requests, IInv, Stop(r) PROVE IInv'
<1> USE NoneApart DEF IInv, Goto
<1>0. \A q \in Requests : /\ NextRow(q)' = NextRow(q) /\ KeyOf(q)' = KeyOf(q)
                           /\ NamesNewPerson(q)' = NamesNewPerson(q)
                           /\ LineOf(q)' = LineOf(q) /\ HistoryWorthy(q)' = HistoryWorthy(q)
  BY Stands DEF Stop
<1>1. TypeOK'
  BY <1>0 DEF Stop, TypeOK, Stages
<1>2. StagesInOrder'
  BY <1>0 DEF Stop, TypeOK, StagesInOrder
<1>3. VersionsCount'
  BY <1>0 DEF Stop, TypeOK, VersionsCount
<1>4. BenchedFits'
  BY <1>0 DEF Stop, TypeOK, BenchedFits
<1>5. NoticesFit'
  BY <1>0 DEF Stop, TypeOK, NoticesFit
<1>6. LinesFit'
  BY <1>0 DEF Stop, TypeOK, LinesFit
<1>7. DoneTold'
  BY <1>0 DEF Stop, TypeOK, DoneTold
<1>8. DoneWritten'
  BY <1>0 DEF Stop, TypeOK, DoneWritten
<1>9. QED
  BY <1>1, <1>2, <1>3, <1>4, <1>5, <1>6, <1>7, <1>8

\* Whoever becomes inactive is noted.
LEMMA SwitchIInv == ASSUME NEW m \in Members, IInv, SwitchMember(m) PROVE IInv'
<1> USE DEF IInv
<1>0. \A q \in Requests : /\ NextRow(q)' = NextRow(q) /\ KeyOf(q)' = KeyOf(q)
                           /\ NamesNewPerson(q)' = NamesNewPerson(q)
                           /\ LineOf(q)' = LineOf(q) /\ HistoryWorthy(q)' = HistoryWorthy(q)
  BY Stands DEF SwitchMember
<1>1. TypeOK' /\ BenchedFits' /\ VersionsCount'
  BY DEF SwitchMember, TypeOK, BenchedFits, VersionsCount
<1>2. StagesInOrder'
  BY <1>0 DEF SwitchMember, StagesInOrder
<1>3. NoticesFit' /\ LinesFit'
  BY <1>0 DEF SwitchMember, NoticesFit, LinesFit, TypeOK
<1>4. DoneTold' /\ DoneWritten'
  BY <1>0 DEF SwitchMember, DoneTold, DoneWritten
<1>5. QED
  BY <1>1, <1>2, <1>3, <1>4

-----------------------------------------------------------------------------
LEMMA NextIInv == IInv /\ [Next]_vars => IInv'
<1> SUFFICES ASSUME IInv, [Next]_vars PROVE IInv'
  OBVIOUS
<1>1. CASE UNCHANGED vars
  <2>1. \A q \in Requests : /\ NextRow(q)' = NextRow(q) /\ KeyOf(q)' = KeyOf(q)
                            /\ NamesNewPerson(q)' = NamesNewPerson(q)
                            /\ LineOf(q)' = LineOf(q) /\ HistoryWorthy(q)' = HistoryWorthy(q)
    BY <1>1, Stands DEF vars
  <2>2. QED
    BY <1>1, <2>1 DEF vars, IInv, TypeOK, StagesInOrder, VersionsCount, BenchedFits,
                      NoticesFit, LinesFit, DoneTold, DoneWritten
<1>2. ASSUME NEW r \in Requests,
             \/ Receive(r) \/ Load(r) \/ Refuse(r) \/ Save(r) \/ Lookup(r)
             \/ Notify(r) \/ WriteLine(r) \/ HandlerFails(r) \/ Stop(r)
      PROVE  IInv'
  BY <1>2, ReceiveIInv, LoadIInv, RefuseIInv, SaveIInv, LookupIInv, NotifyIInv,
     WriteLineIInv, HandlerFailsIInv, StopIInv
<1>3. ASSUME NEW m \in Members, SwitchMember(m) PROVE IInv'
  BY <1>3, SwitchIInv
<1>4. QED
  BY <1>1, <1>2, <1>3 DEF Next

LEMMA SpecIInv == Spec => []IInv
  BY InitIInv, NextIInv, PTL DEF Spec

\* Every variable keeps its type; no version exceeds the number of writes.
THEOREM TypeCorrect == Spec => []TypeOK
<1>1. IInv => TypeOK
  BY DEF IInv
<1>2. QED
  BY <1>1, SpecIInv, PTL

\* An assignment that was heard is told, or another write took its key.
THEOREM AssigneesAreTold == Spec => []AssignmentsAreTold
<1>1. IInv => AssignmentsAreTold
  <2> SUFFICES ASSUME IInv, NEW r \in Requests, kind = "Task", Heard(r), NamesNewPerson(r),
                      NextRow(r).person \notin benched \cup {call[r].actor}
               PROVE  \E q \in Requests :
                        /\ notices[KeyOf(r)] = q
                        /\ q = r \/ (SameVersion(r, q) /\ NextRow(q).person = NextRow(r).person)
    BY DEF AssignmentsAreTold
  <2>1. notices[KeyOf(r)] # None
    BY DEF IInv, DoneTold, Heard
  <2>2. KeyOf(r) \in NoticeKey
    BY NoneApart DEF IInv, StagesInOrder, Heard, KeyOf, NoticeKey, Record, NamesNewPerson
  <2>3. notices[KeyOf(r)] \in saved /\ KeyOf(notices[KeyOf(r)]) = KeyOf(r)
    BY <2>1, <2>2 DEF IInv, NoticesFit
  <2>4. notices[KeyOf(r)] \in Requests
    BY <2>3 DEF IInv, TypeOK
  <2>5. QED
    BY <2>3, <2>4 DEF SameVersion, KeyOf
<1>2. QED
  BY <1>1, SpecIInv, PTL

\* A change that was heard has its line, or another write took its place.
THEOREM ChangesAreWritten == Spec => []ChangesHaveTheirLine
<1>1. IInv => ChangesHaveTheirLine
  <2> SUFFICES ASSUME IInv, NEW r \in Requests, kind = "Deadline", Heard(r),
                      held[r] # None => NextRow(r) # [held[r] EXCEPT !.version = @ + 1]
               PROVE  \/ lines[NextRow(r).version] = LineOf(r)
                      \/ \E q \in Requests : /\ SameVersion(r, q)
                                             /\ lines[NextRow(r).version] = LineOf(q)
    BY DEF ChangesHaveTheirLine
  <2>1. /\ r \in saved /\ NextRow(r) \in Record /\ call[r] \in Calls
        /\ held[r] \in Record \cup {None} /\ (call[r].op = "create" <=> held[r] = None)
    BY DEF IInv, StagesInOrder, Heard, TypeOK
  <2>2. HistoryWorthy(r)
    <3>1. CASE held[r] = None
      BY <3>1 DEF HistoryWorthy
    <3>2. CASE held[r] # None
      <4>1. held[r] \in Record /\ NextRow(r).version = held[r].version + 1
        BY <2>1, <3>2 DEF NextRow, Calls, Record
      <4>2. NextRow(r).person # held[r].person \/ NextRow(r).state # held[r].state
        BY <2>1, <3>2, <4>1 DEF Record
      <4>3. CASE NextRow(r).person # held[r].person
        <5> DEFINE c == [field |-> "person", old |-> held[r].person, new |-> NextRow(r).person]
        <5>1. c \in Change
          BY <2>1, <4>1 DEF Change, Record
        <5>2. c \in Changes(r)
          BY <3>2, <4>3, <5>1 DEF Changes
        <5>3. QED
          BY <5>2 DEF HistoryWorthy
      <4>4. CASE NextRow(r).state # held[r].state
        <5> DEFINE c == [field |-> "state", old |-> held[r].state, new |-> NextRow(r).state]
        <5>1. c \in Change
          BY <2>1, <4>1 DEF Change, Record
        <5>2. c \in Changes(r)
          BY <3>2, <4>4, <5>1 DEF Changes
        <5>3. QED
          BY <5>2 DEF HistoryWorthy
      <4>5. QED
        BY <4>2, <4>3, <4>4
    <3>3. QED
      BY <3>1, <3>2
  <2>3. lines[NextRow(r).version] # None
    BY <2>2 DEF IInv, DoneWritten, Heard
  <2>4. PICK q \in saved : /\ NextRow(q).version = NextRow(r).version
                           /\ lines[NextRow(r).version] = LineOf(q)
    BY <2>1, <2>3 DEF IInv, LinesFit, Record
  <2>5. q \in Requests
    BY DEF IInv, TypeOK
  <2>6. QED
    BY <2>4, <2>5 DEF SameVersion
<1>2. QED
  BY <1>1, SpecIInv, PTL
-----------------------------------------------------------------------------
(* The history of an audited record is complete.                           *)

Fields == {"person", "state"}

\* Only a stop or a failure ends a write before its subscriber is done.
StoppedIsLost == \A r \in Requests : pc[r] = "stopped" => r \in lost

\* Without races the writes follow each other, each with a version of its own.
Chain == ~ Raced =>
    /\ row = None => saved = {}
    /\ \A q \in saved : row # None /\ NextRow(q).version <= row.version
    /\ \A q, p \in saved : NextRow(q).version = NextRow(p).version => q = p

\* The writes that changed a field.
Changers(f) == {q \in saved : held[q] # None /\ held[q][f] # NextRow(q)[f]}

\* The record has what the last of them wrote, or what it was created with.
FromLast(f) ==
    /\ Changers(f) = {} =>
          \A r \in saved : held[r] = None => row[f] = NextRow(r)[f]
    /\ Changers(f) # {} =>
          \E q \in Changers(f) :
             /\ row[f] = NextRow(q)[f]
             /\ \A p \in Changers(f) : NextRow(p).version <= NextRow(q).version

AllFromLast == ~ Raced => \A f \in Fields : FromLast(f)

ReplayInv == StoppedIsLost /\ Chain /\ AllFromLast

\* A step that saves nothing leaves the writes as they are.
LEMMA WritesStand ==
  ASSUME IInv, Chain, AllFromLast, row' = row, saved' = saved, replaced' = replaced,
         \A q \in saved : call'[q] = call[q] /\ held'[q] = held[q]
  PROVE  Chain' /\ AllFromLast'
<1>1. saved \subseteq Requests
  BY DEF IInv, TypeOK
<1>2. \A q \in saved : NextRow(q)' = NextRow(q)
  BY <1>1, Stands
<1>3. Raced' <=> Raced
  BY DEF Raced
<1>4. Chain'
  BY <1>2, <1>3 DEF Chain
<1>5. \A f : Changers(f)' = Changers(f)
  BY <1>2 DEF Changers
<1>6. AllFromLast'
  <2> SUFFICES ASSUME ~ Raced, NEW f \in Fields PROVE FromLast(f)'
    BY <1>3 DEF AllFromLast
  <2>1. FromLast(f)
    BY DEF AllFromLast
  <2>2. Changers(f) \subseteq saved
    BY DEF Changers
  <2>3. QED
    BY <1>2, <1>5, <2>1, <2>2 DEF FromLast
<1>7. QED
  BY <1>4, <1>6

\* A save that races with nobody continues the chain, and becomes the last
\* to have changed whatever it changes.
LEMMA SaveContinues ==
  ASSUME IInv, Chain, AllFromLast, NEW r \in Requests, Save(r)
  PROVE  Chain' /\ AllFromLast'
<1> SUFFICES ASSUME ~ Raced' PROVE Chain' /\ AllFromLast'
  BY DEF Chain, AllFromLast
<1>1. /\ saved \subseteq Requests /\ r \notin saved /\ saved' = saved \cup {r}
      /\ row' = NextRow(r) /\ call' = call /\ held' = held
      /\ replaced' = [replaced EXCEPT ![r] = row] /\ replaced \in [Requests -> Record \cup {None}]
      /\ NextRow(r) \in Record /\ call[r] \in Calls
      /\ call[r].op = "create" <=> held[r] = None
      /\ held[r] \in Record \cup {None}
  BY NextIsRecord DEF IInv, TypeOK, StagesInOrder, Save
<1>2. \A q : NextRow(q)' = NextRow(q)
  BY <1>1 DEF NextRow
<1>3. replaced'[r] = row /\ \A q \in saved : replaced'[q] = replaced[q]
  BY <1>1
<1>4. ~ Raced /\ held[r] = row
  <2>1. \A q \in saved' : replaced'[q] = held'[q]
    BY DEF Raced
  <2>2. QED
    BY <1>1, <1>3, <2>1 DEF Raced
<1>5. ASSUME row # None
      PROVE  row \in Record /\ row.version \in Nat /\ NextRow(r).version = row.version + 1
  <2>1. row \in Record /\ row.version \in Nat
    BY <1>1, <1>4, <1>5, Counting DEF Record
  <2>2. NextRow(r).version = row.version + 1
    BY <1>1, <1>4, <1>5, <2>1 DEF NextRow, Calls, Record
  <2>3. QED
    BY <2>1, <2>2
<1>6. \A q \in saved : /\ row # None
                       /\ NextRow(q).version \in Nat
                       /\ NextRow(q).version <= row.version
  <2>1. \A q \in saved : NextRow(q) \in Record
    BY <1>1 DEF IInv, StagesInOrder
  <2>2. QED
    BY <1>4, <2>1 DEF Chain, Record
<1>7. /\ row' # None
      /\ NextRow(r).version \in Nat
      /\ \A q \in saved : NextRow(q).version < NextRow(r).version
  BY <1>1, <1>5, <1>6, NoneApart DEF Record
<1>8. Chain'
  <2>1. \A q \in saved' : /\ row' # None
                          /\ NextRow(q)'.version <= row'.version
    BY <1>1, <1>2, <1>6, <1>7
  <2>2. \A q, p \in saved' : NextRow(q)'.version = NextRow(p)'.version => q = p
    BY <1>1, <1>2, <1>4, <1>6, <1>7 DEF Chain
  <2>3. QED
    BY <1>7, <2>1, <2>2 DEF Chain
<1>9. ASSUME NEW f \in Fields PROVE FromLast(f)'
  <2>0. /\ Changers(f) \subseteq saved
        /\ \A q \in saved : q \in Changers(f)' <=> q \in Changers(f)
        /\ r \in Changers(f)' <=> (held[r] # None /\ held[r][f] # NextRow(r)[f])
        /\ Changers(f)' \subseteq saved \cup {r}
    BY <1>1, <1>2 DEF Changers
  <2>1. CASE row = None
    <3>1. saved' = {r} /\ held[r] = None
      BY <1>1, <1>4, <2>1 DEF Chain
    <3>2. Changers(f)' = {}
      BY <2>0, <3>1, <1>1
    <3>3. QED
      BY <1>1, <1>2, <3>1, <3>2 DEF FromLast
  <2>2. CASE row # None /\ held[r][f] # NextRow(r)[f]
    <3>1. r \in Changers(f)'
      BY <1>4, <2>0, <2>2
    <3>2. \A p \in Changers(f)' : NextRow(p)'.version <= NextRow(r)'.version
      BY <1>2, <1>6, <1>7, <2>0
    <3>3. QED
      BY <1>1, <1>2, <3>1, <3>2 DEF FromLast
  <2>3. CASE row # None /\ held[r][f] = NextRow(r)[f]
    <3>1. Changers(f)' = Changers(f)
      BY <2>0, <2>3
    <3>2. row'[f] = row[f] /\ held[r] # None
      BY <1>1, <1>4, <2>3
    <3>3. FromLast(f)
      BY <1>4 DEF AllFromLast
    <3>4. QED
      BY <1>1, <1>2, <3>1, <3>2, <3>3 DEF FromLast
  <2>4. QED
    BY <2>1, <2>2, <2>3
<1>10. QED
  BY <1>8, <1>9 DEF AllFromLast

LEMMA NextReplays == IInv /\ ReplayInv /\ [Next]_vars => ReplayInv'
<1> SUFFICES ASSUME IInv, ReplayInv, [Next]_vars PROVE ReplayInv'
  OBVIOUS
<1> USE DEF ReplayInv
<1>1. StoppedIsLost'
  BY DEF IInv, TypeOK, StoppedIsLost, Next, Receive, Load, Refuse, Save, Lookup, Notify,
         WriteLine, HandlerFails, Stop, SwitchMember, Goto, Subscriber, vars
<1>2. ASSUME NEW r \in Requests, Save(r) PROVE Chain' /\ AllFromLast'
  BY <1>2, SaveContinues
<1>3. ASSUME NEW r \in Requests, Receive(r) \/ Load(r) PROVE Chain' /\ AllFromLast'
  <2>1. r \notin saved
    BY <1>3 DEF IInv, StagesInOrder, Receive, Load
  <2>2. QED
    BY <1>3, <2>1, WritesStand DEF Receive, Load, IInv, TypeOK
<1>4. ASSUME NEW r \in Requests,
             \/ Refuse(r) \/ Lookup(r) \/ Notify(r) \/ WriteLine(r)
             \/ HandlerFails(r) \/ Stop(r)
      PROVE  Chain' /\ AllFromLast'
  BY <1>4, WritesStand DEF Refuse, Lookup, Notify, WriteLine, HandlerFails, Stop
<1>5. ASSUME NEW m \in Members, SwitchMember(m) PROVE Chain' /\ AllFromLast'
  BY <1>5, WritesStand DEF SwitchMember
<1>6. CASE UNCHANGED vars
  <2>1. row' = row /\ saved' = saved /\ replaced' = replaced /\ call' = call /\ held' = held
    BY <1>6 DEF vars
  <2>2. QED
    BY <1>1, <2>1, WritesStand
<1>7. QED
  BY <1>1, <1>2, <1>3, <1>4, <1>5, <1>6 DEF Next

\* When every subscriber is done, each write that changed a field has its line.
LEMMA ChangesAreTold ==
  ASSUME IInv, ReplayInv, kind = "Deadline", ~ Raced, lost = {},
         \A r \in Requests : pc[r] # "audit",
         NEW f \in Fields, NEW q \in Changers(f)
  PROVE  /\ NextRow(q).version \in 2..row.version
         /\ lines[NextRow(q).version] = LineOf(q)
         /\ \E c \in LineOf(q).changes : c.field = f
<1> USE DEF IInv, ReplayInv
<1>1. /\ q \in saved /\ q \in Requests /\ held[q] # None /\ held[q][f] # NextRow(q)[f]
      /\ NextRow(q) \in Record /\ call[q] \in Calls /\ held[q] \in Record
      /\ call[q].op # "create"
      /\ row # None /\ NextRow(q).version <= row.version
  BY DEF TypeOK, StagesInOrder, Chain, Changers
<1>2. row.version \in Nat /\ NextRow(q).version \in 1..Cardinality(Requests)
  BY <1>1, Counting DEF TypeOK, Record
<1>3. /\ NextRow(q).version = held[q].version + 1
      /\ held[q].version \in 1..Cardinality(Requests)
  BY <1>1 DEF NextRow, Calls, Record
<1>4. NextRow(q).version \in 2..row.version
  BY <1>1, <1>2, <1>3, Counting
<1> DEFINE c == [field |-> f, old |-> held[q][f], new |-> NextRow(q)[f]]
<1>5. c \in Change
  BY <1>1 DEF Change, Record, Fields
<1>6. c \in Changes(q)
  BY <1>1, <1>5 DEF Changes
<1>7. pc[q] = "done"
  BY <1>1 DEF TypeOK, Stages, StagesInOrder, StoppedIsLost
<1>8. lines[NextRow(q).version] # None
  BY <1>1, <1>6, <1>7 DEF DoneWritten, HistoryWorthy
<1>9. PICK p \in saved : /\ NextRow(p).version = NextRow(q).version
                         /\ lines[NextRow(q).version] = LineOf(p)
  BY <1>2, <1>8 DEF LinesFit
<1>10. p = q
  BY <1>1, <1>9 DEF Chain
<1>11. QED
  BY <1>4, <1>6, <1>9, <1>10 DEF LineOf

\* A line that tells of a field is that of a write that changed it.
LEMMA ToldIsChange ==
  ASSUME IInv, row # None, NEW f \in Fields, NEW w \in 2..row.version,
         lines[w] # None, \E c \in lines[w].changes : c.field = f
  PROVE  \E q \in Changers(f) : w = NextRow(q).version /\ lines[w] = LineOf(q)
<1>1. w \in 1..Cardinality(Requests)
  BY Counting DEF IInv, TypeOK, Record
<1>2. PICK q \in saved : NextRow(q).version = w /\ lines[w] = LineOf(q)
  BY <1>1 DEF IInv, LinesFit
<1>3. PICK c \in Changes(q) : c.field = f
  BY <1>2 DEF LineOf
<1>4. QED
  BY <1>2, <1>3 DEF Changes, Changers

\* The replay of a field ends with what the record holds.
LEMMA ReplayEndsAtRow ==
  ASSUME IInv, ReplayInv, kind = "Deadline", ~ Raced, lost = {}, row # None,
         \A r \in Requests : pc[r] # "audit",
         NEW f \in Fields, NEW r \in saved, held[r] = None
  PROVE  row[f] = Replay(f, NextRow(r)[f], row.version)
<1> DEFINE told == {w \in 2..row.version :
                       /\ lines[w] # None
                       /\ \E c \in lines[w].changes : c.field = f}
           last == CHOOSE w \in told : \A x \in told : x <= w
<1>1. FromLast(f)
  BY DEF ReplayInv, AllFromLast
<1>2. \A w \in told : \E q \in Changers(f) : w = NextRow(q).version /\ lines[w] = LineOf(q)
  BY ToldIsChange
<1>3. \A q \in Changers(f) :
         /\ NextRow(q).version \in 2..row.version
         /\ lines[NextRow(q).version] = LineOf(q)
         /\ \E c \in LineOf(q).changes : c.field = f
  BY ChangesAreTold
<1>4. \A q \in Changers(f) : LineOf(q) # None
  BY LineIsLine, NoneApart DEF Changers
<1>5. \A q \in Changers(f) : NextRow(q).version \in told
  BY <1>3, <1>4
<1>6. Replay(f, NextRow(r)[f], row.version) =
         IF told = {} THEN NextRow(r)[f]
         ELSE (CHOOSE c \in lines[last].changes : c.field = f).new
  BY DEF Replay
<1>7. CASE Changers(f) = {}
  <2>1. told = {}
    BY <1>2, <1>7
  <2>2. row[f] = NextRow(r)[f]
    BY <1>1, <1>7 DEF FromLast
  <2>3. QED
    BY <1>6, <2>1, <2>2
<1>8. CASE Changers(f) # {}
  <2>1. PICK q \in Changers(f) :
           /\ row[f] = NextRow(q)[f]
           /\ \A p \in Changers(f) : NextRow(p).version <= NextRow(q).version
    BY <1>1, <1>8 DEF FromLast
  <2> DEFINE m == NextRow(q).version
  <2>2. m \in told /\ \A x \in told : x <= m
    BY <1>2, <1>5, <2>1
  <2> HIDE DEF m
  <2>3. told \subseteq Int
    OBVIOUS
  <2> HIDE DEF told
  <2>4. last \in told /\ \A x \in told : x <= last
    BY <2>2
  <2> HIDE DEF last
  <2>5. last = m
    <3>1. m <= last /\ last <= m
      BY <2>2, <2>4
    <3>2. m \in Int /\ last \in Int
      BY <2>2, <2>3, <2>4
    <3>3. QED
      BY <3>1, <3>2
  <2>6. lines[last] = LineOf(q) /\ \E c \in LineOf(q).changes : c.field = f
    BY <1>3, <2>5 DEF m
  <2>7. LineOf(q).changes = Changes(q)
    BY DEF LineOf
  <2>8. \A c \in Changes(q) : c.field = f => c.new = row[f]
    BY <2>1 DEF Changes
  <2>9. (CHOOSE c \in LineOf(q).changes : c.field = f).new = row[f]
    BY <2>6, <2>7, <2>8
  <2>10. told # {}
    BY <2>2
  <2>11. QED
    BY <1>6, <2>6, <2>9, <2>10
<1>9. QED
  BY <1>7, <1>8

LEMMA InitReplays == Init => ReplayInv
<1> SUFFICES ASSUME Init PROVE ReplayInv
  OBVIOUS
<1>1. saved = {} /\ row = None /\ \A r \in Requests : pc[r] # "stopped"
  BY DEF Init
<1>2. \A f : Changers(f) = {}
  BY <1>1 DEF Changers
<1>3. QED
  BY <1>1, <1>2 DEF ReplayInv, StoppedIsLost, Chain, AllFromLast, FromLast

\* Without a race or a lost event, the history replays to the record.
THEOREM HistoryIsComplete == Spec => []HistoryReplays
<1>1. IInv /\ ReplayInv => HistoryReplays
  <2> SUFFICES ASSUME IInv, ReplayInv, kind = "Deadline", row # None, ~ Raced, lost = {},
                      \A r \in Requests : pc[r] # "audit",
                      NEW r \in saved, held[r] = None
               PROVE  /\ row.person = Replay("person", NextRow(r).person, row.version)
                      /\ row.state = Replay("state", NextRow(r).state, row.version)
    BY DEF HistoryReplays
  <2>1. \A f \in Fields : row[f] = Replay(f, NextRow(r)[f], row.version)
    BY ReplayEndsAtRow
  <2>2. "person" \in Fields /\ "state" \in Fields
    BY DEF Fields
  <2>3. row["person"] = Replay("person", NextRow(r)["person"], row.version)
    BY <2>1, <2>2
  <2>4. row["state"] = Replay("state", NextRow(r)["state"], row.version)
    BY <2>1, <2>2
  <2>5. QED
    BY <2>3, <2>4
<1>2. Init => ReplayInv
  BY InitReplays
<1>3. Spec => []ReplayInv
  BY <1>2, SpecIInv, NextReplays, PTL DEF Spec
<1>4. QED
  BY <1>1, <1>3, SpecIInv, PTL
=============================================================================
