---------------------- MODULE DiaryAndDocuments_proofs ----------------------
(***************************************************************************)
(* Theorems about what a case keeps: its hearings and its papers.          *)
(*                                                                         *)
(* CaseDiary: its types; that the next undisturbed write of a case or of   *)
(* its hearings heals the stored next-hearing date; that a completed       *)
(* appearance is frozen for whoever runs undisturbed.                      *)
(*                                                                         *)
(* DocumentSweeps: its types; that a status never promises what is not     *)
(* there; that no retry bills a written page again; that a tick keeps its  *)
(* budget; that a settled paper is not taken up again.                     *)
(*                                                                         *)
(* No theorem speaks of both: the two share no constant and no variable.   *)
(***************************************************************************)
EXTENDS CaseDiary, DocumentSweeps, FiniteSetTheorems, WellFoundedInduction, TLAPS

-----------------------------------------------------------------------------
(* CaseDiary                                                               *)

\* What a request has in hand at each stage.
StageOf(r) ==
    /\ pc[r] # "idle" => call[r] \in Call
    /\ pc[r] = "load" => call[r].op \in {"edit", "record"}
    /\ pc[r] = "write" => /\ call[r].op \in {"schedule", "edit", "record"}
                          /\ call[r].op # "schedule" => row[r] \in HearingRow
    /\ pc[r] = "readCase" => /\ call[r].op \in {"schedule", "edit", "record"}
                             /\ target[r] \in Cases
    /\ pc[r] \in {"loadCase", "recompute", "saveCase"} =>
          /\ target[r] \in Cases
          /\ call[r].op # "lifecycle" => sent[r] \in Bodies
    /\ pc[r] = "recompute" => call[r].op # "lifecycle"
    /\ pc[r] \in {"recompute", "saveCase"} => row[r] \in CaseRow
    /\ pc[r] = "followUp" => /\ target[r] \in Cases
                             /\ call[r].op = "record" /\ call[r].next \in Days

InHand == \A r \in Requests : StageOf(r)

\* Nobody else is under way beside an undisturbed request.
Alone ==
    \A r, o \in Requests : undisturbed[r] /\ Busy(r) /\ Busy(o) => o = r

\* Until it is saved, an undisturbed recomputation is what the table says.
Fresh ==
    \A r \in Requests :
        undisturbed[r] /\ pc[r] = "saveCase" /\ call[r].op # "lifecycle"
        => fact[r] = NextHearing(target[r])

IInv == TypeOK /\ InHand /\ Alone /\ Fresh

-----------------------------------------------------------------------------
\* A set of days has its earliest, so the recomputed date is a day or none:
\* what the ascending, one-row query of the recompute step returns.
LEMMA EarliestOfDays ==
    ASSUME NEW days \in SUBSET Days
    PROVE  /\ days = {} => Earliest(days) = None
           /\ days # {} => /\ Earliest(days) \in days
                           /\ \A e \in days : Earliest(days) <= e
<1>1. CASE days = {}
  BY <1>1 DEF Earliest
<1>2. CASE days # {}
  <2> DEFINE Before == {ss \in Nat \X Nat : ss[1] < ss[2]}
  <2>1. days \subseteq Nat
    BY LastDayAssumption DEF Days
  <2>2. IsWellFoundedOn(Before, Nat)
    BY NatLessThanWellFounded, Zenon DEF OpToRel
  <2>3. PICK d \in days : \A e \in days : <<e, d>> \notin Before
    <3> HIDE DEF Before
    <3> QED BY <1>2, <2>1, <2>2, WFMin
  <2>4. \A e \in days : d <= e
    <3>1. SUFFICES ASSUME NEW e \in days, e < d PROVE FALSE
      BY <2>1
    <3>2. <<e, d>> \in Nat \X Nat
      BY <2>1
    <3>3. <<e, d>> \in Before
      BY <3>1, <3>2
    <3> QED BY <2>3, <3>3
  <2>5. Earliest(days) = CHOOSE f \in days : \A e \in days : f <= e
    BY <1>2 DEF Earliest
  <2>6. Earliest(days) \in days /\ \A e \in days : Earliest(days) <= e
    BY <2>4, <2>5
  <2> QED BY <1>2, <2>6
<1> QED BY <1>1, <1>2

\* The recomputed value is a day or none.
LEMMA EarliestIsADay ==
    ASSUME NEW days \in SUBSET Days
    PROVE  Earliest(days) \in Days \cup {None}
BY EarliestOfDays

\* The date recomputed for a case is a day or none.
LEMMA NextHearingIsADay ==
    ASSUME TypeOK, NEW c \in Cases
    PROVE  NextHearing(c) \in Days \cup {None}
<1>1. OpenDays(hearings, c, today) \in SUBSET Days
  BY DEF TypeOK, OpenDays, HearingRow
<1> QED BY <1>1, EarliestIsADay DEF NextHearing

-----------------------------------------------------------------------------
(* Types.                                                                  *)

\* What a request has in hand depends on its own variables only.
LEMMA StageOfItsOwn ==
    ASSUME NEW q \in Requests, StageOf(q),
           pc'[q] = pc[q], call'[q] = call[q], row'[q] = row[q],
           target'[q] = target[q], sent'[q] = sent[q]
    PROVE  StageOf(q)'
BY DEF StageOf

\* At boot every variable has its type and no request has anything in hand.
LEMMA TypesInitially == Init => TypeOK /\ InHand
<1> SUFFICES ASSUME Init PROVE TypeOK /\ InHand
  OBVIOUS
<1>1. \A c \in Cases : NextHearing(c) \in Days \cup {None}
  <2> SUFFICES ASSUME NEW c \in Cases PROVE NextHearing(c) \in Days \cup {None}
    OBVIOUS
  <2>1. OpenDays(hearings, c, today) \in SUBSET Days
    BY DEF Init, OpenDays, HearingRow
  <2> QED BY <2>1, EarliestIsADay DEF NextHearing
<1>2. cases \in [Cases -> CaseRow]
  BY <1>1 DEF Init, CaseRow, Lifecycles
<1>3. TypeOK
  BY <1>2 DEF Init, TypeOK, Stages
<1>4. InHand
  BY DEF Init, InHand, StageOf
<1> QED BY <1>3, <1>4

\* Every step keeps the types and gives each stage what it needs.
LEMMA TypesKept ==
    TypeOK /\ InHand /\ [Next]_vars => TypeOK' /\ InHand'
<1> SUFFICES ASSUME TypeOK, InHand, [Next]_vars
             PROVE  TypeOK' /\ InHand'
  OBVIOUS
<1> USE DEF TypeOK
<1>1. ASSUME NEW r \in Requests, Receive(r) PROVE TypeOK' /\ InHand'
  <2>1. PICK c \in Call :
          /\ call' = [call EXCEPT ![r] = c]
          /\ target' = [target EXCEPT ![r] =
                 IF c.op \in {"amend", "lifecycle"} THEN c.case ELSE None]
          /\ sent' = [sent EXCEPT ![r] = IF c.op = "amend" THEN c.body ELSE None]
          /\ Goto(r, CASE c.op = "schedule"             -> "write"
                       [] c.op \in {"edit", "record"}   -> "load"
                       [] c.op \in {"amend", "lifecycle"} -> "loadCase")
    BY <1>1 DEF Receive
  <2>2. \/ c.op = "schedule" /\ pc'[r] = "write"
        \/ c.op \in {"edit", "record"} /\ pc'[r] = "load"
        \/ c.op = "amend" /\ pc'[r] = "loadCase" /\ c.case \in Cases /\ c.body \in Bodies
        \/ c.op = "lifecycle" /\ pc'[r] = "loadCase" /\ c.case \in Cases
    BY <2>1 DEF Call, Goto
  <2>3. TypeOK'
    <3>1. pc' \in [Requests -> Stages]
      BY <2>1, <2>2 DEF Goto, Stages
    <3>2. call' \in [Requests -> Call \cup {None}]
      BY <2>1
    <3>3. target' \in [Requests -> Cases \cup {None}]
      BY <2>1, <2>2
    <3>4. sent' \in [Requests -> Bodies \cup {None}]
      BY <2>1, <2>2
    <3>5. undisturbed' \in [Requests -> BOOLEAN]
      BY <1>1 DEF Receive
    <3> QED BY <1>1, <3>1, <3>2, <3>3, <3>4, <3>5 DEF Receive
  <2>4. InHand'
    <3> SUFFICES ASSUME NEW q \in Requests PROVE StageOf(q)'
      BY DEF InHand
    <3>1. CASE q = r
      <4>1. call'[r] = c /\ target'[r] = (IF c.op \in {"amend", "lifecycle"} THEN c.case ELSE None)
              /\ sent'[r] = (IF c.op = "amend" THEN c.body ELSE None)
        BY <2>1
      <4> QED BY <2>2, <3>1, <4>1 DEF StageOf
    <3>2. CASE q # r
      BY <1>1, <2>1, <3>2, StageOfItsOwn DEF Receive, Goto, InHand
    <3> QED BY <3>1, <3>2
  <2> QED BY <2>3, <2>4
<1>2. ASSUME NEW r \in Requests, Load(r) PROVE TypeOK' /\ InHand'
  <2> DEFINE found == hearings[call[r].id]
  <2>0. \/ /\ found \in HearingRow
           /\ row' = [row EXCEPT ![r] = found]
           /\ pc' = [pc EXCEPT ![r] = "write"]
        \/ row' = row /\ pc' = [pc EXCEPT ![r] = "refused"]
    <3>1. call[r] \in Call /\ call[r].op \in {"edit", "record"}
      BY <1>2 DEF Load, InHand, StageOf
    <3>2. found \in HearingRow \cup {None}
      BY <3>1 DEF Call
    <3> QED BY <1>2, <3>2 DEF Load, Goto, Admits
  <2> HIDE DEF found
  <2>1. TypeOK'
    BY <1>2, <2>0 DEF Load, Stages
  <2>2. InHand'
    <3> SUFFICES ASSUME NEW q \in Requests PROVE StageOf(q)'
      BY DEF InHand
    <3>1. CASE q = r
      BY <1>2, <2>0, <3>1 DEF Load, InHand, StageOf
    <3>2. CASE q # r
      BY <1>2, <3>2, StageOfItsOwn DEF Load, Goto, InHand, request
    <3> QED BY <3>1, <3>2
  <2> QED BY <2>1, <2>2
<1>3. ASSUME NEW r \in Requests, Refuse(r) PROVE TypeOK' /\ InHand'
  <2>1. TypeOK'
    BY <1>3 DEF Refuse, Goto, Stages, request
  <2>2. InHand'
    <3> SUFFICES ASSUME NEW q \in Requests PROVE StageOf(q)'
      BY DEF InHand
    <3>1. CASE q = r
      BY <1>3, <3>1 DEF Refuse, Goto, InHand, StageOf, request
    <3>2. CASE q # r
      BY <1>3, <3>2, StageOfItsOwn DEF Refuse, Goto, InHand, request
    <3> QED BY <3>1, <3>2
  <2> QED BY <2>1, <2>2
<1>4. ASSUME NEW r \in Requests, WriteHearing(r) PROVE TypeOK' /\ InHand'
  <2> DEFINE new == CASE call[r].op = "schedule" ->
                         [case |-> call[r].case, date |-> call[r].date, outcome |-> None]
                    [] call[r].op = "edit" ->
                         [case |-> call[r].case, date |-> call[r].date,
                          outcome |-> row[r].outcome]
                    [] call[r].op = "record" -> [row[r] EXCEPT !.outcome = r]
             id == IF call[r].op = "schedule" THEN r ELSE call[r].id
  <2>1. /\ call[r] \in Call /\ call[r].op \in {"schedule", "edit", "record"}
        /\ call[r].op # "schedule" => row[r] \in HearingRow
    BY <1>4 DEF WriteHearing, InHand, StageOf
  <2>2. new \in HearingRow
    <3>1. CASE call[r].op = "schedule"
      BY <2>1, <3>1 DEF Call, HearingRow
    <3>2. CASE call[r].op = "edit"
      BY <2>1, <3>2 DEF Call, HearingRow
    <3>3. CASE call[r].op = "record"
      BY <2>1, <3>3 DEF HearingRow
    <3> QED BY <2>1, <3>1, <3>2, <3>3
  <2>3. /\ hearings' = [hearings EXCEPT ![id] = new]
        /\ target' = [target EXCEPT ![r] = new.case]
    BY <1>4 DEF WriteHearing
  <2>4. new.case \in Cases
    BY <2>2 DEF HearingRow
  <2> HIDE DEF new, id
  <2>5. TypeOK'
    <3>1. hearings' \in [Ids -> HearingRow \cup {None}]
      BY <2>2, <2>3
    <3>2. target' \in [Requests -> Cases \cup {None}]
      BY <2>3, <2>4
    <3>3. pc' \in [Requests -> Stages]
      BY <1>4 DEF WriteHearing, Goto, Stages
    <3> QED BY <1>4, <3>1, <3>2, <3>3 DEF WriteHearing
  <2>6. InHand'
    <3> SUFFICES ASSUME NEW q \in Requests PROVE StageOf(q)'
      BY DEF InHand
    <3>1. CASE q = r
      BY <1>4, <2>1, <2>3, <2>4, <3>1 DEF WriteHearing, Goto, StageOf
    <3>2. CASE q # r
      BY <1>4, <2>3, <3>2, StageOfItsOwn DEF WriteHearing, Goto, InHand
    <3> QED BY <3>1, <3>2
  <2> QED BY <2>5, <2>6
<1>5. ASSUME NEW r \in Requests, BookFollowUp(r) PROVE TypeOK' /\ InHand'
  <2>1. TypeOK'
    <3>1. target[r] \in Cases /\ call[r].next \in Days
      BY <1>5 DEF BookFollowUp, InHand, StageOf
    <3>2. [case |-> target[r], date |-> call[r].next, outcome |-> None] \in HearingRow
      BY <3>1 DEF HearingRow
    <3> QED BY <1>5, <3>2 DEF BookFollowUp, Goto, Stages, Ids, request
  <2>2. InHand'
    <3> SUFFICES ASSUME NEW q \in Requests PROVE StageOf(q)'
      BY DEF InHand
    <3>1. CASE q = r
      BY <1>5, <3>1 DEF BookFollowUp, Goto, InHand, StageOf, request
    <3>2. CASE q # r
      BY <1>5, <3>2, StageOfItsOwn DEF BookFollowUp, Goto, InHand, request
    <3> QED BY <3>1, <3>2
  <2> QED BY <2>1, <2>2
<1>6. ASSUME NEW r \in Requests, ReadCase(r) PROVE TypeOK' /\ InHand'
  <2>1. TypeOK'
    BY <1>6 DEF ReadCase, Goto, Stages, InHand, StageOf, CaseRow
  <2>2. InHand'
    <3> SUFFICES ASSUME NEW q \in Requests PROVE StageOf(q)'
      BY DEF InHand
    <3>1. CASE q = r
      BY <1>6, <3>1 DEF ReadCase, Goto, InHand, StageOf, CaseRow
    <3>2. CASE q # r
      BY <1>6, <3>2, StageOfItsOwn DEF ReadCase, Goto, InHand, request
    <3> QED BY <3>1, <3>2
  <2> QED BY <2>1, <2>2
<1>7. ASSUME NEW r \in Requests, LoadCase(r) PROVE TypeOK' /\ InHand'
  <2>1. TypeOK'
    BY <1>7 DEF LoadCase, Goto, Stages, InHand, StageOf
  <2>2. InHand'
    <3> SUFFICES ASSUME NEW q \in Requests PROVE StageOf(q)'
      BY DEF InHand
    <3>1. CASE q = r
      BY <1>7, <3>1 DEF LoadCase, Goto, InHand, StageOf
    <3>2. CASE q # r
      BY <1>7, <3>2, StageOfItsOwn DEF LoadCase, Goto, InHand, request
    <3> QED BY <3>1, <3>2
  <2> QED BY <2>1, <2>2
<1>8. ASSUME NEW r \in Requests, Recompute(r) PROVE TypeOK' /\ InHand'
  <2>0. target[r] \in Cases
    BY <1>8 DEF Recompute, InHand, StageOf
  <2>1. TypeOK'
    BY <1>8, <2>0, NextHearingIsADay DEF Recompute, Goto, Stages
  <2>2. InHand'
    <3> SUFFICES ASSUME NEW q \in Requests PROVE StageOf(q)'
      BY DEF InHand
    <3>1. CASE q = r
      BY <1>8, <3>1 DEF Recompute, Goto, InHand, StageOf
    <3>2. CASE q # r
      BY <1>8, <3>2, StageOfItsOwn DEF Recompute, Goto, InHand, request
    <3> QED BY <3>1, <3>2
  <2> QED BY <2>1, <2>2
<1>9. ASSUME NEW r \in Requests, SaveCase(r) PROVE TypeOK' /\ InHand'
  <2> DEFINE new == IF call[r].op = "lifecycle"
                    THEN [row[r] EXCEPT !.lifecycle = call[r].to]
                    ELSE [body |-> sent[r], lifecycle |-> row[r].lifecycle,
                          next |-> fact[r]]
  <2>1. /\ call[r] \in Call /\ target[r] \in Cases /\ row[r] \in CaseRow
        /\ call[r].op # "lifecycle" => sent[r] \in Bodies
    BY <1>9 DEF SaveCase, InHand, StageOf
  <2>2. new \in CaseRow
    <3>1. CASE call[r].op = "lifecycle"
      <4>1. call[r].to \in Lifecycles
        BY <2>1, <3>1 DEF Call
      <4> QED BY <2>1, <3>1, <4>1 DEF CaseRow
    <3>2. CASE call[r].op # "lifecycle"
      BY <2>1, <3>2 DEF CaseRow
    <3> QED BY <3>1, <3>2
  <2>3. cases' = [cases EXCEPT ![target[r]] = new]
    BY <1>9 DEF SaveCase
  <2> HIDE DEF new
  <2>4. \/ pc' = [pc EXCEPT ![r] = "done"]
        \/ /\ pc' = [pc EXCEPT ![r] = "followUp"]
           /\ call[r].op = "record" /\ call[r].next \in Days
    BY <1>9, <2>1 DEF SaveCase, Goto, AfterRefresh, Call
  <2>5. TypeOK'
    <3>1. cases' \in [Cases -> CaseRow]
      BY <2>2, <2>3
    <3>2. pc' \in [Requests -> Stages]
      BY <2>4 DEF Stages
    <3> QED BY <1>9, <3>1, <3>2 DEF SaveCase, request
  <2>6. InHand'
    <3> SUFFICES ASSUME NEW q \in Requests PROVE StageOf(q)'
      BY DEF InHand
    <3>1. CASE q = r
      BY <1>9, <2>1, <2>4, <3>1 DEF SaveCase, StageOf, request
    <3>2. CASE q # r
      BY <1>9, <2>4, <3>2, StageOfItsOwn DEF SaveCase, InHand, request
    <3> QED BY <3>1, <3>2
  <2> QED BY <2>5, <2>6
<1>10. ASSUME NEW r \in Requests, LoseEvent(r) PROVE TypeOK' /\ InHand'
  <2>1. call[r] \in Call /\ target[r] \in Cases
    BY <1>10 DEF LoseEvent, InHand, StageOf
  <2>2. \/ pc' = [pc EXCEPT ![r] = "done"]
        \/ /\ pc' = [pc EXCEPT ![r] = "followUp"]
           /\ call[r].op = "record" /\ call[r].next \in Days
    BY <1>10, <2>1 DEF LoseEvent, Goto, AfterRefresh, Call
  <2>3. TypeOK'
    BY <1>10, <2>2 DEF LoseEvent, Stages, request
  <2>4. InHand'
    <3> SUFFICES ASSUME NEW q \in Requests PROVE StageOf(q)'
      BY DEF InHand
    <3>1. CASE q = r
      BY <1>10, <2>1, <2>2, <3>1 DEF LoseEvent, StageOf, request
    <3>2. CASE q # r
      BY <1>10, <2>2, <3>2, StageOfItsOwn DEF LoseEvent, InHand, request
    <3> QED BY <3>1, <3>2
  <2> QED BY <2>3, <2>4
<1>11. ASSUME NEW r \in Requests, Stop(r) PROVE TypeOK' /\ InHand'
  <2>1. TypeOK'
    BY <1>11 DEF Stop, Goto, Stages, request
  <2>2. InHand'
    <3> SUFFICES ASSUME NEW q \in Requests PROVE StageOf(q)'
      BY DEF InHand
    <3>1. CASE q = r
      BY <1>11, <3>1 DEF Stop, Goto, Busy, InHand, StageOf, request
    <3>2. CASE q # r
      BY <1>11, <3>2, StageOfItsOwn DEF Stop, Goto, InHand, request
    <3> QED BY <3>1, <3>2
  <2> QED BY <2>1, <2>2
<1>12. CASE NextDay
  <2>1. TypeOK'
    BY <1>12, LastDayAssumption DEF NextDay, Days, request
  <2>2. \A q \in Requests : StageOf(q)'
    BY <1>12, StageOfItsOwn DEF NextDay, InHand, request
  <2> QED BY <2>1, <2>2 DEF InHand
<1>13. CASE UNCHANGED vars
  BY <1>13, StageOfItsOwn DEF vars, InHand
<1> QED
  BY <1>1, <1>2, <1>3, <1>4, <1>5, <1>6, <1>7, <1>8, <1>9, <1>10, <1>11, <1>12,
     <1>13 DEF Next, RequestStep
-----------------------------------------------------------------------------
(* The stored date heals.                                                  *)

\* A step by which nobody begins leaves the undisturbed request alone.
LEMMA AloneStays ==
    ASSUME Alone,
           \A x \in Requests : undisturbed'[x] => undisturbed[x],
           \A x \in Requests : Busy(x)' => Busy(x)
    PROVE  Alone'
BY DEF Alone

\* While the hearings and the day stand still, a recomputation stays right.
LEMMA FreshStays ==
    ASSUME Fresh, hearings' = hearings, today' = today,
           NEW q \in Requests,
           undisturbed'[q] => undisturbed[q], pc'[q] = pc[q],
           call'[q] = call[q], fact'[q] = fact[q], target'[q] = target[q]
    PROVE  undisturbed'[q] /\ pc'[q] = "saveCase" /\ call'[q].op # "lifecycle"
           => fact'[q] = NextHearing(target[q])'
BY DEF Fresh, NextHearing

\* Whoever is undisturbed stays alone until it is answered.
LEMMA AloneKept == IInv /\ [Next]_vars => Alone'
<1> SUFFICES ASSUME IInv, [Next]_vars PROVE Alone'
  OBVIOUS
<1> USE DEF IInv, TypeOK
<1>1. ASSUME NEW r \in Requests, Receive(r) PROVE Alone'
  <2>1. \A q \in Requests : undisturbed'[q] =>
           q = r /\ \A o \in Requests \ {r} : ~ Busy(o)
    BY <1>1 DEF Receive
  <2>2. \A o \in Requests \ {r} : pc'[o] = pc[o]
    BY <1>1 DEF Receive, Goto
  <2> QED BY <2>1, <2>2 DEF Alone, Busy
<1>2. ASSUME NEW r \in Requests,
             \/ Load(r) \/ Refuse(r) \/ WriteHearing(r) \/ BookFollowUp(r)
             \/ ReadCase(r) \/ LoadCase(r) \/ Recompute(r) \/ SaveCase(r)
             \/ LoseEvent(r) \/ Stop(r)
      PROVE  Alone'
  <2>1. Busy(r)
    BY <1>2 DEF Load, Refuse, WriteHearing, BookFollowUp, ReadCase, LoadCase,
                Recompute, SaveCase, LoseEvent, Stop, Busy
  <2>2. \A x \in Requests \ {r} : pc'[x] = pc[x]
    BY <1>2 DEF Load, Refuse, WriteHearing, BookFollowUp, ReadCase, LoadCase,
                Recompute, SaveCase, LoseEvent, Stop, Goto
  <2>3. \A x \in Requests : undisturbed'[x] => undisturbed[x]
    BY <1>2 DEF Load, Refuse, WriteHearing, BookFollowUp, ReadCase, LoadCase,
                Recompute, SaveCase, LoseEvent, Stop
  <2>4. \A x \in Requests : Busy(x)' => Busy(x)
    BY <2>1, <2>2 DEF Busy
  <2> QED BY <2>3, <2>4, AloneStays
<1>3. CASE NextDay
  BY <1>3 DEF NextDay, Alone
<1>4. CASE UNCHANGED vars
  BY <1>4 DEF vars, Alone, Busy
<1> QED
  BY <1>1, <1>2, <1>3, <1>4 DEF Next, RequestStep

\* What an undisturbed request has recomputed is not overtaken.
LEMMA FreshKept == IInv /\ [Next]_vars => Fresh'
<1> SUFFICES ASSUME IInv, [Next]_vars, NEW q \in Requests
             PROVE  undisturbed'[q] /\ pc'[q] = "saveCase" /\ call'[q].op # "lifecycle"
                    => fact'[q] = NextHearing(target[q])'
  BY DEF Fresh, NextHearing
<1> USE DEF IInv, TypeOK
<1>1. ASSUME NEW r \in Requests, Receive(r), undisturbed'[q] PROVE pc'[q] # "saveCase"
  <2>1. q = r
    BY <1>1 DEF Receive
  <2>2. PICK c \in Call :
          Goto(r, CASE c.op = "schedule"             -> "write"
                    [] c.op \in {"edit", "record"}   -> "load"
                    [] c.op \in {"amend", "lifecycle"} -> "loadCase")
    BY <1>1 DEF Receive
  <2> QED BY <2>1, <2>2 DEF Call, Goto
<1>2. ASSUME NEW r \in Requests, WriteHearing(r) \/ BookFollowUp(r), undisturbed'[q]
      PROVE  pc'[q] # "saveCase"
  <2>1. Busy(r) /\ undisturbed[q] /\ pc'[r] = "readCase"
    BY <1>2 DEF WriteHearing, BookFollowUp, Busy, Goto
  <2>2. CASE q = r
    BY <2>1, <2>2
  <2>3. CASE q # r
    <3>1. pc'[q] = pc[q]
      BY <1>2, <2>3 DEF WriteHearing, BookFollowUp, Goto
    <3> QED BY <2>1, <2>3, <3>1 DEF Alone, Busy
  <2> QED BY <2>2, <2>3
<1>3. ASSUME NEW r \in Requests,
             \/ Load(r) \/ Refuse(r) \/ ReadCase(r) \/ LoadCase(r) \/ SaveCase(r)
             \/ LoseEvent(r) \/ Stop(r)
      PROVE  undisturbed'[q] /\ pc'[q] = "saveCase" /\ call'[q].op # "lifecycle"
             => fact'[q] = NextHearing(target[q])'
  <2>1. CASE q = r
    <3>1. pc'[q] = "saveCase" => call'[q].op = "lifecycle"
      BY <1>3, <2>1 DEF Load, Refuse, ReadCase, LoadCase, SaveCase, LoseEvent, Stop,
                        Goto, AfterRefresh, request
    <3> QED BY <3>1
  <2>2. CASE q # r
    <3>1. /\ hearings' = hearings /\ today' = today
          /\ undisturbed'[q] => undisturbed[q]
          /\ pc'[q] = pc[q] /\ call'[q] = call[q]
          /\ fact'[q] = fact[q] /\ target'[q] = target[q]
      BY <1>3, <2>2 DEF Load, Refuse, ReadCase, LoadCase, SaveCase, LoseEvent, Stop,
                        Goto, request
    <3> QED BY <3>1, FreshStays
  <2> QED BY <2>1, <2>2
<1>4. ASSUME NEW r \in Requests, Recompute(r)
      PROVE  undisturbed'[q] /\ pc'[q] = "saveCase" /\ call'[q].op # "lifecycle"
             => fact'[q] = NextHearing(target[q])'
  <2>1. CASE q = r
    BY <1>4, <2>1 DEF Recompute, NextHearing
  <2>2. CASE q # r
    BY <1>4, <2>2, FreshStays DEF Recompute, Goto
  <2> QED BY <2>1, <2>2
<1>5. CASE NextDay
  BY <1>5 DEF NextDay
<1>6. CASE UNCHANGED vars
  BY <1>6, FreshStays DEF vars
<1> QED
  BY <1>1, <1>2, <1>3, <1>4, <1>5, <1>6 DEF Next, RequestStep

\* The inductive invariant holds of every behaviour.
LEMMA Invariance == Spec => []IInv
<1>1. Init => IInv
  BY TypesInitially DEF Init, IInv, Alone, Fresh
<1>2. IInv /\ [Next]_vars => IInv'
  BY TypesKept, AloneKept, FreshKept DEF IInv
<1> QED BY <1>1, <1>2, PTL DEF Spec

\* Every variable has its type, for any number of requests, cases and days.
THEOREM TypeCorrect == Spec => []TypeOK
<1>1. IInv => TypeOK
  BY DEF IInv
<1> QED BY <1>1, Invariance, PTL

\* The operator of the recompute step returns the date the diary owes a case.
LEMMA NextHearingIsNext ==
    TypeOK => \A c \in Cases :
                 cases[c].next = NextHearing(c) => StoresNextHearing(c)
<1> SUFFICES ASSUME TypeOK, NEW c \in Cases, cases[c].next = NextHearing(c)
             PROVE  StoresNextHearing(c)
  OBVIOUS
<1> DEFINE ahead == {h \in Ids : /\ hearings[h] # None /\ hearings[h].case = c
                                 /\ hearings[h].outcome = None
                                 /\ hearings[h].date >= today}
           days == {hearings[h].date : h \in ahead}
<1>1. OpenDays(hearings, c, today) = days
  BY DEF OpenDays
<1>2. days \in SUBSET Days
  BY DEF TypeOK, HearingRow
<1>3. cases[c].next = Earliest(days)
  BY <1>1 DEF NextHearing
<1>4. ahead = {} => cases[c].next = None
  BY <1>2, <1>3, EarliestOfDays
<1>5. ASSUME ahead # {}
      PROVE  \E h \in ahead : /\ cases[c].next = hearings[h].date
                              /\ \A g \in ahead : hearings[h].date <= hearings[g].date
  <2>1. Earliest(days) \in days /\ \A e \in days : Earliest(days) <= e
    <3>1. days # {}
      BY <1>5
    <3> HIDE DEF days
    <3> QED BY <1>2, <3>1, EarliestOfDays
  <2>2. PICK h \in ahead : Earliest(days) = hearings[h].date
    BY <2>1
  <2>3. \A g \in ahead : hearings[h].date <= hearings[g].date
    BY <2>1, <2>2
  <2> QED BY <1>3, <2>2, <2>3
<1> QED BY <1>4, <1>5 DEF StoresNextHearing

\* Before its follow-up, an undisturbed request's case stores what is next.
Refreshed ==
    \A r \in Requests :
        undisturbed[r] /\ pc[r] = "followUp"
        => cases[target[r]].next = NextHearing(target[r])

\* Only the request's own save leads there, and nobody comes between.
LEMMA RefreshedKept == IInv /\ Refreshed /\ [Next]_vars => Refreshed'
<1> SUFFICES ASSUME IInv, Refreshed, [Next]_vars, NEW q \in Requests,
                    undisturbed'[q], pc'[q] = "followUp"
             PROVE  cases'[target'[q]].next = NextHearing(target[q])'
  BY DEF Refreshed, NextHearing
<1> USE DEF IInv, TypeOK
<1>1. CASE NextDay
  BY <1>1 DEF NextDay
<1>2. CASE UNCHANGED vars
  BY <1>2 DEF vars, Refreshed, NextHearing
<1>3. ASSUME NEW r \in Requests, RequestStep(r), q # r PROVE FALSE
  <2>1. pc[q] = "followUp"
    BY <1>3 DEF RequestStep, Receive, Load, Refuse, WriteHearing, BookFollowUp, ReadCase,
                LoadCase, Recompute, SaveCase, LoseEvent, Stop, Goto
  <2>2. ~ Receive(r)
    BY <1>3 DEF Receive
  <2>3. undisturbed[q] /\ Busy(r)
    BY <1>3, <2>2 DEF RequestStep, Load, Refuse, WriteHearing, BookFollowUp, ReadCase,
                LoadCase, Recompute, SaveCase, LoseEvent, Stop, Busy
  <2> QED BY <1>3, <2>1, <2>3 DEF Alone, Busy
<1>4. ASSUME RequestStep(q) PROVE cases'[target'[q]].next = NextHearing(target[q])'
  <2>1. ~ Receive(q)
    <3> SUFFICES ASSUME Receive(q) PROVE FALSE
      OBVIOUS
    <3>1. PICK c \in Call :
            Goto(q, CASE c.op = "schedule"             -> "write"
                      [] c.op \in {"edit", "record"}   -> "load"
                      [] c.op \in {"amend", "lifecycle"} -> "loadCase")
      BY DEF Receive
    <3> QED BY <3>1 DEF Call, Goto
  <2>2. ~ LoseEvent(q)
    BY DEF LoseEvent
  <2>3. SaveCase(q)
    BY <1>4, <2>1, <2>2 DEF RequestStep, Load, Refuse, WriteHearing, BookFollowUp,
                ReadCase, LoadCase, Recompute, Stop, Goto
  <2>4. OnHearing(q)
    BY <2>3 DEF SaveCase, Goto
  <2>5. /\ undisturbed[q] /\ pc[q] = "saveCase" /\ target[q] \in Cases
        /\ target'[q] = target[q] /\ hearings' = hearings /\ today' = today
        /\ call[q].op # "lifecycle" /\ cases'[target[q]].next = fact[q]
    BY <2>3, <2>4 DEF SaveCase, InHand, StageOf, request, OnHearing
  <2> QED BY <2>5 DEF Fresh, NextHearing
<1> QED BY <1>1, <1>2, <1>3, <1>4 DEF Next

\* Self-healing by construction: whatever races, lost events and midnights
\* left, the next undisturbed write of a case or of its hearings stores the
\* date that the Hearings table says, and a recording whose follow-up is
\* refused or cut off has stored it as well.
THEOREM NextWriteRecomputes == Spec => NextWriteHeals
<1>1. IInv /\ Refreshed /\ [Next]_vars =>
        [\A r \in Requests :
            undisturbed'[r] /\ (Finishes(r) \/ LosesFollowUp(r))
              /\ call[r].op # "lifecycle"
            => StoresNextHearing(target[r])']_vars
  <2> SUFFICES ASSUME IInv, Refreshed, Next, NEW r \in Requests,
                      undisturbed'[r], call[r].op # "lifecycle"
               PROVE  Finishes(r) \/ LosesFollowUp(r) => StoresNextHearing(target[r])'
    OBVIOUS
  <2> USE DEF IInv, TypeOK
  <2>0. ASSUME target[r] \in Cases, target'[r] = target[r],
               cases'[target[r]].next = NextHearing(target[r])'
        PROVE  StoresNextHearing(target[r])'
    <3>1. TypeOK'
      BY TypesKept
    <3>2. (\A c \in Cases : cases[c].next = NextHearing(c) => StoresNextHearing(c))'
      BY <3>1, NextHearingIsNext, PTL
    <3>3. PICK c \in Cases : c = target[r]
      BY <2>0
    <3>4. (cases[c].next = NextHearing(c))'
      BY <2>0, <3>3 DEF NextHearing
    <3>5. StoresNextHearing(c)'
      BY <3>2, <3>4
    <3> QED BY <2>0, <3>3, <3>5 DEF StoresNextHearing
  <2>1. ASSUME Finishes(r) PROVE StoresNextHearing(target[r])'
    <3>1. SaveCase(r)
      <4>1. PICK q \in Requests : RequestStep(q)
        BY <2>1 DEF Next, NextDay, Finishes
      <4>2. q = r
        BY <2>1, <4>1 DEF RequestStep, Finishes, Receive, Load, Refuse, WriteHearing,
                    BookFollowUp, ReadCase, LoadCase, Recompute, SaveCase, LoseEvent,
                    Stop, Goto
      <4>3. ~ LoseEvent(r)
        BY DEF LoseEvent
      <4>4. ~ Receive(r)
        <5> SUFFICES ASSUME Receive(r) PROVE FALSE
          OBVIOUS
        <5>1. PICK c \in Call :
                Goto(r, CASE c.op = "schedule"             -> "write"
                          [] c.op \in {"edit", "record"}   -> "load"
                          [] c.op \in {"amend", "lifecycle"} -> "loadCase")
          BY DEF Receive
        <5> QED BY <2>1, <5>1 DEF Call, Goto, Finishes
      <4> QED
        BY <2>1, <4>1, <4>2, <4>3, <4>4 DEF RequestStep, Finishes, Load, Refuse, WriteHearing,
           BookFollowUp, ReadCase, LoadCase, Recompute, Stop, Goto
    <3>2. /\ undisturbed[r] /\ pc[r] = "saveCase" /\ target[r] \in Cases
          /\ target'[r] = target[r] /\ hearings' = hearings /\ today' = today
          /\ cases'[target[r]].next = fact[r]
      BY <3>1 DEF SaveCase, InHand, StageOf, request
    <3>3. cases'[target[r]].next = NextHearing(target[r])'
      BY <3>2 DEF Fresh, NextHearing
    <3> QED BY <2>0, <3>2, <3>3
  <2>2. ASSUME LosesFollowUp(r) PROVE StoresNextHearing(target[r])'
    <3>1. PICK q \in Requests : RequestStep(q)
      BY <2>2 DEF Next, NextDay, LosesFollowUp
    <3>2. q = r
      BY <2>2, <3>1 DEF RequestStep, LosesFollowUp, Receive, Load, Refuse, WriteHearing,
                  BookFollowUp, ReadCase, LoadCase, Recompute, SaveCase, LoseEvent,
                  Stop, Goto
    <3>3. Refuse(r) \/ Stop(r)
      BY <2>2, <3>1, <3>2 DEF RequestStep, LosesFollowUp, Receive, Load, WriteHearing,
                  BookFollowUp, ReadCase, LoadCase, Recompute, SaveCase, LoseEvent, Goto
    <3>4. /\ undisturbed[r] /\ pc[r] = "followUp" /\ target[r] \in Cases
          /\ UNCHANGED <<cases, hearings, today, target>>
      BY <2>2, <3>3 DEF Refuse, Stop, LosesFollowUp, request, InHand, StageOf
    <3>5. cases'[target[r]].next = NextHearing(target[r])'
      BY <3>4 DEF Refreshed, NextHearing
    <3> QED BY <2>0, <3>4, <3>5
  <2> QED BY <2>1, <2>2
<1>2. Init => Refreshed
  BY DEF Init, Refreshed
<1> QED BY <1>1, <1>2, Invariance, RefreshedKept, PTL DEF Spec, NextWriteHeals
-----------------------------------------------------------------------------
(* Completed appearances and their follow-ups.                             *)

\* The hearing a request writes: its own, or the one it names.
WrittenId(r) == IF call[r].op = "schedule" THEN r ELSE call[r].id

\* The hearing a request is about to write over is in the table.
Named ==
    \A r \in Requests :
        pc[r] = "write" /\ call[r].op # "schedule" => hearings[call[r].id] # None

\* A request that has not created its hearing yet finds its id free.
OwnIdIsFree ==
    \A r \in Requests :
        pc[r] \in {"idle", "load", "write", "followUp"} => hearings[r] = None

\* The hearing an undisturbed request has loaded is still without outcome.
StillOpen ==
    \A r \in Requests :
        undisturbed[r] /\ pc[r] = "write" /\ call[r].op # "schedule"
        => hearings[call[r].id].outcome = None

HearingsInv == Named /\ OwnIdIsFree /\ StillOpen

\* What a write puts into the Hearings table is a hearing.
LEMMA WritesRow ==
    ASSUME IInv, NEW r \in Requests, WriteHearing(r)
    PROVE  /\ \E new \in HearingRow : hearings' = [hearings EXCEPT ![WrittenId(r)] = new]
           /\ WrittenId(r) \in Ids
<1> DEFINE new == CASE call[r].op = "schedule" ->
                         [case |-> call[r].case, date |-> call[r].date, outcome |-> None]
                    [] call[r].op = "edit" ->
                         [case |-> call[r].case, date |-> call[r].date,
                          outcome |-> row[r].outcome]
                    [] call[r].op = "record" -> [row[r] EXCEPT !.outcome = r]
<1>1. /\ call[r] \in Call /\ call[r].op \in {"schedule", "edit", "record"}
      /\ call[r].op # "schedule" => row[r] \in HearingRow
  BY DEF WriteHearing, IInv, InHand, StageOf
<1>2. new \in HearingRow
  <2>1. CASE call[r].op = "schedule"
    BY <1>1, <2>1 DEF Call, HearingRow
  <2>2. CASE call[r].op = "edit"
    BY <1>1, <2>2 DEF Call, HearingRow
  <2>3. CASE call[r].op = "record"
    BY <1>1, <2>3 DEF HearingRow
  <2> QED BY <1>1, <2>1, <2>2, <2>3
<1>3. hearings' = [hearings EXCEPT ![WrittenId(r)] = new]
  BY DEF WriteHearing, WrittenId
<1>4. WrittenId(r) \in Ids
  BY <1>1 DEF WrittenId, Call, Ids
<1> HIDE DEF new
<1> QED BY <1>2, <1>3, <1>4

\* So is the follow-up.
LEMMA BooksRow ==
    ASSUME IInv, NEW r \in Requests, BookFollowUp(r)
    PROVE  \E new \in HearingRow : hearings' = [hearings EXCEPT ![r] = new]
<1>1. target[r] \in Cases /\ call[r].next \in Days
  BY DEF BookFollowUp, IInv, InHand, StageOf
<1>2. [case |-> target[r], date |-> call[r].next, outcome |-> None] \in HearingRow
  BY <1>1 DEF HearingRow
<1> QED BY <1>2 DEF BookFollowUp

\* A hearing never leaves the table, and only the request it is named after
\* puts it there.
LEMMA RowsStand ==
    ASSUME IInv, HearingsInv, NEW r \in Requests, RequestStep(r)
    PROVE  /\ \A h \in Ids : hearings[h] # None => hearings'[h] # None
           /\ \A q \in Requests \ {r} : hearings[q] = None => hearings'[q] = None
<1> USE DEF IInv, TypeOK
<1>0. \A q \in Requests : q \in Ids
  BY DEF Ids
<1>1. CASE WriteHearing(r)
  <2>1. PICK new \in HearingRow : hearings' = [hearings EXCEPT ![WrittenId(r)] = new]
    BY <1>1, WritesRow
  <2>2. new # None
    BY NoneAssumption
  <2>3. WrittenId(r) = r \/ hearings[WrittenId(r)] # None
    BY <1>1 DEF WriteHearing, HearingsInv, Named, WrittenId
  <2> QED BY <1>0, <2>1, <2>2, <2>3
<1>2. CASE BookFollowUp(r)
  <2>1. PICK new \in HearingRow : hearings' = [hearings EXCEPT ![r] = new]
    BY <1>2, BooksRow
  <2>2. new # None
    BY NoneAssumption
  <2> QED BY <1>0, <2>1, <2>2
<1>3. CASE ~ WriteHearing(r) /\ ~ BookFollowUp(r)
  <2>1. hearings' = hearings
    BY <1>3 DEF RequestStep, Receive, Load, Refuse, ReadCase, LoadCase, Recompute,
                SaveCase, LoseEvent, Stop
  <2> QED BY <2>1
<1> QED BY <1>1, <1>2, <1>3

\* A step leaves the others their stage and call, and the table to those
\* that run undisturbed and are about to write.
LEMMA OthersWait ==
    ASSUME IInv, NEW r \in Requests, RequestStep(r), NEW q \in Requests \ {r}
    PROVE  /\ pc'[q] = pc[q] /\ call'[q] = call[q]
           /\ undisturbed'[q] => undisturbed[q]
           /\ undisturbed'[q] /\ pc[q] = "write" => hearings' = hearings
<1> USE DEF IInv, TypeOK
<1>1. CASE Receive(r)
  BY <1>1 DEF Receive, Goto
<1>2. CASE ~ Receive(r)
  <2>1. /\ pc'[q] = pc[q] /\ call'[q] = call[q]
        /\ undisturbed'[q] => undisturbed[q]
        /\ Busy(r)
    BY <1>2 DEF RequestStep, Load, Refuse, WriteHearing, BookFollowUp, ReadCase,
                LoadCase, Recompute, SaveCase, LoseEvent, Stop, Goto, request, Busy
  <2>2. ~ (undisturbed'[q] /\ pc[q] = "write")
    BY <2>1 DEF Alone, Busy
  <2> QED BY <2>1, <2>2
<1> QED BY <1>1, <1>2

\* What a request's own step finds, when it is then about to write or is
\* answered.
LEMMA OwnStage ==
    ASSUME IInv, HearingsInv, NEW r \in Requests, RequestStep(r)
    PROVE  /\ pc'[r] = "write" /\ call'[r].op # "schedule" =>
                 /\ hearings' = hearings
                 /\ hearings[call'[r].id] # None
                 /\ hearings[call'[r].id].outcome = None
           /\ pc'[r] \in {"idle", "load", "write", "followUp"} => hearings'[r] = None
           /\ pc'[r] = "done" /\ call'[r].op = "record" /\ call'[r].next # None
                 => hearings'[r] # None
<1> USE DEF IInv, TypeOK
<1>1. CASE Receive(r)
  <2>1. PICK c \in Call :
          /\ call' = [call EXCEPT ![r] = c]
          /\ Goto(r, CASE c.op = "schedule"             -> "write"
                       [] c.op \in {"edit", "record"}   -> "load"
                       [] c.op \in {"amend", "lifecycle"} -> "loadCase")
    BY <1>1 DEF Receive
  <2>2. /\ pc'[r] = "write" => c.op = "schedule"
        /\ pc'[r] \in {"write", "load", "loadCase"}
    BY <2>1 DEF Call, Goto
  <2>3. call'[r] = c
    BY <2>1
  <2>4. hearings'[r] = None
    BY <1>1 DEF Receive, HearingsInv, OwnIdIsFree
  <2> QED BY <2>2, <2>3, <2>4
<1>2. CASE Load(r)
  <2>1. /\ hearings' = hearings /\ call' = call /\ hearings[r] = None
        /\ call[r].op \in {"edit", "record"}
    BY <1>2 DEF Load, HearingsInv, OwnIdIsFree, InHand, StageOf
  <2>2. \/ pc'[r] = "refused"
        \/ /\ pc'[r] = "write"
           /\ hearings[call[r].id] # None /\ hearings[call[r].id].outcome = None
    BY <1>2 DEF Load, Admits, Goto
  <2> QED BY <2>1, <2>2
<1>3. CASE SaveCase(r) \/ LoseEvent(r)
  <2>1. /\ hearings' = hearings /\ call' = call
        /\ pc'[r] = AfterRefresh(r) \/ (~ OnHearing(r) /\ pc'[r] = "done")
    BY <1>3 DEF SaveCase, LoseEvent, Goto, request
  <2>2. call[r] \in Call
    BY <1>3 DEF SaveCase, LoseEvent, InHand, StageOf
  <2>3. ~ OnHearing(r) => call[r].op # "record"
    BY <2>2, NoneAssumption DEF OnHearing
  <2> QED BY <2>1, <2>3 DEF AfterRefresh
<1>4. CASE \/ WriteHearing(r) \/ BookFollowUp(r) \/ ReadCase(r) \/ LoadCase(r)
           \/ Recompute(r) \/ Refuse(r) \/ Stop(r)
  <2>1. pc'[r] \notin {"idle", "load", "write", "followUp", "done"}
    BY <1>4 DEF WriteHearing, BookFollowUp, ReadCase, LoadCase, Recompute, Refuse,
                Stop, Goto
  <2> QED BY <2>1
<1> QED BY <1>1, <1>2, <1>3, <1>4 DEF RequestStep

\* Every step keeps the hearings in order.
LEMMA HearingsKept == IInv /\ HearingsInv /\ [Next]_vars => HearingsInv'
<1> SUFFICES ASSUME IInv, HearingsInv, [Next]_vars PROVE HearingsInv'
  OBVIOUS
<1>1. ASSUME NEW r \in Requests, RequestStep(r) PROVE HearingsInv'
  <2>1. \A q \in Requests \ {r} :
           /\ pc'[q] = pc[q] /\ call'[q] = call[q]
           /\ undisturbed'[q] => undisturbed[q]
           /\ undisturbed'[q] /\ pc[q] = "write" => hearings' = hearings
    BY <1>1, OthersWait
  <2>2. Named'
    <3> SUFFICES ASSUME NEW q \in Requests, pc'[q] = "write", call'[q].op # "schedule"
                 PROVE  hearings'[call'[q].id] # None
      BY DEF Named
    <3>1. CASE q = r
      BY <1>1, <3>1, OwnStage
    <3>2. CASE q # r
      <4>1. hearings[call[q].id] # None /\ pc[q] = "write" /\ call[q].op # "schedule"
        BY <2>1, <3>2 DEF HearingsInv, Named
      <4>2. call[q].id \in Ids
        <5>1. call[q] \in Call /\ call[q].op \in {"edit", "record"}
          BY <4>1 DEF IInv, InHand, StageOf
        <5> QED BY <5>1 DEF Call
      <4> QED BY <1>1, <2>1, <3>2, <4>1, <4>2, RowsStand
    <3> QED BY <3>1, <3>2
  <2>3. OwnIdIsFree'
    <3> SUFFICES ASSUME NEW q \in Requests, pc'[q] \in {"idle", "load", "write", "followUp"}
                 PROVE  hearings'[q] = None
      BY DEF OwnIdIsFree
    <3>1. CASE q = r
      BY <1>1, <3>1, OwnStage
    <3>2. CASE q # r
      BY <1>1, <2>1, <3>2, RowsStand DEF HearingsInv, OwnIdIsFree
    <3> QED BY <3>1, <3>2
  <2>4. StillOpen'
    <3> SUFFICES ASSUME NEW q \in Requests, undisturbed'[q], pc'[q] = "write",
                        call'[q].op # "schedule"
                 PROVE  hearings'[call'[q].id].outcome = None
      BY DEF StillOpen
    <3>1. CASE q = r
      BY <1>1, <3>1, OwnStage
    <3>2. CASE q # r
      BY <2>1, <3>2 DEF HearingsInv, StillOpen
    <3> QED BY <3>1, <3>2
  <2> QED BY <2>2, <2>3, <2>4 DEF HearingsInv
<1>2. CASE NextDay
  BY <1>2 DEF NextDay, request, HearingsInv, Named, OwnIdIsFree, StillOpen
<1>3. CASE UNCHANGED vars
  BY <1>3 DEF vars, HearingsInv, Named, OwnIdIsFree, StillOpen
<1> QED BY <1>1, <1>2, <1>3 DEF Next

\* The hearings are in order in every behaviour.
LEMMA HearingsInOrder == Spec => [](IInv /\ HearingsInv)
<1>1. Init => IInv /\ HearingsInv
  <2>1. Init => IInv
    BY TypesInitially DEF Init, IInv, Alone, Fresh
  <2>2. Init => HearingsInv
    BY DEF Init, HearingsInv, Named, OwnIdIsFree, StillOpen
  <2> QED BY <2>1, <2>2
<1>2. IInv /\ HearingsInv /\ [Next]_vars => IInv' /\ HearingsInv'
  BY TypesKept, AloneKept, FreshKept, HearingsKept DEF IInv
<1> QED BY <1>1, <1>2, PTL DEF Spec

\* A completed appearance is frozen: for any number of requests, none that
\* runs undisturbed alters a hearing whose outcome was recorded.
THEOREM AppearancesAreFrozen == Spec => FrozenUnlessRaced
<1>1. IInv /\ HearingsInv /\ [Next]_vars =>
        [\A r \in Requests, h \in Ids :
            undisturbed[r] /\ RequestStep(r) /\ hearings[h] # None
              /\ hearings[h].outcome # None
            => hearings'[h] = hearings[h]]_vars
  <2> SUFFICES ASSUME IInv, HearingsInv, NEW r \in Requests, NEW h \in Ids,
                      undisturbed[r], RequestStep(r), hearings[h] # None,
                      hearings[h].outcome # None
               PROVE  hearings'[h] = hearings[h]
    OBVIOUS
  <2> USE DEF IInv, TypeOK
  <2>1. CASE WriteHearing(r)
    <3>1. PICK new \in HearingRow : hearings' = [hearings EXCEPT ![WrittenId(r)] = new]
      BY <2>1, WritesRow
    <3>2. WrittenId(r) # h
      BY <2>1 DEF WriteHearing, WrittenId, HearingsInv, OwnIdIsFree, StillOpen
    <3> QED BY <3>1, <3>2
  <2>2. CASE BookFollowUp(r)
    <3>1. PICK new \in HearingRow : hearings' = [hearings EXCEPT ![r] = new]
      BY <2>2, BooksRow
    <3>2. r # h
      BY <2>2 DEF BookFollowUp, HearingsInv, OwnIdIsFree
    <3> QED BY <3>1, <3>2
  <2>3. CASE ~ WriteHearing(r) /\ ~ BookFollowUp(r)
    BY <2>3 DEF RequestStep, Receive, Load, Refuse, ReadCase, LoadCase, Recompute,
                SaveCase, LoseEvent, Stop
  <2> QED BY <2>1, <2>2, <2>3
<1> QED BY <1>1, HearingsInOrder, PTL DEF Spec, FrozenUnlessRaced

-----------------------------------------------------------------------------
(* DocumentSweeps                                                          *)

\* What a state, recorded or about to be, promises of its document.
Fits(d, v) ==
    /\ v = "EXTRACTED" => /\ paper[d] \in {"text", "scan", "photo"}
                          /\ \A p \in AllPages(d) : <<d, p>> \in pages
    /\ v = "NO_TEXT_LAYER" => paper[d] \notin {"text", "garbled"}
    /\ v = "OCR_FAILED" => paper[d] = "rejected"
    /\ v = "FAILED" => paper[d] = "garbled" \/ d \notin objects

Told == \A d \in Docs : status[d] # Nothing => Fits(d, status[d])

\* A row is behind its object until the create has failed.
Filed ==
    \A d \in Docs :
        /\ filing[d] = "idle" => status[d] = Nothing
        /\ filing[d] = "create" => status[d] = Nothing
        /\ filing[d] # "idle" => paper[d] # Nothing
        /\ filing[d] \in {"create", "filed"} => d \in objects
        /\ filing[d] \in {"cleanup", "failed"} => status[d] = Nothing \/ d \in doubted

\* The pages that are not to be written any more are there.
Rest(w) ==
    /\ todo[w] \subseteq AllPages(hand[w])
    /\ \A p \in AllPages(hand[w]) \ todo[w] : <<hand[w], p>> \in pages

\* A scan is what an OCR sweep takes.
Scanned(d) == paper[d] \notin {"text", "garbled"}

\* What worker w knows of its queue and of the document in hand.
Working(w) ==
    /\ at[w] \in {"idle", "next"} => hand[w] = Nothing
    /\ at[w] \notin {"idle", "next"} =>
          /\ hand[w] \in Docs
          /\ status[hand[w]] # Nothing
          /\ Ocr(w) => Scanned(hand[w])
    /\ \A d \in queue[w] :
          /\ status[d] # Nothing
          /\ Ocr(w) => Scanned(d)
    /\ at[w] \in {"list", "recognize"} =>
          Ocr(w) /\ paper[hand[w]] # "unreachable"
    /\ at[w] = "recognize" => Rest(w)
    /\ at[w] = "write" =>
          /\ Rest(w)
          /\ batch[w] \subseteq todo[w]
          /\ ~ Ocr(w) => paper[hand[w]] = "text" /\ batch[w] = todo[w]
          /\ Ocr(w) => paper[hand[w]] \in {"scan", "photo"}
    /\ at[w] = "record" => verdict[w] \in Verdicts /\ Fits(hand[w], verdict[w])

AllWorking == \A w \in Workers : Working(w)

\* Two OCR ticks with one document in hand have marked each other.
Together ==
    \A v, w \in Workers :
        v # w /\ Ocr(v) /\ Ocr(w) /\ hand[v] = hand[w] /\ hand[w] # Nothing => company[w]

\* What a tick that has its document to itself is still to ask for is not
\* written.
Unbilled ==
    \A w \in Workers :
        Ocr(w) /\ ~ company[w] =>
            /\ at[w] = "recognize" =>
                  \A p \in todo[w] : <<hand[w], p>> \notin pages
            /\ at[w] = "write" =>
                  \A p \in todo[w] \ batch[w] : <<hand[w], p>> \notin pages

\* Only a paper that can be read has pages.
Legible ==
    \A d \in Docs, p \in PageNumbers :
        <<d, p>> \in pages => /\ status[d] # Nothing
                             /\ paper[d] \in {"text", "scan", "photo"}

DSIInv ==
    /\ DSTypeOK /\ Filed /\ Told /\ Legible
    /\ AllWorking /\ Together /\ Unbilled

\* The counts and marks of the OCR ticks have their types.
Tallies ==
    /\ taken \in [Workers -> 0 .. DocumentsPerTick]
    /\ company \in [Workers -> BOOLEAN]

\* What no step undoes.
Steady ==
    /\ \A d \in Docs :
          status[d] # Nothing => /\ status'[d] # Nothing
                                 /\ paper'[d] = paper[d]
                                 /\ d \in objects' => d \in objects
    /\ pages \subseteq pages'

\* Worker w is where it was.
Still(w) ==
    /\ sweep'[w] = sweep[w]
    /\ at'[w] = at[w]
    /\ queue'[w] = queue[w]
    /\ hand'[w] = hand[w]
    /\ todo'[w] = todo[w]
    /\ batch'[w] = batch[w]
    /\ verdict'[w] = verdict[w]

\* A step of worker x.
Moves(x) == ExtractTick(x) \/ OcrTick(x) \/ WorkStep(x)

USE DEF held

-----------------------------------------------------------------------------
\* What a state promises stays so.
LEMMA PromisesStay ==
    ASSUME Steady, NEW d \in Docs, status[d] # Nothing, NEW v, Fits(d, v)
    PROVE  Fits(d, v)'
BY DEF Steady, Fits, AllPages, NumPages, IsImage

\* A worker that does not move keeps what it knows.
LEMMA StillWorking ==
    ASSUME DSTypeOK, Steady, NEW w \in Workers, Working(w), Still(w)
    PROVE  Working(w)'
<1>1. ASSUME hand[w] \in Docs, status[hand[w]] # Nothing
      PROVE  /\ status'[hand[w]] # Nothing
             /\ paper'[hand[w]] = paper[hand[w]]
             /\ AllPages(hand[w])' = AllPages(hand[w])
             /\ Rest(w) => Rest(w)'
             /\ Scanned(hand[w]) => Scanned(hand[w])'
             /\ Fits(hand[w], verdict[w]) => Fits(hand[w], verdict[w])'
  <2>1. /\ status'[hand[w]] # Nothing
        /\ paper'[hand[w]] = paper[hand[w]]
    BY <1>1 DEF Steady
  <2>2. AllPages(hand[w])' = AllPages(hand[w])
    BY <2>1 DEF AllPages, NumPages, IsImage, Still
  <2>3. Rest(w) => Rest(w)'
    BY <2>2 DEF Rest, Steady, Still
  <2>4. Fits(hand[w], verdict[w]) => Fits(hand[w], verdict[w])'
    BY <1>1, <2>1, <2>2 DEF Fits, Steady, Still
  <2> QED BY <2>1, <2>2, <2>3, <2>4 DEF Scanned, Still
<1>2. \A d \in queue[w] :
         status[d] # Nothing => status'[d] # Nothing /\ paper'[d] = paper[d]
  BY DEF Steady, DSTypeOK
<1>3. CASE at[w] \in {"idle", "next"}
  BY <1>2, <1>3 DEF Working, Ocr, Still, Scanned
<1>4. CASE at[w] \notin {"idle", "next"}
  <2>1. hand[w] \in Docs /\ status[hand[w]] # Nothing
    BY <1>4 DEF Working
  <2> QED BY <1>1, <1>2, <1>4, <2>1 DEF Working, Ocr, Still, Scanned
<1> QED BY <1>3, <1>4

\* A worker that puts its document down knows as much of its queue.
LEMMA PutDown ==
    ASSUME DSTypeOK, Steady, NEW w \in Workers, Working(w), Idle(w) \/ Leave(w)
    PROVE  Working(w)'
<1>1. /\ hand'[w] = Nothing /\ at'[w] \in {"idle", "next"}
      /\ queue'[w] \subseteq queue[w]
      /\ queue'[w] = {} \/ sweep'[w] = sweep[w]
  BY DEF Idle, Leave, Clear, DSTypeOK
<1>2. \A d \in queue[w] :
         status[d] # Nothing => status'[d] # Nothing /\ paper'[d] = paper[d]
  BY DEF Steady, DSTypeOK
<1> QED BY <1>1, <1>2 DEF Working, Ocr, Scanned

\* Putting a document down moves no other worker.
LEMMA OthersStill ==
    ASSUME DSTypeOK, NEW w \in Workers, NEW o \in Workers, o # w,
           Idle(w) \/ Leave(w)
    PROVE  Still(o)
BY DEF Idle, Leave, Clear, DSTypeOK, Still

\* A verdict that fits is all a worker needs to record it.
LEMMA Concluded ==
    ASSUME DSTypeOK, Steady, NEW w \in Workers, Working(w),
           at[w] \notin {"idle", "next"}, NEW v \in Verdicts,
           Fits(hand[w], v), Conclude(w, v), UNCHANGED <<sweep, queue, held>>
    PROVE  Working(w)' /\ \A o \in Workers \ {w} : Still(o)
<1>1. /\ at'[w] = "record" /\ verdict'[w] = v
      /\ hand[w] \in Docs /\ status[hand[w]] # Nothing
  BY DEF Conclude, DSTypeOK, Working
<1>2. Fits(hand[w], v)'
  BY <1>1, PromisesStay
<1>3. \A d \in queue[w] :
         status[d] # Nothing => status'[d] # Nothing /\ paper'[d] = paper[d]
  BY DEF Steady, DSTypeOK
<1>4. Working(w)'
  BY <1>1, <1>2, <1>3 DEF Working, Ocr, Scanned, Steady, Fits, Verdicts, Conclude
<1>5. \A o \in Workers \ {w} : Still(o)
  BY DEF Conclude, DSTypeOK, Still
<1> QED BY <1>4, <1>5

\* A slice of a set of pages is finite.
LEMMA SliceIsFinite ==
    ASSUME NEW S \in SUBSET PageNumbers, NEW n
    PROVE  /\ FirstOf(S, n) \in SUBSET PageNumbers
           /\ FirstOf(S, n) \subseteq S
           /\ Cardinality(FirstOf(S, n)) \in Nat
<1>1. FirstOf(S, n) \subseteq S
  BY DEF FirstOf
<1>2. IsFiniteSet(PageNumbers)
  BY FS_Interval, ConstantsAssumption DEF PageNumbers
<1>3. IsFiniteSet(FirstOf(S, n))
  BY <1>1, <1>2, FS_Subset
<1> QED BY <1>1, <1>3, FS_CardinalityType

\* A document's pages are page numbers.
LEMMA PagesAreNumbers ==
    ASSUME NEW d PROVE AllPages(d) \subseteq PageNumbers
BY ConstantsAssumption DEF AllPages, NumPages, PageNumbers

\* At boot nothing is stored and nobody is at work.
LEMMA Initially == DSInit => DSIInv
<1> SUFFICES ASSUME DSInit PROVE DSIInv
  OBVIOUS
<1>1. DSTypeOK
  BY ConstantsAssumption, WindowsAssumption
     DEF DSInit, DSTypeOK, FilingStages, TickStages, NoFailure, Failures
<1>2. Filed /\ Told /\ Legible /\ AllWorking /\ Together /\ Unbilled
  BY DEF DSInit, Filed, Told, Legible, AllWorking, Working, Together, Unbilled
<1> QED BY <1>1, <1>2 DEF DSIInv

\* A restart puts every tick of the replica down and moves no other.
LEMMA Restarted ==
    ASSUME DSTypeOK, NEW k \in Replicas, Restart(k), NEW w \in Workers
    PROVE  \/ /\ at'[w] = "idle" /\ hand'[w] = Nothing
              /\ queue'[w] = {} /\ todo'[w] = {} /\ batch'[w] = {}
           \/ Still(w) /\ company'[w] = company[w]
<1>1. CASE Home[w] = k
  BY <1>1 DEF Restart
<1>2. CASE Home[w] # k
  BY <1>2 DEF Restart, Still, DSTypeOK
<1> QED BY <1>1, <1>2

-----------------------------------------------------------------------------
\* Every step keeps the counts and marks.
LEMMA TalliesKept == DSTypeOK /\ [DSNext]_DSvars => Tallies'
<1> SUFFICES ASSUME DSTypeOK, [DSNext]_DSvars PROVE Tallies'
  OBVIOUS
<1>1. ASSUME UNCHANGED <<taken, company>> PROVE Tallies'
  BY <1>1 DEF Tallies, DSTypeOK
<1>2. ASSUME NEW w \in Workers, Idle(w) \/ Leave(w), UNCHANGED taken PROVE Tallies'
  BY <1>2 DEF Idle, Leave, Clear, Tallies, DSTypeOK
<1>3. ASSUME NEW w \in Workers, Take(w) PROVE Tallies'
  <2>1. CASE Idle(w) /\ UNCHANGED taken
    BY <1>2, <2>1
  <2>2. CASE ~ (Idle(w) /\ UNCHANGED taken)
    <3>1. PICK d : TakeInHand(w, d)
      BY <1>3, <2>2 DEF Take
    <3>2. company' \in [Workers -> BOOLEAN]
      BY <3>1 DEF TakeInHand, DSTypeOK
    <3>3. taken' \in [Workers -> 0 .. DocumentsPerTick]
      <4>1. CASE ~ Ocr(w)
        BY <1>3, <2>2, <4>1 DEF Take, DSTypeOK
      <4>2. CASE Ocr(w)
        <5>1. /\ taken[w] \in 0 .. DocumentsPerTick /\ ~ (taken[w] >= DocumentsPerTick)
              /\ taken' = [taken EXCEPT ![w] = taken[w] + 1]
          BY <1>3, <2>2, <4>2 DEF Take, TickIsFull, DSTypeOK
        <5>2. taken[w] + 1 \in 0 .. DocumentsPerTick
          BY <5>1, ConstantsAssumption
        <5> QED BY <5>1, <5>2 DEF DSTypeOK
      <4> QED BY <4>1, <4>2
    <3> QED BY <3>2, <3>3 DEF Tallies
  <2> QED BY <2>1, <2>2
<1>4. ASSUME NEW w \in Workers, OcrTick(w) PROVE Tallies'
  BY <1>4, ConstantsAssumption DEF OcrTick, Tallies, DSTypeOK
<1>5. ASSUME NEW k \in Replicas, Restart(k) PROVE Tallies'
  BY <1>5 DEF Restart, Tallies, DSTypeOK
<1>6. ASSUME NEW d \in Docs, FilingStep(d) PROVE Tallies'
  BY <1>1, <1>6 DEF FilingStep, Put, CreateRow, Cleanup, StopFiling, tickVars
<1>7. ASSUME NEW w \in Workers, WritePage(w) \/ BatchWritten(w) \/ Record(w) PROVE Tallies'
  BY <1>1, <1>2, <1>7 DEF WritePage, BatchWritten, Record, FailTransiently
<1>8. ASSUME NEW w \in Workers, ExtractTick(w) \/ Extract(w) \/ Open(w) \/ ListPages(w)
                                \/ Recognize(w)
      PROVE  Tallies'
  BY <1>1, <1>2, <1>8
     DEF ExtractTick, Extract, Open, ListPages, Recognize, FailTransiently
<1>9. CASE UNCHANGED DSvars
  BY <1>1, <1>9 DEF DSvars
<1> QED BY <1>3, <1>4, <1>5, <1>6, <1>7, <1>8, <1>9
        DEF DSNext, WorkStep

\* Every step keeps the types.
LEMMA DSTypesKept == DSIInv /\ [DSNext]_DSvars => DSTypeOK'
<1> SUFFICES ASSUME DSIInv, [DSNext]_DSvars PROVE DSTypeOK'
  OBVIOUS
<1> USE DEF DSIInv
<1> USE ConstantsAssumption
<1>0. Tallies'
  BY TalliesKept
<1> USE <1>0 DEF Tallies
<1>1. ASSUME NEW d \in Docs, FilingStep(d) PROVE DSTypeOK'
  <2>1. CASE Put(d)
    BY <2>1 DEF Put, File, tickVars, DSTypeOK, FilingStages
  <2>2. CASE CreateRow(d)
    <3>1. /\ filing' \in [Docs -> FilingStages]
          /\ status' \in [Docs -> Verdicts \cup {"unset", Nothing}]
      <4>1. filing' = [filing EXCEPT ![d] = "filed"] \/ filing' = [filing EXCEPT ![d] = "cleanup"]
        BY <2>2 DEF CreateRow, File
      <4>2. status' = status \/ status' = [status EXCEPT ![d] = "unset"]
        BY <2>2 DEF CreateRow
      <4>3. filing' \in [Docs -> FilingStages]
        BY <4>1 DEF DSTypeOK, FilingStages
      <4>4. status' \in [Docs -> Verdicts \cup {"unset", Nothing}]
        BY <4>2 DEF DSTypeOK
      <4> QED BY <4>3, <4>4
    <3>2. doubted' \in SUBSET Docs /\ faults' \in 0 .. MaxFaults
      BY <2>2 DEF CreateRow, DSTypeOK, Faulty, NoFault
    <3>3. UNCHANGED <<paper, objects, pages>> /\ UNCHANGED tickVars
      BY <2>2 DEF CreateRow
    <3> QED BY <3>1, <3>2, <3>3 DEF tickVars, DSTypeOK
  <2>3. CASE Cleanup(d)
    BY <2>3 DEF Cleanup, File, tickVars, DSTypeOK, FilingStages, Faulty, NoFault
  <2>4. CASE StopFiling(d)
    BY <2>4 DEF StopFiling, File, tickVars, DSTypeOK, FilingStages, Faulty
  <2> QED BY <1>1, <2>1, <2>2, <2>3, <2>4 DEF FilingStep
<1>2. ASSUME NEW w \in Workers, Idle(w) \/ Leave(w)
      PROVE  /\ at' \in [Workers -> TickStages]
             /\ queue' \in [Workers -> SUBSET Docs]
             /\ hand' \in [Workers -> Docs \cup {Nothing}]
             /\ todo' \in [Workers -> SUBSET PageNumbers]
             /\ batch' \in [Workers -> SUBSET PageNumbers]
             /\ verdict' \in [Workers -> Verdicts \cup {Nothing}]
             /\ sweep' \in [Workers -> {"extract", "ocr", Nothing}]
  BY <1>2 DEF Idle, Leave, Clear, DSTypeOK, TickStages
<1>3. ASSUME NEW w \in Workers, NEW v \in Verdicts, Conclude(w, v)
      PROVE  /\ at' \in [Workers -> TickStages]
             /\ todo' \in [Workers -> SUBSET PageNumbers]
             /\ batch' \in [Workers -> SUBSET PageNumbers]
             /\ verdict' \in [Workers -> Verdicts \cup {Nothing}]
  BY <1>3 DEF Conclude, DSTypeOK, TickStages
<1>4. ASSUME NEW w \in Workers, hand[w] \in Docs, RecordFailure(w) \/ Evict(w)
      PROVE  backoff' \in [Replicas -> [Docs -> Failures]]
  <2>1. CASE ~ Ocr(w)
    BY <1>4, <2>1 DEF RecordFailure, Evict, DSTypeOK
  <2>2. CASE Ocr(w)
    <3> DEFINE k == Home[w]
    <3>1. k \in Replicas
      OBVIOUS
    <3> HIDE DEF k
    <3>2. backoff[k] \in [Docs -> Failures]
      BY <3>1 DEF DSTypeOK
    <3>3. PICK n \in Failures : backoff' = [backoff EXCEPT ![k][hand[w]] = n]
      <4>1. CASE RecordFailure(w)
        <5> DEFINE failed == backoff[k][hand[w]].streak
                   streak == IF failed = Len(Windows) THEN failed ELSE failed + 1
                   after == [streak |-> streak, left |-> Windows[streak]]
        <5>1. failed \in 0 .. Len(Windows)
          BY <1>4, <3>2 DEF Failures
        <5>2. Len(Windows) \in Nat \ {0} /\ \A n \in 1 .. Len(Windows) : Windows[n] \in Nat
          BY WindowsAssumption
        <5>3. streak \in 1 .. Len(Windows)
          <6> HIDE DEF failed
          <6> QED BY <5>1, <5>2
        <5>4. after \in Failures
          <6> HIDE DEF streak
          <6> QED BY <5>2, <5>3 DEF Failures
        <5>5. backoff' = [backoff EXCEPT ![k][hand[w]] = after]
          BY <2>2, <4>1 DEF RecordFailure, k
        <5> QED BY <5>4, <5>5
      <4>2. CASE Evict(w)
        <5>1. NoFailure \in Failures
          BY DEF NoFailure, Failures
        <5> QED BY <2>2, <4>2, <5>1 DEF Evict, k
      <4> QED BY <1>4, <4>1, <4>2
    <3>4. [backoff[k] EXCEPT ![hand[w]] = n] \in [Docs -> Failures]
      BY <1>4, <3>2, <3>3
    <3>5. backoff' = [backoff EXCEPT ![k] = [backoff[k] EXCEPT ![hand[w]] = n]]
      BY <3>1, <3>3 DEF DSTypeOK
    <3> QED BY <3>1, <3>4, <3>5 DEF DSTypeOK
  <2> QED BY <2>1, <2>2
<1>5. ASSUME NEW w \in Workers, at[w] \notin {"idle", "next"}
      PROVE  hand[w] \in Docs
  BY <1>5 DEF AllWorking, Working
<1>6. ASSUME NEW w \in Workers, Take(w) PROVE DSTypeOK'
  <2>1. CASE Idle(w)
    BY <1>2, <1>6, <2>1 DEF Take, docVars, DSTypeOK
  <2>2. CASE ~ Idle(w)
    <3>1. PICK d \in queue[w] :
            /\ queue' = [queue EXCEPT ![w] = {x \in queue[w] : x > d}]
            /\ hand' = [hand EXCEPT ![w] = d]
            /\ at' = [at EXCEPT ![w] = "fetch"]
            /\ UNCHANGED <<sweep, todo, batch, verdict>>
      BY <1>6, <2>2 DEF Take, TakeInHand, DSTypeOK
    <3>2. d \in Docs /\ {x \in queue[w] : x > d} \in SUBSET Docs
      BY DEF DSTypeOK
    <3>3. UNCHANGED <<budget, backoff, faults>> /\ UNCHANGED docVars
      BY <1>6 DEF Take
    <3> QED BY <3>1, <3>2, <3>3 DEF docVars, DSTypeOK, TickStages
  <2> QED BY <2>1, <2>2
<1>7. ASSUME NEW w \in Workers, WritePage(w) PROVE DSTypeOK'
  <2>1. hand[w] \in Docs
    BY <1>5, <1>7 DEF WritePage
  <2>2. PICK p \in batch[w] :
          \/ /\ pages' = pages \cup {<<hand[w], p>>}
             /\ batch' = [batch EXCEPT ![w] = @ \ {p}]
             /\ todo' = [todo EXCEPT ![w] = @ \ {p}]
             /\ NoFault
             /\ UNCHANGED <<sweep, at, queue, held, verdict, backoff>>
          \/ /\ Faulty
             /\ pages' \in {pages, pages \cup {<<hand[w], p>>}}
             /\ FailTransiently(w)
    BY <1>7 DEF WritePage
  <2>3. p \in PageNumbers /\ pages' \in SUBSET (Docs \X PageNumbers)
    BY <2>1, <2>2 DEF DSTypeOK
  <2>4. UNCHANGED <<filing, paper, objects, status, doubted, budget>>
    BY <1>7 DEF WritePage
  <2>5. CASE Faulty /\ FailTransiently(w)
    BY <1>2, <1>4, <2>1, <2>3, <2>4, <2>5 DEF FailTransiently, Faulty, DSTypeOK
  <2>6. CASE ~ (Faulty /\ FailTransiently(w))
    <3>1. /\ batch' = [batch EXCEPT ![w] = batch[w] \ {p}]
          /\ todo' = [todo EXCEPT ![w] = todo[w] \ {p}]
          /\ UNCHANGED <<sweep, at, queue, held, verdict, backoff, faults>>
      BY <2>2, <2>6 DEF DSTypeOK, NoFault
    <3>2. /\ batch[w] \ {p} \in SUBSET PageNumbers
          /\ todo[w] \ {p} \in SUBSET PageNumbers
      BY DEF DSTypeOK
    <3> QED BY <2>3, <2>4, <3>1, <3>2 DEF DSTypeOK
  <2> QED BY <2>5, <2>6
<1>8. ASSUME NEW w \in Workers, BatchWritten(w) PROVE DSTypeOK'
  BY <1>3, <1>8 DEF BatchWritten, docVars, DSTypeOK, TickStages, Verdicts
<1>9. ASSUME NEW w \in Workers, Record(w) PROVE DSTypeOK'
  <2>1. hand[w] \in Docs /\ verdict[w] \in Verdicts
    BY <1>9, <1>5 DEF Record, AllWorking, Working
  <2>2. status' \in [Docs -> Verdicts \cup {"unset", Nothing}]
    BY <1>9, <2>1 DEF Record, DSTypeOK
  <2>3. Leave(w) /\ (RecordFailure(w) \/ Evict(w)) /\ (Faulty \/ NoFault)
    BY <1>9 DEF Record, FailTransiently
  <2>4. UNCHANGED <<filing, paper, objects, pages, doubted, budget>>
    BY <1>9 DEF Record
  <2> QED BY <1>2, <1>4, <2>1, <2>2, <2>3, <2>4 DEF DSTypeOK, Faulty, NoFault
<1>10. ASSUME NEW w \in Workers, ExtractTick(w) PROVE DSTypeOK'
  BY <1>10 DEF ExtractTick, docVars, DSTypeOK, TickStages, WithStatus, FirstOf
<1>11. ASSUME NEW w \in Workers, Extract(w) PROVE DSTypeOK'
  <2>1. hand[w] \in Docs /\ AllPages(hand[w]) \subseteq PageNumbers
    BY <1>11, <1>5, PagesAreNumbers DEF Extract
  <2>2. UNCHANGED <<budget, taken>> /\ UNCHANGED docVars
    BY <1>11 DEF Extract
  <2>3. faults' \in 0 .. MaxFaults
    BY <1>11 DEF Extract, DSTypeOK, Blamed, Faulty, NoFault
  <2>4. CASE FailTransiently(w)
    BY <1>2, <1>4, <2>1, <2>2, <2>3, <2>4 DEF FailTransiently, docVars, DSTypeOK
  <2>5. CASE \E v \in Verdicts : Conclude(w, v) /\ UNCHANGED <<sweep, queue, held, backoff>>
    BY <1>3, <2>2, <2>3, <2>5 DEF docVars, DSTypeOK
  <2>6. CASE /\ at' = [at EXCEPT ![w] = "write"]
             /\ todo' = [todo EXCEPT ![w] = AllPages(hand[w])]
             /\ batch' = [batch EXCEPT ![w] = AllPages(hand[w])]
             /\ UNCHANGED <<sweep, queue, held, verdict, backoff>>
    BY <2>1, <2>2, <2>3, <2>6 DEF docVars, DSTypeOK, TickStages
  <2> QED BY <1>11, <2>4, <2>5, <2>6 DEF Extract, Verdicts
<1>12. ASSUME NEW w \in Workers, OcrTick(w) PROVE DSTypeOK'
  <2> DEFINE k == Home[w]
             passed == [d \in Docs |-> Nearer(backoff[k][d])]
  <2>1. k \in Replicas
    OBVIOUS
  <2>2. backoff[k] \in [Docs -> Failures]
    BY <2>1 DEF DSTypeOK
  <2>3. ASSUME NEW failed \in Failures PROVE Nearer(failed) \in Failures
    BY DEF Nearer, Failures
  <2>4. passed \in [Docs -> Failures]
    BY <2>2, <2>3
  <2>5. backoff' = [backoff EXCEPT ![k] = passed]
    BY <1>12, <2>1 DEF OcrTick, DSTypeOK
  <2>6. backoff' \in [Replicas -> [Docs -> Failures]]
    BY <2>1, <2>4, <2>5 DEF DSTypeOK
  <2>7. queue' \in [Workers -> SUBSET Docs]
    BY <1>12 DEF OcrTick, DSTypeOK, FirstOf, WithStatus
  <2>8. budget' \in [Workers -> Int]
    BY <1>12 DEF OcrTick, DSTypeOK
  <2>9. /\ at' \in [Workers -> TickStages]
        /\ sweep' \in [Workers -> {"extract", "ocr", Nothing}]
    BY <1>12 DEF OcrTick, DSTypeOK, TickStages
  <2>10. UNCHANGED <<held, todo, batch, verdict, faults>> /\ UNCHANGED docVars
    BY <1>12 DEF OcrTick
  <2> QED BY <2>6, <2>7, <2>8, <2>9, <2>10 DEF DSTypeOK, docVars
<1>13. ASSUME NEW w \in Workers, Open(w) PROVE DSTypeOK'
  <2>1. hand[w] \in Docs
    BY <1>13, <1>5 DEF Open
  <2>2. UNCHANGED <<budget, taken>> /\ UNCHANGED docVars
    BY <1>13 DEF Open
  <2>3. faults' \in 0 .. MaxFaults
    BY <1>13 DEF Open, DSTypeOK, Blamed, Faulty, NoFault
  <2>4. CASE FailTransiently(w)
    BY <1>2, <1>4, <2>1, <2>2, <2>3, <2>4 DEF FailTransiently, docVars, DSTypeOK
  <2>5. CASE Conclude(w, "FAILED") /\ UNCHANGED <<sweep, queue, held, backoff>>
    BY <1>3, <2>2, <2>3, <2>5 DEF docVars, DSTypeOK, Verdicts
  <2>6. CASE at' = [at EXCEPT ![w] = "list"]
             /\ UNCHANGED <<sweep, queue, held, todo, batch, verdict, backoff>>
    BY <2>2, <2>3, <2>6 DEF docVars, DSTypeOK, TickStages
  <2> QED BY <1>13, <2>4, <2>5, <2>6 DEF Open
<1>14. ASSUME NEW w \in Workers, ListPages(w) PROVE DSTypeOK'
  <2>1. Missing(hand[w]) \subseteq PageNumbers
    BY PagesAreNumbers DEF Missing
  <2>2. UNCHANGED <<budget, backoff, faults>> /\ UNCHANGED docVars
    BY <1>14 DEF ListPages
  <2>3. CASE Idle(w)
    BY <1>2, <2>2, <2>3 DEF docVars, DSTypeOK
  <2>4. CASE Conclude(w, "EXTRACTED") /\ UNCHANGED <<sweep, queue, held>>
    BY <1>3, <2>2, <2>4 DEF docVars, DSTypeOK, Verdicts
  <2>5. CASE /\ todo' = [todo EXCEPT ![w] = Missing(hand[w])]
             /\ at' = [at EXCEPT ![w] = "recognize"]
             /\ UNCHANGED <<sweep, queue, held, batch, verdict>>
    BY <2>1, <2>2, <2>5 DEF docVars, DSTypeOK, TickStages
  <2> QED BY <1>14, <2>3, <2>4, <2>5 DEF ListPages
<1>15. ASSUME NEW w \in Workers, Recognize(w) PROVE DSTypeOK'
  <2>1. w \in Workers /\ at[w] = "recognize" /\ todo[w] \in SUBSET PageNumbers
    BY <1>15 DEF Recognize, DSTypeOK
  <2>2. hand[w] \in Docs
    BY <2>1, <1>5
  <2> DEFINE asked == Asks(w)
  <2>3. asked \in SUBSET PageNumbers /\ Cardinality(asked) \in Nat
    BY <2>1, SliceIsFinite DEF Asks
  <2>4. budget' \in [Workers -> Int]
    <3>1. budget[w] \in Int
      BY DEF DSTypeOK
    <3>2. budget' = [budget EXCEPT ![w] = budget[w] - Cardinality(asked)]
      BY <1>15 DEF Recognize, DSTypeOK
    <3>3. budget[w] - Cardinality(asked) \in Int
      BY <2>3, <3>1
    <3> QED BY <3>2, <3>3 DEF DSTypeOK
  <2>5. UNCHANGED docVars
    BY <1>15 DEF Recognize
  <2>6. faults' \in 0 .. MaxFaults
    BY <1>15 DEF Recognize, DSTypeOK, Blamed, Faulty, NoFault
  <2>7. CASE FailTransiently(w)
    BY <1>2, <1>4, <2>1, <2>2, <2>4, <2>5, <2>6, <2>7
       DEF FailTransiently, docVars, DSTypeOK
  <2>8. CASE Idle(w) /\ UNCHANGED backoff
    BY <1>2, <2>1, <2>4, <2>5, <2>6, <2>8 DEF docVars, DSTypeOK
  <2>9. CASE Conclude(w, "OCR_FAILED") /\ UNCHANGED <<sweep, queue, held, backoff>>
    BY <1>3, <2>1, <2>4, <2>5, <2>6, <2>9 DEF docVars, DSTypeOK, Verdicts
  <2>10. CASE /\ batch' = [batch EXCEPT ![w] = asked]
              /\ at' = [at EXCEPT ![w] = "write"]
              /\ UNCHANGED <<sweep, queue, held, todo, verdict, backoff>>
    BY <2>3, <2>4, <2>5, <2>6, <2>10 DEF docVars, DSTypeOK, TickStages
  <2> QED BY <1>15, <2>7, <2>8, <2>9, <2>10 DEF Recognize
<1>16. ASSUME NEW k \in Replicas, Restart(k) PROVE DSTypeOK'
  <2>1. UNCHANGED budget /\ UNCHANGED docVars /\ Faulty
    BY <1>16 DEF Restart
  <2>2. backoff' \in [Replicas -> [Docs -> Failures]]
    BY <1>16 DEF Restart, DSTypeOK, NoFailure, Failures
  <2>3. /\ sweep' \in [Workers -> {"extract", "ocr", Nothing}]
        /\ at' \in [Workers -> TickStages]
        /\ queue' \in [Workers -> SUBSET Docs]
        /\ hand' \in [Workers -> Docs \cup {Nothing}]
        /\ todo' \in [Workers -> SUBSET PageNumbers]
        /\ batch' \in [Workers -> SUBSET PageNumbers]
        /\ verdict' \in [Workers -> Verdicts \cup {Nothing}]
    BY <1>16 DEF Restart, DSTypeOK, TickStages
  <2> QED BY <2>1, <2>2, <2>3 DEF docVars, DSTypeOK, Faulty
<1>17. CASE UNCHANGED DSvars
  BY <1>17 DEF DSvars, DSTypeOK
<1> QED BY <1>1, <1>6, <1>7, <1>8, <1>9, <1>10, <1>11, <1>12, <1>13, <1>14,
           <1>15, <1>16, <1>17
        DEF DSNext, WorkStep

-----------------------------------------------------------------------------
\* No step takes a row, a page, or what a paper is, away; an object that is
\* gone stays gone.
LEMMA NothingIsUndone == DSIInv /\ [DSNext]_DSvars => Steady
<1> SUFFICES ASSUME DSIInv, [DSNext]_DSvars PROVE Steady
  OBVIOUS
<1> USE DEF DSIInv
<1>1. ASSUME NEW d \in Docs, FilingStep(d) PROVE Steady
  <2>1. CASE Put(d)
    BY <2>1 DEF Put, DSTypeOK, Filed, Steady
  <2>2. CASE CreateRow(d)
    BY <2>2, ConstantsAssumption DEF CreateRow, DSTypeOK, Filed, Steady
  <2>3. CASE Cleanup(d) \/ StopFiling(d)
    BY <2>3 DEF Cleanup, StopFiling, Steady
  <2> QED BY <1>1, <2>1, <2>2, <2>3 DEF FilingStep
<1>2. ASSUME NEW w \in Workers, WritePage(w) PROVE Steady
  BY <1>2 DEF WritePage, Steady
<1>3. ASSUME NEW w \in Workers, Record(w) PROVE Steady
  <2>1. verdict[w] \in Verdicts
    BY <1>3 DEF Record, AllWorking, Working
  <2>2. verdict[w] # Nothing
    BY <2>1, ConstantsAssumption
  <2> QED BY <1>3, <2>2 DEF Record, DSTypeOK, Steady
<1>4. CASE UNCHANGED docVars
  BY <1>4 DEF docVars, Steady
<1> QED BY <1>1, <1>2, <1>3, <1>4
        DEF DSNext, WorkStep, Take, BatchWritten, ExtractTick,
            Extract, OcrTick, Open, ListPages, Recognize, Restart, DSvars, docVars

\* Every step keeps what the workers know.
LEMMA WorkersKnow == DSIInv /\ [DSNext]_DSvars => AllWorking'
<1> SUFFICES ASSUME DSIInv, [DSNext]_DSvars PROVE AllWorking'
  OBVIOUS
<1> USE DEF DSIInv
<1>0. DSTypeOK /\ Steady
  BY NothingIsUndone
<1>1. ASSUME NEW w \in Workers, Working(w)', \A o \in Workers \ {w} : Still(o)
      PROVE  AllWorking'
  BY <1>0, <1>1, StillWorking DEF AllWorking
<1>2. ASSUME NEW w \in Workers PROVE Working(w)
  BY DEF AllWorking
<1>3. ASSUME NEW w \in Workers, at[w] \notin {"idle", "next"}
      PROVE  /\ hand[w] \in Docs
             /\ status[hand[w]] # Nothing
             /\ Ocr(w) => Scanned(hand[w])
  BY <1>2, <1>3 DEF Working
<1>4. ASSUME NEW w \in Workers, Idle(w) \/ Leave(w)
      PROVE  AllWorking'
  BY <1>0, <1>1, <1>2, <1>4, PutDown, OthersStill
<1>5. ASSUME NEW w \in Workers, NEW v \in Verdicts, at[w] \notin {"idle", "next"},
             Fits(hand[w], v), Conclude(w, v), UNCHANGED <<sweep, queue, held>>
      PROVE  AllWorking'
  BY <1>0, <1>1, <1>2, <1>5, Concluded
<1>6. ASSUME NEW w \in Workers
      PROVE  \A d \in queue[w] :
                /\ d \in Docs
                /\ status[d] # Nothing /\ status'[d] # Nothing
                /\ paper'[d] = paper[d]
                /\ Ocr(w) => Scanned(d)
  BY <1>0, <1>2 DEF Working, Ocr, Steady, DSTypeOK
<1>7. ASSUME NEW d \in Docs, FilingStep(d) PROVE AllWorking'
  <2>1. \A w \in Workers : Still(w)
    BY <1>7 DEF FilingStep, Put, CreateRow, Cleanup, StopFiling, tickVars, Still
  <2> QED BY <1>0, <2>1, StillWorking DEF AllWorking
<1>8. ASSUME NEW w \in Workers, Take(w) PROVE AllWorking'
  <2>1. CASE Idle(w)
    BY <2>1, <1>4
  <2>2. CASE ~ Idle(w)
    <3>1. PICK d \in queue[w] :
            /\ queue' = [queue EXCEPT ![w] = {x \in queue[w] : x > d}]
            /\ hand' = [hand EXCEPT ![w] = d]
            /\ at' = [at EXCEPT ![w] = "fetch"]
            /\ UNCHANGED <<sweep, todo, batch, verdict>>
      BY <1>8, <2>2 DEF Take, TakeInHand, DSTypeOK
    <3>2. Working(w)'
      BY <1>6, <3>1 DEF Working, Ocr, DSTypeOK, Scanned
    <3>3. \A o \in Workers \ {w} : Still(o)
      BY <3>1 DEF DSTypeOK, Still
    <3> QED BY <1>1, <3>2, <3>3
  <2> QED BY <2>1, <2>2
<1>9. ASSUME NEW w \in Workers, WritePage(w) PROVE AllWorking'
  <2>1. CASE Leave(w)
    BY <2>1, <1>4
  <2>2. CASE ~ Leave(w)
    <3>1. PICK p \in batch[w] :
            /\ pages' = pages \cup {<<hand[w], p>>}
            /\ batch' = [batch EXCEPT ![w] = batch[w] \ {p}]
            /\ todo' = [todo EXCEPT ![w] = todo[w] \ {p}]
            /\ UNCHANGED <<sweep, at, queue, held, verdict>>
      BY <1>9, <2>2 DEF WritePage, FailTransiently, DSTypeOK
    <3>2. at[w] = "write" /\ hand[w] \in Docs
      BY <1>3, <1>9 DEF WritePage
    <3>3. paper'[hand[w]] = paper[hand[w]] /\ status'[hand[w]] # Nothing
      BY <1>0, <1>3, <3>2 DEF Steady
    <3>4. AllPages(hand[w])' = AllPages(hand[w])
      BY <3>1, <3>3 DEF AllPages, NumPages, IsImage
    <3>5. Rest(w) /\ batch[w] \subseteq todo[w]
      BY <1>2, <3>2 DEF Working
    <3>6. Rest(w)'
      <4>1. todo'[w] = todo[w] \ {p} /\ hand'[w] = hand[w]
        BY <3>1 DEF DSTypeOK
      <4> QED BY <3>1, <3>4, <3>5, <4>1 DEF Rest
    <3>7. Working(w)'
      BY <1>2, <1>3, <1>6, <3>1, <3>2, <3>3, <3>5, <3>6
         DEF Working, Ocr, DSTypeOK, Scanned
    <3>8. \A o \in Workers \ {w} : Still(o)
      BY <3>1 DEF DSTypeOK, Still
    <3> QED BY <1>1, <3>7, <3>8
  <2> QED BY <2>1, <2>2
<1>10. ASSUME NEW w \in Workers, BatchWritten(w) PROVE AllWorking'
  <2>1. /\ at[w] = "write" /\ batch[w] = {}
        /\ hand[w] \in Docs /\ status[hand[w]] # Nothing
        /\ UNCHANGED docVars /\ UNCHANGED <<sweep, queue, held>>
    BY <1>3, <1>10 DEF BatchWritten
  <2>2. /\ Rest(w)
        /\ ~ Ocr(w) => paper[hand[w]] = "text"
        /\ Ocr(w) => paper[hand[w]] \in {"scan", "photo"}
    BY <1>2, <2>1 DEF Working
  <2>3. CASE todo[w] = {}
    <3>1. Fits(hand[w], "EXTRACTED")
      BY <2>2, <2>3 DEF Rest, Fits
    <3> QED BY <1>5, <1>10, <2>1, <2>3, <3>1 DEF BatchWritten, Verdicts
  <2>4. CASE todo[w] # {}
    <3>1. /\ at' = [at EXCEPT ![w] = "recognize"]
          /\ UNCHANGED <<todo, batch, verdict>>
      BY <1>10, <2>4 DEF BatchWritten
    <3>2. Ocr(w)
      BY <1>2, <2>1, <2>4 DEF Working
    <3>3. Working(w)'
      BY <1>3, <1>6, <2>1, <2>2, <3>1, <3>2
         DEF Working, Ocr, DSTypeOK, Scanned, docVars, Rest, AllPages, NumPages, IsImage
    <3>4. \A o \in Workers \ {w} : Still(o)
      BY <2>1, <3>1 DEF DSTypeOK, Still
    <3> QED BY <1>1, <3>3, <3>4
  <2> QED BY <2>3, <2>4
<1>11. ASSUME NEW w \in Workers, Record(w) PROVE AllWorking'
  BY <1>4, <1>11 DEF Record, FailTransiently
<1>12. ASSUME NEW w \in Workers, ExtractTick(w) PROVE AllWorking'
  <2>1. /\ queue' = [queue EXCEPT ![w] = FirstOf(WithStatus("unset"), DocumentsPerTick)]
        /\ sweep' = [sweep EXCEPT ![w] = "extract"]
        /\ at' = [at EXCEPT ![w] = "next"]
        /\ UNCHANGED <<held, todo, batch, verdict>>
        /\ at[w] = "idle" /\ UNCHANGED docVars
    BY <1>12 DEF ExtractTick
  <2>2. queue'[w] \subseteq WithStatus("unset") /\ at'[w] = "next" /\ hand'[w] = Nothing
    BY <1>2, <2>1 DEF DSTypeOK, FirstOf, Working
  <2>3. ~ Ocr(w)'
    BY <2>1 DEF Ocr, DSTypeOK
  <2>4. Working(w)'
    BY <2>1, <2>2, <2>3, ConstantsAssumption DEF Working, Ocr, WithStatus, docVars
  <2>5. \A o \in Workers \ {w} : Still(o)
    BY <2>1 DEF DSTypeOK, Still
  <2> QED BY <1>1, <2>4, <2>5
<1>13. ASSUME NEW w \in Workers, Extract(w) PROVE AllWorking'
  <2>1. /\ at[w] = "fetch" /\ hand[w] \in Docs /\ status[hand[w]] # Nothing
        /\ UNCHANGED docVars
    BY <1>3, <1>13 DEF Extract
  <2>2. CASE FailTransiently(w)
    BY <1>4, <2>2 DEF FailTransiently
  <2>3. CASE \E v \in Verdicts :
               Conclude(w, v) /\ Fits(hand[w], v) /\ UNCHANGED <<sweep, queue, held>>
    BY <1>5, <2>1, <2>3
  <2>4. CASE /\ paper[hand[w]] = "text"
             /\ at' = [at EXCEPT ![w] = "write"]
             /\ todo' = [todo EXCEPT ![w] = AllPages(hand[w])]
             /\ batch' = [batch EXCEPT ![w] = AllPages(hand[w])]
             /\ UNCHANGED <<sweep, queue, held, verdict>>
    <3>1. /\ at'[w] = "write" /\ hand'[w] = hand[w] /\ queue'[w] = queue[w]
          /\ todo'[w] = AllPages(hand[w]) /\ batch'[w] = AllPages(hand[w])
          /\ AllPages(hand[w])' = AllPages(hand[w])
      BY <2>1, <2>4 DEF DSTypeOK, docVars, AllPages, NumPages, IsImage
    <3>2. Rest(w)'
      BY <3>1 DEF Rest
    <3>3. ~ Ocr(w) /\ sweep'[w] = sweep[w]
      BY <1>13, <2>4 DEF Extract, Ocr
    <3>4. Working(w)'
      BY <1>6, <2>1, <2>4, <3>1, <3>2, <3>3 DEF Working, Ocr, docVars
    <3>5. \A o \in Workers \ {w} : Still(o)
      BY <2>4 DEF DSTypeOK, Still
    <3> QED BY <1>1, <3>4, <3>5
  <2>5. \/ FailTransiently(w)
        \/ \E v \in Verdicts :
               Conclude(w, v) /\ Fits(hand[w], v) /\ UNCHANGED <<sweep, queue, held>>
        \/ /\ paper[hand[w]] = "text"
           /\ at' = [at EXCEPT ![w] = "write"]
           /\ todo' = [todo EXCEPT ![w] = AllPages(hand[w])]
           /\ batch' = [batch EXCEPT ![w] = AllPages(hand[w])]
           /\ UNCHANGED <<sweep, queue, held, verdict>>
    BY <1>13 DEF Extract, Verdicts, Fits, IsImage
  <2> QED BY <2>2, <2>3, <2>4, <2>5
<1>14. ASSUME NEW w \in Workers, OcrTick(w) PROVE AllWorking'
  <2>1. queue' = [queue EXCEPT ![w] = FirstOf(WithStatus("NO_TEXT_LAYER"),
                                             DocumentsPerTick + Overfetch)]
    BY <1>14 DEF OcrTick
  <2>2. /\ sweep' = [sweep EXCEPT ![w] = "ocr"]
        /\ at' = [at EXCEPT ![w] = "next"]
        /\ UNCHANGED <<held, todo, batch, verdict>>
        /\ at[w] = "idle" /\ UNCHANGED docVars
    BY <1>14 DEF OcrTick
  <2>3. queue'[w] \subseteq WithStatus("NO_TEXT_LAYER") /\ at'[w] = "next"
        /\ hand'[w] = Nothing
    BY <1>2, <2>1, <2>2 DEF DSTypeOK, FirstOf, Working
  <2>4. \A d \in WithStatus("NO_TEXT_LAYER") : status[d] # Nothing /\ Scanned(d)
    BY ConstantsAssumption DEF WithStatus, Told, Fits, Scanned, Verdicts
  <2>5. Working(w)'
    BY <2>2, <2>3, <2>4 DEF Working, Ocr, docVars, Scanned
  <2>6. \A o \in Workers \ {w} : Still(o)
    BY <2>1, <2>2 DEF DSTypeOK, Still
  <2> QED BY <1>1, <2>5, <2>6
<1>15. ASSUME NEW w \in Workers, Open(w) PROVE AllWorking'
  <2>1. /\ at[w] = "fetch" /\ hand[w] \in Docs /\ status[hand[w]] # Nothing
        /\ Ocr(w) /\ Scanned(hand[w]) /\ UNCHANGED docVars
    BY <1>3, <1>15 DEF Open
  <2>2. CASE FailTransiently(w)
    BY <1>4, <2>2 DEF FailTransiently
  <2>3. CASE /\ Conclude(w, "FAILED") /\ hand[w] \notin objects
             /\ UNCHANGED <<sweep, queue, held>>
    BY <1>5, <2>1, <2>3 DEF Fits, Verdicts
  <2>4. CASE /\ paper[hand[w]] # "unreachable"
             /\ at' = [at EXCEPT ![w] = "list"]
             /\ UNCHANGED <<sweep, queue, held, todo, batch, verdict>>
    <3>1. Working(w)'
      BY <1>6, <2>1, <2>4 DEF Working, Ocr, docVars, DSTypeOK, Scanned
    <3>2. \A o \in Workers \ {w} : Still(o)
      BY <2>4 DEF DSTypeOK, Still
    <3> QED BY <1>1, <3>1, <3>2
  <2> QED BY <1>15, <2>2, <2>3, <2>4 DEF Open
<1>16. ASSUME NEW w \in Workers, ListPages(w) PROVE AllWorking'
  <2>1. /\ at[w] = "list" /\ hand[w] \in Docs /\ status[hand[w]] # Nothing
        /\ Ocr(w) /\ Scanned(hand[w]) /\ UNCHANGED docVars
        /\ paper[hand[w]] # "unreachable"
    BY <1>2, <1>3, <1>16 DEF ListPages, Working
  <2>2. CASE Idle(w)
    BY <1>4, <2>2
  <2>3. CASE /\ todo' = [todo EXCEPT ![w] = Missing(hand[w])]
             /\ at' = [at EXCEPT ![w] = "recognize"]
             /\ UNCHANGED <<sweep, queue, held, batch, verdict>>
    <3>1. /\ at'[w] = "recognize" /\ hand'[w] = hand[w] /\ queue'[w] = queue[w]
          /\ todo'[w] = Missing(hand[w])
          /\ AllPages(hand[w])' = AllPages(hand[w])
      BY <2>1, <2>3 DEF DSTypeOK, docVars, AllPages, NumPages, IsImage
    <3>2. Rest(w)'
      BY <2>1, <3>1 DEF Rest, Missing, Written, docVars
    <3>3. Working(w)'
      BY <1>6, <2>1, <2>3, <3>1, <3>2 DEF Working, Ocr, docVars, Scanned
    <3>4. \A o \in Workers \ {w} : Still(o)
      BY <2>3 DEF DSTypeOK, Still
    <3> QED BY <1>1, <3>3, <3>4
  <2>4. CASE Missing(hand[w]) = {} /\ Conclude(w, "EXTRACTED")
             /\ UNCHANGED <<sweep, queue, held>>
    <3>1. \A p \in AllPages(hand[w]) : <<hand[w], p>> \in pages
      BY <2>4 DEF Missing, Written
    <3>2. 1 \in AllPages(hand[w]) /\ 1 \in PageNumbers
      BY ConstantsAssumption DEF AllPages, NumPages, PageNumbers
    <3>3. paper[hand[w]] \in {"text", "scan", "photo"}
      BY <2>1, <3>1, <3>2 DEF Legible
    <3>4. Fits(hand[w], "EXTRACTED")
      BY <3>1, <3>3 DEF Fits
    <3> QED BY <1>5, <2>1, <2>4, <3>4 DEF Verdicts
  <2> QED BY <1>16, <2>2, <2>3, <2>4 DEF ListPages
<1>17. ASSUME NEW w \in Workers, Recognize(w) PROVE AllWorking'
  <2>1. /\ at[w] = "recognize" /\ hand[w] \in Docs /\ status[hand[w]] # Nothing
        /\ Scanned(hand[w]) /\ UNCHANGED docVars /\ Rest(w)
        /\ paper[hand[w]] # "unreachable"
        /\ todo[w] \in SUBSET PageNumbers
    BY <1>2, <1>3, <1>17 DEF Recognize, Working, DSTypeOK
  <2>2. CASE Idle(w) \/ FailTransiently(w)
    BY <1>4, <2>2 DEF FailTransiently
  <2>3. CASE /\ paper[hand[w]] = "rejected" /\ Conclude(w, "OCR_FAILED")
             /\ UNCHANGED <<sweep, queue, held>>
    BY <1>5, <2>1, <2>3 DEF Fits, Verdicts
  <2>4. CASE /\ paper[hand[w]] \notin {"rejected", "stubborn"}
             /\ batch' = [batch EXCEPT ![w] = Asks(w)]
             /\ at' = [at EXCEPT ![w] = "write"]
             /\ UNCHANGED <<sweep, queue, held, todo, verdict>>
    <3>1. /\ at'[w] = "write" /\ hand'[w] = hand[w] /\ queue'[w] = queue[w]
          /\ todo'[w] = todo[w]
          /\ batch'[w] \subseteq todo[w]
      BY <2>1, <2>4, SliceIsFinite DEF DSTypeOK, Asks
    <3>2. paper[hand[w]] \in {"scan", "photo"}
      <4>1. paper[hand[w]] \in Content
        <5>1. paper[hand[w]] \in Content \cup {Nothing}
          BY <2>1 DEF DSTypeOK
        <5>2. paper[hand[w]] # Nothing
          BY <2>1 DEF Filed
        <5> QED BY <5>1, <5>2
      <4> QED BY <2>1, <2>4, <4>1 DEF Content, Scanned
    <3>3. Rest(w)'
      BY <2>1, <3>1 DEF Rest, docVars, AllPages, NumPages, IsImage
    <3>4. Ocr(w) /\ sweep'[w] = sweep[w]
      BY <1>2, <2>1, <2>4 DEF Working
    <3>5. Working(w)'
      BY <1>6, <2>1, <3>1, <3>2, <3>3, <3>4 DEF Working, Ocr, docVars, Scanned
    <3>6. \A o \in Workers \ {w} : Still(o)
      BY <2>4 DEF DSTypeOK, Still
    <3> QED BY <1>1, <3>5, <3>6
  <2> QED BY <1>17, <2>2, <2>3, <2>4 DEF Recognize
<1>18. ASSUME NEW k \in Replicas, Restart(k) PROVE AllWorking'
  <2> SUFFICES ASSUME NEW w \in Workers PROVE Working(w)'
    BY DEF AllWorking
  <2>1. CASE at'[w] = "idle" /\ hand'[w] = Nothing /\ queue'[w] = {}
    BY <2>1 DEF Working
  <2>2. CASE Still(w)
    BY <1>0, <1>2, <2>2, StillWorking
  <2> QED BY <1>0, <1>18, <2>1, <2>2, Restarted
<1>19. CASE UNCHANGED DSvars
  <2>1. \A w \in Workers : Still(w)
    BY <1>19 DEF DSvars, Still
  <2> QED BY <1>0, <2>1, StillWorking DEF AllWorking
<1> QED BY <1>7, <1>8, <1>9, <1>10, <1>11, <1>12, <1>13, <1>14, <1>15, <1>16,
           <1>17, <1>18, <1>19
        DEF DSNext, WorkStep

-----------------------------------------------------------------------------
\* Every step keeps what filing, the recorded states and the pages promise.
LEMMA RecordsKept == DSIInv /\ [DSNext]_DSvars => Filed' /\ Told' /\ Legible'
<1> SUFFICES ASSUME DSIInv, [DSNext]_DSvars PROVE Filed' /\ Told' /\ Legible'
  OBVIOUS
<1> USE DEF DSIInv
<1>0. DSTypeOK /\ Steady
  BY NothingIsUndone
<1>1. ASSUME NEW d \in Docs, FilingStep(d) PROVE Filed' /\ Told' /\ Legible'
  <2>1. Filed'
    <3>1. CASE Put(d)
      <4>1. PICK c \in Papers[d] : paper' = [paper EXCEPT ![d] = c]
        BY <3>1 DEF Put
      <4>2. c # Nothing
        BY <4>1, ConstantsAssumption
      <4> QED BY <3>1, <4>1, <4>2 DEF Put, File, Filed, DSTypeOK
    <3>2. CASE CreateRow(d)
      BY <3>2 DEF CreateRow, File, Filed, DSTypeOK
    <3>3. CASE Cleanup(d)
      BY <3>3 DEF Cleanup, File, Filed, DSTypeOK
    <3>4. CASE StopFiling(d)
      BY <3>4 DEF StopFiling, File, Filed, DSTypeOK
    <3> QED BY <1>1, <3>1, <3>2, <3>3, <3>4 DEF FilingStep
  <2>2. /\ pages' = pages
        /\ \A e \in Docs : status'[e] # status[e] => status'[e] = "unset"
    BY <1>1 DEF FilingStep, Put, CreateRow, Cleanup, StopFiling, DSTypeOK
  <2>3. Told'
    BY <1>0, <2>2, PromisesStay DEF Told, Fits
  <2>4. Legible'
    BY <1>0, <2>2 DEF Legible, Steady
  <2> QED BY <2>1, <2>3, <2>4
<1>2. ASSUME UNCHANGED <<filing, paper, objects, status, doubted>>
      PROVE  Filed' /\ Told'
  <2>1. Filed'
    BY <1>2 DEF Filed
  <2>2. Told'
    BY <1>0, <1>2, PromisesStay DEF Told
  <2> QED BY <2>1, <2>2
<1>3. ASSUME NEW w \in Workers, WritePage(w) PROVE Filed' /\ Told' /\ Legible'
  <2>1. /\ UNCHANGED <<filing, paper, objects, status, doubted>>
        /\ pages' \subseteq pages \cup {<<hand[w], p>> : p \in PageNumbers}
    BY <1>3 DEF WritePage, DSTypeOK
  <2>2. /\ status[hand[w]] # Nothing
        /\ paper[hand[w]] \in {"text", "scan", "photo"}
    BY <1>3 DEF WritePage, AllWorking, Working
  <2>3. Legible'
    BY <2>1, <2>2 DEF Legible
  <2> QED BY <1>2, <2>1, <2>3
<1>4. ASSUME NEW w \in Workers, Record(w) PROVE Filed' /\ Told' /\ Legible'
  <2>1. /\ UNCHANGED <<filing, paper, objects, pages, doubted>>
        /\ hand[w] \in Docs /\ status[hand[w]] # Nothing
        /\ Fits(hand[w], verdict[w])
    BY <1>4 DEF Record, AllWorking, Working
  <2>2. \A d \in Docs : status'[d] = status[d]
                        \/ (d = hand[w] /\ status'[d] = verdict[w])
    BY <1>4 DEF Record, DSTypeOK
  <2>3. Filed'
    BY <2>1, <2>2 DEF Filed
  <2>4. Told'
    BY <1>0, <2>1, <2>2, PromisesStay DEF Told
  <2>5. Legible'
    BY <1>0, <2>1 DEF Legible, Steady
  <2> QED BY <2>3, <2>4, <2>5
<1>5. CASE UNCHANGED docVars
  BY <1>2, <1>5 DEF docVars, Legible
<1> QED BY <1>1, <1>3, <1>4, <1>5
        DEF DSNext, WorkStep, Take, BatchWritten, ExtractTick,
            Extract, OcrTick, Open, ListPages, Recognize, Restart, DSvars, docVars

\* What a step of another worker, and a restart elsewhere, leaves of w.
LEMMA OthersStay ==
    ASSUME DSTypeOK, NEW w \in Workers, NEW x \in Workers, x # w, Moves(x)
    PROVE  /\ Still(w)
           /\ company[w] => company'[w]
           /\ hand'[x] \in {hand[x], Nothing} \/ TakeInHand(x, hand'[x])
           /\ TakeInHand(x, hand'[x]) \/ company'[w] = company[w]
<1>1. w \in Workers /\ company[w] \in BOOLEAN
  BY DEF DSTypeOK
<1>2. CASE Idle(x) \/ Leave(x)
  <2>1. Still(w)
    BY <1>1, <1>2, OthersStill
  <2>2. company'[w] = company[w] /\ hand'[x] = Nothing
    BY <1>1, <1>2 DEF Idle, Leave, Clear, DSTypeOK
  <2> QED BY <2>1, <2>2
<1>3. CASE Take(x) /\ ~ Idle(x)
  <2>1. PICK d : /\ TakeInHand(x, d)
                 /\ queue' = [queue EXCEPT ![x] = {y \in @ : y > d}]
                 /\ at' = [at EXCEPT ![x] = "fetch"]
                 /\ UNCHANGED <<sweep, todo, batch, verdict>>
    BY <1>3 DEF Take
  <2>2. hand'[x] = d
    BY <2>1 DEF TakeInHand, DSTypeOK
  <2>3. Still(w)
    BY <1>1, <2>1 DEF TakeInHand, Still, DSTypeOK
  <2>4. company[w] => company'[w]
    BY <2>1 DEF TakeInHand
  <2> QED BY <2>1, <2>2, <2>3, <2>4
<1>4. CASE ~ (Idle(x) \/ Leave(x)) /\ ~ Take(x)
  <2>1. UNCHANGED <<hand, company>>
    BY <1>4 DEF Moves, ExtractTick, OcrTick, WorkStep, WritePage,
                BatchWritten, Record, Extract, Open, ListPages, Recognize, FailTransiently
  <2>2. Still(w)
    <3>1. CASE WritePage(x) \/ BatchWritten(x) \/ Record(x) \/ ExtractTick(x) \/ Extract(x)
      BY <1>1, <1>4, <2>1, <3>1
         DEF WritePage, BatchWritten, Record, ExtractTick, Extract, FailTransiently,
             Conclude, DSTypeOK, Still
    <3>2. CASE OcrTick(x) \/ Open(x) \/ ListPages(x) \/ Recognize(x)
      BY <1>1, <1>4, <2>1, <3>2
         DEF OcrTick, Open, ListPages, Recognize, FailTransiently, Conclude, DSTypeOK, Still
    <3> QED BY <1>4, <3>1, <3>2 DEF Moves, WorkStep
  <2> QED BY <2>1, <2>2
<1> QED BY <1>2, <1>3, <1>4

\* Every step marks the ticks that come to share a document.
LEMMA TogetherKept == DSIInv /\ [DSNext]_DSvars => Together'
<1> SUFFICES ASSUME DSIInv, [DSNext]_DSvars,
                    NEW v \in Workers, NEW w \in Workers, v # w,
                    Ocr(v)', Ocr(w)', hand'[v] = hand'[w], hand'[w] # Nothing
             PROVE  company'[w]
  BY DEF Together
<1> USE DEF DSIInv
<1>1. Ocr(v) /\ Ocr(w) /\ hand[v] = hand[w] /\ hand[w] # Nothing => company[w]
  BY DEF Together
<1>2. ASSUME UNCHANGED <<sweep, hand, company>> PROVE company'[w]
  BY <1>1, <1>2 DEF Ocr
<1>3. ASSUME NEW x \in Workers, ExtractTick(x) \/ OcrTick(x) PROVE company'[w]
  <2>1. UNCHANGED <<hand, company>> /\ at[x] = "idle"
        /\ \A o \in Workers \ {x} : sweep'[o] = sweep[o]
    BY <1>3 DEF ExtractTick, OcrTick, DSTypeOK
  <2>2. hand[x] = Nothing
    BY <2>1 DEF AllWorking, Working
  <2> QED BY <1>1, <2>1, <2>2 DEF Ocr
<1>4. ASSUME NEW x \in Workers, NEW d, TakeInHand(x, d), UNCHANGED sweep
      PROVE  company'[w]
  <2>1. hand' = [hand EXCEPT ![x] = d]
    BY <1>4 DEF TakeInHand
  <2>2. Ocr(v) /\ Ocr(w)
    BY <1>4 DEF Ocr
  <2>3. CASE x = w
    BY <1>4, <2>1, <2>2, <2>3 DEF TakeInHand, DSTypeOK
  <2>4. CASE x = v
    BY <1>4, <2>1, <2>2, <2>4 DEF TakeInHand, DSTypeOK
  <2>5. CASE x # v /\ x # w
    BY <1>1, <1>4, <2>1, <2>2, <2>5 DEF TakeInHand, DSTypeOK
  <2> QED BY <2>3, <2>4, <2>5
<1>5. ASSUME NEW x \in Workers, Idle(x) \/ Leave(x) PROVE company'[w]
  <2>1. x # v /\ x # w
    BY <1>5 DEF Idle, Leave, Clear, DSTypeOK
  <2> QED BY <1>1, <1>5, <2>1 DEF Idle, Leave, Clear, DSTypeOK, Ocr
<1>6. ASSUME NEW x \in Workers, Moves(x) PROVE company'[w]
  <2>1. CASE Take(x) /\ ~ Idle(x)
    BY <1>4, <1>6, <2>1 DEF Take
  <2>2. CASE ~ Take(x)
    BY <1>2, <1>3, <1>5, <1>6, <2>2
       DEF Moves, WorkStep, WritePage, BatchWritten, Record, Extract, Open, ListPages,
           Recognize, FailTransiently
  <2> QED BY <1>5, <1>6, <2>1, <2>2
<1>7. ASSUME NEW k \in Replicas, Restart(k) PROVE company'[w]
  <2>1. /\ hand'[v] = hand[v] /\ hand'[w] = hand[w]
        /\ sweep'[v] = sweep[v] /\ sweep'[w] = sweep[w]
        /\ company'[w] = company[w]
    BY <1>7, Restarted DEF Still
  <2> QED BY <1>1, <2>1 DEF Ocr
<1>8. ASSUME NEW d \in Docs, FilingStep(d) PROVE company'[w]
  BY <1>2, <1>8 DEF FilingStep, Put, CreateRow, Cleanup, StopFiling, tickVars
<1>9. CASE UNCHANGED DSvars
  BY <1>2, <1>9 DEF DSvars
<1> QED BY <1>6, <1>7, <1>8, <1>9 DEF DSNext, Moves

\* A tick that has its document to itself decides what it will bill, and no
\* step of another worker writes a page of that document.
LEMMA BillsKept == DSIInv /\ [DSNext]_DSvars => Unbilled'
<1> SUFFICES ASSUME DSIInv, [DSNext]_DSvars, NEW w \in Workers, Ocr(w)', ~ company'[w]
             PROVE  /\ at'[w] = "recognize" =>
                          \A p \in todo'[w] : <<hand'[w], p>> \notin pages'
                    /\ at'[w] = "write" =>
                          \A p \in todo'[w] \ batch'[w] : <<hand'[w], p>> \notin pages'
  BY DEF Unbilled
<1> DEFINE Goal == /\ at'[w] = "recognize" =>
                         \A p \in todo'[w] : <<hand'[w], p>> \notin pages'
                   /\ at'[w] = "write" =>
                         \A p \in todo'[w] \ batch'[w] : <<hand'[w], p>> \notin pages'
           Known == /\ at[w] = "recognize" => \A p \in todo[w] : <<hand[w], p>> \notin pages
                    /\ at[w] = "write" =>
                          \A p \in todo[w] \ batch[w] : <<hand[w], p>> \notin pages
<1> USE DEF DSIInv
<1>1. w \in Workers
  OBVIOUS
<1>2. Ocr(w) /\ ~ company[w] => Known
  BY DEF Unbilled
<1>3. ASSUME Still(w), ~ company[w], pages' = pages PROVE Goal
  BY <1>2, <1>3 DEF Still, Ocr
<1>4. ASSUME Idle(w) \/ Leave(w) PROVE Goal
  BY <1>1, <1>4 DEF Idle, Leave, Clear, DSTypeOK
<1>5. ASSUME NEW d \in Docs, FilingStep(d) PROVE Goal
  BY <1>3, <1>5 DEF FilingStep, Put, CreateRow, Cleanup, StopFiling, tickVars, Still
<1>6. ASSUME NEW x \in Workers, x # w, Moves(x) PROVE Goal
  <2>1. Still(w) /\ Ocr(w) /\ ~ company[w] /\ Known
    BY <1>2, <1>6, OthersStay DEF Still, Ocr
  <2>2. CASE WritePage(x)
    <3>1. /\ pages' \subseteq pages \cup {<<hand[x], p>> : p \in PageNumbers}
          /\ hand[x] \in Docs
      <4>1. pages' \subseteq pages \cup {<<hand[x], p>> : p \in PageNumbers}
        BY <1>6, <2>2 DEF WritePage, DSTypeOK
      <4>2. at[x] = "write"
        BY <2>2 DEF WritePage
      <4>3. hand[x] \in Docs
        BY <1>6, <4>2 DEF AllWorking, Working
      <4> QED BY <4>1, <4>3
    <3>2. CASE at[w] \in {"recognize", "write"}
      <4>1. hand[w] # hand[x]
        <5>1. CASE ~ Ocr(x)
          BY <2>1, <2>2, <3>2, <5>1 DEF WritePage, AllWorking, Working, Scanned
        <5>2. CASE Ocr(x)
          BY <1>6, <2>1, <3>1, <5>2, ConstantsAssumption DEF Together
        <5> QED BY <5>1, <5>2
      <4> QED BY <2>1, <3>1, <4>1 DEF Still
    <3> QED BY <2>1, <3>2 DEF Still
  <2>3. CASE ~ WritePage(x)
    <3>1. pages' = pages
      BY <1>6, <2>3
         DEF Moves, WorkStep, Take, BatchWritten, Record, ExtractTick,
             Extract, OcrTick, Open, ListPages, Recognize, docVars
    <3> QED BY <1>3, <2>1, <3>1
  <2> QED BY <2>2, <2>3
<1>7. ASSUME NEW k \in Replicas, Restart(k) PROVE Goal
  <2>1. pages' = pages
    BY <1>7 DEF Restart, docVars
  <2> QED BY <1>1, <1>3, <1>7, <2>1, Restarted
<1>8. CASE Take(w)
  <2>1. CASE ~ Idle(w)
    BY <1>1, <1>8, <2>1 DEF Take, DSTypeOK
  <2> QED BY <1>4, <2>1
<1>9. CASE WritePage(w)
  <2>1. CASE ~ Leave(w)
    <3>1. PICK p \in batch[w] :
            /\ pages' = pages \cup {<<hand[w], p>>}
            /\ batch' = [batch EXCEPT ![w] = batch[w] \ {p}]
            /\ todo' = [todo EXCEPT ![w] = todo[w] \ {p}]
            /\ UNCHANGED <<sweep, at, hand, company>>
      BY <1>1, <1>9, <2>1 DEF WritePage, FailTransiently, DSTypeOK
    <3>2. /\ batch'[w] = batch[w] \ {p} /\ todo'[w] = todo[w] \ {p}
          /\ at'[w] = "write" /\ at[w] = "write" /\ hand'[w] = hand[w]
      BY <1>1, <1>9, <3>1 DEF DSTypeOK, WritePage
    <3>3. Known
      BY <1>2, <3>1 DEF Ocr
    <3> QED BY <3>1, <3>2, <3>3
  <2> QED BY <1>4, <2>1
<1>10. CASE BatchWritten(w)
  <2>1. Known /\ UNCHANGED <<hand, pages>>
    BY <1>2, <1>10 DEF BatchWritten, docVars, Ocr
  <2> QED BY <1>1, <1>10, <2>1 DEF BatchWritten, Conclude, DSTypeOK
<1>11. CASE Record(w)
  BY <1>4, <1>11 DEF Record, FailTransiently
<1>12. CASE OcrTick(w) \/ Open(w)
  <2>1. CASE ~ Leave(w)
    BY <1>1, <1>12, <2>1 DEF OcrTick, Open, FailTransiently, Conclude, DSTypeOK
  <2> QED BY <1>4, <2>1
<1>13. CASE ListPages(w)
  <2>1. CASE Idle(w)
    BY <1>4, <2>1
  <2>2. CASE Conclude(w, "EXTRACTED")
    BY <1>1, <2>2 DEF Conclude, DSTypeOK
  <2>3. CASE /\ todo' = [todo EXCEPT ![w] = Missing(hand[w])]
             /\ at' = [at EXCEPT ![w] = "recognize"]
             /\ UNCHANGED <<sweep, queue, held, batch, verdict>>
    BY <1>1, <1>13, <2>3 DEF ListPages, docVars, DSTypeOK, Missing, Written
  <2> QED BY <1>13, <2>1, <2>2, <2>3 DEF ListPages
<1>14. CASE Recognize(w)
  <2>1. CASE Idle(w) \/ Leave(w)
    BY <1>4, <2>1
  <2>2. CASE Conclude(w, "OCR_FAILED")
    BY <1>1, <2>2 DEF Conclude, DSTypeOK
  <2>3. CASE /\ batch' = [batch EXCEPT ![w] = Asks(w)]
             /\ at' = [at EXCEPT ![w] = "write"]
             /\ UNCHANGED <<sweep, queue, held, todo, verdict>>
    <3>1. Known /\ UNCHANGED <<hand, pages>> /\ at[w] = "recognize"
      BY <1>2, <1>14, <2>3 DEF Recognize, docVars, Ocr
    <3> QED BY <1>1, <2>3, <3>1 DEF DSTypeOK
  <2> QED BY <1>14, <2>1, <2>2, <2>3 DEF Recognize, FailTransiently
<1>15. CASE UNCHANGED DSvars
  BY <1>3, <1>15 DEF DSvars, Still
<1>16. CASE ExtractTick(w) \/ Extract(w)
  <2>1. CASE Leave(w)
    BY <1>4, <2>1
  <2>2. CASE ~ Leave(w)
    <3>1. at'[w] \notin {"recognize", "write"} \/ todo'[w] = batch'[w]
      BY <1>1, <1>16, <2>2
         DEF ExtractTick, Extract, FailTransiently, Conclude, DSTypeOK
    <3>2. at'[w] # "recognize"
      BY <1>1, <1>16, <2>2
         DEF ExtractTick, Extract, FailTransiently, Conclude, DSTypeOK
    <3> QED BY <3>1, <3>2
  <2> QED BY <2>1, <2>2
<1>17. ASSUME NEW x \in Workers, Moves(x) PROVE Goal
  BY <1>1, <1>6, <1>8, <1>9, <1>10, <1>11, <1>12, <1>13, <1>14, <1>16, <1>17
     DEF Moves, WorkStep
<1> QED BY <1>5, <1>7, <1>15, <1>17 DEF DSNext, Moves

\* The invariant holds of every behaviour.
LEMMA DSInvariance == DSSpec => []DSIInv
<1>1. DSIInv /\ [DSNext]_DSvars => DSIInv'
  BY DSTypesKept, WorkersKnow, RecordsKept, TogetherKept, BillsKept DEF DSIInv
<1> QED BY Initially, <1>1, PTL DEF DSSpec

-----------------------------------------------------------------------------
\* The variables have their types.
THEOREM DSTypeCorrect == DSSpec => []DSTypeOK
<1>1. DSIInv => DSTypeOK
  BY DEF DSIInv
<1> QED BY DSInvariance, <1>1, PTL

\* A document recorded as EXTRACTED has every page, whatever sweeps of either
\* kind overlapped, failed, or were restarted on it.
THEOREM PagesPrecedeStatus == DSSpec => []ExtractedMeansPages
<1>1. DSIInv => ExtractedMeansPages
  BY ConstantsAssumption
     DEF DSIInv, Told, Fits, ExtractedMeansPages, Written, Verdicts
<1> QED BY DSInvariance, <1>1, PTL

\* Every row whose create did not fail after storing it has its object.
THEOREM ObjectsPrecedeRows == DSSpec => []RowHasObject
<1>1. DSIInv => RowHasObject
  BY DEF DSIInv, DSTypeOK, FilingStages, Filed, RowHasObject
<1> QED BY DSInvariance, <1>1, PTL

\* A recorded state is true of the paper: no failure is ever recorded as a
\* verdict.
THEOREM VerdictsAreTrue == DSSpec => []StatusFitsPaper
<1>1. DSIInv => StatusFitsPaper
  BY ConstantsAssumption DEF DSIInv, Told, Fits, StatusFitsPaper, Verdicts
<1> QED BY DSInvariance, <1>1, PTL

\* Whatever ticks of however many replicas failed, broke off or overlapped on
\* a document before: one that has it to itself all the while asks the
\* provider for no page that was written.
THEOREM RetriesBillTheRest == DSSpec => []WrittenPagesAreNotBilled
<1>1. DSIInv => WrittenPagesAreNotBilled
  BY DEF DSIInv, AllWorking, Working, Unbilled, WrittenPagesAreNotBilled, Written, Asks,
         FirstOf
<1> QED BY DSInvariance, <1>1, PTL

-----------------------------------------------------------------------------
(* What is settled and in nobody's hands stays so.                         *)

\* No tick has the document in hand or means to look at it.
InNoHands(d) == \A w \in Workers : hand[w] # d /\ d \notin queue[w]

LeftAlone(d) == status[d] \in Settled /\ InNoHands(d)

SettledIsFinal ==
    [][\A d \in Docs :
          LeftAlone(d) => status'[d] = status[d] /\ LeftAlone(d)']_DSvars

\* A worker takes documents from its queue, and queues those that have no
\* final state yet.
LEMMA QueuesTakeUnsettled ==
    ASSUME DSTypeOK, NEW x \in Workers, Moves(x), NEW w \in Workers
    PROVE  /\ hand'[w] \in {hand[w], Nothing} \cup queue[w]
           /\ queue'[w] \subseteq queue[w] \cup WithStatus("unset")
                                    \cup WithStatus("NO_TEXT_LAYER")
<1>1. CASE Idle(x) \/ Leave(x)
  BY <1>1 DEF Idle, Leave, Clear, DSTypeOK
<1>2. CASE Take(x) /\ ~ Idle(x)
  <2>1. PICK d \in queue[x] : /\ queue' = [queue EXCEPT ![x] = {y \in @ : y > d}]
                              /\ hand' = [hand EXCEPT ![x] = d]
    BY <1>2 DEF Take, TakeInHand
  <2> QED BY <2>1 DEF DSTypeOK
<1>3. CASE ExtractTick(x)
  BY <1>3 DEF ExtractTick, FirstOf, DSTypeOK
<1>4. CASE OcrTick(x)
  <2>1. /\ \A d \in queue'[x] : d \in WithStatus("NO_TEXT_LAYER")
        /\ \A v \in Workers \ {x} : queue'[v] = queue[v]
        /\ hand' = hand
    BY <1>4 DEF OcrTick, FirstOf, DSTypeOK
  <2> QED BY <2>1
<1>5. CASE ~ (Idle(x) \/ Leave(x)) /\ ~ Take(x) /\ ~ ExtractTick(x) /\ ~ OcrTick(x)
  <2>1. UNCHANGED <<sweep, queue, held>>
    BY <1>5 DEF Moves, WorkStep, WritePage, BatchWritten, Record,
                Extract, Open, ListPages, Recognize, FailTransiently
  <2> QED BY <2>1
<1> QED BY <1>1, <1>2, <1>3, <1>4, <1>5

\* A worker writes the state of the document in hand only.
LEMMA StatesAreOfTheDocumentInHand ==
    ASSUME DSTypeOK, NEW x \in Workers, Moves(x), NEW d \in Docs, d # hand[x]
    PROVE  status'[d] = status[d]
<1>1. CASE Record(x)
  BY <1>1 DEF Record, DSTypeOK
<1>2. CASE ~ Record(x)
  BY <1>2 DEF Moves, WorkStep, Take, WritePage, BatchWritten,
              ExtractTick, Extract, OcrTick, Open, ListPages, Recognize, docVars
<1> QED BY <1>1, <1>2

\* A filing gives its state to a document that has none.
LEMMA FilingsBegin ==
    ASSUME DSTypeOK, Filed, NEW e \in Docs, FilingStep(e),
           NEW d \in Docs, status[d] # Nothing
    PROVE  status'[d] = status[d] /\ UNCHANGED tickVars
<1>1. CASE CreateRow(e)
  <2>1. e # d
    BY <1>1 DEF CreateRow, Filed
  <2> QED BY <1>1, <2>1 DEF CreateRow, DSTypeOK
<1>2. CASE ~ CreateRow(e)
  BY <1>2 DEF FilingStep, Put, Cleanup, StopFiling
<1> QED BY <1>1, <1>2

\* The safety half of EveryPaperSettles: only a tick that took a document up
\* before it was settled can alter its final state; no tick takes it up again.
THEOREM SettledPapersStay == DSSpec => SettledIsFinal
<1>1. DSIInv /\ [DSNext]_DSvars
      => [\A d \in Docs :
            LeftAlone(d) => status'[d] = status[d] /\ LeftAlone(d)']_DSvars
  <2> SUFFICES ASSUME DSIInv, DSNext, NEW d \in Docs, LeftAlone(d)
               PROVE  status'[d] = status[d] /\ LeftAlone(d)'
    OBVIOUS
  <2>1. status[d] # Nothing /\ d # Nothing
    BY ConstantsAssumption DEF LeftAlone, Settled, Verdicts
  <2>2. ASSUME NEW e \in Docs, FilingStep(e)
        PROVE  status'[d] = status[d] /\ LeftAlone(d)'
    BY <2>1, <2>2, FilingsBegin DEF DSIInv, LeftAlone, InNoHands, tickVars
  <2>3. ASSUME NEW x \in Workers, Moves(x)
        PROVE  status'[d] = status[d] /\ LeftAlone(d)'
    <3>1. status'[d] = status[d]
      BY <2>3, StatesAreOfTheDocumentInHand DEF DSIInv, LeftAlone, InNoHands
    <3>2. d \notin WithStatus("unset") \cup WithStatus("NO_TEXT_LAYER")
      BY DEF LeftAlone, Settled, WithStatus
    <3>3. ASSUME NEW w \in Workers PROVE hand'[w] # d /\ d \notin queue'[w]
      <4>1. /\ hand'[w] \in {hand[w], Nothing} \cup queue[w]
            /\ queue'[w] \subseteq queue[w] \cup WithStatus("unset")
                                     \cup WithStatus("NO_TEXT_LAYER")
        BY <2>3, QueuesTakeUnsettled DEF DSIInv
      <4> QED BY <2>1, <3>2, <4>1 DEF LeftAlone, InNoHands
    <3> QED BY <3>1, <3>3 DEF LeftAlone, InNoHands
  <2>4. ASSUME NEW k \in Replicas, Restart(k)
        PROVE  status'[d] = status[d] /\ LeftAlone(d)'
    <3>1. status' = status
      BY <2>4 DEF Restart, docVars
    <3>2. ASSUME NEW w \in Workers PROVE hand'[w] # d /\ d \notin queue'[w]
      BY <2>1, <2>4, Restarted DEF DSIInv, LeftAlone, InNoHands, Still
    <3> QED BY <3>1, <3>2 DEF LeftAlone, InNoHands
  <2> QED BY <2>2, <2>3, <2>4 DEF DSNext, Moves
<1> QED BY <1>1, DSInvariance, PTL DEF DSSpec, SettledIsFinal

-----------------------------------------------------------------------------
(* The budget of a tick.                                                   *)

\* The pages a worker has decided to ask for and has not been billed for yet.
Owed(w) ==
    IF at[w] = "recognize" THEN todo[w]
    ELSE IF at[w] = "write" THEN todo[w] \ batch[w]
    ELSE {}

\* Once they are billed too, the tick is within its budget or has paid for a
\* single document.
Spending(w) ==
    LET left == budget[w] - Cardinality(Owed(w))
    IN  left >= 0 \/ PagesPerTick - left <= PagesPerPdf

AllSpending == \A w \in Workers : Spending(w)

\* What is owed is a finite set of pages, no more than a document has.
LEMMA PagesCount ==
    ASSUME NEW S \in SUBSET PageNumbers
    PROVE  /\ IsFiniteSet(S)
           /\ Cardinality(S) \in Nat
           /\ Cardinality(S) <= PagesPerPdf
<1>1. /\ IsFiniteSet(PageNumbers)
      /\ Cardinality(PageNumbers) = PagesPerPdf
  BY FS_Interval, ConstantsAssumption DEF PageNumbers
<1>2. IsFiniteSet(S) /\ Cardinality(S) <= PagesPerPdf
  BY <1>1, FS_Subset
<1> QED BY <1>2, FS_CardinalityType

LEMMA OwedIsPages ==
    ASSUME DSTypeOK, NEW w \in Workers
    PROVE  Owed(w) \in SUBSET PageNumbers
BY DEF DSTypeOK, Owed

\* A worker that owes no more, its budget unchanged, stays within it.
LEMMA OwesLess ==
    ASSUME DSTypeOK, DSTypeOK', NEW w \in Workers, Spending(w),
           Owed(w)' \subseteq Owed(w), budget'[w] = budget[w]
    PROVE  Spending(w)'
<1>1. w \in Workers
  OBVIOUS
<1>2. Owed(w) \in SUBSET PageNumbers
  BY <1>1, OwedIsPages
<1> DEFINE before == Owed(w)
           after == Owed(w)'
<1>3. /\ Cardinality(before) \in Nat /\ Cardinality(after) \in Nat
      /\ Cardinality(after) <= Cardinality(before)
  <2>1. before \in SUBSET PageNumbers /\ after \in SUBSET before
    BY <1>2
  <2> HIDE DEF before, after
  <2> QED BY <2>1, PagesCount, FS_Subset
<1>4. budget[w] \in Int /\ PagesPerTick \in Int /\ PagesPerPdf \in Int
  BY ConstantsAssumption DEF DSTypeOK
<1>5. \/ budget[w] - Cardinality(before) >= 0
      \/ PagesPerTick - (budget[w] - Cardinality(before)) <= PagesPerPdf
  BY DEF Spending
<1>6. \/ budget[w] - Cardinality(after) >= 0
      \/ PagesPerTick - (budget[w] - Cardinality(after)) <= PagesPerPdf
  <2> HIDE DEF before, after
  <2> QED BY <1>3, <1>4, <1>5
<1> QED BY <1>6 DEF Spending

\* A provider call bills what it asks for and leaves the rest owed.
LEMMA CallIsBilled ==
    ASSUME DSTypeOK, DSTypeOK', NEW w \in Workers, Spending(w), Recognize(w)
    PROVE  Spending(w)'
<1> DEFINE asked == Asks(w)
           rest == todo[w] \ asked
           after == Owed(w)'
<1>1. todo[w] \in SUBSET PageNumbers /\ budget[w] \in Int
      /\ PagesPerTick \in Int /\ PagesPerPdf \in Int
  BY ConstantsAssumption DEF DSTypeOK
<1>2. asked \subseteq todo[w]
  BY <1>1, SliceIsFinite DEF Asks
<1>3. Owed(w) = todo[w] /\ budget'[w] = budget[w] - Cardinality(asked)
  BY DEF Recognize, Owed, DSTypeOK
<1>4. after \subseteq rest
  BY DEF Recognize, Owed, Conclude, Idle, Leave, FailTransiently, Clear, DSTypeOK
<1> HIDE DEF asked, after
<1>5. /\ Cardinality(asked) \in Nat /\ Cardinality(after) \in Nat
      /\ Cardinality(after) + Cardinality(asked) <= Cardinality(todo[w])
  <2>1. IsFiniteSet(todo[w]) /\ asked \in SUBSET PageNumbers
        /\ rest \in SUBSET PageNumbers /\ after \in SUBSET PageNumbers
    BY <1>1, <1>2, <1>4, PagesCount
  <2>2. Cardinality(rest) = Cardinality(todo[w]) - Cardinality(todo[w] \cap asked)
    BY <2>1, FS_Difference, PagesCount
  <2>3. todo[w] \cap asked = asked
    BY <1>2
  <2>4. IsFiniteSet(rest) /\ Cardinality(after) <= Cardinality(rest)
    BY <1>4, <2>1, PagesCount, FS_Subset
  <2>5. /\ Cardinality(asked) \in Nat /\ Cardinality(after) \in Nat
        /\ Cardinality(rest) \in Nat /\ Cardinality(todo[w]) \in Nat
    BY <1>1, <2>1, PagesCount
  <2>6. Cardinality(rest) = Cardinality(todo[w]) - Cardinality(asked)
    BY <2>2, <2>3
  <2> HIDE DEF rest
  <2> QED BY <2>4, <2>5, <2>6
<1>6. Cardinality(todo[w]) \in Nat
  BY <1>1, PagesCount
<1>7. \/ budget[w] - Cardinality(todo[w]) >= 0
      \/ PagesPerTick - (budget[w] - Cardinality(todo[w])) <= PagesPerPdf
  BY <1>3 DEF Spending
<1>8. \/ budget'[w] - Cardinality(after) >= 0
      \/ PagesPerTick - (budget'[w] - Cardinality(after)) <= PagesPerPdf
  BY <1>1, <1>3, <1>5, <1>6, <1>7
<1> QED BY <1>8 DEF Spending, after

\* The gate lets a document in that fits the budget, or the tick's first.
LEMMA GateHolds ==
    ASSUME DSTypeOK, DSTypeOK', NEW w \in Workers, Spending(w), ListPages(w)
    PROVE  Spending(w)'
<1>1. budget'[w] = budget[w] /\ budget[w] \in Int
      /\ PagesPerTick \in Int /\ PagesPerPdf \in Int /\ w \in Workers
  BY ConstantsAssumption DEF ListPages, DSTypeOK
<1>2. CASE at'[w] = "recognize"
  <2> DEFINE missing == Missing(hand[w])
  <2>1. /\ todo'[w] = missing
        /\ Gate(Cardinality(missing), budget[w]) = "process"
    BY <1>1, <1>2 DEF ListPages, Conclude, Idle, Clear, DSTypeOK
  <2>2. missing \in SUBSET PageNumbers
    BY PagesAreNumbers DEF Missing
  <2>3. Owed(w)' = missing
    BY <1>2, <2>1 DEF Owed
  <2> HIDE DEF missing
  <2>4. Cardinality(missing) \in Nat /\ Cardinality(missing) <= PagesPerPdf
    BY <2>2, PagesCount
  <2>5. Cardinality(missing) <= budget[w] \/ budget[w] = PagesPerTick
    BY <2>1 DEF Gate
  <2>6. \/ budget'[w] - Cardinality(missing) >= 0
        \/ PagesPerTick - (budget'[w] - Cardinality(missing)) <= PagesPerPdf
    BY <1>1, <2>4, <2>5
  <2> QED BY <2>3, <2>6 DEF Spending
<1>3. CASE at'[w] # "recognize"
  <2>1. at'[w] # "write"
    BY <1>1, <1>3 DEF ListPages, Conclude, Idle, DSTypeOK
  <2>2. Owed(w)' = {}
    BY <1>3, <2>1 DEF Owed
  <2> QED BY <1>1, <2>2, OwesLess
<1> QED BY <1>2, <1>3

\* The other steps of a tick owe nothing new, and a new tick owes nothing.
LEMMA OwnSpending ==
    ASSUME DSTypeOK, DSTypeOK', NEW w \in Workers, Spending(w),
           Moves(w)
    PROVE  Spending(w)'
<1>1. w \in Workers
  OBVIOUS
<1>2. CASE Recognize(w)
  BY <1>2, CallIsBilled
<1>3. CASE ListPages(w)
  BY <1>3, GateHolds
<1>4. CASE OcrTick(w)
  <2>1. Owed(w)' = {} /\ budget'[w] = PagesPerTick
    BY <1>1, <1>4 DEF OcrTick, Owed, DSTypeOK
  <2> QED BY <2>1, FS_EmptySet, ConstantsAssumption DEF Spending
<1>5. CASE Take(w) \/ Record(w) \/ Open(w)
  <2>1. /\ at'[w] \notin {"recognize", "write"} /\ budget'[w] = budget[w]
    BY <1>1, <1>5 DEF Take, Record, Open, Leave, FailTransiently, Idle, Conclude,
                      DSTypeOK
  <2> QED BY <2>1, OwesLess DEF Owed
<1>6. CASE BatchWritten(w)
  <2>1. Owed(w)' \subseteq Owed(w) /\ budget'[w] = budget[w]
    BY <1>1, <1>6 DEF BatchWritten, Conclude, Owed, DSTypeOK
  <2> QED BY <2>1, OwesLess
<1>7. CASE ExtractTick(w) \/ Extract(w)
  <2>1. Owed(w)' = {} /\ budget'[w] = budget[w]
    BY <1>1, <1>7 DEF ExtractTick, Extract, FailTransiently, Leave, Clear, Conclude, Owed,
                      DSTypeOK
  <2> QED BY <2>1, OwesLess
<1>8. CASE WritePage(w)
  <2>1. Owed(w)' \subseteq Owed(w) /\ budget'[w] = budget[w]
    BY <1>1, <1>8 DEF WritePage, FailTransiently, Leave, Clear, Owed, DSTypeOK
  <2> QED BY <2>1, OwesLess
<1> QED BY <1>2, <1>3, <1>4, <1>5, <1>6, <1>7, <1>8 DEF Moves, WorkStep

\* A step of another worker owes nothing in this one's name.
LEMMA OthersSpending ==
    ASSUME DSTypeOK, DSTypeOK', NEW w \in Workers, Spending(w),
           NEW u \in Workers, u # w, Moves(u)
    PROVE  Spending(w)'
<1>1. Still(w)
  BY OthersStay
<1>2. budget'[w] = budget[w]
  <2>1. CASE OcrTick(u) \/ Recognize(u)
    BY <2>1 DEF OcrTick, Recognize, DSTypeOK
  <2>2. CASE ~ (OcrTick(u) \/ Recognize(u))
    BY <2>2 DEF Moves, WorkStep, Take, WritePage, BatchWritten, Record,
                ExtractTick, Extract, Open, ListPages
  <2> QED BY <2>1, <2>2
<1> QED BY <1>1, <1>2, OwesLess DEF Owed, Still

\* A restart owes nothing new.
LEMMA RestartSpends ==
    ASSUME DSTypeOK, DSTypeOK', NEW w \in Workers, Spending(w),
           NEW k \in Replicas, Restart(k)
    PROVE  Spending(w)'
<1>1. w \in Workers
  OBVIOUS
<1>2. budget'[w] = budget[w]
  BY DEF Restart
<1>3. Owed(w)' \subseteq Owed(w)
  BY <1>1, Restarted DEF Owed, Still
<1> QED BY <1>2, <1>3, OwesLess

\* No step spends what a tick does not have.
LEMMA SpendingKept == DSTypeOK /\ DSTypeOK' /\ AllSpending /\ [DSNext]_DSvars => AllSpending'
<1> SUFFICES ASSUME DSTypeOK, DSTypeOK', AllSpending, [DSNext]_DSvars,
                    NEW w \in Workers
             PROVE  Spending(w)'
  BY DEF AllSpending
<1>1. Spending(w)
  BY DEF AllSpending
<1>2. ASSUME NEW d \in Docs, FilingStep(d) PROVE Spending(w)'
  <2>1. UNCHANGED tickVars
    BY <1>2 DEF FilingStep, Put, CreateRow, Cleanup, StopFiling
  <2> QED BY <1>1, <2>1, OwesLess DEF tickVars, Owed
<1>3. ASSUME NEW u \in Workers, Moves(u) PROVE Spending(w)'
  <2>1. CASE u = w
    BY <1>1, <1>3, <2>1, OwnSpending
  <2>2. CASE u # w
    BY <1>1, <1>3, <2>2, OthersSpending
  <2> QED BY <2>1, <2>2
<1>4. ASSUME NEW k \in Replicas, Restart(k) PROVE Spending(w)'
  BY <1>1, <1>4, RestartSpends
<1>5. CASE UNCHANGED DSvars
  BY <1>1, <1>5, OwesLess DEF DSvars, Owed
<1> QED BY <1>2, <1>3, <1>4, <1>5 DEF DSNext, Moves

\* The budget is a ceiling: whatever fails on the way, one tick bills at most
\* its budget, or one document that alone exceeds it.
THEOREM TicksKeepTheirBudget == DSSpec => []TickStaysInBudget
<1>1. DSInit => AllSpending
  <2> SUFFICES ASSUME DSInit, NEW w \in Workers PROVE Spending(w)
    BY DEF AllSpending
  <2>1. Owed(w) = {} /\ budget[w] = PagesPerTick
    BY DEF DSInit, Owed
  <2> QED BY <2>1, FS_EmptySet, ConstantsAssumption DEF Spending
<1>2. DSIInv => DSTypeOK
  BY DEF DSIInv
<1>3. DSTypeOK /\ AllSpending => TickStaysInBudget
  <2> SUFFICES ASSUME DSTypeOK, NEW w \in Workers, Spending(w)
               PROVE  budget[w] >= 0 \/ PagesPerTick - budget[w] <= PagesPerPdf
    BY DEF AllSpending, TickStaysInBudget
  <2>1. Cardinality(Owed(w)) \in Nat /\ budget[w] \in Int
        /\ PagesPerTick \in Int /\ PagesPerPdf \in Int
    BY OwedIsPages, PagesCount, ConstantsAssumption DEF DSTypeOK
  <2> QED BY <2>1 DEF Spending
<1> QED BY <1>1, <1>2, <1>3, SpendingKept, DSInvariance, PTL DEF DSSpec
=============================================================================
