---------------------- MODULE TeamAndReminders_proofs -----------------------
(***************************************************************************)
(* Theorems about who is on a case and who is told of it.                  *)
(*                                                                         *)
(* CaseTeam: its types; that leads stay members however case writes and    *)
(* additions race; that a removal nobody disturbs spares the lead; that an *)
(* undisturbed case write heals what was lost.                             *)
(*                                                                         *)
(* ReminderSweep: its types; that nobody is told too early or of what is   *)
(* not theirs; that a tick that ends well has told everybody whom its day  *)
(* concerns, and that what is told stays told.                             *)
(*                                                                         *)
(* No theorem speaks of both: the two share no constant and no variable.   *)
(***************************************************************************)
EXTENDS CaseTeam, ReminderSweep, FiniteSetTheorems, TLAPS

-----------------------------------------------------------------------------
(* CaseTeam                                                                *)

CaseStages == {"readCase", "saveCase", "lookup", "open"}
RemoveStages == {"load", "guard", "close"}

\* A request's call is of the operation its stage belongs to, and what the
\* stage works on has been read.
InHand ==
    \A r \in Requests :
        /\ pc[r] \in CaseStages => /\ call[r].case \in Cases
                                   /\ call[r].op \in {"assign", "rewrite"}
        /\ pc[r] \in CaseStages \ {"readCase"} => sent[r] \in People
        /\ pc[r] \in {"precheck", "insert"} =>
              /\ call[r].case \in Cases /\ call[r].member \in People
              /\ call[r].op = "add"
        /\ pc[r] \in RemoveStages => /\ call[r].id \in Ids
                                     /\ periods[call[r].id] # None
                                     /\ call[r].op = "remove"
        /\ pc[r] \in {"guard", "close"} => held[r] \in Period

\* The period a request opens is not there before it does.
OpensLater ==
    \A r \in Requests :
        pc[r] \in CaseStages \cup {"idle", "precheck", "insert"} => periods[r] = None

\* Nobody else is under way beside an undisturbed request.
Alone ==
    \A r, o \in Requests : undisturbed[r] /\ Busy(r) /\ Busy(o) => o = r

\* What an undisturbed request has read and written still holds.
StillSo ==
    \A r \in Requests :
        undisturbed[r] =>
          /\ pc[r] \in {"guard", "close"} => held[r] = periods[call[r].id]
          /\ pc[r] = "close" => MayLeave(held[r], call[r].id)
          /\ InHandler(r) => sent[r] = lead[call[r].case]

\* The handler that will open the lead's period is under way.
Expected(c) ==
    \E r \in Requests : InHandler(r) /\ call[r].case = c /\ sent[r] = lead[c]

\* Every lead is a member or is about to be.
Covered ==
    ~ lost /\ ~ raced => \A c \in Cases : IsMember(c, lead[c]) \/ Expected(c)

IInv ==
    /\ TypeOK /\ InHand /\ OpensLater /\ Alone /\ StillSo /\ Covered

-----------------------------------------------------------------------------
\* The fields that each kind of call has.
LEMMA CallFields ==
    ASSUME NEW c \in Call
    PROVE  /\ c.op \in {"assign", "add", "rewrite", "remove"}
           /\ c.op \in {"assign", "add", "rewrite"} => c.case \in Cases
           /\ c.op \in {"assign", "add"} => c.member \in People
           /\ c.op = "remove" => c.id \in Ids
BY DEF Call

\* A period is a row.
LEMMA PeriodIsRow ==
    /\ \A c \in Cases, p \in People : Fresh(c, p) \in Period
    /\ \A row \in Period : [row EXCEPT !.active = FALSE] \in Period
BY DEF Fresh, Period

\* At boot every lead is a member and no request has come.
LEMMA Initially == Init => IInv
<1> SUFFICES ASSUME Init PROVE IInv
  OBVIOUS
<1>1. TypeOK /\ InHand /\ OpensLater /\ Alone /\ StillSo
  BY DEF Init, TypeOK, InHand, OpensLater, Alone, StillSo, Stages, CaseStages,
         RemoveStages, Busy, InHandler
<1>2. Covered
  BY DEF Init, Covered
<1> QED BY <1>1, <1>2 DEF IInv

\* Steps that change no more than their own request's stage.
Quiet(r) ==
    \/ Refuse(r) \/ Lookup(r) \/ LoseEvent(r) \/ Precheck(r) \/ Guard(r) \/ Stop(r)

\* A period that was opened where none was leaves every member one.
LEMMA MembersStay ==
    ASSUME TypeOK, NEW r \in Requests, periods[r] = None,
           NEW row, periods' = [periods EXCEPT ![r] = row],
           NEW c, NEW p, IsMember(c, p)
    PROVE  IsMember(c, p)'
<1>1. PICK i \in Ids : Live(i, c, p)
  BY DEF IsMember
<1>2. i # r
  BY <1>1 DEF Live
<1>3. periods'[i] = periods[i]
  BY <1>2 DEF TypeOK
<1> QED BY <1>1, <1>3 DEF IsMember, Live

\* The opened period makes its person a member.
LEMMA OpenedIsMember ==
    ASSUME TypeOK, NEW r \in Requests, NEW c \in Cases, NEW p \in People,
           periods' = [periods EXCEPT ![r] = Fresh(c, p)]
    PROVE  IsMember(c, p)'
<1>1. r \in Ids /\ periods'[r] = Fresh(c, p)
  BY DEF TypeOK, Ids
<1>2. Fresh(c, p) # None
  BY NoneAssumption, PeriodIsRow
<1> QED BY <1>1, <1>2 DEF IsMember, Live, Fresh

-----------------------------------------------------------------------------
\* Every step keeps the types and what the stages have in hand.
LEMMA TypesKept == IInv /\ [Next]_vars => TypeOK' /\ InHand' /\ OpensLater'
<1> SUFFICES ASSUME IInv, [Next]_vars
             PROVE  TypeOK' /\ InHand' /\ OpensLater'
  OBVIOUS
<1> USE DEF IInv
<1>1. ASSUME NEW r \in Requests, Receive(r)
      PROVE  TypeOK' /\ InHand' /\ OpensLater'
  <2>1. PICK c \in Call :
          /\ c.op = "remove" => periods[c.id] # None
          /\ call' = [call EXCEPT ![r] = c]
          /\ sent' = [sent EXCEPT ![r] = IF c.op = "assign" THEN c.member ELSE None]
          /\ Goto(r, CASE c.op = "assign"  -> "saveCase"
                       [] c.op = "rewrite" -> "readCase"
                       [] c.op = "add"     -> "precheck"
                       [] c.op = "remove"  -> "load")
    BY <1>1 DEF Receive
  <2>2. /\ UNCHANGED <<lead, periods, held, lost, raced>>
        /\ undisturbed' \in [Requests -> BOOLEAN]
        /\ pc[r] = "idle"
    BY <1>1 DEF Receive
  <2>3. /\ c.op \in {"assign", "add", "rewrite", "remove"}
        /\ c.op \in {"assign", "add", "rewrite"} => c.case \in Cases
        /\ c.op \in {"assign", "add"} => c.member \in People
        /\ c.op = "remove" => c.id \in Ids
    BY CallFields
  <2>4. /\ \A q \in Requests \ {r} : pc'[q] = pc[q] /\ call'[q] = call[q]
                                     /\ sent'[q] = sent[q]
        /\ call'[r] = c
        /\ sent'[r] = (IF c.op = "assign" THEN c.member ELSE None)
        /\ c.op = "assign"  => pc'[r] = "saveCase"
        /\ c.op = "rewrite" => pc'[r] = "readCase"
        /\ c.op = "add"     => pc'[r] = "precheck"
        /\ c.op = "remove"  => pc'[r] = "load"
    BY <2>1, <2>3 DEF TypeOK, Goto
  <2>5. pc' \in [Requests -> Stages] /\ call' \in [Requests -> Call \cup {None}]
        /\ sent' \in [Requests -> People \cup {None}]
    BY <2>1, <2>3 DEF TypeOK, Goto, Stages
  <2>6. TypeOK'
    BY <2>2, <2>5 DEF TypeOK
  <2>7. InHand'
    BY <2>1, <2>2, <2>3, <2>4 DEF InHand, CaseStages, RemoveStages
  <2>8. OpensLater'
    BY <2>2, <2>3, <2>4 DEF OpensLater, CaseStages
  <2> QED BY <2>6, <2>7, <2>8
<1>2. ASSUME NEW r \in Requests, ReadCase(r)
      PROVE  TypeOK' /\ InHand' /\ OpensLater'
  <2>1. call[r].case \in Cases
    BY <1>2 DEF ReadCase, InHand, CaseStages
  <2>2. lead[call[r].case] \in People
    BY <2>1 DEF TypeOK
  <2>3. TypeOK'
    BY <1>2, <2>2 DEF ReadCase, TypeOK, Goto, Stages, request
  <2>4. InHand'
    BY <1>2, <2>2 DEF ReadCase, InHand, TypeOK, Goto, CaseStages, RemoveStages
  <2>5. OpensLater'
    BY <1>2 DEF ReadCase, OpensLater, TypeOK, Goto, CaseStages
  <2> QED BY <2>3, <2>4, <2>5
<1>3. ASSUME NEW r \in Requests, SaveCase(r)
      PROVE  TypeOK' /\ InHand' /\ OpensLater'
  <2>1. call[r].case \in Cases /\ sent[r] \in People
    BY <1>3 DEF SaveCase, InHand, CaseStages
  <2>2. TypeOK'
    BY <1>3, <2>1 DEF SaveCase, SavedLead, TypeOK, Goto, Stages, request
  <2>3. InHand'
    BY <1>3 DEF SaveCase, InHand, TypeOK, Goto, CaseStages, RemoveStages, request
  <2>4. OpensLater'
    BY <1>3 DEF SaveCase, OpensLater, TypeOK, Goto, CaseStages
  <2> QED BY <2>2, <2>3, <2>4
<1>4. ASSUME NEW r \in Requests, Open(r) \/ Insert(r)
      PROVE  TypeOK' /\ InHand' /\ OpensLater'
  <2>1. /\ UNCHANGED <<lead, call, sent, held, undisturbed, lost, raced>>
        /\ \A q \in Requests \ {r} : pc'[q] = pc[q]
        /\ pc' \in [Requests -> Stages]
        /\ pc'[r] \in {"done", "refused"}
    BY <1>4 DEF Open, Insert, request, Goto, TypeOK, Stages
  <2>2. PICK row \in Period : periods' \in {periods, [periods EXCEPT ![r] = row]}
    <3>1. CASE Open(r)
      <4>1. call[r].case \in Cases /\ sent[r] \in People
        BY <3>1 DEF Open, InHand, CaseStages
      <4> QED BY <3>1, <4>1, PeriodIsRow DEF Open
    <3>2. CASE Insert(r)
      <4>1. call[r].case \in Cases /\ call[r].member \in People
        BY <3>2 DEF Insert, InHand
      <4> QED BY <3>2, <4>1, PeriodIsRow DEF Insert
    <3> QED BY <1>4, <3>1, <3>2
  <2>3. /\ periods' \in [Ids -> Period \cup {None}]
        /\ \A i \in Ids : periods[i] # None => periods'[i] # None
        /\ \A i \in Ids \ {r} : periods'[i] = periods[i]
    BY <2>2, NoneAssumption DEF TypeOK
  <2>4. TypeOK'
    BY <2>1, <2>3 DEF TypeOK
  <2>5. InHand'
    BY <2>1, <2>3 DEF InHand, CaseStages, RemoveStages
  <2>6. OpensLater'
    BY <2>1, <2>3 DEF OpensLater, CaseStages, Ids
  <2> QED BY <2>4, <2>5, <2>6
<1>5. ASSUME NEW r \in Requests, Load(r)
      PROVE  TypeOK' /\ InHand' /\ OpensLater'
  <2>1. call[r].id \in Ids /\ periods[call[r].id] # None
    BY <1>5 DEF Load, InHand, RemoveStages
  <2>2. periods[call[r].id] \in Period
    BY <2>1 DEF TypeOK
  <2>3. TypeOK'
    BY <1>5, <2>2 DEF Load, TypeOK, Goto, Stages
  <2>4. InHand'
    BY <1>5, <2>2 DEF Load, InHand, TypeOK, Goto, CaseStages, RemoveStages
  <2>5. OpensLater'
    BY <1>5 DEF Load, OpensLater, TypeOK, Goto, CaseStages
  <2> QED BY <2>3, <2>4, <2>5
<1>6. ASSUME NEW r \in Requests, Close(r)
      PROVE  TypeOK' /\ InHand' /\ OpensLater'
  <2>1. call[r].id \in Ids /\ held[r] \in Period /\ periods[call[r].id] # None
    BY <1>6 DEF Close, InHand, RemoveStages
  <2>2. /\ UNCHANGED <<lead, call, sent, held, undisturbed, lost>>
        /\ pc' = [pc EXCEPT ![r] = "done"]
        /\ periods' = [periods EXCEPT ![call[r].id] = [held[r] EXCEPT !.active = FALSE]]
        /\ raced' = (raced \/ ~ undisturbed[r])
    BY <1>6 DEF Close, request, Goto
  <2>3. [held[r] EXCEPT !.active = FALSE] \in Period
    BY <2>1, PeriodIsRow
  <2>4. /\ periods' \in [Ids -> Period \cup {None}]
        /\ \A i \in Ids : periods[i] # None => periods'[i] # None
        /\ \A i \in Ids : periods[i] = None => periods'[i] = None
    BY <2>1, <2>2, <2>3, NoneAssumption DEF TypeOK
  <2>5. raced' \in BOOLEAN
    BY <2>2 DEF TypeOK
  <2>6. TypeOK'
    BY <2>2, <2>4, <2>5 DEF TypeOK, Stages
  <2>7. InHand'
    BY <2>2, <2>4 DEF InHand, TypeOK, CaseStages, RemoveStages
  <2>8. OpensLater'
    BY <2>2, <2>4 DEF OpensLater, TypeOK, CaseStages, Ids
  <2> QED BY <2>6, <2>7, <2>8
<1>7. ASSUME NEW r \in Requests, Quiet(r)
      PROVE  TypeOK' /\ InHand' /\ OpensLater'
  <2>1. /\ UNCHANGED <<lead, periods, call, sent, held, raced>>
        /\ \A q \in Requests \ {r} : pc'[q] = pc[q]
        /\ pc' \in [Requests -> Stages]
        /\ \/ pc'[r] \in {"done", "refused", "stopped"}
           \/ pc[r] = "lookup" /\ pc'[r] = "open"
           \/ pc[r] = "precheck" /\ pc'[r] = "insert"
           \/ pc[r] = "guard" /\ pc'[r] = "close"
    BY <1>7 DEF Quiet, Refuse, Lookup, LoseEvent, Precheck, Guard, Stop, request, Goto,
                TypeOK, Stages
  <2>2. lost' \in BOOLEAN /\ undisturbed' \in [Requests -> BOOLEAN]
    BY <1>7 DEF Quiet, Refuse, Lookup, LoseEvent, Precheck, Guard, Stop, TypeOK
  <2>3. TypeOK'
    BY <2>1, <2>2 DEF TypeOK
  <2>4. InHand'
    BY <2>1 DEF InHand, CaseStages, RemoveStages
  <2>5. OpensLater'
    BY <2>1 DEF OpensLater, CaseStages
  <2> QED BY <2>3, <2>4, <2>5
<1>8. CASE UNCHANGED vars
  BY <1>8 DEF vars, TypeOK, InHand, OpensLater
<1> QED
  BY <1>1, <1>2, <1>3, <1>4, <1>5, <1>6, <1>7, <1>8 DEF Next, RequestStep, Quiet

\* Whoever comes while another is under way ends the other's being alone.
LEMMA AloneKept == IInv /\ [Next]_vars => Alone'
<1> SUFFICES ASSUME IInv, [Next]_vars
             PROVE  Alone'
  OBVIOUS
<1> USE DEF IInv
<1>1. ASSUME NEW r \in Requests, Receive(r)
      PROVE  Alone'
  <2>1. /\ undisturbed' = [q \in Requests |->
              q = r /\ \A o \in Requests \ {r} : ~ Busy(o)]
        /\ \A q \in Requests \ {r} : pc'[q] = pc[q]
    BY <1>1 DEF Receive, Goto, TypeOK
  <2> QED BY <2>1 DEF Alone, Busy
<1>2. ASSUME NEW r \in Requests, RequestStep(r), ~ Receive(r)
      PROVE  Alone'
  <2>1. /\ \A q \in Requests : undisturbed'[q] => undisturbed[q]
        /\ Busy(r)
        /\ \A q \in Requests \ {r} : pc'[q] = pc[q]
    BY <1>2 DEF RequestStep, Refuse, ReadCase, SaveCase, Lookup, Open, LoseEvent, InHandler,
                Precheck, Insert, Load, Guard, Close, Stop, Goto, TypeOK, Busy
  <2> QED BY <2>1 DEF Alone, Busy
<1>3. CASE UNCHANGED vars
  BY <1>3 DEF vars, Alone, Busy
<1> QED BY <1>1, <1>2, <1>3 DEF Next

\* What an undisturbed request has read and written stays so: whoever could
\* change it is not under way.
LEMMA StillSoKept == IInv /\ [Next]_vars => StillSo'
<1> SUFFICES ASSUME IInv, [Next]_vars
             PROVE  StillSo'
  OBVIOUS
<1> USE DEF IInv
<1> DEFINE Holds(q) ==
      /\ pc[q] \in {"guard", "close"} => held[q] = periods[call[q].id]
      /\ pc[q] = "close" => MayLeave(held[q], call[q].id)
      /\ InHandler(q) => sent[q] = lead[call[q].case]
<1>1. ASSUME NEW r \in Requests, RequestStep(r), undisturbed'[r]
      PROVE  Holds(r)'
  <2>1. CASE Receive(r)
    <3>1. pc'[r] \in {"saveCase", "readCase", "precheck", "load"}
      <4>1. PICK c \in Call :
              Goto(r, CASE c.op = "assign"  -> "saveCase"
                        [] c.op = "rewrite" -> "readCase"
                        [] c.op = "add"     -> "precheck"
                        [] c.op = "remove"  -> "load")
        BY <2>1 DEF Receive
      <4>2. c.op \in {"assign", "add", "rewrite", "remove"}
        BY CallFields
      <4> QED BY <4>1, <4>2 DEF Goto, TypeOK
    <3> QED BY <3>1 DEF InHandler
  <2>2. CASE Load(r)
    <3>1. /\ held' = [held EXCEPT ![r] = periods[call[r].id]]
          /\ UNCHANGED <<periods, call>>
          /\ pc'[r] \in {"guard", "refused"}
      BY <2>2 DEF Load, Goto, TypeOK
    <3> QED BY <3>1 DEF InHandler, TypeOK
  <2>3. CASE Guard(r)
    <3>1. /\ UNCHANGED <<lead, periods, call, held, undisturbed>>
          /\ pc[r] = "guard"
          /\ pc'[r] \in {"close", "refused"}
          /\ pc'[r] = "close" => MayLeave(held[r], call[r].id)
      BY <2>3 DEF Guard, Goto, TypeOK, request
    <3> QED BY <1>1, <3>1 DEF InHandler, StillSo, MayLeave
  <2>4. CASE SaveCase(r)
    <3>1. /\ lead' = [lead EXCEPT ![call[r].case] = sent[r]]
          /\ UNCHANGED <<call, sent>>
          /\ pc'[r] = "lookup"
          /\ call[r].case \in Cases
      BY <2>4 DEF SaveCase, SavedLead, Goto, TypeOK, request, InHand, CaseStages
    <3> QED BY <3>1 DEF InHandler, TypeOK
  <2>5. CASE Lookup(r)
    <3>1. /\ UNCHANGED <<lead, call, sent, undisturbed>>
          /\ InHandler(r)
          /\ pc'[r] \in {"done", "open"}
      BY <2>5 DEF Lookup, Goto, TypeOK, request, InHandler
    <3> QED BY <1>1, <3>1 DEF StillSo, InHandler
  <2>6. CASE ~ (Receive(r) \/ Load(r) \/ Guard(r) \/ SaveCase(r) \/ Lookup(r))
    <3>1. pc'[r] \in {"saveCase", "insert", "done", "refused", "stopped"}
      BY <1>1, <2>6 DEF RequestStep, Refuse, ReadCase, Open, LoseEvent, Precheck, Insert,
                        Close, Stop, Goto, TypeOK
    <3> QED BY <3>1 DEF InHandler
  <2> QED BY <2>1, <2>2, <2>3, <2>4, <2>5, <2>6
<1>2. ASSUME NEW r \in Requests, RequestStep(r), NEW q \in Requests \ {r}, undisturbed'[q]
      PROVE  ~ Busy(q)'
  <2>1. pc'[q] = pc[q] /\ undisturbed[q] /\ ~ Receive(r) /\ Busy(r)
    BY <1>2 DEF RequestStep, Receive, Refuse, ReadCase, SaveCase, Lookup, Open, LoseEvent,
                InHandler, Precheck, Insert, Load, Guard, Close, Stop, Goto, TypeOK, Busy
  <2> QED BY <2>1 DEF Alone, Busy
<1>3. ASSUME NEW r \in Requests, RequestStep(r)
      PROVE  StillSo'
  <2>1. \A q \in Requests : undisturbed'[q] => Holds(q)'
    BY <1>1, <1>2, <1>3 DEF Busy, InHandler
  <2> QED BY <2>1 DEF StillSo
<1>4. CASE UNCHANGED vars
  BY <1>4 DEF vars, StillSo, MayLeave, InHandler
<1> QED BY <1>3, <1>4 DEF Next

-----------------------------------------------------------------------------
\* A lead stays a member, or the handler that opens the period stays under
\* way, until a handler fails or a removal overlaps.
LEMMA CoveredKept == IInv /\ [Next]_vars => Covered'
<1> SUFFICES ASSUME IInv, [Next]_vars, ~ lost', ~ raced', NEW c \in Cases
             PROVE  IsMember(c, lead[c])' \/ Expected(c)'
  BY DEF Covered
<1> USE DEF IInv
\* A step that is none of a handler's changes neither side.
<1>1. ASSUME NEW r \in Requests, UNCHANGED <<lead, periods>>, ~ InHandler(r),
             ~ lost, ~ raced,
             \A q \in Requests \ {r} :
                pc'[q] = pc[q] /\ call'[q] = call[q] /\ sent'[q] = sent[q]
      PROVE  IsMember(c, lead[c])' \/ Expected(c)'
  <2>1. CASE IsMember(c, lead[c])
    BY <1>1, <2>1 DEF IsMember, Live
  <2>2. CASE Expected(c)
    BY <1>1, <2>2 DEF Expected, InHandler
  <2> QED BY <1>1, <2>1, <2>2 DEF Covered
<1>2. ASSUME NEW r \in Requests,
             Receive(r) \/ Refuse(r) \/ ReadCase(r) \/ Precheck(r) \/ Load(r) \/ Guard(r)
      PROVE  IsMember(c, lead[c])' \/ Expected(c)'
  <2>1. /\ UNCHANGED <<lead, periods, lost, raced>>
        /\ ~ InHandler(r)
        /\ \A q \in Requests \ {r} :
              pc'[q] = pc[q] /\ call'[q] = call[q] /\ sent'[q] = sent[q]
    BY <1>2 DEF Receive, Refuse, ReadCase, Precheck, Load, Guard, Goto, TypeOK, request,
                InHandler
  <2> QED BY <1>1, <2>1
<1>3. ASSUME NEW r \in Requests, Stop(r)
      PROVE  IsMember(c, lead[c])' \/ Expected(c)'
  <2>1. /\ UNCHANGED <<lead, periods, call, sent, raced>>
        /\ ~ InHandler(r) /\ ~ lost
        /\ \A q \in Requests \ {r} : pc'[q] = pc[q]
    BY <1>3 DEF Stop, Goto, TypeOK, request
  <2> QED BY <1>1, <2>1
<1>4. ASSUME NEW r \in Requests, SaveCase(r)
      PROVE  IsMember(c, lead[c])' \/ Expected(c)'
  <2>1. /\ lead' = [lead EXCEPT ![call[r].case] = sent[r]]
        /\ UNCHANGED <<periods, call, sent, lost, raced>>
        /\ pc[r] = "saveCase" /\ pc'[r] = "lookup"
        /\ \A q \in Requests \ {r} : pc'[q] = pc[q]
    BY <1>4 DEF SaveCase, SavedLead, Goto, TypeOK, request
  <2>2. CASE call[r].case = c
    BY <2>1, <2>2 DEF Expected, InHandler, TypeOK
  <2>3. CASE call[r].case # c
    <3>1. lead'[c] = lead[c]
      BY <2>1, <2>3 DEF TypeOK
    <3>2. CASE IsMember(c, lead[c])
      BY <2>1, <3>1, <3>2 DEF IsMember, Live
    <3>3. CASE Expected(c)
      BY <2>1, <3>1, <3>3 DEF Expected, InHandler
    <3> QED BY <2>1, <3>2, <3>3 DEF Covered
  <2> QED BY <2>2, <2>3
\* A handler that ends well has found or opened the period it was for.
<1>5. ASSUME NEW r \in Requests, Lookup(r)
      PROVE  IsMember(c, lead[c])' \/ Expected(c)'
  <2>1. /\ UNCHANGED <<lead, periods, call, sent, lost, raced>>
        /\ pc[r] = "lookup"
        /\ \A q \in Requests \ {r} : pc'[q] = pc[q]
        /\ pc'[r] = (IF IsMember(call[r].case, sent[r]) THEN "done" ELSE "open")
    BY <1>5 DEF Lookup, FoundActive, Goto, TypeOK, request
  <2>2. CASE IsMember(c, lead[c])
    BY <2>1, <2>2 DEF IsMember, Live
  <2>3. CASE ~ IsMember(c, lead[c])
    <3>1. PICK q \in Requests : InHandler(q) /\ call[q].case = c /\ sent[q] = lead[c]
      BY <2>1, <2>3 DEF Covered, Expected
    <3>2. InHandler(q)'
      BY <2>1, <2>3, <3>1 DEF InHandler
    <3> QED BY <2>1, <3>1, <3>2 DEF Expected
  <2> QED BY <2>2, <2>3
<1>6. ASSUME NEW r \in Requests, Open(r) \/ Insert(r)
      PROVE  IsMember(c, lead[c])' \/ Expected(c)'
  <2>1. /\ UNCHANGED <<lead, call, sent, lost, raced>>
        /\ \A q \in Requests \ {r} : pc'[q] = pc[q]
        /\ periods[r] = None
    BY <1>6 DEF Open, Insert, Goto, TypeOK, request, OpensLater, CaseStages
  <2>2. PICK row : periods' = periods \/ periods' = [periods EXCEPT ![r] = row]
    BY <1>6 DEF Open, Insert
  <2>3. ASSUME NEW p, IsMember(c, p) PROVE IsMember(c, p)'
    <3>1. CASE periods' = periods
      BY <2>3, <3>1 DEF IsMember, Live
    <3>2. CASE periods' = [periods EXCEPT ![r] = row]
      BY <2>1, <2>3, <3>2, MembersStay
    <3> QED BY <2>2, <3>1, <3>2
  <2>4. CASE IsMember(c, lead[c])
    BY <2>1, <2>3, <2>4 DEF IsMember, Live
  <2>5. CASE Expected(c)
    <3>1. PICK q \in Requests : InHandler(q) /\ call[q].case = c /\ sent[q] = lead[c]
      BY <2>5 DEF Expected
    <3>2. CASE q # r
      BY <2>1, <3>1, <3>2 DEF Expected, InHandler
    <3>3. CASE q = r
      <4>1. Open(r) /\ sent[r] \in People
        BY <1>6, <3>1, <3>3 DEF Insert, InHandler, InHand, CaseStages
      <4>2. CASE IsMember(c, sent[r])
        BY <2>1, <2>3, <3>1, <3>3, <4>2 DEF IsMember, Live
      <4>3. CASE ~ IsMember(c, sent[r])
        <5>1. periods' = [periods EXCEPT ![r] = Fresh(c, sent[r])]
          BY <3>1, <3>3, <4>1, <4>3 DEF Open
        <5>2. IsMember(c, sent[r])'
          BY <2>1, <4>1, <5>1, OpenedIsMember
        <5> QED BY <2>1, <3>1, <3>3, <5>2 DEF IsMember, Live
      <4> QED BY <4>2, <4>3
    <3> QED BY <3>2, <3>3
  <2> QED BY <2>1, <2>4, <2>5 DEF Covered
<1>7. ASSUME NEW r \in Requests, LoseEvent(r)
      PROVE  FALSE
  BY <1>7 DEF LoseEvent
<1>8. ASSUME NEW r \in Requests, Close(r)
      PROVE  IsMember(c, lead[c])' \/ Expected(c)'
  <2>1. /\ UNCHANGED <<lead, call, sent, lost>>
        /\ pc[r] = "close"
        /\ \A q \in Requests \ {r} : pc'[q] = pc[q]
        /\ periods' = [periods EXCEPT ![call[r].id] = [held[r] EXCEPT !.active = FALSE]]
        /\ undisturbed[r] /\ ~ raced
    BY <1>8 DEF Close, Goto, TypeOK, request
  <2>2. CASE IsMember(c, lead[c])
    <3>1. PICK i \in Ids : Live(i, c, lead[c])
      BY <2>2 DEF IsMember
    <3>2. i # call[r].id
      BY <2>1, <3>1 DEF StillSo, MayLeave, Live
    <3>3. periods'[i] = periods[i]
      BY <2>1, <3>2 DEF TypeOK
    <3> QED BY <2>1, <3>1, <3>3 DEF IsMember, Live
  <2>3. CASE Expected(c)
    BY <2>1, <2>3 DEF Expected, InHandler
  <2> QED BY <2>1, <2>2, <2>3 DEF Covered
<1>9. CASE UNCHANGED vars
  BY <1>9 DEF vars, Covered, IsMember, Live, Expected, InHandler
<1> QED
  BY <1>2, <1>3, <1>4, <1>5, <1>6, <1>7, <1>8, <1>9 DEF Next, RequestStep

-----------------------------------------------------------------------------
LEMMA Invariance == Spec => []IInv
<1>1. IInv /\ [Next]_vars => IInv'
  BY TypesKept, AloneKept, StillSoKept, CoveredKept DEF IInv
<1> QED BY Initially, <1>1, PTL DEF Spec

\* Every variable keeps its type, for any sets of requests, cases and people
\* (casemember-resource.ts and lead-membership-handler.ts).
THEOREM TypeCorrect == Spec => []TypeOK
<1>1. IInv => TypeOK
  BY DEF IInv
<1> QED BY Invariance, <1>1, PTL

\* When no handler is running every lead is a member, unless a handler failed
\* or a removal overlapped (lead-membership-handler.ts).
THEOREM LeadsStayMembers == Spec => []LeadIsMemberUnlessRaced
<1>1. IInv => LeadIsMemberUnlessRaced
  BY DEF IInv, Covered, Expected, LeadIsMemberUnlessRaced, LeadsAreMembers
<1> QED BY Invariance, <1>1, PTL

\* The guard of an undisturbed removal is true of the row it closes
\* (casemember-resource.ts, remove).
THEOREM LeadIsSpared == Spec => RemovalSparesLead
<1>1. ASSUME IInv, NEW r \in Requests, undisturbed[r], Close(r)
      PROVE  LET i == call[r].id IN lead[periods[i].case] # periods[i].member
  BY <1>1 DEF IInv, StillSo, MayLeave, Close
<1>2. IInv /\ [Next]_vars =>
        [\A r \in Requests :
            undisturbed[r] /\ Close(r)
            => LET i == call[r].id IN lead[periods[i].case] # periods[i].member]_vars
  BY <1>1
<1> QED BY Invariance, <1>2, PTL DEF Spec, RemovalSparesLead

\* A case write that runs undisturbed, its handler included, ends with the
\* lead a member, whatever went wrong before (lead-membership-handler.ts).
THEOREM CaseWriteHeals == Spec => NextCaseWriteHeals
<1>1. ASSUME IInv, [Next]_vars, NEW r \in Requests,
             undisturbed'[r], pc[r] # "done", pc'[r] = "done",
             call[r].op \in {"assign", "rewrite"}
      PROVE  LET c == call[r].case IN \E i \in Ids : Live(i, c, lead[c])'
  <2> USE <1>1 DEF IInv
  <2>1. Lookup(r) \/ Open(r)
    <3>1. ASSUME NEW q \in Requests, RequestStep(q), q # r
          PROVE  pc'[r] = pc[r]
      BY <3>1 DEF RequestStep, Receive, Refuse, ReadCase, SaveCase, Lookup, Open,
                  LoseEvent, Precheck, Insert, Load, Guard, Close, Stop, Goto, TypeOK
    <3>2. RequestStep(r)
      BY <3>1 DEF Next, vars
    <3>3. ~ Receive(r)
      <4> SUFFICES ASSUME Receive(r) PROVE FALSE
        OBVIOUS
      <4>1. PICK c \in Call :
              Goto(r, CASE c.op = "assign"  -> "saveCase"
                        [] c.op = "rewrite" -> "readCase"
                        [] c.op = "add"     -> "precheck"
                        [] c.op = "remove"  -> "load")
        BY DEF Receive
      <4>2. c.op \in {"assign", "add", "rewrite", "remove"}
        BY CallFields
      <4> QED BY <4>1, <4>2 DEF Goto, TypeOK
    <3>4. ~ LoseEvent(r)
      BY DEF LoseEvent, TypeOK
    <3>5. ~ Insert(r) /\ ~ Close(r)
      BY DEF Insert, Close, InHand, RemoveStages
    <3> QED BY <3>2, <3>3, <3>4, <3>5 DEF RequestStep, Refuse, ReadCase, SaveCase,
               Precheck, Load, Guard, Stop, Goto, TypeOK
  <2>2. /\ UNCHANGED <<lead, call, sent, undisturbed>>
        /\ InHandler(r)
    BY <2>1 DEF Lookup, Open, request, InHandler
  <2>3. call[r].case \in Cases /\ sent[r] \in People /\ sent[r] = lead[call[r].case]
    BY <2>2 DEF InHand, CaseStages, InHandler, StillSo
  <2>4. \E i \in Ids : Live(i, call[r].case, sent[r])'
    <3>1. CASE IsMember(call[r].case, sent[r]) /\ periods' = periods
      BY <2>2, <3>1 DEF IsMember, Live
    <3>2. CASE ~ (IsMember(call[r].case, sent[r]) /\ periods' = periods)
      <4>1. Open(r) /\ periods' = [periods EXCEPT ![r] = Fresh(call[r].case, sent[r])]
        BY <2>1, <3>2 DEF Lookup, Open, FoundActive, Goto, TypeOK
      <4>2. IsMember(call[r].case, sent[r])'
        BY <2>2, <2>3, <4>1, OpenedIsMember DEF IsMember, Live
      <4> QED BY <2>2, <4>2 DEF IsMember, Live
    <3> QED BY <3>1, <3>2
  <2> QED BY <2>2, <2>3, <2>4 DEF Live
<1>2. IInv /\ [Next]_vars =>
        [\A r \in Requests :
            undisturbed'[r] /\ pc[r] # "done" /\ pc'[r] = "done"
              /\ call[r].op \in {"assign", "rewrite"}
            => LET c == call[r].case IN \E i \in Ids : Live(i, c, lead[c])']_vars
  BY <1>1
<1> QED BY Invariance, <1>2, PTL DEF Spec, NextCaseWriteHeals

-----------------------------------------------------------------------------
(* ReminderSweep                                                           *)

ListNames == Windows \cup {"past", "reminders"}

\* A telling under that key to that person is not too early and not about
\* somebody else's: what the notices, the queue and the next notice share.
Timely(key, to) ==
    /\ key \in DeadlineKey /\ key.about \notin edited =>
          /\ today >= due[key.about] - DaysBefore(key.window)
          /\ to = owner[key.about] /\ open[key.about]
    /\ key \in ReminderKey =>
          /\ today >= key.date - 1
          /\ to = key.to /\ to \in TeamOf[key.about]
    /\ key \in OutcomeKey =>
          /\ to = LeadOf[key.about]
          /\ key.about \notin edited => date[key.about] < today

\* Every notice and everything a tick still means to tell is timely.
AllTimely ==
    /\ \A key \in Keys : notices[key] # Nothing => Timely(key, notices[key])
    /\ \A k \in Replicas : \A t \in queue[k] : Timely(t.key, t.to)
    /\ \A k \in Replicas : next[k] # Nothing => Timely(next[k].key, next[k].to)

\* A tick's day has come; between ticks nothing is in hand.
TicksInDay ==
    \A k \in Replicas :
        /\ clock[k] <= today
        /\ phase[k] = "idle" => at[k] = 0 /\ queue[k] = {} /\ next[k] = Nothing /\ unsettled[k] = {}

\* The telling is told, or the tick holds it.
Arranged(k, t) == notices[t.key] # Nothing \/ t \in queue[k] \/ next[k] = t

\* Whatever a list that was read gave is told or held, unless the row or the
\* member changed under the tick.
Accounted(k, list) ==
    \A x \in Hits(k, list) \ unsettled[k] :
        \A t \in TellingsOf(list, x) :
            t.to \in active \ unsettled[k] => Arranged(k, t)

ListsAccounted ==
    FitsAPage =>
        \A k \in Replicas : phase[k] = "run" => \A i \in 1..at[k] : Accounted(k, Lists[i])

RSIInv == RSTypeOK /\ AllTimely /\ TicksInDay /\ ListsAccounted

-----------------------------------------------------------------------------
(* Keys, tellings and pages.                                               *)

\* Which keys are which: a deadline's key is no hearing's, and the two keys
\* of a hearing have different fields.
LEMMA KeysApart ==
    /\ \A d \in Deadlines, w \in Windows :
          /\ [about |-> d, window |-> w] \in DeadlineKey
          /\ [about |-> d, window |-> w] \notin OutcomeKey
          /\ [about |-> d, window |-> w] \notin ReminderKey
    /\ \A h \in Hearings :
          /\ [about |-> h, window |-> "past"] \in OutcomeKey
          /\ [about |-> h, window |-> "past"] \notin DeadlineKey
          /\ [about |-> h, window |-> "past"] \notin ReminderKey
    /\ \A h \in Hearings, m \in Members, day \in Dates :
          /\ [about |-> h, to |-> m, date |-> day] \in ReminderKey
          /\ [about |-> h, to |-> m, date |-> day] \notin DeadlineKey
          /\ [about |-> h, to |-> m, date |-> day] \notin OutcomeKey
<1>1. \A d \in Deadlines, w \in Windows :
         /\ [about |-> d, window |-> w] \in DeadlineKey
         /\ [about |-> d, window |-> w] \notin OutcomeKey
  BY ConstantsAssumption DEF DeadlineKey, OutcomeKey
<1>2. \A h \in Hearings :
         /\ [about |-> h, window |-> "past"] \in OutcomeKey
         /\ [about |-> h, window |-> "past"] \notin DeadlineKey
  BY ConstantsAssumption DEF DeadlineKey, OutcomeKey
<1>3. \A x, w : [about |-> x, window |-> w] \notin ReminderKey
  BY DEF ReminderKey
<1>4. \A h \in Hearings, m \in Members, day \in Dates :
         /\ [about |-> h, to |-> m, date |-> day] \in ReminderKey
         /\ [about |-> h, to |-> m, date |-> day] \notin DeadlineKey
  BY ConstantsAssumption DEF ReminderKey, DeadlineKey
<1>5. \A x, m, day : [about |-> x, to |-> m, date |-> day] \notin OutcomeKey
  BY DEF OutcomeKey
<1> QED BY <1>1, <1>2, <1>3, <1>4, <1>5

\* The lists of a tick, by name.
LEMMA ListNamed ==
    /\ \A i \in 1..6 : Lists[i] \in ListNames
    /\ "past" \notin Windows /\ "reminders" \notin Windows
    /\ Lists[1] = "t-7" /\ Lists[2] = "t-3" /\ Lists[3] = "t-1" /\ Lists[4] = "day-of"
    /\ Lists[5] = "past" /\ Lists[6] = "reminders"
BY DEF Lists, ListNames, Windows

\* What a list selects are deadlines or hearings.
LEMMA HitsAreRows ==
    ASSUME NEW k \in Replicas, NEW list \in ListNames
    PROVE  /\ list \in Windows => Hits(k, list) \subseteq Deadlines
           /\ list \notin Windows => Hits(k, list) \subseteq Hearings
BY DEF Hits

\* A row's tellings are addressed to members, under the row's own key.
LEMMA TellingsType ==
    ASSUME RSTypeOK, NEW k \in Replicas, NEW list \in ListNames, NEW x \in Hits(k, list)
    PROVE  TellingsOf(list, x) \subseteq Telling
<1>1. CASE list \in Windows
  <2>1. x \in Deadlines /\ owner[x] \in Members
    BY <1>1, HitsAreRows DEF RSTypeOK
  <2>2. TellingsOf(list, x) = {[key |-> [about |-> x, window |-> list], to |-> owner[x]]}
    BY <1>1, ListNamed DEF TellingsOf
  <2>3. [about |-> x, window |-> list] \in Keys
    BY <1>1, <2>1, KeysApart DEF Keys
  <2> QED BY <2>1, <2>2, <2>3 DEF Telling
<1>2. CASE list = "past"
  <2>1. x \in Hearings /\ LeadOf[x] \in Members
    BY <1>2, HitsAreRows, ListNamed, ConstantsAssumption
  <2>2. TellingsOf(list, x) = {[key |-> [about |-> x, window |-> "past"], to |-> LeadOf[x]]}
    BY <1>2, ListNamed DEF TellingsOf
  <2>3. [about |-> x, window |-> "past"] \in Keys
    BY <2>1, KeysApart DEF Keys
  <2> QED BY <2>1, <2>2, <2>3 DEF Telling
<1>3. CASE list = "reminders"
  <2>1. x \in Hearings /\ date[x] \in Dates /\ TeamOf[x] \subseteq Members
    BY <1>3, HitsAreRows, ListNamed, ConstantsAssumption DEF RSTypeOK
  <2>2. TellingsOf(list, x) =
           {[key |-> [about |-> x, to |-> m, date |-> date[x]], to |-> m] : m \in TeamOf[x]}
    BY <1>3, ListNamed DEF TellingsOf
  <2>3. \A m \in TeamOf[x] : [about |-> x, to |-> m, date |-> date[x]] \in Keys
    BY <2>1, KeysApart DEF Keys
  <2> QED BY <2>1, <2>2, <2>3 DEF Telling
<1> QED BY <1>1, <1>2, <1>3 DEF ListNames

\* The days before a deadline that a window's list selects.
LEMMA RangeInWindow ==
    ASSUME NEW w \in Windows, NEW days \in RangeOf(w)
    PROVE  days \in 0..7 /\ days <= DaysBefore(w) /\ DaysBefore(w) \in 0..7
BY DEF RangeOf, DaysBefore, Windows

\* What a list gives is timely: its tick's day has come.
LEMMA TellingsTimely ==
    ASSUME RSTypeOK, NEW k \in Replicas, clock[k] <= today,
           NEW list \in ListNames, NEW x \in Hits(k, list), NEW t \in TellingsOf(list, x)
    PROVE  Timely(t.key, t.to)
<1>0. clock[k] \in Nat /\ today \in Nat
  BY ConstantsAssumption DEF RSTypeOK, Days
<1>1. CASE list \in Windows
  <2>1. /\ x \in Deadlines /\ open[x] /\ due[x] - clock[k] \in RangeOf(list)
        /\ due[x] \in Nat
    BY <1>1, ConstantsAssumption DEF Hits, RSTypeOK
  <2>2. t = [key |-> [about |-> x, window |-> list], to |-> owner[x]]
    BY <1>1, ListNamed DEF TellingsOf
  <2>3. today >= due[x] - DaysBefore(list)
    BY <1>0, <1>1, <2>1, RangeInWindow
  <2> QED BY <1>1, <2>1, <2>2, <2>3, KeysApart DEF Timely
<1>2. CASE list = "past"
  <2>1. /\ x \in Hearings /\ date[x] < clock[k] /\ date[x] \in Nat
    BY <1>2, ListNamed, ConstantsAssumption DEF Hits, RSTypeOK
  <2>2. t = [key |-> [about |-> x, window |-> "past"], to |-> LeadOf[x]]
    BY <1>2, ListNamed DEF TellingsOf
  <2>3. date[x] < today
    BY <1>0, <2>1
  <2> QED BY <2>1, <2>2, <2>3, KeysApart DEF Timely
<1>3. CASE list = "reminders"
  <2>1. /\ x \in Hearings /\ date[x] - clock[k] \in 0..1 /\ date[x] \in Nat
        /\ date[x] \in Dates /\ TeamOf[x] \subseteq Members
    BY <1>3, ListNamed, ConstantsAssumption DEF Hits, RSTypeOK
  <2>2. PICK m \in TeamOf[x] :
           t = [key |-> [about |-> x, to |-> m, date |-> date[x]], to |-> m]
    BY <1>3, ListNamed DEF TellingsOf
  <2>3. today >= date[x] - 1
    BY <1>0, <2>1
  <2> QED BY <2>1, <2>2, <2>3, KeysApart DEF Timely
<1> QED BY <1>1, <1>2, <1>3 DEF ListNames

\* When every row fits a page, a list returns all it selects.
LEMMA PageIsAll ==
    ASSUME FitsAPage, NEW k \in Replicas, NEW list \in ListNames,
           NEW s \in Pages(k, list)
    PROVE  s = Hits(k, list)
<1>1. PICK all : /\ IsFiniteSet(all) /\ Cardinality(all) <= Page
                 /\ Hits(k, list) \subseteq all
  BY HitsAreRows, ConstantsAssumption DEF FitsAPage
<1>2. IsFiniteSet(Hits(k, list)) /\ Cardinality(Hits(k, list)) <= Page
  <2>1. /\ IsFiniteSet(Hits(k, list)) /\ Cardinality(Hits(k, list)) <= Cardinality(all)
        /\ Cardinality(all) \in Nat
    BY <1>1, FS_Subset, FS_CardinalityType
  <2>2. Cardinality(Hits(k, list)) \in Nat
    BY <2>1, FS_CardinalityType
  <2> QED BY <1>1, <2>1, <2>2, ConstantsAssumption
<1>3. /\ s \subseteq Hits(k, list)
      /\ s # Hits(k, list) => Cardinality(s) = Page
  BY DEF Pages
<1>4. /\ Cardinality(s) <= Cardinality(Hits(k, list))
      /\ Cardinality(s) = Cardinality(Hits(k, list)) => s = Hits(k, list)
  BY <1>2, <1>3, FS_Subset
<1>5. Cardinality(Hits(k, list)) \in Nat
  BY <1>2, FS_CardinalityType
<1> QED BY <1>2, <1>3, <1>4, <1>5, ConstantsAssumption

-----------------------------------------------------------------------------
(* Types.                                                                  *)

LEMMA TypesInitially == RSInit => RSTypeOK
<1> SUFFICES ASSUME RSInit PROVE RSTypeOK
  OBVIOUS
<1>1. today \in Days /\ upsets \in 0..MaxUpsets
  BY ConstantsAssumption DEF RSInit, Days
<1>2. \A k \in Replicas : 0 \in Days /\ 0 \in 0..6
  BY ConstantsAssumption DEF Days
<1> QED BY <1>1, <1>2, ConstantsAssumption DEF RSInit, RSTypeOK

\* The steps of a tick keep the types.
LEMMA TickTypes ==
    ASSUME RSTypeOK, NEW k \in Replicas, TickStep(k) \/ TickFails(k)
    PROVE  RSTypeOK'
<1> USE ConstantsAssumption
<1>1. CASE Tick(k)
  BY <1>1 DEF Tick, Enter, RSTypeOK, rowVars
<1>2. CASE List(k)
  <2>1. PICK s \in Pages(k, Lists[at[k] + 1]) :
           queue' = [queue EXCEPT ![k] = UNION {TellingsOf(Lists[at[k] + 1], x) : x \in s}]
    BY <1>2 DEF List
  <2>2. at[k] + 1 \in 1..6 /\ Lists[at[k] + 1] \in ListNames
    BY <1>2, ListNamed DEF List, RSTypeOK
  <2>3. UNION {TellingsOf(Lists[at[k] + 1], x) : x \in s} \subseteq Telling
    BY <2>2, TellingsType DEF Pages
  <2>4. queue' \in [Replicas -> SUBSET Telling]
    BY <2>1, <2>3 DEF RSTypeOK
  <2>5. at' \in [Replicas -> 0..6]
    BY <1>2, <2>2 DEF List, RSTypeOK
  <2> QED BY <1>2, <2>4, <2>5 DEF List, RSTypeOK, rowVars
<1>3. ASSUME NEW t \in queue[k], LookUp(k, t) PROVE RSTypeOK'
  <2>1. t \in Telling
    BY DEF RSTypeOK
  <2> QED BY <1>3, <2>1 DEF LookUp, RSTypeOK, rowVars
<1>4. CASE Notify(k)
  <2>1. next[k] \in Telling /\ next[k].to \in Members
    BY <1>4 DEF Notify, RSTypeOK, Telling
  <2>2. notices' \in [Keys -> Members \cup {Nothing}]
    BY <1>4, <2>1 DEF Notify, RSTypeOK
  <2> QED BY <1>4, <2>2 DEF Notify, RSTypeOK, rowVars
<1>5. ASSUME Leave(k)
      PROVE  /\ phase' \in [Replicas -> {"idle", "run"}] /\ at' \in [Replicas -> 0..6]
             /\ clock' \in [Replicas -> Days]
             /\ unsettled' \in [Replicas -> SUBSET (Deadlines \cup Hearings \cup Members)]
  <2>1. 0 \in Days
    BY DEF Days
  <2>2. phase' \in [Replicas -> {"idle", "run"}]
    BY <1>5 DEF Leave, Enter, RSTypeOK
  <2>3. at' \in [Replicas -> 0..6] /\ clock' \in [Replicas -> Days]
    BY <1>5, <2>1 DEF Leave, RSTypeOK
  <2>4. unsettled' \in [Replicas -> SUBSET (Deadlines \cup Hearings \cup Members)]
    BY <1>5 DEF Leave, RSTypeOK
  <2> QED BY <2>2, <2>3, <2>4
<1>6. CASE Finish(k)
  BY <1>5, <1>6 DEF Finish, RSTypeOK, rowVars
<1>7. CASE TickFails(k)
  <2>1. upsets' \in 0..MaxUpsets
    BY <1>7 DEF TickFails, RSTypeOK
  <2>2. queue' \in [Replicas -> SUBSET Telling] /\ next' \in [Replicas -> Telling \cup {Nothing}]
    BY <1>7 DEF TickFails, RSTypeOK
  <2> QED BY <1>5, <1>7, <2>1, <2>2 DEF TickFails, RSTypeOK, rowVars
<1> QED BY <1>1, <1>2, <1>3, <1>4, <1>6, <1>7 DEF TickStep

\* An edit costs an upset and unsettles the ticks under way.
LEMMA EditTypes ==
    ASSUME RSTypeOK, NEW x \in Deadlines \cup Hearings \cup Members, Edit(x)
    PROVE  /\ upsets' \in 0..MaxUpsets
           /\ unsettled' \in [Replicas -> SUBSET (Deadlines \cup Hearings \cup Members)]
           /\ UNCHANGED <<today, notices, phase, at, clock, queue, next>>
<1>1. upsets' \in 0..MaxUpsets
  BY ConstantsAssumption DEF Edit, RSTypeOK
<1> QED BY <1>1 DEF Edit, Unsettle, RSTypeOK, tickVars

\* Every step keeps the types.
LEMMA RSTypesKept == RSTypeOK /\ [RSNext]_RSvars => RSTypeOK'
<1> SUFFICES ASSUME RSTypeOK, [RSNext]_RSvars PROVE RSTypeOK'
  OBVIOUS
<1>1. ASSUME NEW d \in Deadlines, EditDeadline(d) PROVE RSTypeOK'
  <2>1. /\ due' \in [Deadlines -> Dates] /\ owner' \in [Deadlines -> Members]
        /\ open' \in [Deadlines -> BOOLEAN]
    BY <1>1 DEF EditDeadline, RSTypeOK
  <2>2. edited' \subseteq Deadlines \cup Hearings
    BY <1>1 DEF EditDeadline, RSTypeOK
  <2> QED BY <1>1, <2>1, <2>2, EditTypes DEF EditDeadline, RSTypeOK
<1>2. ASSUME NEW h \in Hearings, EditHearing(h) PROVE RSTypeOK'
  <2>1. date' \in [Hearings -> Dates] /\ unrecorded' \in [Hearings -> BOOLEAN]
    BY <1>2 DEF EditHearing, RSTypeOK
  <2>2. edited' \subseteq Deadlines \cup Hearings
    BY <1>2 DEF EditHearing, RSTypeOK
  <2> QED BY <1>2, <2>1, <2>2, EditTypes DEF EditHearing, RSTypeOK
<1>3. ASSUME NEW m \in Members, SwitchMember(m) PROVE RSTypeOK'
  <2>1. active' \in SUBSET Members
    BY <1>3 DEF SwitchMember, RSTypeOK
  <2> QED BY <1>3, <2>1, EditTypes DEF SwitchMember, RSTypeOK
<1>4. CASE NewDay
  <2>1. today' \in Days
    BY <1>4, ConstantsAssumption DEF NewDay, RSTypeOK, Days
  <2> QED BY <1>4, <2>1 DEF NewDay, RSTypeOK, rowVars, tickVars
<1>5. CASE UNCHANGED RSvars
  BY <1>5 DEF RSvars, rowVars, tickVars, RSTypeOK
<1> QED BY <1>1, <1>2, <1>3, <1>4, <1>5, TickTypes DEF RSNext

-----------------------------------------------------------------------------
(* Timeliness.                                                             *)

\* A key that is timely stays so: days go forward, and an edited row's keys
\* are asked less of.
LEMMA TimelyStays ==
    ASSUME RSTypeOK, [RSNext]_RSvars, NEW key \in Keys, NEW to, Timely(key, to)
    PROVE  Timely(key, to)'
<1>1. today' >= today /\ today \in Nat /\ today' \in Nat
  <2>1. today \in Nat
    BY ConstantsAssumption DEF RSTypeOK, Days
  <2>2. today' = today \/ today' = today + 1
    BY DEF RSNext, TickStep, Tick, List, LookUp, Notify, Finish, TickFails, EditDeadline,
           EditHearing, SwitchMember, Edit, NewDay, RSvars
  <2> QED BY <2>1, <2>2
<1>2. edited \subseteq edited'
  BY DEF RSNext, TickStep, Tick, List, LookUp, Notify, Finish, TickFails, EditDeadline,
         EditHearing, SwitchMember, NewDay, RSvars
<1>3. \A d \in Deadlines \ edited' :
         due'[d] = due[d] /\ owner'[d] = owner[d] /\ open'[d] = open[d]
  BY DEF RSNext, TickStep, Tick, List, LookUp, Notify, Finish, TickFails, EditDeadline,
         EditHearing, SwitchMember, NewDay, RSvars, rowVars, RSTypeOK
<1>4. \A h \in Hearings \ edited' : date'[h] = date[h]
  BY DEF RSNext, TickStep, Tick, List, LookUp, Notify, Finish, TickFails, EditDeadline,
         EditHearing, SwitchMember, NewDay, RSvars, rowVars, RSTypeOK
<1>5. ASSUME key \in DeadlineKey, key.about \notin edited'
      PROVE  /\ today' >= due'[key.about] - DaysBefore(key.window)
             /\ to = owner'[key.about] /\ open'[key.about]
  <2>1. key.about \in Deadlines \ edited' /\ key.window \in Windows
    BY <1>5 DEF DeadlineKey
  <2>2. due[key.about] \in Nat /\ DaysBefore(key.window) \in Nat
    BY <2>1, ConstantsAssumption DEF RSTypeOK, DaysBefore, Windows
  <2>3. /\ today >= due[key.about] - DaysBefore(key.window)
        /\ to = owner[key.about] /\ open[key.about]
    BY <1>2, <1>5 DEF Timely
  <2> QED BY <1>1, <1>3, <2>1, <2>2, <2>3
<1>6. ASSUME key \in ReminderKey
      PROVE  today' >= key.date - 1 /\ to = key.to /\ to \in TeamOf[key.about]
  <2>1. key.date \in Nat
    BY <1>6, ConstantsAssumption DEF ReminderKey
  <2> QED BY <1>1, <1>6, <2>1 DEF Timely
<1>7. ASSUME key \in OutcomeKey
      PROVE  /\ to = LeadOf[key.about]
             /\ key.about \notin edited' => date'[key.about] < today'
  <2>1. key.about \in Hearings
    BY <1>7 DEF OutcomeKey
  <2>2. date[key.about] \in Nat
    BY <2>1, ConstantsAssumption DEF RSTypeOK
  <2> QED BY <1>1, <1>2, <1>4, <1>7, <2>1, <2>2 DEF Timely
<1> QED BY <1>5, <1>6, <1>7 DEF Timely

\* Between ticks nothing is in hand, and no tick runs ahead of the day.
LEMMA TicksInDayKept == RSTypeOK /\ TicksInDay /\ [RSNext]_RSvars => TicksInDay'
<1> SUFFICES ASSUME RSTypeOK, TicksInDay, [RSNext]_RSvars PROVE TicksInDay'
  OBVIOUS
<1>0. today \in Nat /\ \A k \in Replicas : clock[k] \in Nat
  BY ConstantsAssumption DEF RSTypeOK, Days
<1>1. ASSUME NEW k \in Replicas, Tick(k) PROVE TicksInDay'
  BY <1>0, <1>1 DEF Tick, Enter, RSTypeOK, TicksInDay
<1>2. ASSUME NEW k \in Replicas, List(k) PROVE TicksInDay'
  BY <1>2 DEF List, Told, RSTypeOK, TicksInDay
<1>3. ASSUME NEW k \in Replicas, NEW t \in queue[k], LookUp(k, t) PROVE TicksInDay'
  BY <1>3 DEF LookUp, RSTypeOK, TicksInDay
<1>4. ASSUME NEW k \in Replicas, Notify(k) PROVE TicksInDay'
  BY <1>4 DEF Notify, RSTypeOK, TicksInDay
<1>5. ASSUME NEW k \in Replicas, Finish(k) \/ TickFails(k) PROVE TicksInDay'
  <2>1. /\ \A r \in Replicas \ {k} : /\ phase'[r] = phase[r] /\ at'[r] = at[r]
                                     /\ clock'[r] = clock[r]
                                     /\ unsettled'[r] = unsettled[r]
                                     /\ queue'[r] = queue[r] /\ next'[r] = next[r]
        /\ at'[k] = 0 /\ clock'[k] = 0 /\ unsettled'[k] = {}
        /\ queue'[k] = {} /\ next'[k] = Nothing /\ today' = today
    BY <1>5 DEF Finish, TickFails, Told, Leave, Enter, RSTypeOK
  <2> QED BY <1>0, <2>1 DEF TicksInDay
<1>6. ASSUME NEW x, Edit(x) PROVE TicksInDay'
  BY <1>6 DEF Edit, Unsettle, tickVars, RSTypeOK, TicksInDay
<1>7. CASE NewDay
  BY <1>0, <1>7 DEF NewDay, tickVars, RSTypeOK, TicksInDay
<1>8. CASE UNCHANGED RSvars
  BY <1>8 DEF RSvars, tickVars, TicksInDay
<1> QED BY <1>1, <1>2, <1>3, <1>4, <1>5, <1>6, <1>7, <1>8
        DEF RSNext, TickStep, EditDeadline, EditHearing, SwitchMember

\* Whatever is told or held comes from a list, and lists are timely.
LEMMA AllTimelyKept == RSTypeOK /\ TicksInDay /\ AllTimely /\ [RSNext]_RSvars => AllTimely'
<1> SUFFICES ASSUME RSTypeOK, TicksInDay, AllTimely, [RSNext]_RSvars PROVE AllTimely'
  OBVIOUS
<1>1. ASSUME NEW key \in Keys, NEW to, Timely(key, to) PROVE Timely(key, to)'
  BY <1>1, TimelyStays
<1>2. /\ \A key \in Keys : notices[key] # Nothing => Timely(key, notices[key])
      /\ \A k \in Replicas : \A t \in queue[k] : t.key \in Keys /\ Timely(t.key, t.to)
      /\ \A k \in Replicas : next[k] # Nothing =>
            next[k].key \in Keys /\ Timely(next[k].key, next[k].to)
  BY DEF AllTimely, RSTypeOK, Telling
<1>3. ASSUME NEW key \in Keys, notices'[key] # Nothing PROVE Timely(key, notices[key])'
  <2>1. CASE notices'[key] = notices[key]
    BY <1>1, <1>2, <1>3, <2>1 DEF Timely
  <2>2. ASSUME NEW k \in Replicas, Notify(k) PROVE Timely(key, notices[key])'
    <3>1. \/ notices'[key] = notices[key]
          \/ next[k] # Nothing /\ key = next[k].key /\ notices'[key] = next[k].to
      BY <2>2 DEF Notify, RSTypeOK
    <3> QED BY <1>1, <1>2, <2>1, <3>1 DEF Timely
  <2>3. UNCHANGED notices \/ \E k \in Replicas : Notify(k)
    BY DEF RSNext, TickStep, Tick, List, LookUp, Finish, TickFails, EditDeadline,
           EditHearing, SwitchMember, Edit, NewDay, RSvars
  <2> QED BY <2>1, <2>2, <2>3
<1>4. ASSUME NEW k \in Replicas, NEW t \in queue'[k] PROVE Timely(t.key, t.to)'
  <2>1. CASE t \in queue[k]
    BY <1>1, <1>2, <2>1
  <2>2. ASSUME List(k), t \notin queue[k] PROVE Timely(t.key, t.to)'
    <3>1. PICK s \in Pages(k, Lists[at[k] + 1]) :
             queue' = [queue EXCEPT ![k] = UNION {TellingsOf(Lists[at[k] + 1], x) : x \in s}]
      BY <2>2 DEF List
    <3>2. Lists[at[k] + 1] \in ListNames
      BY <2>2, ListNamed DEF List, RSTypeOK
    <3>3. PICK x \in Hits(k, Lists[at[k] + 1]) : t \in TellingsOf(Lists[at[k] + 1], x)
      BY <3>1 DEF Pages, RSTypeOK
    <3>4. Timely(t.key, t.to) /\ t.key \in Keys
      BY <3>2, <3>3, TellingsTimely, TellingsType DEF TicksInDay, Telling
    <3> QED BY <1>1, <3>4
  <2>3. queue'[k] \subseteq queue[k] \/ List(k)
    <3>1. ASSUME NEW r \in Replicas, List(r), r # k PROVE queue'[k] = queue[k]
      BY <3>1 DEF List, RSTypeOK
    <3>2. ASSUME NEW r \in Replicas, NEW u \in queue[r], LookUp(r, u)
          PROVE  queue'[k] \subseteq queue[k]
      BY <3>2 DEF LookUp, RSTypeOK
    <3>3. ASSUME NEW r \in Replicas, TickFails(r) PROVE queue'[k] \subseteq queue[k]
      BY <3>3 DEF TickFails, RSTypeOK
    <3>4. ASSUME NEW r \in Replicas, Tick(r) \/ Notify(r) \/ Finish(r)
          PROVE  UNCHANGED queue
      BY <3>4 DEF Tick, Notify, Finish
    <3>5. ASSUME NEW x, Edit(x) PROVE UNCHANGED queue
      BY <3>5 DEF Edit, tickVars
    <3>6. NewDay \/ UNCHANGED RSvars => UNCHANGED queue
      BY DEF NewDay, RSvars, tickVars
    <3> QED BY <3>1, <3>2, <3>3, <3>4, <3>5, <3>6
            DEF RSNext, TickStep, EditDeadline, EditHearing, SwitchMember
  <2> QED BY <2>1, <2>2, <2>3
<1>5. ASSUME NEW k \in Replicas, next'[k] # Nothing PROVE Timely(next[k].key, next[k].to)'
  <2>1. next'[k] = next[k] \/ next'[k] \in queue[k]
    BY <1>5 DEF RSNext, TickStep, Tick, List, LookUp, Notify, Finish, TickFails, EditDeadline,
           EditHearing, SwitchMember, Edit, NewDay, RSvars, tickVars, RSTypeOK
  <2>2. next'[k].key \in Keys /\ Timely(next'[k].key, next'[k].to)
    BY <1>2, <1>5, <2>1
  <2> QED BY <1>1, <2>2 DEF Timely
<1> QED BY <1>3, <1>4, <1>5 DEF AllTimely

-----------------------------------------------------------------------------
(* What the lists have given.                                              *)

\* A notice once written stays.
LEMMA NoticesStay ==
    ASSUME RSTypeOK, [RSNext]_RSvars, NEW key \in Keys, notices[key] # Nothing
    PROVE  notices'[key] = notices[key]
<1>1. ASSUME NEW k \in Replicas, Notify(k) PROVE notices'[key] = notices[key]
  BY <1>1 DEF Notify, RSTypeOK
<1>2. UNCHANGED notices \/ \E k \in Replicas : Notify(k)
  BY DEF RSNext, TickStep, Tick, List, LookUp, Finish, TickFails, EditDeadline,
         EditHearing, SwitchMember, Edit, NewDay, RSvars
<1> QED BY <1>1, <1>2

\* The steps that leave all rows and members as they are.
RowsStand == UNCHANGED <<due, owner, open, date, unrecorded, active>>

\* In such a step a tick that goes on has the same lists to account for.
LEMMA AccountsStay ==
    ASSUME RSTypeOK, RowsStand, NEW k \in Replicas, NEW list \in ListNames,
           clock'[k] = clock[k], unsettled'[k] = unsettled[k],
           \A x \in Hits(k, list) \ unsettled[k] :
              \A t \in TellingsOf(list, x) :
                 t.to \in active \ unsettled[k] => Arranged(k, t)'
    PROVE  Accounted(k, list)'
<1>1. Hits(k, list)' = Hits(k, list)
  BY DEF Hits, RowsStand
<1>2. \A x : TellingsOf(list, x)' = TellingsOf(list, x)
  BY DEF TellingsOf, RowsStand
<1>3. active' = active
  BY DEF RowsStand
<1> QED BY <1>1, <1>2, <1>3 DEF Accounted

\* A row that an edit leaves alone is on the same lists, with the same tellings.
LEMMA EditLeavesOthers ==
    ASSUME RSTypeOK, NEW y \in Deadlines \cup Hearings \cup Members,
           \/ y \in Deadlines /\ EditDeadline(y)
           \/ y \in Hearings /\ EditHearing(y)
           \/ y \in Members /\ SwitchMember(y),
           NEW k \in Replicas, NEW list \in ListNames,
           NEW x \in Hits(k, list)', x # y
    PROVE  x \in Hits(k, list) /\ TellingsOf(list, x)' = TellingsOf(list, x)
<1>1. clock' = clock
  BY DEF EditDeadline, EditHearing, SwitchMember, Edit, tickVars
<1>2. /\ \A d \in Deadlines \ {y} :
            due'[d] = due[d] /\ owner'[d] = owner[d] /\ open'[d] = open[d]
      /\ \A h \in Hearings \ {y} : date'[h] = date[h] /\ unrecorded'[h] = unrecorded[h]
  BY DEF EditDeadline, EditHearing, SwitchMember, RSTypeOK
<1>3. x \in Hits(k, list) /\ (list \in Windows => x \in Deadlines)
                          /\ (list \notin Windows => x \in Hearings)
  BY <1>1, <1>2 DEF Hits
<1>4. TellingsOf(list, x)' = TellingsOf(list, x)
  <2>1. CASE list \in Windows
    <3>1. owner'[x] = owner[x]
      BY <1>2, <1>3, <2>1
    <3> QED BY <2>1, <3>1, ListNamed DEF TellingsOf
  <2>2. CASE list = "past"
    BY <2>2, ListNamed DEF TellingsOf
  <2>3. CASE list = "reminders"
    <3>1. date'[x] = date[x]
      BY <1>2, <1>3, <2>3, ListNamed
    <3> QED BY <2>3, <3>1, ListNamed DEF TellingsOf
  <2> QED BY <2>1, <2>2, <2>3 DEF ListNames
<1> QED BY <1>3, <1>4

\* While the tick goes on, what it has told or holds for an active member it
\* goes on holding until it has told it.
LEMMA ArrangedStays ==
    ASSUME RSTypeOK, [RSNext]_RSvars, NEW k \in Replicas, phase'[k] = "run",
           NEW t \in Telling, t.to \in active, Arranged(k, t)
    PROVE  Arranged(k, t)'
<1>1. t.key \in Keys /\ t # Nothing /\ t.to \in Members /\ Nothing \notin Members
  BY ConstantsAssumption DEF Telling
<1>2. CASE notices[t.key] # Nothing
  BY <1>1, <1>2, NoticesStay DEF Arranged
<1>3. CASE t \in queue[k] \/ next[k] = t
  <2>1. ASSUME NEW r \in Replicas, List(r) PROVE Arranged(k, t)'
    <3>1. r # k
      BY <1>1, <1>3, <2>1 DEF List, Told
    <3>2. queue'[k] = queue[k] /\ next'[k] = next[k]
      BY <2>1, <3>1 DEF List, RSTypeOK
    <3> QED BY <1>3, <3>2 DEF Arranged
  <2>2. ASSUME NEW r \in Replicas, NEW u \in queue[r], LookUp(r, u) PROVE Arranged(k, t)'
    <3>1. CASE r # k
      <4>1. queue'[k] = queue[k] /\ next'[k] = next[k]
        BY <2>2, <3>1 DEF LookUp, RSTypeOK
      <4> QED BY <1>3, <4>1 DEF Arranged
    <3>2. CASE r = k
      <4>1. t \in queue[k]
        BY <1>1, <1>3, <2>2, <3>2 DEF LookUp
      <4>2. t \in queue'[k] \/ next'[k] = t
        BY <2>2, <3>2, <4>1 DEF LookUp, RSTypeOK
      <4> QED BY <4>2 DEF Arranged
    <3> QED BY <3>1, <3>2
  <2>3. ASSUME NEW r \in Replicas, Notify(r) PROVE Arranged(k, t)'
    <3>1. CASE r # k \/ t \in queue[k]
      <4>1. t \in queue'[k] \/ next'[k] = t
        BY <1>3, <2>3, <3>1 DEF Notify, RSTypeOK
      <4> QED BY <4>1 DEF Arranged
    <3>2. CASE r = k /\ next[k] = t
      <4>1. notices'[t.key] # Nothing
        BY <1>1, <2>3, <3>2 DEF Notify, RSTypeOK
      <4> QED BY <4>1 DEF Arranged
    <3> QED BY <1>3, <3>1, <3>2
  <2>4. ASSUME NEW r \in Replicas, TickFails(r) PROVE Arranged(k, t)'
    <3>1. r # k
      BY <2>4 DEF TickFails, Leave, Enter, RSTypeOK
    <3>2. queue'[k] = queue[k] /\ next'[k] = next[k]
      BY <2>4, <3>1 DEF TickFails, RSTypeOK
    <3> QED BY <1>3, <3>2 DEF Arranged
  <2>5. CASE UNCHANGED <<queue, next>>
    BY <1>3, <2>5 DEF Arranged
  <2>6. ASSUME NEW r \in Replicas, Tick(r) \/ Finish(r) PROVE UNCHANGED <<queue, next>>
    BY <2>6 DEF Tick, Finish
  <2>7. ASSUME NEW x, Edit(x) PROVE UNCHANGED <<queue, next>>
    BY <2>7 DEF Edit, tickVars
  <2>8. NewDay \/ UNCHANGED RSvars => UNCHANGED <<queue, next>>
    BY DEF NewDay, RSvars, tickVars
  <2> QED BY <2>1, <2>2, <2>3, <2>4, <2>5, <2>6, <2>7, <2>8
          DEF RSNext, TickStep, EditDeadline, EditHearing, SwitchMember
<1> QED BY <1>2, <1>3 DEF Arranged

\* Tellings of what a list selects are tellings, also in the list's next state.
LEMMA AccountedTellings ==
    ASSUME RSTypeOK, NEW k \in Replicas, NEW list \in ListNames, Accounted(k, list),
           NEW x \in Hits(k, list) \ unsettled[k], NEW t \in TellingsOf(list, x),
           t.to \in active \ unsettled[k]
    PROVE  t \in Telling /\ Arranged(k, t)
BY TellingsType DEF Accounted

\* Every list a tick has read stays accounted for.
LEMMA ListsAccountedKept ==
    RSTypeOK /\ TicksInDay /\ ListsAccounted /\ [RSNext]_RSvars => ListsAccounted'
<1> SUFFICES ASSUME RSTypeOK, TicksInDay, ListsAccounted, [RSNext]_RSvars, FitsAPage,
                    NEW k \in Replicas, phase'[k] = "run", NEW i \in 1..at'[k]
             PROVE  Accounted(k, Lists[i])'
  BY DEF ListsAccounted, FitsAPage
<1> DEFINE list == Lists[i]
<1>1. at'[k] \in 0..6 /\ list \in ListNames
  <2>1. at'[k] \in 0..6
    BY RSTypesKept DEF RSTypeOK
  <2>2. i \in 1..6
    BY <2>1
  <2> QED BY <2>1, <2>2, ListNamed
<1> HIDE DEF list
<1>2. ASSUME RowsStand, clock'[k] = clock[k], unsettled'[k] = unsettled[k],
             Accounted(k, list)
      PROVE  Accounted(k, list)'
  <2>1. \A x \in Hits(k, list) \ unsettled[k] :
           \A t \in TellingsOf(list, x) :
              t.to \in active \ unsettled[k] => Arranged(k, t)'
    BY <1>1, <1>2, AccountedTellings, ArrangedStays
  <2> QED BY <1>1, <1>2, <2>1, AccountsStay
<1>3. phase[k] = "run" /\ i \in 1..at[k] => Accounted(k, list)
  BY DEF ListsAccounted, list
<1>4. ASSUME NEW r \in Replicas, Tick(r) PROVE Accounted(k, list)'
  <2>1. /\ r = k => at'[k] = 0
        /\ r # k => phase[k] = "run" /\ at'[k] = at[k] /\ clock'[k] = clock[k]
        /\ unsettled' = unsettled /\ RowsStand
    BY <1>4 DEF Tick, Enter, RSTypeOK, TicksInDay, RowsStand, rowVars
  <2> QED BY <1>2, <1>3, <2>1
<1>5. ASSUME NEW r \in Replicas, List(r) PROVE Accounted(k, list)'
  <2>1. /\ phase' = phase /\ clock' = clock /\ unsettled' = unsettled /\ RowsStand
        /\ at[k] \in Nat
        /\ at'[k] = IF r = k THEN at[k] + 1 ELSE at[k]
    BY <1>5 DEF List, RSTypeOK, RowsStand, rowVars
  <2>2. CASE i \in 1..at[k]
    BY <1>2, <1>3, <2>1, <2>2
  <2>3. CASE r = k /\ i = at[k] + 1
    <3> DEFINE Read(nth) == \E s \in Pages(k, nth) :
                  queue' = [queue EXCEPT ![k] = UNION {TellingsOf(nth, x) : x \in s}]
    <3>0. Read(list)
      <4>1. List(k) /\ Lists[at[k] + 1] = list
        BY <1>5, <2>3 DEF list
      <4>2. Read(Lists[at[k] + 1])
        BY <4>1 DEF List
      <4> HIDE DEF Read
      <4> QED BY <4>1, <4>2
    <3>1. PICK s \in Pages(k, list) :
             queue' = [queue EXCEPT ![k] = UNION {TellingsOf(list, x) : x \in s}]
      BY <3>0
    <3>2. s = Hits(k, list)
      BY <1>1, PageIsAll
    <3>3. queue'[k] = UNION {TellingsOf(list, x) : x \in Hits(k, list)}
      BY <3>1, <3>2 DEF RSTypeOK
    <3>4. \A x \in Hits(k, list) : \A t \in TellingsOf(list, x) : Arranged(k, t)'
      BY <3>3 DEF Arranged
    <3> QED BY <1>1, <2>1, <3>4, AccountsStay
  <2> QED BY <2>1, <2>2, <2>3
<1>6. ASSUME NEW r \in Replicas, Notify(r) \/ \E u \in queue[r] : LookUp(r, u)
      PROVE  Accounted(k, list)'
  <2>1. UNCHANGED <<phase, at, clock, unsettled>> /\ RowsStand
    BY <1>6 DEF Notify, LookUp, RowsStand, rowVars
  <2> QED BY <1>2, <1>3, <2>1
<1>7. ASSUME NEW r \in Replicas, Finish(r) \/ TickFails(r) PROVE Accounted(k, list)'
  <2>1. r # k
    BY <1>7 DEF Finish, TickFails, Leave, Enter, RSTypeOK
  <2>2. /\ phase'[k] = phase[k] /\ at'[k] = at[k] /\ clock'[k] = clock[k]
        /\ unsettled'[k] = unsettled[k] /\ RowsStand
    BY <1>7, <2>1 DEF Finish, TickFails, Leave, Enter, RSTypeOK, RowsStand, rowVars
  <2> QED BY <1>2, <1>3, <2>2
<1>8. ASSUME NEW y \in Deadlines \cup Hearings \cup Members,
             \/ y \in Deadlines /\ EditDeadline(y)
             \/ y \in Hearings /\ EditHearing(y)
             \/ y \in Members /\ SwitchMember(y)
      PROVE  Accounted(k, list)'
  <2>1. Edit(y)
    BY <1>8 DEF EditDeadline, EditHearing, SwitchMember
  <2>2. UNCHANGED <<phase, at, clock>> /\ unsettled'[k] = unsettled[k] \cup {y}
    BY <2>1 DEF Edit, Unsettle, tickVars
  <2>3. Accounted(k, list)
    BY <1>3, <2>2
  <2>4. \A m \in active' : m # y => m \in active
    BY <1>8 DEF EditDeadline, EditHearing, SwitchMember
  <2>5. ASSUME NEW x \in Hits(k, list)' \ unsettled'[k], NEW t \in TellingsOf(list, x)',
               t.to \in active' \ unsettled'[k]
        PROVE  Arranged(k, t)'
    <3>1. x # y /\ x \notin unsettled[k] /\ t.to \in active \ unsettled[k]
      BY <2>2, <2>4, <2>5
    <3>2. x \in Hits(k, list) /\ t \in TellingsOf(list, x)
      BY <1>1, <1>8, <2>5, <3>1, EditLeavesOthers
    <3> QED BY <1>1, <2>3, <3>1, <3>2, AccountedTellings, ArrangedStays
  <2> QED BY <2>5 DEF Accounted
<1>9. CASE NewDay \/ UNCHANGED RSvars
  <2>1. UNCHANGED <<phase, at, clock, unsettled>> /\ RowsStand
    BY <1>9 DEF NewDay, RSvars, rowVars, tickVars, RowsStand
  <2>2. clock'[k] = clock[k] /\ unsettled'[k] = unsettled[k]
    BY <2>1
  <2>3. Accounted(k, list)
    BY <1>3, <2>1
  <2> QED BY <1>2, <2>1, <2>2, <2>3 DEF list
<1> QED BY <1>4, <1>5, <1>6, <1>7, <1>8, <1>9 DEF RSNext, TickStep, list

\* Every step keeps the inductive invariant.
LEMMA RSInvariance == RSSpec => []RSIInv
<1>1. RSInit => RSIInv
  <2> SUFFICES ASSUME RSInit PROVE RSIInv
    OBVIOUS
  <2>1. RSTypeOK
    BY TypesInitially
  <2>2. AllTimely
    BY DEF RSInit, AllTimely
  <2>3. TicksInDay
    BY DEF RSInit, TicksInDay
  <2>4. ListsAccounted
    BY DEF RSInit, ListsAccounted
  <2> QED BY <2>1, <2>2, <2>3, <2>4 DEF RSIInv
<1>2. RSIInv /\ [RSNext]_RSvars => RSIInv'
  BY RSTypesKept, AllTimelyKept, TicksInDayKept, ListsAccountedKept DEF RSIInv
<1> QED BY <1>1, <1>2, PTL DEF RSSpec

\* Every variable has its type.
THEOREM RSTypeCorrect == RSSpec => []RSTypeOK
<1>1. RSIInv => RSTypeOK
  BY DEF RSIInv
<1> QED BY <1>1, RSInvariance, PTL

\* Nobody is told too early, or of what is not theirs, however ticks of several
\* replicas overlap, fail and race the edits (sweep.ts).
THEOREM NobodyIsToldTooEarly == RSSpec => []NoticesAreTimely
<1>1. ASSUME RSIInv PROVE NoticesAreTimely
  <2>1. \A key \in Keys : notices[key] # Nothing => Timely(key, notices[key])
    BY <1>1 DEF RSIInv, AllTimely
  <2>2. ASSUME NEW d \in Deadlines \ edited, NEW w \in Windows,
               notices[[about |-> d, window |-> w]] # Nothing
        PROVE  /\ today >= due[d] - DaysBefore(w)
               /\ notices[[about |-> d, window |-> w]] = owner[d]
               /\ open[d]
    <3> DEFINE key == [about |-> d, window |-> w]
    <3>1. key \in DeadlineKey /\ key \in Keys /\ key.about = d /\ key.window = w
      BY KeysApart DEF Keys
    <3> HIDE DEF key
    <3>2. Timely(key, notices[key])
      BY <2>1, <2>2, <3>1 DEF key
    <3>3. /\ today >= due[d] - DaysBefore(w)
          /\ notices[key] = owner[d] /\ open[d]
      BY <3>1, <3>2 DEF Timely
    <3> QED BY <3>3 DEF key
  <2>3. ASSUME NEW h \in Hearings, NEW m \in Members, NEW day \in Dates,
               notices[[about |-> h, to |-> m, date |-> day]] # Nothing
        PROVE  today >= day - 1 /\ m \in TeamOf[h]
    <3> DEFINE key == [about |-> h, to |-> m, date |-> day]
    <3>1. key \in ReminderKey /\ key \in Keys /\ key.about = h /\ key.to = m /\ key.date = day
      BY KeysApart DEF Keys
    <3> HIDE DEF key
    <3>2. Timely(key, notices[key])
      BY <2>1, <2>3, <3>1 DEF key
    <3> QED BY <3>1, <3>2 DEF Timely
  <2>4. ASSUME NEW h \in Hearings \ edited, notices[[about |-> h, window |-> "past"]] # Nothing
        PROVE  date[h] < today
    <3> DEFINE key == [about |-> h, window |-> "past"]
    <3>1. key \in OutcomeKey /\ key \in Keys /\ key.about = h
      BY KeysApart DEF Keys
    <3> HIDE DEF key
    <3>2. Timely(key, notices[key])
      BY <2>1, <2>4, <3>1 DEF key
    <3> QED BY <3>1, <3>2 DEF Timely
  <2> QED BY <2>2, <2>3, <2>4 DEF NoticesAreTimely
<1>2. RSIInv => NoticesAreTimely
  BY <1>1
<1> QED BY <1>2, RSInvariance, PTL

-----------------------------------------------------------------------------
(* A tick that ends well.                                                  *)

\* The ladder: the days before a deadline pick one list.
LEMMA RungIsAList ==
    ASSUME NEW days \in 0..7
    PROVE  /\ Rung(days) \in Windows /\ days \in RangeOf(Rung(days))
           /\ \E i \in 1..4 : Lists[i] = Rung(days)
<1>1. days = 0 \/ days = 1 \/ days \in 2..3 \/ days \in 4..7
  OBVIOUS
<1>2. CASE days = 0
  <2>1. Rung(days) = "day-of"
    BY <1>2 DEF Rung
  <2> QED BY <1>2, <2>1, ListNamed DEF Windows, RangeOf
<1>3. CASE days = 1
  <2>1. Rung(days) = "t-1"
    BY <1>3 DEF Rung
  <2> QED BY <1>3, <2>1, ListNamed DEF Windows, RangeOf
<1>4. CASE days \in 2..3
  <2>1. Rung(days) = "t-3"
    BY <1>4 DEF Rung
  <2> QED BY <1>4, <2>1, ListNamed DEF Windows, RangeOf
<1>5. CASE days \in 4..7
  <2>1. Rung(days) = "t-7"
    BY <1>5 DEF Rung
  <2> QED BY <1>5, <2>1, ListNamed DEF Windows, RangeOf
<1> QED BY <1>1, <1>2, <1>3, <1>4, <1>5

\* A tick that has told all six lists has told everybody its day concerns.
LEMMA FinishedHasTold ==
    ASSUME RSIInv, FitsAPage, NEW k \in Replicas, Finish(k)
    PROVE  ToldOn(clock[k], unsettled[k])
<1>1. ASSUME NEW i \in 1..6, NEW x \in Hits(k, Lists[i]) \ unsettled[k],
             NEW t \in TellingsOf(Lists[i], x), t.to \in active \ unsettled[k]
      PROVE  t.key \in Keys /\ notices[t.key] # Nothing /\ Timely(t.key, notices[t.key])
  <2>1. /\ phase[k] = "run" /\ at[k] = 6 /\ queue[k] = {} /\ next[k] = Nothing
    BY DEF Finish, Told
  <2>2. Lists[i] \in ListNames /\ Accounted(k, Lists[i])
    BY <2>1, ListNamed DEF RSIInv, ListsAccounted
  <2>3. t \in Telling /\ Arranged(k, t)
    BY <1>1, <2>2, AccountedTellings DEF RSIInv
  <2>4. t.key \in Keys /\ t # Nothing
    BY <2>3, ConstantsAssumption DEF Telling
  <2> QED BY <2>1, <2>3, <2>4 DEF Arranged, RSIInv, AllTimely
<1>2. ASSUME NEW d \in Deadlines \ unsettled[k], open[d], due[d] - clock[k] \in 0..7,
             owner[d] \in active \ unsettled[k]
      PROVE  LET told == notices[[about |-> d, window |-> Rung(due[d] - clock[k])]]
             IN  told # Nothing /\ (d \notin edited => told = owner[d])
  <2> DEFINE w == Rung(due[d] - clock[k])
  <2>1. PICK i \in 1..4 : Lists[i] = w
    BY <1>2, RungIsAList
  <2>2. w \in Windows /\ due[d] - clock[k] \in RangeOf(w)
    BY <1>2, RungIsAList
  <2> HIDE DEF w
  <2>3. d \in Hits(k, w)
    BY <1>2, <2>2 DEF Hits
  <2> DEFINE t == [key |-> [about |-> d, window |-> w], to |-> owner[d]]
  <2>4. t \in TellingsOf(w, d)
    BY <2>2, ListNamed DEF TellingsOf
  <2>5. notices[t.key] # Nothing /\ Timely(t.key, notices[t.key])
    <3>1. i \in 1..6
      OBVIOUS
    <3>2. t.to \in active \ unsettled[k]
      BY <1>2
    <3> HIDE DEF t
    <3> QED BY <1>1, <1>2, <2>1, <2>3, <2>4, <3>1, <3>2
  <2>6. t.key = [about |-> d, window |-> w] /\ t.key \in DeadlineKey /\ t.key.about = d
    BY <2>2, KeysApart
  <2>7. d \notin edited => notices[t.key] = owner[d]
    BY <2>5, <2>6 DEF Timely
  <2> QED BY <2>5, <2>6, <2>7 DEF w
<1>3. ASSUME NEW h \in Hearings \ unsettled[k], unrecorded[h], date[h] - clock[k] \in 0..1,
             NEW m \in (TeamOf[h] \cap active) \ unsettled[k]
      PROVE  notices[[about |-> h, to |-> m, date |-> date[h]]] = m
  <2>1. h \in Hits(k, Lists[6]) /\ date[h] \in Dates /\ m \in Members
    BY <1>3, ListNamed, ConstantsAssumption DEF Hits, RSIInv, RSTypeOK
  <2> DEFINE t == [key |-> [about |-> h, to |-> m, date |-> date[h]], to |-> m]
  <2>2. t \in TellingsOf(Lists[6], h)
    BY ListNamed DEF TellingsOf
  <2>3. notices[t.key] # Nothing /\ Timely(t.key, notices[t.key])
    <3>1. t.to \in active \ unsettled[k]
      OBVIOUS
    <3> HIDE DEF t
    <3> QED BY <1>1, <2>1, <2>2, <3>1
  <2>4. t.key \in ReminderKey /\ t.key.to = m
    BY <2>1, KeysApart
  <2> QED BY <2>3, <2>4 DEF Timely
<1>4. ASSUME NEW h \in Hearings \ unsettled[k], unrecorded[h], date[h] < clock[k],
             LeadOf[h] \in active \ unsettled[k]
      PROVE  notices[[about |-> h, window |-> "past"]] = LeadOf[h]
  <2>1. h \in Hits(k, Lists[5])
    BY <1>4, ListNamed DEF Hits
  <2> DEFINE t == [key |-> [about |-> h, window |-> "past"], to |-> LeadOf[h]]
  <2>2. t \in TellingsOf(Lists[5], h)
    BY ListNamed DEF TellingsOf
  <2>3. notices[t.key] # Nothing /\ Timely(t.key, notices[t.key])
    <3>1. t.to \in active \ unsettled[k]
      BY <1>4
    <3> HIDE DEF t
    <3> QED BY <1>1, <2>1, <2>2, <3>1
  <2>4. t.key \in OutcomeKey /\ t.key.about = h
    BY KeysApart
  <2> QED BY <2>3, <2>4 DEF Timely
<1> QED BY <1>2, <1>3, <1>4 DEF ToldOn

\* A tick that ends well owes nothing for its day, whatever earlier ticks and
\* other replicas did, except about what changed under it (sweep.ts).
THEOREM FullTicksOweNothing == RSSpec => FullTicksTellEverybody
<1>1. RSIInv /\ [RSNext]_RSvars
      => [\A k \in Replicas :
             Finish(k) /\ FitsAPage => ToldOn(clock[k], unsettled[k])]_RSvars
  BY FinishedHasTold
<1> QED BY <1>1, RSInvariance, PTL DEF RSSpec, FullTicksTellEverybody

-----------------------------------------------------------------------------
(* What is told stays told.                                                *)

Everything == Deadlines \cup Hearings \cup Members

\* What the step changes.
Touched ==
    {d \in Deadlines : due'[d] # due[d] \/ owner'[d] # owner[d] \/ open'[d] # open[d]}
      \cup {h \in Hearings : date'[h] # date[h] \/ unrecorded'[h] # unrecorded[h]}
      \cup {m \in active' : m \notin active}

\* A day that is told about stays so, but for what is changed.
ToldStaysTold ==
    [][\A day \in Nat, excused, changed \in SUBSET Everything :
          ToldOn(day, excused) /\ Touched \subseteq changed
          => ToldOn(day, excused \cup changed)']_RSvars

\* A notice is never taken back or given to somebody else, and an edit is
\* never forgotten.
LEMMA NoticesStand ==
    ASSUME RSTypeOK, RSNext
    PROVE  /\ \A key \in Keys : notices[key] # Nothing => notices'[key] = notices[key]
           /\ edited \subseteq edited'
<1>1. ASSUME NEW k \in Replicas, Notify(k)
      PROVE  /\ \A key \in Keys : notices[key] # Nothing => notices'[key] = notices[key]
             /\ edited' = edited
  BY <1>1 DEF Notify, RSTypeOK
<1>2. ASSUME NEW k \in Replicas, (TickStep(k) /\ ~ Notify(k)) \/ TickFails(k)
      PROVE  notices' = notices /\ edited' = edited
  BY <1>2 DEF TickStep, Tick, List, LookUp, Finish, TickFails
<1>3. ASSUME \/ \E d \in Deadlines : EditDeadline(d)
             \/ \E h \in Hearings : EditHearing(h)
             \/ \E m \in Members : SwitchMember(m)
             \/ NewDay
      PROVE  notices' = notices /\ edited \subseteq edited'
  BY <1>3 DEF EditDeadline, EditHearing, SwitchMember, NewDay, Edit
<1> QED BY <1>1, <1>2, <1>3 DEF RSNext

\* Whatever ticks and edits follow, what a tick has told about a day stays
\* told: a debt comes from an edit or from midnight, never from the sweep.
THEOREM DebtsComeFromEdits == RSSpec => ToldStaysTold
<1>1. ASSUME RSTypeOK, RSNext, NEW day \in Nat,
             NEW excused \in SUBSET Everything, NEW changed \in SUBSET Everything,
             ToldOn(day, excused), Touched \subseteq changed
      PROVE  ToldOn(day, excused \cup changed)'
  <2>1. /\ \A d \in Deadlines \ changed : UNCHANGED <<due[d], owner[d], open[d]>>
        /\ \A h \in Hearings \ changed : UNCHANGED <<date[h], unrecorded[h]>>
        /\ \A m \in active' \ changed : m \in active
    BY <1>1 DEF Touched
  <2>2. ASSUME NEW d \in Deadlines \ (excused \cup changed), open'[d], due'[d] - day \in 0..7,
               owner'[d] \in active' \ (excused \cup changed)
        PROVE  LET told == notices'[[about |-> d, window |-> Rung(due'[d] - day)]]
               IN  told # Nothing /\ (d \notin edited' => told = owner'[d])
    <3>1. due'[d] = due[d] /\ owner'[d] = owner[d] /\ open'[d] = open[d]
      BY <2>1
    <3> DEFINE key == [about |-> d, window |-> Rung(due[d] - day)]
    <3>2. key \in Keys
      BY <2>2, <3>1, RungIsAList, KeysApart DEF Keys
    <3>3. notices[key] # Nothing /\ (d \notin edited => notices[key] = owner[d])
      BY <1>1, <2>1, <2>2, <3>1 DEF ToldOn
    <3> HIDE DEF key
    <3>4. notices'[key] # Nothing /\ (d \notin edited' => notices'[key] = owner'[d])
      BY <1>1, <3>1, <3>2, <3>3, NoticesStand
    <3> QED BY <3>1, <3>4 DEF key
  <2>3. ASSUME NEW h \in Hearings \ (excused \cup changed), unrecorded'[h],
               date'[h] - day \in 0..1,
               NEW m \in (TeamOf[h] \cap active') \ (excused \cup changed)
        PROVE  notices'[[about |-> h, to |-> m, date |-> date'[h]]] = m
    <3>1. date'[h] = date[h] /\ unrecorded'[h] = unrecorded[h] /\ m \in active
      BY <2>1
    <3> DEFINE key == [about |-> h, to |-> m, date |-> date[h]]
    <3>2. m \in Members /\ date[h] \in Dates
      BY <1>1, <3>1 DEF RSTypeOK
    <3>3. key \in Keys
      BY <3>2, KeysApart DEF Keys
    <3>4. notices[key] = m
      BY <1>1, <2>3, <3>1 DEF ToldOn
    <3> HIDE DEF key
    <3>5. notices'[key] = m
      BY <1>1, <3>2, <3>3, <3>4, NoticesStand, ConstantsAssumption
    <3> QED BY <3>1, <3>5 DEF key
  <2>4. ASSUME NEW h \in Hearings \ (excused \cup changed), unrecorded'[h], date'[h] < day,
               LeadOf[h] \in active' \ (excused \cup changed)
        PROVE  notices'[[about |-> h, window |-> "past"]] = LeadOf[h]
    <3>1. date'[h] = date[h] /\ unrecorded'[h] = unrecorded[h] /\ LeadOf[h] \in active
      BY <2>1, <2>4
    <3> DEFINE key == [about |-> h, window |-> "past"]
    <3>2. key \in Keys
      BY KeysApart DEF Keys
    <3>3. notices[key] = LeadOf[h]
      BY <1>1, <2>4, <3>1 DEF ToldOn
    <3> HIDE DEF key
    <3>4. notices'[key] = LeadOf[h]
      BY <1>1, <3>2, <3>3, NoticesStand, ConstantsAssumption
    <3> QED BY <3>4 DEF key
  <2> QED BY <2>2, <2>3, <2>4 DEF ToldOn
<1>2. RSIInv /\ [RSNext]_RSvars
      => [\A day \in Nat, excused, changed \in SUBSET Everything :
             ToldOn(day, excused) /\ Touched \subseteq changed
             => ToldOn(day, excused \cup changed)']_RSvars
  BY <1>1 DEF RSIInv
<1> QED BY <1>2, RSInvariance, PTL DEF RSSpec, ToldStaysTold
=============================================================================
