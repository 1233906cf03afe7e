-------------------------- MODULE FirmRoster_proofs --------------------------
(***************************************************************************)
(* Theorems about FirmRoster: its types, that a deactivated member gets    *)
(* nothing written, and that the lockout guards hold for every request     *)
(* nobody disturbs.                                                        *)
(***************************************************************************)
EXTENDS FirmRoster, TLAPS

\* Stages before the write.
Early == {"load", "liveness", "engine", "guard", "persist"}

\* A request past its start has a call; an update past load has a row.
InHand ==
    \A r \in Requests :
        /\ pc[r] # "idle" => call[r] \in Call
        /\ pc[r] \in Early \ {"load"} /\ ~ IsCreate(r) => held[r] \in Row

\* A member comes to exist by its own request, and others name it afterwards.
RowsFollowRequests ==
    \A r \in Requests :
        /\ pc[r] \in Early \cup {"idle"} => members[r] = None
        /\ pc[r] # "idle" /\ ~ IsCreate(r) => members[call[r].id] # None

\* A barred request's caller is a member who is inactive still.
BarredIsInactive ==
    \A r \in Requests :
        barred[r] => /\ call[r] \in Call /\ call[r].caller # Operator
                     /\ ~ IsActive(members, call[r].caller)

\* Nobody else is under way beside an undisturbed request.
Alone ==
    \A r, o \in Requests : undisturbed[r] /\ Busy(r) /\ Busy(o) => o = r

\* What an undisturbed request has loaded and checked still holds.
StillSo ==
    \A r \in Requests :
        undisturbed[r] =>
          /\ pc[r] \in Early \ {"load"} /\ ~ IsCreate(r)
                => held[r] = members[call[r].id]
          /\ pc[r] = "persist" => Admits(r)

IInv ==
    /\ TypeOK /\ InHand /\ RowsFollowRequests
    /\ BarredIsInactive /\ DeactivatedStaysOut
    /\ Alone /\ StillSo

-----------------------------------------------------------------------------
\* At boot the invariant holds: no request has come.
LEMMA Initially == Init => IInv
BY DEF Init, IInv, TypeOK, InHand, RowsFollowRequests, BarredIsInactive,
       DeactivatedStaysOut, Alone, StillSo, Stages, Early

\* The steps that change nothing but their own request's stage.
Quiet(r) ==
    \/ CheckLiveness(r) \/ AskEngine(r) \/ Guard(r) \/ Refuse(r)
    \/ SyncFails(r) \/ Stop(r)

\* A quiet step touches the tables and the other requests in nothing.
LEMMA QuietSteps ==
    ASSUME NEW r \in Requests, Quiet(r), TypeOK
    PROVE  /\ UNCHANGED <<members, granted, call, held, barred, undisturbed>>
           /\ Busy(r)
           /\ \A q \in Requests \ {r} : pc'[q] = pc[q]
           /\ pc' \in [Requests -> Stages]
           /\ pc'[r] \in Early => pc[r] \in Early \ {"load"} /\ pc'[r] # "load"
           /\ pc'[r] # "idle"
BY DEF Quiet, CheckLiveness, AskEngine, Guard, Refuse, SyncFails, Stop, Goto, TypeOK,
       Busy, Stages, Early

\* Every step keeps the types and the rows that requests have in hand.
LEMMA TypesKept == IInv /\ [Next]_vars => TypeOK' /\ InHand' /\ RowsFollowRequests'
<1> SUFFICES ASSUME IInv, [Next]_vars
             PROVE  TypeOK' /\ InHand' /\ RowsFollowRequests'
  OBVIOUS
<1> USE DEF IInv
<1>1. ASSUME NEW r \in Requests, Receive(r)
      PROVE  TypeOK' /\ InHand' /\ RowsFollowRequests'
  <2>1. PICK c \in Call :
          /\ c.id = r \/ members[c.id] # None
          /\ call' = [call EXCEPT ![r] = c]
          /\ barred' = [barred EXCEPT ![r] =
                 c.caller # Operator /\ ~ IsActive(members, c.caller)]
          /\ Goto(r, IF c.id = r THEN "liveness" ELSE "load")
    BY <1>1 DEF Receive
  <2>2. UNCHANGED <<members, granted, held>> /\ undisturbed' \in [Requests -> BOOLEAN]
    BY <1>1 DEF Receive
  <2>3. TypeOK'
    BY <2>1, <2>2 DEF TypeOK, Goto, Stages
  <2>4. InHand'
    BY <2>1, <2>2 DEF InHand, TypeOK, Goto, Early, IsCreate
  <2>5. c.id # r => members[c.id] # None
    BY <2>1
  <2>6. RowsFollowRequests'
    BY <1>1, <2>1, <2>2, <2>5 DEF RowsFollowRequests, TypeOK, Receive, Goto, Early, IsCreate
  <2> QED BY <2>3, <2>4, <2>6
<1>2. ASSUME NEW r \in Requests, Load(r)
      PROVE  TypeOK' /\ InHand' /\ RowsFollowRequests'
  <2>1. call[r] \in Call /\ call[r].id \in Ids
    BY <1>2 DEF Load, InHand, Call
  <2>2. members[call[r].id] \in Row \cup {None}
    BY <2>1 DEF TypeOK
  <2>3. TypeOK'
    BY <1>2, <2>2 DEF Load, TypeOK, Goto, Stages
  <2>4. InHand'
    BY <1>2, <2>2 DEF Load, InHand, RowsFollowRequests, TypeOK, Goto, Early, IsCreate
  <2>5. RowsFollowRequests'
    BY <1>2 DEF Load, RowsFollowRequests, TypeOK, Goto, Early, IsCreate
  <2> QED BY <2>3, <2>4, <2>5
<1>3. ASSUME NEW r \in Requests, Persist(r)
      PROVE  TypeOK' /\ InHand' /\ RowsFollowRequests'
  <2>1. call[r] \in Call /\ call[r].id \in Ids /\ call[r].row \in Row
    BY <1>3 DEF Persist, InHand, Call
  <2>2. TypeOK'
    BY <1>3, <2>1 DEF Persist, TypeOK, Goto, Stages
  <2>3. InHand'
    BY <1>3 DEF Persist, InHand, TypeOK, Goto, Early, IsCreate
  <2>4. RowsFollowRequests'
    <3>1. members' = [members EXCEPT ![call[r].id] = call[r].row]
      BY <1>3 DEF Persist
    <3>2. call[r].row # None
      BY <2>1, NoneAssumption
    <3>3. \A i \in Ids : members[i] # None => members'[i] # None
      BY <3>1, <3>2 DEF TypeOK
    <3>4. \A q \in Requests : pc'[q] \in Early \cup {"idle"} => q # r /\ pc[q] = pc'[q]
      BY <1>3 DEF Persist, Goto, TypeOK, Early
    <3>5. \A q \in Requests : pc'[q] \in Early \cup {"idle"} => members'[q] = None
      <4> SUFFICES ASSUME NEW q \in Requests, pc'[q] \in Early \cup {"idle"}
                   PROVE  members'[q] = None
        OBVIOUS
      <4>1. members[q] = None /\ q # r
        BY <3>4 DEF RowsFollowRequests
      <4>2. call[r].id # q
        BY <1>3, <4>1 DEF Persist, RowsFollowRequests, IsCreate
      <4> QED BY <3>1, <4>1, <4>2 DEF TypeOK, Ids
    <3>6. \A q \in Requests :
             pc'[q] # "idle" /\ ~ IsCreate(q)' => members'[call'[q].id] # None
      <4> SUFFICES ASSUME NEW q \in Requests, pc'[q] # "idle", ~ IsCreate(q)'
                   PROVE  members'[call'[q].id] # None
        OBVIOUS
      <4>1. pc[q] # "idle" /\ call'[q] = call[q] /\ call[q].id # q
        BY <1>3 DEF Persist, Goto, TypeOK, IsCreate
      <4>2. call[q].id \in Ids
        BY <4>1 DEF InHand, Call
      <4> QED BY <3>3, <4>1, <4>2 DEF RowsFollowRequests, IsCreate
    <3> QED BY <3>5, <3>6 DEF RowsFollowRequests, IsCreate
  <2> QED BY <2>2, <2>3, <2>4
<1>4. ASSUME NEW r \in Requests, Sync(r)
      PROVE  TypeOK' /\ InHand' /\ RowsFollowRequests'
  <2>1. call[r] \in Call /\ call[r].id \in Ids
    BY <1>4 DEF Sync, InHand, Call
  <2>2. granted' \subseteq Ids
    BY <1>4, <2>1 DEF Sync, TypeOK
  <2>3. /\ UNCHANGED <<members, call, held, barred, undisturbed>>
        /\ pc' = [pc EXCEPT ![r] = "done"]
    BY <1>4 DEF Sync, Goto
  <2>4. TypeOK'
    BY <2>2, <2>3 DEF TypeOK, Stages
  <2>5. InHand' /\ RowsFollowRequests'
    BY <1>4, <2>3 DEF Sync, InHand, RowsFollowRequests, TypeOK, Early, IsCreate
  <2> QED BY <2>4, <2>5
<1>5. ASSUME NEW r \in Requests, Quiet(r)
      PROVE  TypeOK' /\ InHand' /\ RowsFollowRequests'
  <2>1. TypeOK'
    BY <1>5, QuietSteps DEF TypeOK
  <2>2. InHand' /\ RowsFollowRequests'
    BY <1>5, QuietSteps DEF InHand, RowsFollowRequests, IsCreate, Busy, Early
  <2> QED BY <2>1, <2>2
<1>6. CASE Reconcile
  <2>1. TypeOK'
    BY <1>6 DEF Reconcile, TypeOK
  <2> QED BY <1>6, <2>1 DEF Reconcile, InHand, RowsFollowRequests, IsCreate
<1>7. CASE UNCHANGED vars
  BY <1>7 DEF vars, TypeOK, InHand, RowsFollowRequests, IsCreate
<1> QED
  BY <1>1, <1>2, <1>3, <1>4, <1>5, <1>6, <1>7 DEF Next, RequestStep, Quiet

-----------------------------------------------------------------------------
\* A deactivated caller stays inactive until a write reactivates it, which
\* lifts the bar; so the liveness gate refuses whoever is barred.
LEMMA BarKept == IInv /\ [Next]_vars => BarredIsInactive' /\ DeactivatedStaysOut'
<1> SUFFICES ASSUME IInv, [Next]_vars
             PROVE  BarredIsInactive' /\ DeactivatedStaysOut'
  OBVIOUS
<1> USE DEF IInv
<1>1. ASSUME NEW r \in Requests, Receive(r)
      PROVE  BarredIsInactive' /\ DeactivatedStaysOut'
  <2>1. PICK c \in Call :
          /\ call' = [call EXCEPT ![r] = c]
          /\ barred' = [barred EXCEPT ![r] =
                 c.caller # Operator /\ ~ IsActive(members, c.caller)]
          /\ Goto(r, IF c.id = r THEN "liveness" ELSE "load")
    BY <1>1 DEF Receive
  <2>2. members' = members
    BY <1>1 DEF Receive
  <2>3. BarredIsInactive'
    BY <2>1, <2>2 DEF BarredIsInactive, TypeOK, IsActive
  <2>4. DeactivatedStaysOut'
    BY <2>1 DEF DeactivatedStaysOut, TypeOK, Goto
  <2> QED BY <2>3, <2>4
<1>2. ASSUME NEW r \in Requests, Load(r)
      PROVE  BarredIsInactive' /\ DeactivatedStaysOut'
  BY <1>2 DEF Load, BarredIsInactive, DeactivatedStaysOut, IsActive, Goto, TypeOK
<1>3. ASSUME NEW r \in Requests, CheckLiveness(r)
      PROVE  BarredIsInactive' /\ DeactivatedStaysOut'
  <2>1. BarredIsInactive'
    BY <1>3 DEF CheckLiveness, BarredIsInactive, IsActive
  <2>2. barred[r] => pc'[r] = "refused"
    BY <1>3 DEF CheckLiveness, BarredIsInactive, Live, Goto, TypeOK
  <2>3. DeactivatedStaysOut'
    BY <1>3, <2>2 DEF CheckLiveness, DeactivatedStaysOut, Goto, TypeOK
  <2> QED BY <2>1, <2>3
<1>4. ASSUME NEW r \in Requests,
             AskEngine(r) \/ Guard(r) \/ Refuse(r) \/ SyncFails(r) \/ Stop(r)
      PROVE  BarredIsInactive' /\ DeactivatedStaysOut'
  BY <1>4 DEF AskEngine, Guard, Refuse, SyncFails, Stop, BarredIsInactive,
              DeactivatedStaysOut, IsActive, Goto, TypeOK
<1>5. ASSUME NEW r \in Requests, Persist(r)
      PROVE  BarredIsInactive' /\ DeactivatedStaysOut'
  <2>1. /\ members' = [members EXCEPT ![call[r].id] = call[r].row]
        /\ barred' = [q \in Requests |->
              barred[q] /\ ~ (call[q].caller = call[r].id /\ call[r].row.active)]
        /\ call' = call
        /\ pc' = [pc EXCEPT ![r] = "sync"]
        /\ pc[r] = "persist"
    BY <1>5 DEF Persist, Goto
  <2>2. ASSUME NEW q \in Requests, barred'[q]
        PROVE  /\ call'[q] \in Call /\ call'[q].caller # Operator
               /\ ~ IsActive(members', call'[q].caller)
    <3>1. /\ barred[q]
          /\ ~ (call[q].caller = call[r].id /\ call[r].row.active)
      BY <2>1, <2>2
    <3>2. /\ call[q] \in Call /\ call[q].caller # Operator
          /\ ~ IsActive(members, call[q].caller)
      BY <3>1 DEF BarredIsInactive
    <3>3. CASE call[q].caller = call[r].id
      <4>1. call[r].id \in Ids
        BY <2>1 DEF InHand, Call
      <4>2. members'[call[q].caller] = call[r].row
        BY <2>1, <3>3, <4>1 DEF TypeOK
      <4> QED BY <2>1, <3>1, <3>2, <3>3, <4>2 DEF IsActive
    <3>4. CASE call[q].caller # call[r].id
      <4>1. members'[call[q].caller] = members[call[q].caller]
        BY <2>1, <3>4 DEF TypeOK
      <4> QED BY <2>1, <3>2, <4>1 DEF IsActive
    <3> QED BY <3>3, <3>4
  <2>3. DeactivatedStaysOut'
    BY <2>1 DEF DeactivatedStaysOut, TypeOK
  <2> QED BY <2>2, <2>3 DEF BarredIsInactive
<1>6. ASSUME NEW r \in Requests, Sync(r)
      PROVE  BarredIsInactive' /\ DeactivatedStaysOut'
  <2>1. UNCHANGED <<members, call, barred>> /\ pc[r] = "sync" /\ Goto(r, "done")
    BY <1>6 DEF Sync
  <2> QED BY <2>1 DEF BarredIsInactive, DeactivatedStaysOut, IsActive, Goto, TypeOK
<1>7. CASE Reconcile
  BY <1>7 DEF Reconcile, BarredIsInactive, DeactivatedStaysOut, IsActive
<1>8. CASE UNCHANGED vars
  BY <1>8 DEF vars, BarredIsInactive, DeactivatedStaysOut, IsActive
<1> QED
  BY <1>1, <1>2, <1>3, <1>4, <1>5, <1>6, <1>7, <1>8 DEF Next, RequestStep

-----------------------------------------------------------------------------
\* Whoever comes while another is under way ends the other's being alone.
LEMMA AloneKept == IInv /\ [Next]_vars => Alone'
<1> SUFFICES ASSUME IInv, [Next]_vars
             PROVE  Alone'
  OBVIOUS
<1> USE DEF IInv
<1>1. ASSUME NEW r \in Requests, Receive(r)
      PROVE  Alone'
  <2>1. /\ undisturbed' = [q \in Requests |->
              q = r /\ \A o \in Requests \ {r} : ~ Busy(o)]
        /\ \A q \in Requests \ {r} : pc'[q] = pc[q]
    BY <1>1 DEF Receive, Goto, TypeOK
  <2> QED BY <2>1 DEF Alone, Busy
<1>2. ASSUME NEW r \in Requests,
             Load(r) \/ Persist(r) \/ Sync(r) \/ Quiet(r)
      PROVE  Alone'
  <2>1. /\ undisturbed' = undisturbed
        /\ Busy(r)
        /\ \A q \in Requests \ {r} : pc'[q] = pc[q]
    BY <1>2, QuietSteps DEF Load, Persist, Sync, Goto, TypeOK, Busy
  <2> QED BY <2>1 DEF Alone, Busy
<1>3. CASE Reconcile
  BY <1>3 DEF Reconcile, Alone, Busy
<1>4. CASE UNCHANGED vars
  BY <1>4 DEF vars, Alone, Busy
<1> QED
  BY <1>1, <1>2, <1>3, <1>4 DEF Next, RequestStep, Quiet

\* What an undisturbed request has loaded and checked is still so: whoever
\* could change it is not under way.
LEMMA StillSoKept == IInv /\ [Next]_vars => StillSo'
<1> SUFFICES ASSUME IInv, [Next]_vars
             PROVE  StillSo'
  OBVIOUS
<1> USE DEF IInv
<1>1. ASSUME NEW r \in Requests, Receive(r)
      PROVE  StillSo'
  <2>1. /\ \A q \in Requests : undisturbed'[q] => q = r
        /\ pc'[r] # "persist"
        /\ pc'[r] # "load" => IsCreate(r)'
    BY <1>1 DEF Receive, Goto, TypeOK, IsCreate
  <2> QED BY <2>1 DEF StillSo, Early
<1>2. ASSUME NEW r \in Requests, Load(r)
      PROVE  StillSo'
  <2>1. /\ held' = [held EXCEPT ![r] = members[call[r].id]]
        /\ pc' = [pc EXCEPT ![r] = "liveness"]
        /\ UNCHANGED <<members, call, undisturbed>>
    BY <1>2 DEF Load, Goto
  <2>2. \A q \in Requests \ {r} : held'[q] = held[q] /\ pc'[q] = pc[q]
    BY <2>1 DEF TypeOK
  <2>3. held'[r] = members[call[r].id] /\ pc'[r] = "liveness"
    BY <2>1 DEF TypeOK
  <2> QED BY <2>1, <2>2, <2>3 DEF StillSo, Admits, IsCreate, Administered
<1>3. ASSUME NEW r \in Requests, Persist(r) \/ Sync(r)
      PROVE  StillSo'
  <2>1. /\ Busy(r)
        /\ pc'[r] \notin Early
        /\ \A q \in Requests \ {r} : pc'[q] = pc[q]
        /\ undisturbed' = undisturbed
    BY <1>3 DEF Persist, Sync, Goto, TypeOK, Busy, Early
  <2>2. \A q \in Requests : undisturbed'[q] => pc'[q] \notin Early
    BY <2>1 DEF Alone, Busy, Early
  <2> QED BY <2>2 DEF StillSo, Early
<1>4. ASSUME NEW r \in Requests, Guard(r)
      PROVE  StillSo'
  <2>1. /\ UNCHANGED <<members, call, held, undisturbed>>
        /\ \A q \in Requests \ {r} : pc'[q] = pc[q]
        /\ pc[r] = "guard"
        /\ pc'[r] = "persist" => Admits(r)
    BY <1>4 DEF Guard, Goto, TypeOK
  <2> QED BY <2>1 DEF StillSo, Admits, IsCreate, Early
<1>5. ASSUME NEW r \in Requests,
             CheckLiveness(r) \/ AskEngine(r) \/ Refuse(r) \/ SyncFails(r) \/ Stop(r)
      PROVE  StillSo'
  <2>1. /\ UNCHANGED <<members, call, held, undisturbed>>
        /\ \A q \in Requests \ {r} : pc'[q] = pc[q]
        /\ pc'[r] \in Early => pc[r] \in Early \ {"load"}
        /\ pc'[r] # "persist"
    BY <1>5 DEF CheckLiveness, AskEngine, Refuse, SyncFails, Stop, Goto, TypeOK, Early
  <2> QED BY <2>1 DEF StillSo, Admits, IsCreate, Early
<1>6. CASE Reconcile \/ UNCHANGED vars
  <2>1. UNCHANGED <<members, pc, call, held, undisturbed>>
    BY <1>6 DEF Reconcile, vars
  <2> QED BY <2>1 DEF StillSo, Admits, IsCreate
<1> QED
  BY <1>1, <1>2, <1>3, <1>4, <1>5, <1>6 DEF Next, RequestStep

-----------------------------------------------------------------------------
LEMMA Invariance == Spec => []IInv
<1>1. IInv /\ [Next]_vars => IInv'
  BY TypesKept, BarKept, AloneKept, StillSoKept DEF IInv
<1> QED BY Initially, <1>1, PTL DEF Spec

\* Every variable keeps its type, for any set of requests and members
\* (firmmember-resource.ts, the whole write path).
THEOREM TypeCorrect == Spec => []TypeOK
<1>1. IInv => TypeOK
  BY DEF IInv
<1> QED BY Invariance, <1>1, PTL

\* A caller who was inactive when the request came and was not reactivated
\* passes no gate, whatever the engine's tuples say (policy.ts, memberOf).
THEOREM DeactivationCloses == Spec => []DeactivatedStaysOut
<1>1. IInv => DeactivatedStaysOut
  BY DEF IInv
<1> QED BY Invariance, <1>1, PTL

\* The write of an undisturbed request leaves an acting managing partner
\* (firmmember-resource.ts, the lockout guard).
THEOREM LoneChangeIsSafe == Spec => LoneChangeKeepsAdministrator
<1>1. ASSUME IInv, NEW r \in Requests,
             undisturbed[r], Persist(r), Administered
      PROVE  Administered'
  <2> USE <1>1 DEF IInv
  <2>1. /\ pc[r] = "persist"
        /\ members' = [members EXCEPT ![call[r].id] = call[r].row]
        /\ call[r] \in Call
    BY DEF Persist, InHand
  <2>2. call[r].id \in Ids /\ Admits(r)
    BY <2>1 DEF Call, StillSo
  <2>3. PICK m \in Ids : Acting(members[m])
    BY DEF Administered
  <2>4. CASE m # call[r].id
    BY <2>1, <2>2, <2>3, <2>4 DEF Administered, TypeOK
  <2>5. CASE m = call[r].id
    <3>1. CASE Acting(call[r].row)
      BY <2>1, <2>2, <3>1 DEF Administered, TypeOK
    <3>2. CASE ~ Acting(call[r].row)
      <4>1. ~ IsCreate(r)
        BY <2>1, <2>3, <2>5 DEF RowsFollowRequests, IsCreate, Acting, Early
      <4>2. held[r] = members[call[r].id]
        BY <2>1, <4>1 DEF StillSo, Early
      <4>3. PICK o \in Ids \ {call[r].id} : Acting(members[o])
        BY <2>2, <2>3, <2>5, <3>2, <4>1, <4>2 DEF Admits
      <4> QED BY <2>1, <4>3 DEF Administered, TypeOK
    <3> QED BY <3>1, <3>2
  <2> QED BY <2>4, <2>5
<1>2. IInv /\ [Next]_vars =>
        [\A r \in Requests :
            undisturbed[r] /\ Persist(r) /\ Administered => Administered']_vars
  BY <1>1
<1> QED BY Invariance, <1>2, PTL DEF Spec, LoneChangeKeepsAdministrator

\* The write of an undisturbed request leaves its own caller's account active
\* (firmmember-resource.ts, the self-deactivation guard).
THEOREM LoneLeavingIsRefused == Spec => NobodyLeavesAlone
<1>1. ASSUME IInv, NEW r \in Requests,
             undisturbed[r], Persist(r), call[r].caller = call[r].id,
             IsActive(members, call[r].id)
      PROVE  IsActive(members', call[r].id)
  <2> USE <1>1 DEF IInv
  <2>1. /\ pc[r] = "persist"
        /\ members' = [members EXCEPT ![call[r].id] = call[r].row]
        /\ call[r] \in Call
    BY DEF Persist, InHand
  <2>2. call[r].id \in Ids /\ call[r].row \in Row /\ Admits(r)
    BY <2>1 DEF Call, StillSo
  <2>3. ~ IsCreate(r)
    BY <2>1 DEF RowsFollowRequests, IsCreate, IsActive, Early
  <2>4. held[r] = members[call[r].id]
    BY <2>1, <2>3 DEF StillSo, Early
  <2>5. call[r].row.active
    BY <2>2, <2>3, <2>4 DEF Admits, IsActive
  <2>6. members'[call[r].id] = call[r].row
    BY <2>1, <2>2 DEF TypeOK
  <2> QED BY <2>2, <2>5, <2>6, NoneAssumption DEF IsActive
<1>2. IInv /\ [Next]_vars =>
        [\A r \in Requests :
            undisturbed[r] /\ Persist(r) /\ call[r].caller = call[r].id
              /\ IsActive(members, call[r].id)
            => IsActive(members', call[r].id)]_vars
  BY <1>1
<1> QED BY Invariance, <1>2, PTL DEF Spec, NobodyLeavesAlone
=============================================================================
