----------------------------- MODULE FirmRoster -----------------------------
(***************************************************************************)
(* FirmMember writes (apps/law/backend/src/domain/firmmember): who may     *)
(* manage the firm's roster, and the lockout guards that keep the firm     *)
(* able to administer itself.                                              *)
(*                                                                         *)
(* A request is let in by two facts read one after the other: the caller's *)
(* own row (the liveness gate) and the engine's managing-partner tuple,    *)
(* which is only as fresh as the last sync.  Every role other than         *)
(* managing partner is one role here.  A member created by request r has   *)
(* the id r.                                                               *)
(***************************************************************************)
EXTENDS Naturals

CONSTANTS
    Requests,      \* requests, each sent once
    Members,       \* the firm's members at boot
    Operator,      \* the operator key, which is nobody's row
    None

Ids == Members \cup Requests

ASSUME OperatorAssumption == Operator \notin Ids

VARIABLES
    members,       \* the FirmMember table: id -> row or None
    granted,       \* ids whose managing-partner tuple the engine holds
    pc,            \* where each request is
    call,          \* what each request asks for
    held,          \* ctx.existing: the row it has loaded
    barred,        \* history: the caller was inactive when the request came
                   \* and has not been active since
    undisturbed    \* history: alone since the request came

vars == <<members, granted, pc, call, held, barred, undisturbed>>

Row == [manages : BOOLEAN, active : BOOLEAN]

ASSUME NoneAssumption == None \notin Row

Call == [caller : Ids \cup {Operator}, id : Ids, row : Row]

Stages == {"idle", "load", "liveness", "engine", "guard", "persist", "sync",
           "done", "refused", "stopped"}

Acting(row) == row # None /\ row.manages /\ row.active

IsActive(table, m) == table[m] # None /\ table[m].active

Administered == \E m \in Ids : Acting(members[m])

-----------------------------------------------------------------------------
Goto(r, stage) == pc' = [pc EXCEPT ![r] = stage]

Busy(r) == pc[r] \notin {"idle", "done", "refused", "stopped"}

IsCreate(r) == call[r].id = r

\* Mutant: the guard asks whether a managing partner is left, and counts the
\* one who is about to go.
CountsItself(r) ==
    \/ IsCreate(r)
    \/ /\ ~ (call[r].caller = call[r].id /\ held[r].active /\ ~ call[r].row.active)
       /\ Acting(held[r]) /\ ~ Acting(call[r].row) => Administered

\* protect-firm-administration: nobody deactivates their own account, and the
\* last acting managing partner stays one.
Admits(r) ==
    \/ IsCreate(r)
    \/ /\ ~ (call[r].caller = call[r].id /\ held[r].active /\ ~ call[r].row.active)
       /\ Acting(held[r]) /\ ~ Acting(call[r].row) =>
              \E m \in Ids \ {call[r].id} : Acting(members[m])

\* Mutant: a row is enough, active or not.
AnyProfile(table, m) == table[m] # None

\* memberOf: only an active row counts.
Live(table, m) == IsActive(table, m)

Init ==
    /\ members \in [Ids -> Row \cup {None}]
    /\ \A m \in Members : members[m] # None
    /\ \A r \in Requests : members[r] = None
    /\ Administered
    /\ granted = {m \in Ids : Acting(members[m])}
    /\ pc = [r \in Requests |-> "idle"]
    /\ call = [r \in Requests |-> None]
    /\ held = [r \in Requests |-> None]
    /\ barred = [r \in Requests |-> FALSE]
    /\ undisturbed = [r \in Requests |-> FALSE]

-----------------------------------------------------------------------------
\* A create, or an update of any row; from a member or the operator.
Receive(r) ==
    /\ pc[r] = "idle"
    /\ \E c \in Call :
          /\ c.id = r \/ members[c.id] # None
          /\ c.caller # Operator => members[c.caller] # None
          /\ call' = [call EXCEPT ![r] = c]
          /\ barred' = [barred EXCEPT ![r] =
                 c.caller # Operator /\ ~ IsActive(members, c.caller)]
          /\ Goto(r, IF c.id = r THEN "liveness" ELSE "load")
    /\ undisturbed' = [q \in Requests |->
           q = r /\ \A o \in Requests \ {r} : ~ Busy(o)]
    /\ UNCHANGED <<members, granted, held>>

\* load-existing.
Load(r) ==
    /\ pc[r] = "load"
    /\ held' = [held EXCEPT ![r] = members[call[r].id]]
    /\ Goto(r, "liveness")
    /\ UNCHANGED <<members, granted, call, barred, undisturbed>>

\* The liveness gate: a direct row read, never the engine.
CheckLiveness(r) ==
    /\ pc[r] = "liveness"
    /\ Goto(r, IF call[r].caller = Operator THEN "guard"
               ELSE IF Live(members, call[r].caller) THEN "engine" ELSE "refused")
    /\ UNCHANGED <<members, granted, call, held, barred, undisturbed>>

\* can_manage_firm_members, answered from the tuples.
AskEngine(r) ==
    /\ pc[r] = "engine"
    /\ Goto(r, IF call[r].caller \in granted THEN "guard" ELSE "refused")
    /\ UNCHANGED <<members, granted, call, held, barred, undisturbed>>

Guard(r) ==
    /\ pc[r] = "guard"
    /\ Goto(r, IF Admits(r) THEN "persist" ELSE "refused")
    /\ UNCHANGED <<members, granted, call, held, barred, undisturbed>>

\* The reference check, or a failing store.
Refuse(r) ==
    /\ pc[r] \in {"load", "liveness", "engine", "guard", "persist"}
    /\ Goto(r, "refused")
    /\ UNCHANGED <<members, granted, call, held, barred, undisturbed>>

Persist(r) ==
    /\ pc[r] = "persist"
    /\ members' = [members EXCEPT ![call[r].id] = call[r].row]
    /\ barred' = [q \in Requests |->
           barred[q] /\ ~ (call[q].caller = call[r].id /\ call[r].row.active)]
    /\ Goto(r, "sync")
    /\ UNCHANGED <<granted, call, held, undisturbed>>

\* sync-authz-tuples: the delta between the loaded and the written row.
Sync(r) ==
    /\ pc[r] = "sync"
    /\ granted' = CASE Acting(call[r].row) /\ ~ Acting(held[r]) -> granted \cup {call[r].id}
                    [] ~ Acting(call[r].row) /\ Acting(held[r]) -> granted \ {call[r].id}
                    [] OTHER -> granted
    /\ Goto(r, "done")
    /\ UNCHANGED <<members, call, held, barred, undisturbed>>

\* The engine's failure is contained: the write stands, the tuple is stale.
SyncFails(r) ==
    /\ pc[r] = "sync"
    /\ Goto(r, "done")
    /\ UNCHANGED <<members, granted, call, held, barred, undisturbed>>

\* The process ends under the request.
Stop(r) ==
    /\ Busy(r)
    /\ Goto(r, "stopped")
    /\ UNCHANGED <<members, granted, call, held, barred, undisturbed>>

\* A reconcile: the engine holds what the rows say.
Reconcile ==
    /\ granted' = {m \in Ids : Acting(members[m])}
    /\ UNCHANGED <<members, pc, call, held, barred, undisturbed>>

RequestStep(r) ==
    \/ Receive(r) \/ Load(r) \/ CheckLiveness(r) \/ AskEngine(r) \/ Guard(r)
    \/ Refuse(r) \/ Persist(r) \/ Sync(r) \/ SyncFails(r) \/ Stop(r)

Next == Reconcile \/ \E r \in Requests : RequestStep(r)

Spec == Init /\ [][Next]_vars

-----------------------------------------------------------------------------
(* Properties.                                                             *)

\* Every variable has its type.
TypeOK ==
    /\ members \in [Ids -> Row \cup {None}]
    /\ granted \subseteq Ids
    /\ pc \in [Requests -> Stages]
    /\ call \in [Requests -> Call \cup {None}]
    /\ held \in [Requests -> Row \cup {None}]
    /\ barred \in [Requests -> BOOLEAN]
    /\ undisturbed \in [Requests -> BOOLEAN]

\* FR-MEMBER-002: whoever was deactivated before a request came, and has not
\* been reactivated, gets nothing written, however stale the engine's tuples.
DeactivatedStaysOut ==
    \A r \in Requests :
        barred[r] => pc[r] \notin {"engine", "guard", "persist", "sync", "done"}

\* A request that nobody disturbs never takes the firm's last administrator.
LoneChangeKeepsAdministrator ==
    [][\A r \in Requests :
          undisturbed[r] /\ Persist(r) /\ Administered => Administered']_vars

\* Nor does it deactivate the account it came from.
NobodyLeavesAlone ==
    [][\A r \in Requests :
          undisturbed[r] /\ Persist(r) /\ call[r].caller = call[r].id
            /\ IsActive(members, call[r].id)
          => IsActive(members', call[r].id)]_vars

\* firmmember-resource.ts: "never a firm with zero administrators".
FirmIsAdministered == Administered
=============================================================================
