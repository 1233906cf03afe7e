------------------------------ MODULE CaseTeam ------------------------------
(***************************************************************************)
(* Who works on a case: the lead named in the Case's spec, and the         *)
(* CaseMember periods (apps/law/backend/src/domain/casemember).  The       *)
(* lead-membership handler opens a period for whoever a saved case names   *)
(* as its lead; remove closes a period unless it is the lead's.            *)
(*                                                                         *)
(* Every write of a case ends in the handler: "assign" is a user's update, *)
(* which sends the lead; "rewrite" stands for the next-hearing refresh and *)
(* for updateStatus, which send back the lead they read.  A period opened  *)
(* by request r has the id r.                                              *)
(***************************************************************************)
CONSTANTS
    Requests,      \* requests, each sent once
    Cases,
    People,        \* the FirmMembers
    Opened,        \* ids of the periods at boot
    None

Ids == Opened \cup Requests

VARIABLES
    lead,          \* Case.spec.leadLawyerId of every case
    periods,       \* the CaseMember table: id -> row or None
    pc,            \* where each request is
    call,          \* what each request asks for
    sent,          \* the lead a case write sends
    held,          \* the period a removal has loaded
    undisturbed,   \* history: alone since the request came
    lost,          \* history: a handler did not run to its end
    raced          \* history: a removal ran beside another request

request == <<call, sent, held>>

vars == <<lead, periods, pc, call, sent, held, undisturbed, lost, raced>>

Period == [case : Cases, member : People, active : BOOLEAN]

ASSUME NoneAssumption == None \notin Period

Call == [op : {"assign", "add"}, case : Cases, member : People]
        \cup [op : {"rewrite"}, case : Cases]
        \cup [op : {"remove"}, id : Ids]

Stages == {"idle", "readCase", "saveCase", "lookup", "open",
           "precheck", "insert", "load", "guard", "close",
           "done", "refused", "stopped"}

-----------------------------------------------------------------------------
\* The active period of a pair, the row its natural key finds.
Live(i, c, p) ==
    periods[i] # None /\ periods[i] = [case |-> c, member |-> p, active |-> TRUE]

IsMember(c, p) == \E i \in Ids : Live(i, c, p)

Goto(r, stage) == pc' = [pc EXCEPT ![r] = stage]
Busy(r) == pc[r] \notin {"idle", "done", "refused", "stopped"}

InHandler(r) == pc[r] \in {"lookup", "open"}

\* Mutant: the handler takes any period, a lapsed one too, for membership.
HasPeriod(c, p) ==
    \E i \in Ids : periods[i] # None /\ periods[i].case = c /\ periods[i].member = p

\* "assign a new lead before removing them".
MayLeave(row, id) == lead[row.case] # row.member

\* What the handler's lookup of the active key finds.
FoundActive(c, p) == IsMember(c, p)

Init ==
    /\ lead \in [Cases -> People]
    /\ periods \in [Ids -> Period \cup {None}]
    /\ \A i \in Opened : periods[i] # None
    /\ \A r \in Requests : periods[r] = None
    /\ \A i, j \in Opened :
          periods[i] = periods[j] /\ periods[i].active => i = j
    /\ \A c \in Cases : IsMember(c, lead[c])
    /\ pc = [r \in Requests |-> "idle"]
    /\ call = [r \in Requests |-> None]
    /\ sent = [r \in Requests |-> None]
    /\ held = [r \in Requests |-> None]
    /\ undisturbed = [r \in Requests |-> FALSE]
    /\ lost = FALSE
    /\ raced = FALSE

-----------------------------------------------------------------------------
Receive(r) ==
    /\ pc[r] = "idle"
    /\ \E c \in Call :
          /\ c.op = "remove" => periods[c.id] # None
          /\ call' = [call EXCEPT ![r] = c]
          /\ sent' = [sent EXCEPT ![r] = IF c.op = "assign" THEN c.member ELSE None]
          /\ Goto(r, CASE c.op = "assign"  -> "saveCase"
                       [] c.op = "rewrite" -> "readCase"
                       [] c.op = "add"     -> "precheck"
                       [] c.op = "remove"  -> "load")
    /\ undisturbed' = [q \in Requests |->
           q = r /\ \A o \in Requests \ {r} : ~ Busy(o)]
    /\ UNCHANGED <<lead, periods, held, lost, raced>>

\* Policy, validation and reference checks, or a failing store.
Refuse(r) ==
    /\ pc[r] \in {"readCase", "saveCase", "precheck", "insert", "load", "guard", "close"}
    /\ Goto(r, "refused")
    /\ UNCHANGED <<lead, periods, request, undisturbed, lost, raced>>

\* The refresh and updateStatus read the case whose lead they send back.
ReadCase(r) ==
    /\ pc[r] = "readCase"
    /\ sent' = [sent EXCEPT ![r] = lead[call[r].case]]
    /\ Goto(r, "saveCase")
    /\ UNCHANGED <<lead, periods, call, held, undisturbed, lost, raced>>

\* The whole spec is replaced by the one sent.
SavedLead(r) == sent[r]

\* The save, whose event the handler gets.
SaveCase(r) ==
    /\ pc[r] = "saveCase"
    /\ lead' = [lead EXCEPT ![call[r].case] = SavedLead(r)]
    /\ Goto(r, "lookup")
    /\ UNCHANGED <<periods, request, undisturbed, lost, raced>>

\* The handler: a live membership short-circuits.
Lookup(r) ==
    /\ pc[r] = "lookup"
    /\ Goto(r, IF FoundActive(call[r].case, sent[r]) THEN "done" ELSE "open")
    /\ UNCHANGED <<lead, periods, request, undisturbed, lost, raced>>

\* Mutant: a period without initialize-status.
Unset(c, p) == [case |-> c, member |-> p, active |-> FALSE]

\* initialize-status: every period opens active.
Fresh(c, p) == [case |-> c, member |-> p, active |-> TRUE]

\* The membership's create; losing to the key's constraint is fine.
Open(r) ==
    /\ pc[r] = "open"
    /\ periods' = IF IsMember(call[r].case, sent[r])
                  THEN periods
                  ELSE [periods EXCEPT ![r] = Fresh(call[r].case, sent[r])]
    /\ Goto(r, "done")
    /\ UNCHANGED <<lead, request, undisturbed, lost, raced>>

\* The handler fails; the dispatcher contains it and the case write stands.
LoseEvent(r) ==
    /\ InHandler(r)
    /\ Goto(r, "done")
    /\ lost' = TRUE
    /\ undisturbed' = [undisturbed EXCEPT ![r] = FALSE]
    /\ UNCHANGED <<lead, periods, request, raced>>

\* check-duplicate of a user's create.
Precheck(r) ==
    /\ pc[r] = "precheck"
    /\ Goto(r, IF IsMember(call[r].case, call[r].member) THEN "refused" ELSE "insert")
    /\ UNCHANGED <<lead, periods, request, undisturbed, lost, raced>>

Insert(r) ==
    /\ pc[r] = "insert"
    /\ IF IsMember(call[r].case, call[r].member)
       THEN UNCHANGED periods /\ Goto(r, "refused")
       ELSE /\ periods' = [periods EXCEPT ![r] = Fresh(call[r].case, call[r].member)]
            /\ Goto(r, "done")
    /\ UNCHANGED <<lead, request, undisturbed, lost, raced>>

\* remove: an already removed membership is refused.
Load(r) ==
    /\ pc[r] = "load"
    /\ held' = [held EXCEPT ![r] = periods[call[r].id]]
    /\ Goto(r, IF periods[call[r].id].active THEN "guard" ELSE "refused")
    /\ UNCHANGED <<lead, periods, call, sent, undisturbed, lost, raced>>

\* The lead's membership is load-bearing.
Guard(r) ==
    /\ pc[r] = "guard"
    /\ Goto(r, IF MayLeave(held[r], call[r].id) THEN "close" ELSE "refused")
    /\ UNCHANGED <<lead, periods, request, undisturbed, lost, raced>>

Close(r) ==
    /\ pc[r] = "close"
    /\ periods' = [periods EXCEPT ![call[r].id] = [held[r] EXCEPT !.active = FALSE]]
    /\ Goto(r, "done")
    /\ raced' = (raced \/ ~ undisturbed[r])
    /\ UNCHANGED <<lead, request, undisturbed, lost>>

\* The process ends under the request.
Stop(r) ==
    /\ Busy(r)
    /\ Goto(r, "stopped")
    /\ lost' = (lost \/ InHandler(r))
    /\ UNCHANGED <<lead, periods, request, undisturbed, raced>>

RequestStep(r) ==
    \/ Receive(r) \/ Refuse(r) \/ ReadCase(r) \/ SaveCase(r) \/ Lookup(r) \/ Open(r)
    \/ LoseEvent(r) \/ Precheck(r) \/ Insert(r) \/ Load(r) \/ Guard(r) \/ Close(r)
    \/ Stop(r)

Next == \E r \in Requests : RequestStep(r)

Spec == Init /\ [][Next]_vars

-----------------------------------------------------------------------------
(* Properties.                                                             *)

\* Every variable has its type.
TypeOK ==
    /\ lead \in [Cases -> People]
    /\ periods \in [Ids -> Period \cup {None}]
    /\ pc \in [Requests -> Stages]
    /\ call \in [Requests -> Call \cup {None}]
    /\ sent \in [Requests -> People \cup {None}]
    /\ held \in [Requests -> Period \cup {None}]
    /\ undisturbed \in [Requests -> BOOLEAN]
    /\ lost \in BOOLEAN
    /\ raced \in BOOLEAN

LeadsAreMembers ==
    (\A r \in Requests : ~ InHandler(r)) => \A c \in Cases : IsMember(c, lead[c])

\* However case writes and additions race, when no handler is running every
\* lead has an open period, unless a handler failed or a removal overlapped.
LeadIsMemberUnlessRaced == ~ lost /\ ~ raced => LeadsAreMembers

\* Whatever raced or failed before, a case write that runs undisturbed, its
\* handler included, leaves the case's lead a member.
NextCaseWriteHeals ==
    [][\A r \in Requests :
          undisturbed'[r] /\ pc[r] # "done" /\ pc'[r] = "done"
            /\ call[r].op \in {"assign", "rewrite"}
          => LET c == call[r].case IN \E i \in Ids : Live(i, c, lead[c])']_vars

\* An undisturbed removal never closes the period of the case's lead.
RemovalSparesLead ==
    [][\A r \in Requests :
          undisturbed[r] /\ Close(r)
          => LET i == call[r].id IN lead[periods[i].case] # periods[i].member]_vars
=============================================================================
