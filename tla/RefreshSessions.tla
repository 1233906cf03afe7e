--------------------------- MODULE RefreshSessions ---------------------------
(***************************************************************************)
(* Sign-in sessions and one-time credentials (packages/identity): the      *)
(* refresh_tokens, user_credentials and activation_codes tables and the    *)
(* concurrent AuthService and UserService calls over them.  A refresh      *)
(* token is used once and replaced; presenting a used one again ends every *)
(* session of its user.                                                    *)
(*                                                                         *)
(* A token or code is 128 or more random bits, so the one minted by        *)
(* request r is named r.  One action per awaited store call.               *)
(***************************************************************************)
EXTENDS Naturals

CONSTANTS
    Requests,   \* the calls of a behaviour, each made once
    Users,      \* users whose rows exist (no user is ever deleted)
    Passwords,  \* passwords people type and set
    None        \* no row, no password, no value

VARIABLES
    tokens,     \* refresh_tokens: token -> row or None
    password,   \* user_credentials: what verifies for each user, or None
    codes,      \* activation_codes: the one live code per user, or None
    pc, call,   \* each request: where it is, what it asks
    subject,    \* the user a request acts on, once it knows
    signIn,     \* history: the call whose chain of rotations a request extends
    ended       \* history: sign-ins revoked with no request of theirs in flight

vars == <<tokens, password, codes, pc, call, subject, signIn, ended>>

TokenRow == [user : Users, consumed : BOOLEAN, expired : BOOLEAN]
CodeRow  == [code : Requests, expired : BOOLEAN]

ASSUME NoneAssumption ==
    /\ None \notin Requests \cup Users \cup Passwords
    /\ None \notin TokenRow
    /\ None \notin CodeRow

LoginCall  == [op : {"login"}, user : Users, typed : Passwords]
TokenCall  == [op : {"refresh", "logout"}, token : Requests]
IssueCall  == [op : {"issueActivationCode"}, user : Users]
RedeemCall == [op : {"redeemActivationCode"}, code : Requests, new : Passwords]
ChangeCall == [op : {"changePassword"}, user : Users, typed : Passwords,
               new : Passwords]
\* setPassword is the operator's; deactivating a firm member revokes alone.
AdminCall  == [op : {"setPassword"}, user : Users, new : Passwords]
                \cup [op : {"deactivate"}, user : Users]

Calls == LoginCall \cup TokenCall \cup IssueCall \cup RedeemCall
           \cup ChangeCall \cup AdminCall

Stages == {"idle", "verify", "consume", "lookup", "purge", "insert", "issue",
           "redeem", "setHash", "revoke", "done", "refused", "stopped"}

-----------------------------------------------------------------------------
Goto(r, stage) == pc' = [pc EXCEPT ![r] = stage]

Live(t) == tokens[t] # None /\ ~ tokens[t].consumed

\* Mutant: ... AND consumed_at IS NOT NULL.
WithoutUsed(u) ==
    [t \in Requests |-> IF tokens[t] # None /\ tokens[t].user = u
                           /\ tokens[t].consumed
                        THEN None ELSE tokens[t]]

\* DELETE FROM refresh_tokens WHERE user_id = ...
WithoutUser(u) ==
    [t \in Requests |-> IF tokens[t] # None /\ tokens[t].user = u
                        THEN None ELSE tokens[t]]

\* A request that will insert a token, whatever is deleted meanwhile.
Minting(r) == pc[r] \in {"lookup", "purge", "insert"}

\* The sign-ins that deleting the user's rows ends.
EndedWith(u) ==
    {signIn[t] : t \in {t \in Requests : tokens[t] # None /\ tokens[t].user = u}}
      \ {signIn[q] : q \in {q \in Requests : Minting(q) /\ subject[q] = u}}

\* Mutant: the purge also drops rows that were consumed.
WithoutConsumed ==
    [t \in Requests |-> IF tokens[t] # None /\ (tokens[t].expired \/ tokens[t].consumed)
                        THEN None ELSE tokens[t]]

\* DELETE FROM refresh_tokens WHERE expires_at < now(): consumed rows that
\* have not expired stay, they are the evidence of reuse.
WithoutExpired ==
    [t \in Requests |-> IF tokens[t] # None /\ tokens[t].expired
                        THEN None ELSE tokens[t]]

\* Which table call opens each operation.
FirstStage(op) ==
    CASE op \in {"login", "changePassword"} -> "verify"
      [] op \in {"refresh", "logout"}       -> "consume"
      [] op = "issueActivationCode"         -> "issue"
      [] op = "redeemActivationCode"        -> "redeem"
      [] op = "setPassword"                 -> "setHash"
      [] op = "deactivate"                  -> "revoke"

Init ==
    /\ tokens = [t \in Requests |-> None]
    /\ password \in [Users -> Passwords \cup {None}]
    /\ codes = [u \in Users |-> None]
    /\ pc = [r \in Requests |-> "idle"]
    /\ call = [r \in Requests |-> None]
    /\ subject = [r \in Requests |-> None]
    /\ signIn = [r \in Requests |-> r]
    /\ ended = {}

\* A client presents only tokens and codes that were minted before, possibly
\* long ago, possibly more than once (a retry, a second tab, a copy).
Receive(r) ==
    /\ pc[r] = "idle"
    /\ \E c \in Calls :
          /\ c.op \in {"refresh", "logout"} => pc[c.token] # "idle"
          /\ c.op = "redeemActivationCode" => pc[c.code] # "idle"
          /\ call' = [call EXCEPT ![r] = c]
          /\ subject' = [subject EXCEPT ![r] =
                 IF c.op \in {"refresh", "logout", "redeemActivationCode"}
                 THEN None ELSE c.user]
          /\ Goto(r, FirstStage(c.op))
    /\ UNCHANGED <<tokens, password, codes, signIn, ended>>

\* getPasswordHash and verifyPassword, for login and changePassword.
Verify(r) ==
    /\ pc[r] = "verify"
    /\ IF password[subject[r]] = call[r].typed
       THEN Goto(r, IF call[r].op = "login" THEN "purge" ELSE "setHash")
       ELSE Goto(r, "refused")
    /\ UNCHANGED <<tokens, password, codes, call, subject, signIn, ended>>

\* Mutant: a token that is presented in time is not marked as used.
ConsumeUnmarked(r) ==
    /\ pc[r] = "consume"
    /\ LET t == call[r].token IN
       /\ Live(t) /\ ~ tokens[t].expired
       /\ subject' = [subject EXCEPT ![r] = tokens[t].user]
       /\ Goto(r, "lookup")
       /\ signIn' = [signIn EXCEPT ![r] = signIn[t]]
    /\ UNCHANGED <<tokens, password, codes, call, ended>>

\* RefreshTokenStore.consume: one transaction under the row's lock.
Consume(r) ==
    /\ pc[r] = "consume"
    /\ LET t == call[r].token IN
       \/ /\ tokens[t] = None
          /\ Goto(r, "refused")
          /\ UNCHANGED <<tokens, subject, signIn, ended>>
       \/ /\ tokens[t] # None /\ tokens[t].consumed
          /\ tokens' = WithoutUser(tokens[t].user)
          /\ ended' = ended \cup EndedWith(tokens[t].user)
          /\ Goto(r, "refused")
          /\ UNCHANGED <<subject, signIn>>
       \/ /\ Live(t) /\ tokens[t].expired
          /\ tokens' = [tokens EXCEPT ![t] = None]
          /\ Goto(r, "refused")
          /\ UNCHANGED <<subject, signIn, ended>>
       \/ /\ Live(t) /\ ~ tokens[t].expired
          /\ tokens' = [tokens EXCEPT ![t].consumed = TRUE]
          /\ subject' = [subject EXCEPT ![r] = tokens[t].user]
          /\ IF call[r].op = "logout"
             THEN Goto(r, "done") /\ UNCHANGED signIn
             ELSE /\ Goto(r, "lookup")
                  /\ signIn' = [signIn EXCEPT ![r] = signIn[t]]
          /\ UNCHANGED ended
    /\ UNCHANGED <<password, codes, call>>

\* refresh reads the user row (always there) before it issues the session.
Lookup(r) ==
    /\ pc[r] = "lookup"
    /\ Goto(r, "purge")
    /\ UNCHANGED <<tokens, password, codes, call, subject, signIn, ended>>

\* RefreshTokenStore.insert, its two statements.
Purge(r) ==
    /\ pc[r] = "purge"
    /\ tokens' = WithoutExpired
    /\ Goto(r, "insert")
    /\ UNCHANGED <<password, codes, call, subject, signIn, ended>>

Insert(r) ==
    /\ pc[r] = "insert"
    /\ tokens' = [tokens EXCEPT ![r] =
           [user |-> subject[r], consumed |-> FALSE, expired |-> FALSE]]
    /\ Goto(r, "done")
    /\ UNCHANGED <<password, codes, call, subject, signIn, ended>>

\* ActivationCodeStore.issue: the upsert replaces the user's earlier code.
Issue(r) ==
    /\ pc[r] = "issue"
    /\ codes' = [codes EXCEPT ![subject[r]] = [code |-> r, expired |-> FALSE]]
    /\ Goto(r, "done")
    /\ UNCHANGED <<tokens, password, call, subject, signIn, ended>>

\* ActivationCodeStore.consume: DELETE ... RETURNING, expired codes too.
CodeHolders(c) == {u \in Users : codes[u] # None /\ codes[u].code = c}

\* Mutant: SELECT in place of DELETE ... RETURNING.
RedeemWithoutDelete(r) ==
    /\ pc[r] = "redeem"
    /\ \E u \in CodeHolders(call[r].code) :
          /\ ~ codes[u].expired
          /\ subject' = [subject EXCEPT ![r] = u]
          /\ Goto(r, "setHash")
    /\ UNCHANGED <<tokens, password, codes, call, signIn, ended>>

\* Mutant: the sessions go, and the password is left for later.
RedeemRevokingFirst(r) ==
    /\ pc[r] = "redeem"
    /\ \E u \in CodeHolders(call[r].code) :
          /\ codes' = [codes EXCEPT ![u] = None]
          /\ subject' = [subject EXCEPT ![r] = u]
          /\ Goto(r, "revoke")
    /\ UNCHANGED <<tokens, password, call, signIn, ended>>

Redeem(r) ==
    /\ pc[r] = "redeem"
    /\ \/ /\ CodeHolders(call[r].code) = {}
          /\ Goto(r, "refused")
          /\ UNCHANGED <<codes, subject>>
       \/ \E u \in CodeHolders(call[r].code) :
             /\ codes' = [codes EXCEPT ![u] = None]
             /\ IF codes[u].expired
                THEN Goto(r, "refused") /\ UNCHANGED subject
                ELSE /\ subject' = [subject EXCEPT ![r] = u]
                     /\ Goto(r, "setHash")
    /\ UNCHANGED <<tokens, password, call, signIn, ended>>

\* CredentialStore.setPasswordHash, then revokeAllForUser: two calls.
SetHash(r) ==
    /\ pc[r] = "setHash"
    /\ password' = [password EXCEPT ![subject[r]] = call[r].new]
    /\ Goto(r, "revoke")
    /\ UNCHANGED <<tokens, codes, call, subject, signIn, ended>>

Revoke(r) ==
    /\ pc[r] = "revoke"
    /\ tokens' = WithoutUser(subject[r])
    /\ ended' = ended \cup EndedWith(subject[r])
    /\ Goto(r, "done")
    /\ UNCHANGED <<password, codes, call, subject, signIn>>

\* The process ends or a table call fails between two awaits.
Stop(r) ==
    /\ pc[r] \notin {"idle", "done", "refused", "stopped"}
    /\ Goto(r, "stopped")
    /\ UNCHANGED <<tokens, password, codes, call, subject, signIn, ended>>

\* Seven idle days for a token, three days for a code.
ExpireToken(t) ==
    /\ tokens[t] # None /\ ~ tokens[t].expired
    /\ tokens' = [tokens EXCEPT ![t].expired = TRUE]
    /\ UNCHANGED <<password, codes, pc, call, subject, signIn, ended>>

ExpireCode(u) ==
    /\ codes[u] # None /\ ~ codes[u].expired
    /\ codes' = [codes EXCEPT ![u].expired = TRUE]
    /\ UNCHANGED <<tokens, password, pc, call, subject, signIn, ended>>

Step(r) ==
    \/ Verify(r) \/ Consume(r) \/ Lookup(r) \/ Purge(r) \/ Insert(r)
    \/ Issue(r) \/ Redeem(r) \/ SetHash(r) \/ Revoke(r)

Next ==
    \/ \E r \in Requests : Receive(r) \/ Step(r) \/ Stop(r)
    \/ \E t \in Requests : ExpireToken(t)
    \/ \E u \in Users : ExpireCode(u)

Spec == Init /\ [][Next]_vars

-----------------------------------------------------------------------------
(* Properties.                                                             *)

\* Every variable has its type.
TypeOK ==
    /\ tokens \in [Requests -> TokenRow \cup {None}]
    /\ password \in [Users -> Passwords \cup {None}]
    /\ codes \in [Users -> CodeRow \cup {None}]
    /\ pc \in [Requests -> Stages]
    /\ call \in [Requests -> Calls \cup {None}]
    /\ subject \in [Requests -> Users \cup {None}]
    /\ signIn \in [Requests -> Requests]
    /\ ended \in SUBSET Requests

\* One-time use: however many requests present one token at once, or again
\* later, a sign-in holds at most one live token: rotations form a line and
\* never a tree.
OneLiveTokenPerSignIn ==
    \A s, t \in Requests :
        Live(s) /\ Live(t) /\ signIn[s] = signIn[t] => s = t

\* A code is taken by at most one redemption, even when two race or the code
\* was replaced meanwhile, and then only for the user it was issued to.
CodeRedeemedOnce ==
    \A r, s \in Requests :
        /\ call[r] # None /\ call[r].op = "redeemActivationCode"
        /\ subject[r] # None
        => /\ subject[r] = subject[call[r].code]
           /\ /\ call[s] # None /\ call[s].op = "redeemActivationCode"
              /\ call[s].code = call[r].code
              /\ subject[s] # None
              => r = s

\* A code is spent for a password: only a redemption that stopped, or is just
\* storing it, leaves the code gone and its user without any.
SpentCodeLeavesPassword ==
    \A r \in Requests :
        /\ call[r] # None /\ call[r].op = "redeemActivationCode"
        /\ subject[r] # None
        => password[subject[r]] # None \/ pc[r] \in {"setHash", "stopped"}

\* "Whatever sessions the OLD credential earned die with it": a sign-in whose
\* rows were revoked comes back to life only through a request that was past
\* its check when they were.
EndedStaysEnded == \A t \in Requests : Live(t) => signIn[t] \notin ended

\* Evidence of reuse stays: a consumed row that has not expired leaves the
\* table only with every other row of its user, in one step.
EvidenceStays ==
    [][\A t \in Requests :
          /\ tokens[t] # None /\ tokens[t].consumed /\ ~ tokens[t].expired
          /\ tokens'[t] = None
          => \A s \in Requests :
                tokens[s] # None /\ tokens[s].user = tokens[t].user
                    => tokens'[s] = None]_vars
=============================================================================
