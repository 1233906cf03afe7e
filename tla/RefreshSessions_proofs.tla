----------------------- MODULE RefreshSessions_proofs -----------------------
(***************************************************************************)
(* Proofs about RefreshSessions, for any number of requests, users and     *)
(* passwords: type correctness, one live token per sign-in, one redemption *)
(* per activation code, that a spent code leaves a password, that evidence *)
(* of reuse is kept, and that revoked sign-ins stay revoked.               *)
(***************************************************************************)
EXTENDS RefreshSessions, TLAPS

\* What a sign-in has that may still be presented: a live token or a request
\* that is about to insert one.
Holds(r) == Live(r) \/ Minting(r)

\* Which calls and subjects a request has at each stage.
StagesInOrder ==
    \A r \in Requests :
        /\ pc[r] # "idle" => call[r] \in Calls
        /\ pc[r] = "idle" => call[r] = None
        /\ pc[r] = "verify" => call[r].op \in {"login", "changePassword"}
        /\ pc[r] = "consume" => call[r].op \in {"refresh", "logout"}
        /\ pc[r] = "redeem" => call[r].op = "redeemActivationCode" /\ subject[r] = None
        /\ pc[r] = "setHash" => call[r].new \in Passwords
        /\ Minting(r) \/ pc[r] \in {"verify", "issue", "setHash", "revoke"} =>
              subject[r] \in Users

\* A token row belongs to a finished request.
TokensOfFinished == \A t \in Requests : tokens[t] # None => pc[t] = "done"

\* The root of another request's sign-in is a call whose password was right.
RootsHaveStarted ==
    \A r, s \in Requests :
        /\ pc[r] \in {"idle", "verify", "consume"} => signIn[r] = r
        /\ signIn[s] = r /\ s # r => pc[r] \notin {"idle", "verify"}

OneHolder ==
    \A r, s \in Requests : Holds(r) /\ Holds(s) /\ signIn[r] = signIn[s] => r = s

\* A stored code was issued by a finished request for the user it is under.
CodesInOrder ==
    \A u \in Users :
        codes[u] # None => /\ pc[codes[u].code] = "done"
                           /\ subject[codes[u].code] = u

Redeemed(r) ==
    call[r] # None /\ call[r].op = "redeemActivationCode" /\ subject[r] # None

\* A redeemed code is gone for good.
RedeemedOnce ==
    \A r, s \in Requests :
        Redeemed(r) =>
            /\ pc[call[r].code] = "done"
            /\ subject[r] = subject[call[r].code]
            /\ CodeHolders(call[r].code) = {}
            /\ Redeemed(s) /\ call[s].code = call[r].code => r = s

IInv == /\ TypeOK /\ StagesInOrder /\ TokensOfFinished /\ RootsHaveStarted
        /\ OneHolder /\ CodesInOrder /\ RedeemedOnce

-----------------------------------------------------------------------------
\* Nothing is stored, nobody has called.
LEMMA InitIInv == Init => IInv
BY NoneAssumption
   DEF Init, IInv, TypeOK, StagesInOrder, TokensOfFinished, RootsHaveStarted,
       OneHolder, CodesInOrder, RedeemedOnce, Stages, Minting, Holds, Live, Redeemed

\* A step that keeps codes, calls and subjects keeps what is said of codes.
LEMMA CodesUntouched ==
  ASSUME IInv, UNCHANGED <<codes, call, subject>>,
         \A r \in Requests : pc[r] = "done" => pc'[r] = "done"
  PROVE  CodesInOrder' /\ RedeemedOnce'
BY NoneAssumption
   DEF IInv, TypeOK, CodesInOrder, RedeemedOnce, Redeemed, CodeHolders, CodeRow,
       Calls, RedeemCall, LoginCall, TokenCall, IssueCall, ChangeCall, AdminCall

\* Sign-ins are named after requests.
LEMMA EndedWithType == ASSUME TypeOK, NEW u PROVE EndedWith(u) \in SUBSET Requests
  BY DEF TypeOK, EndedWith

\* A call that arrives has minted nothing.
LEMMA ReceiveIInv == ASSUME NEW r \in Requests, IInv, Receive(r) PROVE IInv'
<1> USE NoneAssumption DEF IInv, Receive, Goto
<1>1. TypeOK'
  BY DEF TypeOK, FirstStage, Stages,
         Calls, LoginCall, TokenCall, IssueCall, RedeemCall, ChangeCall, AdminCall
<1>2. StagesInOrder'
  BY DEF TypeOK, StagesInOrder, Minting, FirstStage, Stages,
         Calls, LoginCall, TokenCall, IssueCall, RedeemCall, ChangeCall, AdminCall
<1>3. TokensOfFinished'
  BY DEF TypeOK, TokensOfFinished
<1>4. RootsHaveStarted'
  BY DEF TypeOK, RootsHaveStarted, StagesInOrder, FirstStage, Stages,
         Calls, LoginCall, TokenCall, IssueCall, RedeemCall, ChangeCall, AdminCall
<1>5. OneHolder'
  BY DEF TypeOK, OneHolder, Holds, Live, Minting, FirstStage, Stages,
         Calls, LoginCall, TokenCall, IssueCall, RedeemCall, ChangeCall, AdminCall
<1>6. CodesInOrder' /\ RedeemedOnce'
  BY DEF TypeOK, CodesInOrder, RedeemedOnce, Redeemed, CodeHolders, CodeRow,
         StagesInOrder, Calls, LoginCall, TokenCall, IssueCall, RedeemCall, ChangeCall, AdminCall
<1>7. QED
  BY <1>1, <1>2, <1>3, <1>4, <1>5, <1>6

\* A login that verifies starts a sign-in nobody else belongs to.
LEMMA VerifyIInv == ASSUME NEW r \in Requests, IInv, Verify(r) PROVE IInv'
<1> USE NoneAssumption DEF IInv, Verify, Goto
<1>1. TypeOK'
  BY DEF TypeOK, Stages, TokenRow
<1>2. StagesInOrder'
  BY DEF TypeOK, StagesInOrder, Minting,
         Calls, LoginCall, TokenCall, IssueCall, RedeemCall, ChangeCall, AdminCall
<1>3. TokensOfFinished'
  BY DEF TypeOK, TokensOfFinished
<1>4. RootsHaveStarted'
  BY DEF TypeOK, RootsHaveStarted
<1>5. OneHolder'
  BY DEF TypeOK, OneHolder, Holds, Live, Minting, RootsHaveStarted
<1>6. CodesInOrder' /\ RedeemedOnce'
  BY CodesUntouched DEF TypeOK
<1>7. QED
  BY <1>1, <1>2, <1>3, <1>4, <1>5, <1>6

\* A flag set leaves a row a row.
LEMMA FlaggedIsRow ==
  ASSUME NEW row \in TokenRow
  PROVE  /\ [row EXCEPT !.consumed = TRUE] \in TokenRow
         /\ [row EXCEPT !.expired = TRUE] \in TokenRow
         /\ [row EXCEPT !.consumed = TRUE].consumed
         /\ row # None
BY NoneAssumption DEF TokenRow

\* Consuming a live token passes what its sign-in has on to the request; the
\* other outcomes only remove rows.
LEMMA ConsumeIInv == ASSUME NEW r \in Requests, IInv, Consume(r) PROVE IInv'
<1> USE NoneAssumption DEF IInv, TokenRow
<1>1. PICK t \in Requests : t = call[r].token
  BY DEF Consume, StagesInOrder, Calls, LoginCall, TokenCall, IssueCall,
         RedeemCall, ChangeCall, AdminCall
<1>2. /\ pc[r] = "consume" /\ call[r].op \in {"refresh", "logout"}
      /\ UNCHANGED <<password, codes, call>>
  BY DEF Consume, StagesInOrder
<1>3. CASE /\ Live(t) /\ ended' = ended
           /\ tokens' = [tokens EXCEPT ![t].consumed = TRUE]
           /\ subject' = [subject EXCEPT ![r] = tokens[t].user]
           /\ \/ Goto(r, "done") /\ UNCHANGED signIn
              \/ Goto(r, "lookup") /\ signIn' = [signIn EXCEPT ![r] = signIn[t]]
  <2>1. /\ t # r /\ pc[t] = "done" /\ pc'[t] = "done"
        /\ tokens[t] \in TokenRow /\ tokens[t] # None /\ tokens[t].user \in Users
    BY <1>1, <1>2, <1>3 DEF TypeOK, TokensOfFinished, Live, TokenRow, Goto
  <2>2. /\ tokens' \in [Requests -> TokenRow \cup {None}]
        /\ tokens'[t] # None /\ tokens'[t].consumed
        /\ \A q \in Requests \ {t} : tokens'[q] = tokens[q]
    <3> DEFINE used == [tokens[t] EXCEPT !.consumed = TRUE]
    <3>1. used \in TokenRow /\ used # None /\ used.consumed
      BY <2>1, FlaggedIsRow
    <3>2. tokens' = [tokens EXCEPT ![t] = used] /\ tokens \in [Requests -> TokenRow \cup {None}]
      BY <1>3 DEF TypeOK
    <3> HIDE DEF used
    <3>3. QED
      BY <1>1, <3>1, <3>2
  <2>3. TypeOK'
    BY <1>1, <1>2, <1>3, <2>1, <2>2 DEF TypeOK, Goto, Stages
  <2>4. StagesInOrder'
    BY <1>2, <1>3, <2>1 DEF TypeOK, StagesInOrder, Minting, Goto
  <2>5. TokensOfFinished'
    BY <1>1, <1>2, <1>3, <2>1, <2>2 DEF TypeOK, TokensOfFinished, Goto
  <2>6. RootsHaveStarted'
    BY <1>1, <1>2, <1>3, <2>1 DEF TypeOK, RootsHaveStarted, Goto
  <2>7. OneHolder'
    <3>1. ~ Holds(t)' /\ Holds(t) /\ ~ Holds(r)
      BY <1>2, <1>3, <2>1, <2>2 DEF Holds, Live, Minting, TokensOfFinished
    <3>2. \A q \in Requests \ {r, t} : (Holds(q)' <=> Holds(q)) /\ signIn'[q] = signIn[q]
      BY <1>3, <2>1, <2>2 DEF Holds, Live, Minting, Goto, TypeOK
    <3>3. Holds(r)' => signIn'[r] = signIn[t]
      BY <1>2, <1>3, <2>1, <2>2 DEF Holds, Live, Minting, Goto, TypeOK, TokensOfFinished
    <3>4. QED
      BY <1>1, <3>1, <3>2, <3>3 DEF OneHolder
  <2>8. CodesInOrder' /\ RedeemedOnce'
    <3>1. /\ \A q \in Requests : Redeemed(q) => q # r /\ call[q].code \in Requests
          /\ Redeemed(r)' = FALSE
      BY <1>2, <1>3 DEF Redeemed, StagesInOrder, Calls, LoginCall, TokenCall,
                        IssueCall, RedeemCall, ChangeCall, AdminCall
    <3>2. \A q \in Requests \ {r} : /\ subject'[q] = subject[q] /\ pc'[q] = pc[q]
                                    /\ Redeemed(q)' = Redeemed(q)
      BY <1>2, <1>3 DEF Redeemed, TypeOK, Goto
    <3>3. \A q \in Requests : pc[q] = "done" => q # r
      BY <1>2
    <3>4. CodesInOrder'
      BY <1>2, <3>2, <3>3 DEF CodesInOrder, TypeOK, CodeRow
    <3>5. RedeemedOnce'
      BY <1>2, <3>1, <3>2, <3>3 DEF RedeemedOnce, CodeHolders
    <3>6. QED
      BY <3>4, <3>5
  <2>9. QED
    BY <2>3, <2>4, <2>5, <2>6, <2>7, <2>8
<1>4. CASE /\ \A q \in Requests : tokens'[q] \in {tokens[q], None}
           /\ tokens' \in [Requests -> TokenRow \cup {None}]
           /\ Goto(r, "refused") /\ UNCHANGED <<subject, signIn>>
           /\ ended' \in SUBSET Requests
  <2>1. TypeOK'
    BY <1>2, <1>4 DEF TypeOK, Goto, Stages
  <2>2. StagesInOrder'
    BY <1>2, <1>4 DEF TypeOK, StagesInOrder, Minting, Goto
  <2>3. TokensOfFinished'
    BY <1>2, <1>4 DEF TypeOK, TokensOfFinished, Goto
  <2>4. RootsHaveStarted'
    BY <1>2, <1>4 DEF TypeOK, RootsHaveStarted, Goto
  <2>5. OneHolder'
    BY <1>2, <1>4 DEF TypeOK, OneHolder, Holds, Live, Minting, Goto
  <2>6. CodesInOrder' /\ RedeemedOnce'
    BY <1>2, <1>4, CodesUntouched DEF TypeOK, Goto
  <2>7. QED
    BY <2>1, <2>2, <2>3, <2>4, <2>5, <2>6
<1>5. QED
  <2>1. \A u : ended \cup EndedWith(u) \in SUBSET Requests
    BY EndedWithType DEF TypeOK
  <2>2. QED
    BY <1>1, <1>3, <1>4, <2>1 DEF Consume, TypeOK, WithoutUser

\* Reading the user row moves the request on.
LEMMA LookupIInv == ASSUME NEW r \in Requests, IInv, Lookup(r) PROVE IInv'
<1> USE NoneAssumption DEF IInv, Lookup, Goto
<1>1. TypeOK'
  BY DEF TypeOK, Stages, TokenRow
<1>2. StagesInOrder'
  BY DEF TypeOK, StagesInOrder, Minting
<1>3. TokensOfFinished'
  BY DEF TypeOK, TokensOfFinished
<1>4. RootsHaveStarted'
  BY DEF TypeOK, RootsHaveStarted
<1>5. OneHolder'
  BY DEF TypeOK, OneHolder, Holds, Live, Minting
<1>6. CodesInOrder' /\ RedeemedOnce'
  BY CodesUntouched DEF TypeOK
<1>7. QED
  BY <1>1, <1>2, <1>3, <1>4, <1>5, <1>6

\* The purge only removes rows.
LEMMA PurgeIInv == ASSUME NEW r \in Requests, IInv, Purge(r) PROVE IInv'
<1> USE NoneAssumption DEF IInv, Purge, Goto
<1>1. TypeOK'
  BY DEF TypeOK, Stages, TokenRow, WithoutExpired
<1>2. StagesInOrder'
  BY DEF TypeOK, StagesInOrder, Minting
<1>3. TokensOfFinished'
  BY DEF TypeOK, TokensOfFinished, WithoutExpired
<1>4. RootsHaveStarted'
  BY DEF TypeOK, RootsHaveStarted
<1>5. OneHolder'
  BY DEF TypeOK, OneHolder, Holds, Live, Minting, WithoutExpired
<1>6. CodesInOrder' /\ RedeemedOnce'
  BY CodesUntouched DEF TypeOK
<1>7. QED
  BY <1>1, <1>2, <1>3, <1>4, <1>5, <1>6

\* What the request was minting becomes its live token.
LEMMA InsertIInv == ASSUME NEW r \in Requests, IInv, Insert(r) PROVE IInv'
<1> USE NoneAssumption DEF IInv, Insert, Goto
<1>1. TypeOK'
  BY DEF TypeOK, Stages, TokenRow, StagesInOrder, Minting
<1>2. StagesInOrder'
  BY DEF TypeOK, StagesInOrder, Minting
<1>3. TokensOfFinished'
  BY DEF TypeOK, TokensOfFinished
<1>4. RootsHaveStarted'
  BY DEF TypeOK, RootsHaveStarted
<1>5. OneHolder'
  BY DEF TypeOK, OneHolder, Holds, Live, Minting
<1>6. CodesInOrder' /\ RedeemedOnce'
  BY CodesUntouched DEF TypeOK
<1>7. QED
  BY <1>1, <1>2, <1>3, <1>4, <1>5, <1>6

\* An issued code replaces whatever its user had.
LEMMA IssueIInv == ASSUME NEW r \in Requests, IInv, Issue(r) PROVE IInv'
<1> USE NoneAssumption DEF IInv, Issue, Goto
<1>1. TypeOK'
  BY DEF TypeOK, Stages, CodeRow, StagesInOrder
<1>2. StagesInOrder'
  BY DEF TypeOK, StagesInOrder, Minting
<1>3. TokensOfFinished'
  BY DEF TypeOK, TokensOfFinished
<1>4. RootsHaveStarted'
  BY DEF TypeOK, RootsHaveStarted
<1>5. OneHolder'
  BY DEF TypeOK, OneHolder, Holds, Live, Minting
<1>6. CodesInOrder' /\ RedeemedOnce'
  BY DEF TypeOK, CodesInOrder, RedeemedOnce, Redeemed, CodeHolders, CodeRow,
         StagesInOrder, Calls, LoginCall, TokenCall, IssueCall, RedeemCall, ChangeCall, AdminCall
<1>7. QED
  BY <1>1, <1>2, <1>3, <1>4, <1>5, <1>6

\* A redeemed code is deleted with the answer.
LEMMA RedeemIInv == ASSUME NEW r \in Requests, IInv, Redeem(r) PROVE IInv'
<1> USE NoneAssumption DEF IInv, Redeem, Goto
<1>1. TypeOK'
  BY DEF TypeOK, Stages, CodeRow, CodeHolders
<1>2. StagesInOrder'
  BY DEF TypeOK, StagesInOrder, Minting, CodeHolders, Calls,
         LoginCall, TokenCall, IssueCall, RedeemCall, ChangeCall, AdminCall
<1>3. TokensOfFinished'
  BY DEF TypeOK, TokensOfFinished
<1>4. RootsHaveStarted'
  BY DEF TypeOK, RootsHaveStarted
<1>5. OneHolder'
  BY DEF TypeOK, OneHolder, Holds, Live, Minting
<1>6. CodesInOrder' /\ RedeemedOnce'
  <2>1. /\ call[r].op = "redeemActivationCode" /\ subject[r] = None /\ pc[r] # "done"
        /\ ~ Redeemed(r)
    BY DEF StagesInOrder, Redeemed
  <2>2. \A q \in Requests \ {r} :
           pc'[q] = pc[q] /\ subject'[q] = subject[q] /\ Redeemed(q)' = Redeemed(q)
    BY DEF TypeOK, Redeemed, CodeHolders
  <2>3. \A q \in Requests : Redeemed(q) => call[q].code \in Requests
    BY DEF Redeemed, StagesInOrder, Calls, LoginCall, TokenCall, IssueCall, RedeemCall,
           ChangeCall, AdminCall
  <2>3a. ASSUME NEW v \in Users, codes[v] # None
         PROVE  /\ codes[v].code \in Requests \ {r}
                /\ pc[codes[v].code] = "done" /\ subject[codes[v].code] = v
    <3>1. codes[v].code \in Requests
      <4>1. codes[v] \in CodeRow
        BY <2>3a DEF TypeOK
      <4>2. QED
        BY <4>1 DEF CodeRow
    <3>2. pc[codes[v].code] = "done" /\ subject[codes[v].code] = v
      BY <2>3a DEF CodesInOrder
    <3>3. QED
      BY <2>1, <3>1, <3>2
  <2>4. CASE CodeHolders(call[r].code) = {} \/ subject'[r] = None
    <3>1. /\ \A v \in Users : codes'[v] = codes[v] \/ codes'[v] = None
          /\ ~ Redeemed(r)'
      BY <2>1, <2>4 DEF TypeOK, Redeemed, CodeHolders
    <3>2. CodesInOrder'
      BY <2>2, <2>3a, <3>1 DEF CodesInOrder
    <3>3. RedeemedOnce'
      BY <2>1, <2>2, <2>3, <3>1 DEF RedeemedOnce, CodeHolders
    <3>4. QED
      BY <3>2, <3>3
  <2>5. ASSUME NEW u \in CodeHolders(call[r].code),
               codes' = [codes EXCEPT ![u] = None],
               subject' = [subject EXCEPT ![r] = u]
        PROVE  CodesInOrder' /\ RedeemedOnce'
    <3>1. /\ u \in Users /\ codes[u] # None /\ codes[u].code = call[r].code
          /\ pc[call[r].code] = "done" /\ subject[call[r].code] = u
          /\ call[r].code \in Requests
      <4>1. u \in Users /\ codes[u] # None /\ codes[u].code = call[r].code
        BY DEF CodeHolders
      <4>2. QED
        BY <4>1, <2>3a
    <3>2. \A v \in Users : codes'[v] = IF v = u THEN None ELSE codes[v]
      BY <2>5, <3>1 DEF TypeOK
    <3>3. CodesInOrder'
      BY <2>2, <2>3a, <3>2 DEF CodesInOrder
    <3>4. CodeHolders(call[r].code)' = {}
      BY <3>1, <3>2 DEF CodeHolders, CodesInOrder
    <3>5. \A q \in Requests : Redeemed(q) => call[q].code # call[r].code
      BY <3>1 DEF RedeemedOnce, CodeHolders
    <3>6. subject'[r] = u /\ subject'[call[r].code] = u
      BY <2>1, <2>2, <2>5, <3>1 DEF TypeOK
    <3>7. RedeemedOnce'
      BY <2>1, <2>2, <2>3, <3>1, <3>2, <3>4, <3>5, <3>6 DEF RedeemedOnce, CodeHolders
    <3>8. QED
      BY <3>3, <3>7
  <2>6. QED
    BY <2>1, <2>4, <2>5 DEF TypeOK
<1>7. QED
  BY <1>1, <1>2, <1>3, <1>4, <1>5, <1>6

\* The new password is stored before the sessions go.
LEMMA SetHashIInv == ASSUME NEW r \in Requests, IInv, SetHash(r) PROVE IInv'
<1> USE NoneAssumption DEF IInv, SetHash, Goto
<1>1. TypeOK'
  BY DEF TypeOK, Stages, StagesInOrder
<1>2. StagesInOrder'
  BY DEF TypeOK, StagesInOrder, Minting
<1>3. TokensOfFinished'
  BY DEF TypeOK, TokensOfFinished
<1>4. RootsHaveStarted'
  BY DEF TypeOK, RootsHaveStarted
<1>5. OneHolder'
  BY DEF TypeOK, OneHolder, Holds, Live, Minting
<1>6. CodesInOrder' /\ RedeemedOnce'
  BY CodesUntouched DEF TypeOK
<1>7. QED
  BY <1>1, <1>2, <1>3, <1>4, <1>5, <1>6

\* Revoking only removes rows.
LEMMA RevokeIInv == ASSUME NEW r \in Requests, IInv, Revoke(r) PROVE IInv'
<1> USE NoneAssumption DEF IInv, Revoke, Goto
<1>1. TypeOK'
  BY EndedWithType DEF TypeOK, Stages, TokenRow, WithoutUser
<1>2. StagesInOrder'
  BY DEF TypeOK, StagesInOrder, Minting
<1>3. TokensOfFinished'
  BY DEF TypeOK, TokensOfFinished, WithoutUser
<1>4. RootsHaveStarted'
  BY DEF TypeOK, RootsHaveStarted
<1>5. OneHolder'
  BY DEF TypeOK, OneHolder, Holds, Live, Minting, WithoutUser
<1>6. CodesInOrder' /\ RedeemedOnce'
  BY CodesUntouched DEF TypeOK
<1>7. QED
  BY <1>1, <1>2, <1>3, <1>4, <1>5, <1>6

\* A stopped request mints nothing.
LEMMA StopIInv == ASSUME NEW r \in Requests, IInv, Stop(r) PROVE IInv'
<1> USE NoneAssumption DEF IInv, Stop, Goto
<1>1. TypeOK'
  BY DEF TypeOK, Stages, TokenRow
<1>2. StagesInOrder'
  BY DEF TypeOK, StagesInOrder, Minting
<1>3. TokensOfFinished'
  BY DEF TypeOK, TokensOfFinished
<1>4. RootsHaveStarted'
  BY DEF TypeOK, RootsHaveStarted
<1>5. OneHolder'
  BY DEF TypeOK, OneHolder, Holds, Live, Minting
<1>6. CodesInOrder' /\ RedeemedOnce'
  BY CodesUntouched DEF TypeOK
<1>7. QED
  BY <1>1, <1>2, <1>3, <1>4, <1>5, <1>6

-----------------------------------------------------------------------------
\* A row that runs out of time keeps its place and its use.
LEMMA ExpireTokenIInv == ASSUME NEW t \in Requests, IInv, ExpireToken(t) PROVE IInv'
<1> USE NoneAssumption DEF IInv, ExpireToken
<1>1. TypeOK'
  <2> DEFINE late == [tokens[t] EXCEPT !.expired = TRUE]
  <2>1. late \in TokenRow
    BY FlaggedIsRow DEF TypeOK
  <2>2. tokens' = [tokens EXCEPT ![t] = late]
    OBVIOUS
  <2> HIDE DEF late
  <2>3. tokens \in [Requests -> TokenRow \cup {None}]
    BY DEF TypeOK
  <2>4. tokens' \in [Requests -> TokenRow \cup {None}]
    BY <2>1, <2>2, <2>3
  <2>5. QED
    BY <2>4 DEF TypeOK
<1>2. StagesInOrder' /\ RootsHaveStarted'
  BY DEF StagesInOrder, Minting, RootsHaveStarted
<1>3. \A q \in Requests : /\ tokens'[q] # None <=> tokens[q] # None
                          /\ Live(q)' <=> Live(q)
  BY DEF TypeOK, TokenRow, Live
<1>4. TokensOfFinished' /\ OneHolder'
  BY <1>3 DEF TokensOfFinished, OneHolder, Holds, Minting
<1>5. CodesInOrder' /\ RedeemedOnce'
  BY CodesUntouched
<1>6. QED
  BY <1>1, <1>2, <1>4, <1>5

\* A code that runs out of time is still the code of its user.
LEMMA ExpireCodeIInv == ASSUME NEW u \in Users, IInv, ExpireCode(u) PROVE IInv'
<1> USE NoneAssumption DEF IInv, ExpireCode
<1>1. TypeOK'
  <2> DEFINE late == [codes[u] EXCEPT !.expired = TRUE]
  <2>1. codes[u] \in CodeRow
    BY DEF TypeOK
  <2>2. late \in CodeRow /\ codes' = [codes EXCEPT ![u] = late]
    BY <2>1 DEF CodeRow
  <2> HIDE DEF late
  <2>3. codes \in [Users -> CodeRow \cup {None}]
    BY DEF TypeOK
  <2>4. codes' \in [Users -> CodeRow \cup {None}]
    BY <2>2, <2>3
  <2>5. QED
    BY <2>4 DEF TypeOK
<1>2. StagesInOrder' /\ RootsHaveStarted' /\ TokensOfFinished' /\ OneHolder'
  BY DEF StagesInOrder, Minting, RootsHaveStarted, TokensOfFinished, OneHolder,
         Holds, Live
<1>3. \A v \in Users : /\ codes'[v] # None <=> codes[v] # None
                       /\ codes[v] # None => codes'[v].code = codes[v].code
  <2>1. codes[u] \in CodeRow /\ codes'[u] = [codes[u] EXCEPT !.expired = TRUE]
    BY DEF TypeOK
  <2>2. codes'[u] # None /\ codes'[u].code = codes[u].code
    BY <2>1 DEF CodeRow
  <2>3. \A v \in Users \ {u} : codes'[v] = codes[v]
    BY DEF TypeOK
  <2>4. QED
    BY <2>2, <2>3
<1>4. CodesInOrder' /\ RedeemedOnce'
  BY <1>3 DEF CodesInOrder, RedeemedOnce, Redeemed, CodeHolders
<1>5. QED
  BY <1>1, <1>2, <1>4

\* The invariant is inductive.
LEMMA NextIInv == IInv /\ [Next]_vars => IInv'
<1> SUFFICES ASSUME IInv, [Next]_vars PROVE IInv'
  OBVIOUS
<1>1. CASE UNCHANGED vars
  BY <1>1 DEF vars, IInv, TypeOK, StagesInOrder, TokensOfFinished,
              RootsHaveStarted, OneHolder, Holds, Live, Minting, CodesInOrder,
              RedeemedOnce, Redeemed, CodeHolders
<1>2. ASSUME NEW r \in Requests, Receive(r) \/ Step(r) \/ Stop(r)
      PROVE  IInv'
  BY <1>2, ReceiveIInv, VerifyIInv, ConsumeIInv, LookupIInv, PurgeIInv,
     InsertIInv, IssueIInv, RedeemIInv, SetHashIInv, RevokeIInv, StopIInv DEF Step
<1>3. QED
  BY <1>1, <1>2, ExpireTokenIInv, ExpireCodeIInv DEF Next

\* It holds in every reachable state.
LEMMA SpecIInv == Spec => []IInv
BY InitIInv, NextIInv, PTL DEF Spec

\* Every variable of the sessions keeps its type.
THEOREM TypeCorrect == Spec => []TypeOK
<1>1. IInv => TypeOK
  BY DEF IInv
<1>2. QED
  BY <1>1, SpecIInv, PTL

\* However many requests present one refresh token, at once or later, a
\* sign-in never has two live tokens.
THEOREM RotationIsLinear == Spec => []OneLiveTokenPerSignIn
<1>1. IInv => OneLiveTokenPerSignIn
  BY DEF IInv, OneHolder, Holds, OneLiveTokenPerSignIn
<1>2. QED
  BY <1>1, SpecIInv, PTL

\* However redemptions race, and however codes are replaced or expire, one
\* code sets at most one password, that of the user it was issued to.
THEOREM OneRedemptionPerCode == Spec => []CodeRedeemedOnce
<1>1. IInv => CodeRedeemedOnce
  BY DEF IInv, RedeemedOnce, Redeemed, CodeRedeemedOnce
<1>2. QED
  BY <1>1, SpecIInv, PTL

\* One step removes unexpired evidence only with every row of its user.
LEMMA NextKeepsEvidence ==
  ASSUME IInv, [Next]_vars,
         NEW t \in Requests, tokens[t] # None, tokens[t].consumed,
         ~ tokens[t].expired, tokens'[t] = None
  PROVE  \A s \in Requests :
            tokens[s] # None /\ tokens[s].user = tokens[t].user => tokens'[s] = None
<1> USE NoneAssumption DEF IInv, TypeOK, WithoutUser
<1>1. /\ \A q \in Requests : ~ Purge(q) /\ ~ Insert(q)
      /\ \A q \in Requests : ~ ExpireToken(q)
  <2>1. ASSUME NEW q \in Requests, Purge(q) PROVE FALSE
    BY <2>1 DEF Purge, WithoutExpired
  <2>2. ASSUME NEW q \in Requests, Insert(q) PROVE FALSE
    <3>1. [user |-> subject[q], consumed |-> FALSE, expired |-> FALSE] # None
      BY <2>2 DEF Insert, StagesInOrder, Minting, TokenRow
    <3>2. QED
      BY <2>2, <3>1 DEF Insert
  <2>3. ASSUME NEW q \in Requests, ExpireToken(q) PROVE FALSE
    <3> DEFINE late == [tokens[q] EXCEPT !.expired = TRUE]
    <3>1. late # None /\ tokens' = [tokens EXCEPT ![q] = late]
      BY <2>3, FlaggedIsRow DEF ExpireToken
    <3> HIDE DEF late
    <3>2. QED
      BY <3>1
  <2>4. QED
    BY <2>1, <2>2, <2>3
<1>2. tokens' # tokens
  OBVIOUS
<1>3. PICK r \in Requests : Consume(r) \/ Revoke(r)
  BY <1>1, <1>2 DEF Next, Step, vars, Receive, Verify, Lookup, Issue, Redeem,
                    SetHash, Stop, ExpireCode
<1>4. CASE Consume(r)
  BY <1>4 DEF Consume, Live
<1>5. CASE Revoke(r)
  BY <1>5 DEF Revoke
<1>6. QED
  BY <1>3, <1>4, <1>5

\* Evidence of reuse is never purged: consumed rows leave by expiry or with
\* all rows of their user.
THEOREM EvidenceIsKept == Spec => EvidenceStays
<1>1. IInv /\ [Next]_vars =>
        [\A t \in Requests :
            /\ tokens[t] # None /\ tokens[t].consumed /\ ~ tokens[t].expired
            /\ tokens'[t] = None
            => \A s \in Requests :
                  tokens[s] # None /\ tokens[s].user = tokens[t].user
                      => tokens'[s] = None]_vars
  BY NextKeepsEvidence
<1>2. QED
  BY <1>1, SpecIInv, PTL DEF Spec, EvidenceStays
-----------------------------------------------------------------------------
\* One step leaves a redeemed code's user with a password, or the redemption
\* stopped or about to store it.
LEMMA NextKeepsPassword ==
  ASSUME IInv, SpentCodeLeavesPassword, [Next]_vars
  PROVE  SpentCodeLeavesPassword'
<1> USE NoneAssumption DEF IInv, SpentCodeLeavesPassword
<1>1. CASE UNCHANGED <<password, call, subject, pc>>
  BY <1>1
<1>2. ASSUME NEW r \in Requests, Receive(r) PROVE SpentCodeLeavesPassword'
  BY <1>2 DEF Receive, Goto, TypeOK, StagesInOrder
<1>3. ASSUME NEW r \in Requests, Consume(r) PROVE SpentCodeLeavesPassword'
  <2>1. /\ pc[r] = "consume" /\ call[r].op # "redeemActivationCode"
        /\ password' = password /\ call' = call
        /\ \A q \in Requests \ {r} : pc'[q] = pc[q] /\ subject'[q] = subject[q]
    BY <1>3 DEF Consume, StagesInOrder, Goto, TypeOK
  <2>2. QED
    BY <2>1
<1>4. ASSUME NEW r \in Requests, Redeem(r) PROVE SpentCodeLeavesPassword'
  <2>1. /\ pc[r] = "redeem" /\ subject[r] = None
        /\ password' = password /\ call' = call
        /\ \A q \in Requests \ {r} : pc'[q] = pc[q] /\ subject'[q] = subject[q]
        /\ subject'[r] = None \/ pc'[r] = "setHash"
    BY <1>4 DEF Redeem, StagesInOrder, Goto, TypeOK, CodeHolders
  <2>2. QED
    BY <2>1
<1>5. ASSUME NEW r \in Requests, SetHash(r) PROVE SpentCodeLeavesPassword'
  <2>1. /\ call[r].new \in Passwords /\ subject[r] \in Users
        /\ password' = [password EXCEPT ![subject[r]] = call[r].new]
        /\ call' = call /\ subject' = subject
        /\ \A q \in Requests \ {r} : pc'[q] = pc[q]
    BY <1>5 DEF SetHash, StagesInOrder, Goto, TypeOK
  <2>2. password'[subject[r]] # None
    BY <2>1 DEF TypeOK
  <2>3. \A v : password[v] # None => password'[v] # None
    BY <2>1, <2>2 DEF TypeOK
  <2>4. QED
    BY <2>1, <2>2, <2>3
<1>6. ASSUME NEW r \in Requests,
             \/ Verify(r) \/ Lookup(r) \/ Purge(r) \/ Insert(r) \/ Issue(r)
             \/ Revoke(r) \/ Stop(r)
      PROVE  SpentCodeLeavesPassword'
  <2>1. /\ password' = password /\ call' = call /\ subject' = subject
        /\ \A q \in Requests \ {r} : pc'[q] = pc[q]
        /\ pc'[r] = "stopped" \/ (pc[r] # "setHash" /\ pc[r] # "stopped")
    BY <1>6 DEF Verify, Lookup, Purge, Insert, Issue, Revoke, Stop, Goto, TypeOK
  <2>2. QED
    BY <2>1
<1>7. QED
  BY <1>1, <1>2, <1>3, <1>4, <1>5, <1>6 DEF Next, Step, ExpireToken, ExpireCode, vars

\* A code is never spent for nothing: unless the redemption stops, its user
\* has a password afterwards.
THEOREM CodesBuyPasswords == Spec => []SpentCodeLeavesPassword
<1>1. Init => SpentCodeLeavesPassword
  BY DEF Init, SpentCodeLeavesPassword
<1>2. IInv /\ SpentCodeLeavesPassword /\ [Next]_vars => SpentCodeLeavesPassword'
  BY NextKeepsPassword
<1>3. QED
  BY <1>1, <1>2, SpecIInv, PTL DEF Spec

-----------------------------------------------------------------------------
\* What a sign-in has: a row, used or not, or a request about to insert one.
InChain(r) == tokens[r] # None \/ Minting(r)

RowsNameTheSubject == \A t \in Requests : tokens[t] # None => tokens[t].user = subject[t]

OneUser ==
    \A r, s \in Requests :
        InChain(r) /\ InChain(s) /\ signIn[r] = signIn[s] => subject[r] = subject[s]

EndedStarted == \A e \in ended : pc[e] \notin {"idle", "verify"}

EndedHoldNothing == \A r \in Requests : Holds(r) => signIn[r] \notin ended

EndInv == /\ RowsNameTheSubject /\ OneUser /\ EndedStarted /\ EndedHoldNothing

\* Steps that add no row, start no chain and end no sign-in.
LEMMA ChainsShrink ==
  ASSUME IInv, EndInv, ended' = ended, signIn' = signIn,
         \A q \in Requests : /\ InChain(q)' => InChain(q) /\ subject'[q] = subject[q]
                             /\ Holds(q)' => Holds(q)
                             /\ tokens'[q] # None => /\ tokens[q] # None
                                                     /\ tokens'[q].user = tokens[q].user
                             /\ pc[q] \notin {"idle", "verify"} =>
                                   pc'[q] \notin {"idle", "verify"}
  PROVE  EndInv'
<1>1. RowsNameTheSubject'
  BY DEF EndInv, RowsNameTheSubject, InChain
<1>2. OneUser'
  BY DEF EndInv, OneUser
<1>3. EndedStarted'
  BY DEF EndInv, EndedStarted, IInv, TypeOK
<1>4. EndedHoldNothing'
  BY DEF EndInv, EndedHoldNothing
<1>5. QED
  BY <1>1, <1>2, <1>3, <1>4 DEF EndInv

\* A deletion of all rows of a user ends exactly the sign-ins nobody extends.
LEMMA DeletingEnds ==
  ASSUME IInv, EndInv, NEW u \in Users, NEW r \in Requests,
         pc[r] \notin {"idle", "verify"}, ~ Minting(r),
         tokens' = WithoutUser(u), ended' = ended \cup EndedWith(u),
         UNCHANGED <<subject, signIn>>, Goto(r, "refused") \/ Goto(r, "done")
  PROVE  EndInv'
<1> USE DEF EndInv, IInv, TypeOK
<1>1. /\ pc'[r] \in {"refused", "done"} /\ \A q \in Requests \ {r} : pc'[q] = pc[q]
      /\ \A q \in Requests : tokens'[q] # None =>
                                /\ tokens'[q] = tokens[q] /\ tokens[q].user # u
      /\ \A q \in Requests : Minting(q)' => Minting(q)
  BY DEF Goto, WithoutUser, Minting
<1>2. RowsNameTheSubject'
  BY <1>1 DEF RowsNameTheSubject
<1>3. OneUser'
  BY <1>1 DEF OneUser, InChain
<1>4. EndedStarted'
  <2>1. ASSUME NEW e \in EndedWith(u) PROVE e \in Requests /\ pc[e] \notin {"idle", "verify"}
    BY DEF EndedWith, TokensOfFinished, RootsHaveStarted
  <2>2. QED
    BY <1>1, <2>1 DEF EndedStarted
<1>5. EndedHoldNothing'
  <2>1. ASSUME NEW q \in Requests, Holds(q)', signIn[q] \in EndedWith(u) PROVE FALSE
    <3>1. PICK t \in Requests : tokens[t] # None /\ tokens[t].user = u /\ signIn[t] = signIn[q]
      BY <2>1 DEF EndedWith
    <3>2. InChain(q) /\ subject[q] = u
      BY <1>1, <2>1, <3>1 DEF OneUser, InChain, Holds, Live, RowsNameTheSubject
    <3>3. Minting(q)
      BY <1>1, <2>1, <3>2 DEF Holds, Live, RowsNameTheSubject
    <3>4. QED
      BY <2>1, <3>2, <3>3 DEF EndedWith
  <2>2. \A q \in Requests : Holds(q)' => Holds(q)
    BY <1>1 DEF Holds, Live
  <2>3. QED
    BY <2>1, <2>2 DEF EndedHoldNothing
<1>6. QED
  BY <1>2, <1>3, <1>4, <1>5

\* A login that verifies starts a chain of its own.
LEMMA VerifyEndInv == ASSUME IInv, EndInv, NEW r \in Requests, Verify(r) PROVE EndInv'
<1> USE DEF EndInv, IInv, TypeOK, Verify, Goto
<1>1. /\ pc[r] = "verify" /\ tokens[r] = None /\ signIn[r] = r /\ r \notin ended
      /\ \A q \in Requests \ {r} : /\ pc'[q] = pc[q]
                                   /\ InChain(q) => signIn[q] # r
  BY DEF TokensOfFinished, RootsHaveStarted, EndedStarted, InChain, Minting
<1>2. RowsNameTheSubject' /\ EndedStarted'
  BY <1>1 DEF RowsNameTheSubject, EndedStarted
<1>3. \A q \in Requests \ {r} : (InChain(q)' <=> InChain(q)) /\ (Holds(q)' <=> Holds(q))
  BY <1>1 DEF InChain, Holds, Live, Minting
<1>4. OneUser' /\ EndedHoldNothing'
  BY <1>1, <1>3 DEF OneUser, EndedHoldNothing
<1>5. QED
  BY <1>2, <1>4

\* A rotation carries its token's sign-in and user on.
LEMMA ConsumeEndInv == ASSUME IInv, EndInv, NEW r \in Requests, Consume(r) PROVE EndInv'
<1> USE NoneAssumption DEF IInv, TypeOK
<1>1. PICK t \in Requests : t = call[r].token
  BY DEF Consume, StagesInOrder, Calls, LoginCall, TokenCall, IssueCall,
         RedeemCall, ChangeCall, AdminCall
<1>2. /\ pc[r] = "consume" /\ tokens[r] = None /\ ~ Minting(r) /\ ~ InChain(r)
      /\ ~ Holds(r)
  BY DEF Consume, TokensOfFinished, Minting, InChain, Holds, Live
<1>3. CASE tokens[t] # None /\ tokens[t].consumed
  BY <1>1, <1>2, <1>3, DeletingEnds DEF Consume, TokenRow, Live
<1>4. CASE tokens[t] = None \/ (Live(t) /\ tokens[t].expired)
  <2>1. /\ ended' = ended /\ signIn' = signIn /\ subject' = subject
        /\ Goto(r, "refused")
        /\ \A q \in Requests : tokens'[q] \in {tokens[q], None}
    BY <1>1, <1>4 DEF Consume, Live
  <2>2. QED
    BY <1>2, <2>1, ChainsShrink DEF InChain, Holds, Live, Minting, Goto
<1>5. CASE Live(t) /\ ~ tokens[t].expired
  <2>1. /\ ended' = ended /\ pc'[r] \in {"done", "lookup"}
        /\ tokens' = [tokens EXCEPT ![t].consumed = TRUE]
        /\ subject'[r] = tokens[t].user
        /\ pc'[r] = "lookup" => signIn'[r] = signIn[t]
        /\ \A q \in Requests \ {r} : /\ pc'[q] = pc[q] /\ signIn'[q] = signIn[q]
                                     /\ subject'[q] = subject[q]
    BY <1>1, <1>5 DEF Consume, Live, Goto
  <2>2. /\ tokens[t] # None /\ tokens'[t].user = tokens[t].user /\ t # r
        /\ tokens[t].user = subject[t] /\ signIn[t] \notin ended
        /\ InChain(t)
        /\ \A q \in Requests \ {t} : tokens'[q] = tokens[q]
    <3>1. tokens[t] \in TokenRow /\ tokens[t] # None /\ t # r
      BY <1>2, <1>5 DEF Live
    <3>2. tokens'[t].user = tokens[t].user
      BY <2>1, <3>1 DEF TokenRow
    <3>3. QED
      BY <1>5, <2>1, <3>1, <3>2 DEF EndInv, RowsNameTheSubject, InChain, Holds,
                                    EndedHoldNothing
  <2>3. \A q \in Requests \ {r} : (InChain(q)' => InChain(q)) /\ (Holds(q)' => Holds(q))
    BY <1>5, <2>1, <2>2 DEF InChain, Holds, Live, Minting
  <2>4. InChain(r)' => signIn'[r] = signIn[t] /\ subject'[r] = subject[t]
    BY <1>2, <2>1, <2>2 DEF InChain, Minting
  <2>5. RowsNameTheSubject'
    BY <1>2, <2>1, <2>2 DEF EndInv, RowsNameTheSubject
  <2>6. OneUser'
    BY <2>1, <2>2, <2>3, <2>4 DEF EndInv, OneUser
  <2>7. EndedStarted'
    BY <1>2, <2>1 DEF EndInv, EndedStarted
  <2>8. EndedHoldNothing'
    <3>1. Holds(r)' => InChain(r)'
      BY DEF Holds, InChain, Live
    <3>2. QED
      BY <2>1, <2>2, <2>3, <2>4, <3>1 DEF EndInv, EndedHoldNothing
  <2>9. QED
    BY <2>5, <2>6, <2>7, <2>8 DEF EndInv
<1>6. QED
  BY <1>3, <1>4, <1>5 DEF Live

\* The row a request inserts continues the chain the request was minting for.
LEMMA InsertEndInv == ASSUME IInv, EndInv, NEW r \in Requests, Insert(r) PROVE EndInv'
<1> USE DEF EndInv, IInv, TypeOK, Insert, Goto
<1>1. /\ Minting(r) /\ InChain(r) /\ Holds(r)
      /\ tokens'[r].user = subject[r]
      /\ \A q \in Requests \ {r} : tokens'[q] = tokens[q] /\ pc'[q] = pc[q]
      /\ pc'[r] = "done"
  BY DEF Minting, InChain, Holds
<1>2. \A q \in Requests : (InChain(q)' => InChain(q)) /\ (Holds(q)' => Holds(q))
  BY <1>1 DEF InChain, Holds, Live, Minting
<1>3. RowsNameTheSubject' /\ EndedStarted'
  BY <1>1 DEF RowsNameTheSubject, EndedStarted
<1>4. OneUser' /\ EndedHoldNothing'
  BY <1>2 DEF OneUser, EndedHoldNothing
<1>5. QED
  BY <1>3, <1>4

\* One step keeps what is said of ended sign-ins.
LEMMA NextEndInv == ASSUME IInv, EndInv, [Next]_vars PROVE EndInv'
<1> USE NoneAssumption
<1>1. CASE UNCHANGED vars
  BY <1>1, ChainsShrink DEF vars, InChain, Holds, Live, Minting
<1>2. ASSUME NEW r \in Requests, Receive(r) PROVE EndInv'
  <2>1. /\ pc[r] = "idle" /\ tokens[r] = None /\ tokens' = tokens
        /\ ended' = ended /\ signIn' = signIn
        /\ \A q \in Requests \ {r} : pc'[q] = pc[q] /\ subject'[q] = subject[q]
        /\ pc'[r] \notin {"lookup", "purge", "insert"}
    BY <1>2 DEF Receive, Goto, FirstStage, IInv, TypeOK, TokensOfFinished, Calls,
                LoginCall, TokenCall, IssueCall, RedeemCall, ChangeCall, AdminCall
  <2>2. \A q \in Requests : /\ InChain(q)' => InChain(q) /\ subject'[q] = subject[q]
                            /\ Holds(q)' => Holds(q)
    BY <2>1 DEF InChain, Holds, Live, Minting
  <2>3. QED
    BY <2>1, <2>2, ChainsShrink
<1>3. ASSUME NEW r \in Requests,
             Lookup(r) \/ Issue(r) \/ Redeem(r) \/ SetHash(r) \/ Stop(r)
      PROVE  EndInv'
  <2>1. /\ tokens' = tokens /\ ended' = ended /\ signIn' = signIn
        /\ \A q \in Requests \ {r} : pc'[q] = pc[q] /\ subject'[q] = subject[q]
        /\ Minting(r)' => Minting(r)
        /\ InChain(r) => subject'[r] = subject[r]
        /\ pc[r] \notin {"idle", "verify"} => pc'[r] \notin {"idle", "verify"}
    BY <1>3 DEF Lookup, Issue, Redeem, SetHash, Stop, Goto, Minting, InChain,
                IInv, TypeOK, TokensOfFinished, CodeHolders
  <2>2. \A q \in Requests : /\ InChain(q)' => InChain(q) /\ subject'[q] = subject[q]
                            /\ Holds(q)' => Holds(q)
    BY <2>1 DEF InChain, Holds, Live, Minting
  <2>3. QED
    BY <2>1, <2>2, ChainsShrink
<1>4. ASSUME NEW r \in Requests, Purge(r) PROVE EndInv'
  <2>1. /\ ended' = ended /\ signIn' = signIn /\ subject' = subject
        /\ \A q \in Requests : /\ tokens'[q] # None => tokens'[q] = tokens[q]
                               /\ Minting(q)' => Minting(q)
                               /\ pc[q] \notin {"idle", "verify"} =>
                                     pc'[q] \notin {"idle", "verify"}
    BY <1>4 DEF Purge, Goto, WithoutExpired, Minting, IInv, TypeOK
  <2>2. \A q \in Requests : (InChain(q)' => InChain(q)) /\ (Holds(q)' => Holds(q))
    BY <2>1 DEF InChain, Holds, Live, Minting
  <2>3. \A q \in Requests : tokens'[q] # None =>
                               tokens[q] # None /\ tokens'[q].user = tokens[q].user
    BY <2>1
  <2>4. QED
    BY <2>1, <2>2, <2>3, ChainsShrink DEF Minting
<1>5. ASSUME NEW r \in Requests, Revoke(r) PROVE EndInv'
  BY <1>5, DeletingEnds DEF Revoke, IInv, StagesInOrder, Minting
<1>6. ASSUME NEW t \in Requests, ExpireToken(t) PROVE EndInv'
  <2>1. /\ tokens[t] \in TokenRow /\ tokens[t] # None
        /\ tokens' = [tokens EXCEPT ![t].expired = TRUE]
        /\ UNCHANGED <<pc, subject, signIn, ended>>
    BY <1>6 DEF ExpireToken, IInv, TypeOK
  <2>2. /\ tokens'[t].user = tokens[t].user /\ tokens'[t].consumed = tokens[t].consumed
        /\ \A q \in Requests \ {t} : tokens'[q] = tokens[q]
    BY <2>1 DEF IInv, TypeOK, TokenRow
  <2>3. QED
    BY <2>1, <2>2, ChainsShrink DEF InChain, Holds, Live, Minting
<1>7. ASSUME NEW u \in Users, ExpireCode(u) PROVE EndInv'
  BY <1>7, ChainsShrink DEF ExpireCode, InChain, Holds, Live, Minting
<1>8. QED
  BY <1>1, <1>2, <1>3, <1>4, <1>5, <1>6, <1>7, VerifyEndInv, ConsumeEndInv,
     InsertEndInv DEF Next, Step

\* A revoked sign-in stays dead, unless a request of its own was already past
\* its check when its rows were deleted.
THEOREM RevokedStaysRevoked == Spec => []EndedStaysEnded
<1>1. Init => EndInv
  BY DEF Init, EndInv, RowsNameTheSubject, OneUser, EndedStarted, EndedHoldNothing,
         InChain, Holds, Live, Minting
<1>2. IInv /\ EndInv /\ [Next]_vars => EndInv'
  BY NextEndInv
<1>3. EndInv => EndedStaysEnded
  BY DEF EndInv, EndedHoldNothing, Holds, EndedStaysEnded
<1>4. QED
  BY <1>1, <1>2, <1>3, SpecIInv, PTL DEF Spec
=============================================================================
