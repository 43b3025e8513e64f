--------------------------- MODULE SessionsProofs ---------------------------
(***************************************************************************)
(* Proofs about Sessions behind Browser, for every set of requests and     *)
(* tabs: a refresh token is exchanged once, revocations end sessions, and  *)
(* the cookie of the browser stays usable.                                 *)
(***************************************************************************)
EXTENDS Browser, TLAPS

---------------------------------------------------------------------------
(* The inductive invariant *)

SignOps == {"login", "refresh", "switch"}
Signing == {"member", "status", "rotate", "issue"}

\* Where a request can be, by its operation; only one that signs in issues a pair,
\* as its last step.  No version is ahead of the user's.
RequestLinked(r) ==
    LET q == sessionRequest[r]
    IN /\ q.at = "new" => q.op = "none"
       /\ q.at \in {"member", "status", "issue"} => q.op \in SignOps
       /\ q.at = "rotate" => q.op = "refresh"
       /\ q.at \in {"bump", "revoke"} => q.op = "switch"
       /\ q.at \in {"members", "revokeMembers"} => q.op = "suspend"
       /\ q.at \in {"deactivate", "activate"} => q.op = "toggle"
       /\ q.op \in SignOps /\ q.at = "done" => pair[r].issued
       /\ pair[r].issued => q.op \in SignOps /\ q.at \in {"done", "answered"}
       /\ q.version <= tokenVersion /\ pair[r].version <= tokenVersion
       /\ \A s \in before[r] : Ended(s)

\* A refresh that was accepted has a pair to exchange, which is revoked before the
\* new one is issued.
Exchanges(r) ==
    sessionRequest[r].op = "refresh" /\ (sessionRequest[r].at \in Signing \/ pair[r].issued)
TokenTaken(r) ==
    Exchanges(r) =>
        LET p == sessionRequest[r].token
        IN /\ p \in SessionRequests /\ pair[p].issued
           /\ sessionRequest[r].at = "issue" \/ pair[r].issued => pair[p].revokedBy # NoPair

\* A refresh that was accepted came before any other of its token was over.
ExchangedFirst(r) ==
    Exchanges(r) =>
        \A s \in before[r] :
            sessionRequest[s].op = "refresh" /\ sessionRequest[s].token = sessionRequest[r].token =>
                ~pair[s].issued

\* What a revocation has done so far to the pairs it found.
Outdates(v) ==
    \/ sessionRequest[v].op = "switch" /\ sessionRequest[v].at \in {"revoke", "issue", "done"}
    \/ /\ sessionRequest[v].op = "suspend" /\ sessionRequest[v].at = "done"
       /\ sessionRequest[v].org \in memberOf
RevocationDone(v) ==
    Outdates(v) =>
        \A p \in before[v] : pair[p].issued =>
            /\ pair[p].version < tokenVersion
            /\ sessionRequest[v].at # "revoke" => pair[p].revokedBy # NoPair

RequestInv(r) == RequestLinked(r) /\ TokenTaken(r) /\ ExchangedFirst(r) /\ RevocationDone(r)

SessionsInv == SessionsTypeOK /\ \A r \in SessionRequests : RequestInv(r)

\* The cookie is a pair that has arrived.
Arrived(p) == p # NoPair => p \in SessionRequests /\ pair[p].issued /\ SessionAt(p, "answered")

\* A tab waits for requests that sign in.
WaitsSign == \A t \in Tabs : \A r \in Waits(t) : sessionRequest[r].op \in SignOps

\* A request that revokes has been sent; a refresh revokes what it was given, and
\* what it was given had arrived.
RevokerKnown(p) ==
    pair[p].revokedBy # NoPair =>
        /\ ~SessionAt(pair[p].revokedBy, "new")
        /\ sessionRequest[pair[p].revokedBy].op = "refresh" =>
             sessionRequest[pair[p].revokedBy].token = p

\* Once the answer of a refresh has arrived, the cookie is not what it was given.
Replaced(r) ==
    sessionRequest[r].op = "refresh" =>
        /\ Arrived(sessionRequest[r].token)
        /\ SessionAt(r, "answered") /\ pair[r].issued /\ r \notin dropped =>
             jar # sessionRequest[r].token

CookieInv ==
    /\ BrowserTypeOK
    /\ Arrived(jar)
    /\ WaitsSign
    /\ \A r \in SessionRequests : RevokerKnown(r) /\ Replaced(r)

---------------------------------------------------------------------------
(* One request at a time *)

Steps ==
    {"new", "sent", "member", "status", "rotate", "bump", "revoke", "issue", "members",
     "revokeMembers", "deactivate", "activate", "done", "refused", "failed", "answered"}
Ops ==
    {"none", "login", "refresh", "switch", "logout", "suspend", "reactivate", "leave", "toggle"}
Tokens == SessionRequests \cup {NoPair}
Progress == [at : Steps, op : Ops, token : Tokens, org : Orgs, version : Nat]
Pairs == [issued : BOOLEAN, org : Orgs, version : Nat, revokedBy : Tokens]

\* The types, by the names used here.
LEMMA TypeParts ==
    SessionsTypeOK <=>
        /\ userActive \in BOOLEAN /\ tokenVersion \in Nat /\ memberOf \subseteq Orgs
        /\ orgStatus \in [Orgs -> {"ACTIVE", "SUSPENDED"}]
        /\ pair \in [SessionRequests -> Pairs]
        /\ sessionRequest \in [SessionRequests -> Progress]
        /\ before \in [SessionRequests -> SUBSET SessionRequests]
BY DEF SessionsTypeOK, Pairs, Progress, Steps, Ops, Tokens

\* What a step of r may do to the others, and to what it did before.
OnlyIts(r) ==
    /\ sessionRequest[r].at # "answered" /\ sessionRequest'[r].at # "new"
    /\ Ended(r) => sessionRequest'[r].at = "answered"
    /\ sessionRequest[r].at # "new" =>
         /\ sessionRequest'[r].op = sessionRequest[r].op
         /\ sessionRequest'[r].token = sessionRequest[r].token
    /\ \A q \in SessionRequests : q # r =>
         sessionRequest'[q] = sessionRequest[q] /\ before'[q] = before[q]
PairsKept(r) ==
    \A p \in SessionRequests :
        /\ pair[p].issued =>
             /\ pair'[p].issued /\ pair'[p].version = pair[p].version
             /\ pair[p].revokedBy # NoPair => pair'[p].revokedBy = pair[p].revokedBy
        /\ p # r \/ Ended(r) =>
             pair'[p].issued = pair[p].issued /\ pair'[p].version = pair[p].version
        /\ \/ pair'[p].revokedBy \in {NoPair, pair[p].revokedBy}
           \/ /\ pair'[p].revokedBy = r
              /\ sessionRequest'[r].op = "refresh" => sessionRequest'[r].token = p
StepOf(r) ==
    /\ OnlyIts(r) /\ PairsKept(r)
    /\ tokenVersion <= tokenVersion' /\ memberOf' \subseteq memberOf

\* A request that goes to a step keeps its other fields.
LEMMA GotoFields ==
    ASSUME SessionsTypeOK, NEW r \in SessionRequests, NEW step \in Steps, SessionGoto(r, step)
    PROVE  /\ sessionRequest' \in [SessionRequests -> Progress]
           /\ sessionRequest'[r] = [sessionRequest[r] EXCEPT !.at = step]
           /\ sessionRequest'[r].at = step /\ sessionRequest'[r].op = sessionRequest[r].op
           /\ sessionRequest'[r].token = sessionRequest[r].token
           /\ sessionRequest'[r].org = sessionRequest[r].org
           /\ sessionRequest'[r].version = sessionRequest[r].version
           /\ \A q \in SessionRequests : q # r => sessionRequest'[q] = sessionRequest[q]
<1>1. sessionRequest \in [SessionRequests -> Progress]  BY TypeParts
<1>2. sessionRequest' = [sessionRequest EXCEPT ![r].at = step]  BY DEF SessionGoto
<1>3. sessionRequest[r] \in Progress  BY <1>1
<1>4. [sessionRequest[r] EXCEPT !.at = step] \in Progress  BY <1>3 DEF Progress
<1> QED  BY <1>1, <1>2, <1>3, <1>4 DEF Progress

\* A revocation marks the pairs that were live, and nothing else of a pair.
LEMMA RevokeFields ==
    ASSUME SessionsTypeOK, NEW r \in SessionRequests, NEW revoked, Revoke(revoked, r)
    PROVE  /\ pair' \in [SessionRequests -> Pairs]
           /\ \A p \in SessionRequests :
                /\ pair'[p].issued = pair[p].issued /\ pair'[p].version = pair[p].version
                /\ pair[p].revokedBy # NoPair => pair'[p].revokedBy = pair[p].revokedBy
                /\ pair'[p].revokedBy \in {pair[p].revokedBy, r}
                /\ p \notin revoked => pair'[p] = pair[p]
                /\ p \in revoked /\ pair[p].issued => pair'[p].revokedBy # NoPair
<1>1. pair \in [SessionRequests -> Pairs]  BY TypeParts
<1>2. \A p \in SessionRequests :
        pair'[p] = IF p \in revoked /\ Live(p) THEN [pair[p] EXCEPT !.revokedBy = r] ELSE pair[p]
  BY DEF Revoke
<1>3. r # NoPair /\ NoPair \notin SessionRequests  BY SessionsAssumption
<1>4. ASSUME NEW p \in SessionRequests
      PROVE  [pair[p] EXCEPT !.revokedBy = r] \in Pairs
  BY <1>1 DEF Pairs, Tokens
<1>5. ASSUME NEW p \in SessionRequests
      PROVE  /\ pair'[p] \in Pairs
             /\ pair'[p].issued = pair[p].issued /\ pair'[p].version = pair[p].version
             /\ pair[p].revokedBy # NoPair => pair'[p].revokedBy = pair[p].revokedBy
             /\ pair'[p].revokedBy \in {pair[p].revokedBy, r}
             /\ p \notin revoked => pair'[p] = pair[p]
             /\ p \in revoked /\ pair[p].issued => pair'[p].revokedBy # NoPair
  <2>1. pair[p] \in Pairs  BY <1>1
  <2>2. CASE p \in revoked /\ Live(p)
    BY <1>2, <1>3, <1>4, <2>1, <2>2 DEF Pairs, Live
  <2>3. CASE ~(p \in revoked /\ Live(p))
    BY <1>2, <1>3, <2>1, <2>3 DEF Pairs, Live
  <2> QED  BY <2>2, <2>3
<1>6. pair' \in [SessionRequests -> Pairs]
  <2>1. pair' = [p \in SessionRequests |->
          IF p \in revoked /\ Live(p) THEN [pair[p] EXCEPT !.revokedBy = r] ELSE pair[p]]
    BY DEF Revoke
  <2> QED  BY <1>2, <1>5, <2>1
<1> QED  BY <1>5, <1>6

\* A request that begins has only requests that had ended before it.
LEMMA BeginFields ==
    ASSUME SessionsTypeOK, NEW r \in SessionRequests, NEW op, BeginSession(r, op)
    PROVE  /\ before' \in [SessionRequests -> SUBSET SessionRequests]
           /\ \A s \in before'[r] : s \in SessionRequests /\ Ended(s)
           /\ \A q \in SessionRequests : q # r => before'[q] = before[q]
           /\ sessionRequest[r].at = "sent" /\ sessionRequest[r].op = op
<1>1. before \in [SessionRequests -> SUBSET SessionRequests]  BY TypeParts
<1>2. before' = [before EXCEPT ![r] = {q \in SessionRequests : Ended(q)}]  BY DEF BeginSession
<1> DEFINE ended == {q \in SessionRequests : Ended(q)}
<1>3. ended \subseteq SessionRequests /\ \A s \in ended : Ended(s)  OBVIOUS
<1>4. before' = [before EXCEPT ![r] = ended]  BY <1>2
<1> HIDE DEF ended
<1> QED  BY <1>1, <1>3, <1>4 DEF BeginSession, SessionAt

---------------------------------------------------------------------------
(* A step of one request leaves the invariant of the others *)

\* A step of one request leaves the invariant of another.
LEMMA OthersKept ==
    ASSUME SessionsInv, SessionsTypeOK', NEW r \in SessionRequests, StepOf(r),
           NEW q \in SessionRequests, q # r
    PROVE  RequestInv(q)'
<1> DEFINE me == sessionRequest[q]
<1>1. /\ sessionRequest'[q] = me /\ before'[q] = before[q]
      /\ pair'[q].issued = pair[q].issued /\ pair'[q].version = pair[q].version
  BY DEF StepOf, OnlyIts, PairsKept
<1>2. RequestLinked(q) /\ TokenTaken(q) /\ ExchangedFirst(q) /\ RevocationDone(q)
  BY DEF SessionsInv, RequestInv
<1>3. /\ before[q] \subseteq SessionRequests /\ me \in Progress
      /\ me.version \in Nat /\ pair[q].version \in Nat
      /\ tokenVersion \in Nat /\ tokenVersion' \in Nat
  <2>1. tokenVersion' \in Nat  BY DEF SessionsTypeOK
  <2> QED  BY <2>1, TypeParts DEF SessionsInv, Progress, Pairs
<1>4. \A s \in before[q] :
        /\ s \in SessionRequests /\ Ended(s) /\ Ended(s)'
        /\ sessionRequest'[s].op = sessionRequest[s].op
        /\ sessionRequest'[s].token = sessionRequest[s].token
        /\ pair'[s].issued = pair[s].issued /\ pair'[s].version = pair[s].version
  <2> SUFFICES ASSUME NEW s \in before[q]
               PROVE  /\ s \in SessionRequests /\ Ended(s) /\ Ended(s)'
                      /\ sessionRequest'[s].op = sessionRequest[s].op
                      /\ sessionRequest'[s].token = sessionRequest[s].token
                      /\ pair'[s].issued = pair[s].issued /\ pair'[s].version = pair[s].version
    OBVIOUS
  <2>1. s \in SessionRequests /\ Ended(s)  BY <1>2, <1>3 DEF RequestLinked
  <2>2. CASE s = r  BY <2>1, <2>2 DEF StepOf, OnlyIts, PairsKept, Ended
  <2>3. CASE s # r  BY <2>1, <2>3 DEF StepOf, OnlyIts, PairsKept, Ended
  <2> QED  BY <2>1, <2>2, <2>3
<1>5. RequestLinked(q)'
  <2>1. me.version <= tokenVersion' /\ pair[q].version <= tokenVersion'
    BY <1>2, <1>3 DEF RequestLinked, StepOf
  <2> QED  BY <1>1, <1>2, <1>4, <2>1 DEF RequestLinked
<1>6. Exchanges(q)' <=> Exchanges(q)  BY <1>1 DEF Exchanges
<1>7. TokenTaken(q)'  BY <1>1, <1>2, <1>6 DEF TokenTaken, StepOf, PairsKept
<1>8. ExchangedFirst(q)'  BY <1>1, <1>2, <1>4, <1>6 DEF ExchangedFirst
<1>9. RevocationDone(q)'
  <2> SUFFICES ASSUME Outdates(q)', NEW p \in before[q], pair'[p].issued
               PROVE  /\ pair'[p].version < tokenVersion'
                      /\ me.at # "revoke" => pair'[p].revokedBy # NoPair
    BY <1>1 DEF RevocationDone
  <2>1. Outdates(q)  BY <1>1 DEF Outdates, StepOf
  <2>2. pair[p].version < tokenVersion /\ (me.at # "revoke" => pair[p].revokedBy # NoPair)
    BY <1>2, <1>4, <2>1 DEF RevocationDone
  <2>3. pair[p].version \in Nat  BY <1>4, TypeParts DEF SessionsInv, Pairs
  <2> QED  BY <1>3, <1>4, <2>2, <2>3 DEF StepOf, PairsKept
<1> QED  BY <1>5, <1>7, <1>8, <1>9 DEF RequestInv

\* So a step keeps the invariant when it does for its own request.
LEMMA StepKeeps ==
    ASSUME SessionsInv, SessionsTypeOK', NEW r \in SessionRequests, StepOf(r), RequestInv(r)'
    PROVE  SessionsInv'
<1> SUFFICES ASSUME NEW q \in SessionRequests PROVE RequestInv(q)'
  BY DEF SessionsInv
<1> QED  BY OthersKept

---------------------------------------------------------------------------
(* What each step does to its own request *)

\* The types after a step.
LEMMA TypeNext ==
    ASSUME userActive' \in BOOLEAN, tokenVersion' \in Nat, memberOf' \subseteq Orgs,
           orgStatus' \in [Orgs -> {"ACTIVE", "SUSPENDED"}],
           pair' \in [SessionRequests -> Pairs],
           sessionRequest' \in [SessionRequests -> Progress],
           before' \in [SessionRequests -> SUBSET SessionRequests]
    PROVE  SessionsTypeOK'
BY DEF SessionsTypeOK, Pairs, Progress, Steps, Ops, Tokens

\* A request issues its pair as its last step.
LEMMA Unissued ==
    ASSUME SessionsInv, NEW r \in SessionRequests,
           sessionRequest[r].at \notin {"done", "answered"}
    PROVE  ~pair[r].issued
BY DEF SessionsInv, RequestInv, RequestLinked

\* A step that ends no request, or that leaves the requests that had ended.
LEMMA StillEnded ==
    ASSUME NEW r \in SessionRequests, OnlyIts(r), NEW s \in SessionRequests, Ended(s)
    PROVE  Ended(s)'
<1>1. CASE s = r  BY <1>1 DEF OnlyIts, Ended
<1>2. CASE s # r  BY <1>2 DEF OnlyIts, Ended
<1> QED  BY <1>1, <1>2

\* A request that is sent has done nothing.
LEMMA SendKeeps ==
    ASSUME SessionsInv, NEW r \in SessionRequests, NEW op \in Ops, NEW token \in Tokens,
           NEW org \in Orgs, Send(r, op, token, org)
    PROVE  /\ SessionsInv' /\ StepOf(r)
           /\ SessionAt(r, "new") /\ SessionAt(r, "sent")'
           /\ sessionRequest'[r].op = op /\ sessionRequest'[r].token = token
           /\ pair' = pair
<1> DEFINE sent == [at |-> "sent", op |-> op, token |-> token, org |-> org, version |-> 0]
<1>1. /\ SessionsTypeOK /\ sessionRequest \in [SessionRequests -> Progress]
      /\ pair \in [SessionRequests -> Pairs] /\ tokenVersion \in Nat
      /\ before \in [SessionRequests -> SUBSET SessionRequests]
  BY TypeParts DEF SessionsInv
<1>2. /\ SessionAt(r, "new") /\ sessionRequest' = [sessionRequest EXCEPT ![r] = sent]
      /\ UNCHANGED <<userVars, tokenVersion, pair, before>>
  BY DEF Send
<1>3. sent \in Progress  BY DEF Progress, Steps
<1>4. sent.at = "sent" /\ sent.op = op /\ sent.token = token /\ sent.version = 0  OBVIOUS
<1> HIDE DEF sent
<1>5. /\ sessionRequest' \in [SessionRequests -> Progress]
      /\ sessionRequest'[r] = sent
      /\ \A q \in SessionRequests : q # r => sessionRequest'[q] = sessionRequest[q]
  BY <1>1, <1>2, <1>3
<1>6. SessionsTypeOK'  BY <1>1, <1>2, <1>5, TypeParts, TypeNext DEF userVars
<1>7. OnlyIts(r)  BY <1>2, <1>4, <1>5 DEF OnlyIts, SessionAt, Ended
<1>8. StepOf(r)  BY <1>1, <1>2, <1>7 DEF StepOf, PairsKept, userVars
<1>9. ~pair[r].issued /\ pair[r].version <= tokenVersion /\ \A s \in before[r] : Ended(s)
  BY <1>2, Unissued DEF SessionsInv, RequestInv, RequestLinked, SessionAt
<1>10. \A s \in before[r] : Ended(s)'  BY <1>1, <1>7, <1>9, StillEnded
<1>11. RequestInv(r)'
  BY <1>1, <1>2, <1>4, <1>5, <1>9, <1>10
  DEF RequestInv, RequestLinked, TokenTaken, ExchangedFirst, RevocationDone, Outdates, Exchanges,
      Signing
<1>12. SessionsInv'  BY <1>6, <1>8, <1>11, StepKeeps
<1> QED  BY <1>2, <1>4, <1>5, <1>8, <1>12 DEF SessionAt

\* The step of a request that changes no pair and no version.
Plain(r, step) ==
    /\ SessionGoto(r, step)
    /\ userActive' \in BOOLEAN /\ memberOf' \subseteq memberOf
    /\ orgStatus' \in [Orgs -> {"ACTIVE", "SUSPENDED"}]
    /\ UNCHANGED <<tokenVersion, pair>>
    /\ before' \in [SessionRequests -> SUBSET SessionRequests]
    /\ \A s \in before'[r] : Ended(s)
    /\ \A q \in SessionRequests : q # r => before'[q] = before[q]

\* What such a step leaves of its request.
LEMMA PlainStep ==
    ASSUME SessionsInv, NEW r \in SessionRequests, NEW step \in Steps, Plain(r, step),
           sessionRequest[r].at \notin {"new", "answered"}, step # "new",
           Ended(r) => step = "answered"
    PROVE  /\ SessionsTypeOK' /\ StepOf(r)
           /\ sessionRequest'[r].at = step /\ sessionRequest'[r].op = sessionRequest[r].op
           /\ sessionRequest'[r].token = sessionRequest[r].token
           /\ sessionRequest'[r].org = sessionRequest[r].org
           /\ sessionRequest'[r].version = sessionRequest[r].version
           /\ sessionRequest'[r].version <= tokenVersion' /\ pair'[r].version <= tokenVersion'
           /\ \A s \in before'[r] : Ended(s)' /\ s \in SessionRequests
<1>1. SessionsTypeOK  BY DEF SessionsInv
<1>2. /\ sessionRequest' \in [SessionRequests -> Progress]
      /\ sessionRequest'[r].at = step /\ sessionRequest'[r].op = sessionRequest[r].op
      /\ sessionRequest'[r].token = sessionRequest[r].token
      /\ sessionRequest'[r].org = sessionRequest[r].org
      /\ sessionRequest'[r].version = sessionRequest[r].version
      /\ \A q \in SessionRequests : q # r => sessionRequest'[q] = sessionRequest[q]
  BY <1>1, GotoFields DEF Plain
<1>3. SessionsTypeOK'  BY <1>1, <1>2, TypeParts, TypeNext DEF Plain
<1>4. OnlyIts(r)  BY <1>2 DEF OnlyIts, Plain
<1>5. StepOf(r)  BY <1>1, <1>4, TypeParts DEF StepOf, PairsKept, Plain
<1>6. \A s \in before'[r] : Ended(s)' /\ s \in SessionRequests
  BY <1>4, StillEnded DEF Plain
<1>7. sessionRequest'[r].version <= tokenVersion' /\ pair'[r].version <= tokenVersion'
  BY <1>2 DEF SessionsInv, RequestInv, RequestLinked, Plain
<1> QED  BY <1>2, <1>3, <1>5, <1>6, <1>7

\* The steps that leave their own request where it neither signs in nor has issued a
\* pair nor has revoked one.
LEMMA QuietStep ==
    ASSUME SessionsInv, NEW r \in SessionRequests, NEW step \in Steps, Plain(r, step),
           sessionRequest[r].at \notin {"new", "done", "answered"}, step # "new",
           Ended(r) => step = "answered",
           step \notin Signing \cup {"bump", "revoke"},
           step \in {"members", "revokeMembers"} => sessionRequest[r].op = "suspend",
           step \in {"deactivate", "activate"} => sessionRequest[r].op = "toggle",
           step = "done" => sessionRequest[r].op \notin SignOps,
           sessionRequest[r].op = "suspend" /\ step = "done" =>
               sessionRequest[r].org \notin memberOf
    PROVE  SessionsInv' /\ StepOf(r)
<1>1. /\ SessionsTypeOK' /\ StepOf(r)
      /\ sessionRequest'[r].at = step /\ sessionRequest'[r].op = sessionRequest[r].op
      /\ sessionRequest'[r].token = sessionRequest[r].token
      /\ sessionRequest'[r].org = sessionRequest[r].org
      /\ sessionRequest'[r].version <= tokenVersion' /\ pair'[r].version <= tokenVersion'
      /\ \A s \in before'[r] : Ended(s)' /\ s \in SessionRequests
  BY PlainStep
<1>2. ~pair'[r].issued /\ memberOf' \subseteq memberOf  BY Unissued DEF Plain
<1>3. RequestLinked(r)'  BY <1>1, <1>2 DEF RequestLinked, Signing
<1>4. ~Exchanges(r)' /\ ~Outdates(r)'
  BY <1>1, <1>2 DEF Exchanges, Outdates, Signing, SignOps
<1>5. RequestInv(r)'
  BY <1>3, <1>4 DEF RequestInv, TokenTaken, ExchangedFirst, RevocationDone
<1> QED  BY <1>1, <1>5, StepKeeps

---------------------------------------------------------------------------
(* The steps of the server *)

\* A refresh that is accepted finds its pair live: no exchange of it is over.
LEMMA ReadUserKeeps ==
    ASSUME SessionsInv, NEW r \in SessionRequests, NEW op \in {"login", "refresh", "switch"},
           ReadUser(r, op)
    PROVE  SessionsInv' /\ StepOf(r)
<1>1. SessionsTypeOK /\ RequestInv(r)  BY DEF SessionsInv
<1>2. /\ before' \in [SessionRequests -> SUBSET SessionRequests]
      /\ \A s \in before'[r] : s \in SessionRequests /\ Ended(s)
      /\ \A q \in SessionRequests : q # r => before'[q] = before[q]
      /\ sessionRequest[r].at = "sent" /\ sessionRequest[r].op = op
  BY <1>1, BeginFields DEF ReadUser
<1>3. UNCHANGED <<userVars, tokenVersion, pair>>  BY DEF ReadUser
<1>4. ~Ended(r)  BY <1>2 DEF Ended
<1>5. CASE userActive /\ Presentable(op, sessionRequest[r].token)
  <2> DEFINE member == [sessionRequest[r] EXCEPT !.at = "member", !.version = tokenVersion]
  <2>1. /\ sessionRequest \in [SessionRequests -> Progress] /\ sessionRequest[r] \in Progress
        /\ tokenVersion \in Nat /\ pair \in [SessionRequests -> Pairs]
    BY <1>1, TypeParts
  <2>2. sessionRequest' = [sessionRequest EXCEPT ![r].at = "member", ![r].version = tokenVersion]
    BY <1>5 DEF ReadUser
  <2>3. /\ member \in Progress /\ member.at = "member" /\ member.op = op
        /\ member.token = sessionRequest[r].token /\ member.version = tokenVersion
    BY <1>2, <2>1 DEF Progress, Steps
  <2>4. sessionRequest' = [sessionRequest EXCEPT ![r] = member]  BY <2>1, <2>2
  <2> HIDE DEF member
  <2>5. /\ sessionRequest' \in [SessionRequests -> Progress] /\ sessionRequest'[r] = member
        /\ \A q \in SessionRequests : q # r => sessionRequest'[q] = sessionRequest[q]
    BY <2>1, <2>3, <2>4
  <2>6. SessionsTypeOK'  BY <1>1, <1>2, <1>3, <2>5, TypeParts, TypeNext DEF userVars
  <2>7. OnlyIts(r)  BY <1>2, <1>4, <2>3, <2>5 DEF OnlyIts
  <2>8. StepOf(r)  BY <1>3, <2>1, <2>7 DEF StepOf, PairsKept, userVars
  <2>9. ~pair[r].issued /\ pair[r].version <= tokenVersion
    BY <1>1, <1>2, Unissued DEF RequestInv, RequestLinked
  <2>10. \A s \in before'[r] : Ended(s)'  BY <1>2, <2>7, StillEnded
  <2>11. RequestLinked(r)'
    BY <1>3, <2>1, <2>3, <2>5, <2>9, <2>10 DEF RequestLinked, SignOps
  <2>12. TokenTaken(r)'
    <3> SUFFICES ASSUME Exchanges(r)'
                 PROVE  /\ sessionRequest[r].token \in SessionRequests
                        /\ pair[sessionRequest[r].token].issued
      BY <1>3, <2>3, <2>5, <2>9 DEF TokenTaken
    <3>1. Live(sessionRequest[r].token)
      BY <1>5, <2>3, <2>5 DEF Exchanges, Presentable
    <3>2. sessionRequest[r].token \in Tokens  BY <2>1 DEF Progress
    <3> QED  BY <3>1, <3>2 DEF Live, Tokens
  <2>13. ExchangedFirst(r)'
    <3> SUFFICES ASSUME Exchanges(r)', NEW s \in before'[r],
                        sessionRequest'[s].op = "refresh",
                        sessionRequest'[s].token = sessionRequest[r].token, pair[s].issued
                 PROVE  FALSE
      BY <1>3, <2>3, <2>5 DEF ExchangedFirst
    <3>1. Live(sessionRequest[r].token)
      BY <1>5, <2>3, <2>5 DEF Exchanges, Presentable
    <3>2. s # r /\ s \in SessionRequests  BY <1>2, <1>4
    <3>3. sessionRequest'[s] = sessionRequest[s]  BY <2>5, <3>2
    <3>4. Exchanges(s)  BY <3>3 DEF Exchanges
    <3>5. TokenTaken(s)  BY <3>2 DEF SessionsInv, RequestInv
    <3> QED  BY <3>1, <3>3, <3>4, <3>5 DEF TokenTaken, Live
  <2>14. RevocationDone(r)'  BY <2>3, <2>5 DEF RevocationDone, Outdates
  <2>15. RequestInv(r)'  BY <2>11, <2>12, <2>13, <2>14 DEF RequestInv
  <2> QED  BY <2>6, <2>8, <2>15, StepKeeps
<1>6. CASE ~(userActive /\ Presentable(op, sessionRequest[r].token))
  <2>1. Plain(r, "refused")
    BY <1>1, <1>2, <1>3, <1>6, TypeParts DEF ReadUser, Plain, userVars
  <2> QED  BY <1>2, <1>4, <2>1, QuietStep DEF Steps, Signing
<1> QED  BY <1>5, <1>6

\* What is sought is an organization of the user.
LEMMA SoughtOrgsAre ==
    ASSUME SessionsTypeOK, NEW r \in SessionRequests
    PROVE  SoughtOrgs(r) \subseteq Orgs
BY TypeParts DEF SoughtOrgs, Orgs

\* Finding the membership, or being refused.
LEMMA ReadMembershipKeeps ==
    ASSUME SessionsInv, NEW r \in SessionRequests, ReadMembership(r)
    PROVE  SessionsInv' /\ StepOf(r)
<1>1. SessionsTypeOK /\ RequestInv(r)  BY DEF SessionsInv
<1>2. /\ sessionRequest[r].at = "member" /\ UNCHANGED <<userVars, tokenVersion, pair, before>>
      /\ \A s \in before[r] : Ended(s)
  BY <1>1 DEF ReadMembership, SessionAt, RequestInv, RequestLinked
<1>3. ~Ended(r)  BY <1>2 DEF Ended
<1>4. CASE \E o \in SoughtOrgs(r) :
             sessionRequest' = [sessionRequest EXCEPT ![r].at = "status", ![r].org = o]
  <2>1. PICK o \in SoughtOrgs(r) :
          sessionRequest' = [sessionRequest EXCEPT ![r].at = "status", ![r].org = o]
    BY <1>4
  <2> DEFINE status == [sessionRequest[r] EXCEPT !.at = "status", !.org = o]
  <2>2. /\ sessionRequest \in [SessionRequests -> Progress] /\ sessionRequest[r] \in Progress
        /\ before \in [SessionRequests -> SUBSET SessionRequests] /\ o \in Orgs
    BY <1>1, TypeParts, SoughtOrgsAre
  <2>3. /\ status \in Progress /\ status.at = "status" /\ status.op = sessionRequest[r].op
        /\ status.token = sessionRequest[r].token /\ status.version = sessionRequest[r].version
    BY <2>2 DEF Progress, Steps
  <2>4. sessionRequest' = [sessionRequest EXCEPT ![r] = status]  BY <2>1, <2>2
  <2> HIDE DEF status
  <2>5. /\ sessionRequest' \in [SessionRequests -> Progress] /\ sessionRequest'[r] = status
        /\ \A q \in SessionRequests : q # r => sessionRequest'[q] = sessionRequest[q]
    BY <2>2, <2>3, <2>4
  <2>6. SessionsTypeOK'  BY <1>1, <1>2, <2>5, TypeParts, TypeNext DEF userVars
  <2>7. OnlyIts(r)  BY <1>2, <1>3, <2>3, <2>5 DEF OnlyIts
  <2>8. StepOf(r)
    <3>1. tokenVersion \in Nat  BY <1>1, TypeParts
    <3> QED  BY <1>2, <2>7, <3>1 DEF StepOf, PairsKept, userVars
  <2>9. \A s \in before[r] : Ended(s)'  BY <1>2, <2>2, <2>7, StillEnded
  <2>10. \A s \in before[r] : s # r /\ s \in SessionRequests  BY <1>2, <1>3, <2>2
  <2>11. RequestLinked(r)'
    BY <1>1, <1>2, <2>3, <2>5, <2>9 DEF RequestInv, RequestLinked
  <2>12. Exchanges(r)' <=> Exchanges(r)
    BY <1>2, <2>3, <2>5 DEF Exchanges, Signing
  <2>13. TokenTaken(r)'
    BY <1>1, <1>2, <2>3, <2>5, <2>12 DEF RequestInv, TokenTaken
  <2>14. ExchangedFirst(r)'
    BY <1>1, <1>2, <2>3, <2>5, <2>10, <2>12 DEF RequestInv, ExchangedFirst
  <2>15. RevocationDone(r)'  BY <2>3, <2>5 DEF RevocationDone, Outdates
  <2>16. RequestInv(r)'  BY <2>11, <2>13, <2>14, <2>15 DEF RequestInv
  <2> QED  BY <2>6, <2>8, <2>16, StepKeeps
<1>5. CASE SessionGoto(r, "refused")
  <2>1. Plain(r, "refused")  BY <1>1, <1>2, <1>5, TypeParts DEF Plain, userVars
  <2> QED  BY <1>2, <1>3, <2>1, QuietStep DEF Steps, Signing
<1> QED  BY <1>4, <1>5 DEF ReadMembership

\* Reading the status leads to the write of the operation.
LEMMA ReadStatusKeeps ==
    ASSUME SessionsInv, NEW r \in SessionRequests, ReadStatus(r)
    PROVE  SessionsInv' /\ StepOf(r)
<1> DEFINE step == IF Suspended(r) THEN "refused" ELSE WriteStep(sessionRequest[r].op)
<1>1. SessionsTypeOK /\ RequestInv(r)  BY DEF SessionsInv
<1>2. /\ sessionRequest[r].at = "status" /\ UNCHANGED <<userVars, tokenVersion, pair, before>>
      /\ SessionGoto(r, step)
  BY DEF ReadStatus, SessionAt
<1>3. ~Ended(r) /\ sessionRequest[r].op \in SignOps /\ \A s \in before[r] : Ended(s)
  BY <1>1, <1>2 DEF Ended, RequestInv, RequestLinked
<1>4. /\ step \in {"refused", "issue", "rotate", "bump"}
      /\ step = "issue" => sessionRequest[r].op = "login"
      /\ step = "rotate" => sessionRequest[r].op = "refresh"
      /\ step = "bump" => sessionRequest[r].op = "switch"
  BY <1>3 DEF WriteStep, SignOps
<1> HIDE DEF step
<1>5. Plain(r, step)  BY <1>1, <1>2, <1>3, TypeParts DEF Plain, userVars
<1>6. /\ SessionsTypeOK' /\ StepOf(r)
      /\ sessionRequest'[r].at = step /\ sessionRequest'[r].op = sessionRequest[r].op
      /\ sessionRequest'[r].token = sessionRequest[r].token
      /\ sessionRequest'[r].version <= tokenVersion' /\ pair'[r].version <= tokenVersion'
      /\ \A s \in before'[r] : Ended(s)' /\ s \in SessionRequests
  BY <1>2, <1>3, <1>4, <1>5, PlainStep DEF Steps
<1>7. ~pair[r].issued  BY <1>2, Unissued
<1>8. RequestLinked(r)'  BY <1>2, <1>3, <1>4, <1>6, <1>7 DEF RequestLinked, SignOps
<1>9. Exchanges(r)' => Exchanges(r) /\ sessionRequest'[r].at # "issue"
  BY <1>2, <1>4, <1>6, <1>7 DEF Exchanges, Signing
<1>10. TokenTaken(r)'  BY <1>1, <1>2, <1>6, <1>7, <1>9 DEF RequestInv, TokenTaken
<1>11. ExchangedFirst(r)'
  <2>1. \A s \in before[r] : s # r /\ sessionRequest'[s] = sessionRequest[s]
    BY <1>2, <1>3, <1>6 DEF StepOf, OnlyIts
  <2> QED  BY <1>1, <1>2, <1>6, <1>9, <2>1 DEF RequestInv, ExchangedFirst
<1>12. RevocationDone(r)'  BY <1>3, <1>4, <1>6 DEF RevocationDone, Outdates
<1>13. RequestInv(r)'  BY <1>8, <1>10, <1>11, <1>12 DEF RequestInv
<1> QED  BY <1>6, <1>13, StepKeeps

\* The step of a request that revokes pairs and may move the version on.
Revoking(r, step, revoked) ==
    /\ SessionGoto(r, step) /\ Revoke(revoked, r)
    /\ tokenVersion' \in Nat /\ tokenVersion <= tokenVersion'
    /\ UNCHANGED userVars
    /\ before' \in [SessionRequests -> SUBSET SessionRequests]
    /\ \A s \in before'[r] : Ended(s)
    /\ \A q \in SessionRequests : q # r => before'[q] = before[q]

\* What such a step leaves of its request, and of all pairs.
LEMMA RevokingStep ==
    ASSUME SessionsInv, NEW r \in SessionRequests, NEW step \in Steps, NEW revoked,
           Revoking(r, step, revoked),
           sessionRequest[r].at # "new", ~Ended(r), step # "new",
           sessionRequest[r].op = "refresh" => revoked = {sessionRequest[r].token}
    PROVE  /\ SessionsTypeOK' /\ StepOf(r)
           /\ sessionRequest'[r].at = step /\ sessionRequest'[r].op = sessionRequest[r].op
           /\ sessionRequest'[r].token = sessionRequest[r].token
           /\ sessionRequest'[r].org = sessionRequest[r].org
           /\ sessionRequest'[r].version <= tokenVersion' /\ pair'[r].version <= tokenVersion'
           /\ ~pair'[r].issued
           /\ \A s \in before'[r] : Ended(s)' /\ s \in SessionRequests /\ s # r
           /\ \A s \in SessionRequests :
                /\ s # r => sessionRequest'[s] = sessionRequest[s]
                /\ pair'[s].issued = pair[s].issued /\ pair'[s].version = pair[s].version
                /\ s \in revoked /\ pair[s].issued => pair'[s].revokedBy # NoPair
<1>1. SessionsTypeOK /\ RequestInv(r)  BY DEF SessionsInv
<1>2. /\ sessionRequest' \in [SessionRequests -> Progress]
      /\ sessionRequest'[r].at = step /\ sessionRequest'[r].op = sessionRequest[r].op
      /\ sessionRequest'[r].token = sessionRequest[r].token
      /\ sessionRequest'[r].org = sessionRequest[r].org
      /\ sessionRequest'[r].version = sessionRequest[r].version
      /\ \A q \in SessionRequests : q # r => sessionRequest'[q] = sessionRequest[q]
  BY <1>1, GotoFields DEF Revoking
<1>3. /\ pair' \in [SessionRequests -> Pairs]
      /\ \A p \in SessionRequests :
           /\ pair'[p].issued = pair[p].issued /\ pair'[p].version = pair[p].version
           /\ pair[p].revokedBy # NoPair => pair'[p].revokedBy = pair[p].revokedBy
           /\ pair'[p].revokedBy \in {pair[p].revokedBy, r}
           /\ p \notin revoked => pair'[p] = pair[p]
           /\ p \in revoked /\ pair[p].issued => pair'[p].revokedBy # NoPair
  BY <1>1, RevokeFields DEF Revoking
<1>4. SessionsTypeOK'  BY <1>1, <1>2, <1>3, TypeParts, TypeNext DEF Revoking, userVars
<1>5. OnlyIts(r)  BY <1>2 DEF OnlyIts, Revoking, Ended
<1>6. PairsKept(r)
  <2> SUFFICES ASSUME NEW p \in SessionRequests
               PROVE  \/ pair'[p].revokedBy \in {NoPair, pair[p].revokedBy}
                      \/ /\ pair'[p].revokedBy = r
                         /\ sessionRequest'[r].op = "refresh" => sessionRequest'[r].token = p
    BY <1>3 DEF PairsKept
  <2>1. CASE p \in revoked  BY <1>2, <1>3, <2>1
  <2>2. CASE p \notin revoked  BY <1>3, <2>2
  <2> QED  BY <2>1, <2>2
<1>7. StepOf(r)  BY <1>5, <1>6 DEF StepOf, Revoking, userVars
<1>8. \A s \in before'[r] : Ended(s)' /\ s \in SessionRequests /\ s # r
  BY <1>5, StillEnded DEF Revoking
<1>9. ~pair'[r].issued  BY <1>3, Unissued DEF Ended
<1>10. sessionRequest'[r].version <= tokenVersion' /\ pair'[r].version <= tokenVersion'
  <2>1. /\ sessionRequest[r].version \in Nat /\ pair[r].version \in Nat
        /\ tokenVersion \in Nat /\ tokenVersion' \in Nat /\ tokenVersion <= tokenVersion'
    BY <1>1, TypeParts DEF Progress, Pairs, Revoking
  <2>2. sessionRequest[r].version <= tokenVersion /\ pair[r].version <= tokenVersion
    BY <1>1 DEF RequestInv, RequestLinked
  <2> QED  BY <1>2, <1>3, <2>1, <2>2
<1> QED  BY <1>2, <1>3, <1>4, <1>7, <1>8, <1>9, <1>10

\* The pair that is exchanged is revoked before the new one is issued.
LEMMA RotateTokenKeeps ==
    ASSUME SessionsInv, NEW r \in SessionRequests, RotateToken(r)
    PROVE  SessionsInv' /\ StepOf(r)
<1> DEFINE revoked == {sessionRequest[r].token}
<1>1. SessionsTypeOK /\ RequestInv(r)  BY DEF SessionsInv
<1>2. sessionRequest[r].at = "rotate" /\ before' = before
  BY DEF RotateToken, SessionAt
<1>3. ~Ended(r) /\ sessionRequest[r].op = "refresh" /\ \A s \in before[r] : Ended(s)
  BY <1>1, <1>2 DEF Ended, RequestInv, RequestLinked
<1>4. Revoking(r, "issue", revoked)
  BY <1>1, <1>2, <1>3, TypeParts DEF RotateToken, Revoking
<1>5. /\ SessionsTypeOK' /\ StepOf(r)
      /\ sessionRequest'[r].at = "issue" /\ sessionRequest'[r].op = "refresh"
      /\ sessionRequest'[r].token = sessionRequest[r].token
      /\ sessionRequest'[r].version <= tokenVersion' /\ pair'[r].version <= tokenVersion'
      /\ ~pair'[r].issued
      /\ \A s \in before'[r] : Ended(s)' /\ s \in SessionRequests /\ s # r
      /\ \A s \in SessionRequests :
           /\ s # r => sessionRequest'[s] = sessionRequest[s]
           /\ pair'[s].issued = pair[s].issued
           /\ s \in revoked /\ pair[s].issued => pair'[s].revokedBy # NoPair
  BY <1>2, <1>3, <1>4, RevokingStep DEF Steps
<1>6. Exchanges(r)  BY <1>2, <1>3 DEF Exchanges, Signing
<1>7. RequestLinked(r)'  BY <1>5 DEF RequestLinked, SignOps
<1>8. TokenTaken(r)'
  <2>1. sessionRequest[r].token \in SessionRequests /\ pair[sessionRequest[r].token].issued
    BY <1>1, <1>6 DEF RequestInv, TokenTaken
  <2> QED  BY <1>5, <2>1 DEF TokenTaken
<1>9. ExchangedFirst(r)'
  BY <1>1, <1>2, <1>5, <1>6 DEF RequestInv, ExchangedFirst
<1>10. RevocationDone(r)'  BY <1>5 DEF RevocationDone, Outdates
<1>11. RequestInv(r)'  BY <1>7, <1>8, <1>9, <1>10 DEF RequestInv
<1> QED  BY <1>5, <1>11, StepKeeps

\* A switch has revoked every pair that was there when it began.
LEMMA RevokeUserKeeps ==
    ASSUME SessionsInv, NEW r \in SessionRequests, RevokeUser(r)
    PROVE  SessionsInv' /\ StepOf(r)
<1>1. SessionsTypeOK /\ RequestInv(r)  BY DEF SessionsInv
<1>2. sessionRequest[r].at = "revoke" /\ before' = before /\ tokenVersion' = tokenVersion
  BY DEF RevokeUser, SessionAt
<1>3. ~Ended(r) /\ sessionRequest[r].op = "switch" /\ \A s \in before[r] : Ended(s)
  BY <1>1, <1>2 DEF Ended, RequestInv, RequestLinked
<1>4. Revoking(r, "issue", SessionRequests)
  BY <1>1, <1>2, <1>3, TypeParts DEF RevokeUser, Revoking
<1>5. /\ SessionsTypeOK' /\ StepOf(r)
      /\ sessionRequest'[r].at = "issue" /\ sessionRequest'[r].op = "switch"
      /\ sessionRequest'[r].version <= tokenVersion' /\ pair'[r].version <= tokenVersion'
      /\ ~pair'[r].issued
      /\ \A s \in before'[r] : Ended(s)' /\ s \in SessionRequests /\ s # r
      /\ \A s \in SessionRequests :
           /\ pair'[s].issued = pair[s].issued /\ pair'[s].version = pair[s].version
           /\ pair[s].issued => pair'[s].revokedBy # NoPair
  BY <1>2, <1>3, <1>4, RevokingStep DEF Steps
<1>6. RequestLinked(r)'  BY <1>5 DEF RequestLinked, SignOps
<1>7. ~Exchanges(r)'  BY <1>5 DEF Exchanges
<1>8. RevocationDone(r)'
  <2>1. Outdates(r)  BY <1>2, <1>3 DEF Outdates
  <2> QED  BY <1>1, <1>2, <1>5, <2>1 DEF RequestInv, RevocationDone
<1>9. RequestInv(r)'  BY <1>6, <1>7, <1>8 DEF RequestInv, TokenTaken, ExchangedFirst
<1> QED  BY <1>5, <1>9, StepKeeps

\* A suspension revokes every pair and outdates it, in one step.
LEMMA RevokeMembersKeeps ==
    ASSUME SessionsInv, NEW r \in SessionRequests, RevokeMembers(r)
    PROVE  SessionsInv' /\ StepOf(r)
<1>1. SessionsTypeOK /\ RequestInv(r)  BY DEF SessionsInv
<1>2. /\ sessionRequest[r].at = "revokeMembers" /\ before' = before
      /\ tokenVersion' = tokenVersion + 1 /\ tokenVersion \in Nat
  BY <1>1, TypeParts DEF RevokeMembers, NextVersion, SessionAt
<1>3. ~Ended(r) /\ sessionRequest[r].op = "suspend" /\ \A s \in before[r] : Ended(s)
  BY <1>1, <1>2 DEF Ended, RequestInv, RequestLinked
<1>4. Revoking(r, "done", SessionRequests)
  <2>1. tokenVersion' \in Nat /\ tokenVersion <= tokenVersion'  BY <1>2
  <2> QED  BY <1>1, <1>2, <1>3, <2>1, TypeParts DEF RevokeMembers, Revoking
<1>5. /\ SessionsTypeOK' /\ StepOf(r)
      /\ sessionRequest'[r].at = "done" /\ sessionRequest'[r].op = "suspend"
      /\ sessionRequest'[r].version <= tokenVersion' /\ pair'[r].version <= tokenVersion'
      /\ ~pair'[r].issued
      /\ \A s \in before'[r] : Ended(s)' /\ s \in SessionRequests /\ s # r
      /\ \A s \in SessionRequests :
           /\ pair'[s].issued = pair[s].issued /\ pair'[s].version = pair[s].version
           /\ pair[s].issued => pair'[s].revokedBy # NoPair
  BY <1>2, <1>3, <1>4, RevokingStep DEF Steps
<1>6. RequestLinked(r)'  BY <1>5 DEF RequestLinked, SignOps
<1>7. ~Exchanges(r)'  BY <1>5 DEF Exchanges
<1>8. RevocationDone(r)'
  <2> SUFFICES ASSUME NEW p \in SessionRequests
               PROVE  pair[p].version < tokenVersion'
    BY <1>5 DEF RevocationDone
  <2>1. pair[p].version <= tokenVersion /\ pair[p].version \in Nat
    BY <1>1, TypeParts DEF SessionsInv, RequestInv, RequestLinked, Pairs
  <2> QED  BY <1>2, <2>1
<1>9. RequestInv(r)'  BY <1>6, <1>7, <1>8 DEF RequestInv, TokenTaken, ExchangedFirst
<1> QED  BY <1>5, <1>9, StepKeeps

\* A logout revokes what it was given.
LEMMA LogoutTokenKeeps ==
    ASSUME SessionsInv, NEW r \in SessionRequests, LogoutToken(r)
    PROVE  SessionsInv' /\ StepOf(r)
<1> DEFINE revoked == {sessionRequest[r].token}
<1>1. SessionsTypeOK /\ tokenVersion \in Nat  BY TypeParts DEF SessionsInv
<1>2. /\ before' \in [SessionRequests -> SUBSET SessionRequests]
      /\ \A s \in before'[r] : s \in SessionRequests /\ Ended(s)
      /\ \A q \in SessionRequests : q # r => before'[q] = before[q]
      /\ sessionRequest[r].at = "sent" /\ sessionRequest[r].op = "logout"
  BY <1>1, BeginFields DEF LogoutToken
<1>3. Revoking(r, "done", revoked)  BY <1>1, <1>2 DEF LogoutToken, Revoking
<1>4. /\ SessionsTypeOK' /\ StepOf(r)
      /\ sessionRequest'[r].at = "done" /\ sessionRequest'[r].op = "logout"
      /\ sessionRequest'[r].version <= tokenVersion' /\ pair'[r].version <= tokenVersion'
      /\ ~pair'[r].issued
      /\ \A s \in before'[r] : Ended(s)'
  BY <1>2, <1>3, RevokingStep DEF Steps, Ended
<1>5. RequestLinked(r)'  BY <1>4 DEF RequestLinked, SignOps
<1>6. ~Exchanges(r)' /\ ~Outdates(r)'  BY <1>4 DEF Exchanges, Outdates
<1>7. RequestInv(r)'  BY <1>5, <1>6 DEF RequestInv, TokenTaken, ExchangedFirst, RevocationDone
<1> QED  BY <1>4, <1>7, StepKeeps

\* A switch outdates every pair that was there when it began.
LEMMA BumpVersionKeeps ==
    ASSUME SessionsInv, NEW r \in SessionRequests, BumpVersion(r)
    PROVE  SessionsInv' /\ StepOf(r)
<1> DEFINE bumped == [sessionRequest[r] EXCEPT !.at = "revoke", !.version = tokenVersion + 1]
<1>1. SessionsTypeOK /\ RequestInv(r)  BY DEF SessionsInv
<1>2. /\ sessionRequest[r].at = "bump" /\ UNCHANGED <<userVars, pair, before>>
      /\ tokenVersion' = tokenVersion + 1
      /\ sessionRequest' = [sessionRequest EXCEPT ![r].at = "revoke", ![r].version = tokenVersion + 1]
  BY DEF BumpVersion, SessionAt
<1>3. ~Ended(r) /\ sessionRequest[r].op = "switch" /\ \A s \in before[r] : Ended(s)
  BY <1>1, <1>2 DEF Ended, RequestInv, RequestLinked
<1>4. /\ sessionRequest \in [SessionRequests -> Progress] /\ sessionRequest[r] \in Progress
      /\ before \in [SessionRequests -> SUBSET SessionRequests]
      /\ pair \in [SessionRequests -> Pairs]
      /\ tokenVersion \in Nat /\ tokenVersion + 1 \in Nat
  BY <1>1, TypeParts
<1>5. /\ bumped \in Progress /\ bumped.at = "revoke" /\ bumped.op = "switch"
      /\ bumped.token = sessionRequest[r].token /\ bumped.version = tokenVersion + 1
  BY <1>3, <1>4 DEF Progress, Steps
<1>6. sessionRequest' = [sessionRequest EXCEPT ![r] = bumped]  BY <1>2, <1>4
<1> HIDE DEF bumped
<1>7. /\ sessionRequest' \in [SessionRequests -> Progress] /\ sessionRequest'[r] = bumped
      /\ \A q \in SessionRequests : q # r => sessionRequest'[q] = sessionRequest[q]
  BY <1>4, <1>5, <1>6
<1>8. SessionsTypeOK'  BY <1>1, <1>2, <1>4, <1>7, TypeParts, TypeNext DEF userVars
<1>9. OnlyIts(r)  BY <1>2, <1>3, <1>5, <1>7 DEF OnlyIts, Ended
<1>10. StepOf(r)  BY <1>2, <1>4, <1>9 DEF StepOf, PairsKept, userVars
<1>11. ~pair[r].issued  BY <1>2, Unissued
<1>12. \A s \in before[r] : Ended(s)'  BY <1>3, <1>4, <1>9, StillEnded
<1>13. \A p \in SessionRequests : pair[p].version \in Nat /\ pair[p].version < tokenVersion'
  <2> SUFFICES ASSUME NEW p \in SessionRequests
               PROVE  pair[p].version \in Nat /\ pair[p].version < tokenVersion'
    OBVIOUS
  <2>1. pair[p].version <= tokenVersion /\ pair[p].version \in Nat
    BY <1>4 DEF SessionsInv, RequestInv, RequestLinked, Pairs
  <2> QED  BY <1>2, <1>4, <2>1
<1>14. RequestLinked(r)'
  <2>1. sessionRequest'[r].version <= tokenVersion' /\ pair'[r].version <= tokenVersion'
    <3>1. sessionRequest'[r].version = tokenVersion'  BY <1>2, <1>5, <1>7
    <3>2. pair'[r].version \in Nat /\ pair'[r].version < tokenVersion'  BY <1>2, <1>13
    <3> QED  BY <1>2, <1>4, <3>1, <3>2
  <2>2. ~pair'[r].issued /\ before'[r] = before[r]  BY <1>2, <1>11
  <2> QED  BY <1>5, <1>7, <1>12, <2>1, <2>2 DEF RequestLinked, SignOps
<1>15. ~Exchanges(r)'  BY <1>5, <1>7 DEF Exchanges
<1>16. RevocationDone(r)'  BY <1>2, <1>4, <1>5, <1>7, <1>13 DEF RevocationDone
<1>17. RequestInv(r)'  BY <1>14, <1>15, <1>16 DEF RequestInv, TokenTaken, ExchangedFirst
<1> QED  BY <1>8, <1>10, <1>17, StepKeeps

\* A pair is issued with a version that is not ahead of the user.
LEMMA IssuePairKeeps ==
    ASSUME SessionsInv, NEW r \in SessionRequests, IssuePair(r)
    PROVE  SessionsInv' /\ StepOf(r)
<1> DEFINE new == [issued |-> TRUE, org |-> sessionRequest[r].org,
                   version |-> sessionRequest[r].version, revokedBy |-> NoPair]
<1>1. SessionsTypeOK /\ RequestInv(r)  BY DEF SessionsInv
<1>2. /\ sessionRequest[r].at = "issue" /\ UNCHANGED <<userVars, tokenVersion, before>>
      /\ SessionGoto(r, "done")
  BY DEF IssuePair, SessionAt
<1>3. ~Ended(r) /\ sessionRequest[r].op \in SignOps /\ \A s \in before[r] : Ended(s)
  BY <1>1, <1>2 DEF Ended, RequestInv, RequestLinked
<1>4. /\ sessionRequest[r] \in Progress /\ pair \in [SessionRequests -> Pairs]
      /\ before \in [SessionRequests -> SUBSET SessionRequests] /\ tokenVersion \in Nat
  BY <1>1, TypeParts
<1>5. /\ sessionRequest' \in [SessionRequests -> Progress]
      /\ sessionRequest'[r].at = "done" /\ sessionRequest'[r].op = sessionRequest[r].op
      /\ sessionRequest'[r].token = sessionRequest[r].token
      /\ sessionRequest'[r].version = sessionRequest[r].version
      /\ \A q \in SessionRequests : q # r => sessionRequest'[q] = sessionRequest[q]
  BY <1>1, <1>2, GotoFields DEF Steps
<1>6. /\ new \in Pairs /\ new.issued /\ new.version = sessionRequest[r].version
      /\ new.revokedBy = NoPair
  BY <1>4 DEF Progress, Pairs, Tokens
<1>7. pair' = [pair EXCEPT ![r] = new]  BY DEF IssuePair
<1> HIDE DEF new
<1>8. /\ pair' \in [SessionRequests -> Pairs] /\ pair'[r] = new
      /\ \A p \in SessionRequests : p # r => pair'[p] = pair[p]
  BY <1>4, <1>6, <1>7
<1>9. ~pair[r].issued  BY <1>2, Unissued
<1>10. SessionsTypeOK'  BY <1>1, <1>2, <1>5, <1>8, TypeParts, TypeNext DEF userVars
<1>11. OnlyIts(r)  BY <1>2, <1>3, <1>5 DEF OnlyIts
<1>12. PairsKept(r)  BY <1>3, <1>6, <1>8, <1>9 DEF PairsKept
<1>13. StepOf(r)  BY <1>2, <1>4, <1>11, <1>12 DEF StepOf, userVars
<1>14. \A s \in before[r] : Ended(s)' /\ s \in SessionRequests /\ s # r
  BY <1>3, <1>4, <1>11, StillEnded
<1>15. RequestLinked(r)'
  BY <1>1, <1>2, <1>3, <1>5, <1>6, <1>8, <1>14 DEF RequestInv, RequestLinked
<1>16. Exchanges(r)' => Exchanges(r)  BY <1>2, <1>5 DEF Exchanges, Signing
<1>17. TokenTaken(r)'
  <2> SUFFICES ASSUME Exchanges(r)
               PROVE  /\ sessionRequest[r].token \in SessionRequests
                      /\ pair'[sessionRequest[r].token].issued
                      /\ pair'[sessionRequest[r].token].revokedBy # NoPair
    BY <1>5, <1>16 DEF TokenTaken
  <2>1. /\ sessionRequest[r].token \in SessionRequests /\ pair[sessionRequest[r].token].issued
        /\ pair[sessionRequest[r].token].revokedBy # NoPair
    BY <1>1, <1>2 DEF RequestInv, TokenTaken
  <2> QED  BY <1>8, <1>9, <2>1
<1>18. ExchangedFirst(r)'
  BY <1>1, <1>2, <1>5, <1>8, <1>14, <1>16 DEF RequestInv, ExchangedFirst
<1>19. RevocationDone(r)'
  <2>1. Outdates(r)' => Outdates(r)  BY <1>2, <1>3, <1>5 DEF Outdates, SignOps
  <2> QED  BY <1>1, <1>2, <1>5, <1>8, <1>14, <2>1 DEF RequestInv, RevocationDone
<1>20. RequestInv(r)'  BY <1>15, <1>17, <1>18, <1>19 DEF RequestInv
<1> QED  BY <1>10, <1>13, <1>20, StepKeeps

\* What administrators do, and an interruption, leaves pairs and versions alone.
LEMMA AdminKeeps ==
    ASSUME SessionsInv, NEW r \in SessionRequests,
           SuspendOrg(r) \/ ReadMembers(r) \/ ReactivateOrg(r) \/ LeaveOrg(r) \/ ToggleRead(r) \/
           ToggleWrite(r) \/ SessionInterrupted(r)
    PROVE  SessionsInv' /\ StepOf(r)
<1>1. /\ SessionsTypeOK /\ RequestLinked(r)
      /\ userActive \in BOOLEAN /\ memberOf \subseteq Orgs
      /\ orgStatus \in [Orgs -> {"ACTIVE", "SUSPENDED"}]
      /\ before \in [SessionRequests -> SUBSET SessionRequests]
      /\ \A s \in before[r] : Ended(s)
  BY TypeParts DEF SessionsInv, RequestInv, RequestLinked
<1>2. CASE SuspendOrg(r)
  <2>1. Plain(r, "members")
    BY <1>1, <1>2, BeginFields DEF SuspendOrg, Plain
  <2>2. sessionRequest[r].at = "sent" /\ sessionRequest[r].op = "suspend"
    BY <1>1, <1>2, BeginFields DEF SuspendOrg
  <2> QED  BY <2>1, <2>2, QuietStep DEF Steps, Signing, Ended
<1>3. CASE ReadMembers(r)
  <2> DEFINE step == IF sessionRequest[r].org \in memberOf THEN "revokeMembers" ELSE "done"
  <2>1. Plain(r, step)  BY <1>1, <1>3 DEF ReadMembers, Plain, userVars
  <2>2. sessionRequest[r].at = "members" /\ sessionRequest[r].op = "suspend"
    BY <1>1, <1>3 DEF ReadMembers, SessionAt, RequestLinked
  <2>3. /\ step \in {"revokeMembers", "done"}
        /\ step = "done" => sessionRequest[r].org \notin memberOf
    OBVIOUS
  <2> HIDE DEF step
  <2> QED  BY <2>1, <2>2, <2>3, QuietStep DEF Steps, Signing, SignOps, Ended
<1>4. CASE ReactivateOrg(r)
  <2>1. Plain(r, "done")
    BY <1>1, <1>4, BeginFields DEF ReactivateOrg, Plain
  <2>2. sessionRequest[r].at = "sent" /\ sessionRequest[r].op = "reactivate"
    BY <1>1, <1>4, BeginFields DEF ReactivateOrg
  <2> QED  BY <2>1, <2>2, QuietStep DEF Steps, Signing, SignOps, Ended
<1>5. CASE LeaveOrg(r)
  <2>1. Plain(r, "done")
    BY <1>1, <1>5, BeginFields DEF LeaveOrg, Plain
  <2>2. sessionRequest[r].at = "sent" /\ sessionRequest[r].op = "leave"
    BY <1>1, <1>5, BeginFields DEF LeaveOrg
  <2> QED  BY <2>1, <2>2, QuietStep DEF Steps, Signing, SignOps, Ended
<1>6. CASE ToggleRead(r)
  <2> DEFINE step == IF userActive THEN "deactivate" ELSE "activate"
  <2>1. Plain(r, step)
    BY <1>1, <1>6, BeginFields DEF ToggleRead, Plain, userVars
  <2>2. sessionRequest[r].at = "sent" /\ sessionRequest[r].op = "toggle"
    BY <1>1, <1>6, BeginFields DEF ToggleRead
  <2>3. step \in {"activate", "deactivate"}  OBVIOUS
  <2> HIDE DEF step
  <2> QED  BY <2>1, <2>2, <2>3, QuietStep DEF Steps, Signing, SignOps, Ended
<1>7. CASE ToggleWrite(r)
  <2>1. Plain(r, "done")  BY <1>1, <1>7 DEF ToggleWrite, Plain, SessionAt
  <2>2. sessionRequest[r].at \in {"deactivate", "activate"} /\ sessionRequest[r].op = "toggle"
    BY <1>1, <1>7 DEF ToggleWrite, RequestLinked
  <2> QED  BY <2>1, <2>2, QuietStep DEF Steps, Signing, SignOps, Ended
<1>8. CASE SessionInterrupted(r)
  <2>1. Plain(r, "failed")  BY <1>1, <1>8 DEF SessionInterrupted, Plain, userVars
  <2>2. sessionRequest[r].at \in {"revoke", "issue", "revokeMembers"}
    BY <1>8 DEF SessionInterrupted
  <2> QED  BY <2>1, <2>2, QuietStep DEF Steps, Signing, SignOps, Ended
<1> QED  BY <1>2, <1>3, <1>4, <1>5, <1>6, <1>7, <1>8

---------------------------------------------------------------------------
(* The answers and the sessions of the browser *)

\* An answer changes nothing on the server.
LEMMA AnswerKeeps ==
    ASSUME SessionsInv, NEW r \in SessionRequests, SessionGoto(r, "answered"),
           sessionRequest[r].at \in {"done", "refused", "failed"},
           UNCHANGED <<userVars, tokenVersion, pair, before>>
    PROVE  /\ SessionsInv' /\ StepOf(r)
           /\ sessionRequest'[r].at = "answered" /\ sessionRequest'[r].op = sessionRequest[r].op
           /\ sessionRequest'[r].token = sessionRequest[r].token
<1>1. SessionsTypeOK /\ RequestInv(r)  BY DEF SessionsInv
<1>2. \A s \in before[r] : Ended(s)  BY <1>1 DEF RequestInv, RequestLinked
<1>3. Plain(r, "answered")  BY <1>1, <1>2, TypeParts DEF Plain, userVars
<1>4. /\ SessionsTypeOK' /\ StepOf(r)
      /\ sessionRequest'[r].at = "answered" /\ sessionRequest'[r].op = sessionRequest[r].op
      /\ sessionRequest'[r].token = sessionRequest[r].token
      /\ sessionRequest'[r].version <= tokenVersion' /\ pair'[r].version <= tokenVersion'
      /\ \A s \in before'[r] : Ended(s)' /\ s \in SessionRequests
  BY <1>3, PlainStep DEF Steps, Ended
<1>5. RequestLinked(r)'
  BY <1>1, <1>4 DEF RequestInv, RequestLinked
<1>6. Exchanges(r)' => Exchanges(r)  BY <1>4 DEF Exchanges, Signing
<1>7. TokenTaken(r)'  BY <1>1, <1>4, <1>6 DEF RequestInv, TokenTaken, Exchanges, Signing
<1>8. ExchangedFirst(r)'
  <2> SUFFICES ASSUME Exchanges(r), NEW s \in before[r],
                      sessionRequest'[s].op = "refresh",
                      sessionRequest'[s].token = sessionRequest[r].token
               PROVE  ~pair[s].issued
    BY <1>4, <1>6 DEF ExchangedFirst
  <2>1. s \in SessionRequests  BY <1>4
  <2>2. sessionRequest[s].op = "refresh" /\ sessionRequest[s].token = sessionRequest[r].token
    BY <1>4, <2>1 DEF StepOf, OnlyIts
  <2> QED  BY <1>1, <2>2 DEF RequestInv, ExchangedFirst
<1>9. RevocationDone(r)'  BY <1>4 DEF RevocationDone, Outdates
<1>10. RequestInv(r)'  BY <1>5, <1>7, <1>8, <1>9 DEF RequestInv
<1> QED  BY <1>4, <1>10, StepKeeps

\* Every step of the server.
LEMMA ServerKeeps ==
    ASSUME SessionsInv, NEW r \in SessionRequests, SessionStep(r) \/ SessionInterrupted(r)
    PROVE  SessionsInv' /\ StepOf(r)
BY ReadUserKeeps, ReadMembershipKeeps, ReadStatusKeeps, RotateTokenKeeps, BumpVersionKeeps,
   RevokeUserKeeps, IssuePairKeeps, LogoutTokenKeeps, RevokeMembersKeeps, AdminKeeps
DEF SessionStep

\* What an administrator sends is no refresh.
LEMMA AdminSendsKeep ==
    ASSUME SessionsInv, NEW r \in SessionRequests, AdminSends(r)
    PROVE  /\ SessionsInv' /\ StepOf(r)
           /\ SessionAt(r, "new") /\ sessionRequest'[r].op # "refresh"
<1>1. NoPair \in Tokens /\ FirstOrg \in Orgs  BY DEF Tokens, Orgs
<1>2. PICK op \in {"suspend", "leave", "reactivate", "toggle"} : \E o \in Orgs : Send(r, op, NoPair, o)
  BY <1>1 DEF AdminSends
<1> QED  BY <1>1, <1>2, SendKeeps DEF Ops

Answers(r) ==
    /\ SessionGoto(r, "answered") /\ sessionRequest[r].at \in {"done", "refused", "failed"}
    /\ UNCHANGED <<userVars, tokenVersion, pair, before>>

\* Every step of the browser sends a request, moves one on the server or answers one.
LEMMA BrowserStep ==
    ASSUME BrowserNext
    PROVE  \E r \in SessionRequests :
             \/ ServerStep(r) \/ ElsewhereLogsIn(r) \/ LogoutArrives(r)
             \/ \E t \in Tabs :
                  \/ TabLoads(t, r) \/ TabUnauthorized(t, r) \/ TabLogsIn(t, r)
                  \/ TabSwitches(t, r) \/ TabLogsOut(t, r)
                  \/ SessionArrives(t, r) \/ RefusalArrives(t, r) \/ AnswerLost(t, r)
BY DEF BrowserNext, TabStep

\* At the start no request has been sent and there is no cookie.
LEMMA InitInv ==
    ASSUME BrowserInit
    PROVE  SessionsInv /\ CookieInv
<1>1. SessionsInit  BY DEF BrowserInit
<1>2. NoPairYet \in Pairs /\ SessionIdle \in Progress
  BY DEF NoPairYet, SessionIdle, Pairs, Progress, Tokens, Steps, Ops, Orgs
<1>3. SessionsTypeOK
  <2>1. /\ pair \in [SessionRequests -> Pairs]
        /\ sessionRequest \in [SessionRequests -> Progress]
        /\ before \in [SessionRequests -> SUBSET SessionRequests]
    BY <1>1, <1>2 DEF SessionsInit
  <2> QED  BY <1>1, <2>1, TypeParts DEF SessionsInit
<1>4. ASSUME NEW r \in SessionRequests
      PROVE  /\ sessionRequest[r].at = "new" /\ sessionRequest[r].op = "none"
             /\ sessionRequest[r].version = 0 /\ before[r] = {}
             /\ ~pair[r].issued /\ pair[r].version = 0 /\ pair[r].revokedBy = NoPair
  BY <1>1 DEF SessionsInit, SessionIdle, NoPairYet
<1>5. SessionsInv
  <2> SUFFICES ASSUME NEW r \in SessionRequests PROVE RequestInv(r)
    BY <1>3 DEF SessionsInv
  <2>1. tokenVersion = 0  BY <1>1 DEF SessionsInit
  <2>2. RequestLinked(r)  BY <1>4, <2>1 DEF RequestLinked, SignOps
  <2>3. ~Exchanges(r) /\ ~Outdates(r)  BY <1>4 DEF Exchanges, Outdates
  <2> QED  BY <2>2, <2>3 DEF RequestInv, TokenTaken, ExchangedFirst, RevocationDone
<1>6. CookieInv
  <2>1. \A t \in Tabs : tab[t] = [ClosedTab EXCEPT !.page = "login"]
    BY DEF BrowserInit
  <2>2. \A t \in Tabs : Waits(t) = {}
    BY <2>1 DEF Waits, ClosedTab
  <2>3. BrowserTypeOK
    <3> DEFINE login == [ClosedTab EXCEPT !.page = "login"]
    <3>1. login \in [page : {"closed", "loading", "ready", "login"}, token : Tokens,
                     restore : Tokens, refresh : Tokens, sign : Tokens]
      BY DEF ClosedTab, Tokens
    <3>2. tab = [t \in Tabs |-> login]  BY DEF BrowserInit
    <3> HIDE DEF login
    <3> QED  BY <1>3, <3>1, <3>2 DEF BrowserTypeOK, BrowserInit, Tokens
  <2>4. jar = NoPair  BY DEF BrowserInit
  <2> QED  BY <1>4, <2>2, <2>3, <2>4 DEF CookieInv, Arrived, WaitsSign, RevokerKnown, Replaced
<1> QED  BY <1>5, <1>6

---------------------------------------------------------------------------
(* The cookie *)

TabRecords ==
    [page : {"closed", "loading", "ready", "login"}, token : Tokens, restore : Tokens,
     refresh : Tokens, sign : Tokens]

\* The types of the browser, by the names used here.
LEMMA BrowserTypeParts ==
    BrowserTypeOK <=>
        /\ SessionsTypeOK /\ jar \in Tokens /\ tab \in [Tabs -> TabRecords]
        /\ dropped \subseteq SessionRequests
BY DEF BrowserTypeOK, Tokens, TabRecords

\* What one tab does leaves what the others wait for.
WaitsFor(t, new, more) ==
    /\ new \in TabRecords /\ tab' = [tab EXCEPT ![t] = new]
    /\ {new.restore, new.refresh, new.sign} \ {NoPair} \subseteq Waits(t) \cup more

\* A tab that changes leaves the others, and waits for what it waited for or more.
LEMMA TabMoves ==
    ASSUME BrowserTypeOK, NEW t \in Tabs, NEW new, NEW more, WaitsFor(t, new, more)
    PROVE  /\ tab' \in [Tabs -> TabRecords]
           /\ \A u \in Tabs : Waits(u)' \subseteq Waits(u) \cup more
<1>1. tab \in [Tabs -> TabRecords]  BY BrowserTypeParts
<1>2. tab' \in [Tabs -> TabRecords]  BY <1>1 DEF WaitsFor
<1>3. ASSUME NEW u \in Tabs PROVE Waits(u)' \subseteq Waits(u) \cup more
  <2>1. CASE u = t
    <3>1. tab'[t] = new  BY <1>1 DEF WaitsFor
    <3> QED  BY <2>1, <3>1 DEF Waits, WaitsFor
  <2>2. CASE u # t
    <3>1. tab'[u] = tab[u]  BY <1>1, <2>2 DEF WaitsFor
    <3> QED  BY <3>1 DEF Waits
  <2> QED  BY <2>1, <2>2
<1> QED  BY <1>2, <1>3

\* A pair that has arrived stays so: its request takes no further step.
LEMMA ArrivedStays ==
    ASSUME NEW r \in SessionRequests, StepOf(r), NEW p, Arrived(p)
    PROVE  Arrived(p)'
<1>1. CASE p = NoPair  BY <1>1 DEF Arrived
<1>2. CASE p # NoPair
  <2>1. p \in SessionRequests /\ pair[p].issued /\ SessionAt(p, "answered")  BY <1>2 DEF Arrived
  <2>2. p # r  BY <2>1 DEF StepOf, OnlyIts, SessionAt
  <2> QED  BY <2>1, <2>2 DEF Arrived, StepOf, OnlyIts, PairsKept, SessionAt
<1> QED  BY <1>1, <1>2

\* A revoked pair is revoked by a request that was sent and knew it.
LEMMA RevokersKept ==
    ASSUME SessionsInv, CookieInv, NEW r \in SessionRequests, StepOf(r), NEW p \in SessionRequests
    PROVE  RevokerKnown(p)'
<1>1. RevokerKnown(p) /\ pair[p].revokedBy \in Tokens
  BY TypeParts DEF CookieInv, SessionsInv, Pairs
<1>2. CASE pair'[p].revokedBy = NoPair  BY <1>2 DEF RevokerKnown
<1>3. CASE pair'[p].revokedBy # NoPair /\ pair'[p].revokedBy = pair[p].revokedBy
  <2> DEFINE by == pair[p].revokedBy
  <2>1. /\ by \in SessionRequests /\ sessionRequest[by].at # "new"
        /\ sessionRequest[by].op = "refresh" => sessionRequest[by].token = p
    BY <1>1, <1>3 DEF RevokerKnown, SessionAt, Tokens
  <2>2. PICK b \in SessionRequests : b = by  BY <2>1
  <2>3. /\ sessionRequest'[b].at # "new"
        /\ sessionRequest'[b].op = sessionRequest[b].op
        /\ sessionRequest'[b].token = sessionRequest[b].token
    <3>1. CASE b = r  BY <2>1, <2>2, <3>1 DEF StepOf, OnlyIts
    <3>2. CASE b # r  BY <2>1, <2>2, <3>2 DEF StepOf, OnlyIts
    <3> QED  BY <3>1, <3>2
  <2>4. pair'[p].revokedBy = b  BY <1>3, <2>2
  <2> QED  BY <2>1, <2>2, <2>3, <2>4 DEF RevokerKnown, SessionAt
<1>4. CASE /\ pair'[p].revokedBy = r
           /\ sessionRequest'[r].op = "refresh" => sessionRequest'[r].token = p
  BY <1>4 DEF RevokerKnown, SessionAt, StepOf, OnlyIts
<1> QED  BY <1>2, <1>3, <1>4 DEF StepOf, PairsKept

\* What a step has to do for the cookie.
KeepsCookie(r) ==
    /\ jar' \in {jar, r, NoPair} /\ (jar' = r => Arrived(r)')
    /\ dropped \subseteq dropped' /\ dropped' \subseteq SessionRequests
    /\ SessionAt(r, "new") /\ sessionRequest'[r].op = "refresh" => sessionRequest'[r].token = jar
    /\ /\ sessionRequest'[r].at = "answered" /\ sessionRequest'[r].op = "refresh"
       /\ pair'[r].issued /\ r \notin dropped'
       => jar' = r
    /\ tab' \in [Tabs -> TabRecords]
    /\ \A t \in Tabs, q \in SessionRequests :
         q \in Waits(t)' => q \in Waits(t) \/ (q = r /\ sessionRequest'[r].op \in SignOps)

\* A step that does so keeps the invariant of the cookie.
LEMMA CookieKept ==
    ASSUME SessionsInv, CookieInv, SessionsInv', NEW r \in SessionRequests, StepOf(r), KeepsCookie(r)
    PROVE  CookieInv'
<1>1. /\ jar \in Tokens /\ tab \in [Tabs -> TabRecords] /\ dropped \subseteq SessionRequests
      /\ sessionRequest \in [SessionRequests -> Progress]
      /\ r # NoPair /\ NoPair \notin SessionRequests
  BY BrowserTypeParts, TypeParts, SessionsAssumption DEF CookieInv, SessionsInv
<1>2. Arrived(jar) /\ WaitsSign /\ \A q \in SessionRequests : Replaced(q)  BY DEF CookieInv
<1>3. BrowserTypeOK'
  <2>1. SessionsTypeOK' /\ jar' \in Tokens  BY <1>1 DEF SessionsInv, KeepsCookie, Tokens
  <2> QED  BY <2>1 DEF BrowserTypeOK, KeepsCookie, TabRecords, Tokens
<1>4. (Arrived(jar))'
  <2>1. CASE jar' = jar
    <3>1. PICK p \in Tokens : p = jar  BY <1>1
    <3>2. Arrived(p)'  BY <1>2, <3>1, ArrivedStays
    <3> QED  BY <2>1, <3>1, <3>2
  <2>2. CASE jar' = r  BY <2>2 DEF KeepsCookie
  <2>3. CASE jar' = NoPair  BY <2>3 DEF Arrived
  <2> QED  BY <2>1, <2>2, <2>3 DEF KeepsCookie
<1>5. WaitsSign'
  <2> SUFFICES ASSUME NEW t \in Tabs, NEW q \in Waits(t)'
               PROVE  sessionRequest'[q].op \in SignOps
    BY DEF WaitsSign
  <2>1. q \in SessionRequests
    <3>1. tab'[t] \in TabRecords  BY DEF KeepsCookie
    <3> QED  BY <3>1 DEF Waits, TabRecords, Tokens
  <2>2. CASE q = r /\ sessionRequest'[r].op \in SignOps  BY <2>2
  <2>3. CASE q \in Waits(t)
    <3>1. sessionRequest[q].op \in SignOps  BY <1>2, <2>3 DEF WaitsSign
    <3>2. sessionRequest[q].at # "new"
      BY <2>1, <3>1 DEF SessionsInv, RequestInv, RequestLinked, SignOps
    <3>3. sessionRequest'[q].op = sessionRequest[q].op
      BY <2>1, <3>2 DEF StepOf, OnlyIts
    <3> QED  BY <3>1, <3>3
  <2> QED  BY <2>1, <2>2, <2>3 DEF KeepsCookie
<1>6. ASSUME NEW q \in SessionRequests PROVE Replaced(q)'
  <2> SUFFICES ASSUME sessionRequest'[q].op = "refresh"
               PROVE  /\ (Arrived(sessionRequest[q].token))'
                      /\ SessionAt(q, "answered")' /\ pair'[q].issued /\ q \notin dropped' =>
                           jar' # sessionRequest'[q].token
    BY DEF Replaced
  <2>1. PICK p \in Tokens : p = sessionRequest'[q].token
    BY TypeParts DEF SessionsInv, SessionsTypeOK, Tokens
  <2>2. Arrived(p)
    <3>1. CASE q = r /\ SessionAt(q, "new")  BY <1>2, <2>1, <3>1 DEF KeepsCookie
    <3>2. CASE ~(q = r /\ SessionAt(q, "new"))
      <4>1. sessionRequest'[q].op = sessionRequest[q].op /\ p = sessionRequest[q].token
        BY <2>1, <3>2 DEF StepOf, OnlyIts, SessionAt
      <4>2. Replaced(q)  BY <1>2
      <4> QED  BY <4>1, <4>2 DEF Replaced
    <3> QED  BY <3>1, <3>2
  <2>3. Arrived(p)'  BY <2>2, ArrivedStays
  <2>4. p # r  BY <1>1, <2>2 DEF Arrived, StepOf, OnlyIts, SessionAt
  <2>5. SessionAt(q, "answered")' /\ pair'[q].issued /\ q \notin dropped' => jar' # p
    <3> SUFFICES ASSUME SessionAt(q, "answered")', pair'[q].issued, q \notin dropped'
                 PROVE  jar' # p
      OBVIOUS
    <3>1. CASE q = r  BY <2>4, <3>1 DEF KeepsCookie, SessionAt
    <3>2. CASE q # r
      <4>1. sessionRequest'[q] = sessionRequest[q] /\ pair[q].issued /\ q \notin dropped
        BY <3>2 DEF StepOf, OnlyIts, PairsKept, KeepsCookie
      <4>2. jar # p  BY <1>2, <2>1, <4>1 DEF Replaced, SessionAt
      <4>3. p # NoPair
        <5>1. TokenTaken(q) /\ Exchanges(q)
          BY <4>1 DEF SessionsInv, RequestInv, Exchanges
        <5> QED  BY <1>1, <2>1, <4>1, <5>1 DEF TokenTaken
      <4> QED  BY <2>4, <4>2, <4>3 DEF KeepsCookie
    <3> QED  BY <3>1, <3>2
  <2> QED  BY <2>1, <2>3, <2>5
<1>7. \A p \in SessionRequests : RevokerKnown(p)'  BY RevokersKept
<1> QED  BY <1>3, <1>4, <1>5, <1>6, <1>7 DEF CookieInv

\* The server leaves it to the browser to take an answer.
LEMMA NeverAnswers ==
    ASSUME SessionsInv, NEW r \in SessionRequests, SessionStep(r) \/ SessionInterrupted(r)
    PROVE  sessionRequest[r].at # "new" /\ sessionRequest'[r].at # "answered"
<1>1. sessionRequest \in [SessionRequests -> Progress]  BY TypeParts DEF SessionsInv
<1>2. \A step : SessionGoto(r, step) => sessionRequest'[r].at = step
  BY <1>1 DEF SessionGoto, Progress
<1>3. CASE \E op \in {"login", "refresh", "switch"} : ReadUser(r, op)
  <2>1. sessionRequest[r] \in Progress  BY <1>1
  <2> QED  BY <1>1, <1>2, <1>3, <2>1 DEF ReadUser, BeginSession, SessionAt, Progress
<1>4. CASE ReadMembership(r)
  BY <1>1, <1>2, <1>4 DEF ReadMembership, SessionAt, Progress
<1>5. CASE ReadStatus(r)
  <2> DEFINE step == IF Suspended(r) THEN "refused" ELSE WriteStep(sessionRequest[r].op)
  <2>1. sessionRequest[r].at = "status" /\ SessionGoto(r, step)
    BY <1>5 DEF ReadStatus, SessionAt
  <2>2. sessionRequest[r].op \in SignOps
    BY <2>1 DEF SessionsInv, RequestInv, RequestLinked
  <2>3. step # "answered"  BY <2>2 DEF WriteStep, SignOps
  <2> HIDE DEF step
  <2> QED  BY <1>2, <2>1, <2>3
<1>6. CASE BumpVersion(r)
  BY <1>1, <1>6 DEF BumpVersion, SessionAt, Progress
<1>7. CASE RotateToken(r) \/ RevokeUser(r) \/ IssuePair(r) \/ ReadMembers(r) \/ RevokeMembers(r) \/
           ToggleWrite(r) \/ SessionInterrupted(r)
  BY <1>2, <1>7 DEF RotateToken, RevokeUser, IssuePair, ReadMembers, RevokeMembers, ToggleWrite,
     SessionInterrupted, SessionAt
<1>8. CASE LogoutToken(r) \/ SuspendOrg(r) \/ ReactivateOrg(r) \/ LeaveOrg(r) \/ ToggleRead(r)
  BY <1>2, <1>8 DEF LogoutToken, SuspendOrg, ReactivateOrg, LeaveOrg, ToggleRead, BeginSession,
     SessionAt
<1> QED  BY <1>3, <1>4, <1>5, <1>6, <1>7, <1>8 DEF SessionStep

---------------------------------------------------------------------------
(* The steps of the browser *)

\* A request that a tab sends.
LEMMA TabSends ==
    ASSUME SessionsInv, CookieInv, NEW t \in Tabs, NEW r \in SessionRequests, NEW op \in Ops,
           NEW token \in Tokens, NEW org \in Orgs, Send(r, op, token, org),
           op = "refresh" => token = jar,
           NEW new, WaitsFor(t, new, IF op \in SignOps THEN {r} ELSE {}),
           jar' = jar, dropped \subseteq dropped', dropped' \subseteq SessionRequests
    PROVE  SessionsInv' /\ CookieInv'
<1>1. /\ SessionsInv' /\ StepOf(r) /\ SessionAt(r, "sent")'
      /\ sessionRequest'[r].op = op /\ sessionRequest'[r].token = token
  BY SendKeeps
<1>2. BrowserTypeOK  BY DEF CookieInv
<1> DEFINE more == IF op \in SignOps THEN {r} ELSE {}
<1>3. /\ tab' \in [Tabs -> TabRecords]
      /\ \A u \in Tabs : Waits(u)' \subseteq Waits(u) \cup more
  BY <1>2, TabMoves
<1>4. \A q \in more : q = r /\ op \in SignOps  OBVIOUS
<1> HIDE DEF more
<1>5. \A u \in Tabs, q \in SessionRequests :
        q \in Waits(u)' => q \in Waits(u) \/ (q = r /\ sessionRequest'[r].op \in SignOps)
  BY <1>1, <1>3, <1>4
<1>6. KeepsCookie(r)
  <2>1. jar' = r => Arrived(r)'
    <3>1. r # NoPair  BY SessionsAssumption
    <3>2. Arrived(jar)  BY DEF CookieInv
    <3> QED  BY <1>1, <3>1, <3>2 DEF Arrived, StepOf, OnlyIts, SessionAt
  <2> QED  BY <1>1, <1>3, <1>5, <2>1 DEF KeepsCookie, SessionAt
<1> QED  BY <1>1, <1>6, CookieKept

\* A tab that is told of an answer.
LEMMA TabAnswered ==
    ASSUME SessionsInv, CookieInv, NEW t \in Tabs, NEW r \in SessionRequests, Answers(r),
           NEW new, WaitsFor(t, new, {}),
           jar' \in {jar, r}, jar' = r => pair[r].issued,
           dropped \subseteq dropped', dropped' \subseteq SessionRequests,
           pair[r].issued => jar' = r \/ r \in dropped'
    PROVE  SessionsInv' /\ CookieInv'
<1>1. /\ SessionsInv' /\ StepOf(r)
      /\ sessionRequest'[r].at = "answered" /\ pair' = pair
      /\ sessionRequest[r].at # "new"
  BY AnswerKeeps DEF Answers
<1>2. BrowserTypeOK  BY DEF CookieInv
<1>3. /\ tab' \in [Tabs -> TabRecords]
      /\ \A u \in Tabs : Waits(u)' \subseteq Waits(u) \cup {}
  BY <1>2, TabMoves
<1>4. jar' = r => Arrived(r)'  BY <1>1 DEF Arrived, SessionAt
<1>5. KeepsCookie(r)
  BY <1>1, <1>3, <1>4 DEF KeepsCookie, SessionAt
<1> QED  BY <1>1, <1>5, CookieKept

\* A tab that is refused, or whose answer is lost, keeps the cookie.
LEMMA TabRefused ==
    ASSUME SessionsInv, CookieInv, NEW t \in Tabs, NEW r \in SessionRequests, Answers(r),
           r \in Waits(t), tab' = [tab EXCEPT ![t] = Refused(t, r)], jar' = jar,
           dropped \subseteq dropped', dropped' \subseteq dropped \cup Waits(t),
           pair[r].issued => r \in dropped'
    PROVE  SessionsInv' /\ CookieInv'
<1>1. /\ tab[t] \in TabRecords /\ dropped \subseteq SessionRequests
      /\ NoPair \in Tokens
  BY BrowserTypeParts DEF CookieInv, Tokens
<1> DEFINE new == Refused(t, r)
<1>2. new \in TabRecords /\ {new.restore, new.refresh, new.sign} \ {NoPair} \subseteq Waits(t)
  <2>1. CASE r = tab[t].sign
    <3>1. new = [tab[t] EXCEPT !.sign = NoPair]  BY <2>1 DEF Refused
    <3> HIDE DEF new
    <3> QED  BY <1>1, <3>1 DEF TabRecords, Waits
  <2>2. CASE r # tab[t].sign /\ r = tab[t].restore
    <3>1. new = [tab[t] EXCEPT !.page = "login", !.token = NoPair, !.restore = NoPair]
      BY <2>2 DEF Refused
    <3> HIDE DEF new
    <3> QED  BY <1>1, <3>1 DEF TabRecords, Waits
  <2>3. CASE r # tab[t].sign /\ r # tab[t].restore
    <3>1. new = ClosedTab  BY <2>3 DEF Refused
    <3> HIDE DEF new
    <3> QED  BY <1>1, <3>1 DEF ClosedTab, TabRecords, Tokens
  <2> QED  BY <2>1, <2>2, <2>3
<1>3. WaitsFor(t, new, {})  BY <1>2 DEF WaitsFor
<1>4. dropped' \subseteq SessionRequests
  <2>1. Waits(t) \subseteq SessionRequests  BY <1>1 DEF Waits, TabRecords, Tokens
  <2> QED  BY <1>1, <2>1
<1> HIDE DEF new
<1>5. jar' \in {jar, r} /\ (jar' = r => pair[r].issued)
  <2>1. r # NoPair  BY SessionsAssumption
  <2>2. Arrived(jar)  BY DEF CookieInv
  <2> QED  BY <2>1, <2>2 DEF Arrived
<1> QED  BY <1>3, <1>4, <1>5, TabAnswered

\* What tabs send and take keeps both invariants.
LEMMA TabKeeps ==
    ASSUME SessionsInv, CookieInv, NEW t \in Tabs, NEW r \in SessionRequests,
           \/ TabLoads(t, r) \/ TabUnauthorized(t, r) \/ TabLogsIn(t, r)
           \/ TabSwitches(t, r) \/ TabLogsOut(t, r)
           \/ SessionArrives(t, r) \/ RefusalArrives(t, r) \/ AnswerLost(t, r)
    PROVE  SessionsInv' /\ CookieInv'
<1> DEFINE my == tab[t]
<1>1. /\ my \in TabRecords /\ jar \in Tokens /\ dropped \subseteq SessionRequests
      /\ NoPair \in Tokens /\ r \in Tokens /\ FirstOrg \in Orgs /\ my.token \in Tokens
      /\ Waits(t) \subseteq SessionRequests
  BY BrowserTypeParts DEF CookieInv, Tokens, Orgs, TabRecords, Waits
<1>2. Waits(t) = {my.restore, my.refresh, my.sign} \ {NoPair}  BY DEF Waits
<1> HIDE DEF my
<1>3. CASE TabLoads(t, r)
  <2> DEFINE new == [ClosedTab EXCEPT !.page = "loading", !.restore = r]
  <2>1. /\ new \in TabRecords /\ new.restore = r /\ new.refresh = NoPair /\ new.sign = NoPair
    BY <1>1 DEF ClosedTab, TabRecords
  <2>2. /\ Send(r, "refresh", jar, FirstOrg) /\ tab' = [tab EXCEPT ![t] = new]
        /\ jar' = jar /\ dropped' = dropped \cup Waits(t)
    BY <1>3 DEF TabLoads
  <2> HIDE DEF new
  <2>3. WaitsFor(t, new, {r})  BY <2>1, <2>2 DEF WaitsFor
  <2> QED  BY <1>1, <2>2, <2>3, TabSends DEF SignOps, Ops
<1>4. CASE TabUnauthorized(t, r)
  <2> DEFINE new == [my EXCEPT !.refresh = r]
  <2>1. new \in TabRecords /\ {new.restore, new.refresh, new.sign} \subseteq {my.restore, r, my.sign}
    BY <1>1 DEF TabRecords
  <2>2. /\ Send(r, "refresh", jar, FirstOrg) /\ tab' = [tab EXCEPT ![t] = new]
        /\ jar' = jar /\ dropped' = dropped
    BY <1>4 DEF TabUnauthorized, my
  <2> HIDE DEF new
  <2>3. WaitsFor(t, new, {r})  BY <1>2, <2>1, <2>2 DEF WaitsFor
  <2> QED  BY <1>1, <2>2, <2>3, TabSends DEF SignOps, Ops
<1>5. CASE TabLogsIn(t, r) \/ TabSwitches(t, r)
  <2> DEFINE new == [my EXCEPT !.sign = r]
  <2>1. new \in TabRecords /\ {new.restore, new.refresh, new.sign} \subseteq {my.restore, my.refresh, r}
    BY <1>1 DEF TabRecords
  <2>2. tab' = [tab EXCEPT ![t] = new] /\ jar' = jar /\ dropped' = dropped
    BY <1>5 DEF TabLogsIn, TabSwitches, my
  <2> HIDE DEF new
  <2>3. WaitsFor(t, new, {r})  BY <1>2, <2>1, <2>2 DEF WaitsFor
  <2>4. CASE TabLogsIn(t, r)
    <3>1. PICK org \in Orgs : Send(r, "login", NoPair, org)  BY <2>4 DEF TabLogsIn
    <3> QED  BY <1>1, <2>2, <2>3, <3>1, TabSends DEF SignOps, Ops
  <2>5. CASE TabSwitches(t, r)
    <3>1. PICK org \in Orgs : Send(r, "switch", my.token, org)  BY <2>5 DEF TabSwitches, my
    <3> QED  BY <1>1, <2>2, <2>3, <3>1, TabSends DEF SignOps, Ops
  <2> QED  BY <1>5, <2>4, <2>5
<1>6. CASE TabLogsOut(t, r)
  <2> DEFINE new == [my EXCEPT !.page = "login", !.token = NoPair]
  <2>1. /\ new \in TabRecords /\ new.restore = my.restore /\ new.refresh = my.refresh
        /\ new.sign = my.sign
    BY <1>1 DEF TabRecords
  <2>2. /\ Send(r, "logout", jar, FirstOrg) /\ tab' = [tab EXCEPT ![t] = new]
        /\ jar' = jar /\ dropped' = dropped
    BY <1>6 DEF TabLogsOut, my
  <2> HIDE DEF new
  <2>3. WaitsFor(t, new, {})  BY <1>2, <2>1, <2>2 DEF WaitsFor
  <2> QED  BY <1>1, <2>2, <2>3, TabSends DEF SignOps, Ops
<1>7. CASE SessionArrives(t, r)
  <2> DEFINE page == IF r = my.refresh THEN my.page ELSE "ready"
             restore == IF my.restore = r THEN NoPair ELSE my.restore
             refresh == IF my.refresh = r THEN NoPair ELSE my.refresh
             sign == IF my.sign = r THEN NoPair ELSE my.sign
             new == [my EXCEPT !.token = r, !.page = page, !.restore = restore,
                               !.refresh = refresh, !.sign = sign]
  <2>1. /\ sessionRequest[r].at = "done" /\ r \in Waits(t) /\ jar' = r /\ dropped' = dropped
        /\ tab' = [tab EXCEPT ![t] = new] /\ Answers(r)
    BY <1>7 DEF SessionArrives, Succeeded, SessionAt, JarAfter, Answers, my
  <2>2. sessionRequest[r].op \in SignOps  BY <2>1 DEF CookieInv, WaitsSign
  <2>3. pair[r].issued  BY <2>1, <2>2 DEF SessionsInv, RequestInv, RequestLinked
  <2>4. /\ page \in {"closed", "loading", "ready", "login"}
        /\ restore \in Tokens /\ restore \in {my.restore, NoPair}
        /\ refresh \in Tokens /\ refresh \in {my.refresh, NoPair}
        /\ sign \in Tokens /\ sign \in {my.sign, NoPair}
    BY <1>1 DEF TabRecords
  <2> HIDE DEF page, restore, refresh, sign
  <2>5. /\ new \in TabRecords /\ new.restore = restore /\ new.refresh = refresh
        /\ new.sign = sign
    BY <1>1, <2>4 DEF TabRecords
  <2> HIDE DEF new
  <2>6. WaitsFor(t, new, {})  BY <1>2, <2>1, <2>4, <2>5 DEF WaitsFor
  <2> QED  BY <1>1, <2>1, <2>3, <2>6, TabAnswered
<1>8. CASE RefusalArrives(t, r)
  <2>1. /\ sessionRequest[r].at \in {"refused", "failed"} /\ r \in Waits(t)
        /\ tab' = [tab EXCEPT ![t] = Refused(t, r)] /\ jar' = jar /\ Answers(r)
        /\ dropped \subseteq dropped' /\ dropped' \subseteq dropped \cup Waits(t)
    BY <1>8 DEF RefusalArrives, Answers
  <2>2. ~pair[r].issued  BY <2>1, Unissued
  <2> QED  BY <2>1, <2>2, TabRefused
<1>9. CASE AnswerLost(t, r)
  <2>1. /\ sessionRequest[r].at = "done" /\ r \in Waits(t)
        /\ tab' = [tab EXCEPT ![t] = Refused(t, r)] /\ jar' = jar /\ Answers(r)
        /\ dropped \subseteq dropped' /\ dropped' \subseteq dropped \cup Waits(t)
        /\ r \in dropped'
    BY <1>9 DEF AnswerLost, Answers, Succeeded, SessionAt
  <2> QED  BY <2>1, TabRefused
<1> QED  BY <1>3, <1>4, <1>5, <1>6, <1>7, <1>8, <1>9

\* So do the server, other devices and the answer of a logout.
LEMMA ServerAndOthersKeep ==
    ASSUME SessionsInv, CookieInv, NEW r \in SessionRequests,
           ServerStep(r) \/ ElsewhereLogsIn(r) \/ LogoutArrives(r)
    PROVE  SessionsInv' /\ CookieInv'
<1>1. /\ tab \in [Tabs -> TabRecords] /\ dropped \subseteq SessionRequests
      /\ NoPair \in Tokens
  BY BrowserTypeParts DEF CookieInv, Tokens
<1>2. tab' = tab => \A t \in Tabs : Waits(t)' = Waits(t)  BY DEF Waits
<1>3. ASSUME SessionsInv', StepOf(r), UNCHANGED <<tab, dropped>>,
             jar' = jar \/ (jar' = NoPair /\ sessionRequest[r].op = "logout"),
             SessionAt(r, "new") => sessionRequest'[r].op # "refresh",
             sessionRequest'[r].at = "answered" => sessionRequest'[r].op # "refresh"
      PROVE  CookieInv'
  <2>1. r # NoPair  BY SessionsAssumption
  <2>2. Arrived(jar) /\ ~SessionAt(r, "answered")
    BY <1>3 DEF CookieInv, StepOf, OnlyIts, SessionAt
  <2>3. jar' # r  BY <1>3, <2>1, <2>2 DEF Arrived
  <2>4. KeepsCookie(r)  BY <1>1, <1>2, <1>3, <2>3 DEF KeepsCookie
  <2> QED  BY <1>3, <2>4, CookieKept
<1>4. CASE (SessionStep(r) \/ SessionInterrupted(r)) /\ UNCHANGED <<jar, tab, dropped>>
  <2>1. SessionsInv' /\ StepOf(r)  BY <1>4, ServerKeeps
  <2>2. sessionRequest[r].at # "new" /\ sessionRequest'[r].at # "answered"
    BY <1>4, NeverAnswers
  <2> QED  BY <1>3, <1>4, <2>1, <2>2 DEF SessionAt
<1>5. CASE AdminSends(r) /\ UNCHANGED <<jar, tab, dropped>>
  <2>1. SessionsInv' /\ StepOf(r) /\ sessionRequest'[r].op # "refresh"  BY <1>5, AdminSendsKeep
  <2> QED  BY <1>3, <1>5, <2>1
<1>6. CASE ElsewhereLogsIn(r)
  <2>1. PICK org \in Orgs : Send(r, "login", NoPair, org)  BY <1>6 DEF ElsewhereLogsIn
  <2>2. SessionsInv' /\ StepOf(r) /\ sessionRequest'[r].op # "refresh"
    BY <1>1, <2>1, SendKeeps DEF Ops
  <2> QED  BY <1>3, <1>6, <2>2 DEF ElsewhereLogsIn
<1>7. CASE LogoutArrives(r)
  <2>1. sessionRequest[r].at = "done" /\ sessionRequest[r].op = "logout" /\ Answers(r)
    BY <1>7 DEF LogoutArrives, Succeeded, SessionAt, Answers
  <2>2. /\ SessionsInv' /\ StepOf(r) /\ sessionRequest'[r].op = sessionRequest[r].op
    BY <2>1, AnswerKeeps DEF Answers
  <2> QED  BY <1>3, <1>7, <2>1, <2>2 DEF LogoutArrives, SessionAt
<1> QED  BY <1>4, <1>5, <1>6, <1>7 DEF ServerStep

---------------------------------------------------------------------------
(* The theorems *)

\* Every step of the browser and of the server keeps both invariants.
LEMMA NextKeeps ==
    ASSUME SessionsInv, CookieInv, [BrowserNext]_browserVars
    PROVE  SessionsInv' /\ CookieInv'
<1>1. CASE BrowserNext
  <2>1. PICK r \in SessionRequests :
          \/ ServerStep(r) \/ ElsewhereLogsIn(r) \/ LogoutArrives(r)
          \/ \E t \in Tabs :
               \/ TabLoads(t, r) \/ TabUnauthorized(t, r) \/ TabLogsIn(t, r)
               \/ TabSwitches(t, r) \/ TabLogsOut(t, r)
               \/ SessionArrives(t, r) \/ RefusalArrives(t, r) \/ AnswerLost(t, r)
    BY <1>1, BrowserStep
  <2> QED  BY <2>1, ServerAndOthersKeep, TabKeeps
<1>2. CASE UNCHANGED browserVars
  <2>1. UNCHANGED <<userActive, memberOf, orgStatus, tokenVersion, pair, sessionRequest, before,
                    jar, tab, dropped>>
    BY <1>2 DEF browserVars, sessionVars, userVars
  <2>2. SessionsInv'
    <3>1. SessionsTypeOK'  BY <2>1 DEF SessionsInv, SessionsTypeOK
    <3>2. ASSUME NEW r \in SessionRequests PROVE RequestInv(r)'
      BY <2>1 DEF SessionsInv, RequestInv, RequestLinked, TokenTaken, ExchangedFirst,
         RevocationDone, Exchanges, Outdates, Ended
    <3> QED  BY <3>1, <3>2 DEF SessionsInv
  <2>3. CookieInv'
    <3>1. BrowserTypeOK'  BY <2>1 DEF CookieInv, BrowserTypeOK, SessionsTypeOK
    <3>2. (Arrived(jar))' /\ WaitsSign'
      BY <2>1 DEF CookieInv, Arrived, WaitsSign, Waits, SessionAt
    <3>3. ASSUME NEW r \in SessionRequests PROVE RevokerKnown(r)' /\ Replaced(r)'
      BY <2>1 DEF CookieInv, RevokerKnown, Replaced, Arrived, SessionAt
    <3> QED  BY <3>1, <3>2, <3>3 DEF CookieInv
  <2> QED  BY <2>2, <2>3
<1> QED  BY <1>1, <1>2

\* The earlier of two exchanges that did not overlap excludes the other.
LEMMA ExchangesKnown ==
    ASSUME SessionsInv
    PROVE  ExchangedOnce
<1> SUFFICES ASSUME NEW r \in SessionRequests, NEW s \in SessionRequests, r # s,
                    sessionRequest[r].op = "refresh", sessionRequest[s].op = "refresh",
                    sessionRequest[r].token = sessionRequest[s].token,
                    pair[r].issued, pair[s].issued
             PROVE  r \notin before[s] /\ s \notin before[r]
  BY DEF ExchangedOnce, Overlapped
<1>1. Exchanges(r) /\ Exchanges(s)  BY DEF Exchanges
<1>2. ExchangedFirst(r) /\ ExchangedFirst(s)  BY DEF SessionsInv, RequestInv
<1> QED  BY <1>1, <1>2 DEF ExchangedFirst

\* What was found is outdated and revoked.
LEMMA RevocationsKnown ==
    ASSUME SessionsInv
    PROVE  RevocationEndsSessions
<1> SUFFICES ASSUME NEW v \in SessionRequests, NEW p \in SessionRequests,
                    sessionRequest[v].op \in {"switch", "suspend"}, sessionRequest[v].at = "done",
                    p \in before[v], pair[p].issued,
                    sessionRequest[v].op = "suspend" => sessionRequest[v].org \in memberOf
             PROVE  ~Live(p) /\ ~Accepted(p)
  BY DEF RevocationEndsSessions, SessionAt
<1>1. Outdates(v) /\ RevocationDone(v)  BY DEF Outdates, SessionsInv, RequestInv
<1>2. pair[p].version < tokenVersion /\ pair[p].revokedBy # NoPair
  BY <1>1 DEF RevocationDone
<1>3. pair[p].version \in Nat /\ tokenVersion \in Nat
  BY TypeParts DEF SessionsInv, Pairs
<1>4. pair[p].version # tokenVersion  BY <1>2, <1>3
<1> QED  BY <1>2, <1>4 DEF Live, Accepted

\* The exchange of a cookie that arrived has replaced it.
LEMMA CookieKnown ==
    ASSUME SessionsInv, CookieInv
    PROVE  CookieUsable
<1> SUFFICES ASSUME jar # NoPair, ~Live(jar)
             PROVE  LET by == pair[jar].revokedBy
                    IN \/ sessionRequest[by].op # "refresh"
                       \/ ~pair[by].issued \/ ~SessionAt(by, "answered") \/ by \in dropped
  BY DEF CookieUsable
<1>1. jar \in SessionRequests /\ pair[jar].issued  BY DEF CookieInv, Arrived
<1>2. pair[jar].revokedBy # NoPair /\ pair[jar].revokedBy \in Tokens
  BY <1>1, TypeParts DEF Live, SessionsInv, Pairs
<1>3. PICK by \in SessionRequests : by = pair[jar].revokedBy  BY <1>2 DEF Tokens
<1>4. RevokerKnown(jar) /\ Replaced(by)  BY <1>1 DEF CookieInv
<1> QED  BY <1>2, <1>3, <1>4 DEF RevokerKnown, Replaced

\* Both invariants hold in every state.
LEMMA BothInvariant == BrowserSpec => [](SessionsInv /\ CookieInv)
<1>1. SessionsInv /\ CookieInv /\ [BrowserNext]_browserVars => (SessionsInv /\ CookieInv)'
  BY NextKeeps
<1> QED  BY <1>1, InitInv, PTL DEF BrowserSpec

\* The variables of the sessions and of the browser have their types.
THEOREM SessionsTyped == BrowserSpec => []BrowserTypeOK
<1>1. SessionsInv /\ CookieInv => BrowserTypeOK  BY DEF CookieInv
<1> QED  BY <1>1, BothInvariant, PTL

\* A refresh token is exchanged once, unless two exchanges of it overlapped
\* (auth.service.ts:275-335).
THEOREM TokensExchangedOnce == BrowserSpec => []ExchangedOnce
<1> QED  BY BothInvariant, ExchangesKnown, PTL

\* A switch or a suspension ends the sessions it found, whatever overlaps it
\* (auth.service.ts:359-371, 422-441; admin.service.ts).
THEOREM RevocationsEnd == BrowserSpec => []RevocationEndsSessions
<1> QED  BY BothInvariant, RevocationsKnown, PTL

\* The cookie of the browser can be exchanged, unless something the user or an
\* administrator did, or an answer that did not arrive, used it up
\* (api.ts:188-218, AuthContext.tsx:95-113).
THEOREM CookieStaysUsable == BrowserSpec => []CookieUsable
<1> QED  BY BothInvariant, CookieKnown, PTL
=============================================================================
