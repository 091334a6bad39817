---------------------------- MODULE Connections ----------------------------
(***************************************************************************)
(* The integration connections of one organization                         *)
(* (routes/connections.ts, integrations/verify.ts, lib/pkce.ts): an OAuth  *)
(* round trip through a single-use state row, a pasted API key that the    *)
(* provider checks first, and the office's disconnect, each a sequence of  *)
(* statements and provider calls that run beside the others.               *)
(*                                                                         *)
(* An authorization is numbered; its number also stands for its state, its *)
(* code verifier and the tokens its code is exchanged for.  A redirect of  *)
(* the browser may arrive more than once.                                  *)
(***************************************************************************)
EXTENDS Naturals, FiniteSets

CONSTANTS
    LinkHandler,        \* requests that run at once
    OAuthProvider,      \* providers of the catalog that connect by OAuth
    KeyProvider,        \* providers that connect by an API key
    Key,                \* keys an operator may paste
    NoLink,             \* no row
    MaxAuthorizations,  \* bound: round trips started
    MaxLinkActs,        \* bound: keys pasted, disconnects and interests
    MaxLinkFaults       \* bound: crashes, refusals and lost answers

Provider == OAuthProvider \cup KeyProvider
Authorization == 1..MaxAuthorizations

\* The catalog lists a provider under one way to connect; no row is not a row.
ASSUME LinkAssumption ==
    /\ OAuthProvider \cap KeyProvider = {} /\ MaxAuthorizations \in Nat
    /\ NoLink \notin [provider : OAuthProvider, consumed : BOOLEAN]

VARIABLES
    connection,     \* IntegrationConnection, by provider
    interest,       \* IntegrationInterest, by provider
    authorization,  \* OAuthAuthorization, by number
    lapsed,         \* authorizations past their expiresAt
    consent,        \* provider: what the operator answered
    redeemed,       \* provider: codes exchanged for tokens
    good,           \* provider: keys it accepts
    conn,           \* the requests under way
    exchanges,      \* history: times the code of a state was sent for exchange
    raced,          \* history: states two callbacks had found at once
    linkActs, linkFaults

rowVars == <<connection, interest, authorization>>
providerVars == <<lapsed, consent, redeemed, good>>
linkCounts == <<linkActs, linkFaults>>
linkVars == <<rowVars, providerVars, conn, exchanges, raced, linkCounts>>

IdleLink == [pc |-> "idle", provider |-> NoLink, of |-> NoLink]

Connected(credential) == [status |-> "connected", credential |-> credential]
NeedsAttention(row) == [row EXCEPT !.status = "needs_attention"]

LinkInit ==
    /\ connection = [p \in Provider |-> NoLink] /\ interest = {}
    /\ authorization = [n \in Authorization |-> NoLink] /\ lapsed = {}
    /\ consent = [n \in Authorization |-> "none"] /\ redeemed = {}
    /\ good \in SUBSET Key
    /\ conn = [h \in LinkHandler |-> IdleLink]
    /\ exchanges = [n \in Authorization |-> 0] /\ raced = {}
    /\ linkActs = 0 /\ linkFaults = 0

LinkAt(h, point) == conn[h].pc = point
LinkTo(h, point) == conn' = [conn EXCEPT ![h].pc = point]
Begin(h, point, p, of) == conn' = [conn EXCEPT ![h] = [pc |-> point, provider |-> p, of |-> of]]
LinkEnds(h) == conn' = [conn EXCEPT ![h] = IdleLink]

LinkFault == linkFaults < MaxLinkFaults /\ linkFaults' = linkFaults + 1 /\ UNCHANGED linkActs
LinkAct == linkActs < MaxLinkActs /\ linkActs' = linkActs + 1 /\ UNCHANGED linkFaults

-----------------------------------------------------------------------------
(* The OAuth round trip *)

\* GET /:provider/oauth/start writes the state row and answers with the provider's URL.
StartConsent(p, n) ==
    /\ authorization[n] = NoLink /\ \A i \in 1..(n - 1) : authorization[i] # NoLink
    /\ authorization' = [authorization EXCEPT ![n] = [provider |-> p, consumed |-> FALSE]]
    /\ consent' = [consent EXCEPT ![n] = "asked"]
    /\ UNCHANGED <<connection, interest, lapsed, redeemed, good, conn, exchanges, raced,
                   linkCounts>>

\* The operator approves or declines at the provider, which redirects the browser.
AnswerConsent(n) ==
    /\ consent[n] = "asked"
    /\ \E answer \in {"approved", "declined"} : consent' = [consent EXCEPT ![n] = answer]
    /\ UNCHANGED <<rowVars, lapsed, redeemed, good, conn, exchanges, raced, linkCounts>>

\* Ten minutes pass.
ExpireConsent(n) ==
    /\ authorization[n] # NoLink /\ n \notin lapsed
    /\ lapsed' = lapsed \cup {n}
    /\ UNCHANGED <<rowVars, consent, redeemed, good, conn, exchanges, raced, linkCounts>>

\* Mutant of Usable: the mark of an earlier callback is not looked at.
UsableAgain(n) == n \notin lapsed

Usable(n) == ~ authorization[n].consumed /\ n \notin lapsed

\* GET /oauth/callback/:provider reads the state row; every refusal leaves it as it was.
FindAuthorization(h, n) ==
    /\ LinkAt(h, "idle") /\ consent[n] \in {"approved", "declined"} /\ Usable(n)
    /\ Begin(h, "consume", authorization[n].provider, n)
    /\ raced' = IF \E g \in LinkHandler : LinkAt(g, "consume") /\ conn[g].of = n
                  THEN raced \cup {n} ELSE raced
    /\ UNCHANGED <<rowVars, providerVars, exchanges, linkCounts>>

\* "Single use, whatever happens next": an update by id, whatever the row holds by now.
Consume(h) ==
    /\ LinkAt(h, "consume")
    /\ authorization' = [authorization EXCEPT ![conn[h].of].consumed = TRUE]
    /\ IF consent[conn[h].of] = "declined" THEN LinkEnds(h) ELSE LinkTo(h, "exchange")
    /\ UNCHANGED <<connection, interest, providerVars, exchanges, raced, linkCounts>>

\* exchangeCodeForTokens: the provider redeems a code once.
Exchange(h) ==
    /\ LinkAt(h, "exchange")
    /\ LET n == conn[h].of
       IN  /\ exchanges' = [exchanges EXCEPT ![n] = @ + 1]
           /\ redeemed' = redeemed \cup {n}
           /\ LinkTo(h, IF n \in redeemed THEN "failed" ELSE "upsert")
    /\ UNCHANGED <<rowVars, lapsed, consent, good, raced, linkCounts>>

\* The provider refuses, or redeems the code and its answer is lost.
ExchangeFails(h) ==
    /\ LinkAt(h, "exchange") /\ LinkFault
    /\ LET n == conn[h].of
       IN  /\ exchanges' = [exchanges EXCEPT ![n] = @ + 1]
           /\ redeemed' \in {redeemed, redeemed \cup {n}}
    /\ LinkTo(h, "failed")
    /\ UNCHANGED <<rowVars, lapsed, consent, good, raced>>

\* updateMany on the organization's connection, whichever authorization made it.
MarkFailed(h) ==
    /\ LinkAt(h, "failed")
    /\ LET p == conn[h].provider
       IN  connection' = IF connection[p] = NoLink THEN connection
                           ELSE [connection EXCEPT ![p] = NeedsAttention(@)]
    /\ LinkEnds(h)
    /\ UNCHANGED <<interest, authorization, providerVars, exchanges, raced, linkCounts>>

\* The upsert that both ways in end with.
StoreCredential(h) ==
    /\ LinkAt(h, "upsert")
    /\ connection' = [connection EXCEPT ![conn[h].provider] = Connected(conn[h].of)]
    /\ LinkEnds(h)
    /\ UNCHANGED <<interest, authorization, providerVars, exchanges, raced, linkCounts>>

-----------------------------------------------------------------------------
(* API keys, disconnects and interest *)

\* POST /:provider/api-key; POST /:provider/test stops after the same check.
VerifyKey(h, p, k) ==
    /\ LinkAt(h, "idle") /\ k \in good /\ LinkAct
    /\ \/ Begin(h, "upsert", p, k)
       \/ UNCHANGED conn
    /\ UNCHANGED <<rowVars, providerVars, exchanges, raced>>

\* The provider withdraws a key.
WithdrawKey(k) ==
    /\ k \in good /\ LinkFault
    /\ good' = good \ {k}
    /\ UNCHANGED <<rowVars, lapsed, consent, redeemed, conn, exchanges, raced>>

DisconnectProvider(p) ==
    /\ connection[p] # NoLink /\ LinkAct
    /\ connection' = [connection EXCEPT ![p] = NoLink]
    /\ UNCHANGED <<interest, authorization, providerVars, conn, exchanges, raced>>

RegisterInterest(p) ==
    /\ LinkAct
    /\ interest' = interest \cup {p}
    /\ UNCHANGED <<connection, authorization, providerVars, conn, exchanges, raced>>

\* The process stops between two statements of a request.
LinkCrash(h) ==
    /\ ~ LinkAt(h, "idle") /\ LinkFault
    /\ LinkEnds(h)
    /\ UNCHANGED <<rowVars, providerVars, exchanges, raced>>

ConsentStep(n) ==
    \/ \E p \in OAuthProvider : StartConsent(p, n)
    \/ AnswerConsent(n) \/ ExpireConsent(n)

RequestStep(h) ==
    \/ \E n \in Authorization : FindAuthorization(h, n)
    \/ Consume(h) \/ Exchange(h) \/ ExchangeFails(h) \/ MarkFailed(h) \/ StoreCredential(h)
    \/ \E p \in KeyProvider, k \in Key : VerifyKey(h, p, k)
    \/ LinkCrash(h)

LinkNext ==
    \/ \E n \in Authorization : ConsentStep(n)
    \/ \E h \in LinkHandler : RequestStep(h)
    \/ \E p \in Provider : DisconnectProvider(p) \/ RegisterInterest(p)
    \/ \E k \in Key : WithdrawKey(k)

LinkSpec == LinkInit /\ [][LinkNext]_linkVars

-----------------------------------------------------------------------------
(* Properties *)

\* The consumed mark is written in a statement after the one that reads it: still, the
\* code of a state is exchanged a second time only when a second callback had read the
\* row before the first one marked it.
SentOnceUnlessRaced == \A n \in Authorization : exchanges[n] > 1 => n \in raced

\* A connection asks for attention only after the provider refused or lost an exchange,
\* or two callbacks raced: reloading the page the provider redirected to, declining, or
\* letting a round trip expire never takes a working connection down.
AttentionHasCause ==
    \A p \in OAuthProvider :
        connection[p] # NoLink /\ connection[p].status = "needs_attention"
            => linkFaults > 0 \/ raced # {}

\* What is stored was granted: tokens of a code the operator approved and the provider
\* redeemed, within a round trip that was started for this provider.
CredentialWasGranted ==
    \A p \in OAuthProvider : connection[p] # NoLink =>
        LET n == connection[p].credential
        IN  consent[n] = "approved" /\ n \in redeemed /\ authorization[n].consumed
                /\ authorization[n].provider = p

\* GET /oauth/callback as a whole, whatever runs beside it.
ConnectionIsHonest == SentOnceUnlessRaced /\ AttentionHasCause /\ CredentialWasGranted

\* routes/connections.ts says of the mark "Single use, whatever happens next".
StateIsSingleUse == \A n \in Authorization : exchanges[n] <= 1
=============================================================================
