-------------------------- MODULE LoginServerProofs --------------------------
(* Theorems of the login server, for any clients, accounts, tokens, packets, *)
(* numbers of failing transactions and of restarts.                          *)
EXTENDS LoginServer, FiniteSetTheorems, TLAPS

-----------------------------------------------------------------------------
(* The inductive invariant, part by part.                                    *)

\* What a client began to send is one of the packets.
PacketsKnown == \A s \in Sessions : sent[s] # "nothing" => request[s] \in Requests

\* A session has a token only once its client's password was checked, and has
\* nothing more to read.
TokensHeld ==
  \A s \in Sessions : session_token_[s] # NoToken =>
    /\ phase[s] \in {"writing", "written", "gone"}
    /\ sent[s] = "all" /\ request[s] \in Requests /\ Verified(s)

\* A row has a session that made it, the session's account, and one maker each: the
\* session holds its token.  The account a row let in is its maker's.
RowsHeld ==
  /\ \A t \in Tokens : (maker[t] = NoSession) <=> (account_id[t] = NoAccount)
  /\ \A t \in Tokens : (maker[t] = NoSession) <=> (sessionRow[t] = "none")
  /\ \A t \in Tokens, s \in Sessions : maker[t] = s =>
       session_token_[s] = t /\ request[s].user = account_id[t] /\ admitted[s] = NoAccount
  /\ \A s \in Sessions : admitted[s] # NoAccount =>
       session_token_[s] # NoToken /\ admitted[s] = request[s].user

\* The row of a redirect under way or sent is its session's, or let its player in.
Redirects(s) == phase[s] = "writing" \/ answered[s] # NoToken
RowOf(s) ==
  /\ session_token_[s] \in Tokens
  /\ maker[session_token_[s]] = s \/ admitted[s] = request[s].user
RedirectsHeld ==
  /\ \A s \in Sessions : Redirects(s) => RowOf(s)
  /\ \A s \in Sessions : answered[s] # NoToken => answered[s] = session_token_[s]
  /\ \A s \in Sessions : phase[s] = "written" => answered[s] # NoToken

Core == PacketsKnown /\ TokensHeld /\ RowsHeld /\ RedirectsHeld
IInv == TypeOK /\ Core

-----------------------------------------------------------------------------
(* Types.                                                                    *)

LEMMA InitTypes == Init => TypeOK
BY BoundsAssumption DEF Init, TypeOK

\* The process and its environment keep the types.
LEMMA EnvironmentTypes ==
  ASSUME TypeOK,
         \/ Boot \/ (\E how \in {"down", "failed"} : ProcessEnds(how))
         \/ (\E s \in Sessions : Client(s))
         \/ (\E t \in Tokens : Redeem(t) \/ ExpireToken(t))
  PROVE  TypeOK'
<1>1. CASE Boot
  BY <1>1, BoundsAssumption DEF TypeOK, Boot, Up, clientVars, tokenVars, rowVars
<1>2. ASSUME NEW how \in {"down", "failed"}, ProcessEnds(how) PROVE TypeOK'
  <2>1. phase' \in [Sessions -> {"unborn", "gone"}]
    BY <1>2 DEF ProcessEnds
  <2> QED
    BY <1>2, <2>1 DEF TypeOK, ProcessEnds, clientVars, tokenVars, dbVars, rowVars
<1>3. ASSUME NEW s \in Sessions, Client(s) PROVE TypeOK'
  BY <1>3 DEF TypeOK, Client, Connect, SendHeader, SendPayload, PeerLeaves, procVars,
              clientVars, tokenVars, dbVars, rowVars
<1>4. ASSUME NEW t \in Tokens, Redeem(t) \/ ExpireToken(t) PROVE TypeOK'
  BY <1>4 DEF TypeOK, Redeem, ExpireToken, procVars, clientVars, tokenVars
<1> QED
  BY <1>1, <1>2, <1>3, <1>4

\* The handlers keep the types.
LEMMA HandlerTypes ==
  ASSUME TypeOK, Core, NEW s \in Sessions, Handler(s)
  PROVE  TypeOK'
<1>1. CASE AcceptConnection(s) \/ ReadHeader(s) \/ ReadFails(s) \/ WriteFails(s)
           \/ RedirectSent(s)
  BY <1>1 DEF TypeOK, AcceptConnection, ReadHeader, ReadFails, WriteFails, RedirectSent,
              Enters, procVars, clientVars, tokenVars, dbVars, rowVars
<1>2. CASE ReadHeaderUnder(s) \/ RedirectSentToReset(s)
  BY <1>2, EnvironmentTypes DEF ReadHeaderUnder, RedirectSentToReset
<1>3. CASE Refuse(s)
  BY <1>3, BoundsAssumption DEF TypeOK, Refuse, Enters, procVars, clientVars, tokenVars,
                                       rowVars
<1>4. CASE FailToIssue(s) \/ Issue(s)
  <2>1. sent[s] = "all"
    BY <1>4 DEF FailToIssue, Issue, Processing, Verified, Arrived
  <2>2. request[s].user \in Accounts
    BY <2>1, RequestsAssumption DEF Core, PacketsKnown
  <2>3. PICK t \in Tokens :
          /\ session_token_' = [session_token_ EXCEPT ![s] = t]
          /\ InsertRow(s, t) \/ UNCHANGED rowVars
    BY <1>4 DEF FailToIssue, Issue, generate_session_token
  <2>4. /\ sessionRow' \in [Tokens -> {"none", "live", "expired"}]
        /\ account_id' \in [Tokens -> Accounts \cup {NoAccount}]
        /\ maker' \in [Tokens -> Sessions \cup {NoSession}]
        /\ session_token_' \in [Sessions -> Tokens \cup {NoToken}]
    BY <2>2, <2>3 DEF TypeOK, InsertRow, rowVars
  <2>5. /\ UNCHANGED <<procVars, clientVars, answered, admitted>>
        /\ phase' \in [Sessions -> {"unborn", "queued", "header", "payload", "writing",
                                    "written", "gone"}]
    BY <1>4 DEF TypeOK, FailToIssue, Issue, Enters
  <2>6. faults' \in 0..MaxFaults
    BY <1>4, BoundsAssumption DEF TypeOK, FailToIssue, Issue
  <2> QED
    BY <2>4, <2>5, <2>6 DEF TypeOK, procVars, clientVars
<1>5. CASE WriteCompletes(s)
  BY <1>5 DEF TypeOK, WriteCompletes, Enters, procVars, clientVars, dbVars, rowVars
<1> QED
  BY <1>1, <1>2, <1>3, <1>4, <1>5 DEF Handler

-----------------------------------------------------------------------------
(* The invariant.                                                            *)

\* Steps that move phases forward, or end sessions, and leave clients, tokens and
\* rows alone.
PhaseMoves ==
  /\ UNCHANGED <<clientVars, tokenVars, rowVars, admitted>>
  /\ \A r \in Sessions :
       \/ phase'[r] = phase[r] \/ phase'[r] = "gone"
       \/ phase[r] \in {"unborn", "queued", "header"}
          /\ phase'[r] \in {"queued", "header", "payload"}

LEMMA PhaseMovesKeep ==
  ASSUME TypeOK, Core, PhaseMoves
  PROVE  Core'
<1>1. \A r \in Sessions : Redirects(r)' => Redirects(r)
  BY DEF PhaseMoves, Redirects, tokenVars
<1>2. PacketsKnown' /\ RowsHeld'
  BY DEF Core, PacketsKnown, RowsHeld, PhaseMoves, clientVars, tokenVars, rowVars
<1>3. TokensHeld'
  BY DEF Core, TokensHeld, PhaseMoves, Verified, clientVars, tokenVars
<1>4. RedirectsHeld'
  BY <1>1 DEF Core, RedirectsHeld, RowOf, PhaseMoves, clientVars, tokenVars, rowVars
<1> QED
  BY <1>2, <1>3, <1>4 DEF Core

\* Which steps those are: the end of the process ...
LEMMA EndMoves ==
  ASSUME NEW how, ProcessEnds(how)
  PROVE  PhaseMoves
BY DEF ProcessEnds, PhaseMoves, dbVars

\* ... and the handlers that neither issue a token nor complete a write.
LEMMA MovingSteps ==
  ASSUME TypeOK, NEW s \in Sessions,
         \/ Connect(s) \/ AcceptConnection(s) \/ ReadHeader(s) \/ ReadHeaderUnder(s)
         \/ ReadFails(s) \/ Refuse(s) \/ WriteFails(s) \/ RedirectSent(s)
         \/ RedirectSentToReset(s)
  PROVE  PhaseMoves
<1>1. CASE Connect(s)
  BY <1>1 DEF TypeOK, Connect, PhaseMoves, dbVars
<1>2. CASE \/ AcceptConnection(s) \/ ReadHeader(s) \/ ReadFails(s) \/ WriteFails(s)
           \/ RedirectSent(s) \/ Refuse(s)
  BY <1>2 DEF TypeOK, AcceptConnection, ReadHeader, ReadFails, WriteFails, RedirectSent,
              Refuse, Enters, PhaseMoves, dbVars
<1> QED
  BY <1>1, <1>2, EndMoves DEF ReadHeaderUnder, RedirectSentToReset

\* A client that sends touches no session that has a token: that one heard all.
LEMMA ClientKeeps ==
  ASSUME TypeOK, Core, NEW s \in Sessions,
         (\E p \in Requests : SendHeader(s, p)) \/ SendPayload(s)
           \/ \E how \in {"fin", "reset"} : PeerLeaves(s, how)
  PROVE  Core'
<1>1. /\ UNCHANGED <<phase, tokenVars, dbVars>>
      /\ sent' \in [Sessions -> {"nothing", "header", "all"}]
      /\ \A r \in Sessions : sent[r] = "all" => sent'[r] = "all" /\ request'[r] = request[r]
  BY DEF TypeOK, SendHeader, SendPayload, PeerLeaves
<1>2. PacketsKnown'
  BY DEF TypeOK, Core, PacketsKnown, SendHeader, SendPayload, PeerLeaves
<1>3. TokensHeld'
  BY <1>1 DEF Core, TokensHeld, Verified, tokenVars
<1>4. \A r \in Sessions : session_token_[r] # NoToken => request'[r] = request[r]
  BY <1>1 DEF Core, TokensHeld
<1>5. RowsHeld'
  <2>1. \A t \in Tokens, r \in Sessions : maker[t] = r => session_token_[r] # NoToken
    BY NamesAssumption DEF Core, RowsHeld
  <2> QED
    BY <1>1, <1>4, <2>1 DEF Core, RowsHeld, tokenVars, dbVars, rowVars
<1>6. RedirectsHeld'
  BY <1>1, <1>4, NamesAssumption
     DEF Core, RedirectsHeld, Redirects, RowOf, tokenVars, dbVars, rowVars
<1> QED
  BY <1>2, <1>3, <1>5, <1>6 DEF Core

\* A password check that came out right, and its token: the session had none, so no
\* row is its, and the token it gets a row for has no other.
LEMMA IssueKeeps ==
  ASSUME TypeOK, Core, NEW s \in Sessions, FailToIssue(s) \/ Issue(s)
  PROVE  Core'
<1>1. PICK t \in Tokens :
        /\ session_token_' = [session_token_ EXCEPT ![s] = t]
        /\ InsertRow(s, t) \/ UNCHANGED rowVars
        /\ Issue(s) => InsertRow(s, t)
  BY DEF FailToIssue, Issue, generate_session_token
<1>2. /\ phase[s] = "payload" /\ sent[s] = "all" /\ Verified(s)
      /\ UNCHANGED <<clientVars, answered, admitted>>
      /\ phase' = [phase EXCEPT ![s] = IF Issue(s) THEN "writing" ELSE "gone"]
  BY DEF FailToIssue, Issue, Processing, Verified, Arrived, Enters
<1>3. session_token_[s] = NoToken /\ answered[s] = NoToken
  BY <1>2, NamesAssumption DEF Core, TokensHeld, RedirectsHeld
<1>4. request[s] \in Requests /\ request[s].user \in Accounts
  BY <1>2, RequestsAssumption DEF Core, PacketsKnown
<1>5. PacketsKnown'
  BY <1>2 DEF Core, PacketsKnown, clientVars
<1>6. TokensHeld'
  BY <1>1, <1>2, <1>4 DEF TypeOK, Core, TokensHeld, Verified, clientVars
<1>7. /\ \A u \in Tokens : maker[u] # s
      /\ admitted[s] = NoAccount
  BY <1>3, NamesAssumption DEF Core, RowsHeld
<1>8. \A r \in Sessions \ {s} :
        /\ phase'[r] = phase[r] /\ session_token_'[r] = session_token_[r]
        /\ answered'[r] = answered[r] /\ request'[r] = request[r]
        /\ admitted'[r] = admitted[r]
  BY <1>1, <1>2 DEF TypeOK, clientVars
<1>9. /\ session_token_'[s] = t /\ answered'[s] = NoToken /\ phase'[s] # "written"
      /\ request'[s] = request[s] /\ admitted'[s] = NoAccount
  BY <1>1, <1>2, <1>3, <1>7 DEF TypeOK, clientVars
<1>10. CASE InsertRow(s, t)
  <2>1. sessionRow[t] = "none" /\ maker[t] = NoSession
    BY <1>10 DEF InsertRow, Free, Core, RowsHeld
  <2>2. /\ sessionRow'[t] = "live" /\ account_id'[t] = request[s].user /\ maker'[t] = s
        /\ \A u \in Tokens \ {t} : /\ sessionRow'[u] = sessionRow[u]
                                   /\ account_id'[u] = account_id[u] /\ maker'[u] = maker[u]
    BY <1>10 DEF TypeOK, InsertRow
  <2>3. \A u \in Tokens : /\ (maker'[u] = NoSession) <=> (account_id'[u] = NoAccount)
                          /\ (maker'[u] = NoSession) <=> (sessionRow'[u] = "none")
    BY <1>4, <2>2, NamesAssumption DEF Core, RowsHeld
  <2>4. \A u \in Tokens, r \in Sessions : maker'[u] = r =>
          session_token_'[r] = u /\ request'[r].user = account_id'[u] /\ admitted'[r] = NoAccount
    BY <1>7, <1>8, <1>9, <2>2 DEF Core, RowsHeld
  <2>5. \A r \in Sessions : admitted'[r] # NoAccount =>
          session_token_'[r] # NoToken /\ admitted'[r] = request'[r].user
    BY <1>8, <1>9 DEF Core, RowsHeld
  <2>6. RowsHeld'
    BY <2>3, <2>4, <2>5 DEF RowsHeld
  <2>7. \A r \in Sessions : Redirects(r)' => RowOf(r)'
    <3> SUFFICES ASSUME NEW r \in Sessions, Redirects(r)' PROVE RowOf(r)'
      OBVIOUS
    <3>1. CASE r = s
      BY <1>9, <2>2, <3>1 DEF RowOf
    <3>2. CASE r # s
      <4>1. RowOf(r)
        BY <1>8, <3>2 DEF Redirects, Core, RedirectsHeld
      <4>2. maker[session_token_[r]] = r => session_token_[r] # t
        BY <2>1, NamesAssumption
      <4> QED
        BY <1>8, <2>2, <3>2, <4>1, <4>2 DEF RowOf
    <3> QED
      BY <3>1, <3>2
  <2>8. RedirectsHeld'
    BY <1>8, <1>9, <2>7 DEF Core, RedirectsHeld
  <2> QED
    BY <1>5, <1>6, <2>6, <2>8 DEF Core
<1>11. CASE UNCHANGED rowVars /\ ~Issue(s)
  <2>1. UNCHANGED <<sessionRow, account_id, maker>>
    BY <1>11 DEF rowVars
  <2>2. \A u \in Tokens, r \in Sessions : maker'[u] = r =>
          session_token_'[r] = u /\ request'[r].user = account_id'[u] /\ admitted'[r] = NoAccount
    BY <1>7, <1>8, <2>1 DEF Core, RowsHeld
  <2>3. \A r \in Sessions : admitted'[r] # NoAccount =>
          session_token_'[r] # NoToken /\ admitted'[r] = request'[r].user
    BY <1>8, <1>9 DEF Core, RowsHeld
  <2>4. RowsHeld'
    BY <2>1, <2>2, <2>3 DEF Core, RowsHeld
  <2>5. phase'[s] = "gone"
    BY <1>2, <1>11 DEF TypeOK
  <2>6. \A r \in Sessions : Redirects(r)' => RowOf(r)'
    BY <1>8, <1>9, <2>1, <2>5 DEF Core, RedirectsHeld, Redirects, RowOf
  <2>7. RedirectsHeld'
    BY <1>8, <1>9, <2>6 DEF Core, RedirectsHeld
  <2> QED
    BY <1>5, <1>6, <2>4, <2>7 DEF Core
<1> QED
  BY <1>1, <1>10, <1>11

\* The kernel takes the redirect.
LEMMA WriteKeeps ==
  ASSUME TypeOK, Core, NEW s \in Sessions, WriteCompletes(s)
  PROVE  Core'
<1>1. /\ phase[s] = "writing" /\ phase' = [phase EXCEPT ![s] = "written"]
      /\ answered' = [answered EXCEPT ![s] = session_token_[s]]
      /\ UNCHANGED <<clientVars, session_token_, dbVars>>
  BY DEF WriteCompletes, Enters
<1>2. session_token_[s] \in Tokens
  BY <1>1 DEF Core, RedirectsHeld, Redirects, RowOf
<1>3. \A r \in Sessions : Redirects(r)' => Redirects(r)
  BY <1>1 DEF TypeOK, Redirects
<1>4. PacketsKnown' /\ RowsHeld' /\ TokensHeld'
  BY <1>1 DEF TypeOK, Core, PacketsKnown, RowsHeld, TokensHeld, Verified, clientVars, dbVars,
              rowVars
<1>5. RedirectsHeld'
  BY <1>1, <1>2, <1>3, NamesAssumption
     DEF TypeOK, Core, RedirectsHeld, RowOf, clientVars, dbVars, rowVars
<1> QED
  BY <1>4, <1>5 DEF Core

\* The game server trades a row for its maker's player ...
LEMMA RedeemKeeps ==
  ASSUME TypeOK, Core, NEW t \in Tokens, Redeem(t)
  PROVE  Core'
<1>1. /\ UNCHANGED <<clientVars, phase, tokenVars>> /\ sessionRow[t] = "live"
      /\ admitted' = [admitted EXCEPT ![maker[t]] = account_id[t]]
      /\ sessionRow' = [sessionRow EXCEPT ![t] = "none"]
      /\ account_id' = [account_id EXCEPT ![t] = NoAccount]
      /\ maker' = [maker EXCEPT ![t] = NoSession]
  BY DEF Redeem
<1>2. PICK s \in Sessions : maker[t] = s
  BY <1>1 DEF TypeOK, Core, RowsHeld
<1>3. /\ session_token_[s] = t /\ request[s].user = account_id[t]
      /\ \A u \in Tokens \ {t} : maker[u] # s
  BY <1>2 DEF Core, RowsHeld
<1>4. /\ sessionRow'[t] = "none" /\ account_id'[t] = NoAccount /\ maker'[t] = NoSession
      /\ \A u \in Tokens \ {t} : /\ sessionRow'[u] = sessionRow[u]
                                 /\ account_id'[u] = account_id[u] /\ maker'[u] = maker[u]
  BY <1>1 DEF TypeOK
<1>5. /\ admitted'[s] = request[s].user
      /\ \A r \in Sessions \ {s} : admitted'[r] = admitted[r]
  BY <1>1, <1>2, <1>3 DEF TypeOK
<1>6. PacketsKnown' /\ TokensHeld'
  BY <1>1 DEF Core, PacketsKnown, TokensHeld, Verified, clientVars, tokenVars
<1>7. \A u \in Tokens, r \in Sessions : maker'[u] = r => u # t /\ r # s /\ maker[u] = r
  BY <1>3, <1>4, NamesAssumption
<1>8. RowsHeld'
  <2>1. \A u \in Tokens : /\ (maker'[u] = NoSession) <=> (account_id'[u] = NoAccount)
                          /\ (maker'[u] = NoSession) <=> (sessionRow'[u] = "none")
    BY <1>4 DEF Core, RowsHeld
  <2>2. \A u \in Tokens, r \in Sessions : maker'[u] = r =>
          session_token_'[r] = u /\ request'[r].user = account_id'[u] /\ admitted'[r] = NoAccount
    BY <1>1, <1>4, <1>5, <1>7 DEF Core, RowsHeld, clientVars, tokenVars
  <2>3. \A r \in Sessions : admitted'[r] # NoAccount =>
          session_token_'[r] # NoToken /\ admitted'[r] = request'[r].user
    BY <1>1, <1>3, <1>5, NamesAssumption DEF Core, RowsHeld, clientVars, tokenVars
  <2> QED
    BY <2>1, <2>2, <2>3 DEF RowsHeld
<1>9. \A r \in Sessions : RowOf(r) => RowOf(r)'
  BY <1>1, <1>2, <1>4, <1>5 DEF RowOf, clientVars, tokenVars
<1>10. RedirectsHeld'
  BY <1>1, <1>9 DEF Core, RedirectsHeld, Redirects, tokenVars
<1> QED
  BY <1>6, <1>8, <1>10 DEF Core

\* ... and the clock only lets one expire.
LEMMA ExpireKeeps ==
  ASSUME TypeOK, Core, NEW t \in Tokens, ExpireToken(t)
  PROVE  Core'
<1>1. /\ UNCHANGED <<clientVars, phase, tokenVars, account_id, maker, admitted>>
      /\ \A u \in Tokens : (sessionRow'[u] = "none") <=> (sessionRow[u] = "none")
  BY DEF TypeOK, ExpireToken
<1>2. PacketsKnown' /\ RowsHeld' /\ TokensHeld'
  BY <1>1 DEF Core, PacketsKnown, RowsHeld, TokensHeld, Verified, clientVars, tokenVars
<1>3. RedirectsHeld'
  BY <1>1 DEF Core, RedirectsHeld, Redirects, RowOf, clientVars, tokenVars
<1> QED
  BY <1>2, <1>3 DEF Core

\* Every step keeps the invariant.
LEMMA Inductive == IInv /\ [Next]_vars => IInv'
<1> SUFFICES ASSUME TypeOK, Core, [Next]_vars PROVE TypeOK' /\ Core'
  BY DEF IInv
<1>1. CASE Boot \/ Stop \/ \E t \in Tokens : Redeem(t) \/ ExpireToken(t)
  <2>1. TypeOK'
    BY <1>1, EnvironmentTypes DEF Stop
  <2>2. CASE Boot
    BY <2>1, <2>2, PhaseMovesKeep DEF Boot, PhaseMoves
  <2>3. CASE Stop
    BY <2>1, <2>3, EndMoves, PhaseMovesKeep DEF Stop
  <2> QED
    BY <1>1, <2>1, <2>2, <2>3, RedeemKeeps, ExpireKeeps
<1>2. ASSUME NEW s \in Sessions, Handler(s) PROVE TypeOK' /\ Core'
  BY <1>2, HandlerTypes, MovingSteps, PhaseMovesKeep, IssueKeeps, WriteKeeps DEF Handler
<1>3. ASSUME NEW s \in Sessions, Client(s) PROVE TypeOK' /\ Core'
  BY <1>3, EnvironmentTypes, MovingSteps, PhaseMovesKeep, ClientKeeps DEF Client
<1>4. CASE UNCHANGED vars
  <2>1. TypeOK'
    BY <1>4 DEF TypeOK, vars, procVars, clientVars, tokenVars, dbVars, rowVars
  <2> QED
    BY <1>4, <2>1, PhaseMovesKeep DEF vars, PhaseMoves, dbVars
<1> QED
  BY <1>1, <1>2, <1>3, <1>4 DEF Next

LEMMA Invariance == Spec => []IInv
<1>1. Init => Core
  BY NamesAssumption
     DEF Init, Core, PacketsKnown, TokensHeld, RowsHeld, RedirectsHeld, Redirects
<1> QED
  BY <1>1, InitTypes, Inductive, PTL DEF Spec, IInv

-----------------------------------------------------------------------------
(* The theorems.                                                             *)

\* Sessions, tokens and rows keep their types.
THEOREM TypeCorrect == Spec => []TypeOK
BY Invariance, PTL DEF IInv

\* An account has no more rows and players let in than clients that gave its password:
\* rows have a maker each, nobody that was let in has a row, and both hold a token.
LEMMA RowsCounted == ASSUME IInv PROVE RowsEarned
<1> SUFFICES ASSUME NEW a \in Accounts
             PROVE  Cardinality({t \in Tokens : account_id[t] = a})
                      + Cardinality({s \in Sessions : admitted[s] = a}) <=
                    Cardinality({s \in Sessions : request[s] # NoRequest /\ sent[s] = "all"
                                                  /\ request[s].user = a /\ request[s].right})
  BY DEF RowsEarned
<1> DEFINE Rows == {t \in Tokens : account_id[t] = a}
           LetIn == {s \in Sessions : admitted[s] = a}
           Earners == {s \in Sessions : request[s] # NoRequest /\ sent[s] = "all"
                                        /\ request[s].user = a /\ request[s].right}
           Makers == {s \in Sessions : session_token_[s] \in Rows
                                       /\ maker[session_token_[s]] = s}
           token == [s \in Makers |-> session_token_[s]]
<1>1. a # NoAccount
  BY NamesAssumption
<1>2. Makers \subseteq Earners
  BY NamesAssumption, RequestsAssumption DEF IInv, Core, RowsHeld, TokensHeld, Verified
<1>3. LetIn \subseteq Earners
  BY <1>1, RequestsAssumption DEF IInv, Core, RowsHeld, TokensHeld, Verified
<1>4. LetIn \cap Makers = {}
  BY <1>1 DEF IInv, Core, RowsHeld
<1>5. \A t \in Rows : \E s \in Makers : token[s] = t
  BY <1>1 DEF IInv, TypeOK, Core, RowsHeld
<1>6. token \in Surjection(Makers, Rows)
  BY <1>5 DEF Surjection
<1>7. /\ IsFiniteSet(Earners) /\ IsFiniteSet(Makers) /\ IsFiniteSet(LetIn)
      /\ IsFiniteSet(LetIn \cup Makers)
      /\ Cardinality(LetIn \cup Makers) <= Cardinality(Earners)
  <2>1. IsFiniteSet(Earners)
    BY SessionsAssumption, FS_Subset
  <2>2. LetIn \cup Makers \subseteq Earners
    BY <1>2, <1>3
  <2> QED
    BY <1>2, <1>3, <2>1, <2>2, FS_Subset
<1>8. IsFiniteSet(Rows) /\ Cardinality(Rows) <= Cardinality(Makers)
  BY <1>6, <1>7, FS_Surjection
<1>9. /\ Cardinality(Rows) \in Nat /\ Cardinality(Makers) \in Nat
      /\ Cardinality(Earners) \in Nat /\ Cardinality(LetIn) \in Nat
  BY <1>7, <1>8, FS_CardinalityType
<1> HIDE DEF Rows, LetIn, Earners, Makers, token
<1>10. Cardinality(LetIn \cup Makers) =
         Cardinality(LetIn) + Cardinality(Makers) - Cardinality(LetIn \cap Makers)
  BY <1>7, FS_Union
<1>11. Cardinality(LetIn \cap Makers) = 0
  BY <1>4, FS_EmptySet
<1>12. Cardinality(Rows) + Cardinality(LetIn) <= Cardinality(Earners)
  BY <1>7, <1>8, <1>9, <1>10, <1>11
<1> QED
  BY <1>12 DEF Rows, LetIn, Earners

\* process_login_request: a client is told a token only with its row, of its
\* account and made for it alone, and rows are not made without a password.
THEOREM TokensCorrect == Spec => []TokensEarned
<1>1. IInv => RedirectBacked
  BY NamesAssumption
     DEF IInv, Core, TokensHeld, RowsHeld, RedirectsHeld, Redirects, RowOf, Verified,
         RedirectBacked
<1>2. IInv => TokensEarned
  BY <1>1, RowsCounted DEF TokensEarned
<1> QED
  BY <1>2, Invariance, PTL

\* start() and main(): nothing else that a client does ends the server.
THEOREM ReasonCorrect == Spec => EndsForAReason
<1> DEFINE Reason == \E s \in Sessions :
                       \/ request[s] # NoRequest /\ request[s].size = "under"
                       \/ answered[s] # NoToken /\ peer[s] = "reset"
<1>1. IInv /\ [Next]_vars => [Up /\ server' = "failed" => Reason]_vars
  <2> SUFFICES ASSUME IInv, Next, Up, server' = "failed" PROVE Reason
    OBVIOUS
  <2>1. PICK s \in Sessions : ReadHeaderUnder(s) \/ RedirectSentToReset(s)
    BY DEF Next, Boot, Stop, ProcessEnds, Up, Handler, Client, AcceptConnection, ReadHeader,
           ReadFails, Refuse, FailToIssue, Issue, WriteCompletes, WriteFails, RedirectSent,
           Enters, Connect, SendHeader, SendPayload, PeerLeaves, Redeem, ExpireToken, procVars
  <2>2. CASE ReadHeaderUnder(s)
    BY <2>2, RequestsAssumption DEF ReadHeaderUnder, IInv, Core, PacketsKnown
  <2>3. CASE RedirectSentToReset(s)
    BY <2>3 DEF RedirectSentToReset, IInv, Core, RedirectsHeld
  <2> QED
    BY <2>1, <2>2, <2>3
<1> QED
  BY <1>1, Invariance, PTL DEF Spec, EndsForAReason

\* The sessions over with a row of which their client does not know, and how many
\* they are while the first process runs.  Before it runs there is no session.
Orphans == {s \in Sessions : Orphaned(s)}
OrphansCounted ==
  /\ boots = 0 => ~Up /\ \A s \in Sessions : phase[s] = "unborn"
  /\ OrphansExplained

\* A session without a token has no row.
LEMMA NoRowYet ==
  ASSUME IInv, NEW s \in Sessions, session_token_[s] = NoToken
  PROVE  \A t \in Tokens : maker[t] # s
BY NamesAssumption DEF IInv, Core, RowsHeld

\* No step but a transaction in doubt adds a session to them ...
LEMMA OrphansStay ==
  ASSUME IInv, Next, UNCHANGED procVars, \A s \in Sessions : ~FailToIssue(s)
  PROVE  Orphans' \subseteq Orphans /\ faults' >= faults
<1>1. faults' >= faults
  <2>1. CASE \E t \in Tokens : Redeem(t) \/ ExpireToken(t)
    BY <2>1 DEF IInv, TypeOK, Redeem, ExpireToken
  <2>2. ASSUME NEW s \in Sessions, Client(s) PROVE faults' >= faults
    BY <2>2 DEF IInv, TypeOK, Client, Connect, SendHeader, SendPayload, PeerLeaves, dbVars
  <2>3. ASSUME NEW s \in Sessions, Handler(s) PROVE faults' >= faults
    BY <2>3 DEF IInv, TypeOK, Handler, AcceptConnection, ReadHeader, ReadHeaderUnder,
                ReadFails, Refuse, Issue, WriteCompletes, WriteFails, RedirectSent,
                RedirectSentToReset, ProcessEnds, dbVars
  <2>4. CASE Boot \/ Stop
    BY <2>4 DEF IInv, TypeOK, Boot, Stop, ProcessEnds, dbVars
  <2> QED
    BY <2>1, <2>2, <2>3, <2>4 DEF Next
<1>2. \A r \in Sessions : answered[r] # NoToken => answered'[r] # NoToken
  <2>1. ASSUME NEW s \in Sessions, WriteCompletes(s)
        PROVE  \A r \in Sessions : answered[r] # NoToken => answered'[r] # NoToken
    <3>1. session_token_[s] # NoToken /\ answered' = [answered EXCEPT ![s] = session_token_[s]]
      BY <2>1, NamesAssumption DEF WriteCompletes, IInv, Core, RedirectsHeld, Redirects, RowOf
    <3> QED
      BY <3>1 DEF IInv, TypeOK
  <2>2. CASE \E t \in Tokens : Redeem(t) \/ ExpireToken(t)
    BY <2>2 DEF Redeem, ExpireToken, tokenVars
  <2>3. ASSUME NEW s \in Sessions, Client(s) PROVE UNCHANGED answered
    BY <2>3 DEF Client, Connect, SendHeader, SendPayload, PeerLeaves, tokenVars
  <2>4. ASSUME NEW s \in Sessions, Handler(s), ~WriteCompletes(s) PROVE UNCHANGED answered
    BY <2>4 DEF Handler, AcceptConnection, ReadHeader, ReadHeaderUnder, ReadFails, Refuse,
                Issue, WriteFails, RedirectSent, RedirectSentToReset, ProcessEnds, tokenVars
  <2>5. CASE Boot \/ Stop
    BY <2>5 DEF Boot, Stop, ProcessEnds, tokenVars
  <2> QED
    BY <2>1, <2>2, <2>3, <2>4, <2>5 DEF Next
<1>3. \A r \in Sessions : peer[r] = "reset" => peer'[r] = "reset"
  <2>1. CASE \E t \in Tokens : Redeem(t) \/ ExpireToken(t)
    BY <2>1 DEF Redeem, ExpireToken, clientVars
  <2>2. ASSUME NEW s \in Sessions, Client(s)
        PROVE  \A r \in Sessions : peer[r] = "reset" => peer'[r] = "reset"
    BY <2>2 DEF IInv, TypeOK, Client, Connect, SendHeader, SendPayload, PeerLeaves, clientVars
  <2>3. ASSUME NEW s \in Sessions, Handler(s) PROVE UNCHANGED peer
    BY <2>3 DEF Handler, AcceptConnection, ReadHeader, ReadHeaderUnder, ReadFails, Refuse,
                Issue, WriteCompletes, WriteFails, RedirectSent, RedirectSentToReset,
                ProcessEnds, Enters, clientVars
  <2>4. CASE Boot \/ Stop
    BY <2>4 DEF Boot, Stop, ProcessEnds, clientVars
  <2> QED
    BY <2>1, <2>2, <2>3, <2>4 DEF Next
<1>4. ASSUME NEW r \in Sessions, Orphaned(r)' PROVE Orphaned(r)
  <2>1. answered[r] = NoToken /\ peer[r] # "reset" /\ phase'[r] = "gone"
    BY <1>2, <1>3, <1>4 DEF Orphaned
  <2>2. PICK u \in Tokens : maker'[u] = r
    BY <1>4 DEF Orphaned
  <2>3. maker[u] = r
    <3>1. ASSUME NEW t \in Tokens, Redeem(t) PROVE maker[u] = r
      BY <2>2, <3>1, NamesAssumption DEF IInv, TypeOK, Redeem
    <3>2. ASSUME NEW t \in Tokens, ExpireToken(t) PROVE maker[u] = r
      BY <2>2, <3>2 DEF ExpireToken
    <3>3. ASSUME NEW s \in Sessions, Client(s) PROVE maker[u] = r
      BY <2>2, <3>3 DEF Client, Connect, SendHeader, SendPayload, PeerLeaves, dbVars, rowVars
    <3>4. ASSUME NEW s \in Sessions, Handler(s), ~Issue(s) PROVE maker[u] = r
      BY <2>2, <3>4 DEF Handler, AcceptConnection, ReadHeader, ReadHeaderUnder, ReadFails,
                  Refuse, WriteCompletes, WriteFails, RedirectSent, RedirectSentToReset,
                  ProcessEnds, dbVars, rowVars
    <3>5. ASSUME NEW s \in Sessions, Issue(s) PROVE maker[u] = r
      <4>1. PICK t \in Tokens : InsertRow(s, t)
        BY <3>5 DEF Issue, generate_session_token
      <4>2. phase'[s] = "writing"
        BY <3>5 DEF Issue, Enters, IInv, TypeOK
      <4> QED
        BY <2>1, <2>2, <4>1, <4>2 DEF InsertRow, IInv, TypeOK
    <3>6. CASE Boot \/ Stop
      BY <2>2, <3>6 DEF Boot, Stop, ProcessEnds, dbVars, rowVars
    <3> QED
      BY <3>1, <3>2, <3>3, <3>4, <3>5, <3>6 DEF Next
  <2>4. session_token_[r] # NoToken
    BY <2>3, NoRowYet
  <2>5. phase[r] = "gone"
    <3>1. phase[r] \in {"writing", "gone"}
      BY <2>1, <2>4 DEF IInv, Core, TokensHeld, RedirectsHeld
    <3>2. CASE \E t \in Tokens : Redeem(t) \/ ExpireToken(t)
      BY <2>1, <3>2 DEF Redeem, ExpireToken
    <3>3. ASSUME NEW s \in Sessions, Client(s) PROVE phase[r] = "gone"
      BY <2>1, <3>1, <3>3 DEF IInv, TypeOK, Client, Connect, SendHeader, SendPayload, PeerLeaves
    <3>4. ASSUME NEW s \in Sessions, Handler(s) PROVE phase[r] = "gone"
      <4>1. CASE ReadHeaderUnder(s) \/ RedirectSentToReset(s)
        BY <4>1 DEF ReadHeaderUnder, RedirectSentToReset, ProcessEnds, procVars, Up
      <4>2. CASE s = r
        BY <2>1, <3>1, <3>4, <4>1, <4>2
           DEF Handler, AcceptConnection, ReadHeader, ReadFails, Refuse, Issue, Processing,
               WriteCompletes, WriteFails, RedirectSent, Enters, IInv, TypeOK
      <4>3. CASE s # r
        BY <2>1, <3>4, <4>1, <4>3
           DEF Handler, AcceptConnection, ReadHeader, ReadFails, Refuse, Issue,
               WriteCompletes, WriteFails, RedirectSent, Enters, IInv, TypeOK
      <4> QED
        BY <4>2, <4>3
    <3>5. CASE Boot \/ Stop
      BY <2>1, <3>5 DEF IInv, TypeOK, Boot, Stop, ProcessEnds, procVars, Up
    <3> QED
      BY <3>2, <3>3, <3>4, <3>5 DEF Next
  <2> QED
    BY <2>1, <2>3, <2>5 DEF Orphaned
<1> QED
  BY <1>1, <1>4 DEF Orphans

\* ... and that one adds its session alone, and is counted.
LEMMA OrphanMade ==
  ASSUME IInv, NEW s \in Sessions, FailToIssue(s)
  PROVE  \/ Orphans' \subseteq Orphans /\ faults' >= faults
         \/ Orphans' \subseteq Orphans \cup {s} /\ faults' = faults + 1
<1>1. PICK t \in Tokens :
        /\ session_token_' = [session_token_ EXCEPT ![s] = t]
        /\ \/ UNCHANGED rowVars /\ faults' >= faults
           \/ InsertRow(s, t) /\ faults' = faults + 1
  <2>1. faults \in Int
    BY BoundsAssumption DEF IInv, TypeOK
  <2>2. PICK t \in Tokens :
          /\ session_token_' = [session_token_ EXCEPT ![s] = t]
          /\ \/ UNCHANGED rowVars /\ UNCHANGED faults
             \/ faults' = faults + 1 /\ (InsertRow(s, t) \/ UNCHANGED rowVars)
    BY DEF FailToIssue, generate_session_token
  <2>3. faults' >= faults
    BY <2>1, <2>2
  <2> QED
    BY <2>2, <2>3
<1>2. /\ phase[s] = "payload" /\ UNCHANGED <<clientVars, answered>>
      /\ phase' = [phase EXCEPT ![s] = "gone"]
  BY DEF FailToIssue, Processing, Enters
<1>3. session_token_[s] = NoToken
  BY <1>2, NamesAssumption DEF IInv, Core, TokensHeld
<1>4. \A r \in Sessions \ {s} : Orphaned(r)' => Orphaned(r)
  <2> SUFFICES ASSUME NEW r \in Sessions \ {s}, Orphaned(r)' PROVE Orphaned(r)
    OBVIOUS
  <2>1. phase[r] = "gone" /\ answered[r] = NoToken /\ peer[r] # "reset"
    BY <1>2 DEF Orphaned, IInv, TypeOK, clientVars
  <2>2. PICK u \in Tokens : maker'[u] = r
    BY DEF Orphaned
  <2>3. maker[u] = r
    BY <1>1, <2>2 DEF InsertRow, rowVars, IInv, TypeOK
  <2> QED
    BY <2>1, <2>3 DEF Orphaned
<1>5. CASE UNCHANGED rowVars /\ faults' >= faults
  <2>1. ~Orphaned(s)'
    BY <1>3, <1>5, NoRowYet DEF Orphaned, rowVars
  <2> QED
    BY <1>4, <1>5, <2>1 DEF Orphans
<1>6. CASE InsertRow(s, t) /\ faults' = faults + 1
  BY <1>4, <1>6 DEF Orphans
<1> QED
  BY <1>1, <1>5, <1>6

\* issue_session_token and send_login_response: a session that is over with a row and
\* an uninformed client that did not reset is one transaction's that failed.
THEOREM OrphansCorrect == Spec => []OrphansExplained
<1>1. Init => OrphansCounted
  BY DEF Init, OrphansCounted, OrphansExplained, Up
<1>2. IInv /\ OrphansCounted /\ [Next]_vars => OrphansCounted'
  <2> SUFFICES ASSUME IInv, OrphansCounted, [Next]_vars PROVE OrphansCounted'
    OBVIOUS
  <2>1. /\ IsFiniteSet(Orphans) /\ IsFiniteSet(Orphans')
        /\ Cardinality(Orphans) \in Nat /\ faults \in Nat
    BY SessionsAssumption, BoundsAssumption, FS_Subset, FS_CardinalityType
       DEF Orphans, IInv, TypeOK
  <2>2. CASE UNCHANGED vars
    BY <2>2 DEF vars, procVars, clientVars, tokenVars, dbVars, rowVars, OrphansCounted,
                OrphansExplained, Orphaned, Up
  <2>3. CASE Boot
    <3>1. boots \in Nat /\ boots' = boots + 1 /\ UNCHANGED phase
      BY <2>3, BoundsAssumption DEF Boot, IInv, TypeOK
    <3>2. ASSUME boots' = 1 PROVE Orphans' = {}
      BY <3>1, <3>2 DEF OrphansCounted, Orphans, Orphaned
    <3>3. faults' >= 0
      BY <2>1, <2>3 DEF Boot
    <3>4. OrphansExplained'
      BY <3>2, <3>3, FS_EmptySet DEF OrphansExplained, Orphans
    <3> QED
      BY <3>1, <3>4 DEF OrphansCounted
  <2>4. ASSUME NEW how, ProcessEnds(how), how # "up" PROVE OrphansCounted'
    BY <2>4 DEF ProcessEnds, OrphansCounted, OrphansExplained, Up
  <2>5. CASE Next /\ UNCHANGED procVars
    <3>1. boots = 0 => \A s \in Sessions : phase'[s] = "unborn"
      <4> SUFFICES ASSUME ~Up, NEW s \in Sessions, phase[s] = "unborn"
                   PROVE  phase'[s] = "unborn"
        BY DEF OrphansCounted
      <4> QED
        BY <2>5 DEF Next, Boot, Stop, ProcessEnds, Handler, Client, AcceptConnection,
                    ReadHeader, ReadHeaderUnder, ReadFails, Refuse, FailToIssue, Issue,
                    Processing, WriteCompletes, WriteFails, RedirectSent, RedirectSentToReset,
                    Connect, SendHeader, SendPayload, PeerLeaves, Redeem, ExpireToken
    <3>2. \/ Orphans' \subseteq Orphans /\ faults' >= faults
          \/ \E s \in Sessions : Orphans' \subseteq Orphans \cup {s} /\ faults' = faults + 1
      BY <2>5, OrphansStay, OrphanMade
    <3>3. faults' \in Nat /\ Cardinality(Orphans') \in Nat
      <4>1. IInv'
        BY Inductive
      <4> QED
        BY <2>1, <4>1, BoundsAssumption, FS_CardinalityType DEF IInv, TypeOK
    <3>4. Cardinality(Orphans) <= faults => Cardinality(Orphans') <= faults'
      <4>1. CASE Orphans' \subseteq Orphans /\ faults' >= faults
        <5>1. Cardinality(Orphans') <= Cardinality(Orphans)
          BY <2>1, <4>1, FS_Subset
        <5> QED
          BY <2>1, <3>3, <4>1, <5>1
      <4>2. ASSUME NEW s \in Sessions, Orphans' \subseteq Orphans \cup {s}, faults' = faults + 1
            PROVE  Cardinality(Orphans) <= faults => Cardinality(Orphans') <= faults'
        <5>1. /\ IsFiniteSet(Orphans \cup {s})
              /\ Cardinality(Orphans \cup {s}) <= Cardinality(Orphans) + 1
              /\ Cardinality(Orphans \cup {s}) \in Nat
          <6>1. /\ IsFiniteSet(Orphans \cup {s})
                /\ Cardinality(Orphans \cup {s}) =
                     IF s \in Orphans THEN Cardinality(Orphans) ELSE Cardinality(Orphans) + 1
            BY <2>1, FS_AddElement
          <6> QED
            BY <2>1, <6>1
        <5>2. Cardinality(Orphans') <= Cardinality(Orphans \cup {s})
          BY <4>2, <5>1, FS_Subset
        <5> QED
          BY <2>1, <3>3, <4>2, <5>1, <5>2
      <4> QED
        BY <3>2, <4>1, <4>2
    <3>5. OrphansExplained'
      BY <2>5, <3>4 DEF OrphansCounted, OrphansExplained, Orphans, procVars, Up
    <3> QED
      BY <2>5, <3>1, <3>5 DEF OrphansCounted, procVars, Up
  <2>6. Next => Boot \/ (\E how \in {"down", "failed"} : ProcessEnds(how)) \/ UNCHANGED procVars
    BY DEF Next, Stop, Handler, Client, AcceptConnection, ReadHeader, ReadHeaderUnder,
           ReadFails, Refuse, FailToIssue, Issue, WriteCompletes, WriteFails, RedirectSent,
           RedirectSentToReset, Enters, Connect, SendHeader, SendPayload, PeerLeaves, Redeem,
           ExpireToken
  <2> QED
    BY <2>2, <2>3, <2>4, <2>5, <2>6
<1>3. OrphansCounted => OrphansExplained
  BY DEF OrphansCounted
<1> QED
  BY <1>1, <1>2, <1>3, Invariance, PTL DEF Spec
==============================================================================
