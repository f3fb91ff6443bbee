----------------------------- MODULE LoginServer -----------------------------
(* The login server (server/login/src/main.cpp): each connection sends one   *)
(* packet; a right password buys a row of the table sessions, whose token    *)
(* goes back in a redirect, and the connection is closed.                    *)
(*                                                                           *)
(* Threads.  main() alone runs the io_context: completion handlers run one   *)
(* at a time, one action each, with the database calls they wait for.  Their *)
(* exceptions leave io_context.run() and end the process.                    *)
EXTENDS Integers, FiniteSets

CONSTANTS
  Sessions,        \* the TCP connections clients make
  Accounts,
  Tokens,          \* what generate_session_token() may return
  Requests,        \* the packets clients send
  NoRequest, NoToken, NoAccount, NoSession,
  MaxFaults,       \* bound: database transactions that fail
  MaxBoots         \* bound: how often the process is started

\* What a header says: less than its own size, nothing more, a payload smaller
\* than MsgLogin, or one that holds it.
Sizes == {"under", "bare", "small", "full"}

ASSUME RequestsAssumption ==
  /\ Requests \subseteq [op : {"auth", "other"}, size : Sizes, user : Accounts,
                         right : BOOLEAN]
  /\ NoRequest \notin Requests
ASSUME SessionsAssumption == IsFiniteSet(Sessions)
ASSUME NamesAssumption ==
  NoToken \notin Tokens /\ NoAccount \notin Accounts /\ NoSession \notin Sessions
ASSUME BoundsAssumption == MaxFaults \in Nat /\ MaxBoots \in Nat

VARIABLES
  server,      \* "down", "up", "failed"
  boots,
  \* the clients
  peer,        \* "open", "fin" (closed its end), "reset"
  request,     \* the packet the client sends ...
  sent,        \* ... and how far it got: "nothing", "header", "all"
  \* each LoginSession
  phase,       \* "unborn", "queued" (not accepted), reading its "header" or its
               \* "payload", "writing", "written" (the kernel took it), "gone"
  session_token_,
  answered,    \* history: the token the kernel took for the client
  \* Postgres
  sessionRow,  \* table sessions, by its key: "none", "live", "expired"
  account_id,  \* its column
  maker,       \* history: the connection that inserted the row
  admitted,    \* history: the account a connection's row let into the world
  faults       \* history: transactions that failed

procVars == <<server, boots>>
clientVars == <<peer, request, sent>>
tokenVars == <<session_token_, answered>>
rowVars == <<sessionRow, account_id, maker>>
dbVars == <<rowVars, admitted, faults>>
vars == <<procVars, clientVars, phase, tokenVars, dbVars>>

Up == server = "up"

Init ==
  /\ server = "down" /\ boots = 0
  /\ peer = [s \in Sessions |-> "open"]
  /\ request = [s \in Sessions |-> NoRequest]
  /\ sent = [s \in Sessions |-> "nothing"]
  /\ phase = [s \in Sessions |-> "unborn"]
  /\ session_token_ = [s \in Sessions |-> NoToken]
  /\ answered = [s \in Sessions |-> NoToken]
  /\ sessionRow = [t \in Tokens |-> "none"]
  /\ account_id = [t \in Tokens |-> NoAccount]
  /\ maker = [t \in Tokens |-> NoSession]
  /\ admitted = [s \in Sessions |-> NoAccount]
  /\ faults = 0

-----------------------------------------------------------------------------
(* The process.                                                              *)

\* main() up to io_context.run(); without a database it returns.
Boot ==
  /\ ~Up /\ boots < MaxBoots /\ boots' = boots + 1
  /\ \/ server' = "up" /\ UNCHANGED faults
     \/ faults < MaxFaults /\ faults' = faults + 1 /\ server' = "failed"
  /\ UNCHANGED <<clientVars, phase, tokenVars, rowVars, admitted>>

\* Killed, or an exception left a handler: main() returns and every session and
\* every connection in the backlog goes with it.
ProcessEnds(how) ==
  /\ Up /\ server' = how
  /\ phase' = [s \in Sessions |-> IF phase[s] = "unborn" THEN "unborn" ELSE "gone"]
  /\ UNCHANGED <<boots, clientVars, tokenVars, dbVars>>

Stop == ProcessEnds("down")

-----------------------------------------------------------------------------
(* Clients, the game server and the clock: the environment.                  *)

Connect(s) ==
  /\ Up /\ phase[s] = "unborn"
  /\ phase' = [phase EXCEPT ![s] = "queued"]
  /\ UNCHANGED <<procVars, clientVars, tokenVars, dbVars>>

Connected(s) == phase[s] \notin {"unborn", "gone"} /\ peer[s] = "open"

SendHeader(s, p) ==
  /\ Connected(s) /\ sent[s] = "nothing"
  /\ request' = [request EXCEPT ![s] = p]
  /\ sent' = [sent EXCEPT ![s] = "header"]
  /\ UNCHANGED <<procVars, peer, phase, tokenVars, dbVars>>

SendPayload(s) ==
  /\ Connected(s) /\ sent[s] = "header" /\ request[s].size \in {"small", "full"}
  /\ sent' = [sent EXCEPT ![s] = "all"]
  /\ UNCHANGED <<procVars, peer, request, phase, tokenVars, dbVars>>

PeerLeaves(s, how) ==
  /\ phase[s] \notin {"unborn", "gone"}
  /\ peer[s] = "open" \/ (peer[s] = "fin" /\ how = "reset")
  /\ peer' = [peer EXCEPT ![s] = how]
  /\ UNCHANGED <<procVars, request, sent, phase, tokenVars, dbVars>>

\* handle_auth of the game server trades a token a client was told: the row is
\* deleted, and its account's player enters.
Redeem(t) ==
  /\ sessionRow[t] = "live" /\ \E s \in Sessions : answered[s] = t
  /\ admitted' = [admitted EXCEPT ![maker[t]] = account_id[t]]
  /\ sessionRow' = [sessionRow EXCEPT ![t] = "none"]
  /\ account_id' = [account_id EXCEPT ![t] = NoAccount]
  /\ maker' = [maker EXCEPT ![t] = NoSession]
  /\ UNCHANGED <<procVars, clientVars, phase, tokenVars, faults>>

\* expires_at passes; nobody deletes the row.
ExpireToken(t) ==
  /\ sessionRow[t] = "live"
  /\ sessionRow' = [sessionRow EXCEPT ![t] = "expired"]
  /\ UNCHANGED <<procVars, clientVars, phase, tokenVars, account_id, maker, admitted, faults>>

-----------------------------------------------------------------------------
(* Completion handlers.                                                      *)

\* A handler of s ends and leaves the session in this phase; the one that starts
\* nothing drops the last shared_ptr, and the destructor closes the socket.
Enters(s, next) ==
  /\ phase' = [phase EXCEPT ![s] = next]
  /\ UNCHANGED <<procVars, clientVars>>

\* Mutant of AcceptConnection: the address is asked for without an error code.
AcceptThrowing(s) ==
  /\ Up /\ phase[s] = "queued"
  /\ IF peer[s] = "reset" THEN ProcessEnds("failed")
     ELSE Enters(s, "header") /\ UNCHANGED <<tokenVars, dbVars>>

\* start() reads the header, whether or not the client is still there.
AcceptConnection(s) ==
  /\ Up /\ phase[s] = "queued"
  /\ Enters(s, "header") /\ UNCHANGED <<tokenVars, dbVars>>

\* A header whose size leaves room for a payload, if only an empty one.
ReadHeader(s) ==
  /\ Up /\ phase[s] = "header" /\ peer[s] # "reset"
  /\ sent[s] # "nothing" /\ request[s].size # "under"
  /\ Enters(s, "payload") /\ UNCHANGED <<tokenVars, dbVars>>

\* A smaller one: the subtraction wraps and payload_.resize() throws.
ReadHeaderUnder(s) ==
  /\ Up /\ phase[s] = "header" /\ peer[s] # "reset"
  /\ sent[s] # "nothing" /\ request[s].size = "under"
  /\ ProcessEnds("failed")

\* Reading fails once the connection ended before everything arrived.
Arrived(s) == IF phase[s] = "header" THEN sent[s] # "nothing"
              ELSE request[s].size = "bare" \/ sent[s] = "all"
ReadFails(s) ==
  /\ Up /\ phase[s] \in {"header", "payload"}
  /\ peer[s] = "reset" \/ (peer[s] = "fin" /\ ~Arrived(s))
  /\ Enters(s, "gone") /\ UNCHANGED <<tokenVars, dbVars>>

\* The handler of the payload runs process_login_request.
Processing(s) == Up /\ phase[s] = "payload" /\ Arrived(s)
                 /\ (peer[s] # "reset" \/ request[s].size = "bare")

\* The opcode, the size and verify_credentials.
Verified(s) == request[s].op = "auth" /\ request[s].size = "full" /\ request[s].right

\* Anything else closes the connection, and so does a failing SELECT.
Refuse(s) ==
  /\ Processing(s)
  /\ \/ ~Verified(s) /\ UNCHANGED faults
     \/ /\ request[s].op = "auth" /\ request[s].size = "full"
        /\ faults < MaxFaults /\ faults' = faults + 1
  /\ Enters(s, "gone")
  /\ UNCHANGED <<tokenVars, rowVars, admitted>>

\* What the generator may return, which is seeded with 32 bits: any token, one that
\* it returned before too.
generate_session_token == Tokens

\* token CHAR(32) PRIMARY KEY
Free(t) == sessionRow[t] = "none"

\* Mutant of InsertRow: the row is bound to the connection.
InsertRowOfSession(s, t) ==
  /\ Free(t)
  /\ sessionRow' = [sessionRow EXCEPT ![t] = "live"]
  /\ account_id' = [account_id EXCEPT ![t] = s]
  /\ maker' = [maker EXCEPT ![t] = s]

\* INSERT INTO sessions, committed.
InsertRow(s, t) ==
  /\ Free(t)
  /\ sessionRow' = [sessionRow EXCEPT ![t] = "live"]
  /\ account_id' = [account_id EXCEPT ![t] = request[s].user]
  /\ maker' = [maker EXCEPT ![t] = s]

\* issue_session_token fails: the token has a row already, or the transaction
\* throws, and then the new row may be there or not.  The connection is closed.
FailToIssue(s) ==
  /\ Processing(s) /\ Verified(s)
  /\ \E t \in generate_session_token :
       /\ session_token_' = [session_token_ EXCEPT ![s] = t]
       /\ \/ ~Free(t) /\ UNCHANGED <<rowVars, faults>>
          \/ /\ faults < MaxFaults /\ faults' = faults + 1
             /\ InsertRow(s, t) \/ UNCHANGED rowVars
  /\ Enters(s, "gone")
  /\ UNCHANGED <<answered, admitted>>

\* Mutants of Issue: an exception is logged and the redirect sent all the same;
\* nothing is sent.
IssueRegardless(s) ==
  /\ Processing(s) /\ Verified(s)
  /\ \E t \in generate_session_token :
       /\ session_token_' = [session_token_ EXCEPT ![s] = t]
       /\ InsertRow(s, t) \/ (~Free(t) /\ UNCHANGED rowVars)
  /\ Enters(s, "writing")
  /\ UNCHANGED <<answered, admitted, faults>>
IssueSilent(s) ==
  /\ Processing(s) /\ Verified(s)
  /\ \E t \in generate_session_token :
       session_token_' = [session_token_ EXCEPT ![s] = t] /\ InsertRow(s, t)
  /\ Enters(s, "gone")
  /\ UNCHANGED <<answered, admitted, faults>>

\* process_login_request to its end: the redirect is on its way.
Issue(s) ==
  /\ Processing(s) /\ Verified(s)
  /\ \E t \in generate_session_token :
       session_token_' = [session_token_ EXCEPT ![s] = t] /\ InsertRow(s, t)
  /\ Enters(s, "writing")
  /\ UNCHANGED <<answered, admitted, faults>>

\* The kernel takes the redirect; its handler is ready.
WriteCompletes(s) ==
  /\ Up /\ phase[s] = "writing" /\ peer[s] # "reset"
  /\ Enters(s, "written")
  /\ answered' = [answered EXCEPT ![s] = session_token_[s]]
  /\ UNCHANGED <<session_token_, dbVars>>

WriteFails(s) ==
  /\ Up /\ phase[s] = "writing" /\ peer[s] = "reset"
  /\ Enters(s, "gone") /\ UNCHANGED <<tokenVars, dbVars>>

\* Mutant of RedirectSent: it waits for the client to close.
RedirectSentLingering(s) ==
  /\ Up /\ phase[s] = "written" /\ peer[s] = "fin"
  /\ Enters(s, "gone") /\ UNCHANGED <<tokenVars, dbVars>>

\* The handler: shutdown() and close().
RedirectSent(s) ==
  /\ Up /\ phase[s] = "written" /\ peer[s] # "reset"
  /\ Enters(s, "gone") /\ UNCHANGED <<tokenVars, dbVars>>

\* The client reset after the kernel took the redirect: shutdown() throws.
RedirectSentToReset(s) ==
  /\ Up /\ phase[s] = "written" /\ peer[s] = "reset"
  /\ ProcessEnds("failed")

-----------------------------------------------------------------------------
Handler(s) ==
  \/ AcceptConnection(s) \/ ReadHeader(s) \/ ReadHeaderUnder(s) \/ ReadFails(s)
  \/ Refuse(s) \/ FailToIssue(s) \/ Issue(s)
  \/ WriteCompletes(s) \/ WriteFails(s) \/ RedirectSent(s) \/ RedirectSentToReset(s)

Client(s) ==
  \/ Connect(s) \/ (\E p \in Requests : SendHeader(s, p)) \/ SendPayload(s)
  \/ \E how \in {"fin", "reset"} : PeerLeaves(s, how)

Next ==
  \/ Boot \/ Stop
  \/ \E s \in Sessions : Handler(s) \/ Client(s)
  \/ \E t \in Tokens : Redeem(t) \/ ExpireToken(t)

Spec == Init /\ [][Next]_vars

\* The io_context runs every handler that is ready.
Fairness == \A s \in Sessions : WF_vars(Handler(s))
FairSpec == Spec /\ Fairness

-----------------------------------------------------------------------------
(* Properties.                                                               *)

\* Every variable keeps its type.
TypeOK ==
  /\ server \in {"down", "up", "failed"} /\ boots \in 0..MaxBoots
  /\ peer \in [Sessions -> {"open", "fin", "reset"}]
  /\ request \in [Sessions -> Requests \cup {NoRequest}]
  /\ sent \in [Sessions -> {"nothing", "header", "all"}]
  /\ phase \in [Sessions -> {"unborn", "queued", "header", "payload", "writing",
                             "written", "gone"}]
  /\ session_token_ \in [Sessions -> Tokens \cup {NoToken}]
  /\ answered \in [Sessions -> Tokens \cup {NoToken}]
  /\ sessionRow \in [Tokens -> {"none", "live", "expired"}]
  /\ account_id \in [Tokens -> Accounts \cup {NoAccount}]
  /\ maker \in [Tokens -> Sessions \cup {NoSession}]
  /\ admitted \in [Sessions -> Accounts \cup {NoAccount}] /\ faults \in 0..MaxFaults

\* issue_session_token before send_login_response: the token a client is told has a
\* row that was made for this client and for the account whose password it gave,
\* and keeps it until that row let the account's player in, whatever transactions
\* failed, processes ended and tokens came twice.  (So two clients that are told
\* the same token never both hold one that is good.)
RedirectBacked ==
  \A s \in Sessions : answered[s] # NoToken =>
    /\ request[s].right
    /\ \/ maker[answered[s]] = s /\ account_id[answered[s]] = request[s].user
       \/ admitted[s] = request[s].user

\* One row per password check that succeeded, transactions in doubt included: an
\* account never has more rows and players let in by one, together, than clients
\* that gave its password.
RowsEarned ==
  \A a \in Accounts :
    Cardinality({t \in Tokens : account_id[t] = a})
      + Cardinality({s \in Sessions : admitted[s] = a}) <=
    Cardinality({s \in Sessions : request[s] # NoRequest /\ sent[s] = "all"
                                  /\ request[s].user = a /\ request[s].right})

\* Tokens go to who earned them, in the table and on the wire.
TokensEarned == RedirectBacked /\ RowsEarned

\* A row whose client was never told of it, and whose session is over, has a cause:
\* the client reset, or a transaction was in doubt, and no transaction accounts for
\* two.  (A process that ends loses redirects under way: nothing is said of it.)
Orphaned(s) == /\ phase[s] = "gone" /\ answered[s] = NoToken /\ peer[s] # "reset"
               /\ \E t \in Tokens : maker[t] = s
OrphansExplained ==
  Up /\ boots = 1 => Cardinality({s \in Sessions : Orphaned(s)}) <= faults

\* start() and main(): a running server ends by itself only over a header smaller
\* than its own size, or a client that reset once it was answered.  A client that
\* resets earlier, however early, costs its own session only.
EndsForAReason ==
  [][Up /\ server' = "failed" =>
       \E s \in Sessions :
         \/ request[s] # NoRequest /\ request[s].size = "under"
         \/ answered[s] # NoToken /\ peer[s] = "reset"]_vars

\* shared_from_this(): a session is over once its client said all or left, so
\* none is leaked.  (A client that stays silent keeps its session: no timeout.)
SessionsEnd ==
  \A s \in Sessions :
    (phase[s] # "unborn" /\ (peer[s] # "open" \/ sent[s] = "all")) ~> phase[s] = "gone"

\* A right password is answered with a token, as long as the database works, the
\* process is not stopped, and nobody resets or sends a header too small; or the
\* token generated has another client's row, and the connection is closed.
Calm == /\ Up /\ faults = 0
        /\ \A r \in Sessions : /\ peer[r] # "reset"
                               /\ request[r] # NoRequest => request[r].size # "under"
TakenToken(s) == session_token_[s] # NoToken /\ maker[session_token_[s]] \notin {s, NoSession}
Served ==
  \A s \in Sessions :
    (phase[s] # "gone" /\ sent[s] = "all" /\ Verified(s))
      ~> (answered[s] # NoToken \/ TakenToken(s) \/ ~Calm)
=============================================================================
