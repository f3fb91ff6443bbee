-------------------------- MODULE ClientNetworkProofs --------------------------
(* Proofs about ClientNetwork: types, that the shared buffers and the shared   *)
(* socket serve one read at a time, that the logic thread gets what a server   *)
(* sent, and that each server hears what is meant for it, for any number of    *)
(* packets, moves and faults and any interleaving of the threads.              *)
EXTENDS ClientNetwork, SequenceTheorems, TLAPS

-----------------------------------------------------------------------------
(* The inductive invariant, part by part.                                      *)

In(t) == \E i \in 1..Len(strand_) : strand_[i] = t

Completions == {"connected", "header", "payload"}
Reads == {"header", "payload"}
Codes == {"ok", "error", "aborted"}
TheDisconnect == Task("disconnect", NoServer)
Open == {"connecting", "open", "failed"}

\* What a task is about: a connection's completions share one key, every other
\* task has its own.
Key(t) == IF t.kind \in Completions THEN <<"completion", t.about>> ELSE <<t.kind, t.about>>

\* Except for disconnects, the strand holds one task of a key.
OnePerKey ==
  \A i, j \in 1..Len(strand_) :
    Key(strand_[i]) = Key(strand_[j]) /\ strand_[i].kind # "disconnect" => i = j

\* A connection has an operation under way or the handler of one posted.
Posts(c) == \E k \in Completions, ec \in Codes : In(Done(k, c, ec))
Reading(c) == awaiting[c] \in Reads \/ \E k \in Reads, ec \in Codes : In(Done(k, c, ec))

\* The socket is the connection that is open; the game's comes after the login's.
SocketInv ==
  /\ \A c \in Servers : link[c] \in Open <=> socket_ = c
  /\ link["game"] # "unused" => link["login"] = "closed" /\ received["login"] # <<>>
  /\ \A c \in Servers : link[c] = "unused" => awaiting[c] = "no" /\ ~Posts(c)
  /\ \A c \in Servers : In(Task("connect", c)) => link[c] = "unused"

\* Each connection has one chain of operations: either one is outstanding or its
\* handler is posted, once.
ChainInv ==
  /\ OnePerKey
  /\ \A c \in Servers : awaiting[c] # "no" => ~Posts(c)
  /\ \A c \in Servers :
       awaiting[c] = "connect" => link[c] \in {"connecting", "closed"} /\ serving[c] = "no"
  /\ \A c \in Servers : awaiting[c] \in Reads => link[c] \in {"open", "closed"}
  /\ \A c \in Servers, k \in Completions :
       In(Done(k, c, "ok")) => link[c] \in {"open", "closed"}

\* What the servers did: the login server redirects once, the game server answers
\* a client it heard.
ServersInv ==
  /\ \A c \in Servers : \A i \in 1..Len(sent[c]) : sent[c][i].n = i
  /\ \A i \in 1..Len(sent["login"]) : sent["login"][i].op = "redirect" /\ i = 1
  /\ \A i \in 1..Len(sent["game"]) : sent["game"][i].op # "redirect"
  /\ \A c \in Servers : sent[c] # <<>> => heard[c] # <<>>
  /\ \A c \in Servers : heard[c] # <<>> => link[c] # "unused"
  /\ \A c \in Servers : serving[c] # "no" => link[c] \in {"open", "closed"}
  /\ \A c \in Servers : serving[c] = "no" => sent[c] = <<>> /\ wire[c] = <<>>

\* The one redirect is in one place: in the queue, in the logic thread's hands, or
\* a task; until then the game server is not connected to.
Redirects(k) == inbound_queue_[k].header.op = "redirect"
RedirectInv ==
  LET Queued == \E k \in 1..Len(inbound_queue_) : Redirects(k)
      Held == logic = "redirect"
      Asked == In(Task("connect", "game"))
  IN  /\ Queued \/ Held \/ Asked => link["game"] = "unused" /\ received["login"] # <<>>
      /\ ~(Queued /\ Held) /\ ~(Queued /\ Asked) /\ ~(Held /\ Asked)
      /\ \A k, l \in 1..Len(inbound_queue_) : Redirects(k) /\ Redirects(l) => k = l

\* A connection opens once, with its own packet; movement follows the answer.
OpeningInv ==
  /\ OpensWithItsOwn
  /\ \A c \in Servers :
       awaiting[c] = "connect" \/ (\E ec \in Codes : In(Done("connected", c, ec))) =>
         heard[c] = <<>> /\ ~In(Task("send", Opening(c)))
  /\ \A c \in Servers :
       In(Task("send", Opening(c))) => heard[c] = <<>> /\ link[c] # "unused"
  /\ In(Task("send", "move")) => inWorld
  /\ inWorld => heard["game"] # <<>>
  /\ \A k \in 1..Len(inbound_queue_) :
       inbound_queue_[k].header.op = "ok" => heard["game"] # <<>>

\* How far the reading of a connection is.
HeaderReady(c) == In(Done("header", c, "ok"))
PayloadReady(c) == In(Done("payload", c, "ok"))
Current(c) == Len(received[c]) + 1
InPacket(c) ==
  awaiting[c] = "payload" \/ (HeaderReady(c) /\ HasBody(incoming_header_))
Upcoming(c) == Current(c) + (IF HeaderReady(c) \/ PayloadReady(c) THEN 1 ELSE 0)

\* The buffers hold what the connection being read sent next.
BuffersInv ==
  /\ InboundFaithful
  /\ \A c \in Servers :
       HeaderReady(c) \/ PayloadReady(c) \/ awaiting[c] = "payload" =>
         Current(c) <= Len(sent[c]) /\ incoming_header_ = sent[c][Current(c)]
  /\ \A c \in Servers :
       awaiting[c] = "payload" \/ PayloadReady(c) => HasBody(incoming_header_)
  /\ \A c \in Servers : PayloadReady(c) => incoming_payload_ = incoming_header_

\* What is to be read next, and what follows a piece.
NextPart(c) == IF InPacket(c) THEN "payload" ELSE "header"
NextNumber(c) == IF InPacket(c) THEN Current(c) ELSE Upcoming(c)
HalfOf(p) == p.part = "header" /\ HasBody(p.of)
PartAfter(p) == IF HalfOf(p) THEN "payload" ELSE "header"
NumberAfter(p) == p.of.n + (IF HalfOf(p) THEN 0 ELSE 1)

\* The bytes of an open connection continue where the reading is, piece after
\* piece, to the last packet sent.
WireOf(c) ==
  /\ \A k \in 1..Len(wire[c]) :
       wire[c][k].of.n <= Len(sent[c]) /\ wire[c][k].of = sent[c][wire[c][k].of.n]
  /\ \A k \in 1..(Len(wire[c]) - 1) :
       /\ wire[c][k + 1].part = PartAfter(wire[c][k])
       /\ wire[c][k + 1].of.n = NumberAfter(wire[c][k])
  /\ wire[c] # <<>> =>
       /\ wire[c][1].part = NextPart(c) /\ wire[c][1].of.n = NextNumber(c)
       /\ wire[c][Len(wire[c])].of.n = Len(sent[c]) /\ ~HalfOf(wire[c][Len(wire[c])])
  /\ wire[c] = <<>> /\ serving[c] = "yes" =>
       NextPart(c) = "header" /\ NextNumber(c) = Len(sent[c]) + 1
WireInv == \A c \in Servers : link[c] = "open" => WireOf(c)

\* Who may still post a disconnect when the game's connection is made.
Failures == {Done("header", "login", "error"), Done("payload", "login", "error"),
             Done("payload", "login", "aborted")}
Precedes(A, B) ==
  \A i, j \in 1..Len(strand_) : strand_[i] \in A /\ strand_[j] \in B => i < j

\* While the client runs, no disconnect is posted that would meet a connection
\* that is being read, except by the end of that reading.
DropInv ==
  /\ Precedes(Failures, {Done("connected", "game", ec) : ec \in Codes})
  /\ In(Task("send", "token")) => \A t \in Failures : ~In(t)
  /\ process = "running" =>
       /\ received["login"] = <<>> /\ (awaiting["login"] # "no" \/ Posts("login")) =>
            ~In(TheDisconnect) /\ socket_ = "login"
       /\ In(Task("connect", "login")) => ~In(TheDisconnect)
       /\ In(Task("send", "token")) /\ Reading("game") =>
            Precedes({TheDisconnect}, {Task("send", "token")})
       /\ heard["game"] # <<>> /\ Reading("game") =>
            /\ ~In(TheDisconnect) /\ socket_ = "game"
            /\ \A t \in Failures : ~In(t)
  /\ SocketThereForPayload
  /\ process = "quitting" => logic = "exited"
  /\ process = "stopped" => logic = "exited" /\ strand_ = <<>>

Core == /\ SocketInv /\ ChainInv /\ ServersInv /\ RedirectInv
        /\ OpeningInv /\ BuffersInv /\ WireInv /\ DropInv

Inv == TypeOK /\ Core

-----------------------------------------------------------------------------
(* Tasks.                                                                      *)

LEMMA TaskShapes ==
  ASSUME NEW t \in Tasks
  PROVE  /\ t.kind \in {"disconnect", "connect", "send"} \cup Completions
         /\ t.kind \in Completions =>
              t.about \in Servers /\ t.ec \in Codes /\ t = Done(t.kind, t.about, t.ec)
         /\ t.kind \notin Completions => t = Task(t.kind, t.about)
         /\ t.kind = "connect" => t.about \in Servers
         /\ t.kind = "send" => t.about \in {"credentials", "token", "move"}
         /\ t.kind = "disconnect" => t = TheDisconnect
<1>1. CASE t \in [kind : {"disconnect"}, about : {NoServer}]
  BY <1>1 DEF Completions, Task, TheDisconnect
<1>2. CASE t \in [kind : {"connect"}, about : Servers]
  BY <1>2 DEF Completions, Task
<1>3. CASE t \in [kind : {"send"}, about : {"credentials", "token", "move"}]
  BY <1>3 DEF Completions, Task
<1>4. CASE t \in [kind : {"connected", "header", "payload"}, about : Servers,
                  ec : {"ok", "error", "aborted"}]
  BY <1>4 DEF Completions, Codes, Done
<1> QED
  BY <1>1, <1>2, <1>3, <1>4 DEF Tasks

LEMMA DoneTasks ==
  /\ \A k \in Completions, c \in Servers, ec \in Codes :
       /\ Done(k, c, ec) \in Tasks
       /\ Done(k, c, ec).kind = k /\ Done(k, c, ec).about = c /\ Done(k, c, ec).ec = ec
       /\ Key(Done(k, c, ec)) = <<"completion", c>>
  /\ \A c \in Servers : Task("connect", c) \in Tasks
  /\ \A p \in {"credentials", "token", "move"} : Task("send", p) \in Tasks
  /\ TheDisconnect \in Tasks
  /\ \A kind, about : Task(kind, about).kind = kind /\ Task(kind, about).about = about
BY DEF Tasks, Done, Task, TheDisconnect, Completions, Codes, Key

LEMMA SameKey ==
  ASSUME NEW t \in Tasks, NEW u \in Tasks, Key(t) = Key(u)
  PROVE  IF t.kind \in Completions
         THEN u.kind \in Completions /\ u.about = t.about ELSE u = t
<1>1. t.kind # "completion" /\ u.kind # "completion"
  BY TaskShapes DEF Completions
<1> QED
  BY <1>1, TaskShapes DEF Key

-----------------------------------------------------------------------------
(* The strand.                                                                 *)

\* Queued behind the first task.
Later(t) == \E i \in 2..Len(strand_) : strand_[i] = t

\* No task of that key is in the strand, or it is a disconnect.
Fresh(t) == t = TheDisconnect \/ \A u \in Tasks : Key(u) = Key(t) => ~In(u)

LEMMA FirstTask ==
  ASSUME strand_ \in Seq(Tasks), strand_ # <<>>
  PROVE  /\ Head(strand_) \in Tasks /\ In(Head(strand_))
         /\ \A t : In(t) <=> Later(t) \/ t = Head(strand_)
         /\ OnePerKey /\ Head(strand_).kind # "disconnect" =>
              \A t : Key(t) = Key(Head(strand_)) => ~Later(t)
         /\ \A A, B : Precedes(A, B) /\ Head(strand_) \in B => \A t \in A : ~In(t)
<1>1. Head(strand_) = strand_[1] /\ Len(strand_) \in Nat /\ Len(strand_) >= 1
      /\ Head(strand_) \in Tasks
  BY LenProperties, EmptySeq, HeadTailProperties
<1>2. /\ 1 \in 1..Len(strand_)
      /\ \A i \in 1..Len(strand_) : i = 1 \/ i \in 2..Len(strand_)
      /\ \A i \in 2..Len(strand_) : i \in 1..Len(strand_) /\ i # 1
  BY <1>1
<1>3. In(Head(strand_)) /\ \A t : In(t) <=> Later(t) \/ t = Head(strand_)
  BY <1>1, <1>2 DEF In, Later
<1>4. ASSUME OnePerKey, Head(strand_).kind # "disconnect",
             NEW t, Key(t) = Key(Head(strand_)), Later(t)
      PROVE  FALSE
  BY <1>1, <1>2, <1>4 DEF OnePerKey, Later
<1>5. ASSUME NEW A, NEW B, Precedes(A, B), Head(strand_) \in B, NEW t \in A, In(t)
      PROVE  FALSE
  <2>1. PICK i \in 1..Len(strand_) : strand_[i] = t
    BY <1>5 DEF In
  <2>2. i < 1
    BY <1>1, <1>2, <1>5, <2>1 DEF Precedes
  <2> QED
    BY <2>2, <1>1
<1> QED
  BY <1>1, <1>3, <1>4, <1>5

\* The first task is done and posts nothing.
LEMMA Ran ==
  ASSUME strand_ \in Seq(Tasks), strand_ # <<>>, Finish(<<>>)
  PROVE  /\ strand_' \in Seq(Tasks)
         /\ \A t : In(t)' <=> Later(t)
         /\ OnePerKey => OnePerKey'
         /\ \A A, B : Precedes(A, B) => Precedes(A, B)'
<1>1. strand_' = Tail(strand_)
  <2>1. Tail(strand_) \in Seq(Tasks)
    BY HeadTailProperties
  <2> QED
    BY <2>1, ConcatEmptySeq DEF Finish
<1>2. /\ strand_' \in Seq(Tasks) /\ Len(strand_') = Len(strand_) - 1
      /\ \A i \in 1..Len(strand_') : strand_'[i] = strand_[i + 1]
  BY <1>1, HeadTailProperties
<1>3. Len(strand_) \in Nat /\ Len(strand_') \in Nat
  BY <1>2, LenProperties
<1>4. /\ \A i \in 1..Len(strand_') : i + 1 \in 2..Len(strand_) /\ i + 1 \in 1..Len(strand_)
      /\ \A i \in 2..Len(strand_) : i - 1 \in 1..Len(strand_') /\ (i - 1) + 1 = i
  BY <1>2, <1>3
<1>5. ASSUME NEW t PROVE In(t)' <=> Later(t)
  BY <1>2, <1>4 DEF In, Later
<1>6. ASSUME OnePerKey PROVE OnePerKey'
  <2> SUFFICES ASSUME NEW i \in 1..Len(strand_'), NEW j \in 1..Len(strand_'),
                      Key(strand_'[i]) = Key(strand_'[j]), strand_'[i].kind # "disconnect"
               PROVE  i = j
    BY DEF OnePerKey, Key
  <2>1. strand_'[i] = strand_[i + 1] /\ strand_'[j] = strand_[j + 1]
    BY <1>2
  <2>2. i + 1 = j + 1
    BY <1>4, <1>6, <2>1 DEF OnePerKey
  <2> QED
    BY <2>2
<1>7. ASSUME NEW A, NEW B, Precedes(A, B) PROVE Precedes(A, B)'
  <2> SUFFICES ASSUME NEW i \in 1..Len(strand_'), NEW j \in 1..Len(strand_'),
                      strand_'[i] \in A, strand_'[j] \in B
               PROVE  i < j
    BY DEF Precedes
  <2>1. i + 1 < j + 1
    BY <1>2, <1>4, <1>7 DEF Precedes
  <2> QED
    BY <2>1
<1> QED
  BY <1>2, <1>5, <1>6, <1>7

\* A task is posted.
LEMMA PostedOne ==
  ASSUME strand_ \in Seq(Tasks), NEW t \in Tasks, strand_' = Append(strand_, t)
  PROVE  /\ strand_' \in Seq(Tasks) /\ strand_' # <<>>
         /\ \A u : In(u)' <=> In(u) \/ u = t
         /\ OnePerKey /\ Fresh(t) => OnePerKey'
         /\ \A A, B : Precedes(A, B) /\ t \notin A => Precedes(A, B)'
         /\ \A A, B : (\A u \in B : ~In(u)) /\ (t \in A => t \notin B) => Precedes(A, B)'
<1>1. /\ strand_' \in Seq(Tasks) /\ Len(strand_') = Len(strand_) + 1
      /\ \A i \in 1..Len(strand_) : strand_'[i] = strand_[i]
      /\ strand_'[Len(strand_) + 1] = t
  BY AppendProperties
<1>2. Len(strand_) \in Nat /\ \A i \in 1..Len(strand_) : strand_[i] \in Tasks
  BY LenProperties, ElementOfSeq
<1>3. /\ \A i \in 1..Len(strand_') : i = Len(strand_) + 1 \/ i \in 1..Len(strand_)
      /\ \A i \in 1..Len(strand_) : i \in 1..Len(strand_') /\ i < Len(strand_) + 1
      /\ Len(strand_) + 1 \in 1..Len(strand_')
  BY <1>1, <1>2
<1>4. strand_' # <<>>
  BY <1>1, <1>2, EmptySeq
<1>5. ASSUME NEW u PROVE In(u)' <=> In(u) \/ u = t
  BY <1>1, <1>3 DEF In
<1>6. ASSUME OnePerKey, Fresh(t)
      PROVE  OnePerKey'
  <2> SUFFICES ASSUME NEW i \in 1..Len(strand_'), NEW j \in 1..Len(strand_'),
                      Key(strand_'[i]) = Key(strand_'[j]), strand_'[i].kind # "disconnect"
               PROVE  i = j
    BY DEF OnePerKey, Key
  <2>1. CASE i \in 1..Len(strand_) /\ j \in 1..Len(strand_)
    BY <1>1, <1>6, <2>1 DEF OnePerKey
  <2>2. CASE i \in 1..Len(strand_) /\ j = Len(strand_) + 1
    <3>1. In(strand_[i]) /\ strand_[i] \in Tasks /\ Key(strand_[i]) = Key(t)
      BY <1>1, <1>2, <2>2 DEF In
    <3>2. t = TheDisconnect
      BY <1>6, <3>1 DEF Fresh
    <3>3. strand_[i] = t
      BY <3>1, <3>2, SameKey, DoneTasks DEF TheDisconnect, Completions, Task
    <3> QED
      BY <1>1, <2>2, <3>2, <3>3 DEF TheDisconnect, Task
  <2>3. CASE j \in 1..Len(strand_) /\ i = Len(strand_) + 1
    <3>1. In(strand_[j]) /\ strand_[j] \in Tasks /\ Key(strand_[j]) = Key(t)
      BY <1>1, <1>2, <2>3 DEF In
    <3>2. t # TheDisconnect
      BY <1>1, <2>3 DEF TheDisconnect, Task
    <3> QED
      BY <1>6, <3>1, <3>2 DEF Fresh
  <2> QED
    BY <1>3, <2>1, <2>2, <2>3
<1>7. ASSUME NEW A, NEW B, Precedes(A, B), t \notin A PROVE Precedes(A, B)'
  BY <1>1, <1>3, <1>7 DEF Precedes
<1>8. ASSUME NEW A, NEW B, \A u \in B : ~In(u), t \in A => t \notin B
      PROVE  Precedes(A, B)'
  <2> SUFFICES ASSUME NEW i \in 1..Len(strand_'), NEW j \in 1..Len(strand_'),
                      strand_'[i] \in A, strand_'[j] \in B
               PROVE  i < j
    BY DEF Precedes
  <2>1. j = Len(strand_) + 1
    BY <1>1, <1>3, <1>8 DEF In
  <2>2. i \in 1..Len(strand_)
    BY <1>1, <1>3, <1>8, <2>1
  <2> QED
    BY <1>3, <2>1, <2>2
<1> QED
  BY <1>1, <1>4, <1>5, <1>6, <1>7, <1>8

\* The first task is done and posts one.
LEMMA RanPosting ==
  ASSUME strand_ \in Seq(Tasks), strand_ # <<>>, NEW t \in Tasks, Finish(<<t>>)
  PROVE  /\ strand_' \in Seq(Tasks) /\ strand_' # <<>>
         /\ \A u : In(u)' <=> Later(u) \/ u = t
         /\ OnePerKey /\ (t = TheDisconnect \/ (\A u \in Tasks : Key(u) = Key(t) => ~Later(u)))
              => OnePerKey'
         /\ \A A, B : Precedes(A, B) /\ t \notin A => Precedes(A, B)'
         /\ \A A, B : (\A u \in B : ~Later(u)) /\ (t \in A => t \notin B) => Precedes(A, B)'
<1>1. /\ Tail(strand_) \in Seq(Tasks) /\ Len(Tail(strand_)) = Len(strand_) - 1
      /\ \A i \in 1..Len(Tail(strand_)) : Tail(strand_)[i] = strand_[i + 1]
  BY HeadTailProperties
<1>2. strand_' = Append(Tail(strand_), t)
  BY <1>1, AppendIsConcat DEF Finish
<1>3. Len(strand_) \in Nat /\ Len(strand_) >= 1
  BY LenProperties, EmptySeq
<1>4. strand_' \in Seq(Tasks) /\ Len(strand_') = Len(strand_) /\ strand_' # <<>>
  BY <1>1, <1>2, <1>3, AppendProperties, EmptySeq
<1>5. strand_'[Len(strand_)] = t
      /\ \A i \in 1..(Len(strand_) - 1) : strand_'[i] = strand_[i + 1]
  BY <1>1, <1>2, <1>3, AppendProperties
<1>6. /\ \A i \in 1..Len(strand_') : i = Len(strand_) \/ i \in 1..(Len(strand_) - 1)
      /\ \A i \in 1..(Len(strand_) - 1) :
           i + 1 \in 2..Len(strand_) /\ i + 1 \in 1..Len(strand_) /\ i < Len(strand_)
           /\ i \in 1..Len(strand_')
      /\ \A i \in 2..Len(strand_) : i - 1 \in 1..(Len(strand_) - 1) /\ (i - 1) + 1 = i
      /\ Len(strand_) \in 1..Len(strand_')
      /\ \A i \in 1..Len(strand_) : strand_[i] \in Tasks
  BY <1>3, <1>4, ElementOfSeq
<1>7. ASSUME NEW u PROVE In(u)' <=> Later(u) \/ u = t
  BY <1>5, <1>6 DEF In, Later
<1>8. ASSUME OnePerKey, t = TheDisconnect \/ \A u \in Tasks : Key(u) = Key(t) => ~Later(u)
      PROVE  OnePerKey'
  <2> SUFFICES ASSUME NEW i \in 1..Len(strand_'), NEW j \in 1..Len(strand_'),
                      Key(strand_'[i]) = Key(strand_'[j]), strand_'[i].kind # "disconnect"
               PROVE  i = j
    BY DEF OnePerKey, Key
  <2>1. CASE i \in 1..(Len(strand_) - 1) /\ j \in 1..(Len(strand_) - 1)
    <3>1. i + 1 = j + 1
      BY <1>5, <1>6, <1>8, <2>1 DEF OnePerKey
    <3> QED
      BY <3>1
  <2>2. CASE i \in 1..(Len(strand_) - 1) /\ j = Len(strand_)
    <3>1. Later(strand_'[i]) /\ strand_'[i] \in Tasks /\ Key(strand_'[i]) = Key(t)
      BY <1>5, <1>6, <2>2 DEF Later
    <3>2. t = TheDisconnect
      BY <1>8, <3>1
    <3>3. strand_'[i] = t
      BY <3>1, <3>2, SameKey, DoneTasks DEF TheDisconnect, Completions, Task
    <3> QED
      BY <2>2, <3>2, <3>3 DEF TheDisconnect, Task
  <2>3. CASE j \in 1..(Len(strand_) - 1) /\ i = Len(strand_)
    <3>1. Later(strand_'[j]) /\ strand_'[j] \in Tasks /\ Key(strand_'[j]) = Key(t)
      BY <1>5, <1>6, <2>3 DEF Later
    <3>2. t # TheDisconnect
      BY <1>5, <2>3 DEF TheDisconnect, Task
    <3> QED
      BY <1>8, <3>1, <3>2
  <2> QED
    BY <1>6, <2>1, <2>2, <2>3
<1>9. ASSUME NEW A, NEW B, Precedes(A, B), t \notin A PROVE Precedes(A, B)'
  <2> SUFFICES ASSUME NEW i \in 1..Len(strand_'), NEW j \in 1..Len(strand_'),
                      strand_'[i] \in A, strand_'[j] \in B
               PROVE  i < j
    BY DEF Precedes
  <2>1. i \in 1..(Len(strand_) - 1)
    BY <1>5, <1>6, <1>9
  <2>2. CASE j = Len(strand_)
    BY <2>1, <2>2, <1>6
  <2>3. CASE j \in 1..(Len(strand_) - 1)
    <3>1. i + 1 < j + 1
      BY <1>5, <1>6, <1>9, <2>1, <2>3 DEF Precedes
    <3> QED
      BY <3>1
  <2> QED
    BY <1>6, <2>2, <2>3
<1>10. ASSUME NEW A, NEW B, \A u \in B : ~Later(u), t \in A => t \notin B
       PROVE  Precedes(A, B)'
  <2> SUFFICES ASSUME NEW i \in 1..Len(strand_'), NEW j \in 1..Len(strand_'),
                      strand_'[i] \in A, strand_'[j] \in B
               PROVE  i < j
    BY DEF Precedes
  <2>1. j = Len(strand_)
    BY <1>5, <1>6, <1>10 DEF Later
  <2>2. i \in 1..(Len(strand_) - 1)
    BY <1>5, <1>6, <1>10, <2>1
  <2> QED
    BY <1>6, <2>1, <2>2
<1> QED
  BY <1>4, <1>7, <1>8, <1>9, <1>10

\* What is left behind a completion handler: nothing of its connection, and
\* whatever there was of others.
LEMMA CompletionFirst ==
  ASSUME strand_ \in Seq(Tasks), strand_ # <<>>, OnePerKey,
         NEW k \in Completions, NEW c \in Servers, NEW ec \in Codes,
         Head(strand_) = Done(k, c, ec)
  PROVE  /\ In(Done(k, c, ec)) /\ Posts(c)
         /\ \A l \in Completions, e \in Codes : ~Later(Done(l, c, e))
         /\ \A l \in Completions, d \in Servers, e \in Codes :
              d # c => (Later(Done(l, d, e)) <=> In(Done(l, d, e)))
         /\ \A kind \in {"connect", "send"} : \A about :
              Later(Task(kind, about)) <=> In(Task(kind, about))
         /\ Later(TheDisconnect) <=> In(TheDisconnect)
         /\ \A l \in Completions, e \in Codes :
              In(Done(l, c, e)) => l = k /\ e = ec
<1>1. Done(k, c, ec).kind \in Completions /\ Done(k, c, ec).kind # "disconnect"
  BY DoneTasks DEF Completions
<1>2. \A l \in Completions, e \in Codes : ~Later(Done(l, c, e))
  BY <1>1, FirstTask, DoneTasks
<1>3. \A l \in Completions, d \in Servers, e \in Codes :
        d # c => Done(l, d, e) # Done(k, c, ec)
  BY DoneTasks
<1>4. \A kind \in {"connect", "send"} : \A about : Task(kind, about) # Done(k, c, ec)
  BY DoneTasks DEF Completions
<1>5. TheDisconnect # Done(k, c, ec)
  BY DoneTasks DEF Completions, TheDisconnect
<1>6. \A t : In(t) <=> Later(t) \/ t = Done(k, c, ec)
  BY FirstTask
<1>7. \A l \in Completions, e \in Codes : In(Done(l, c, e)) => l = k /\ e = ec
  <2> SUFFICES ASSUME NEW l \in Completions, NEW e \in Codes, In(Done(l, c, e))
               PROVE  l = k /\ e = ec
    OBVIOUS
  <2>1. Done(l, c, e) = Done(k, c, ec)
    BY <1>2, <1>6
  <2> QED
    BY <2>1, DoneTasks
<1> QED
  BY <1>2, <1>3, <1>4, <1>5, <1>6, <1>7 DEF Posts

\* What is left behind any other task: the completions, and the tasks that differ.
LEMMA TaskFirst ==
  ASSUME strand_ \in Seq(Tasks), strand_ # <<>>, OnePerKey,
         NEW kind \in {"connect", "send", "disconnect"}, NEW about,
         Head(strand_) = Task(kind, about)
  PROVE  /\ In(Task(kind, about))
         /\ \A l \in Completions, d \in Servers, e \in Codes :
              Later(Done(l, d, e)) <=> In(Done(l, d, e))
         /\ \A k2 \in {"connect", "send"} : \A a2 :
              Later(Task(k2, a2)) <=> In(Task(k2, a2)) /\ ~(k2 = kind /\ a2 = about)
         /\ Later(TheDisconnect) => In(TheDisconnect)
         /\ kind # "disconnect" => (Later(TheDisconnect) <=> In(TheDisconnect))
<1>1. Task(kind, about).kind = kind /\ kind \notin Completions
  BY DoneTasks DEF Completions
<1>2. \A l \in Completions, d \in Servers, e \in Codes : Done(l, d, e) # Task(kind, about)
  BY <1>1, DoneTasks
<1>3. \A t : In(t) <=> Later(t) \/ t = Task(kind, about)
  BY FirstTask
<1>4. \A k2, a2 : Task(k2, a2) = Task(kind, about) => k2 = kind /\ a2 = about
  BY DoneTasks
<1>5. kind # "disconnect" => ~Later(Task(kind, about))
  BY <1>1, FirstTask
<1>6. kind # "disconnect" => TheDisconnect # Task(kind, about)
  BY <1>4 DEF TheDisconnect
<1>7. \A k2 \in {"connect", "send"} : \A a2 :
        Later(Task(k2, a2)) <=> In(Task(k2, a2)) /\ ~(k2 = kind /\ a2 = about)
  BY <1>3, <1>4, <1>5
<1> QED
  BY <1>2, <1>3, <1>6, <1>7

-----------------------------------------------------------------------------
(* What the invariant says of the connection being read.                       *)

LEMMA LoginSendsOne ==
  ASSUME Inv
  PROVE  Len(sent["login"]) \in Nat /\ Len(sent["login"]) <= 1
<1>1. Len(sent["login"]) \in Nat
  BY LenProperties DEF Inv, TypeOK, Servers
<1>2. ASSUME Len(sent["login"]) >= 2 PROVE FALSE
  BY <1>1, <1>2 DEF Inv, Core, ServersInv
<1> QED
  BY <1>1, <1>2

LEMMA Lengths ==
  ASSUME TypeOK, NEW c \in Servers
  PROVE  /\ sent[c] \in Seq(Packet) /\ wire[c] \in Seq(Pieces)
         /\ Len(sent[c]) \in Nat /\ Len(wire[c]) \in Nat /\ Len(received[c]) \in Nat
         /\ \A i \in 1..Len(sent[c]) : sent[c][i] \in Packet
         /\ \A i \in 1..Len(wire[c]) : wire[c][i] \in Pieces
         /\ (sent[c] = <<>> <=> Len(sent[c]) = 0) /\ (wire[c] = <<>> <=> Len(wire[c]) = 0)
         /\ (received[c] = <<>> <=> Len(received[c]) = 0)
<1>1. sent[c] \in Seq(Packet) /\ wire[c] \in Seq(Pieces)
      /\ received[c] \in Seq([header : Packet, payload : Packet \cup {NoPacket}])
  BY DEF TypeOK
<1> QED
  BY <1>1, LenProperties, EmptySeq, ElementOfSeq

\* Once the redirect is there, nothing of the login server is being read.
LEMMA LoginRead ==
  ASSUME Inv, received["login"] # <<>> \/ link["game"] # "unused"
  PROVE  /\ ~HeaderReady("login") /\ ~PayloadReady("login") /\ awaiting["login"] # "payload"
         /\ heard["login"] # <<>> /\ link["login"] # "unused"
<1>1. received["login"] # <<>>
  BY DEF Inv, Core, SocketInv
<1>2. "login" \in Servers
  BY DEF Servers
<1>3. Len(received["login"]) \in Nat /\ Len(received["login"]) >= 1
  BY <1>1, <1>2, Lengths DEF Inv
<1>4. ~(Current("login") <= Len(sent["login"]))
  BY <1>3, LoginSendsOne DEF Current
<1>5. ~HeaderReady("login") /\ ~PayloadReady("login") /\ awaiting["login"] # "payload"
  BY <1>2, <1>4 DEF Inv, Core, BuffersInv
<1>6. Len(sent["login"]) >= 1
  BY <1>2, <1>3, LoginSendsOne DEF Inv, Core, BuffersInv, InboundFaithful
<1>7. sent["login"] # <<>>
  BY <1>2, <1>6, Lengths DEF Inv
<1> QED
  BY <1>2, <1>5, <1>7 DEF Inv, Core, ServersInv

\* A handler of c that succeeded finds c's socket, or none.
LEMMA HandlersSocket ==
  ASSUME Inv, NEW c \in Servers, NEW k \in Completions, In(Done(k, c, "ok")),
         socket_ # NoServer
  PROVE  socket_ = c /\ link[c] = "open"
<1>1. socket_ \in Servers /\ link[socket_] \in Open
  BY DEF Inv, TypeOK, Core, SocketInv
<1>2. link[c] \in {"open", "closed"}
  BY DEF Inv, Core, ChainInv
<1>3. CASE c = "game"
  <2>1. link["login"] = "closed"
    BY <1>2, <1>3 DEF Inv, Core, SocketInv
  <2> QED
    BY <1>1, <1>2, <1>3, <2>1 DEF Servers, Open
<1>4. CASE c = "login"
  <2>1. ASSUME socket_ = "game" PROVE FALSE
    <3>1. link["game"] # "unused"
      BY <1>1, <2>1 DEF Open
    <3>2. ~HeaderReady("login") /\ ~PayloadReady("login") /\ heard["login"] # <<>>
      BY <3>1, LoginRead
    <3>3. k = "connected"
      BY <1>4, <3>2 DEF HeaderReady, PayloadReady, Completions
    <3> QED
      BY <1>4, <3>2, <3>3 DEF Inv, Core, OpeningInv, Codes, Servers
  <2> QED
    BY <1>1, <1>2, <1>4, <2>1 DEF Servers, Open
<1> QED
  BY <1>3, <1>4 DEF Servers

\* startRead() in such a handler reads on c, or not at all.
LEMMA HandlerStartsRead ==
  ASSUME Inv, NEW c \in Servers, NEW k \in Completions, In(Done(k, c, "ok")), StartRead
  PROVE  /\ socket_ = c => link[c] = "open" /\ awaiting' = [awaiting EXCEPT ![c] = "header"]
         /\ socket_ # c => socket_ = NoServer /\ awaiting' = awaiting
<1>1. socket_ \in Servers \cup {NoServer} /\ NoServer \notin Servers
  BY ClientAssumption DEF Inv, TypeOK, Servers
<1>2. CASE socket_ = NoServer
  BY <1>1, <1>2 DEF StartRead, IsOpen
<1>3. CASE socket_ # NoServer
  BY <1>3, HandlersSocket DEF StartRead, IsOpen
<1> QED
  BY <1>1, <1>2, <1>3

-----------------------------------------------------------------------------
(* Parts that keep with what they speak of.                                    *)

LEMMA BuffersFrame ==
  ASSUME Inv, UNCHANGED <<sent, received, incoming_header_, incoming_payload_>>,
         \A c \in Servers :
           /\ HeaderReady(c)' => HeaderReady(c)
           /\ PayloadReady(c)' => PayloadReady(c)
           /\ awaiting'[c] = "payload" => awaiting[c] = "payload"
  PROVE  BuffersInv'
<1>1. InboundFaithful'
  BY DEF Inv, Core, BuffersInv, InboundFaithful
<1> QED
  BY <1>1 DEF Inv, Core, BuffersInv, Current

LEMMA WireFrame ==
  ASSUME Inv, NEW c \in Servers, link[c] = "open",
         UNCHANGED <<sent[c], wire[c], received[c], incoming_header_>>,
         HeaderReady(c)' <=> HeaderReady(c), PayloadReady(c)' <=> PayloadReady(c),
         awaiting'[c] = "payload" <=> awaiting[c] = "payload",
         serving'[c] = "yes" => serving[c] = "yes"
  PROVE  WireOf(c)'
<1>1. NextPart(c)' = NextPart(c) /\ NextNumber(c)' = NextNumber(c)
  BY DEF NextPart, NextNumber, InPacket, Current, Upcoming
<1>2. WireOf(c)
  BY DEF Inv, Core, WireInv
<1> QED
  BY <1>1, <1>2 DEF WireOf, PartAfter, NumberAfter, HalfOf

\* The same handlers are posted.
SameDone ==
  \A k \in Completions, c \in Servers, ec \in Codes :
    In(Done(k, c, ec))' <=> In(Done(k, c, ec))

LEMMA SameDoneSame ==
  ASSUME SameDone
  PROVE  \A c \in Servers :
           /\ HeaderReady(c)' <=> HeaderReady(c)
           /\ PayloadReady(c)' <=> PayloadReady(c)
           /\ Posts(c)' <=> Posts(c)
BY DEF SameDone, HeaderReady, PayloadReady, Posts, Completions, Codes

LEMMA SameDoneReading ==
  ASSUME SameDone, NEW c \in Servers, awaiting'[c] = awaiting[c]
  PROVE  Reading(c)' <=> Reading(c)
BY DEF SameDone, Reading, Reads, Completions, Codes

LEMMA SameStrand ==
  ASSUME UNCHANGED strand_
  PROVE  /\ \A t : In(t)' <=> In(t)
         /\ SameDone /\ OnePerKey' = OnePerKey
         /\ \A A, B : Precedes(A, B)' <=> Precedes(A, B)
<1>1. \A t : In(t)' <=> In(t)
  BY DEF In
<1> QED
  BY <1>1 DEF SameDone, OnePerKey, Key, Precedes

-----------------------------------------------------------------------------
(* The first state.                                                            *)

LEMMA InitInv == Init => Inv
<1> SUFFICES ASSUME Init PROVE Inv
  OBVIOUS
<1>1. /\ strand_ \in Seq(Tasks) /\ Len(strand_) = 1 /\ strand_[1] = Task("connect", "login")
      /\ strand_[1].kind = "connect"
  BY DoneTasks DEF Init, Servers
<1>2. \A t : In(t) <=> t = Task("connect", "login")
  BY <1>1 DEF In
<1>3. \A c \in Servers : ~Posts(c) /\ ~HeaderReady(c) /\ ~PayloadReady(c)
  BY <1>2, DoneTasks DEF Posts, HeaderReady, PayloadReady, Completions, Codes
<1>4. /\ ~In(TheDisconnect) /\ ~In(Task("connect", "game"))
      /\ \A p : ~In(Task("send", p))
  BY <1>2, DoneTasks DEF TheDisconnect
<1>5. \A k \in Completions, c \in Servers, ec \in Codes : ~In(Done(k, c, ec))
  BY <1>3 DEF Posts
<1>6. TypeOK
  <2>1. \A S : <<>> \in Seq(S)
    BY EmptySeq
  <2>2. /\ sent \in [Servers -> Seq(Packet)] /\ wire \in [Servers -> Seq(Pieces)]
        /\ heard \in [Servers -> Seq({"credentials", "token", "move"})]
        /\ \A S : received \in [Servers -> Seq(S)] /\ inbound_queue_ \in Seq(S)
    BY <2>1 DEF Init
  <2>3. faults \in 0..MaxFaults
    BY ClientAssumption DEF Init
  <2>4. /\ link \in [Servers -> {"unused", "connecting", "open", "failed", "closed"}]
        /\ serving \in [Servers -> {"no", "yes", "ended"}]
        /\ awaiting \in [Servers -> {"no", "connect", "header", "payload"}]
    BY DEF Init
  <2> QED
    BY <1>1, <2>2, <2>3, <2>4 DEF Init, TypeOK
<1>7. SocketInv
  <2>1. /\ \A c \in Servers : link[c] = "unused" /\ awaiting[c] = "no" /\ socket_ # c
        /\ "game" \in Servers
    BY ClientAssumption DEF Init, Servers
  <2> QED
    BY <1>3, <2>1 DEF SocketInv, Open
<1>8. ChainInv
  <2>1. \A c \in Servers : awaiting[c] = "no" /\ awaiting[c] \notin Reads
    BY DEF Init, Reads
  <2>2. OnePerKey
    BY <1>1 DEF OnePerKey
  <2> QED
    BY <1>5, <2>1, <2>2 DEF ChainInv, Codes
<1>9. ServersInv /\ BuffersInv /\ WireInv
  <2>1. /\ \A c \in Servers :
             /\ link[c] = "unused" /\ awaiting[c] = "no" /\ serving[c] = "no"
             /\ sent[c] = <<>> /\ wire[c] = <<>> /\ heard[c] = <<>> /\ received[c] = <<>>
             /\ Len(sent[c]) = 0 /\ Len(received[c]) = 0
        /\ "login" \in Servers /\ "game" \in Servers
    BY DEF Init, Servers
  <2>2. ServersInv /\ WireInv
    BY <2>1 DEF ServersInv, WireInv
  <2>3. InboundFaithful
    BY <2>1 DEF InboundFaithful
  <2> QED
    BY <1>3, <2>1, <2>2, <2>3 DEF BuffersInv
<1>10. RedirectInv
  <2>1. Len(inbound_queue_) = 0 /\ logic # "redirect"
    BY DEF Init
  <2> QED
    BY <1>4, <2>1 DEF RedirectInv
<1>11. OpeningInv
  <2>1. /\ Len(inbound_queue_) = 0 /\ inWorld = FALSE
        /\ heard["login"] = <<>> /\ heard["game"] = <<>> /\ Len(heard["game"]) = 0
        /\ \A c \in Servers : awaiting[c] = "no"
    BY DEF Init, Servers
  <2>2. OpensWithItsOwn
    BY <2>1 DEF OpensWithItsOwn
  <2>3. \A c \in Servers, ec \in Codes : ~In(Done("connected", c, ec))
    BY <1>5 DEF Completions
  <2> QED
    BY <1>4, <2>1, <2>2, <2>3 DEF OpeningInv
<1>12. DropInv
  <2>1. ~Reading("game")
    BY <1>5 DEF Init, Reading, Reads, Completions, Servers
  <2>2. \A ec \in Codes : Task("connect", "login") # Done("connected", "game", ec)
    BY <1>1, DoneTasks DEF Completions, Servers
  <2>3. Precedes(Failures, {Done("connected", "game", ec) : ec \in Codes})
    BY <1>1, <2>2 DEF Precedes
  <2> QED
    BY <1>3, <1>4, <2>1, <2>3 DEF Init, DropInv, SocketThereForPayload, Servers
<1> QED
  BY <1>6, <1>7, <1>8, <1>9, <1>10, <1>11, <1>12 DEF Inv, Core

-----------------------------------------------------------------------------
(* The servers.                                                                *)

\* The servers leave the client's state alone.
LEMMA ServersLeave ==
  ASSUME Inv, UNCHANGED serverUnchanged,
         \A c \in Servers : serving[c] = "no" => serving'[c] = "no"
  PROVE  SocketInv' /\ ChainInv' /\ RedirectInv' /\ OpeningInv' /\ DropInv'
<1>1. UNCHANGED <<link, heard, socket_, awaiting, strand_, inbound_queue_, process, logic,
                  inWorld, received, nullRead>>
  BY DEF serverUnchanged, logicVars
<1>2. /\ \A t : In(t)' <=> In(t)
      /\ \A c \in Servers : (Posts(c)' <=> Posts(c)) /\ (Reading(c)' <=> Reading(c))
      /\ OnePerKey' = OnePerKey /\ \A A, B : Precedes(A, B)' <=> Precedes(A, B)
  BY <1>1, SameStrand, SameDoneSame, SameDoneReading
<1>3. SocketInv'
  BY <1>1, <1>2 DEF Inv, Core, SocketInv
<1>4. ChainInv'
  BY <1>1, <1>2 DEF Inv, Core, ChainInv
<1>5. RedirectInv'
  BY <1>1, <1>2 DEF Inv, Core, RedirectInv, Redirects
<1>6. OpeningInv'
  BY <1>1, <1>2 DEF Inv, Core, OpeningInv, OpensWithItsOwn
<1>7. DropInv'
  BY <1>1, <1>2 DEF Inv, Core, DropInv, SocketThereForPayload, Servers
<1> QED
  BY <1>3, <1>4, <1>5, <1>6, <1>7

LEMMA CloseKeeps ==
  ASSUME Inv, NEW c \in Servers, Close(c)
  PROVE  Inv'
<1>1. /\ UNCHANGED serverUnchanged /\ UNCHANGED <<sent, wire>>
      /\ serving[c] = "yes" /\ serving' = [serving EXCEPT ![c] = "ended"]
  BY DEF Close, Serves
<1>2. UNCHANGED <<link, heard, faults, socket_, awaiting, strand_, incoming_header_,
                  incoming_payload_, inbound_queue_, process, logic, inWorld, received,
                  nullRead>>
  BY <1>1 DEF serverUnchanged, bufferVars, logicVars
<1>3. TypeOK'
  BY <1>1, <1>2 DEF Inv, TypeOK
<1>4. SocketInv' /\ ChainInv' /\ RedirectInv' /\ OpeningInv' /\ DropInv'
  BY <1>1, ServersLeave DEF Inv, TypeOK
<1>5. ServersInv'
  BY <1>1, <1>2 DEF Inv, TypeOK, Core, ServersInv
<1>6. \A d \in Servers :
        (HeaderReady(d)' <=> HeaderReady(d)) /\ (PayloadReady(d)' <=> PayloadReady(d))
  BY <1>2, SameStrand, SameDoneSame
<1>7. BuffersInv'
  BY <1>1, <1>2, <1>6, BuffersFrame
<1>8. \A d \in Servers : serving'[d] = "yes" => serving[d] = "yes"
  BY <1>1 DEF Inv, TypeOK
<1>9. WireInv'
  BY <1>1, <1>2, <1>6, <1>8, WireFrame DEF WireInv
<1> QED
  BY <1>3, <1>4, <1>5, <1>7, <1>9 DEF Inv, Core

LEMMA ResetKeeps ==
  ASSUME Inv, NEW c \in Servers, Reset(c)
  PROVE  Inv'
<1>1. /\ serving[c] = "yes" /\ serving' = [serving EXCEPT ![c] = "ended"]
      /\ wire' = [wire EXCEPT ![c] = <<>>] /\ faults < MaxFaults /\ faults' = faults + 1
      /\ UNCHANGED <<link, sent, heard, socket_, awaiting, strand_, incoming_header_,
                     incoming_payload_, inbound_queue_, process, logic, inWorld, received,
                     nullRead>>
  BY DEF Reset, Serves, bufferVars, logicVars
<1>2. TypeOK'
  <2>1. faults' \in 0..MaxFaults
    BY <1>1, ClientAssumption DEF Inv, TypeOK
  <2>2. wire' \in [Servers -> Seq(Pieces)]
    BY <1>1, EmptySeq DEF Inv, TypeOK
  <2> QED
    BY <1>1, <2>1, <2>2 DEF Inv, TypeOK
<1>3. /\ \A t : In(t)' <=> In(t)
      /\ \A d \in Servers : (Posts(d)' <=> Posts(d)) /\ (Reading(d)' <=> Reading(d))
      /\ OnePerKey' = OnePerKey /\ \A A, B : Precedes(A, B)' <=> Precedes(A, B)
  BY <1>1, SameStrand, SameDoneSame, SameDoneReading
<1>4. \A d \in Servers : serving'[d] = IF d = c THEN "ended" ELSE serving[d]
  BY <1>1 DEF Inv, TypeOK
<1>5. SocketInv'
  BY <1>1, <1>3 DEF Inv, Core, SocketInv
<1>6. ChainInv'
  BY <1>1, <1>3, <1>4 DEF Inv, Core, ChainInv
<1>7. RedirectInv'
  BY <1>1, <1>3 DEF Inv, Core, RedirectInv, Redirects
<1>8. OpeningInv'
  BY <1>1, <1>3 DEF Inv, Core, OpeningInv, OpensWithItsOwn
<1>9. DropInv'
  BY <1>1, <1>3 DEF Inv, Core, DropInv, SocketThereForPayload, Servers
<1>10. ServersInv'
  BY <1>1, <1>4 DEF Inv, TypeOK, Core, ServersInv
<1>11. \A d \in Servers :
         (HeaderReady(d)' <=> HeaderReady(d)) /\ (PayloadReady(d)' <=> PayloadReady(d))
  BY <1>1, SameStrand, SameDoneSame
<1>12. BuffersInv'
  BY <1>1, <1>11, BuffersFrame
<1>13. ASSUME NEW d \in Servers, link'[d] = "open" PROVE WireOf(d)'
  <2>1. CASE d = c
    <3>1. wire'[d] = <<>> /\ Len(wire'[d]) = 0 /\ serving'[d] = "ended"
      BY <1>1, <1>4, <2>1 DEF Inv, TypeOK
    <3> QED
      BY <3>1 DEF WireOf
  <2>2. CASE d # c
    <3>1. wire'[d] = wire[d] /\ serving'[d] = serving[d]
      BY <1>1, <1>4, <2>2 DEF Inv, TypeOK
    <3> QED
      BY <1>1, <1>11, <1>13, <3>1, WireFrame
  <2> QED
    BY <2>1, <2>2
<1> QED
  BY <1>2, <1>5, <1>6, <1>7, <1>8, <1>9, <1>10, <1>12, <1>13 DEF Inv, Core, WireInv

\* A packet on the wire: one piece or two, the last complete.
LEMMA FramedPieces ==
  ASSUME NEW p \in Packet
  PROVE  LET f == Framed(p) IN
         /\ f \in Seq(Pieces) /\ Len(f) \in {1, 2} /\ f[1].part = "header"
         /\ \A j \in 1..Len(f) : f[j].of = p
         /\ Len(f) = 2 => HalfOf(f[1]) /\ f[2].part = "payload"
         /\ ~HalfOf(f[Len(f)])
<1> DEFINE head == [part |-> "header", of |-> p]
           body == [part |-> "payload", of |-> p]
<1>1. head \in Pieces /\ body \in Pieces
  BY DEF Pieces
<1>2. head.part = "header" /\ head.of = p /\ body.part = "payload" /\ body.of = p
  OBVIOUS
<1>3. CASE HasBody(p)
  <2>1. Framed(p) = <<head, body>>
    BY <1>3 DEF Framed
  <2> HIDE DEF head, body
  <2>2. /\ <<head, body>> \in Seq(Pieces) /\ Len(<<head, body>>) = 2
        /\ <<head, body>>[1] = head /\ <<head, body>>[2] = body
    BY <1>1
  <2> QED
    BY <1>2, <1>3, <2>1, <2>2 DEF HalfOf
<1>4. CASE ~HasBody(p)
  <2>1. Framed(p) = <<head>>
    BY <1>4 DEF Framed
  <2> HIDE DEF head, body
  <2>2. <<head>> \in Seq(Pieces) /\ Len(<<head>>) = 1 /\ <<head>>[1] = head
    BY <1>1
  <2> QED
    BY <1>2, <1>4, <2>1, <2>2 DEF HalfOf
<1> QED
  BY <1>3, <1>4

\* What is put on the wire continues it.
LEMMA WireGrows ==
  ASSUME Inv, NEW c \in Servers, serving[c] = "yes", NEW p \in Packet,
         p.n = Len(sent[c]) + 1, WireOf(c),
         sent'[c] = Append(sent[c], p), wire'[c] = wire[c] \o Framed(p),
         NextPart(c)' = NextPart(c), NextNumber(c)' = NextNumber(c)
  PROVE  WireOf(c)'
<1> DEFINE w == Len(wire[c])
           n == Len(sent[c])
           f == Framed(p)
           m == Len(f)
           wc == wire'[c]
<1>1. /\ wire[c] \in Seq(Pieces) /\ sent[c] \in Seq(Packet) /\ w \in Nat /\ n \in Nat
      /\ wire[c] = <<>> <=> w = 0
      /\ \A k \in 1..w : wire[c][k] \in Pieces
  BY Lengths DEF Inv
<1>2. /\ Len(sent'[c]) = n + 1 /\ sent'[c][n + 1] = p
      /\ \A i \in 1..n : sent'[c][i] = sent[c][i]
  BY <1>1, AppendProperties
<1>3. /\ f \in Seq(Pieces) /\ m \in {1, 2} /\ f[1].part = "header"
      /\ \A j \in 1..m : f[j].of = p
      /\ m = 2 => HalfOf(f[1]) /\ f[2].part = "payload"
      /\ ~HalfOf(f[m])
  BY FramedPieces
<1>4. \A k \in 1..w : wire[c][k].of.n \in 1..n
  <2> SUFFICES ASSUME NEW k \in 1..w PROVE wire[c][k].of.n \in 1..n
    OBVIOUS
  <2>1. wire[c][k].of.n \in Nat \ {0}
    BY <1>1 DEF Pieces, Packet
  <2>2. wire[c][k].of.n <= n
    BY DEF WireOf
  <2> QED
    BY <2>1, <2>2, <1>1
<1> HIDE DEF f, m
<1>5. /\ Len(wc) = w + m
      /\ \A i \in 1..(w + m) : wc[i] = IF i <= w THEN wire[c][i] ELSE f[i - w]
  BY <1>1, <1>3, ConcatProperties DEF f, m
<1>6. /\ \A k \in 1..w : wc[k] = wire[c][k] /\ k \in 1..Len(wc)
      /\ wc[w + 1] = f[1] /\ wc[w + m] = f[m] /\ w + m \in 1..Len(wc)
      /\ \A k \in 1..Len(wc) : k \in 1..w \/ k = w + 1 \/ (m = 2 /\ k = w + 2)
      /\ m = 2 => wc[w + 2] = f[2]
  <2> HIDE DEF w, wc
  <2>1. m = 1 \/ m = 2
    BY <1>3
  <2>2. /\ \A k \in 1..w : k \in 1..(w + m) /\ k <= w
        /\ w + 1 \in 1..(w + m) /\ w + m \in 1..(w + m)
        /\ ~(w + 1 <= w) /\ ~(w + m <= w) /\ (w + 1) - w = 1 /\ (w + m) - w = m
        /\ \A k \in 1..(w + m) : k \in 1..w \/ k = w + 1 \/ (m = 2 /\ k = w + 2)
    BY <1>1, <2>1
  <2> QED
    BY <1>5, <2>1, <2>2
<1>7. /\ \A k \in 1..w : wire[c][k].of = sent[c][wire[c][k].of.n]
      /\ \A k \in 1..(w - 1) :
           /\ wire[c][k + 1].part = PartAfter(wire[c][k])
           /\ wire[c][k + 1].of.n = NumberAfter(wire[c][k])
      /\ w # 0 => /\ wire[c][1].part = NextPart(c) /\ wire[c][1].of.n = NextNumber(c)
                  /\ wire[c][w].of.n = n /\ ~HalfOf(wire[c][w])
      /\ w = 0 => NextPart(c) = "header" /\ NextNumber(c) = n + 1
  BY <1>1 DEF WireOf
<1>8. f[1].of = p /\ f[m].of = p /\ m = 2 => f[2].of = p
  BY <1>3
<1> HIDE DEF w, n, wc
<1>9. ASSUME NEW k \in 1..Len(wc)
      PROVE  wc[k].of.n <= n + 1 /\ wc[k].of = sent'[c][wc[k].of.n]
  <2>1. CASE k \in 1..w
    <3>1. wc[k] = wire[c][k] /\ wire[c][k].of.n \in 1..n
      BY <2>1, <1>4, <1>6
    <3>2. wire[c][k].of = sent[c][wire[c][k].of.n]
      BY <1>7, <2>1
    <3>3. sent'[c][wire[c][k].of.n] = sent[c][wire[c][k].of.n]
      BY <1>2, <3>1
    <3>4. wire[c][k].of.n <= n + 1
      BY <1>1, <3>1
    <3> QED
      BY <3>1, <3>2, <3>3, <3>4
  <2>2. CASE wc[k].of = p
    BY <2>2, <1>1, <1>2 DEF n
  <2>3. k \notin 1..w => wc[k].of = p
    BY <1>3, <1>6
  <2> QED
    BY <2>1, <2>2, <2>3
<1>10. ASSUME NEW k \in 1..(Len(wc) - 1)
       PROVE  wc[k + 1].part = PartAfter(wc[k]) /\ wc[k + 1].of.n = NumberAfter(wc[k])
  <2>1. CASE k \in 1..(w - 1)
    <3>1. k \in 1..w /\ k + 1 \in 1..w
      BY <2>1, <1>1
    <3> QED
      BY <1>6, <1>7, <2>1, <3>1
  <2>2. CASE k = w
    <3>1. w \in 1..w /\ w # 0
      BY <2>2, <1>1
    <3>2. wc[k] = wire[c][w] /\ wc[k + 1] = f[1] /\ f[1].of = p
      BY <2>2, <3>1, <1>3, <1>6
    <3>3. wire[c][w].of.n = n /\ ~HalfOf(wire[c][w])
      BY <1>7, <3>1
    <3>4. PartAfter(wire[c][w]) = "header" /\ NumberAfter(wire[c][w]) = n + 1
      BY <1>1, <3>3 DEF PartAfter, NumberAfter
    <3>5. f[1].part = "header" /\ p.n = n + 1
      BY <1>3 DEF n
    <3> QED
      BY <3>2, <3>4, <3>5
  <2>3. CASE m = 2 /\ k = w + 1
    <3>1. wc[k] = f[1] /\ wc[k + 1] = f[2] /\ f[1].of = p /\ f[2].of = p
      <4>1. k + 1 = w + 2
        BY <2>3, <1>1
      <4> QED
        BY <2>3, <4>1, <1>3, <1>6
    <3> QED
      BY <1>1, <1>3, <2>3, <3>1 DEF PartAfter, NumberAfter, n
  <2> QED
    BY <1>1, <1>3, <1>5, <2>1, <2>2, <2>3
<1>11. wc[1].part = NextPart(c) /\ wc[1].of.n = NextNumber(c)
  <2>1. CASE w = 0
    BY <1>1, <1>3, <1>6, <1>7, <2>1 DEF n
  <2>2. CASE w # 0
    <3>1. 1 \in 1..w
      BY <1>1, <2>2
    <3> QED
      BY <1>6, <1>7, <2>2, <3>1
  <2> QED
    BY <2>1, <2>2
<1>12. wc[Len(wc)].of.n = n + 1 /\ ~HalfOf(wc[Len(wc)])
  BY <1>3, <1>5, <1>6 DEF n
<1>13. wc # <<>>
  <2>1. Len(wc) # 0
    BY <1>1, <1>3, <1>5
  <2> QED
    BY <2>1
<1> QED
  BY <1>2, <1>9, <1>10, <1>11, <1>12, <1>13
     DEF WireOf, PartAfter, NumberAfter, HalfOf, wc

LEMMA SaysKeeps ==
  ASSUME Inv, NEW c \in Servers, NEW op \in {"redirect", "ok", "fail", "state"},
         Serves(c), heard[c] # <<>>, Says(c, op), UNCHANGED <<serving, serverUnchanged>>,
         IF c = "login" THEN op = "redirect" /\ sent[c] = <<>> ELSE op # "redirect"
  PROVE  Inv'
<1> DEFINE n == Len(sent[c])
           p == [op |-> op, n |-> n + 1]
<1>1. /\ sent[c] \in Seq(Packet) /\ wire[c] \in Seq(Pieces) /\ n \in Nat
      /\ sent[c] = <<>> <=> n = 0
  BY Lengths DEF Inv
<1>2. p \in Packet /\ p.n = n + 1 /\ p.op = op
  BY <1>1 DEF Packet
<1>3. /\ sent' = [sent EXCEPT ![c] = Append(sent[c], p)]
      /\ wire' = [wire EXCEPT ![c] = IF link[c] = "open" THEN wire[c] \o Framed(p)
                                     ELSE wire[c]]
      /\ serving[c] = "yes"
  BY DEF Says, Serves
<1>4. UNCHANGED <<link, heard, faults, socket_, awaiting, strand_, incoming_header_,
                  incoming_payload_, inbound_queue_, process, logic, inWorld, received,
                  nullRead, serving>>
  BY DEF serverUnchanged, bufferVars, logicVars
<1> HIDE DEF p, n
<1>5. /\ sent'[c] = Append(sent[c], p) /\ Append(sent[c], p) \in Seq(Packet)
      /\ Len(sent'[c]) = n + 1 /\ sent'[c][n + 1] = p
      /\ \A i \in 1..n : sent'[c][i] = sent[c][i]
      /\ \A i \in 1..(n + 1) : i \in 1..n \/ i = n + 1
      /\ \A d \in Servers : d # c => sent'[d] = sent[d] /\ wire'[d] = wire[d]
  BY <1>1, <1>2, <1>3, AppendProperties DEF Inv, TypeOK, n
<1>6. TypeOK'
  <2>1. sent' \in [Servers -> Seq(Packet)]
    BY <1>3, <1>5 DEF Inv, TypeOK
  <2>2. wire[c] \o Framed(p) \in Seq(Pieces)
    BY <1>1, <1>2, FramedPieces, ConcatProperties
  <2>3. wire' \in [Servers -> Seq(Pieces)]
    BY <1>1, <1>3, <2>2 DEF Inv, TypeOK
  <2> QED
    BY <1>4, <2>1, <2>3 DEF Inv, TypeOK
<1>7. SocketInv' /\ ChainInv' /\ RedirectInv' /\ OpeningInv' /\ DropInv'
  BY <1>4, ServersLeave
<1>8. ServersInv'
  <2>1. /\ \A i \in 1..Len(sent'[c]) : sent'[c][i].n = i
        /\ c = "login" => \A i \in 1..Len(sent'[c]) : sent'[c][i].op = "redirect" /\ i = 1
        /\ c = "game" => \A i \in 1..Len(sent'[c]) : sent'[c][i].op # "redirect"
    BY <1>1, <1>2, <1>5 DEF Inv, Core, ServersInv, Servers, n
  <2>2. \A d \in Servers : serving[d] = "no" => d # c
    BY <1>3
  <2>3. ASSUME NEW d \in Servers
        PROVE  /\ \A i \in 1..Len(sent'[d]) : sent'[d][i].n = i
               /\ sent'[d] # <<>> => heard'[d] # <<>>
               /\ serving'[d] = "no" => sent'[d] = <<>> /\ wire'[d] = <<>>
    <3>1. CASE d = c
      BY <1>3, <1>4, <2>1, <3>1
    <3>2. CASE d # c
      BY <1>4, <1>5, <3>2 DEF Inv, Core, ServersInv
    <3> QED
      BY <3>1, <3>2
  <2>4. \A i \in 1..Len(sent'["login"]) : sent'["login"][i].op = "redirect" /\ i = 1
    <3>1. CASE c = "login"
      BY <2>1, <3>1
    <3>2. CASE c # "login"
      BY <1>5, <3>2 DEF Inv, Core, ServersInv, Servers
    <3> QED
      BY <3>1, <3>2
  <2>5. \A i \in 1..Len(sent'["game"]) : sent'["game"][i].op # "redirect"
    <3>1. CASE c = "game"
      BY <2>1, <3>1
    <3>2. CASE c # "game"
      BY <1>5, <3>2 DEF Inv, Core, ServersInv, Servers
    <3> QED
      BY <3>1, <3>2
  <2>6. \A d \in Servers : /\ heard'[d] # <<>> => link'[d] # "unused"
                           /\ serving'[d] # "no" => link'[d] \in {"open", "closed"}
    BY <1>4 DEF Inv, Core, ServersInv
  <2> QED
    BY <2>3, <2>4, <2>5, <2>6 DEF ServersInv
<1>9. \A d \in Servers :
        (HeaderReady(d)' <=> HeaderReady(d)) /\ (PayloadReady(d)' <=> PayloadReady(d))
  BY <1>4, SameStrand, SameDoneSame
<1>10. \A d \in Servers : Current(d) \in Nat \ {0} /\ Len(received[d]) \in Nat
                          /\ Len(sent[d]) \in Nat
  BY Lengths DEF Inv, Current
<1>11. BuffersInv'
  <2>1. \A d \in Servers : Len(sent[d]) <= Len(sent'[d])
                           /\ \A i \in 1..Len(sent[d]) : sent'[d][i] = sent[d][i]
    BY <1>1, <1>5, <1>10 DEF n
  <2>2. \A d \in Servers : Len(sent'[d]) \in Nat
    BY <1>1, <1>5, <1>10
  <2>3. InboundFaithful'
    <3> SUFFICES ASSUME NEW d \in Servers
                 PROVE  /\ Len(received[d]) <= Len(sent'[d])
                        /\ \A i \in 1..Len(received[d]) :
                             received[d][i] = [header |-> sent'[d][i],
                                payload |-> IF HasBody(sent'[d][i]) THEN sent'[d][i]
                                            ELSE NoPacket]
      BY <1>4 DEF InboundFaithful
    <3>1. Len(received[d]) <= Len(sent[d])
      BY DEF Inv, Core, BuffersInv, InboundFaithful
    <3>2. \A i \in 1..Len(received[d]) : sent'[d][i] = sent[d][i]
      BY <2>1, <3>1, <1>10
    <3> QED
      BY <1>10, <2>1, <2>2, <3>1, <3>2 DEF Inv, Core, BuffersInv, InboundFaithful
  <2>4. ASSUME NEW d \in Servers, HeaderReady(d) \/ PayloadReady(d) \/ awaiting[d] = "payload"
        PROVE  Current(d) <= Len(sent'[d]) /\ incoming_header_ = sent'[d][Current(d)]
    <3>1. Current(d) <= Len(sent[d]) /\ incoming_header_ = sent[d][Current(d)]
      BY <2>4 DEF Inv, Core, BuffersInv
    <3> QED
      BY <1>10, <2>1, <2>2, <3>1
  <2> QED
    BY <1>4, <1>9, <2>3, <2>4 DEF Inv, Core, BuffersInv, Current
<1>12. ASSUME NEW d \in Servers, link'[d] = "open" PROVE WireOf(d)'
  <2>1. CASE d # c
    BY <1>4, <1>5, <1>9, <1>12, <2>1, WireFrame
  <2>2. CASE d = c
    <3>1. WireOf(c)
      BY <1>4, <1>12, <2>2 DEF Inv, Core, WireInv
    <3>2. wire'[c] = wire[c] \o Framed(p)
      BY <1>3, <1>4, <1>12, <2>2 DEF Inv, TypeOK
    <3>3. NextPart(c)' = NextPart(c) /\ NextNumber(c)' = NextNumber(c)
      BY <1>4, <1>9 DEF NextPart, NextNumber, InPacket, Upcoming, Current
    <3>4. p.n = Len(sent[c]) + 1
      BY <1>2 DEF n
    <3> QED
      BY <1>2, <1>3, <1>5, <2>2, <3>1, <3>2, <3>3, <3>4, WireGrows
  <2> QED
    BY <2>1, <2>2
<1> QED
  BY <1>6, <1>7, <1>8, <1>11, <1>12 DEF Inv, Core, WireInv

LEMMA ServersKeep ==
  ASSUME Inv, (\E c \in Servers : Answer(c) \/ Close(c) \/ Reset(c)) \/ State
  PROVE  Inv'
<1>1. ASSUME NEW c \in Servers, Answer(c) PROVE Inv'
  <2>1. PICK op \in {"redirect", "ok", "fail"} :
          Says(c, op) /\ (IF c = "login" THEN op = "redirect" ELSE op # "redirect")
    BY <1>1 DEF Answer, Servers
  <2> QED
    BY <1>1, <2>1, SaysKeeps DEF Answer
<1>2. CASE State
  <2>1. Serves("game") /\ sent["game"] # <<>> /\ Says("game", "state")
        /\ UNCHANGED <<serving, serverUnchanged>> /\ "game" \in Servers
    BY <1>2 DEF State, Servers
  <2>2. heard["game"] # <<>>
    BY <2>1 DEF Inv, Core, ServersInv
  <2> QED
    BY <2>1, <2>2, SaysKeeps
<1> QED
  BY <1>1, <1>2, CloseKeeps, ResetKeeps

-----------------------------------------------------------------------------
(* The logic thread and the end of the process.                                *)

\* Steps that leave connections, buffers and handlers alone.
LEMMA ConnectionsFrame ==
  ASSUME Inv, UNCHANGED <<linkVars, socket_, awaiting, bufferVars, received>>,
         SameDone, OnePerKey',
         \A c \in Servers : In(Task("connect", c))' =>
                              In(Task("connect", c)) \/ link[c] = "unused"
  PROVE  SocketInv' /\ ChainInv' /\ ServersInv' /\ BuffersInv' /\ WireInv'
<1>1. UNCHANGED <<link, serving, sent, wire, heard, socket_, awaiting, incoming_header_,
                  incoming_payload_, received>>
  BY DEF linkVars, bufferVars
<1>2. \A c \in Servers :
        /\ HeaderReady(c)' <=> HeaderReady(c)
        /\ PayloadReady(c)' <=> PayloadReady(c)
        /\ Posts(c)' <=> Posts(c)
  BY SameDoneSame
<1>3. SocketInv'
  BY <1>1, <1>2 DEF Inv, Core, SocketInv
<1>4. ChainInv'
  BY <1>1, <1>2 DEF Inv, Core, ChainInv, SameDone, Codes
<1>5. ServersInv'
  BY <1>1 DEF Inv, Core, ServersInv
<1>6. BuffersInv'
  BY <1>1, <1>2, BuffersFrame
<1>7. WireInv'
  BY <1>1, <1>2, WireFrame DEF WireInv
<1> QED
  BY <1>3, <1>4, <1>5, <1>6, <1>7

\* Ways in which the tasks are different.
LEMMA TasksDiffer ==
  /\ \A k \in Completions, c \in Servers, ec \in Codes :
       /\ Done(k, c, ec) # TheDisconnect
       /\ \A kind \in {"connect", "send"} : \A about : Done(k, c, ec) # Task(kind, about)
  /\ \A kind \in {"connect", "send"} : \A about : Task(kind, about) # TheDisconnect
  /\ \A k1, a1, k2, a2 : Task(k1, a1) = Task(k2, a2) => k1 = k2 /\ a1 = a2
  /\ \A kind \in {"connect", "send", "disconnect"} : \A about :
       Task(kind, about) \notin Failures
  /\ TheDisconnect \notin Failures
  /\ \A t \in Failures : \E k \in Reads, ec \in Codes : t = Done(k, "login", ec)
<1>1. /\ \A k \in Completions, c \in Servers, ec \in Codes :
           /\ Done(k, c, ec) # TheDisconnect
           /\ \A kind \in {"connect", "send", "disconnect"} : \A about :
                Done(k, c, ec) # Task(kind, about)
  BY DoneTasks DEF Completions, TheDisconnect
<1>2. /\ \A k1, a1, k2, a2 : Task(k1, a1) = Task(k2, a2) => k1 = k2 /\ a1 = a2
  BY DoneTasks
<1>3. \A t \in Failures : \E k \in Reads, ec \in Codes : t = Done(k, "login", ec)
  BY DEF Failures, Reads, Codes
<1>4. \A t \in Failures : \E k \in Completions, ec \in Codes : t = Done(k, "login", ec)
  BY <1>3 DEF Reads, Completions
<1>5. "login" \in Servers
  BY DEF Servers
<1>6. \A kind \in {"connect", "send"} : \A about : Task(kind, about) # TheDisconnect
  BY <1>2 DEF TheDisconnect
<1>7. /\ \A kind \in {"connect", "send", "disconnect"} : \A about :
           Task(kind, about) \notin Failures
      /\ TheDisconnect \notin Failures
  BY <1>1, <1>4, <1>5
<1> QED
  BY <1>1, <1>2, <1>3, <1>6, <1>7

LEMMA DrainedKeeps ==
  ASSUME Inv, Drained \/ Exit
  PROVE  Inv'
<1>1. /\ UNCHANGED <<linkVars, link, heard, socket_, awaiting, strand_, bufferVars,
                     inbound_queue_, process, inWorld, received, nullRead>>
      /\ logic \notin {"redirect", "exited"} /\ logic' \in {"act", "exited"}
  BY DEF Drained, Exit, linkVars
<1>2. TypeOK'
  BY <1>1 DEF Inv, TypeOK, linkVars, bufferVars
<1>3. /\ \A t : In(t)' <=> In(t)
      /\ SameDone /\ OnePerKey' = OnePerKey
      /\ \A c \in Servers : (Posts(c)' <=> Posts(c)) /\ (Reading(c)' <=> Reading(c))
      /\ \A A, B : Precedes(A, B)' <=> Precedes(A, B)
  BY <1>1, SameStrand, SameDoneSame, SameDoneReading
<1>4. SocketInv' /\ ChainInv' /\ ServersInv' /\ BuffersInv' /\ WireInv'
  BY <1>1, <1>3, ConnectionsFrame DEF Inv, Core, ChainInv
<1>5. RedirectInv'
  BY <1>1, <1>3 DEF Inv, Core, RedirectInv, Redirects
<1>6. OpeningInv'
  BY <1>1, <1>3 DEF Inv, Core, OpeningInv, OpensWithItsOwn
<1>7. DropInv'
  BY <1>1, <1>3 DEF Inv, TypeOK, Core, DropInv, SocketThereForPayload, Servers
<1> QED
  BY <1>2, <1>4, <1>5, <1>6, <1>7 DEF Inv, Core

LEMMA PopKeeps ==
  ASSUME Inv, Pop
  PROVE  Inv'
<1> DEFINE first == Head(inbound_queue_)
           Inbound == [header : Packet, payload : Packet \cup {NoPacket}]
           n == Len(inbound_queue_')
<1>1. /\ logic = "drain" /\ inbound_queue_ # <<>> /\ inbound_queue_' = Tail(inbound_queue_)
      /\ inWorld' = (inWorld \/ first.header.op = "ok")
      /\ first.header.op = "redirect" =>
           logic' = "redirect" /\ strand_' = strand_ \o <<TheDisconnect>>
      /\ first.header.op # "redirect" => logic' = logic /\ strand_' = strand_
      /\ UNCHANGED <<linkVars, link, heard, socket_, awaiting, bufferVars, process, received,
                     nullRead>>
  BY DEF Pop, EntersWorld, Post, linkVars, TheDisconnect
<1>2. inbound_queue_ \in Seq(Inbound) /\ strand_ \in Seq(Tasks) /\ process = "running"
  BY <1>1 DEF Inv, TypeOK, Core, DropInv
<1>3. /\ inbound_queue_' \in Seq(Inbound) /\ n \in Nat /\ Len(inbound_queue_) = n + 1
      /\ \A k \in 1..n : inbound_queue_'[k] = inbound_queue_[k + 1]
      /\ first = inbound_queue_[1]
  BY <1>1, <1>2, HeadTailProperties, LenProperties
<1> HIDE DEF first, Inbound, n
<1>4. /\ \A k \in 1..n : Redirects(k)' <=> Redirects(k + 1)
      /\ \A k \in 1..n : k + 1 \in 1..Len(inbound_queue_) /\ k + 1 # 1
      /\ 1 \in 1..Len(inbound_queue_) /\ (Redirects(1) <=> first.header.op = "redirect")
  BY <1>3 DEF Redirects
<1>5. first.header.op = "ok" => heard["game"] # <<>>
  BY <1>3, <1>4 DEF Inv, Core, OpeningInv
<1>6. CASE first.header.op # "redirect"
  <2>1. logic' = logic /\ strand_' = strand_
    BY <1>1, <1>6
  <2>2. TypeOK'
    BY <1>1, <1>3, <2>1 DEF Inv, TypeOK, linkVars, bufferVars, Inbound
  <2>3. /\ \A t : In(t)' <=> In(t)
        /\ SameDone /\ OnePerKey' = OnePerKey
        /\ \A c \in Servers : (Posts(c)' <=> Posts(c)) /\ (Reading(c)' <=> Reading(c))
        /\ \A A, B : Precedes(A, B)' <=> Precedes(A, B)
    BY <1>1, <2>1, SameStrand, SameDoneSame, SameDoneReading
  <2>4. SocketInv' /\ ChainInv' /\ ServersInv' /\ BuffersInv' /\ WireInv'
    BY <1>1, <2>3, ConnectionsFrame DEF Inv, Core, ChainInv
  <2>5. RedirectInv'
    <3>1. (\E k \in 1..n : Redirects(k)') => \E k \in 1..Len(inbound_queue_) : Redirects(k)
      BY <1>4
    <3>2. \A k, l \in 1..n : Redirects(k)' /\ Redirects(l)' => k + 1 = l + 1
      BY <1>4 DEF Inv, Core, RedirectInv
    <3>3. \A k, l \in 1..n : Redirects(k)' /\ Redirects(l)' => k = l
      BY <3>2
    <3> QED
      BY <1>1, <2>1, <2>3, <3>1, <3>3 DEF Inv, Core, RedirectInv, n
  <2>6. OpeningInv'
    <3>1. \A k \in 1..n : inbound_queue_'[k].header.op = "ok" => heard["game"] # <<>>
      BY <1>3, <1>4 DEF Inv, Core, OpeningInv
    <3>2. inWorld' => heard["game"] # <<>>
      BY <1>1, <1>5 DEF Inv, Core, OpeningInv
    <3>3. inWorld => inWorld'
      BY <1>1
    <3> QED
      BY <1>1, <2>3, <3>1, <3>2, <3>3 DEF Inv, Core, OpeningInv, OpensWithItsOwn, n
  <2>7. DropInv'
    BY <1>1, <2>1, <2>3 DEF Inv, Core, DropInv, SocketThereForPayload, Servers
  <2> QED
    BY <2>2, <2>4, <2>5, <2>6, <2>7 DEF Inv, Core
<1>7. CASE first.header.op = "redirect"
  <2>1. logic' = "redirect" /\ strand_' = Append(strand_, TheDisconnect)
    BY <1>1, <1>2, <1>7, DoneTasks, AppendIsConcat
  <2>2. /\ strand_' \in Seq(Tasks)
        /\ \A t : In(t)' <=> In(t) \/ t = TheDisconnect
        /\ OnePerKey => OnePerKey'
        /\ \A A, B : Precedes(A, B) /\ TheDisconnect \notin A => Precedes(A, B)'
    BY <1>2, <2>1, PostedOne, DoneTasks DEF Fresh
  <2>3. TypeOK'
    BY <1>1, <1>3, <2>1, <2>2 DEF Inv, TypeOK, linkVars, bufferVars, Inbound
  <2>4. /\ SameDone
        /\ \A kind \in {"connect", "send"} : \A about :
             In(Task(kind, about))' <=> In(Task(kind, about))
    BY <2>2, TasksDiffer DEF SameDone
  <2>5. \A c \in Servers : (Posts(c)' <=> Posts(c)) /\ (Reading(c)' <=> Reading(c))
    BY <1>1, <2>4, SameDoneSame, SameDoneReading
  <2>6. SocketInv' /\ ChainInv' /\ ServersInv' /\ BuffersInv' /\ WireInv'
    BY <1>1, <2>2, <2>4, ConnectionsFrame DEF Inv, Core, ChainInv
  <2>7. Redirects(1) /\ link["game"] = "unused" /\ received["login"] # <<>>
        /\ ~In(Task("connect", "game"))
    BY <1>4, <1>7 DEF Inv, Core, RedirectInv
  <2>8. \A k \in 1..n : ~Redirects(k)'
    BY <1>4, <2>7 DEF Inv, Core, RedirectInv
  <2>9. RedirectInv'
    BY <1>1, <2>1, <2>4, <2>7, <2>8 DEF RedirectInv, n
  <2>10. OpeningInv'
    <3>1. \A k \in 1..n : inbound_queue_'[k].header.op = "ok" => heard["game"] # <<>>
      BY <1>3, <1>4 DEF Inv, Core, OpeningInv
    <3>2. (inWorld' => heard["game"] # <<>>) /\ (inWorld => inWorld')
      BY <1>1, <1>5 DEF Inv, Core, OpeningInv
    <3> QED
      BY <1>1, <2>4, <3>1, <3>2
         DEF Inv, Core, OpeningInv, OpensWithItsOwn, n, SameDone, Completions
  <2>11. heard["game"] = <<>> /\ ~In(Task("send", "token")) /\ ~In(Task("connect", "login"))
    <3>1. link["login"] # "unused"
      BY <2>7, LoginRead
    <3> QED
      BY <2>7, <3>1 DEF Inv, Core, ServersInv, SocketInv, OpeningInv, Opening, Servers
  <2>12. DropInv'
    <3>1. Precedes(Failures, {Done("connected", "game", ec) : ec \in Codes})'
      BY <2>2, TasksDiffer DEF Inv, Core, DropInv
    <3>2. ~In(Task("send", "token"))' /\ ~In(Task("connect", "login"))'
      BY <2>4, <2>11
    <3> QED
      BY <1>1, <1>2, <2>7, <2>11, <3>1, <3>2 DEF Inv, Core, DropInv, SocketThereForPayload
  <2> QED
    BY <2>3, <2>6, <2>9, <2>10, <2>12 DEF Inv, Core
<1> QED
  BY <1>6, <1>7

\* A task that is not there yet, or the handler of a connection without one.
LEMMA FreshTask ==
  ASSUME NEW t \in Tasks, t.kind \notin Completions
  PROVE  /\ ~In(t) => Fresh(t)
         /\ ~Later(t) => \A u \in Tasks : Key(u) = Key(t) => ~Later(u)
<1>1. \A u \in Tasks : Key(u) = Key(t) => u = t
  BY SameKey
<1> QED
  BY <1>1 DEF Fresh

LEMMA FreshDone ==
  ASSUME NEW k \in Completions, NEW c \in Servers, NEW ec \in Codes
  PROVE  /\ ~Posts(c) => Fresh(Done(k, c, ec))
         /\ (\A l \in Completions, e \in Codes : ~Later(Done(l, c, e))) =>
              \A u \in Tasks : Key(u) = Key(Done(k, c, ec)) => ~Later(u)
<1>1. ASSUME NEW u \in Tasks, Key(u) = Key(Done(k, c, ec))
      PROVE  u.kind \in Completions /\ u.ec \in Codes /\ u = Done(u.kind, c, u.ec)
  <2>1. Done(k, c, ec) \in Tasks /\ Done(k, c, ec).kind = k /\ Done(k, c, ec).about = c
    BY DoneTasks
  <2>2. u.kind \in Completions /\ u.about = c
    BY <1>1, <2>1, SameKey
  <2> QED
    BY <2>2, TaskShapes
<1> QED
  BY <1>1 DEF Fresh, Posts

LEMMA RedirectKeeps ==
  ASSUME Inv, Redirect
  PROVE  Inv'
<1> DEFINE t == Task("connect", "game")
<1>1. /\ logic = "redirect" /\ logic' = "drain" /\ strand_' = strand_ \o <<t>>
      /\ UNCHANGED <<linkVars, link, heard, socket_, awaiting, bufferVars, inbound_queue_,
                     process, inWorld, received, nullRead>>
  BY DEF Redirect, Post, linkVars
<1>2. t \in Tasks /\ t.kind \notin Completions /\ strand_ \in Seq(Tasks)
  BY DoneTasks DEF Servers, Completions, Inv, TypeOK
<1>3. /\ link["game"] = "unused" /\ received["login"] # <<>> /\ ~In(t)
      /\ \A k \in 1..Len(inbound_queue_) : ~Redirects(k)
  BY <1>1 DEF Inv, Core, RedirectInv
<1> HIDE DEF t
<1>4. strand_' = Append(strand_, t)
  BY <1>1, <1>2, AppendIsConcat
<1>5. /\ strand_' \in Seq(Tasks)
      /\ \A u : In(u)' <=> In(u) \/ u = t
      /\ OnePerKey => OnePerKey'
      /\ \A A, B : Precedes(A, B) /\ t \notin A => Precedes(A, B)'
  BY <1>2, <1>3, <1>4, PostedOne, FreshTask
<1>6. /\ SameDone /\ (In(TheDisconnect)' <=> In(TheDisconnect))
      /\ \A p : In(Task("send", p))' <=> In(Task("send", p))
      /\ In(Task("connect", "login"))' <=> In(Task("connect", "login"))
      /\ In(t)' /\ t \notin {TheDisconnect} /\ t \notin Failures
  BY <1>5, TasksDiffer DEF SameDone, t
<1>7. TypeOK'
  BY <1>1, <1>5 DEF Inv, TypeOK, linkVars, bufferVars
<1>8. \A c \in Servers : (Posts(c)' <=> Posts(c)) /\ (Reading(c)' <=> Reading(c))
  BY <1>1, <1>6, SameDoneSame, SameDoneReading
<1>9. SocketInv' /\ ChainInv' /\ ServersInv' /\ BuffersInv' /\ WireInv'
  <2>1. \A c \in Servers : In(Task("connect", c))' =>
                             In(Task("connect", c)) \/ link[c] = "unused"
    BY <1>3, <1>6 DEF Servers
  <2> QED
    BY <1>1, <1>5, <1>6, <2>1, ConnectionsFrame DEF Inv, Core, ChainInv
<1>10. RedirectInv'
  BY <1>1, <1>3 DEF Inv, Core, RedirectInv, Redirects
<1>11. OpeningInv'
  BY <1>1, <1>6 DEF Inv, Core, OpeningInv, OpensWithItsOwn, SameDone, Completions
<1>12. DropInv'
  <2>1. Precedes(Failures, {Done("connected", "game", ec) : ec \in Codes})'
    BY <1>5, <1>6 DEF Inv, Core, DropInv
  <2>2. \A f \in Failures : In(f)' <=> In(f)
    BY <1>5, <1>6
  <2>3. heard["game"] = <<>> /\ ~In(Task("send", "token"))
    BY <1>3 DEF Inv, Core, ServersInv, OpeningInv, Opening, Servers
  <2> QED
    BY <1>1, <1>6, <1>8, <2>1, <2>2, <2>3
       DEF Inv, Core, DropInv, SocketThereForPayload, Servers
<1> QED
  BY <1>7, <1>9, <1>10, <1>11, <1>12 DEF Inv, Core

LEMMA ActKeeps ==
  ASSUME Inv, Act
  PROVE  Inv'
<1> DEFINE t == Task("send", "move")
<1>1. /\ logic = "act" /\ logic' = "drain"
      /\ \/ inWorld /\ ~In(t) /\ strand_' = strand_ \o <<t>>
         \/ strand_' = strand_
      /\ UNCHANGED <<linkVars, link, heard, socket_, awaiting, bufferVars, inbound_queue_,
                     process, inWorld, received, nullRead>>
  BY DEF Act, Post, Posted, In, linkVars
<1>2. t \in Tasks /\ t.kind \notin Completions /\ strand_ \in Seq(Tasks)
  BY DoneTasks DEF Servers, Completions, Inv, TypeOK
<1> HIDE DEF t
<1>3. CASE strand_' = strand_
  <2>1. TypeOK'
    BY <1>1, <1>3 DEF Inv, TypeOK, linkVars, bufferVars
  <2>2. /\ \A u : In(u)' <=> In(u)
        /\ SameDone /\ OnePerKey' = OnePerKey
        /\ \A c \in Servers : (Posts(c)' <=> Posts(c)) /\ (Reading(c)' <=> Reading(c))
        /\ \A A, B : Precedes(A, B)' <=> Precedes(A, B)
    BY <1>1, <1>3, SameStrand, SameDoneSame, SameDoneReading
  <2>3. SocketInv' /\ ChainInv' /\ ServersInv' /\ BuffersInv' /\ WireInv'
    BY <1>1, <2>2, ConnectionsFrame DEF Inv, Core, ChainInv
  <2>4. RedirectInv' /\ OpeningInv'
    BY <1>1, <2>2 DEF Inv, Core, RedirectInv, Redirects, OpeningInv, OpensWithItsOwn
  <2>5. DropInv'
    BY <1>1, <1>3, <2>2 DEF Inv, Core, DropInv, SocketThereForPayload, Servers
  <2> QED
    BY <2>1, <2>3, <2>4, <2>5 DEF Inv, Core
<1>4. CASE inWorld /\ ~In(t) /\ strand_' = strand_ \o <<t>>
  <2>1. strand_' = Append(strand_, t)
    BY <1>2, <1>4, AppendIsConcat
  <2>2. /\ strand_' \in Seq(Tasks)
        /\ \A u : In(u)' <=> In(u) \/ u = t
        /\ OnePerKey => OnePerKey'
        /\ \A A, B : Precedes(A, B) /\ t \notin A => Precedes(A, B)'
    BY <1>2, <1>4, <2>1, PostedOne, FreshTask
  <2>3. /\ SameDone /\ (In(TheDisconnect)' <=> In(TheDisconnect))
        /\ \A p : p # "move" => (In(Task("send", p))' <=> In(Task("send", p)))
        /\ \A c : In(Task("connect", c))' <=> In(Task("connect", c))
        /\ t \notin {TheDisconnect} /\ t \notin Failures
    BY <2>2, TasksDiffer DEF SameDone, t
  <2>4. TypeOK'
    BY <1>1, <2>2 DEF Inv, TypeOK, linkVars, bufferVars
  <2>5. \A c \in Servers : (Posts(c)' <=> Posts(c)) /\ (Reading(c)' <=> Reading(c))
    BY <1>1, <2>3, SameDoneSame, SameDoneReading
  <2>6. SocketInv' /\ ChainInv' /\ ServersInv' /\ BuffersInv' /\ WireInv'
    BY <1>1, <2>2, <2>3, ConnectionsFrame DEF Inv, Core, ChainInv
  <2>7. RedirectInv'
    BY <1>1, <2>3 DEF Inv, Core, RedirectInv, Redirects
  <2>8. \A c \in Servers : Opening(c) # "move"
    BY DEF Opening
  <2>9. OpeningInv'
    BY <1>1, <1>4, <2>3, <2>8
       DEF Inv, Core, OpeningInv, OpensWithItsOwn, SameDone, Completions
  <2>10. DropInv'
    <3>1. /\ Precedes(Failures, {Done("connected", "game", ec) : ec \in Codes})'
          /\ Precedes({TheDisconnect}, {Task("send", "token")}) =>
               Precedes({TheDisconnect}, {Task("send", "token")})'
      BY <2>2, <2>3 DEF Inv, Core, DropInv
    <3>2. \A f \in Failures : In(f)' <=> In(f)
      BY <2>2, <2>3
    <3>3. process = "running"
      BY <1>1 DEF Inv, TypeOK, Core, DropInv
    <3> QED
      BY <1>1, <2>3, <2>5, <3>1, <3>2, <3>3
         DEF Inv, Core, DropInv, SocketThereForPayload, Servers
  <2> QED
    BY <2>4, <2>6, <2>7, <2>9, <2>10 DEF Inv, Core
<1> QED
  BY <1>1, <1>3, <1>4

LEMMA DestroyKeeps ==
  ASSUME Inv, Destroy
  PROVE  Inv'
<1>1. /\ logic = "exited" /\ process = "running" /\ process' = "quitting"
      /\ strand_' = strand_ \o <<TheDisconnect>>
      /\ UNCHANGED <<linkVars, link, heard, socket_, awaiting, bufferVars, inbound_queue_,
                     logic, inWorld, received, nullRead>>
  BY DEF Destroy, Post, linkVars, logicVars, TheDisconnect
<1>2. TheDisconnect \in Tasks /\ strand_ \in Seq(Tasks)
  BY DoneTasks DEF Inv, TypeOK
<1>3. strand_' = Append(strand_, TheDisconnect)
  BY <1>1, <1>2, AppendIsConcat
<1>4. /\ strand_' \in Seq(Tasks)
      /\ \A u : In(u)' <=> In(u) \/ u = TheDisconnect
      /\ OnePerKey => OnePerKey'
      /\ \A A, B : Precedes(A, B) /\ TheDisconnect \notin A => Precedes(A, B)'
  BY <1>2, <1>3, PostedOne DEF Fresh
<1>5. /\ SameDone
      /\ \A kind \in {"connect", "send"} : \A about :
           In(Task(kind, about))' <=> In(Task(kind, about))
      /\ TheDisconnect \notin Failures
  BY <1>4, TasksDiffer DEF SameDone
<1>6. TypeOK'
  BY <1>1, <1>4 DEF Inv, TypeOK, linkVars, bufferVars
<1>7. SocketInv' /\ ChainInv' /\ ServersInv' /\ BuffersInv' /\ WireInv'
  BY <1>1, <1>4, <1>5, ConnectionsFrame DEF Inv, Core, ChainInv
<1>8. RedirectInv'
  BY <1>1, <1>5 DEF Inv, Core, RedirectInv, Redirects
<1>9. OpeningInv'
  BY <1>1, <1>5 DEF Inv, Core, OpeningInv, OpensWithItsOwn, SameDone, Completions
<1>10. DropInv'
  <2>1. Precedes(Failures, {Done("connected", "game", ec) : ec \in Codes})'
    BY <1>4, <1>5 DEF Inv, Core, DropInv
  <2>2. \A f \in Failures : In(f)' <=> In(f)
    BY <1>4, <1>5
  <2> QED
    BY <1>1, <1>5, <2>1, <2>2 DEF Inv, Core, DropInv, SocketThereForPayload
<1> QED
  BY <1>6, <1>7, <1>8, <1>9, <1>10 DEF Inv, Core

\* The socket goes: no connection is open.
LEMMA ClosedLinks ==
  ASSUME Inv, link' = Closed(socket_)
  PROVE  /\ \A c \in Servers : link'[c] = IF link[c] \in Open THEN "closed" ELSE link[c]
         /\ link' \in [Servers -> {"unused", "connecting", "open", "failed", "closed"}]
<1>1. /\ \A c \in Servers : link[c] \in Open <=> socket_ = c
      /\ socket_ \in Servers \cup {NoServer} /\ NoServer \notin Servers
      /\ link \in [Servers -> {"unused", "connecting", "open", "failed", "closed"}]
  BY ClientAssumption DEF Inv, TypeOK, Core, SocketInv, Servers
<1> QED
  BY <1>1 DEF Closed, IsOpen, Open

LEMMA LetGo ==
  ASSUME Inv, link' = Closed(socket_), socket_' = NoServer,
         UNCHANGED <<serving, sent, wire, heard, awaiting, bufferVars, received>>,
         \A k \in Completions, c \in Servers, ec \in Codes :
           In(Done(k, c, ec))' => In(Done(k, c, ec)),
         \A c \in Servers : In(Task("connect", c))' => In(Task("connect", c)),
         OnePerKey'
  PROVE  SocketInv' /\ ChainInv' /\ ServersInv' /\ BuffersInv' /\ WireInv'
<1>1. /\ \A c \in Servers : link'[c] = IF link[c] \in Open THEN "closed" ELSE link[c]
      /\ NoServer \notin Servers /\ UNCHANGED <<incoming_header_, incoming_payload_>>
      /\ "login" \in Servers /\ "game" \in Servers
  BY ClosedLinks, ClientAssumption DEF Servers, bufferVars
<1>2. \A c \in Servers :
        /\ link'[c] \notin Open /\ link'[c] # "open"
        /\ link'[c] = "unused" <=> link[c] = "unused"
        /\ link[c] = "closed" => link'[c] = "closed"
  BY <1>1 DEF Open
<1>3. \A c \in Servers :
        /\ HeaderReady(c)' => HeaderReady(c)
        /\ PayloadReady(c)' => PayloadReady(c)
        /\ Posts(c)' => Posts(c)
  BY DEF HeaderReady, PayloadReady, Posts, Completions, Codes
<1>4. SocketInv'
  BY <1>1, <1>2, <1>3 DEF Inv, Core, SocketInv
<1>5. ChainInv'
  BY <1>1, <1>3 DEF Inv, Core, ChainInv, Codes, Open
<1>6. ServersInv'
  BY <1>1, <1>2 DEF Inv, Core, ServersInv, Open
<1>7. BuffersInv'
  BY <1>1, <1>3, BuffersFrame
<1>8. WireInv'
  BY <1>2 DEF WireInv
<1> QED
  BY <1>4, <1>5, <1>6, <1>7, <1>8

LEMMA StopKeeps ==
  ASSUME Inv, Stop
  PROVE  Inv'
<1>1. /\ process = "quitting" /\ process' = "stopped" /\ link' = Closed(socket_)
      /\ socket_' = NoServer /\ strand_' = <<>>
      /\ UNCHANGED <<serving, sent, wire, heard, faults, awaiting, bufferVars,
                     inbound_queue_, logic, inWorld, received, nullRead>>
  BY DEF Stop, logicVars
<1>2. strand_' \in Seq(Tasks) /\ Len(strand_') = 0
  BY <1>1, EmptySeq
<1>3. (\A t : ~In(t)') /\ OnePerKey' /\ \A A, B : Precedes(A, B)'
  BY <1>2 DEF In, OnePerKey, Precedes
<1>4. TypeOK'
  BY <1>1, <1>2, ClosedLinks DEF Inv, TypeOK, bufferVars
<1>5. SocketInv' /\ ChainInv' /\ ServersInv' /\ BuffersInv' /\ WireInv'
  BY <1>1, <1>3, LetGo
<1>6. logic = "exited"
  BY <1>1 DEF Inv, Core, DropInv
<1>7. \A c \in Servers : link'[c] = "unused" <=> link[c] = "unused"
  BY <1>1, ClosedLinks DEF Open
<1>8. RedirectInv'
  BY <1>1, <1>3, <1>6, <1>7 DEF Inv, Core, RedirectInv, Redirects, Servers
<1>9. OpeningInv'
  BY <1>1, <1>3 DEF Inv, Core, OpeningInv, OpensWithItsOwn
<1>10. DropInv'
  BY <1>1, <1>3, <1>6 DEF Inv, Core, DropInv, SocketThereForPayload
<1> QED
  BY <1>4, <1>5, <1>8, <1>9, <1>10 DEF Inv, Core

-----------------------------------------------------------------------------
(* The network thread: the tasks of the strand.                                *)

\* The first task, whatever it is.
LEMMA FirstKind ==
  ASSUME Inv, NEW kind, NextTask(kind)
  PROVE  /\ strand_ \in Seq(Tasks) /\ strand_ # <<>> /\ OnePerKey /\ process # "stopped"
         /\ Head(strand_) \in Tasks /\ Head(strand_).kind = kind
BY FirstTask DEF Inv, TypeOK, Core, ChainInv, NextTask, Running

LEMMA DisconnectKeeps ==
  ASSUME Inv, Disconnect
  PROVE  Inv'
<1>1. /\ NextTask("disconnect") /\ link' = Closed(socket_) /\ Finish(<<>>)
      /\ socket_' = IF IsOpen(socket_) THEN NoServer ELSE socket_
      /\ UNCHANGED <<serving, sent, wire, heard, faults, awaiting, bufferVars,
                     inbound_queue_, process, logic, inWorld, received, nullRead>>
  BY DEF Disconnect, logicVars
<1>2. /\ strand_ \in Seq(Tasks) /\ strand_ # <<>> /\ OnePerKey /\ process # "stopped"
      /\ Head(strand_) \in Tasks /\ Head(strand_).kind = "disconnect"
  BY <1>1, FirstKind
<1>3. Head(strand_) = Task("disconnect", NoServer)
  BY <1>2, TaskShapes DEF TheDisconnect
<1>4. /\ strand_' \in Seq(Tasks) /\ OnePerKey'
      /\ \A t : In(t)' <=> Later(t)
      /\ \A A, B : Precedes(A, B) => Precedes(A, B)'
  BY <1>1, <1>2, Ran
<1>5. /\ In(TheDisconnect)
      /\ SameDone
      /\ \A k \in {"connect", "send"} : \A about :
           In(Task(k, about))' <=> In(Task(k, about))
      /\ In(TheDisconnect)' => In(TheDisconnect)
  BY <1>2, <1>3, <1>4, TaskFirst DEF SameDone, TheDisconnect
<1>6. socket_' = NoServer
  BY <1>1 DEF Inv, TypeOK, Core, SocketInv, IsOpen, Open
<1>7. TypeOK'
  BY <1>1, <1>4, <1>6, ClosedLinks DEF Inv, TypeOK, bufferVars
<1>8. SocketInv' /\ ChainInv' /\ ServersInv' /\ BuffersInv' /\ WireInv'
  BY <1>1, <1>4, <1>5, <1>6, LetGo DEF SameDone
<1>9. \A c \in Servers : link'[c] = "unused" <=> link[c] = "unused"
  BY <1>1, ClosedLinks DEF Open
<1>10. RedirectInv'
  BY <1>1, <1>5, <1>9 DEF Inv, Core, RedirectInv, Redirects, Servers
<1>11. OpeningInv'
  BY <1>1, <1>5, <1>9 DEF Inv, Core, OpeningInv, OpensWithItsOwn, SameDone, Completions
<1>12. \A c \in Servers : (Posts(c)' <=> Posts(c)) /\ (Reading(c)' <=> Reading(c))
  BY <1>1, <1>5, SameDoneSame, SameDoneReading
<1>13. DropInv'
  <2>1. /\ Precedes(Failures, {Done("connected", "game", ec) : ec \in Codes})'
        /\ Precedes({TheDisconnect}, {Task("send", "token")}) =>
             Precedes({TheDisconnect}, {Task("send", "token")})'
    BY <1>4 DEF Inv, Core, DropInv
  <2>2. \A f \in Failures : In(f)' => In(f)
    BY <1>4, FirstTask, <1>2
  <2>3. ASSUME process = "running"
        PROVE  /\ ~(received["login"] = <<>> /\ (awaiting["login"] # "no" \/ Posts("login")))
               /\ ~In(Task("connect", "login"))
               /\ ~(heard["game"] # <<>> /\ Reading("game"))
    BY <1>5, <2>3 DEF Inv, Core, DropInv
  <2> QED
    BY <1>1, <1>2, <1>5, <1>12, <2>1, <2>2, <2>3
       DEF Inv, Core, DropInv, SocketThereForPayload, Servers
<1> QED
  BY <1>7, <1>8, <1>10, <1>11, <1>13 DEF Inv, Core

LEMMA SendPacketKeeps ==
  ASSUME Inv, SendPacket
  PROVE  Inv'
<1> DEFINE p == Head(strand_).about
           w == IsOpen(socket_) /\ link[socket_] = "open" /\ serving[socket_] = "yes"
<1>1. /\ NextTask("send") /\ Finish(<<>>)
      /\ heard' = IF w THEN [heard EXCEPT ![socket_] = Append(heard[socket_], p)] ELSE heard
      /\ UNCHANGED <<link, serving, sent, wire, faults, socket_, awaiting, bufferVars,
                     incoming_header_, incoming_payload_,
                     inbound_queue_, process, logic, inWorld, received, nullRead>>
  BY DEF SendPacket, logicVars, bufferVars
<1>2. /\ strand_ \in Seq(Tasks) /\ strand_ # <<>> /\ OnePerKey /\ process # "stopped"
      /\ Head(strand_) \in Tasks /\ Head(strand_).kind = "send"
  BY <1>1, FirstKind
<1>3. p \in {"credentials", "token", "move"} /\ Head(strand_) = Task("send", p)
  BY <1>2, TaskShapes DEF Completions
<1>4. w => socket_ \in Servers /\ link[socket_] = "open" /\ serving[socket_] = "yes"
  BY DEF IsOpen, Inv, TypeOK
<1> HIDE DEF p, w
<1>5. /\ strand_' \in Seq(Tasks) /\ OnePerKey'
      /\ \A t : In(t)' <=> Later(t)
      /\ \A A, B : Precedes(A, B) => Precedes(A, B)'
  BY <1>1, <1>2, Ran
<1>6. /\ In(Task("send", p)) /\ SameDone
      /\ \A k \in {"connect", "send"} : \A about :
           In(Task(k, about))' <=> In(Task(k, about)) /\ ~(k = "send" /\ about = p)
      /\ In(TheDisconnect)' <=> In(TheDisconnect)
  BY <1>2, <1>3, <1>5, TaskFirst DEF SameDone
<1>7. \A c \in Servers : heard'[c] = IF w /\ c = socket_ THEN Append(heard[c], p) ELSE heard[c]
  BY <1>1, <1>4 DEF Inv, TypeOK
<1>8. /\ "login" \in Servers /\ "game" \in Servers
      /\ Opening("login") = "credentials" /\ Opening("game") = "token"
  BY DEF Servers, Opening
\* The task meets the connection it was posted for.
<1>9. w => \/ p = Opening(socket_) /\ heard[socket_] = <<>>
           \/ p = "move" /\ socket_ = "game" /\ heard["game"] # <<>>
  <2>1. CASE p = "credentials"
    <3>1. heard["login"] = <<>>
      BY <1>6, <1>8, <2>1 DEF Inv, Core, OpeningInv
    <3>2. ASSUME w, socket_ = "game" PROVE FALSE
      BY <1>4, <3>1, <3>2, LoginRead
    <3> QED
      BY <1>4, <1>8, <2>1, <3>1, <3>2 DEF Servers
  <2>2. CASE p = "token"
    <3>1. heard["game"] = <<>> /\ link["game"] # "unused"
      BY <1>6, <1>8, <2>2 DEF Inv, Core, OpeningInv
    <3>2. link["login"] = "closed"
      BY <3>1 DEF Inv, Core, SocketInv
    <3> QED
      BY <1>4, <1>8, <2>2, <3>1, <3>2 DEF Servers
  <2>3. CASE p = "move"
    <3>1. heard["game"] # <<>>
      BY <1>6, <2>3 DEF Inv, Core, OpeningInv
    <3>2. link["login"] = "closed"
      BY <1>8, <3>1 DEF Inv, Core, ServersInv, SocketInv
    <3> QED
      BY <1>4, <2>3, <3>1, <3>2 DEF Servers
  <2> QED
    BY <1>3, <2>1, <2>2, <2>3
<1>10. \A c \in Servers :
         /\ heard[c] \in Seq({"credentials", "token", "move"})
         /\ Append(heard[c], p) \in Seq({"credentials", "token", "move"})
         /\ Append(heard[c], p) # <<>> /\ heard'[c] = <<>> => heard[c] = <<>>
         /\ heard[c] = <<>> => Append(heard[c], p) = <<p>>
  <2> SUFFICES ASSUME NEW c \in Servers
               PROVE  /\ heard[c] \in Seq({"credentials", "token", "move"})
                      /\ Append(heard[c], p) \in Seq({"credentials", "token", "move"})
                      /\ Append(heard[c], p) # <<>> /\ heard'[c] = <<>> => heard[c] = <<>>
                      /\ heard[c] = <<>> => Append(heard[c], p) = <<p>>
    OBVIOUS
  <2>1. heard[c] \in Seq({"credentials", "token", "move"})
    BY DEF Inv, TypeOK
  <2>2. Append(heard[c], p) \in Seq({"credentials", "token", "move"})
        /\ Len(Append(heard[c], p)) = Len(heard[c]) + 1 /\ Len(heard[c]) \in Nat
    BY <1>3, <2>1, AppendProperties, LenProperties
  <2>3. Append(heard[c], p) # <<>>
    BY <2>2, EmptySeq
  <2>4. heard[c] = <<>> => Append(heard[c], p) = <<p>>
    OBVIOUS
  <2> QED
    BY <1>7, <2>1, <2>2, <2>3, <2>4
<1>11. TypeOK'
  <2>1. heard' \in [Servers -> Seq({"credentials", "token", "move"})]
    BY <1>1, <1>4, <1>10 DEF Inv, TypeOK
  <2> QED
    BY <1>1, <1>5, <2>1 DEF Inv, TypeOK, bufferVars
<1>12. \A c \in Servers :
         /\ HeaderReady(c)' <=> HeaderReady(c)
         /\ PayloadReady(c)' <=> PayloadReady(c)
         /\ Posts(c)' <=> Posts(c)
         /\ Reading(c)' <=> Reading(c)
  BY <1>1, <1>6, SameDoneSame, SameDoneReading
<1>13. SocketInv'
  BY <1>1, <1>6, <1>12 DEF Inv, Core, SocketInv
<1>14. ChainInv'
  BY <1>1, <1>5, <1>6, <1>12 DEF Inv, Core, ChainInv, SameDone, Codes
<1>15. ServersInv'
  <2>1. \A c \in Servers : heard'[c] # <<>> => link[c] # "unused"
    BY <1>4, <1>7 DEF Inv, Core, ServersInv
  <2>2. \A c \in Servers : heard[c] # <<>> => heard'[c] # <<>>
    BY <1>7, <1>10
  <2> QED
    BY <1>1, <2>1, <2>2 DEF Inv, Core, ServersInv
<1>16. BuffersInv'
  BY <1>1, <1>12, BuffersFrame
<1>17. WireInv'
  BY <1>1, <1>12, WireFrame DEF WireInv
<1>18. RedirectInv'
  BY <1>1, <1>6 DEF Inv, Core, RedirectInv, Redirects
<1>19. OpeningInv'
  <2>1. OpensWithItsOwn'
    <3>1. heard'["login"] \in {<<>>, <<"credentials">>}
      BY <1>7, <1>8, <1>9, <1>10 DEF Inv, Core, OpeningInv, OpensWithItsOwn
    <3>2. ASSUME NEW i \in 1..Len(heard'["game"])
          PROVE  heard'["game"][i] = IF i = 1 THEN "token" ELSE "move"
      <4>1. CASE ~(w /\ socket_ = "game")
        BY <1>7, <1>8, <3>2, <4>1 DEF Inv, Core, OpeningInv, OpensWithItsOwn
      <4>2. CASE w /\ socket_ = "game"
        <5> DEFINE h == heard["game"]
        <5>1. /\ h \in Seq({"credentials", "token", "move"}) /\ heard'["game"] = Append(h, p)
              /\ Len(h) \in Nat /\ Len(heard'["game"]) = Len(h) + 1
              /\ heard'["game"][Len(h) + 1] = p
              /\ \A j \in 1..Len(h) : heard'["game"][j] = h[j]
              /\ h = <<>> <=> Len(h) = 0
          <6>1. h \in Seq({"credentials", "token", "move"}) /\ heard'["game"] = Append(h, p)
            BY <1>7, <1>8, <1>10, <4>2
          <6> HIDE DEF h
          <6> QED
            BY <1>3, <6>1, AppendProperties, LenProperties, EmptySeq
        <5>2. \A j \in 1..Len(h) : h[j] = IF j = 1 THEN "token" ELSE "move"
          BY DEF Inv, Core, OpeningInv, OpensWithItsOwn
        <5>3. p = IF h = <<>> THEN "token" ELSE "move"
          BY <1>8, <1>9, <4>2
        <5> HIDE DEF h
        <5> QED
          BY <5>1, <5>2, <5>3
      <4> QED
        BY <4>1, <4>2
    <3> QED
      BY <3>1, <3>2 DEF OpensWithItsOwn
  <2>2. \A c \in Servers : Opening(c) # "move"
    BY DEF Opening
  <2>3. ASSUME NEW c \in Servers,
               awaiting[c] = "connect" \/ (\E ec \in Codes : In(Done("connected", c, ec)))
        PROVE  heard'[c] = <<>> /\ ~In(Task("send", Opening(c)))'
    <3>1. heard[c] = <<>> /\ ~In(Task("send", Opening(c)))
      BY <2>3 DEF Inv, Core, OpeningInv
    <3>2. ~(w /\ c = socket_)
      BY <1>6, <1>9, <3>1
    <3> QED
      BY <1>6, <1>7, <3>1, <3>2
  <2>4. ASSUME NEW c \in Servers, In(Task("send", Opening(c)))'
        PROVE  heard'[c] = <<>> /\ link[c] # "unused"
    <3>1. In(Task("send", Opening(c))) /\ p # Opening(c)
      BY <1>6, <2>4
    <3>2. heard[c] = <<>> /\ link[c] # "unused"
      BY <3>1 DEF Inv, Core, OpeningInv
    <3>3. ~(w /\ c = socket_)
      BY <1>9, <3>1, <3>2
    <3> QED
      BY <1>7, <3>2, <3>3
  <2>5. heard["game"] # <<>> => heard'["game"] # <<>>
    BY <1>8, <1>10
  <2>6. \A c \in Servers, ec \in Codes :
          In(Done("connected", c, ec))' <=> In(Done("connected", c, ec))
    BY <1>6 DEF SameDone, Completions
  <2> QED
    BY <1>1, <1>6, <2>1, <2>3, <2>4, <2>5, <2>6 DEF Inv, Core, OpeningInv
<1>20. DropInv'
  <2>1. /\ Precedes(Failures, {Done("connected", "game", ec) : ec \in Codes})'
        /\ Precedes({TheDisconnect}, {Task("send", "token")}) =>
             Precedes({TheDisconnect}, {Task("send", "token")})'
    BY <1>5 DEF Inv, Core, DropInv
  <2>2. \A f \in Failures : In(f)' <=> In(f)
    BY <1>2, <1>3, <1>5, FirstTask, TasksDiffer
  <2>3. ASSUME process = "running", heard'["game"] # <<>>, Reading("game")
        PROVE  ~In(TheDisconnect) /\ socket_ = "game" /\ \A t \in Failures : ~In(t)
    <3>1. CASE heard["game"] # <<>>
      BY <2>3, <3>1 DEF Inv, Core, DropInv
    <3>2. CASE heard["game"] = <<>>
      <4>1. w /\ socket_ = "game"
        BY <1>7, <1>8, <2>3, <3>2
      <4>2. p = "token"
        BY <1>8, <1>9, <3>2, <4>1
      <4>3. Precedes({TheDisconnect}, {Task("send", "token")}) /\ \A t \in Failures : ~In(t)
        BY <1>6, <2>3, <4>2 DEF Inv, Core, DropInv
      <4>4. ~In(TheDisconnect)
        BY <1>2, <1>3, <4>2, <4>3, FirstTask
      <4> QED
        BY <4>1, <4>3, <4>4
    <3> QED
      BY <3>1, <3>2
  <2> QED
    BY <1>1, <1>2, <1>6, <1>8, <1>12, <2>1, <2>2, <2>3
       DEF Inv, Core, DropInv, SocketThereForPayload
<1> QED
  BY <1>11, <1>13, <1>14, <1>15, <1>16, <1>17, <1>18, <1>19, <1>20 DEF Inv, Core

\* A task that changes nothing else, and is not a read that succeeded.
LEMMA TaskDropped ==
  ASSUME Inv, strand_ # <<>>, process # "stopped", Finish(<<>>), faults' \in 0..MaxFaults,
         \A k \in Completions, c \in Servers : Head(strand_) # Done(k, c, "ok"),
         UNCHANGED <<link, serving, sent, wire, heard, socket_, awaiting, bufferVars,
                     inbound_queue_, process, logicVars, received, nullRead>>
  PROVE  Inv'
<1>1. UNCHANGED <<link, serving, sent, wire, heard, socket_, awaiting, incoming_header_,
                  incoming_payload_, inbound_queue_, process, logic, inWorld, received,
                  nullRead>>
  BY DEF bufferVars, logicVars
<1>2. strand_ \in Seq(Tasks) /\ OnePerKey
  BY DEF Inv, TypeOK, Core, ChainInv
<1>3. /\ strand_' \in Seq(Tasks) /\ OnePerKey'
      /\ \A t : In(t)' => In(t)
      /\ \A A, B : Precedes(A, B) => Precedes(A, B)'
      /\ \A k \in Completions, c \in Servers : In(Done(k, c, "ok"))' <=> In(Done(k, c, "ok"))
  BY <1>2, FirstTask, Ran
<1>4. \A c \in Servers :
        /\ HeaderReady(c)' <=> HeaderReady(c)
        /\ PayloadReady(c)' <=> PayloadReady(c)
        /\ Posts(c)' => Posts(c)
        /\ Reading(c)' => Reading(c)
  BY <1>1, <1>3 DEF HeaderReady, PayloadReady, Posts, Reading, Completions
<1>5. TypeOK'
  BY <1>1, <1>3 DEF Inv, TypeOK
<1>6. SocketInv'
  BY <1>1, <1>3, <1>4 DEF Inv, Core, SocketInv
<1>7. ChainInv'
  BY <1>1, <1>3, <1>4 DEF Inv, Core, ChainInv
<1>8. ServersInv'
  BY <1>1 DEF Inv, Core, ServersInv
<1>9. BuffersInv'
  BY <1>1, <1>4, BuffersFrame
<1>10. WireInv'
  BY <1>1, <1>4, WireFrame DEF WireInv
<1>11. RedirectInv'
  BY <1>1, <1>3 DEF Inv, Core, RedirectInv, Redirects
<1>12. OpeningInv'
  BY <1>1, <1>3 DEF Inv, Core, OpeningInv, OpensWithItsOwn
<1>13. DropInv'
  BY <1>1, <1>3, <1>4 DEF Inv, Core, DropInv, SocketThereForPayload, Servers
<1> QED
  BY <1>5, <1>6, <1>7, <1>8, <1>9, <1>10, <1>11, <1>12, <1>13 DEF Inv, Core

LEMMA ConnectKeeps ==
  ASSUME Inv, Connect
  PROVE  Inv'
<1> DEFINE c == Head(strand_).about
<1>1. /\ NextTask("connect") /\ Finish(<<>>)
      /\ \/ /\ socket_' = c /\ link' = [Closed(socket_) EXCEPT ![c] = "connecting"]
            /\ awaiting' = [awaiting EXCEPT ![c] = "connect"] /\ faults' = faults
         \/ faults < MaxFaults /\ faults' = faults + 1 /\ UNCHANGED <<socket_, link, awaiting>>
      /\ UNCHANGED <<serving, sent, wire, heard, bufferVars, inbound_queue_, process,
                     logicVars, received, nullRead>>
  BY DEF Connect
<1>2. /\ strand_ \in Seq(Tasks) /\ strand_ # <<>> /\ OnePerKey /\ process # "stopped"
      /\ Head(strand_) \in Tasks /\ Head(strand_).kind = "connect"
  BY <1>1, FirstKind
<1>3. c \in Servers /\ Head(strand_) = Task("connect", c)
  BY <1>2, TaskShapes DEF Completions
<1> HIDE DEF c
<1>4. CASE faults < MaxFaults /\ faults' = faults + 1 /\ UNCHANGED <<socket_, link, awaiting>>
  <2>1. faults' \in 0..MaxFaults
    BY <1>4, ClientAssumption DEF Inv, TypeOK
  <2>2. \A k \in Completions, d \in Servers : Head(strand_) # Done(k, d, "ok")
    BY <1>2, DoneTasks DEF Completions, Codes
  <2> QED
    BY <1>1, <1>2, <1>4, <2>1, <2>2, TaskDropped
<1>5. CASE /\ socket_' = c /\ link' = [Closed(socket_) EXCEPT ![c] = "connecting"]
           /\ awaiting' = [awaiting EXCEPT ![c] = "connect"] /\ faults' = faults
  <2>1. UNCHANGED <<serving, sent, wire, heard, faults, incoming_header_, incoming_payload_,
                    inbound_queue_, process, logic, inWorld, received, nullRead>>
    BY <1>1, <1>5 DEF bufferVars, logicVars
  <2>2. /\ strand_' \in Seq(Tasks) /\ OnePerKey'
        /\ \A t : In(t)' <=> Later(t)
        /\ \A A, B : Precedes(A, B) => Precedes(A, B)'
    BY <1>1, <1>2, Ran
  <2>3. /\ In(Task("connect", c)) /\ SameDone
        /\ \A k \in {"connect", "send"} : \A about :
             In(Task(k, about))' <=> In(Task(k, about)) /\ ~(k = "connect" /\ about = c)
        /\ In(TheDisconnect)' <=> In(TheDisconnect)
    BY <1>2, <1>3, <2>2, TaskFirst DEF SameDone
  <2>4. /\ "login" \in Servers /\ "game" \in Servers
        /\ \A d \in Servers : d = "login" \/ d = "game"
    BY DEF Servers
  <2>5. /\ link[c] = "unused" /\ awaiting[c] = "no" /\ ~Posts(c)
        /\ serving[c] = "no" /\ heard[c] = <<>> /\ ~In(Task("send", Opening(c)))
    BY <1>3, <2>3 DEF Inv, Core, SocketInv, ServersInv, OpeningInv
  <2>6. /\ \A d \in Servers : Closed(socket_)[d] = IF link[d] \in Open THEN "closed" ELSE link[d]
        /\ Closed(socket_) \in [Servers -> {"unused", "connecting", "open", "failed", "closed"}]
    <3>1. /\ \A d \in Servers : link[d] \in Open <=> socket_ = d
          /\ socket_ \in Servers \cup {NoServer} /\ NoServer \notin Servers
          /\ link \in [Servers -> {"unused", "connecting", "open", "failed", "closed"}]
      BY ClientAssumption DEF Inv, TypeOK, Core, SocketInv, Servers
    <3> QED
      BY <3>1 DEF Closed, IsOpen, Open
  <2>7. /\ \A d \in Servers : link'[d] = IF d = c THEN "connecting"
                                         ELSE IF link[d] \in Open THEN "closed" ELSE link[d]
        /\ link' \in [Servers -> {"unused", "connecting", "open", "failed", "closed"}]
    BY <1>3, <1>5, <2>6
  <2>8. /\ \A d \in Servers : awaiting'[d] = IF d = c THEN "connect" ELSE awaiting[d]
        /\ awaiting' \in [Servers -> {"no", "connect", "header", "payload"}]
    BY <1>3, <1>5 DEF Inv, TypeOK
  <2>9. \A d \in Servers :
          /\ link'[d] \in Open <=> d = c
          /\ link'[d] = "unused" <=> link[d] = "unused" /\ d # c
          /\ link'[d] # "open"
          /\ link[d] = "closed" => link'[d] = "closed"
    BY <2>5, <2>7 DEF Open
  <2>10. \A d \in Servers :
           /\ HeaderReady(d)' <=> HeaderReady(d)
           /\ PayloadReady(d)' <=> PayloadReady(d)
           /\ Posts(d)' <=> Posts(d)
    BY <2>3, SameDoneSame
  <2>11. \A d \in Servers : Reading(d)' => Reading(d)
    BY <2>3, <2>8 DEF SameDone, Reading, Reads, Completions, Codes
  <2>12. TypeOK'
    BY <1>3, <1>5, <2>1, <2>2, <2>7, <2>8 DEF Inv, TypeOK
  <2>13. c = "game" => received["login"] # <<>> /\ link["login"] # "unused"
    <3>1. c = "game" => received["login"] # <<>>
      BY <2>3 DEF Inv, Core, RedirectInv
    <3> QED
      BY <3>1, LoginRead
  <2>14. c = "login" => link["game"] = "unused" /\ heard["game"] = <<>>
    BY <2>4, <2>5 DEF Inv, Core, SocketInv, ServersInv
  <2>15. SocketInv'
    <3>1. link'["game"] # "unused" => link'["login"] = "closed" /\ received["login"] # <<>>
      BY <2>4, <2>7, <2>9, <2>13, <2>14 DEF Inv, TypeOK, Core, SocketInv, Open
    <3> QED
      BY <1>5, <2>1, <2>3, <2>8, <2>9, <2>10, <3>1 DEF Inv, Core, SocketInv
  <2>16. ChainInv'
    <3>1. \A d \in Servers : awaiting'[d] # "no" => ~Posts(d)'
      BY <2>5, <2>8, <2>10 DEF Inv, Core, ChainInv
    <3>2. \A d \in Servers :
            awaiting'[d] = "connect" => link'[d] \in {"connecting", "closed"} /\ serving[d] = "no"
      BY <2>5, <2>7, <2>8 DEF Inv, Core, ChainInv, Open
    <3>3. \A d \in Servers : awaiting'[d] \in Reads => link'[d] \in {"open", "closed"}
      BY <2>7, <2>8 DEF Inv, Core, ChainInv, Open, Reads
    <3>4. \A d \in Servers, k \in Completions :
            In(Done(k, d, "ok"))' => link'[d] \in {"open", "closed"}
      BY <2>3, <2>5, <2>7 DEF Inv, Core, ChainInv, Open, SameDone, Posts, Codes
    <3> QED
      BY <2>1, <2>2, <3>1, <3>2, <3>3, <3>4 DEF ChainInv
  <2>17. ServersInv'
    <3>1. \A d \in Servers : heard[d] # <<>> => link'[d] # "unused"
      BY <2>5, <2>9 DEF Inv, Core, ServersInv
    <3>2. \A d \in Servers : serving[d] # "no" => link'[d] \in {"open", "closed"}
      BY <2>5, <2>7 DEF Inv, Core, ServersInv, Open
    <3> QED
      BY <2>1, <3>1, <3>2 DEF Inv, Core, ServersInv
  <2>18. BuffersInv'
    BY <2>1, <2>8, <2>10, BuffersFrame
  <2>19. WireInv'
    BY <2>9 DEF WireInv
  <2>20. RedirectInv'
    <3>1. c = "game" => /\ logic # "redirect"
                        /\ \A k \in 1..Len(inbound_queue_) : ~Redirects(k)
                        /\ ~In(Task("connect", "game"))'
      BY <2>3 DEF Inv, Core, RedirectInv
    <3>2. c # "game" => (link'["game"] = "unused" <=> link["game"] = "unused")
                        /\ (In(Task("connect", "game"))' <=> In(Task("connect", "game")))
      BY <2>3, <2>4, <2>9
    <3> QED
      BY <2>1, <3>1, <3>2 DEF Inv, Core, RedirectInv, Redirects
  <2>21. OpeningInv'
    <3>1. \A p : In(Task("send", p))' <=> In(Task("send", p))
      BY <2>3
    <3>2. \A d \in Servers, ec \in Codes :
            In(Done("connected", d, ec))' <=> In(Done("connected", d, ec))
      BY <2>3 DEF SameDone, Completions
    <3>3. \A d \in Servers : In(Task("send", Opening(d))) => link'[d] # "unused"
      BY <2>5, <2>9 DEF Inv, Core, OpeningInv
    <3> QED
      BY <2>1, <2>5, <2>8, <3>1, <3>2, <3>3 DEF Inv, Core, OpeningInv, OpensWithItsOwn
  <2>22. DropInv'
    <3>1. /\ Precedes(Failures, {Done("connected", "game", ec) : ec \in Codes})'
          /\ Precedes({TheDisconnect}, {Task("send", "token")}) =>
               Precedes({TheDisconnect}, {Task("send", "token")})'
      BY <2>2 DEF Inv, Core, DropInv
    <3>2. \A f \in Failures : In(f)' => In(f)
      BY <1>2, <2>2, FirstTask
    <3>3. heard["game"] = <<>>
      BY <1>3, <2>4, <2>5, <2>14
    <3>4. In(Task("send", "token"))' <=> In(Task("send", "token"))
      BY <2>3
    <3>5. process = "running" =>
            (c = "login" => ~In(TheDisconnect)) /\ (c = "game" => received["login"] # <<>>)
      BY <2>3, <2>13 DEF Inv, Core, DropInv
    <3>6. In(Task("connect", "login"))' => In(Task("connect", "login"))
      BY <2>3
    <3> QED
      BY <1>2, <1>3, <1>5, <2>1, <2>3, <2>4, <2>10, <2>11, <3>1, <3>2, <3>3, <3>4, <3>5, <3>6
         DEF Inv, Core, DropInv, SocketThereForPayload
  <2> QED
    BY <2>12, <2>15, <2>16, <2>17, <2>18, <2>19, <2>20, <2>21, <2>22 DEF Inv, Core
<1> QED
  BY <1>1, <1>4, <1>5

\* The handler of an operation that succeeded, which may start the next one.
LEMMA HandlerGoesOn ==
  ASSUME Inv, NEW k \in Completions, NEW c \in Servers, In(Done(k, c, "ok")),
         UNCHANGED <<link, socket_, serving, sent, wire, heard>>, OnePerKey',
         NEW next \in Reads, socket_ = c => link[c] = "open",
         awaiting' = IF socket_ = c THEN [awaiting EXCEPT ![c] = next] ELSE awaiting,
         socket_ = c => ~Posts(c)',
         \A l \in Completions : ~In(Done(l, c, "ok"))',
         \A l \in Completions, d \in Servers, e \in Codes :
           d # c => (In(Done(l, d, e))' <=> In(Done(l, d, e))),
         \A d \in Servers : In(Task("connect", d))' => In(Task("connect", d)),
         received["login"] # <<>> => received'["login"] # <<>>
  PROVE  /\ SocketInv' /\ ChainInv' /\ ServersInv'
         /\ awaiting[c] = "no" /\ link[c] \in {"open", "closed"}
         /\ awaiting' \in [Servers -> {"no", "connect", "header", "payload"}]
         /\ \A d \in Servers :
              awaiting'[d] = IF d = c /\ socket_ = c THEN next ELSE awaiting[d]
<1>1. Posts(c) /\ link[c] \in {"open", "closed"} /\ awaiting[c] = "no"
  BY DEF Posts, Codes, Inv, TypeOK, Core, ChainInv
<1>2. /\ \A d \in Servers :
           awaiting'[d] = IF d = c /\ socket_ = c THEN next ELSE awaiting[d]
      /\ awaiting' \in [Servers -> {"no", "connect", "header", "payload"}]
  BY DEF Inv, TypeOK, Reads
<1>3. \A d \in Servers : d # c => (Posts(d)' <=> Posts(d))
  BY DEF Posts
<1>4. SocketInv'
  <2>1. /\ \A d \in Servers : link[d] \in Open <=> socket_ = d
        /\ link["game"] # "unused" => link["login"] = "closed" /\ received'["login"] # <<>>
    BY DEF Inv, Core, SocketInv
  <2>2. \A d \in Servers : link[d] = "unused" => awaiting'[d] = "no" /\ ~Posts(d)'
    BY <1>1, <1>2, <1>3 DEF Inv, Core, SocketInv
  <2>3. \A d \in Servers : In(Task("connect", d))' => link[d] = "unused"
    BY DEF Inv, Core, SocketInv
  <2> QED
    BY <2>1, <2>2, <2>3 DEF SocketInv
<1>5. ChainInv'
  <2>1. \A d \in Servers : awaiting'[d] # "no" => ~Posts(d)'
    BY <1>1, <1>2, <1>3 DEF Inv, Core, ChainInv
  <2>2. \A d \in Servers :
          awaiting'[d] = "connect" => link[d] \in {"connecting", "closed"} /\ serving[d] = "no"
    BY <1>2 DEF Inv, Core, ChainInv, Reads
  <2>3. \A d \in Servers : awaiting'[d] \in Reads => link[d] \in {"open", "closed"}
    BY <1>1, <1>2 DEF Inv, Core, ChainInv
  <2>4. \A d \in Servers, l \in Completions :
          In(Done(l, d, "ok"))' => link[d] \in {"open", "closed"}
    BY DEF Inv, Core, ChainInv, Codes
  <2> QED
    BY <2>1, <2>2, <2>3, <2>4 DEF ChainInv
<1>6. ServersInv'
  BY DEF Inv, Core, ServersInv
<1> QED
  BY <1>1, <1>2, <1>4, <1>5, <1>6

LEMMA ConnectedKeeps ==
  ASSUME Inv, Connected
  PROVE  Inv'
<1>1. /\ NextTask("connected")
      /\ IF Head(strand_).ec = "ok"
         THEN StartRead /\ Finish(<<Task("send", Opening(Head(strand_).about))>>)
         ELSE awaiting' = awaiting /\ Finish(<<>>)
      /\ UNCHANGED <<linkVars, socket_, bufferVars, inbound_queue_, process, logicVars,
                     received, nullRead>>
  BY DEF Connected
<1>2. /\ strand_ \in Seq(Tasks) /\ strand_ # <<>> /\ OnePerKey /\ process # "stopped"
      /\ Head(strand_) \in Tasks /\ Head(strand_).kind = "connected"
  BY <1>1, FirstKind
<1>3. PICK c \in Servers :
        /\ Head(strand_).about = c /\ Head(strand_).ec \in Codes
        /\ Head(strand_) = Done("connected", c, Head(strand_).ec)
        /\ "connected" \in Completions /\ "header" \in Completions /\ "payload" \in Completions
        /\ "ok" \in Codes
  BY <1>2, TaskShapes DEF Completions, Codes
<1> DEFINE t == Task("send", Opening(c))
<1>4. CASE Head(strand_).ec # "ok"
  <2>1. faults' \in 0..MaxFaults
    BY <1>1 DEF Inv, TypeOK, linkVars
  <2>2. \A k \in Completions, d \in Servers : Head(strand_) # Done(k, d, "ok")
    BY <1>3, <1>4, DoneTasks
  <2> QED
    BY <1>1, <1>2, <1>4, <2>1, <2>2, TaskDropped DEF linkVars
<1>5. CASE Head(strand_).ec = "ok"
  <2>1. /\ Head(strand_) = Done("connected", c, "ok") /\ StartRead /\ Finish(<<t>>)
        /\ UNCHANGED <<link, serving, sent, wire, heard, faults, socket_, incoming_header_,
                       incoming_payload_, inbound_queue_, process, logic, inWorld, received,
                       nullRead>>
    BY <1>1, <1>3, <1>5 DEF linkVars, bufferVars, logicVars
  <2>2. /\ In(Done("connected", c, "ok")) /\ Posts(c)
        /\ \A l \in Completions, e \in Codes : ~Later(Done(l, c, e))
        /\ \A l \in Completions, d \in Servers, e \in Codes :
             d # c => (Later(Done(l, d, e)) <=> In(Done(l, d, e)))
        /\ \A kind \in {"connect", "send"} : \A about :
             Later(Task(kind, about)) <=> In(Task(kind, about))
        /\ Later(TheDisconnect) <=> In(TheDisconnect)
        /\ \A l \in Completions, e \in Codes :
             In(Done(l, c, e)) => l = "connected" /\ e = "ok"
    BY <1>2, <1>3, <2>1, CompletionFirst
  <2>3. /\ heard[c] = <<>> /\ ~In(t) /\ awaiting[c] = "no"
    BY <1>3, <2>2 DEF Inv, Core, OpeningInv, ChainInv
  <2>4. t \in Tasks /\ t.kind \notin Completions /\ t \notin Failures /\ t # TheDisconnect
    BY DoneTasks, TasksDiffer DEF Opening, Completions
  <2>5. /\ \A k \in Completions, d \in Servers, e \in Codes : Done(k, d, e) # t
        /\ \A a : Task("connect", a) # t
        /\ \A a : Task("send", a) = t <=> a = Opening(c)
    BY TasksDiffer
  <2>6. /\ "login" \in Servers /\ "game" \in Servers /\ Servers = {"login", "game"}
        /\ Opening("login") = "credentials" /\ Opening("game") = "token"
    BY DEF Servers, Opening
  <2> HIDE DEF t
  <2>7. /\ strand_' \in Seq(Tasks) /\ OnePerKey'
        /\ \A u : In(u)' <=> Later(u) \/ u = t
        /\ \A A, B : Precedes(A, B) /\ t \notin A => Precedes(A, B)'
        /\ \A A, B : (\A u \in B : ~Later(u)) /\ (t \in A => t \notin B) => Precedes(A, B)'
    <3>1. ~Later(t)
      BY <2>2, <2>3 DEF t
    <3> QED
      BY <1>2, <2>1, <2>4, <3>1, FreshTask, RanPosting
  <2>8. /\ \A l \in Completions, e \in Codes : ~In(Done(l, c, e))'
        /\ \A l \in Completions, d \in Servers, e \in Codes :
             d # c => (In(Done(l, d, e))' <=> In(Done(l, d, e)))
        /\ \A a : In(Task("connect", a))' <=> In(Task("connect", a))
        /\ \A a : In(Task("send", a))' <=> In(Task("send", a)) \/ a = Opening(c)
        /\ In(TheDisconnect)' <=> In(TheDisconnect)
        /\ ~Posts(c)'
    <3>1. /\ \A l \in Completions, e \in Codes : ~In(Done(l, c, e))'
          /\ \A l \in Completions, d \in Servers, e \in Codes :
               d # c => (In(Done(l, d, e))' <=> In(Done(l, d, e)))
      BY <1>3, <2>2, <2>5, <2>7
    <3>2. /\ \A a : In(Task("connect", a))' <=> In(Task("connect", a))
          /\ \A a : In(Task("send", a))' <=> In(Task("send", a)) \/ a = Opening(c)
      BY <2>2, <2>5, <2>7
    <3>3. In(TheDisconnect)' <=> In(TheDisconnect)
      BY <2>2, <2>4, <2>7
    <3>4. ~Posts(c)'
      BY <3>1 DEF Posts
    <3> QED
      BY <3>1, <3>2, <3>3, <3>4
  <2>9. /\ awaiting' = IF socket_ = c THEN [awaiting EXCEPT ![c] = "header"] ELSE awaiting
        /\ socket_ = c => link[c] = "open"
    <3>1. /\ socket_ = c => link[c] = "open" /\ awaiting' = [awaiting EXCEPT ![c] = "header"]
          /\ socket_ # c => awaiting' = awaiting
      <4>1. StartRead /\ In(Done("connected", c, "ok")) /\ "connected" \in Completions
        BY <1>3, <2>1, <2>2
      <4> QED
        BY <4>1, HandlerStartsRead
    <3> QED
      BY <3>1
  <2>10. /\ SocketInv' /\ ChainInv' /\ ServersInv' /\ link[c] \in {"open", "closed"}
         /\ awaiting' \in [Servers -> {"no", "connect", "header", "payload"}]
         /\ \A d \in Servers :
              awaiting'[d] = IF d = c /\ socket_ = c THEN "header" ELSE awaiting[d]
    <3>1. /\ "connected" \in Completions /\ "header" \in Reads /\ In(Done("connected", c, "ok"))
          /\ UNCHANGED <<link, socket_, serving, sent, wire, heard>> /\ OnePerKey'
          /\ received["login"] # <<>> => received'["login"] # <<>>
      BY <1>3, <2>1, <2>2, <2>7 DEF Reads
    <3>2. /\ \A l \in Completions : ~In(Done(l, c, "ok"))'
          /\ \A d \in Servers : In(Task("connect", d))' => In(Task("connect", d))
      BY <1>3, <2>8
    <3> QED
      BY <2>8, <2>9, <3>1, <3>2, HandlerGoesOn
  <2>11. TypeOK'
    BY <2>1, <2>7, <2>10 DEF Inv, TypeOK
  <2>12. \A d \in Servers :
           /\ HeaderReady(d)' <=> HeaderReady(d)
           /\ PayloadReady(d)' <=> PayloadReady(d)
           /\ awaiting'[d] = "payload" <=> awaiting[d] = "payload"
    BY <1>3, <2>2, <2>3, <2>8, <2>10 DEF HeaderReady, PayloadReady
  <2>13. BuffersInv'
    BY <2>1, <2>12, BuffersFrame
  <2>14. WireInv'
    BY <2>1, <2>12, WireFrame DEF WireInv
  <2>15. RedirectInv'
    BY <2>1, <2>8 DEF Inv, Core, RedirectInv, Redirects
  <2>16. OpeningInv'
    <3>1. ASSUME NEW d \in Servers,
                 awaiting'[d] = "connect" \/ (\E ec \in Codes : In(Done("connected", d, ec))')
          PROVE  heard[d] = <<>> /\ ~In(Task("send", Opening(d)))'
      <4>1. d # c /\ (awaiting[d] = "connect" \/ \E ec \in Codes : In(Done("connected", d, ec)))
        BY <1>3, <2>3, <2>8, <2>10, <3>1
      <4>2. heard[d] = <<>> /\ ~In(Task("send", Opening(d)))
        BY <4>1 DEF Inv, Core, OpeningInv
      <4> QED
        BY <1>3, <2>6, <2>8, <4>1, <4>2
    <3>2. ASSUME NEW d \in Servers, In(Task("send", Opening(d)))'
          PROVE  heard[d] = <<>> /\ link[d] # "unused"
      <4>1. CASE d = c
        BY <2>3, <2>10, <4>1
      <4>2. CASE d # c
        BY <1>3, <2>6, <2>8, <3>2, <4>2 DEF Inv, Core, OpeningInv
      <4> QED
        BY <4>1, <4>2
    <3>3. In(Task("send", "move"))' <=> In(Task("send", "move"))
      BY <2>8 DEF Opening
    <3> QED
      BY <2>1, <3>1, <3>2, <3>3 DEF Inv, Core, OpeningInv, OpensWithItsOwn
  <2>17. DropInv'
    <3>1. Precedes(Failures, {Done("connected", "game", ec) : ec \in Codes})'
      BY <2>4, <2>7 DEF Inv, Core, DropInv
    <3>2. \A f \in Failures : In(f)' => In(f)
      BY <1>2, <2>4, <2>7, FirstTask
    <3>3. ASSUME c = "game"
          PROVE  /\ \A f \in Failures : ~In(f)
                 /\ received["login"] # <<>> /\ heard["game"] = <<>>
                 /\ Precedes({TheDisconnect}, {Task("send", "token")})'
      <4>1. \A f \in Failures : ~In(f)
        BY <1>2, <1>3, <2>1, <3>3, FirstTask DEF Inv, Core, DropInv
      <4>2. received["login"] # <<>> /\ heard["game"] = <<>>
        BY <2>3, <2>10, <3>3 DEF Inv, Core, SocketInv
      <4>3. Precedes({TheDisconnect}, {Task("send", "token")})'
        <5>1. ~Later(Task("send", "token")) /\ t \notin {TheDisconnect}
          BY <2>2, <2>3, <2>4, <2>6, <3>3 DEF t
        <5> QED
          BY <2>7, <5>1
      <4> QED
        BY <4>1, <4>2, <4>3
    <3>4. ASSUME c = "login"
          PROVE  /\ Posts("login") /\ heard["game"] = <<>>
                 /\ In(Task("send", "token"))' <=> In(Task("send", "token"))
                 /\ Reading("game")' <=> Reading("game")
                 /\ Precedes({TheDisconnect}, {Task("send", "token")}) =>
                      Precedes({TheDisconnect}, {Task("send", "token")})'
      <4>1. Posts("login") /\ (In(Task("send", "token"))' <=> In(Task("send", "token")))
        BY <2>2, <2>6, <2>8, <3>4
      <4>2. heard["game"] = <<>>
        BY <2>3, <2>6, <3>4, LoginRead DEF Inv, Core, ServersInv
      <4>3. Reading("game")' <=> Reading("game")
        BY <2>6, <2>8, <2>10, <3>4 DEF Reading, Reads, Completions
      <4>4. Precedes({TheDisconnect}, {Task("send", "token")}) =>
              Precedes({TheDisconnect}, {Task("send", "token")})'
        BY <2>4, <2>7
      <4> QED
        BY <4>1, <4>2, <4>3, <4>4
    <3>5. c = "login" \/ c = "game"
      BY <1>3, <2>6
    <3>6. CASE c = "game"
      BY <1>2, <2>1, <2>8, <3>1, <3>2, <3>3, <3>6
         DEF Inv, Core, DropInv, SocketThereForPayload
    <3>7. CASE c = "login"
      BY <1>2, <2>1, <2>8, <3>1, <3>2, <3>4, <3>7
         DEF Inv, Core, DropInv, SocketThereForPayload
    <3> QED
      BY <3>5, <3>6, <3>7
  <2> QED
    BY <2>10, <2>11, <2>13, <2>14, <2>15, <2>16, <2>17 DEF Inv, Core
<1> QED
  BY <1>4, <1>5

\* A packet is complete: it is pushed and the next header read.
LEMMA PushKeeps ==
  ASSUME Inv, strand_ # <<>>, process # "stopped", NEW c \in Servers, NEW k \in Reads,
         Head(strand_) = Done(k, c, "ok"), k = "header" => ~HasBody(incoming_header_),
         Push(c, [header |-> incoming_header_,
                  payload |-> IF k = "payload" THEN incoming_payload_ ELSE NoPacket]),
         StartRead, Finish(<<>>),
         UNCHANGED <<linkVars, socket_, bufferVars, process, logicVars, nullRead>>
  PROVE  Inv'
<1> DEFINE n == Current(c)
           pkg == [header |-> incoming_header_,
                   payload |-> IF k = "payload" THEN incoming_payload_ ELSE NoPacket]
           Inbound == [header : Packet, payload : Packet \cup {NoPacket}]
<1>1. /\ inbound_queue_' = Append(inbound_queue_, pkg)
      /\ received' = [received EXCEPT ![c] = Append(received[c], pkg)]
      /\ UNCHANGED <<link, serving, sent, wire, heard, faults, socket_, incoming_header_,
                     incoming_payload_, process, logic, inWorld, nullRead>>
  BY DEF Push, linkVars, bufferVars, logicVars
<1>2. /\ k \in Completions /\ "ok" \in Codes /\ "header" \in Completions
      /\ "payload" \in Completions /\ k \in {"header", "payload"}
      /\ "login" \in Servers /\ "game" \in Servers /\ Servers = {"login", "game"}
  BY DEF Reads, Completions, Codes, Servers
<1>3. strand_ \in Seq(Tasks) /\ OnePerKey
  BY DEF Inv, TypeOK, Core, ChainInv
<1>4. /\ In(Done(k, c, "ok"))
      /\ \A l \in Completions, e \in Codes : ~Later(Done(l, c, e))
      /\ \A l \in Completions, d \in Servers, e \in Codes :
           d # c => (Later(Done(l, d, e)) <=> In(Done(l, d, e)))
      /\ \A kind \in {"connect", "send"} : \A about :
           Later(Task(kind, about)) <=> In(Task(kind, about))
      /\ Later(TheDisconnect) <=> In(TheDisconnect)
      /\ \A l \in Completions, e \in Codes : In(Done(l, c, e)) => l = k /\ e = "ok"
  BY <1>2, <1>3, CompletionFirst
<1>5. /\ strand_' \in Seq(Tasks) /\ OnePerKey'
      /\ \A t : In(t)' <=> Later(t)
      /\ \A A, B : Precedes(A, B) => Precedes(A, B)'
  BY <1>3, Ran
<1>6. /\ \A l \in Completions, e \in Codes : ~In(Done(l, c, e))'
      /\ \A l \in Completions, d \in Servers, e \in Codes :
           d # c => (In(Done(l, d, e))' <=> In(Done(l, d, e)))
      /\ \A kind \in {"connect", "send"} : \A about :
           In(Task(kind, about))' <=> In(Task(kind, about))
      /\ In(TheDisconnect)' <=> In(TheDisconnect)
      /\ ~Posts(c)'
  BY <1>4, <1>5 DEF Posts
\* The packet is the one to come next.
<1>7. /\ k = "header" <=> HeaderReady(c)
      /\ k = "payload" <=> PayloadReady(c)
      /\ \A d \in Servers : d # c => (HeaderReady(d)' <=> HeaderReady(d))
                                     /\ (PayloadReady(d)' <=> PayloadReady(d))
      /\ ~HeaderReady(c)' /\ ~PayloadReady(c)'
  BY <1>2, <1>4, <1>6 DEF HeaderReady, PayloadReady
<1>8. /\ received[c] \in Seq(Inbound) /\ sent[c] \in Seq(Packet)
      /\ inbound_queue_ \in Seq(Inbound)
      /\ Len(received[c]) \in Nat /\ Len(sent[c]) \in Nat /\ n = Len(received[c]) + 1
  BY Lengths DEF Inv, TypeOK, Current
<1>9. /\ n <= Len(sent[c]) /\ n \in 1..Len(sent[c])
      /\ incoming_header_ = sent[c][n] /\ incoming_header_ \in Packet
      /\ k = "payload" => HasBody(incoming_header_) /\ incoming_payload_ = incoming_header_
  <2>1. n <= Len(sent[c]) /\ incoming_header_ = sent[c][n]
    BY <1>2, <1>7 DEF Inv, Core, BuffersInv
  <2>2. n \in 1..Len(sent[c])
    BY <1>8, <2>1
  <2>3. sent[c][n] \in Packet
    BY <1>8, <2>2, ElementOfSeq
  <2> QED
    BY <1>7, <2>1, <2>2, <2>3 DEF Inv, Core, BuffersInv
<1>10. /\ pkg = [header |-> sent[c][n],
                 payload |-> IF HasBody(sent[c][n]) THEN sent[c][n] ELSE NoPacket]
       /\ pkg \in Inbound /\ pkg.header = sent[c][n]
  BY <1>2, <1>9
<1> HIDE DEF n, pkg, Inbound
<1>11. /\ received'[c] = Append(received[c], pkg) /\ received'[c] \in Seq(Inbound)
       /\ Len(received'[c]) = n /\ received'[c] # <<>>
       /\ received'[c][n] = pkg
       /\ \A i \in 1..n : i = n \/ (i \in 1..Len(received[c]) /\ received'[c][i] = received[c][i])
       /\ \A d \in Servers : d # c => received'[d] = received[d]
  <2>1. /\ received'[c] = Append(received[c], pkg)
        /\ \A d \in Servers : d # c => received'[d] = received[d]
    BY <1>1 DEF Inv, TypeOK
  <2>2. /\ received'[c] \in Seq(Inbound) /\ Len(received'[c]) = n
        /\ received'[c][n] = pkg
        /\ \A i \in 1..Len(received[c]) : received'[c][i] = received[c][i]
    BY <1>8, <1>10, <2>1, AppendProperties
  <2>3. \A i \in 1..n : i = n \/ i \in 1..Len(received[c])
    BY <1>8
  <2>4. received'[c] # <<>>
    BY <1>8, <2>2, EmptySeq
  <2> QED
    BY <2>1, <2>2, <2>3, <2>4
<1>12. /\ inbound_queue_' \in Seq(Inbound) /\ Len(inbound_queue_) \in Nat
       /\ Len(inbound_queue_') = Len(inbound_queue_) + 1
       /\ inbound_queue_'[Len(inbound_queue_) + 1] = pkg
       /\ \A i \in 1..Len(inbound_queue_) : inbound_queue_'[i] = inbound_queue_[i]
       /\ \A i \in 1..Len(inbound_queue_') :
            i \in 1..Len(inbound_queue_) \/ i = Len(inbound_queue_) + 1
       /\ \A i \in 1..Len(inbound_queue_) : i \in 1..Len(inbound_queue_')
       /\ Len(inbound_queue_) + 1 \in 1..Len(inbound_queue_')
  BY <1>1, <1>8, <1>10, AppendProperties, LenProperties
<1>13. /\ socket_ = c => link[c] = "open"
       /\ awaiting' = IF socket_ = c THEN [awaiting EXCEPT ![c] = "header"] ELSE awaiting
  BY <1>2, <1>4, HandlerStartsRead
<1>14. /\ SocketInv' /\ ChainInv' /\ ServersInv'
       /\ awaiting[c] = "no" /\ link[c] \in {"open", "closed"}
       /\ awaiting' \in [Servers -> {"no", "connect", "header", "payload"}]
       /\ \A d \in Servers :
            awaiting'[d] = IF d = c /\ socket_ = c THEN "header" ELSE awaiting[d]
  <2>1. /\ k \in Completions /\ "header" \in Reads /\ In(Done(k, c, "ok"))
        /\ UNCHANGED <<link, socket_, serving, sent, wire, heard>> /\ OnePerKey'
        /\ received["login"] # <<>> => received'["login"] # <<>>
    BY <1>1, <1>2, <1>4, <1>5, <1>11 DEF Reads
  <2>2. /\ \A l \in Completions : ~In(Done(l, c, "ok"))'
        /\ \A d \in Servers : In(Task("connect", d))' => In(Task("connect", d))
    BY <1>2, <1>6
  <2> QED
    BY <1>6, <1>13, <2>1, <2>2, HandlerGoesOn
<1>15. TypeOK'
  <2>1. received' \in [Servers -> Seq(Inbound)]
    BY <1>1, <1>11 DEF Inv, TypeOK, Inbound
  <2>2. inbound_queue_' \in Seq(Inbound)
    BY <1>12
  <2>3. /\ link' = link /\ serving' = serving /\ sent' = sent /\ wire' = wire
        /\ heard' = heard /\ socket_' = socket_ /\ process' = process /\ faults' = faults
        /\ strand_' \in Seq(Tasks)
        /\ awaiting' \in [Servers -> {"no", "connect", "header", "payload"}]
        /\ incoming_header_' = incoming_header_ /\ incoming_payload_' = incoming_payload_
        /\ logic' = logic /\ inWorld' = inWorld /\ nullRead' = nullRead
    BY <1>1, <1>5, <1>14
  <2> QED
    BY <2>1, <2>2, <2>3 DEF Inv, TypeOK, Inbound
<1>16. BuffersInv'
  <2>1. ASSUME NEW d \in Servers
        PROVE  /\ Len(received'[d]) <= Len(sent[d])
               /\ \A i \in 1..Len(received'[d]) :
                    received'[d][i] = [header |-> sent[d][i],
                       payload |-> IF HasBody(sent[d][i]) THEN sent[d][i] ELSE NoPacket]
    <3>1. CASE d # c
      BY <1>11, <3>1 DEF Inv, Core, BuffersInv, InboundFaithful
    <3>2. CASE d = c
      BY <1>9, <1>10, <1>11, <3>2 DEF Inv, Core, BuffersInv, InboundFaithful
    <3> QED
      BY <3>1, <3>2
  <2>2. InboundFaithful'
    BY <1>1, <2>1 DEF InboundFaithful
  <2>3. ASSUME NEW d \in Servers,
               HeaderReady(d)' \/ PayloadReady(d)' \/ awaiting'[d] = "payload"
        PROVE  /\ d # c /\ Current(d)' = Current(d)
               /\ HeaderReady(d) \/ PayloadReady(d) \/ awaiting[d] = "payload"
               /\ PayloadReady(d)' => PayloadReady(d)
               /\ awaiting'[d] = "payload" => awaiting[d] = "payload"
    <3>1. d # c
      BY <1>7, <1>14, <2>3
    <3> QED
      BY <1>7, <1>11, <1>14, <2>3, <3>1 DEF Current
  <2> QED
    BY <1>1, <2>2, <2>3 DEF Inv, Core, BuffersInv
<1>17. WireInv'
  <2> SUFFICES ASSUME NEW d \in Servers, link[d] = "open" PROVE WireOf(d)'
    BY <1>1 DEF WireInv
  <2>1. CASE d # c
    BY <1>1, <1>7, <1>11, <1>14, <2>1, WireFrame
  <2>2. CASE d = c
    <3>1. NextPart(c) = "header" /\ NextNumber(c) = n + 1
      BY <1>2, <1>7, <1>8, <1>14 DEF NextPart, NextNumber, InPacket, Upcoming, n, Current
    <3>2. Current(c)' = n + 1
      BY <1>11 DEF Current
    <3>3. ~InPacket(c)' /\ Upcoming(c)' = Current(c)' + 0
      BY <1>7, <1>14 DEF InPacket, Upcoming
    <3>4. NextPart(c)' = "header" /\ NextNumber(c)' = n + 1
      BY <1>8, <3>2, <3>3 DEF NextPart, NextNumber
    <3>5. WireOf(c)
      BY <2>2 DEF Inv, Core, WireInv
    <3> QED
      BY <1>1, <2>2, <3>1, <3>4, <3>5 DEF WireOf, PartAfter, NumberAfter, HalfOf
  <2> QED
    BY <2>1, <2>2
<1>18. \A i \in 1..Len(inbound_queue_') :
         Redirects(i)' => \/ i \in 1..Len(inbound_queue_) /\ Redirects(i)
                          \/ i = Len(inbound_queue_) + 1 /\ sent[c][n].op = "redirect"
  BY <1>10, <1>12 DEF Redirects
<1>19. sent[c][n].op = "redirect" => c = "login" /\ received["login"] = <<>>
  <2>1. c = "game" => sent[c][n].op # "redirect"
    BY <1>9 DEF Inv, Core, ServersInv
  <2>2. ASSUME c = "login" PROVE received["login"] = <<>>
    <3>1. n <= 1
      BY <1>8, <1>9, <2>2, LoginSendsOne
    <3>2. Len(received["login"]) = 0
      BY <1>8, <2>2, <3>1
    <3> QED
      BY <1>2, <3>2, Lengths DEF Inv
  <2> QED
    BY <1>2, <2>1, <2>2
<1>20. RedirectInv'
  <2>1. CASE sent[c][n].op # "redirect"
    <3>1. \A i \in 1..Len(inbound_queue_') :
            Redirects(i)' => i \in 1..Len(inbound_queue_) /\ Redirects(i)
      BY <1>12, <1>18, <2>1
    <3>2. received["login"] # <<>> => received'["login"] # <<>>
      BY <1>2, <1>11
    <3> QED
      BY <1>1, <1>6, <3>1, <3>2 DEF Inv, Core, RedirectInv
  <2>2. CASE sent[c][n].op = "redirect"
    <3>1. c = "login" /\ received["login"] = <<>> /\ received'["login"] # <<>>
      BY <1>11, <1>19, <2>2
    <3>2. /\ \A i \in 1..Len(inbound_queue_) : ~Redirects(i)
          /\ logic # "redirect" /\ ~In(Task("connect", "game")) /\ link["game"] = "unused"
      BY <3>1 DEF Inv, Core, RedirectInv, SocketInv
    <3>3. \A i \in 1..Len(inbound_queue_') : Redirects(i)' => i = Len(inbound_queue_) + 1
      BY <1>12, <1>18, <3>2
    <3> QED
      BY <1>1, <1>6, <3>1, <3>2, <3>3 DEF RedirectInv
  <2> QED
    BY <2>1, <2>2
<1>21. OpeningInv'
  <2>1. sent[c][n].op = "ok" => heard["game"] # <<>>
    <3>1. c = "login" => sent[c][n].op = "redirect"
      BY <1>9 DEF Inv, Core, ServersInv
    <3>2. c = "game" => heard["game"] # <<>>
      BY <1>8, <1>9, EmptySeq DEF Inv, Core, ServersInv
    <3> QED
      BY <1>2, <3>1, <3>2
  <2>2. \A i \in 1..Len(inbound_queue_') :
          inbound_queue_'[i].header.op = "ok" => heard["game"] # <<>>
    BY <1>10, <1>12, <2>1 DEF Inv, Core, OpeningInv
  <2>3. \A d \in Servers :
          awaiting'[d] = "connect" \/ (\E ec \in Codes : In(Done("connected", d, ec))') =>
            awaiting[d] = "connect" \/ \E ec \in Codes : In(Done("connected", d, ec))
    BY <1>6, <1>14 DEF Completions
  <2>4. \A p : In(Task("send", p))' <=> In(Task("send", p))
    BY <1>6
  <2> QED
    BY <1>1, <2>2, <2>3, <2>4 DEF Inv, Core, OpeningInv, OpensWithItsOwn
<1>22. DropInv'
  <2>1. /\ Precedes(Failures, {Done("connected", "game", ec) : ec \in Codes})'
        /\ Precedes({TheDisconnect}, {Task("send", "token")}) =>
             Precedes({TheDisconnect}, {Task("send", "token")})'
    BY <1>5 DEF Inv, Core, DropInv
  <2>2. \A f \in Failures : In(f)' => In(f)
    BY <1>3, <1>5, FirstTask
  <2>3. received'["login"] # <<>>
    <3>1. c = "game" => received["login"] # <<>>
      BY <1>14 DEF Inv, Core, SocketInv
    <3> QED
      BY <1>2, <1>11, <3>1
  <2>4. Reading("game")' => Reading("game")
    <3>1. c = "game" => Reading("game")
      BY <1>2, <1>4 DEF Reading
    <3>2. c # "game" => (Reading("game")' => Reading("game"))
      BY <1>2, <1>6, <1>14 DEF Reading, Reads
    <3> QED
      BY <3>1, <3>2
  <2>5. /\ In(Task("send", "token"))' <=> In(Task("send", "token"))
        /\ In(Task("connect", "login"))' <=> In(Task("connect", "login"))
    BY <1>6
  <2> QED
    BY <1>1, <1>6, <2>1, <2>2, <2>3, <2>4, <2>5
       DEF Inv, Core, DropInv, SocketThereForPayload
<1> QED
  BY <1>14, <1>15, <1>16, <1>17, <1>20, <1>21, <1>22 DEF Inv, Core

\* A successful read's handler, and whose it is.
LEMMA HandlerFirst ==
  ASSUME Inv, NEW k \in Completions, NextTask(k)
  PROVE  \E c \in Servers, ec \in Codes :
           /\ Head(strand_) = Done(k, c, ec) /\ Head(strand_).about = c
           /\ Head(strand_).ec = ec
<1>1. Head(strand_) \in Tasks /\ Head(strand_).kind = k
  BY FirstKind
<1> QED
  BY <1>1, TaskShapes

LEMMA PacketReadKeeps ==
  ASSUME Inv, ReadBare \/ PayloadRead
  PROVE  Inv'
<1>1. CASE ReadBare
  <2>1. NextTask("header") /\ "header" \in Completions /\ "header" \in Reads
    BY <1>1 DEF ReadBare, HeaderOk, Completions, Reads
  <2>2. PICK c \in Servers, ec \in Codes :
          /\ Head(strand_) = Done("header", c, ec) /\ Head(strand_).about = c
          /\ Head(strand_).ec = ec
    BY <2>1, HandlerFirst
  <2>3. /\ ec = "ok" /\ ~HasBody(incoming_header_) /\ StartRead /\ Finish(<<>>)
        /\ Push(c, [header |-> incoming_header_, payload |-> NoPacket])
        /\ UNCHANGED <<linkVars, socket_, bufferVars, process, logicVars, nullRead>>
    BY <1>1, <2>2 DEF ReadBare, HeaderOk, BarePacket
  <2>4. strand_ # <<>> /\ process # "stopped"
    BY <2>1, FirstKind
  <2>5. "header" # "payload"
    OBVIOUS
  <2> QED
    BY <2>1, <2>2, <2>3, <2>4, <2>5, PushKeeps
<1>2. CASE PayloadRead
  <2>1. NextTask("payload") /\ "payload" \in Completions /\ "payload" \in Reads
    BY <1>2 DEF PayloadRead, Completions, Reads
  <2>2. PICK c \in Servers, ec \in Codes :
          /\ Head(strand_) = Done("payload", c, ec) /\ Head(strand_).about = c
          /\ Head(strand_).ec = ec
    BY <2>1, HandlerFirst
  <2>3. /\ ec = "ok" /\ StartRead /\ Finish(<<>>)
        /\ Push(c, [header |-> incoming_header_, payload |-> incoming_payload_])
        /\ UNCHANGED <<linkVars, socket_, bufferVars, process, logicVars, nullRead>>
    BY <1>2, <2>2 DEF PayloadRead, WaitForNextPacket
  <2>4. strand_ # <<>> /\ process # "stopped"
    BY <2>1, FirstKind
  <2> QED
    BY <2>1, <2>2, <2>3, <2>4, PushKeeps
<1> QED
  BY <1>1, <1>2

\* A read fails: the connection's reading is over, and a disconnect is posted.
LEMMA FailureKeeps ==
  ASSUME Inv, strand_ # <<>>, process # "stopped", NEW c \in Servers, NEW k \in Reads,
         NEW ec \in Codes, Head(strand_) = Done(k, c, ec), ec # "ok",
         k = "header" => ec = "error", Finish(<<TheDisconnect>>),
         UNCHANGED <<linkVars, socket_, awaiting, bufferVars, inbound_queue_, process,
                     logicVars, received, nullRead>>
  PROVE  Inv'
<1>1. UNCHANGED <<link, serving, sent, wire, heard, faults, socket_, awaiting,
                  incoming_header_, incoming_payload_, inbound_queue_, process, logic,
                  inWorld, received, nullRead>>
  BY DEF linkVars, bufferVars, logicVars
<1>2. /\ k \in Completions /\ "ok" \in Codes /\ "connected" \in Completions
      /\ "header" \in Completions /\ "payload" \in Completions /\ k \in {"header", "payload"}
      /\ "login" \in Servers /\ "game" \in Servers /\ Servers = {"login", "game"}
  BY DEF Reads, Completions, Codes, Servers
<1>3. strand_ \in Seq(Tasks) /\ OnePerKey
  BY DEF Inv, TypeOK, Core, ChainInv
<1>4. /\ In(Done(k, c, ec)) /\ Posts(c)
      /\ \A l \in Completions, e \in Codes : ~Later(Done(l, c, e))
      /\ \A l \in Completions, d \in Servers, e \in Codes :
           d # c => (Later(Done(l, d, e)) <=> In(Done(l, d, e)))
      /\ \A kind \in {"connect", "send"} : \A about :
           Later(Task(kind, about)) <=> In(Task(kind, about))
      /\ \A l \in Completions, e \in Codes : In(Done(l, c, e)) => l = k /\ e = ec
  BY <1>2, <1>3, CompletionFirst
<1>5. /\ TheDisconnect \in Tasks /\ TheDisconnect \notin Failures
      /\ \A l \in Completions, d \in Servers, e \in Codes : Done(l, d, e) # TheDisconnect
      /\ \A kind \in {"connect", "send"} : \A about : Task(kind, about) # TheDisconnect
  BY DoneTasks, TasksDiffer
<1>6. /\ strand_' \in Seq(Tasks) /\ OnePerKey'
      /\ \A u : In(u)' <=> Later(u) \/ u = TheDisconnect
      /\ \A A, B : Precedes(A, B) /\ TheDisconnect \notin A => Precedes(A, B)'
  BY <1>3, <1>5, RanPosting
<1>7. /\ \A l \in Completions, e \in Codes : ~In(Done(l, c, e))'
      /\ \A l \in Completions, d \in Servers, e \in Codes :
           d # c => (In(Done(l, d, e))' <=> In(Done(l, d, e)))
      /\ \A l \in Completions, d \in Servers :
           In(Done(l, d, "ok"))' <=> In(Done(l, d, "ok"))
  BY <1>2, <1>4, <1>5, <1>6
<1>8. \A kind \in {"connect", "send"} : \A about :
        In(Task(kind, about))' <=> In(Task(kind, about))
  BY <1>4, <1>5, <1>6
<1>9. /\ ~Posts(c)' /\ \A d \in Servers : Posts(d)' => Posts(d)
      /\ \A d \in Servers : (HeaderReady(d)' <=> HeaderReady(d))
                            /\ (PayloadReady(d)' <=> PayloadReady(d))
  BY <1>2, <1>7 DEF Posts, HeaderReady, PayloadReady
<1>10. awaiting[c] = "no" /\ link[c] # "unused"
  BY <1>4 DEF Inv, Core, ChainInv, SocketInv
<1>11. TypeOK'
  BY <1>1, <1>6 DEF Inv, TypeOK
<1>12. SocketInv'
  BY <1>1, <1>8, <1>9 DEF Inv, Core, SocketInv
<1>13. ChainInv'
  BY <1>1, <1>6, <1>7, <1>9 DEF Inv, Core, ChainInv
<1>14. ServersInv'
  BY <1>1 DEF Inv, Core, ServersInv
<1>15. BuffersInv'
  BY <1>1, <1>9, BuffersFrame
<1>16. WireInv'
  BY <1>1, <1>9, WireFrame DEF WireInv
<1>17. RedirectInv'
  BY <1>1, <1>8 DEF Inv, Core, RedirectInv, Redirects
<1>18. OpeningInv'
  <2>1. \A d \in Servers, e \in Codes :
          In(Done("connected", d, e))' => In(Done("connected", d, e))
    BY <1>2, <1>7
  <2>2. \A p : In(Task("send", p))' <=> In(Task("send", p))
    BY <1>8
  <2> QED
    BY <1>1, <2>1, <2>2 DEF Inv, Core, OpeningInv, OpensWithItsOwn
<1>19. DropInv'
  <2>1. Precedes(Failures, {Done("connected", "game", e) : e \in Codes})'
    BY <1>5, <1>6 DEF Inv, Core, DropInv
  <2>2. \A f \in Failures : In(f)' => In(f)
    BY <1>3, <1>5, <1>6, FirstTask
  <2>3. /\ In(Task("send", "token"))' <=> In(Task("send", "token"))
        /\ ~In(Task("connect", "login"))'
    <3>1. link["login"] # "unused"
      BY <1>2, <1>10 DEF Inv, Core, SocketInv
    <3> QED
      BY <1>2, <1>8, <3>1 DEF Inv, Core, SocketInv
  <2>4. ~(received["login"] = <<>> /\ (awaiting["login"] # "no" \/ Posts("login")'))
    <3>1. c = "game" => received["login"] # <<>>
      BY <1>10 DEF Inv, Core, SocketInv
    <3> QED
      BY <1>2, <1>9, <1>10, <3>1
  <2>5. CASE c = "game"
    <3>1. ~Reading("game")'
      BY <1>1, <1>2, <1>7, <1>10, <2>5 DEF Reading, Reads
    <3> QED
      BY <1>1, <2>1, <2>2, <2>3, <2>4, <3>1 DEF Inv, Core, DropInv, SocketThereForPayload
  <2>6. CASE c = "login"
    <3>1. Done(k, c, ec) \in Failures
      BY <1>2, <2>6 DEF Failures, Codes
    <3>2. Reading("game")' <=> Reading("game")
      BY <1>1, <1>2, <1>7, <2>6 DEF Reading, Reads
    <3>3. ~In(Task("send", "token"))
      BY <1>4, <3>1 DEF Inv, Core, DropInv
    <3>4. process = "running" => ~(heard["game"] # <<>> /\ Reading("game"))
      BY <1>4, <3>1 DEF Inv, Core, DropInv
    <3> QED
      BY <1>1, <2>1, <2>2, <2>3, <2>4, <3>2, <3>3, <3>4
         DEF Inv, Core, DropInv, SocketThereForPayload
  <2> QED
    BY <1>2, <2>5, <2>6
<1> QED
  BY <1>11, <1>12, <1>13, <1>14, <1>15, <1>16, <1>17, <1>18, <1>19 DEF Inv, Core

LEMMA FailedKeeps ==
  ASSUME Inv, HeaderFailed \/ PayloadFailed
  PROVE  Inv'
<1>1. CASE HeaderFailed
  <2>1. NextTask("header") /\ "header" \in Completions /\ "header" \in Reads
    BY <1>1 DEF HeaderFailed, Completions, Reads
  <2>2. PICK c \in Servers, ec \in Codes :
          /\ Head(strand_) = Done("header", c, ec) /\ Head(strand_).about = c
          /\ Head(strand_).ec = ec
    BY <2>1, HandlerFirst
  <2>3. /\ ec # "ok" /\ Finish(OnHeaderError(ec))
        /\ UNCHANGED <<linkVars, socket_, awaiting, bufferVars, inbound_queue_, process,
                       logicVars, received, nullRead>>
    BY <1>1, <2>2 DEF HeaderFailed
  <2>4. strand_ # <<>> /\ process # "stopped"
    BY <2>1, FirstKind
  <2>5. CASE ec = "aborted"
    <3>1. Finish(<<>>)
      BY <2>3, <2>5 DEF OnHeaderError
    <3>2. \A k \in Completions, d \in Servers : Head(strand_) # Done(k, d, "ok")
      BY <2>1, <2>2, <2>5, DoneTasks DEF Codes
    <3>3. faults' \in 0..MaxFaults
      BY <2>3 DEF Inv, TypeOK, linkVars
    <3> QED
      BY <2>3, <2>4, <3>1, <3>2, <3>3, TaskDropped DEF linkVars
  <2>6. CASE ec = "error"
    <3>1. Finish(<<TheDisconnect>>)
      BY <2>3, <2>6 DEF OnHeaderError, TheDisconnect
    <3> QED
      BY <2>1, <2>2, <2>3, <2>4, <2>6, <3>1, FailureKeeps
  <2> QED
    BY <2>3, <2>5, <2>6 DEF Codes
<1>2. CASE PayloadFailed
  <2>1. NextTask("payload") /\ "payload" \in Completions /\ "payload" \in Reads
    BY <1>2 DEF PayloadFailed, Completions, Reads
  <2>2. PICK c \in Servers, ec \in Codes :
          /\ Head(strand_) = Done("payload", c, ec) /\ Head(strand_).about = c
          /\ Head(strand_).ec = ec
    BY <2>1, HandlerFirst
  <2>3. /\ ec # "ok" /\ Finish(<<TheDisconnect>>)
        /\ UNCHANGED <<linkVars, socket_, awaiting, bufferVars, inbound_queue_, process,
                       logicVars, received, nullRead>>
    BY <1>2, <2>2 DEF PayloadFailed, TheDisconnect
  <2>4. strand_ # <<>> /\ process # "stopped" /\ "payload" # "header"
    BY <2>1, FirstKind
  <2> QED
    BY <2>1, <2>2, <2>3, <2>4, FailureKeeps
<1> QED
  BY <1>1, <1>2

LEMMA ReadPayloadKeeps ==
  ASSUME Inv, ReadPayload
  PROVE  Inv'
<1>1. /\ NextTask("header") /\ Head(strand_).ec = "ok" /\ HasBody(incoming_header_)
      /\ incoming_payload_' = NoPacket
      /\ IF socket_ # NoServer
         THEN /\ awaiting' = [awaiting EXCEPT ![socket_] = "payload"]
              /\ Finish(<<>>) /\ nullRead' = nullRead
         ELSE /\ nullRead' = TRUE /\ awaiting' = awaiting
              /\ Finish(<<Done("payload", Head(strand_).about, "error")>>)
      /\ UNCHANGED <<link, serving, sent, wire, heard, faults, socket_, incoming_header_,
                     inbound_queue_, process, logic, inWorld, received>>
  BY DEF ReadPayload, HeaderOk, linkVars, logicVars
<1>2. /\ "ok" \in Codes /\ "error" \in Codes /\ "connected" \in Completions
      /\ "header" \in Completions /\ "payload" \in Completions /\ "payload" \in Reads
      /\ "header" \in Reads
      /\ "login" \in Servers /\ "game" \in Servers /\ Servers = {"login", "game"}
  BY DEF Reads, Completions, Codes, Servers
<1>3. /\ strand_ \in Seq(Tasks) /\ strand_ # <<>> /\ OnePerKey /\ process # "stopped"
  BY <1>1, FirstKind
<1>4. PICK c \in Servers : Head(strand_) = Done("header", c, "ok") /\ Head(strand_).about = c
  <2>1. PICK c \in Servers, ec \in Codes :
          /\ Head(strand_) = Done("header", c, ec) /\ Head(strand_).about = c
          /\ Head(strand_).ec = ec
    BY <1>1, <1>2, HandlerFirst
  <2> QED
    BY <1>1, <2>1
<1>5. /\ In(Done("header", c, "ok")) /\ Posts(c)
      /\ \A l \in Completions, e \in Codes : ~Later(Done(l, c, e))
      /\ \A l \in Completions, d \in Servers, e \in Codes :
           d # c => (Later(Done(l, d, e)) <=> In(Done(l, d, e)))
      /\ \A kind \in {"connect", "send"} : \A about :
           Later(Task(kind, about)) <=> In(Task(kind, about))
      /\ Later(TheDisconnect) <=> In(TheDisconnect)
      /\ \A l \in Completions, e \in Codes : In(Done(l, c, e)) => l = "header" /\ e = "ok"
  BY <1>2, <1>3, <1>4, CompletionFirst
<1>6. /\ HeaderReady(c) /\ ~PayloadReady(c)
      /\ Current(c) <= Len(sent[c]) /\ incoming_header_ = sent[c][Current(c)]
  BY <1>2, <1>5 DEF HeaderReady, PayloadReady, Inv, Core, BuffersInv
<1>7. /\ socket_ # NoServer => socket_ = c /\ link[c] = "open"
      /\ NoServer \notin Servers
  BY <1>2, <1>5, HandlersSocket, ClientAssumption
<1> DEFINE t == Done("payload", c, "error")
<1>8. /\ t \in Tasks /\ t # TheDisconnect
      /\ \A a : Task("connect", a) # t /\ Task("send", a) # t
      /\ \A l \in Completions, d \in Servers, e \in Codes :
           Done(l, d, e) = t => l = "payload" /\ d = c /\ e = "error"
      /\ t \in Failures => c = "login"
      /\ \A a \in Codes : t # Done("connected", "game", a)
  <2>1. t \in Tasks /\ t # TheDisconnect /\ \A a : Task("connect", a) # t /\ Task("send", a) # t
    BY <1>2, DoneTasks, TasksDiffer
  <2>2. \A l \in Completions, d \in Servers, e \in Codes :
          Done(l, d, e) = t => l = "payload" /\ d = c /\ e = "error"
    BY <1>2, DoneTasks
  <2>3. t \in Failures => c = "login"
    BY <1>2, <2>2, TasksDiffer DEF Reads
  <2>4. \A a \in Codes : t # Done("connected", "game", a)
    BY <1>2, <2>2
  <2> QED
    BY <2>1, <2>2, <2>3, <2>4
<1> HIDE DEF t
\* The null read takes a disconnect that only the destructor posts.
<1>9. socket_ = NoServer => process # "running"
  <2>1. c = "login" => received["login"] = <<>>
    BY <1>6, LoginRead
  <2>2. c = "game" => heard["game"] # <<>> /\ Reading("game")
    <3>1. ASSUME c = "game" PROVE sent["game"] # <<>>
      <4>1. Len(sent["game"]) \in Nat /\ Len(received["game"]) \in Nat
            /\ (sent["game"] = <<>> <=> Len(sent["game"]) = 0)
        BY <1>2, Lengths DEF Inv
      <4> QED
        BY <1>6, <3>1, <4>1 DEF Current
    <3> QED
      BY <1>2, <1>5, <3>1 DEF Inv, Core, ServersInv, Reading
  <2> QED
    BY <1>2, <1>5, <1>7, <2>1, <2>2 DEF Inv, Core, DropInv
\* What the strand is afterwards.
<1>10. /\ strand_' \in Seq(Tasks) /\ OnePerKey'
       /\ \A u : In(u)' <=> Later(u) \/ (socket_ = NoServer /\ u = t)
       /\ Precedes(Failures, {Done("connected", "game", e) : e \in Codes})'
       /\ Precedes({TheDisconnect}, {Task("send", "token")}) =>
            Precedes({TheDisconnect}, {Task("send", "token")})'
  <2>1. CASE socket_ # NoServer
    <3>1. Finish(<<>>)
      BY <1>1, <2>1
    <3> QED
      BY <1>3, <2>1, <3>1, Ran DEF Inv, Core, DropInv
  <2>2. CASE socket_ = NoServer
    <3>1. Finish(<<t>>)
      BY <1>1, <1>4, <2>2 DEF t
    <3>2. /\ strand_' \in Seq(Tasks) /\ OnePerKey'
          /\ \A u : In(u)' <=> Later(u) \/ u = t
          /\ \A A, B : Precedes(A, B) /\ t \notin A => Precedes(A, B)'
          /\ \A A, B : (\A u \in B : ~Later(u)) /\ (t \in A => t \notin B) => Precedes(A, B)'
      <4>1. \A u \in Tasks : Key(u) = Key(t) => ~Later(u)
        BY <1>2, <1>5, FreshDone DEF t
      <4> QED
        BY <1>3, <1>8, <3>1, <4>1, RanPosting
    <3>3. Precedes({TheDisconnect}, {Task("send", "token")}) =>
            Precedes({TheDisconnect}, {Task("send", "token")})'
      BY <1>8, <3>2
    <3>4. Precedes(Failures, {Done("connected", "game", e) : e \in Codes})'
      <4>1. CASE t \notin Failures
        BY <3>2, <4>1 DEF Inv, Core, DropInv
      <4>2. CASE t \in Failures
        <5>1. link["game"] = "unused"
          BY <1>6, <1>8, <4>2, LoginRead
        <5>2. \A e \in Codes : ~Later(Done("connected", "game", e))
          BY <1>2, <1>8, <1>5, <4>2, <5>1 DEF Inv, Core, SocketInv, Posts
        <5>3. t \notin {Done("connected", "game", e) : e \in Codes}
          BY <1>8
        <5> QED
          BY <3>2, <5>2, <5>3
      <4> QED
        BY <4>1, <4>2
    <3> QED
      BY <2>2, <3>2, <3>3, <3>4
  <2> QED
    BY <2>1, <2>2
<1>11. /\ \A l \in Completions, e \in Codes :
            In(Done(l, c, e))' => socket_ = NoServer /\ l = "payload" /\ e = "error"
       /\ \A l \in Completions, d \in Servers, e \in Codes :
            d # c => (In(Done(l, d, e))' <=> In(Done(l, d, e)))
  BY <1>5, <1>8, <1>10
<1>12. /\ \A kind \in {"connect", "send"} : \A about :
            In(Task(kind, about))' <=> In(Task(kind, about))
       /\ In(TheDisconnect)' <=> In(TheDisconnect)
  BY <1>5, <1>8, <1>10
<1>13. /\ awaiting' = IF socket_ = c THEN [awaiting EXCEPT ![c] = "payload"] ELSE awaiting
       /\ socket_ = c => link[c] = "open"
  BY <1>1, <1>7
<1>14. /\ SocketInv' /\ ChainInv' /\ ServersInv'
       /\ awaiting[c] = "no" /\ link[c] \in {"open", "closed"}
       /\ awaiting' \in [Servers -> {"no", "connect", "header", "payload"}]
       /\ \A d \in Servers :
            awaiting'[d] = IF d = c /\ socket_ = c THEN "payload" ELSE awaiting[d]
  <2>1. /\ UNCHANGED <<link, socket_, serving, sent, wire, heard>> /\ OnePerKey'
        /\ received["login"] # <<>> => received'["login"] # <<>>
        /\ "header" \in Completions /\ "payload" \in Reads /\ In(Done("header", c, "ok"))
    BY <1>1, <1>2, <1>5, <1>10
  <2>2. /\ \A l \in Completions : ~In(Done(l, c, "ok"))'
        /\ socket_ = c => ~Posts(c)'
        /\ \A d \in Servers : In(Task("connect", d))' => In(Task("connect", d))
        /\ \A l \in Completions, d \in Servers, e \in Codes :
             d # c => (In(Done(l, d, e))' <=> In(Done(l, d, e)))
    BY <1>2, <1>7, <1>11, <1>12 DEF Posts
  <2> QED
    BY <1>13, <2>1, <2>2, HandlerGoesOn
\* No other connection is in the middle of a packet.
<1>15. /\ \A d \in Servers : d # c => ~PayloadReady(d)
       /\ \A d \in Servers : ~PayloadReady(d)'
       /\ \A d \in Servers : d # c => (HeaderReady(d)' <=> HeaderReady(d))
       /\ ~HeaderReady(c)'
  <2>1. ASSUME NEW d \in Servers, d # c PROVE ~PayloadReady(d)
    <3>1. CASE d = "login"
      <4>1. link["game"] # "unused"
        BY <1>2, <1>5, <2>1, <3>1 DEF Inv, Core, SocketInv
      <4> QED
        BY <3>1, <4>1, LoginRead
    <3>2. CASE d = "game"
      <4>1. link["game"] = "unused"
        BY <1>2, <1>6, <2>1, <3>2, LoginRead
      <4> QED
        BY <1>2, <3>2, <4>1 DEF Inv, Core, SocketInv, PayloadReady, Posts
    <3> QED
      BY <1>2, <3>1, <3>2
  <2>2. \A d \in Servers : ~PayloadReady(d)'
    BY <1>2, <1>11, <2>1 DEF PayloadReady
  <2> QED
    BY <1>2, <1>11, <2>1, <2>2 DEF HeaderReady
<1>16. TypeOK'
  BY <1>1, <1>10, <1>14 DEF Inv, TypeOK
<1>17. BuffersInv'
  <2>1. InboundFaithful'
    BY <1>1 DEF Inv, Core, BuffersInv, InboundFaithful
  <2>2. \A d \in Servers : HeaderReady(d)' \/ awaiting'[d] = "payload" =>
          Current(d) <= Len(sent[d]) /\ incoming_header_ = sent[d][Current(d)]
    BY <1>6, <1>14, <1>15 DEF Inv, Core, BuffersInv
  <2>3. \A d \in Servers : Current(d)' = Current(d)
    BY <1>1 DEF Current
  <2> QED
    BY <1>1, <1>15, <2>1, <2>2, <2>3 DEF BuffersInv
<1>18. WireInv'
  <2> SUFFICES ASSUME NEW d \in Servers, link[d] = "open" PROVE WireOf(d)'
    BY <1>1 DEF WireInv
  <2>1. CASE d # c
    BY <1>1, <1>14, <1>15, <2>1, WireFrame
  <2>2. CASE d = c
    <3>1. socket_ = c
      BY <2>2 DEF Inv, Core, SocketInv, Open
    <3>2. InPacket(c) /\ InPacket(c)'
      BY <1>1, <1>6, <1>14, <3>1 DEF InPacket
    <3>3. Current(c)' = Current(c)
      BY <1>1 DEF Current
    <3>4. NextPart(c)' = NextPart(c) /\ NextNumber(c)' = NextNumber(c)
      BY <3>2, <3>3 DEF NextPart, NextNumber
    <3>5. WireOf(c)
      BY <2>2 DEF Inv, Core, WireInv
    <3> QED
      BY <1>1, <2>2, <3>4, <3>5 DEF WireOf, PartAfter, NumberAfter, HalfOf
  <2> QED
    BY <2>1, <2>2
<1>19. RedirectInv'
  BY <1>1, <1>12 DEF Inv, Core, RedirectInv, Redirects
<1>20. OpeningInv'
  <2>1. \A d \in Servers :
          awaiting'[d] = "connect" \/ (\E e \in Codes : In(Done("connected", d, e))') =>
            awaiting[d] = "connect" \/ \E e \in Codes : In(Done("connected", d, e))
    BY <1>2, <1>11, <1>14
  <2>2. \A p : In(Task("send", p))' <=> In(Task("send", p))
    BY <1>12
  <2> QED
    BY <1>1, <2>1, <2>2 DEF Inv, Core, OpeningInv, OpensWithItsOwn
<1>21. DropInv'
  <2>1. /\ In(Task("send", "token"))' <=> In(Task("send", "token"))
        /\ In(Task("connect", "login"))' <=> In(Task("connect", "login"))
    BY <1>12
  <2>2. In(Task("send", "token"))' => \A f \in Failures : ~In(f)'
    <3>1. ASSUME In(Task("send", "token")), NEW f \in Failures, In(f)' PROVE FALSE
      <4>1. ~In(f)
        BY <3>1 DEF Inv, Core, DropInv
      <4>2. f = t
        BY <1>3, <1>10, <3>1, <4>1, FirstTask
      <4>3. link["game"] # "unused"
        BY <1>2, <3>1 DEF Inv, Core, OpeningInv, Opening
      <4> QED
        BY <1>6, <1>8, <3>1, <4>2, <4>3, LoginRead
    <3> QED
      BY <2>1, <3>1
  <2>3. SocketThereForPayload'
    BY <1>1, <1>9 DEF Inv, Core, DropInv, SocketThereForPayload
  <2>4. CASE socket_ = NoServer
    BY <1>1, <1>3, <1>9, <1>10, <2>1, <2>2, <2>3, <2>4 DEF Inv, Core, DropInv
  <2>5. CASE socket_ # NoServer
    <3>1. \A f \in Failures : In(f)' => In(f)
      BY <1>3, <1>10, <2>5, FirstTask
    <3>2. awaiting'["login"] # "no" \/ Posts("login")' => Posts("login") \/ awaiting["login"] # "no"
      BY <1>2, <1>5, <1>11, <1>14 DEF Posts
    <3>3. Reading("game")' => Reading("game")
      <4>1. c = "game" => Reading("game")
        BY <1>2, <1>5 DEF Reading
      <4>2. c # "game" => (Reading("game")' => Reading("game"))
        BY <1>2, <1>11, <1>14 DEF Reading, Reads
      <4> QED
        BY <4>1, <4>2
    <3> QED
      BY <1>1, <1>3, <1>10, <1>12, <2>1, <2>2, <2>3, <3>1, <3>2, <3>3 DEF Inv, Core, DropInv
  <2> QED
    BY <2>4, <2>5
<1> QED
  BY <1>14, <1>16, <1>17, <1>18, <1>19, <1>20, <1>21 DEF Inv, Core

-----------------------------------------------------------------------------
(* The network thread: operations complete.                                    *)

\* The handler of c's operation is posted, and it is the only one of c.
LEMMA Completed ==
  ASSUME Inv, NEW c \in Servers, awaiting[c] # "no", NEW k \in Completions, NEW ec \in Codes,
         Complete(c, k, ec)
  PROVE  /\ strand_' \in Seq(Tasks) /\ OnePerKey' /\ ~Posts(c) /\ link[c] # "unused"
         /\ awaiting' \in [Servers -> {"no", "connect", "header", "payload"}]
         /\ \A d \in Servers : awaiting'[d] = IF d = c THEN "no" ELSE awaiting[d]
         /\ \A l \in Completions, d \in Servers, e \in Codes :
              In(Done(l, d, e))' <=> In(Done(l, d, e)) \/ (l = k /\ d = c /\ e = ec)
         /\ \A kind \in {"connect", "send"} : \A about :
              In(Task(kind, about))' <=> In(Task(kind, about))
         /\ In(TheDisconnect)' <=> In(TheDisconnect)
         /\ \A f \in Failures : In(f)' <=> In(f) \/ f = Done(k, c, ec)
         /\ \A A, B : Precedes(A, B) /\ Done(k, c, ec) \notin A => Precedes(A, B)'
         /\ \A A, B : (\A u \in B : ~In(u)) /\ (Done(k, c, ec) \in A => Done(k, c, ec) \notin B)
                        => Precedes(A, B)'
<1> DEFINE t == Done(k, c, ec)
<1>1. strand_' = Append(strand_, t) /\ awaiting' = [awaiting EXCEPT ![c] = "no"]
  BY DEF Complete, Rearmed
<1>2. strand_ \in Seq(Tasks) /\ OnePerKey /\ ~Posts(c) /\ link[c] # "unused"
  BY DEF Inv, TypeOK, Core, ChainInv, SocketInv
<1>3. /\ t \in Tasks /\ Fresh(t) /\ t # TheDisconnect
      /\ \A kind \in {"connect", "send"} : \A about : t # Task(kind, about)
      /\ \A l \in Completions, d \in Servers, e \in Codes :
           Done(l, d, e) = t <=> l = k /\ d = c /\ e = ec
  BY <1>2, DoneTasks, TasksDiffer, FreshDone
<1> HIDE DEF t
<1>4. /\ strand_' \in Seq(Tasks) /\ OnePerKey'
      /\ \A u : In(u)' <=> In(u) \/ u = t
      /\ \A A, B : Precedes(A, B) /\ t \notin A => Precedes(A, B)'
      /\ \A A, B : (\A u \in B : ~In(u)) /\ (t \in A => t \notin B) => Precedes(A, B)'
  BY <1>1, <1>2, <1>3, PostedOne
<1>5. /\ awaiting' \in [Servers -> {"no", "connect", "header", "payload"}]
      /\ \A d \in Servers : awaiting'[d] = IF d = c THEN "no" ELSE awaiting[d]
  BY <1>1 DEF Inv, TypeOK
<1>6. \A l \in Completions, d \in Servers, e \in Codes :
        In(Done(l, d, e))' <=> In(Done(l, d, e)) \/ (l = k /\ d = c /\ e = ec)
  BY <1>3, <1>4
<1>7. /\ \A kind \in {"connect", "send"} : \A about :
           In(Task(kind, about))' <=> In(Task(kind, about))
      /\ In(TheDisconnect)' <=> In(TheDisconnect)
      /\ \A f \in Failures : In(f)' <=> In(f) \/ f = t
  BY <1>3, <1>4
<1> QED
  BY <1>2, <1>4, <1>5, <1>6, <1>7 DEF t

\* What a completion leaves alone.
LEMMA CompletionFrame ==
  ASSUME Inv, NEW c \in Servers, NEW k \in Completions, NEW ec \in Codes, Complete(c, k, ec),
         process # "stopped", awaiting[c] # "no", k = "connected" => awaiting[c] = "connect",
         k \in Reads => awaiting[c] \in Reads,
         \A d \in Servers : d # c => link'[d] = link[d] /\ serving'[d] = serving[d],
         \/ link'[c] = link[c]
         \/ link[c] = "connecting" /\ link'[c] \in {"open", "failed"},
         ec = "ok" => link'[c] \in {"open", "closed"},
         Done(k, c, ec) \in Failures => link["game"] = "unused",
         UNCHANGED <<heard, socket_, inbound_queue_, process, logic, inWorld, received,
                     nullRead>>
  PROVE  SocketInv' /\ ChainInv' /\ RedirectInv' /\ OpeningInv' /\ DropInv'
<1>1. /\ OnePerKey' /\ ~Posts(c) /\ link[c] # "unused"
      /\ \A d \in Servers : awaiting'[d] = IF d = c THEN "no" ELSE awaiting[d]
      /\ \A l \in Completions, d \in Servers, e \in Codes :
           In(Done(l, d, e))' <=> In(Done(l, d, e)) \/ (l = k /\ d = c /\ e = ec)
      /\ \A kind \in {"connect", "send"} : \A about :
           In(Task(kind, about))' <=> In(Task(kind, about))
      /\ In(TheDisconnect)' <=> In(TheDisconnect)
  BY Completed
<1>2. /\ \A f \in Failures : In(f)' <=> In(f) \/ f = Done(k, c, ec)
      /\ \A A, B : Precedes(A, B) /\ Done(k, c, ec) \notin A => Precedes(A, B)'
      /\ \A A, B : (\A u \in B : ~In(u)) /\ (Done(k, c, ec) \in A => Done(k, c, ec) \notin B)
                     => Precedes(A, B)'
  BY Completed
<1>3. /\ "ok" \in Codes /\ "connected" \in Completions /\ Reads \subseteq Completions
      /\ "connected" \notin Reads
      /\ "login" \in Servers /\ "game" \in Servers /\ Servers = {"login", "game"}
  BY DEF Reads, Completions, Codes, Servers
<1>4. \A d \in Servers :
        /\ link'[d] \in Open <=> link[d] \in Open
        /\ link'[d] = "unused" <=> link[d] = "unused"
        /\ link'[d] = "closed" <=> link[d] = "closed"
  BY <1>1 DEF Open
<1>5. \A d \in Servers : d # c => (Posts(d)' <=> Posts(d))
  BY <1>1 DEF Posts
<1>6. SocketInv'
  <2>1. \A d \in Servers : link'[d] = "unused" => awaiting'[d] = "no" /\ ~Posts(d)'
    BY <1>1, <1>4, <1>5 DEF Inv, Core, SocketInv
  <2>2. \A d \in Servers : In(Task("connect", d))' => link'[d] = "unused"
    BY <1>1, <1>4 DEF Inv, Core, SocketInv
  <2> QED
    BY <1>3, <1>4, <2>1, <2>2 DEF Inv, Core, SocketInv
<1>7. ChainInv'
  <2>1. \A d \in Servers : awaiting'[d] # "no" => d # c /\ ~Posts(d)'
    BY <1>1, <1>5 DEF Inv, Core, ChainInv
  <2>2. \A d \in Servers :
          awaiting'[d] = "connect" => link'[d] \in {"connecting", "closed"} /\ serving'[d] = "no"
    BY <1>1 DEF Inv, Core, ChainInv
  <2>3. \A d \in Servers : awaiting'[d] \in Reads => link'[d] \in {"open", "closed"}
    BY <1>1 DEF Inv, Core, ChainInv, Reads
  <2>4. \A d \in Servers, l \in Completions :
          In(Done(l, d, "ok"))' => link'[d] \in {"open", "closed"}
    BY <1>1, <1>3 DEF Inv, Core, ChainInv, Posts
  <2> QED
    BY <1>1, <2>1, <2>2, <2>3, <2>4 DEF ChainInv
<1>8. RedirectInv'
  BY <1>1, <1>3, <1>4 DEF Inv, Core, RedirectInv, Redirects
<1>9. OpeningInv'
  <2>1. \A d \in Servers :
          awaiting'[d] = "connect" \/ (\E e \in Codes : In(Done("connected", d, e))') =>
            awaiting[d] = "connect" \/ \E e \in Codes : In(Done("connected", d, e))
    BY <1>1, <1>3
  <2>2. \A p : In(Task("send", p))' <=> In(Task("send", p))
    BY <1>1
  <2> QED
    BY <1>4, <2>1, <2>2 DEF Inv, Core, OpeningInv, OpensWithItsOwn
<1>10. DropInv'
  <2>1. /\ In(Task("send", "token"))' <=> In(Task("send", "token"))
        /\ In(Task("connect", "login"))' <=> In(Task("connect", "login"))
    BY <1>1
  <2>2. awaiting'["login"] # "no" \/ Posts("login")' => awaiting["login"] # "no" \/ Posts("login")
    BY <1>1, <1>3, <1>5
  <2>3. Reading("game")' => Reading("game")
    <3>1. awaiting'["game"] \in Reads => awaiting["game"] \in Reads
      BY <1>1, <1>3 DEF Reads
    <3>2. ASSUME NEW l \in Reads, NEW e \in Codes, In(Done(l, "game", e))'
          PROVE  In(Done(l, "game", e)) \/ awaiting["game"] \in Reads
      BY <1>1, <1>3, <3>2
    <3> QED
      BY <3>1, <3>2 DEF Reading
  <2>4. Precedes({TheDisconnect}, {Task("send", "token")}) =>
          Precedes({TheDisconnect}, {Task("send", "token")})'
    <3>1. Done(k, c, ec) \notin {TheDisconnect}
      BY TasksDiffer
    <3> QED
      BY <1>2, <3>1
  <2>5. CASE Done(k, c, ec) \notin Failures
    <3>1. Precedes(Failures, {Done("connected", "game", e) : e \in Codes})'
      BY <1>2, <2>5 DEF Inv, Core, DropInv
    <3>2. \A f \in Failures : In(f)' <=> In(f)
      BY <1>2, <2>5
    <3> QED
      BY <1>1, <2>1, <2>2, <2>3, <2>4, <3>1, <3>2
         DEF Inv, Core, DropInv, SocketThereForPayload
  <2>6. CASE Done(k, c, ec) \in Failures
    <3>1. /\ link["game"] = "unused" /\ ~Posts("game") /\ heard["game"] = <<>>
          /\ ~In(Task("send", "token")) /\ c = "login"
      <4>1. link["game"] = "unused"
        BY <2>6
      <4>2. ~In(Task("send", "token"))
        BY <1>3, <4>1 DEF Inv, Core, OpeningInv, Opening
      <4> QED
        BY <1>1, <1>3, <4>1, <4>2 DEF Inv, Core, SocketInv, ServersInv
    <3>2. Precedes(Failures, {Done("connected", "game", e) : e \in Codes})'
      <4>1. \A u \in {Done("connected", "game", e) : e \in Codes} : ~In(u)
        BY <1>3, <3>1 DEF Posts
      <4>2. \A e \in Codes : Done(k, c, ec) # Done("connected", "game", e)
        BY <1>3, <3>1, DoneTasks
      <4> QED
        BY <1>2, <4>1, <4>2
    <3> QED
      BY <1>1, <2>1, <2>2, <3>1, <3>2 DEF Inv, Core, DropInv, SocketThereForPayload
  <2> QED
    BY <2>5, <2>6
<1> QED
  BY <1>6, <1>7, <1>8, <1>9, <1>10

LEMMA ConnectCompletesKeeps ==
  ASSUME Inv, NEW c \in Servers, ConnectCompletes(c)
  PROVE  Inv'
<1>1. PICK ec \in Codes :
        /\ process # "stopped" /\ awaiting[c] = "connect" /\ Complete(c, "connected", ec)
        /\ \/ /\ ec = "ok" /\ link[c] = "connecting" /\ link' = [link EXCEPT ![c] = "open"]
              /\ serving' = [serving EXCEPT ![c] = "yes"] /\ faults' = faults
           \/ /\ ec = "error" /\ link[c] = "connecting" /\ faults < MaxFaults
              /\ link' = [link EXCEPT ![c] = "failed"] /\ faults' = faults + 1
              /\ serving' = serving
           \/ ec = "aborted" /\ link[c] = "closed" /\ UNCHANGED <<link, serving, faults>>
  BY DEF ConnectCompletes, Running, Codes
<1>2. UNCHANGED <<sent, wire, heard, socket_, incoming_header_, incoming_payload_,
                  inbound_queue_, process, logic, inWorld, received, nullRead>>
  BY DEF ConnectCompletes, bufferVars, logicVars
<1>3. /\ "connected" \in Completions /\ awaiting[c] # "no" /\ "connected" \notin Reads
      /\ "header" \in Completions /\ "payload" \in Completions /\ "ok" \in Codes
  BY <1>1 DEF Completions, Reads, Codes
<1>4. Done("connected", c, ec) \notin Failures
  <2>1. \A k \in Reads, e \in Codes : Done(k, "login", e) # Done("connected", c, ec)
    BY <1>3, DoneTasks DEF Reads, Completions, Servers
  <2> QED
    BY <2>1, TasksDiffer
<1>5. \A d \in Servers : d # c => link'[d] = link[d] /\ serving'[d] = serving[d]
  BY <1>1 DEF Inv, TypeOK
<1>6. /\ \/ link'[c] = link[c]
         \/ link[c] = "connecting" /\ link'[c] \in {"open", "failed"}
      /\ ec = "ok" <=> link'[c] = "open"
      /\ link' \in [Servers -> {"unused", "connecting", "open", "failed", "closed"}]
      /\ serving' \in [Servers -> {"no", "yes", "ended"}]
      /\ serving'[c] # "no" => link'[c] \in {"open", "closed"}
      /\ faults' \in 0..MaxFaults
  <2>1. /\ serving[c] = "no" /\ serving \in [Servers -> {"no", "yes", "ended"}]
        /\ link \in [Servers -> {"unused", "connecting", "open", "failed", "closed"}]
    BY <1>1 DEF Inv, TypeOK, Core, ChainInv
  <2>2. faults' \in 0..MaxFaults
    BY <1>1, ClientAssumption DEF Inv, TypeOK
  <2>3. CASE link[c] = "connecting" /\ ec = "ok"
    <3>1. /\ link' = [link EXCEPT ![c] = "open"] /\ serving' = [serving EXCEPT ![c] = "yes"]
      BY <1>1, <2>3
    <3>2. link'[c] = "open" /\ serving'[c] = "yes"
      BY <2>1, <3>1
    <3> QED
      BY <2>1, <2>2, <2>3, <3>1, <3>2
  <2>4. CASE link[c] = "connecting" /\ ec = "error"
    <3>1. link' = [link EXCEPT ![c] = "failed"] /\ serving' = serving
      BY <1>1, <2>4
    <3>2. link'[c] = "failed"
      BY <2>1, <3>1
    <3> QED
      BY <2>1, <2>2, <2>4, <3>1, <3>2
  <2>5. CASE ec = "aborted" /\ link[c] = "closed"
    <3>1. link' = link /\ serving' = serving
      BY <1>1, <2>5
    <3> QED
      BY <2>1, <2>2, <2>5, <3>1
  <2> QED
    BY <1>1, <2>3, <2>4, <2>5
<1>7. SocketInv' /\ ChainInv' /\ RedirectInv' /\ OpeningInv' /\ DropInv'
  BY <1>1, <1>2, <1>3, <1>4, <1>5, <1>6, CompletionFrame
<1>8. /\ strand_' \in Seq(Tasks) /\ ~Posts(c)
      /\ awaiting' \in [Servers -> {"no", "connect", "header", "payload"}]
      /\ \A d \in Servers : awaiting'[d] = IF d = c THEN "no" ELSE awaiting[d]
      /\ \A l \in Completions, d \in Servers, e \in Codes :
           In(Done(l, d, e))' <=> In(Done(l, d, e)) \/ (l = "connected" /\ d = c /\ e = ec)
  BY <1>1, <1>3, Completed
<1>9. TypeOK'
  BY <1>2, <1>6, <1>8 DEF Inv, TypeOK
<1>10. ServersInv'
  <2>1. \A d \in Servers : heard[d] # <<>> => link'[d] # "unused"
    BY <1>5, <1>6 DEF Inv, Core, ServersInv
  <2>2. \A d \in Servers : serving'[d] # "no" => link'[d] \in {"open", "closed"}
    BY <1>5, <1>6 DEF Inv, Core, ServersInv
  <2>3. \A d \in Servers : serving'[d] = "no" => serving[d] = "no"
    BY <1>1, <1>5 DEF Inv, TypeOK
  <2> QED
    BY <1>2, <2>1, <2>2, <2>3 DEF Inv, Core, ServersInv
<1>11. \A d \in Servers :
         /\ HeaderReady(d)' <=> HeaderReady(d)
         /\ PayloadReady(d)' <=> PayloadReady(d)
         /\ awaiting'[d] = "payload" <=> awaiting[d] = "payload"
  BY <1>1, <1>3, <1>8 DEF HeaderReady, PayloadReady
<1>12. BuffersInv'
  BY <1>2, <1>11, BuffersFrame
<1>13. ASSUME NEW d \in Servers, link'[d] = "open" PROVE WireOf(d)'
  <2>1. CASE d # c
    BY <1>2, <1>5, <1>11, <1>13, <2>1, WireFrame
  <2>2. CASE d = c
    <3>1. sent[c] = <<>> /\ wire[c] = <<>>
      BY <1>1 DEF Inv, Core, ChainInv, ServersInv
    <3>2. /\ Len(sent[c]) = 0 /\ Len(wire[c]) = 0 /\ Len(received[c]) = 0
      <4>1. Len(received[c]) <= Len(sent[c])
        BY DEF Inv, Core, BuffersInv, InboundFaithful
      <4> QED
        BY <3>1, <4>1, Lengths DEF Inv
    <3>3. ~HeaderReady(c) /\ ~PayloadReady(c) /\ awaiting[c] # "payload"
      BY <1>1, <1>3, <1>8 DEF HeaderReady, PayloadReady, Posts
    <3>4. ~InPacket(c)' /\ Upcoming(c)' = Current(c)' + 0 /\ Current(c)' = 0 + 1
      BY <1>2, <1>11, <3>2, <3>3 DEF InPacket, Upcoming, Current
    <3>5. NextPart(c)' = "header" /\ NextNumber(c)' = Len(sent[c]) + 1
      BY <3>2, <3>4 DEF NextPart, NextNumber
    <3> QED
      BY <1>2, <2>2, <3>1, <3>2, <3>5 DEF WireOf
  <2> QED
    BY <2>1, <2>2
<1> QED
  BY <1>7, <1>9, <1>10, <1>12, <1>13 DEF Inv, Core, WireInv

LEMMA ReadFailsKeeps ==
  ASSUME Inv, NEW c \in Servers, ReadFails(c)
  PROVE  Inv'
<1> DEFINE k == awaiting[c]
<1>1. PICK ec \in {"aborted", "error"} :
        /\ process # "stopped" /\ k \in Reads /\ Complete(c, k, ec)
        /\ ec = "error" => link[c] # "closed"
        /\ link[c] = "open" => serving[c] = "ended" /\ wire[c] = <<>>
  BY DEF ReadFails, Running, Reads
<1>2. UNCHANGED <<link, serving, sent, wire, heard, faults, socket_, incoming_header_,
                  incoming_payload_, inbound_queue_, process, logic, inWorld, received,
                  nullRead>>
  BY DEF ReadFails, bufferVars, logicVars, linkVars
<1>3. PICK kind \in Reads : kind = k /\ kind \in Completions /\ kind # "connected"
  BY <1>1 DEF Reads, Completions
<1>4. /\ awaiting[c] = kind /\ awaiting[c] # "no" /\ Complete(c, kind, ec) /\ ec \in Codes
      /\ ec # "ok" /\ "ok" \in Codes /\ "header" \in Completions /\ "payload" \in Completions
  BY <1>1, <1>3 DEF Reads, Codes, Completions
<1> HIDE DEF k
<1>5. Done(kind, c, ec) \in Failures => link["game"] = "unused"
  <2>1. SUFFICES ASSUME Done(kind, c, ec) \in Failures PROVE link["game"] = "unused"
    OBVIOUS
  <2>2. c = "login" /\ (kind = "payload" \/ ec = "error")
    BY <1>3, <1>4, <2>1, DoneTasks DEF Failures, Codes, Completions, Reads, Servers
  <2>3. CASE kind = "payload"
    BY <1>4, <2>2, <2>3, LoginRead
  <2>4. CASE ec = "error"
    BY <1>1, <2>2, <2>4 DEF Inv, Core, SocketInv
  <2> QED
    BY <2>2, <2>3, <2>4
<1>6. SocketInv' /\ ChainInv' /\ RedirectInv' /\ OpeningInv' /\ DropInv'
  BY <1>1, <1>2, <1>3, <1>4, <1>5, CompletionFrame
<1>7. /\ strand_' \in Seq(Tasks)
      /\ awaiting' \in [Servers -> {"no", "connect", "header", "payload"}]
      /\ \A d \in Servers : awaiting'[d] = IF d = c THEN "no" ELSE awaiting[d]
      /\ \A l \in Completions, d \in Servers, e \in Codes :
           In(Done(l, d, e))' <=> In(Done(l, d, e)) \/ (l = kind /\ d = c /\ e = ec)
  BY <1>3, <1>4, Completed
<1>8. TypeOK'
  BY <1>2, <1>7 DEF Inv, TypeOK
<1>9. ServersInv'
  BY <1>2 DEF Inv, Core, ServersInv
<1>10. \A d \in Servers :
         /\ HeaderReady(d)' <=> HeaderReady(d)
         /\ PayloadReady(d)' <=> PayloadReady(d)
         /\ awaiting'[d] = "payload" => awaiting[d] = "payload"
         /\ d # c => awaiting'[d] = awaiting[d]
  BY <1>4, <1>7 DEF HeaderReady, PayloadReady
<1>11. BuffersInv'
  BY <1>2, <1>10, BuffersFrame
<1>12. ASSUME NEW d \in Servers, link[d] = "open" PROVE WireOf(d)'
  <2>1. CASE d # c
    BY <1>2, <1>10, <1>12, <2>1, WireFrame
  <2>2. CASE d = c
    <3>1. wire'[c] = <<>> /\ Len(wire'[c]) = 0 /\ serving'[c] # "yes"
      BY <1>1, <1>2, <1>12, <2>2
    <3> QED
      BY <2>2, <3>1 DEF WireOf
  <2> QED
    BY <2>1, <2>2
<1> QED
  BY <1>2, <1>6, <1>8, <1>9, <1>11, <1>12 DEF Inv, Core, WireInv

\* While one connection is open, nothing of the other is being read.
LEMMA OtherQuiet ==
  ASSUME Inv, NEW c \in Servers, link[c] = "open", NEW d \in Servers, d # c
  PROVE  ~HeaderReady(d) /\ ~PayloadReady(d) /\ awaiting[d] # "payload" /\ link[d] # "open"
<1>1. /\ "header" \in Completions /\ "payload" \in Completions /\ "ok" \in Codes
      /\ Servers = {"login", "game"}
  BY DEF Completions, Codes, Servers
<1>2. link[d] # "open"
  BY DEF Inv, Core, SocketInv, Open
<1>3. CASE d = "login"
  <2>1. link["game"] # "unused"
    BY <1>1, <1>3
  <2> QED
    BY <1>2, <1>3, <2>1, LoginRead
<1>4. CASE d = "game"
  <2>1. link["game"] = "unused"
    BY <1>1, <1>4 DEF Inv, Core, SocketInv
  <2>2. awaiting[d] = "no" /\ ~Posts(d)
    BY <1>4, <2>1 DEF Inv, Core, SocketInv
  <2> QED
    BY <1>1, <1>2, <2>2 DEF HeaderReady, PayloadReady, Posts
<1> QED
  BY <1>1, <1>3, <1>4

\* The reading takes the first piece off the wire.
LEMMA WireShrinks ==
  ASSUME Inv, NEW c \in Servers, WireOf(c), wire[c] # <<>>, wire'[c] = Tail(wire[c]),
         sent'[c] = sent[c], NextPart(c)' = PartAfter(wire[c][1]),
         NextNumber(c)' = NumberAfter(wire[c][1])
  PROVE  WireOf(c)'
<1> DEFINE w == Len(wire[c])
           v == Tail(wire[c])
<1>1. /\ w \in Nat /\ w >= 1 /\ Len(v) = w - 1 /\ v \in Seq(Pieces)
      /\ \A k \in 1..Len(v) : v[k] = wire[c][k + 1]
      /\ v = <<>> <=> Len(v) = 0
  <2>1. wire[c] \in Seq(Pieces) /\ w \in Nat /\ w # 0
    BY Lengths DEF Inv
  <2>2. v \in Seq(Pieces) /\ Len(v) = w - 1 /\ \A k \in 1..Len(v) : v[k] = wire[c][k + 1]
    BY <2>1, HeadTailProperties
  <2> HIDE DEF v, w
  <2> QED
    BY <2>1, <2>2, EmptySeq
<1> HIDE DEF v
<1>2. /\ \A k \in 1..w : wire[c][k].of.n <= Len(sent[c])
                         /\ wire[c][k].of = sent[c][wire[c][k].of.n]
      /\ \A k \in 1..(w - 1) : /\ wire[c][k + 1].part = PartAfter(wire[c][k])
                               /\ wire[c][k + 1].of.n = NumberAfter(wire[c][k])
      /\ wire[c][w].of.n = Len(sent[c]) /\ ~HalfOf(wire[c][w])
  BY DEF WireOf
<1> HIDE DEF w
<1>3. /\ \A k \in 1..Len(v) : k + 1 \in 1..w
      /\ \A k \in 1..(Len(v) - 1) : k \in 1..Len(v) /\ k + 1 \in 1..Len(v) /\ k + 1 \in 1..(w - 1)
      /\ Len(v) # 0 => /\ 1 \in 1..Len(v) /\ 1 \in 1..(w - 1) /\ Len(v) \in 1..Len(v)
                       /\ Len(v) + 1 = w /\ 1 + 1 = 2
      /\ Len(v) = 0 => w = 1
  BY <1>1
<1>4. \A k \in 1..Len(v) : v[k].of.n <= Len(sent[c]) /\ v[k].of = sent[c][v[k].of.n]
  BY <1>1, <1>2, <1>3
<1>5. \A k \in 1..(Len(v) - 1) :
        v[k + 1].part = PartAfter(v[k]) /\ v[k + 1].of.n = NumberAfter(v[k])
  BY <1>1, <1>2, <1>3
<1>6. v # <<>> =>
        /\ v[1].part = NextPart(c)' /\ v[1].of.n = NextNumber(c)'
        /\ v[Len(v)].of.n = Len(sent[c]) /\ ~HalfOf(v[Len(v)])
  BY <1>1, <1>2, <1>3
<1>7. v = <<>> => NextPart(c)' = "header" /\ NextNumber(c)' = Len(sent[c]) + 1
  <2> SUFFICES ASSUME v = <<>>
               PROVE  NextPart(c)' = "header" /\ NextNumber(c)' = Len(sent[c]) + 1
    OBVIOUS
  <2>1. w = 1 /\ wire[c][1].of.n = Len(sent[c]) /\ ~HalfOf(wire[c][1])
    BY <1>1, <1>2, <1>3
  <2>2. Len(sent[c]) \in Nat
    BY Lengths DEF Inv
  <2> QED
    BY <2>1, <2>2 DEF PartAfter, NumberAfter
<1>8. wire'[c] = v /\ sent'[c] = sent[c]
  BY DEF v
<1> HIDE DEF PartAfter, NumberAfter, HalfOf
<1>9. /\ \A k \in 1..Len(wire'[c]) : /\ wire'[c][k].of.n <= Len(sent'[c])
                                     /\ wire'[c][k].of = sent'[c][wire'[c][k].of.n]
      /\ \A k \in 1..(Len(wire'[c]) - 1) :
           /\ wire'[c][k + 1].part = PartAfter(wire'[c][k])
           /\ wire'[c][k + 1].of.n = NumberAfter(wire'[c][k])
  BY <1>4, <1>5, <1>8
<1>10. /\ wire'[c] # <<>> =>
            /\ wire'[c][1].part = NextPart(c)' /\ wire'[c][1].of.n = NextNumber(c)'
            /\ wire'[c][Len(wire'[c])].of.n = Len(sent'[c])
            /\ ~HalfOf(wire'[c][Len(wire'[c])])
       /\ wire'[c] = <<>> => NextPart(c)' = "header" /\ NextNumber(c)' = Len(sent'[c]) + 1
  BY <1>6, <1>7, <1>8
<1> QED
  BY <1>9, <1>10 DEF WireOf, PartAfter, NumberAfter, HalfOf

LEMMA ReadCompletesKeeps ==
  ASSUME Inv, NEW c \in Servers, ReadCompletes(c)
  PROVE  Inv'
<1> DEFINE p == wire[c][1]
           n == Current(c)
<1>1. PICK k \in Reads :
        /\ awaiting[c] = k /\ Complete(c, k, "ok") /\ k \in Completions /\ k # "connected"
        /\ process # "stopped" /\ link[c] = "open" /\ wire[c] # <<>>
        /\ k = "header" => incoming_header_' = Head(wire[c]).of
                           /\ incoming_payload_' = incoming_payload_
        /\ k = "payload" => incoming_payload_' = Head(wire[c]).of
                            /\ incoming_header_' = incoming_header_
        /\ wire' = [wire EXCEPT ![c] = Tail(wire[c])]
  BY DEF ReadCompletes, Running, Reads, Completions
<1>2. UNCHANGED <<link, serving, sent, heard, faults, socket_, inbound_queue_, process, logic,
                  inWorld, received, nullRead>>
  BY DEF ReadCompletes, logicVars
<1>3. /\ "ok" \in Codes /\ "header" \in Completions /\ "payload" \in Completions
      /\ k \in {"header", "payload"} /\ awaiting[c] # "no"
  BY <1>1 DEF Reads, Codes, Completions
<1>4. Done(k, c, "ok") \notin Failures
  BY <1>1, <1>3, DoneTasks DEF Failures, Codes, Reads, Completions, Servers
<1>5. SocketInv' /\ ChainInv' /\ RedirectInv' /\ OpeningInv' /\ DropInv'
  BY <1>1, <1>2, <1>3, <1>4, CompletionFrame
<1>6. /\ strand_' \in Seq(Tasks) /\ ~Posts(c)
      /\ awaiting' \in [Servers -> {"no", "connect", "header", "payload"}]
      /\ \A d \in Servers : awaiting'[d] = IF d = c THEN "no" ELSE awaiting[d]
      /\ \A l \in Completions, d \in Servers, e \in Codes :
           In(Done(l, d, e))' <=> In(Done(l, d, e)) \/ (l = k /\ d = c /\ e = "ok")
  BY <1>1, <1>3, Completed
\* The piece is what the reading asked for.
<1>7. /\ wire[c] \in Seq(Pieces) /\ Head(wire[c]) = p /\ p \in Pieces /\ p.of \in Packet
      /\ Tail(wire[c]) \in Seq(Pieces)
      /\ n \in Nat /\ Len(sent[c]) \in Nat
  <2>1. /\ wire[c] \in Seq(Pieces) /\ n \in Nat /\ Len(sent[c]) \in Nat
        /\ Len(wire[c]) \in Nat /\ Len(wire[c]) # 0
    BY <1>1, Lengths DEF Inv, Current
  <2>2. 1 \in 1..Len(wire[c])
    BY <2>1
  <2>3. p \in Pieces /\ Head(wire[c]) = p /\ Tail(wire[c]) \in Seq(Pieces)
    BY <1>1, <2>1, <2>2, ElementOfSeq, HeadTailProperties
  <2> QED
    BY <2>1, <2>3 DEF Pieces
<1>8. /\ ~HeaderReady(c) /\ ~PayloadReady(c)
      /\ HeaderReady(c)' <=> k = "header"
      /\ PayloadReady(c)' <=> k = "payload"
      /\ \A d \in Servers : d # c => ~HeaderReady(d)' /\ ~PayloadReady(d)'
                                     /\ awaiting'[d] # "payload" /\ link[d] # "open"
      /\ awaiting'[c] = "no"
  <2>1. ~HeaderReady(c) /\ ~PayloadReady(c)
    BY <1>3, <1>6 DEF HeaderReady, PayloadReady, Posts
  <2>2. \A d \in Servers : d # c => ~HeaderReady(d) /\ ~PayloadReady(d)
                                    /\ awaiting[d] # "payload" /\ link[d] # "open"
    BY <1>1, OtherQuiet
  <2> QED
    BY <1>3, <1>6, <2>1, <2>2 DEF HeaderReady, PayloadReady
<1>9. /\ WireOf(c) /\ p.part = k /\ p.of.n = n /\ n <= Len(sent[c]) /\ p.of = sent[c][n]
      /\ k = "payload" => incoming_header_ = p.of /\ HasBody(incoming_header_)
  <2>1. WireOf(c)
    BY <1>1 DEF Inv, Core, WireInv
  <2>2. NextPart(c) = k /\ NextNumber(c) = n
    BY <1>1, <1>3, <1>7, <1>8 DEF NextPart, NextNumber, InPacket, Upcoming
  <2>3. 1 \in 1..Len(wire[c])
    BY <1>1, <1>7, LenProperties, EmptySeq
  <2>4. p.part = k /\ p.of.n = n /\ n <= Len(sent[c]) /\ p.of = sent[c][n]
    BY <1>1, <2>1, <2>2, <2>3 DEF WireOf
  <2>5. k = "payload" => incoming_header_ = sent[c][n] /\ HasBody(incoming_header_)
    BY <1>1 DEF Inv, Core, BuffersInv
  <2> QED
    BY <2>1, <2>4, <2>5
<1>10. /\ incoming_header_' = p.of
       /\ k = "payload" => incoming_payload_' = p.of /\ HasBody(p.of)
       /\ incoming_payload_' \in Packet \cup {NoPacket}
  BY <1>1, <1>3, <1>7, <1>9 DEF Inv, TypeOK
<1>11. wire' \in [Servers -> Seq(Pieces)] /\ wire'[c] = Tail(wire[c])
  BY <1>1, <1>7 DEF Inv, TypeOK
<1>12. TypeOK'
  BY <1>2, <1>6, <1>7, <1>10, <1>11 DEF Inv, TypeOK
<1>13. ServersInv'
  <2>1. \A d \in Servers : serving[d] = "no" => wire'[d] = <<>>
    <3>1. serving[c] # "no"
      BY <1>1 DEF Inv, Core, ServersInv
    <3> QED
      BY <1>1, <3>1 DEF Inv, TypeOK, Core, ServersInv
  <2> QED
    BY <1>2, <2>1 DEF Inv, Core, ServersInv
<1> HIDE DEF p
<1>14. \A d \in Servers : Current(d)' = Current(d)
  BY <1>2 DEF Current
<1>15. BuffersInv'
  <2>1. InboundFaithful'
    BY <1>2 DEF Inv, Core, BuffersInv, InboundFaithful
  <2>2. ASSUME NEW d \in Servers, HeaderReady(d)' \/ PayloadReady(d)' \/ awaiting'[d] = "payload"
        PROVE  /\ Current(d)' <= Len(sent'[d]) /\ incoming_header_' = sent'[d][Current(d)']
               /\ awaiting'[d] # "payload"
               /\ PayloadReady(d)' => HasBody(incoming_header_')
                                      /\ incoming_payload_' = incoming_header_'
    <3>1. d = c
      BY <1>8, <2>2
    <3> QED
      BY <1>2, <1>3, <1>8, <1>9, <1>10, <1>14, <3>1
  <2> QED
    BY <2>1, <2>2 DEF BuffersInv
<1>16. ASSUME NEW d \in Servers, link[d] = "open" PROVE WireOf(d)'
  <2>1. d = c
    BY <1>8, <1>16
  <2>2. Current(c)' = n
    BY <1>14
  <2> HIDE DEF n
  <2>3. InPacket(c)' <=> k = "header" /\ HasBody(p.of)
    BY <1>8, <1>10 DEF InPacket
  <2>4. Upcoming(c)' = n + 1
    BY <1>3, <1>8, <2>2 DEF Upcoming
  <2>5. NextPart(c)' = PartAfter(p)
    BY <1>3, <1>9, <2>3 DEF NextPart, PartAfter, HalfOf
  <2>6. NextNumber(c)' = NumberAfter(p)
    BY <1>3, <1>7, <1>9, <2>2, <2>3, <2>4 DEF NextNumber, NumberAfter, HalfOf
  <2> QED
    BY <1>1, <1>2, <1>9, <1>11, <2>1, <2>5, <2>6, WireShrinks DEF p
<1> QED
  BY <1>2, <1>5, <1>12, <1>13, <1>15, <1>16 DEF Inv, Core, WireInv

-----------------------------------------------------------------------------
(* The invariant, and what follows from it.                                    *)

LEMMA InvKept == Inv /\ [Next]_vars => Inv'
<1> SUFFICES ASSUME Inv, [Next]_vars PROVE Inv'
  OBVIOUS
<1>1. CASE RunTask
  BY <1>1, ConnectKeeps, DisconnectKeeps, SendPacketKeeps, ConnectedKeeps, PacketReadKeeps,
     ReadPayloadKeeps, FailedKeeps DEF RunTask
<1>2. CASE \E c \in Servers : Operations(c)
  BY <1>2, ConnectCompletesKeeps, ReadCompletesKeeps, ReadFailsKeeps DEF Operations
<1>3. CASE Logic \/ Exit \/ Destroy \/ Stop
  BY <1>3, PopKeeps, RedirectKeeps, DrainedKeeps, ActKeeps, DestroyKeeps, StopKeeps DEF Logic
<1>4. CASE (\E c \in Servers : Answer(c) \/ Close(c) \/ Reset(c)) \/ State
  BY <1>4, ServersKeep
<1>5. CASE UNCHANGED vars
  <2>1. UNCHANGED <<link, serving, sent, wire, heard, faults, socket_, awaiting, strand_,
                    incoming_header_, incoming_payload_, inbound_queue_, process, logic,
                    inWorld, received, nullRead>>
    BY <1>5 DEF vars, linkVars, bufferVars, logicVars
  <2>2. UNCHANGED serverUnchanged /\ UNCHANGED linkVars /\ UNCHANGED bufferVars
    BY <2>1 DEF serverUnchanged, linkVars, bufferVars, logicVars
  <2>3. (\A t : In(t)' <=> In(t)) /\ SameDone /\ OnePerKey' = OnePerKey
    BY <2>1, SameStrand
  <2>4. RedirectInv' /\ OpeningInv' /\ DropInv'
    BY <2>1, <2>2, ServersLeave
  <2>5. SocketInv' /\ ChainInv' /\ ServersInv' /\ BuffersInv' /\ WireInv'
    BY <2>1, <2>2, <2>3, ConnectionsFrame DEF Inv, Core, ChainInv
  <2>6. TypeOK'
    BY <2>1 DEF Inv, TypeOK
  <2> QED
    BY <2>4, <2>5, <2>6 DEF Inv, Core
<1> QED
  BY <1>1, <1>2, <1>3, <1>4, <1>5 DEF Next

\* The invariant holds of every run of the client and the servers.
THEOREM InvCorrect == Spec => []Inv
BY InitInv, InvKept, PTL DEF Spec

LEMMA OneReaderFollows == Inv => OneReader
<1> SUFFICES ASSUME Inv PROVE OneReader
  OBVIOUS
<1> DEFINE Live == {c \in Servers : awaiting[c] \in {"header", "payload"} /\ link[c] # "closed"}
           Ready == {i \in 1..Len(strand_) :
                       strand_[i].kind \in {"header", "payload"} /\ strand_[i].ec = "ok"}
<1>1. \A c \in Live : c \in Servers /\ link[c] = "open" /\ socket_ = c /\ ~Posts(c)
  BY DEF Inv, Core, ChainInv, SocketInv, Reads, Open
<1>2. \A c, d \in Live : c = d
  BY <1>1
<1>3. ASSUME NEW i \in Ready
      PROVE  \E c \in Servers : /\ HeaderReady(c) \/ PayloadReady(c)
                                /\ Key(strand_[i]) = <<"completion", c>> /\ Posts(c)
                                /\ strand_[i].kind # "disconnect"
  <2>1. strand_ \in Seq(Tasks) /\ i \in 1..Len(strand_)
    BY DEF Inv, TypeOK
  <2>2. strand_[i] \in Tasks
    BY <2>1, ElementOfSeq
  <2>3. PICK c \in Servers : /\ strand_[i] = Done(strand_[i].kind, c, "ok")
                             /\ strand_[i].kind \in {"header", "payload"}
    BY <2>2, TaskShapes DEF Completions
  <2>4. In(Done(strand_[i].kind, c, "ok"))
    BY <2>1, <2>3 DEF In
  <2>5. HeaderReady(c) \/ PayloadReady(c)
    BY <2>3, <2>4 DEF HeaderReady, PayloadReady
  <2>6. Posts(c)
    BY <2>5 DEF HeaderReady, PayloadReady, Posts, Completions, Codes
  <2>7. Key(strand_[i]) = <<"completion", c>>
    BY <2>3, DoneTasks DEF Completions, Codes
  <2> QED
    BY <2>3, <2>5, <2>6, <2>7
\* What was read waits for one connection.
<1>4. \A c, d \in Servers :
        /\ HeaderReady(c) \/ PayloadReady(c)
        /\ HeaderReady(d) \/ PayloadReady(d)
        => c = d
  <2>1. HeaderReady("game") \/ PayloadReady("game") => link["game"] # "unused"
    BY DEF Inv, Core, SocketInv, HeaderReady, PayloadReady, Posts, Completions, Codes, Servers
  <2>2. link["game"] # "unused" => ~HeaderReady("login") /\ ~PayloadReady("login")
    BY LoginRead
  <2> QED
    BY <2>1, <2>2 DEF Servers
<1>5. ASSUME NEW i \in Ready, NEW j \in Ready PROVE i = j
  <2>1. PICK c \in Servers : /\ HeaderReady(c) \/ PayloadReady(c)
                             /\ Key(strand_[i]) = <<"completion", c>>
                             /\ strand_[i].kind # "disconnect"
    BY <1>3
  <2>2. PICK d \in Servers : /\ HeaderReady(d) \/ PayloadReady(d)
                             /\ Key(strand_[j]) = <<"completion", d>>
    BY <1>3
  <2>3. c = d /\ i \in 1..Len(strand_) /\ j \in 1..Len(strand_)
    BY <1>4, <2>1, <2>2
  <2> QED
    BY <2>1, <2>2, <2>3 DEF Inv, Core, ChainInv, OnePerKey
<1>6. ASSUME NEW c \in Live, NEW i \in Ready PROVE FALSE
  <2>1. PICK d \in Servers : (HeaderReady(d) \/ PayloadReady(d)) /\ Posts(d)
    BY <1>3
  <2>2. d # c
    BY <1>1, <2>1
  <2> QED
    BY <1>1, <2>1, <2>2, OtherQuiet
<1> HIDE DEF Live, Ready
<1>7. \/ Ready = {} /\ \A c, d \in Live : c = d
      \/ Live = {} /\ \A i, j \in Ready : i = j
  BY <1>2, <1>5, <1>6
<1> QED
  BY <1>7 DEF OneReader, Live, Ready

\* The variables keep their types through every interleaving of the network
\* thread, the logic thread and the servers (NetworkManager.cpp, main.cpp).
THEOREM TypeCorrect == Spec => []TypeOK
<1>1. Inv => TypeOK
  BY DEF Inv
<1> QED
  BY <1>1, InvCorrect, PTL

\* incoming_header_, incoming_payload_ and socket_ are members that every
\* connection shares; no read overwrites what another's handler has not used yet,
\* and while the client runs readPayload() finds the socket it dereferences.
THEOREM ReadsCorrect == Spec => []ReadsSafe
<1>1. Inv => ReadsSafe
  BY OneReaderFollows DEF Inv, Core, DropInv, ReadsSafe
<1> QED
  BY <1>1, InvCorrect, PTL

\* However the sockets deliver, fail or close, the logic thread gets from
\* inbound_queue_ a prefix of what each server sent, each header with its payload.
THEOREM InboundCorrect == Spec => []InboundFaithful
<1>1. Inv => InboundFaithful
  BY DEF Inv, Core, BuffersInv
<1> QED
  BY <1>1, InvCorrect, PTL

\* onConnected() sends to "the socket" what main() chose for a connection: the
\* credentials reach the login server only, the token reaches the game server
\* once and first.
THEOREM OpensCorrect == Spec => []OpensWithItsOwn
<1>1. Inv => OpensWithItsOwn
  BY DEF Inv, Core, OpeningInv
<1> QED
  BY <1>1, InvCorrect, PTL

================================================================================
