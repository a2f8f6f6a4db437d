------------------------ MODULE ApprovalControlProofs ------------------------
(***************************************************************************)
(* Proofs about ApprovalControl for any number of request ids, users and   *)
(* connections and any capacity: a request is answered at most once, what  *)
(* users are told of their decisions is true, and a request counts as      *)
(* resolved only if Codex resolved that very ask.                          *)
(***************************************************************************)
EXTENDS ApprovalControl, FiniteSetTheorems, TLAPS

Answered == {"approved", "denied"}

(* An ask has been answered by HostDeck at most once, with the frame that  *)
(* is on its way or was taken, and Codex tells nothing before it has an    *)
(* answer (Written, Hears, Tells).                                         *)
AskOK(a, w) ==
  /\ a.gen <= gen /\ a.frames <= 1
  /\ a.frames = 0 => a.from = "none" /\ w = "none" /\ a.taken \notin Decisions
  /\ w # "none" => a.gen = gen
  /\ "resolved" \in a.told => a.taken # "none"
AsksOK == \A i \in Ids : AskOK(ask[i], wire[i])

(* A tracked approval that is open is of this connection, its decision is  *)
(* that of the frame that was sent, and what it was settled with is true.  *)
RecordOK(r, a, w, sending) ==
  /\ r.gen <= a.gen /\ (r.kind # "none" => r.decision \in Decisions)
  /\ ~r.closed => r.gen = gen /\ r.state \in {"pending", "responding", "expired"}
  /\ r.state = "pending" => ~r.closed /\ r.outcome = "none"
  /\ r.gen = a.gen /\ a.frames = 1 =>
       /\ sending \/ r.closed \/ r.outcome \in {"sent", "unknown"}
       /\ w \in Decisions => w = r.decision
       /\ a.taken \in Decisions => a.taken = r.decision
  /\ r.gen = a.gen /\ r.resolved => "resolved" \in a.told
  /\ r.state \in Answered =>
       /\ r.closed /\ r.state = Final(r.decision) /\ r.decision \in Decisions
       /\ r.gen = a.gen => a.taken \in {r.decision, "elsewhere"}
RecordsOK == \A i \in Ids : RecordOK(records[i], ask[i], wire[i], sends[i].on)

(* The broker's place of a request, and the response being sent for it: no *)
(* place is free for a second response, and a response is sent for an open *)
(* approval of this connection unless the service was closed meanwhile.    *)
SendOK(s, r, a, b, t) ==
  /\ b = "pending" => ~s.on /\ a.gen = gen /\ a.frames = 0
  /\ b = "responding" => s.on
  /\ s.on =>
       /\ s.gen = gen /\ r.gen = gen /\ r.outcome = "sending" /\ r.decision = s.decision
       /\ r.closed => closed
       /\ ~s.written => a.frames = 0
       /\ s.written => a.frames = 1 /\ a.from = IF s.kind = "user" THEN s.user ELSE "none"
       /\ s.kind = "user" => s.user \in Users
       /\ t # <<>> /\ Head(t).user = s.user
SendsOK == \A i \in Ids : SendOK(sends[i], records[i], ask[i], broker[i], tails[i])

(* A lost connection leaves no place at the broker and no frame on its way. *)
LinkOK == ~Connected => \A i \in Ids : broker[i] = "none" /\ wire[i] = "none"

(* Only respond operations have a user, who waits for his one operation to *)
(* run, or for the end of the send it has started.                         *)
QueuedOK(i, k) ==
  LET u == tails[i][k].user IN
  u \in Users =>
    /\ users[u] # Idle /\ users[u].id = i
    /\ users[u].pc = "queued" \/ (users[u].pc = "sending" /\ k = 1 /\ sends[i].on)
    /\ \A n \in DOMAIN tails[i] : tails[i][n].user = u => n = k
TailsOK ==
  \A i \in Ids : \A k \in DOMAIN tails[i] :
    (tails[i][k].op = "respond" <=> tails[i][k].user \in Users) /\ QueuedOK(i, k)
SendersOK ==
  \A i \in Ids : sends[i].on /\ sends[i].user \in Users =>
    users[sends[i].user] # Idle /\ users[sends[i].user].id = i /\ users[sends[i].user].pc = "sending"

(* What a user waits for is open, and what he was told is true.            *)
KeptFor(w, a) ==
  /\ w.gen <= a.gen
  /\ w.pc = "done" /\ w.reply = "finalized" /\ w.gen = a.gen => a.taken \in {w.decision, "elsewhere"}
UserOK(w) == w # Idle => KeptFor(w, ask[w.id]) /\ (w.pc = "waiting" => ~records[w.id].closed)
UsersOK == \A u \in Users : UserOK(users[u])

(* A user whose response was sent is told of no failure.                   *)
FromOK ==
  \A i \in Ids : ask[i].from \in Users =>
    LET w == users[ask[i].from] IN
    w # Idle /\ w.id = i /\ w.pc \in {"sending", "waiting", "done"}
      /\ (w.pc = "done" => w.reply # "failed")

(* What is told of a resolution, and not yet applied, is of this           *)
(* connection's ask.                                                       *)
Told(i) == ask[i].gen = gen /\ "resolved" \in ask[i].told
ToldOK ==
  /\ \A k \in DOMAIN events : events[k].op = "resolved" => Told(events[k].id)
  /\ \A i \in Ids : \A k \in DOMAIN tails[i] : tails[i][k].op = "resolved" => Told(i)

IInv ==
  /\ TypeOK /\ AsksOK /\ RecordsOK /\ SendsOK /\ LinkOK /\ TailsOK /\ SendersOK
  /\ UsersOK /\ FromOK /\ ToldOK

----------------------------------------------------------------------------
(* What the operations make of one approval.                               *)

(* A changed approval is one, and so is the empty one.                     *)
LEMMA RecordChanges ==
  ASSUME NEW r \in Records
  PROVE  /\ \A b \in BOOLEAN : [r EXCEPT !.due = b] \in Records
         /\ \A b \in BOOLEAN : [r EXCEPT !.timer = b] \in Records
         /\ [r EXCEPT !.resolved = TRUE] \in Records
         /\ [r EXCEPT !.item = TRUE] \in Records
         /\ \A out \in {"sent", "not_sent", "unknown"} : [r EXCEPT !.outcome = out] \in Records
         /\ NoRecord \in Records
<1>1. \A b \in BOOLEAN : [r EXCEPT !.due = b] \in Records
  BY DEF Records
<1>2. \A b \in BOOLEAN : [r EXCEPT !.timer = b] \in Records
  BY DEF Records
<1>3. [r EXCEPT !.resolved = TRUE] \in Records /\ [r EXCEPT !.item = TRUE] \in Records
  BY DEF Records
<1>4. \A out \in {"sent", "not_sent", "unknown"} : [r EXCEPT !.outcome = out] \in Records
  BY DEF Records
<1>5. NoRecord \in Records
  BY ApprovalAssumption DEF NoRecord, Records
<1> QED BY <1>1, <1>2, <1>3, <1>4, <1>5

(* A superseded approval is closed and keeps what was sent for it.         *)
LEMMA SupersedeIs ==
  ASSUME NEW r \in Records
  PROVE  LET q == Supersede(r) IN
         /\ q \in Records /\ q.closed /\ (r.closed => q = r)
         /\ q.gen = r.gen /\ q.kind = r.kind /\ q.decision = r.decision
         /\ q.outcome = r.outcome /\ q.resolved = r.resolved
         /\ ~r.closed => q.state = "superseded"
<1> DEFINE q == [r EXCEPT !.state = "superseded"]
           p == [q EXCEPT !.closed = TRUE, !.timer = FALSE]
<1>1. q \in Records /\ q.gen = r.gen /\ q.kind = r.kind /\ q.decision = r.decision
      /\ q.outcome = r.outcome /\ q.resolved = r.resolved /\ q.state = "superseded"
  BY DEF Records
<1>2. Supersede(r) = IF r.closed THEN r ELSE p
  BY DEF Supersede, MarkClosed
<1> HIDE DEF q
<1>3. p \in Records /\ p.gen = q.gen /\ p.kind = q.kind /\ p.decision = q.decision
      /\ p.outcome = q.outcome /\ p.resolved = q.resolved /\ p.state = q.state /\ p.closed
  BY <1>1 DEF Records
<1> QED BY <1>1, <1>2, <1>3

(* A settled approval keeps what was sent for it, and is closed only once  *)
(* it is resolved and its response may have been sent.                     *)
LEMMA SettleIs ==
  ASSUME NEW r \in Records
  PROVE  LET q == Settle(r) IN
         /\ q \in Records
         /\ q.gen = r.gen /\ q.kind = r.kind /\ q.decision = r.decision
         /\ q.outcome = r.outcome /\ q.resolved = r.resolved
         /\ \/ q = r
            \/ /\ ~r.closed /\ r.resolved /\ r.outcome \in {"sent", "unknown"} /\ q.closed
               /\ \/ r.kind = "user" /\ q.state = Final(r.decision)
                  \/ r.kind = "expiry" /\ q.state = r.state
<1>1. CASE r.closed \/ ~r.resolved \/ ~r.item \/ r.kind = "none" \/ r.outcome \notin {"sent", "unknown"}
  <2>1. Settle(r) = r
    BY <1>1 DEF Settle
  <2> QED BY <2>1
<1>2. CASE ~(r.closed \/ ~r.resolved \/ ~r.item \/ r.kind = "none" \/ r.outcome \notin {"sent", "unknown"})
  <2> DEFINE q == IF r.kind = "user" THEN [r EXCEPT !.state = Final(r.decision)] ELSE r
             p == [q EXCEPT !.closed = TRUE, !.timer = FALSE]
  <2>1. q \in Records /\ q.gen = r.gen /\ q.kind = r.kind /\ q.decision = r.decision
        /\ q.outcome = r.outcome /\ q.resolved = r.resolved
        /\ (\/ r.kind = "user" /\ q.state = Final(r.decision)
            \/ r.kind = "expiry" /\ q.state = r.state)
    BY <1>2 DEF Records, Final
  <2>2. Settle(r) = p
    BY <1>2 DEF Settle, MarkClosed
  <2> HIDE DEF q
  <2>3. p \in Records /\ p.gen = q.gen /\ p.kind = q.kind /\ p.decision = q.decision
        /\ p.outcome = q.outcome /\ p.resolved = q.resolved /\ p.state = q.state /\ p.closed
    BY <2>1 DEF Records
  <2> QED BY <1>2, <2>1, <2>2, <2>3
<1> QED BY <1>1, <1>2

(* What a new ask is tracked as.                                           *)
LEMMA PendingIs ==
  ASSUME TypeOK, NEW late \in BOOLEAN
  PROVE  LET q == Pending(late) IN
         /\ q \in Records /\ q.gen = gen /\ ~q.closed /\ q.kind = "none" /\ ~q.resolved
         /\ q.state \in {"pending", "expired"} /\ (q.state = "pending" => q.outcome = "none")
<1>1. gen \in 0 .. MaxGen
  BY ApprovalAssumption DEF TypeOK
<1> DEFINE st == IF late THEN "expired" ELSE "pending"
           out == IF late THEN "not_sent" ELSE "none"
           p == [NoRecord EXCEPT !.gen = gen, !.closed = FALSE, !.timer = TRUE, !.due = late,
                                 !.state = st, !.outcome = out]
<1>2. st \in {"expired", "pending"} /\ out \in {"none", "not_sent"}
      /\ (st = "pending" => out = "none")
  OBVIOUS
<1>3. Pending(late) = p
  BY DEF Pending
<1> HIDE DEF st, out
<1>4. /\ p \in Records /\ p.gen = gen /\ ~p.closed /\ p.kind = "none" /\ ~p.resolved
      /\ p.state = st /\ p.outcome = out
  BY <1>1, <1>2 DEF NoRecord, Records
<1> QED BY <1>2, <1>3, <1>4

(* A response in preparation, of a user or of the expiry.                  *)
Declining(r) ==
  [r EXCEPT !.timer = FALSE, !.kind = "expiry", !.decision = "deny", !.outcome = "sending",
            !.state = "expired"]

(* What preparing a response, of a user or of the expiry, makes of an      *)
(* approval.                                                               *)
LEMMA RespondingIs ==
  ASSUME NEW r \in Records, NEW d \in Decisions
  PROVE  LET q == Responding(r, d)
             p == Declining(r) IN
         /\ q \in Records /\ q.gen = r.gen /\ q.closed = r.closed /\ q.resolved = r.resolved
         /\ q.kind = "user" /\ q.decision = d /\ q.outcome = "sending" /\ q.state = "responding"
         /\ p \in Records /\ p.gen = r.gen /\ p.closed = r.closed /\ p.resolved = r.resolved
         /\ p.kind = "expiry" /\ p.decision = "deny" /\ p.outcome = "sending" /\ p.state = "expired"
<1>1. LET q == Responding(r, d) IN
         /\ q \in Records /\ q.gen = r.gen /\ q.closed = r.closed /\ q.resolved = r.resolved
         /\ q.kind = "user" /\ q.decision = d /\ q.outcome = "sending" /\ q.state = "responding"
  BY DEF Responding, Records, Decisions
<1>2. LET p == Declining(r) IN
         /\ p \in Records /\ p.gen = r.gen /\ p.closed = r.closed /\ p.resolved = r.resolved
         /\ p.kind = "expiry" /\ p.decision = "deny" /\ p.outcome = "sending" /\ p.state = "expired"
  BY DEF Declining, Records, Decisions
<1> QED BY <1>1, <1>2

(* A settled or superseded approval is as true as it was.                  *)
LEMMA ClosingKeeps ==
  ASSUME NEW r \in Records, NEW a \in Asks, NEW w, NEW s, RecordOK(r, a, w, s), AskOK(a, w)
  PROVE  RecordOK(Supersede(r), a, w, s) /\ RecordOK(Settle(r), a, w, s)
<1>1. RecordOK(Supersede(r), a, w, s)
  BY SupersedeIs DEF RecordOK, Answered
<1>2. CASE Settle(r) = r
  BY <1>1, <1>2
<1>3. CASE Settle(r) # r
  <2> DEFINE q == Settle(r)
  <2>1. /\ q.gen = r.gen /\ q.kind = r.kind /\ q.decision = r.decision /\ q.outcome = r.outcome
        /\ q.resolved = r.resolved /\ ~r.closed /\ r.resolved /\ q.closed
        /\ r.outcome \in {"sent", "unknown"}
        /\ \/ r.kind = "user" /\ q.state = Final(r.decision)
           \/ r.kind = "expiry" /\ q.state = r.state
    BY <1>3, SettleIs
  <2> HIDE DEF q
  <2>2. r.gen = a.gen => a.taken # "none"
    BY <2>1 DEF RecordOK, AskOK
  <2>3. q.state # "pending"
    BY <2>1 DEF RecordOK, Final
  <2>4. r.gen = a.gen => a.taken \in {r.decision, "elsewhere"}
    <3>1. a.taken \in Decisions \cup {"none", "elsewhere"} /\ a.frames \in Nat
      BY DEF Asks
    <3>2. a.taken \in Decisions => a.frames = 1
      BY <3>1 DEF AskOK
    <3> QED BY <2>2, <3>1, <3>2 DEF RecordOK
  <2>5. q.state \in Answered => q.state = Final(q.decision) /\ q.decision \in Decisions
    BY <2>1 DEF RecordOK, Answered
  <2>6. RecordOK(q, a, w, s)
    BY <2>1, <2>3, <2>4, <2>5 DEF RecordOK
  <2> QED BY <1>1, <2>6 DEF q
<1> QED BY <1>1, <1>2, <1>3

----------------------------------------------------------------------------
(* What each part of the invariant speaks of.                              *)

(* A user acts, or has not decided.                                        *)
LEMMA DeciderIs ==
  ASSUME NEW w \in Deciders
  PROVE  /\ w = Idle => w.pc = "idle"
         /\ w # Idle => w \in Acting /\ w.pc \in {"queued", "sending", "waiting", "done"}
         /\ w.pc # "idle" => w # Idle
BY DEF Deciders, Acting, Idle

(* A response is being sent, or none is.                                   *)
LEMMA SendIs ==
  ASSUME NEW s \in Sends
  PROVE  (s.on => s \in Responses) /\ (~s.on => s = NoSend) /\ s.on \in BOOLEAN
<1>1. ~NoSend.on /\ NoSend.on \in BOOLEAN
  BY DEF NoSend
<1>2. ASSUME s \in Responses PROVE s.on = TRUE
  BY <1>2 DEF Responses
<1> QED BY <1>1, <1>2 DEF Sends

(* A reply ends a user's write.                                            *)
LEMMA RepliedIs ==
  ASSUME NEW w \in Acting, NEW reply \in {"failed", "incomplete", "finalized"}
  PROVE  LET v == Replied(w, reply) IN
         /\ v \in Acting /\ v # Idle /\ v \in Deciders /\ v.pc = "done" /\ v.reply = reply
         /\ v.id = w.id /\ v.gen = w.gen /\ v.decision = w.decision
<1>1. LET v == Replied(w, reply) IN
         /\ v \in Acting /\ v.pc = "done" /\ v.reply = reply
         /\ v.id = w.id /\ v.gen = w.gen /\ v.decision = w.decision
  BY DEF Replied, Acting
<1> QED BY <1>1 DEF Deciders, Idle

(* Whoever waits for an approval that has ended is told how.               *)
LEMMA NotifiedIs ==
  ASSUME NEW us \in [Users -> Deciders], NEW rs \in [Ids -> Records]
  PROVE  LET n == NotifyWaiters(us, rs) IN
         /\ n \in [Users -> Deciders]
         /\ \A u \in Users :
              \/ n[u] = us[u] /\ ~(us[u].pc = "waiting" /\ rs[us[u].id].closed)
              \/ /\ us[u].pc = "waiting" /\ us[u] \in Acting /\ rs[us[u].id].closed
                 /\ n[u] # Idle /\ n[u].id = us[u].id /\ n[u].gen = us[u].gen
                 /\ n[u].decision = us[u].decision
                 /\ n[u].pc = "done" /\ n[u].reply \in {"finalized", "incomplete"}
                 /\ n[u].reply = "finalized" => rs[us[u].id].state = Final(us[u].decision)
<1> DEFINE n == NotifyWaiters(us, rs)
<1>1. ASSUME NEW u \in Users, us[u].pc = "waiting", rs[us[u].id].closed
      PROVE  /\ us[u] \in Acting /\ n[u] \in Deciders
             /\ n[u] # Idle /\ n[u].id = us[u].id /\ n[u].gen = us[u].gen
             /\ n[u].decision = us[u].decision
             /\ n[u].pc = "done" /\ n[u].reply \in {"finalized", "incomplete"}
             /\ n[u].reply = "finalized" => rs[us[u].id].state = Final(us[u].decision)
  <2> DEFINE reply == IF rs[us[u].id].state = Final(us[u].decision)
                      THEN "finalized" ELSE "incomplete"
  <2>1. us[u] \in Acting
    BY <1>1, DeciderIs
  <2>2. n[u] = Replied(us[u], reply)
    BY <1>1 DEF NotifyWaiters, Materialized
  <2>3. reply \in {"failed", "incomplete", "finalized"} /\ reply \in {"finalized", "incomplete"}
        /\ (reply = "finalized" => rs[us[u].id].state = Final(us[u].decision))
    OBVIOUS
  <2> HIDE DEF reply, n
  <2> QED BY <2>1, <2>2, <2>3, RepliedIs
<1>2. ASSUME NEW u \in Users, ~(us[u].pc = "waiting" /\ rs[us[u].id].closed) PROVE n[u] = us[u]
  BY <1>2 DEF NotifyWaiters
<1>3. \A u \in Users : n[u] \in Deciders
  BY <1>1, <1>2
<1>4. n = [u \in Users |-> n[u]]
  BY DEF NotifyWaiters
<1>5. n \in [Users -> Deciders]
  BY <1>3, <1>4
<1> QED BY <1>1, <1>2, <1>5

(* Nothing happens to a user, or his wait ends.                            *)
Quiet(u) ==
  \/ users'[u] = users[u]
  \/ /\ users[u].pc = "waiting" /\ users'[u] # Idle /\ users'[u].id = users[u].id
     /\ users'[u].pc = "done" /\ users'[u].reply # "failed"

(* After a change of the approvals whoever waits is told the truth.        *)
LEMMA TruthIsTold ==
  ASSUME NEW us \in [Users -> Deciders], NEW rs \in [Ids -> Records],
         records' = rs, users' = NotifyWaiters(us, rs), RecordsOK', 
         \A u \in Users : us[u] # Idle => KeptFor(us[u], ask'[us[u].id]),
         \A u \in Users : us[u].pc = "waiting" => rs[us[u].id].gen = ask'[us[u].id].gen
  PROVE  /\ UsersOK' /\ users' \in [Users -> Deciders]
         /\ \A u \in Users : us[u] = users[u] => Quiet(u)
         /\ \A u \in Users : us[u].pc # "waiting" => users'[u] = us[u]
         /\ \A u \in Users : us[u].pc = "waiting" =>
              \/ users'[u] = us[u]
              \/ /\ users'[u] # Idle /\ users'[u].id = us[u].id /\ users'[u].pc = "done"
                 /\ users'[u].reply # "failed"
<1> USE NotifiedIs
<1>1. users' \in [Users -> Deciders]
  OBVIOUS
<1>2. \A u \in Users : us[u] = users[u] => Quiet(u)
  BY DEF Quiet
<1>3. \A u \in Users : us[u].pc # "waiting" => users'[u] = us[u]
  OBVIOUS
<1>4. ASSUME NEW u \in Users, users'[u] # Idle
      PROVE  KeptFor(users'[u], ask'[users'[u].id])
             /\ (users'[u].pc = "waiting" => ~records'[users'[u].id].closed)
  <2>1. CASE users'[u] = us[u] /\ ~(us[u].pc = "waiting" /\ rs[us[u].id].closed)
    BY <1>4, <2>1
  <2>2. CASE ~(users'[u] = us[u] /\ ~(us[u].pc = "waiting" /\ rs[us[u].id].closed))
    <3> DEFINE w == us[u]
               a == ask'[us[u].id]
               r == rs[us[u].id]
    <3>1. /\ w \in Acting /\ w.pc = "waiting" /\ users'[u].id = w.id /\ users'[u].gen = w.gen
          /\ users'[u].decision = w.decision /\ users'[u].pc = "done"
          /\ users'[u].reply = "finalized" => r.state = Final(w.decision)
      BY <2>2
    <3>2. KeptFor(w, a) /\ r.gen = a.gen /\ w.id \in Ids /\ w.decision \in Decisions
      BY <3>1 DEF Acting, Idle
    <3>3. r.state \in Answered => r.state = Final(r.decision) /\ r.decision \in Decisions
                                  /\ a.taken \in {r.decision, "elsewhere"}
      BY <3>2 DEF RecordsOK, RecordOK
    <3>4. users'[u].reply = "finalized" => a.taken \in {w.decision, "elsewhere"}
      BY <3>1, <3>2, <3>3 DEF Final, Answered, Decisions
    <3> QED BY <3>1, <3>2, <3>4 DEF KeptFor
  <2> QED BY <2>1, <2>2
<1>5. UsersOK'
  BY <1>4 DEF UsersOK, UserOK
<1>6. \A u \in Users : us[u].pc = "waiting" =>
        \/ users'[u] = us[u]
        \/ /\ users'[u] # Idle /\ users'[u].id = us[u].id /\ users'[u].pc = "done"
           /\ users'[u].reply # "failed"
  OBVIOUS
<1> QED BY <1>1, <1>2, <1>3, <1>5, <1>6

----------------------------------------------------------------------------
(* The operation at the head of a tail.                                    *)

(* What a tail is made of.                                                 *)
LEMMA TailIs ==
  ASSUME TypeOK, NEW i \in Ids
  PROVE  /\ tails[i] \in Seq(Operations) /\ Len(tails[i]) \in Nat
         /\ DOMAIN tails[i] = 1 .. Len(tails[i])
         /\ tails[i] # <<>> =>
              /\ 1 \in DOMAIN tails[i] /\ Head(tails[i]) = tails[i][1] /\ Head(tails[i]) \in Operations
              /\ Tail(tails[i]) \in Seq(Operations)
              /\ DOMAIN Tail(tails[i]) = 1 .. Len(tails[i]) - 1
              /\ \A k \in DOMAIN Tail(tails[i]) :
                   k + 1 \in DOMAIN tails[i] /\ Tail(tails[i])[k] = tails[i][k + 1]
<1>1. tails[i] \in Seq(Operations)
  BY DEF TypeOK
<1> DEFINE t == tails[i]
<1> HIDE DEF t
<1>2. t \in Seq(Operations) => Len(t) \in Nat /\ DOMAIN t = 1 .. Len(t)
  OBVIOUS
<1>3. t \in Seq(Operations) /\ t # <<>> =>
        1 \in DOMAIN t /\ Head(t) = t[1] /\ Head(t) \in Operations /\ Tail(t) \in Seq(Operations)
  OBVIOUS
<1>4. t \in Seq(Operations) /\ t # <<>> =>
        DOMAIN Tail(t) = 1 .. Len(t) - 1
        /\ \A k \in DOMAIN Tail(t) : k + 1 \in DOMAIN t /\ Tail(t)[k] = t[k + 1]
  OBVIOUS
<1> QED BY <1>1, <1>2, <1>3, <1>4 DEF t

(* Who waits in a tail is there once, for that tail's request.             *)
LEMMA QueuedIs ==
  ASSUME TypeOK, TailsOK, NEW i \in Ids, NEW k \in DOMAIN tails[i], tails[i][k].user \in Users
  PROVE  LET u == tails[i][k].user IN
         /\ users[u] # Idle /\ users[u].id = i
         /\ users[u].pc \in {"queued", "sending"}
         /\ users[u].pc = "queued" \/ (k = 1 /\ sends[i].on)
         /\ \A n \in DOMAIN tails[i] : tails[i][n].user = u => n = k
BY DEF TailsOK, QueuedOK

(* When its head is done the tail is one shorter.                          *)
LEMMA TailPops ==
  ASSUME TypeOK, TailsOK, NEW i \in Ids, tails[i] # <<>>,
         tails' = [tails EXCEPT ![i] = Tail(@)],
         NEW s \in Sends, sends' = [sends EXCEPT ![i] = s],
         \A u \in Users : u # Head(tails[i]).user => Quiet(u)
  PROVE  TailsOK'
<1> SUFFICES ASSUME NEW j \in Ids, NEW k \in DOMAIN tails'[j]
             PROVE  (tails'[j][k].op = "respond" <=> tails'[j][k].user \in Users) /\ QueuedOK(j, k)'
  BY DEF TailsOK
<1> DEFINE v == Head(tails[i]).user
<1>1. v \in Users => users[v].id = i
  BY QueuedIs, TailIs
<1>2. CASE j # i
  <2>1. tails'[j] = tails[j] /\ sends'[j] = sends[j]
    BY <1>2 DEF TypeOK
  <2>2. tails[j][k].op = "respond" <=> tails[j][k].user \in Users
    BY <2>1 DEF TailsOK
  <2>3. ASSUME tails[j][k].user \in Users PROVE QueuedOK(j, k)'
    <3> DEFINE u == tails[j][k].user
    <3>1. users[u].id = j /\ users[u].pc \in {"queued", "sending"} /\ QueuedOK(j, k)
      <4>1. QueuedOK(j, k)
        BY <2>1 DEF TailsOK
      <4> QED BY <2>1, <2>3, <4>1, QueuedIs
    <3>2. users'[u] = users[u]
      BY <1>1, <1>2, <2>3, <3>1 DEF Quiet
    <3> QED BY <2>1, <2>3, <3>1, <3>2 DEF QueuedOK
  <2>4. ASSUME tails[j][k].user \notin Users PROVE QueuedOK(j, k)'
    BY <2>1, <2>4 DEF QueuedOK
  <2> QED BY <2>1, <2>2, <2>3, <2>4
<1>3. CASE j = i
  <2> DEFINE t == tails[i]
  <2>1. tails'[i] = Tail(t)
    BY DEF TypeOK
  <2>2. /\ DOMAIN tails'[i] = 1 .. Len(t) - 1 /\ Len(t) \in Nat /\ DOMAIN t = 1 .. Len(t)
        /\ \A n \in DOMAIN tails'[i] : n + 1 \in DOMAIN t /\ tails'[i][n] = t[n + 1]
    BY <2>1, TailIs
  <2>3. k + 1 \in DOMAIN t /\ tails'[i][k] = t[k + 1] /\ k \in Nat /\ k + 1 # 1 /\ k \in DOMAIN tails'[i]
    BY <1>3, <2>2
  <2>4. t[k + 1].op = "respond" <=> t[k + 1].user \in Users
    BY <2>3 DEF TailsOK
  <2>5. ASSUME t[k + 1].user \in Users PROVE QueuedOK(i, k)'
    <3> DEFINE u == t[k + 1].user
    <3>1. /\ users[u] # Idle /\ users[u].id = i /\ users[u].pc = "queued"
          /\ \A n \in DOMAIN t : t[n].user = u => n = k + 1
      BY <2>3, <2>5, QueuedIs
    <3>2. u # v
      BY <2>3, <3>1, TailIs
    <3>3. users'[u] = users[u]
      BY <2>5, <3>1, <3>2 DEF Quiet
    <3>4. ASSUME NEW n \in DOMAIN tails'[i], tails'[i][n].user = u PROVE n = k
      BY <2>2, <2>3, <3>1, <3>4
    <3> HIDE DEF t
    <3> QED BY <2>3, <3>1, <3>3, <3>4 DEF QueuedOK
  <2>6. ASSUME t[k + 1].user \notin Users PROVE QueuedOK(i, k)'
    BY <2>3, <2>6 DEF QueuedOK
  <2> QED BY <1>3, <2>3, <2>4, <2>5, <2>6
<1> QED BY <1>2, <1>3

(* While its response is being sent an operation stays where it is.        *)
LEMMA TailStays ==
  ASSUME TypeOK, TailsOK, NEW i \in Ids, tails[i] # <<>>, tails' = tails,
         NEW s \in Sends, sends' = [sends EXCEPT ![i] = s], s.on,
         \A u \in Users : u # Head(tails[i]).user => Quiet(u),
         \A u \in Users : u = Head(tails[i]).user =>
           users'[u] # Idle /\ users'[u].id = i /\ users'[u].pc = "sending"
  PROVE  TailsOK'
<1> SUFFICES ASSUME NEW j \in Ids, NEW k \in DOMAIN tails[j], tails[j][k].user \in Users
             PROVE  QueuedOK(j, k)'
  BY DEF TailsOK, QueuedOK
<1> DEFINE v == Head(tails[i]).user
           u == tails[j][k].user
<1>1. v \in Users => users[v].id = i /\ \A n \in DOMAIN tails[i] : tails[i][n].user = v => n = 1
  BY QueuedIs, TailIs
<1>2. /\ users[u].id = j /\ users[u].pc \in {"queued", "sending"} /\ QueuedOK(j, k)
      /\ (users[u].pc = "queued" \/ (k = 1 /\ sends[j].on))
      /\ \A n \in DOMAIN tails[j] : tails[j][n].user = u => n = k
  BY QueuedIs DEF TailsOK
<1>3. sends[j].on => sends'[j].on
  BY DEF TypeOK
<1>4. CASE u # v
  <2>1. users'[u] = users[u]
    BY <1>2, <1>4 DEF Quiet
  <2> QED BY <1>2, <1>3, <2>1 DEF QueuedOK
<1>5. CASE u = v
  <2>1. j = i /\ k = 1
    BY <1>1, <1>2, <1>5
  <2>2. sends'[i].on
    BY DEF TypeOK
  <2> QED BY <1>2, <1>5, <2>1, <2>2 DEF QueuedOK
<1> QED BY <1>4, <1>5

(* The turn of an operation, or of a send: what it makes of request i and  *)
(* of the user v whose operation stands at the head of the tail.           *)
TurnMakes(i, q, a, w, s, b, us) ==
  /\ records' = [records EXCEPT ![i] = q] /\ users' = NotifyWaiters(us, records')
  /\ sends' = [sends EXCEPT ![i] = s] /\ broker' = [broker EXCEPT ![i] = b]
  /\ wire' = [wire EXCEPT ![i] = w] /\ ask' = [ask EXCEPT ![i] = a]
  /\ \/ s.on /\ tails' = tails
     \/ ~s.on /\ tails' = [tails EXCEPT ![i] = Tail(@)]
  /\ UNCHANGED <<link, gen, events, closed>>
TurnIsTrue(i, q, a, w, s, b) ==
  /\ b # "none" => broker[i] # "none"
  /\ ~Connected => b = "none" /\ w = "none"
  /\ a.gen = ask[i].gen /\ a.taken = ask[i].taken /\ a.told = ask[i].told
  /\ q.gen = records[i].gen
  /\ AskOK(a, w) /\ RecordOK(q, a, w, s.on)
  /\ s.on => SendOK(s, q, a, b, tails[i])
  /\ b = "pending" => ~s.on /\ a.gen = gen /\ a.frames = 0
  /\ b = "responding" => s.on
TurnTells(i, q, a, s, us, v) ==
  /\ a.from \in Users => a.from = v \/ a.from = ask[i].from
  /\ \A u \in Users : u # v => us[u] = users[u]
  /\ v \in Users =>
       /\ us[v] \in Acting /\ us[v].id = i /\ us[v].gen = users[v].gen
       /\ \/ s.on /\ us[v].pc = "sending"
          \/ ~s.on /\ us[v].pc = "waiting" /\ q.gen = a.gen
          \/ ~s.on /\ us[v].pc = "done" /\ us[v].reply = "incomplete"
          \/ ~s.on /\ us[v].pc = "done" /\ us[v].reply = "failed" /\ a.from # v

(* A turn of request i that is true of it, and true to its user, keeps the *)
(* invariant.                                                              *)
LEMMA TurnKeeps ==
  ASSUME IInv, NEW i \in Ids, tails[i] # <<>>,
         NEW q \in Records, NEW a \in Asks, NEW w \in Decisions \cup {"none"},
         NEW s \in Sends, NEW b \in {"none", "pending", "responding"},
         NEW us \in [Users -> Deciders], NEW v, v = Head(tails[i]).user,
         TurnMakes(i, q, a, w, s, b, us), TurnIsTrue(i, q, a, w, s, b),
         TurnTells(i, q, a, s, us, v)
  PROVE  IInv'
<1> USE DEF TurnMakes, TurnIsTrue, TurnTells
<1> USE DEF IInv
<1>0. /\ records' \in [Ids -> Records] /\ records'[i] = q /\ ask'[i] = a /\ wire'[i] = w
      /\ sends'[i] = s /\ broker'[i] = b
      /\ \A j \in Ids \ {i} : records'[j] = records[j] /\ ask'[j] = ask[j] /\ wire'[j] = wire[j]
                             /\ sends'[j] = sends[j] /\ broker'[j] = broker[j]
  BY DEF TypeOK
<1>1. AsksOK'
  <2>1. \A j \in Ids : AskOK(ask[j], wire[j])
    BY DEF AsksOK
  <2> QED BY <1>0, <2>1 DEF AsksOK, AskOK
<1>2. RecordsOK'
  <2>1. \A j \in Ids : RecordOK(records[j], ask[j], wire[j], sends[j].on)
    BY DEF RecordsOK
  <2>2. ASSUME NEW j \in Ids \ {i} PROVE RecordOK(records'[j], ask'[j], wire'[j], sends'[j].on)
    BY <1>0, <2>1
  <2>3. \A j \in Ids : RecordOK(records'[j], ask'[j], wire'[j], sends'[j].on)
    BY <1>0, <2>2
  <2> QED BY <2>3 DEF RecordsOK, RecordOK
<1>3. SendsOK'
  <2>1. ASSUME NEW j \in Ids \ {i} PROVE SendOK(sends'[j], records'[j], ask'[j], broker'[j], tails'[j])
    <3>1. tails'[j] = tails[j]
      BY DEF TypeOK
    <3> QED BY <1>0, <3>1 DEF SendsOK
  <2>2. SendOK(s, q, a, b, tails'[i])
    BY DEF SendOK
  <2>3. \A j \in Ids : SendOK(sends'[j], records'[j], ask'[j], broker'[j], tails'[j])
    BY <1>0, <2>1, <2>2
  <2> QED BY <2>3 DEF SendsOK, SendOK
<1>4. LinkOK'
  BY <1>0 DEF LinkOK, Connected
<1>5. v \in Users => /\ users[v] # Idle /\ users[v].id = i /\ users[v].pc \in {"queued", "sending"}
                     /\ us[v] # Idle
  <2>1. v \in Users => users[v] # Idle /\ users[v].id = i /\ users[v].pc \in {"queued", "sending"}
    BY QueuedIs, TailIs
  <2>2. v \in Users => us[v] \in Acting
    OBVIOUS
  <2>3. \A x \in Acting : x # Idle
    BY DEF Acting, Idle
  <2> QED BY <2>1, <2>2, <2>3
<1>6. /\ UsersOK' /\ users' \in [Users -> Deciders]
      /\ \A u \in Users : us[u] = users[u] => Quiet(u)
      /\ \A u \in Users : us[u].pc # "waiting" => users'[u] = us[u]
      /\ \A u \in Users : us[u].pc = "waiting" =>
           \/ users'[u] = us[u]
           \/ /\ users'[u] # Idle /\ users'[u].id = us[u].id /\ users'[u].pc = "done"
              /\ users'[u].reply # "failed"
  <2>1. ASSUME NEW u \in Users, us[u] # Idle PROVE KeptFor(us[u], ask'[us[u].id])
    <3>1. CASE u # v
      <4>1. KeptFor(us[u], ask[us[u].id]) /\ us[u].id \in Ids
        BY <2>1, <3>1, DeciderIs DEF UsersOK, UserOK, Acting
      <4> QED BY <1>0, <4>1 DEF KeptFor
    <3>2. CASE u = v
      <4>1. users[v].gen <= ask[i].gen
        <5>1. UserOK(users[v]) /\ users[v] # Idle /\ users[v].id = i
          BY <1>5, <3>2 DEF UsersOK
        <5> QED BY <5>1 DEF UserOK, KeptFor
      <4>2. /\ us[v].id = i /\ ask'[i] = a /\ us[v].gen <= a.gen
            /\ us[v].pc # "done" \/ us[v].reply \in {"incomplete", "failed"}
        BY <1>0, <3>2, <4>1
      <4> QED BY <3>2, <4>2 DEF KeptFor
    <3> QED BY <3>1, <3>2
  <2>2. ASSUME NEW u \in Users, us[u].pc = "waiting"
        PROVE  records'[us[u].id].gen = ask'[us[u].id].gen
    <3>1. CASE u # v
      <4>1. us[u] = users[u] /\ us[u].id \in Ids /\ ~records[us[u].id].closed
        BY <2>2, <3>1, DeciderIs DEF UsersOK, UserOK, Acting, TypeOK
      <4> DEFINE j == us[u].id
      <4>2. records[j].gen = gen /\ records[j].gen <= ask[j].gen /\ ask[j].gen <= gen
            /\ gen \in Int /\ ask[j].gen \in Int
        BY <4>1 DEF RecordsOK, RecordOK, AsksOK, AskOK, TypeOK, Asks
      <4>3. records[j].gen = ask[j].gen
        BY <4>2
      <4>4. CASE j = i
        BY <1>0, <4>3, <4>4
      <4>5. CASE j # i
        BY <1>0, <4>1, <4>3, <4>5
      <4> QED BY <4>4, <4>5
    <3>2. CASE u = v
      <4>1. us[v].id = i /\ q.gen = a.gen
        BY <2>2, <3>2
      <4> QED BY <1>0, <3>2, <4>1
    <3> QED BY <3>1, <3>2
  <2>3. PICK rs \in [Ids -> Records] : records' = rs
    BY <1>0
  <2>4. users' = NotifyWaiters(us, rs)
    BY <2>3
  <2>5. \A u \in Users : us[u].pc = "waiting" => rs[us[u].id].gen = ask'[us[u].id].gen
    BY <2>2, <2>3
  <2> QED BY ONLY <1>2, <2>1, <2>3, <2>4, <2>5, TruthIsTold
<1>7. \A u \in Users : u # v => Quiet(u)
  BY <1>6
<1>8. TailsOK'
  <2>1. CASE s.on
    <3>1. v \in Users => users'[v] # Idle /\ users'[v].id = i /\ users'[v].pc = "sending"
      <4>1. v \in Users => us[v].pc = "sending" /\ us[v].id = i
        BY <2>1
      <4> QED BY <1>5, <1>6, <4>1
    <3> QED BY <1>7, <2>1, <3>1, TailStays
  <2>2. CASE ~s.on
    BY <1>7, <2>2, TailPops
  <2> QED BY <2>1, <2>2
<1>9. SendersOK'
  <2> SUFFICES ASSUME NEW j \in Ids, sends'[j].on, sends'[j].user \in Users
               PROVE  /\ users'[sends'[j].user] # Idle /\ users'[sends'[j].user].id = j
                      /\ users'[sends'[j].user].pc = "sending"
    BY DEF SendersOK
  <2>1. CASE j = i
    <3>1. s.on /\ s.user = v /\ v \in Users
      BY <1>0, <2>1 DEF SendOK
    <3>2. us[v].pc = "sending" /\ us[v].id = i /\ us[v] # Idle
      BY <1>5, <3>1
    <3>3. users'[v] = us[v]
      BY <1>6, <3>1, <3>2
    <3> QED BY <1>0, <2>1, <3>1, <3>2, <3>3
  <2>2. CASE j # i
    <3> DEFINE u == sends[j].user
    <3>1. sends[j].on /\ u \in Users /\ sends'[j] = sends[j]
      BY <1>0, <2>2
    <3>2. users[u] # Idle /\ users[u].id = j /\ users[u].pc = "sending"
      BY <3>1 DEF SendersOK
    <3>3. u # v
      BY <1>5, <2>2, <3>1, <3>2
    <3>4. users'[u] = users[u]
      BY <1>7, <3>1, <3>2, <3>3 DEF Quiet
    <3> QED BY <3>1, <3>2, <3>4
  <2> QED BY <2>1, <2>2
<1>10. FromOK'
  <2> SUFFICES ASSUME NEW j \in Ids, ask'[j].from \in Users
               PROVE  LET y == users'[ask'[j].from] IN
                        /\ y # Idle /\ y.id = j /\ y.pc \in {"sending", "waiting", "done"}
                        /\ (y.pc = "done" => y.reply # "failed")
    BY DEF FromOK
  <2> DEFINE u == ask'[j].from
  <2>1. CASE u = v
    <3>1. j = i
      BY <1>0, <1>5, <2>1 DEF FromOK
    <3>2. ~(us[v].pc = "done" /\ us[v].reply = "failed")
      BY <1>0, <2>1, <3>1
    <3>3. users'[v] # Idle /\ users'[v].id = i /\ users'[v].pc \in {"sending", "waiting", "done"}
          /\ (users'[v].pc = "done" => users'[v].reply # "failed")
      <4>1. /\ v \in Users /\ us[v] # Idle /\ us[v].id = i
            /\ us[v].pc \in {"sending", "waiting", "done"}
            /\ (us[v].pc = "done" => us[v].reply # "failed")
        BY <1>5, <2>1, <3>2
      <4> QED BY <1>6, <4>1
    <3> QED BY <2>1, <3>1, <3>3
  <2>2. CASE u # v
    <3>1. ask[j].from = u
      BY <1>0, <2>2
    <3>2. users[u] # Idle /\ users[u].id = j /\ users[u].pc \in {"sending", "waiting", "done"}
          /\ (users[u].pc = "done" => users[u].reply # "failed")
      BY <3>1 DEF FromOK
    <3> QED BY <1>7, <2>2, <3>1, <3>2 DEF Quiet
  <2> QED BY <2>1, <2>2
<1>11. ToldOK'
  <2>1. \A j \in Ids : Told(j) => Told(j)'
    BY <1>0 DEF Told
  <2>2. \A k \in DOMAIN events : events[k].op = "resolved" => Told(events[k].id)'
    <3> SUFFICES ASSUME NEW k \in DOMAIN events, events[k].op = "resolved"
                 PROVE  Told(events[k].id)'
      OBVIOUS
    <3>1. events[k] \in Notifications
      BY DEF TypeOK
    <3>2. events[k].id \in Ids
      BY <3>1 DEF Notifications
    <3>3. Told(events[k].id)
      BY DEF ToldOK
    <3> QED BY <1>0, <3>2, <3>3 DEF Told
  <2>3. ASSUME NEW j \in Ids, NEW k \in DOMAIN tails'[j], tails'[j][k].op = "resolved"
        PROVE  Told(j)'
    <3>1. CASE tails'[j] = tails[j]
      BY <2>1, <2>3, <3>1 DEF ToldOK
    <3>2. CASE tails'[j] # tails[j]
      <4>1. tails'[j] = Tail(tails[j]) /\ j = i
        BY <3>2 DEF TypeOK
      <4>2. k + 1 \in DOMAIN tails[j] /\ tails[j][k + 1].op = "resolved"
        BY <2>3, <4>1, TailIs
      <4> QED BY <2>1, <4>2 DEF ToldOK
    <3> QED BY <3>1, <3>2
  <2> QED BY <2>2, <2>3 DEF ToldOK, Told
<1>12. TypeOK'
  <2>1. tails' \in [Ids -> Seq(Operations)]
    BY TailIs DEF TypeOK
  <2>2. sends' \in [Ids -> Sends] /\ broker' \in [Ids -> {"none", "pending", "responding"}]
        /\ wire' \in [Ids -> Decisions \cup {"none"}] /\ ask' \in [Ids -> Asks]
    BY DEF TypeOK
  <2>3. Tracked' = Tracked
    BY <1>0 DEF Tracked
  <2>4. Held' \subseteq Held
    BY <1>0 DEF Held
  <2>5. Cardinality(Held') <= Cardinality(Held) /\ Cardinality(Held) \in Nat
        /\ Cardinality(Held') \in Nat
    BY <2>4, ApprovalAssumption, FS_Subset, FS_CardinalityType DEF Held
  <2>6. Cardinality(Tracked') <= Capacity /\ Cardinality(Held') <= Capacity
    BY <2>3, <2>5, ApprovalAssumption DEF TypeOK
  <2> QED BY <1>0, <1>6, <2>1, <2>2, <2>6 DEF TypeOK
<1> QED BY <1>1, <1>2, <1>3, <1>4, <1>6, <1>8, <1>9, <1>10, <1>11, <1>12

(* Nobody is told of the end of an approval that is open.                  *)
LEMMA NobodyNotified ==
  ASSUME NEW us \in [Users -> Deciders], NEW rs \in [Ids -> Records],
         \A u \in Users : us[u].pc = "waiting" => ~rs[us[u].id].closed
  PROVE  NotifyWaiters(us, rs) = us
<1>1. \A u \in Users : NotifyWaiters(us, rs)[u] = us[u]
  BY NotifiedIs
<1>2. NotifyWaiters(us, rs) \in [Users -> Deciders]
  BY NotifiedIs
<1> QED BY <1>1, <1>2

(* The user whose operation stands at the head, before a send begins.      *)
LEMMA HeadIs ==
  ASSUME IInv, NEW i \in Ids, tails[i] # <<>>, ~sends[i].on
  PROVE  LET v == Head(tails[i]).user IN
         /\ v \in Users \cup {"none"} /\ (v \in Users <=> Head(tails[i]).op = "respond")
         /\ v \in Users => users[v] \in Acting /\ users[v].id = i /\ users[v].pc = "queued"
                           /\ ask[i].from # v
<1> USE DEF IInv
<1>1. Head(tails[i]).user \in Users \cup {"none"}
  BY TailIs DEF Operations
<1>2. Head(tails[i]).user \in Users <=> Head(tails[i]).op = "respond"
  BY TailIs DEF TailsOK
<1>3. ASSUME NEW v \in Users, v = Head(tails[i]).user
      PROVE  users[v] \in Acting /\ users[v].id = i /\ users[v].pc = "queued"
  BY <1>3, TailIs, QueuedIs, DeciderIs DEF TypeOK
<1>4. ASSUME NEW v \in Users, v = Head(tails[i]).user PROVE ask[i].from # v
  BY <1>3, <1>4 DEF FromOK
<1> QED BY <1>1, <1>2, <1>3, <1>4

(* What the invariant says of one request, whose values are typed.         *)
LEMMA RequestIs ==
  ASSUME IInv, NEW i \in Ids
  PROVE  /\ records[i] \in Records /\ ask[i] \in Asks /\ wire[i] \in Decisions \cup {"none"}
         /\ sends[i] \in Sends /\ broker[i] \in {"none", "pending", "responding"}
         /\ AskOK(ask[i], wire[i]) /\ RecordOK(records[i], ask[i], wire[i], sends[i].on)
         /\ SendOK(sends[i], records[i], ask[i], broker[i], tails[i])
         /\ (~Connected => broker[i] = "none" /\ wire[i] = "none")
         /\ gen \in 1 .. MaxGen /\ gen \in Nat /\ records[i].gen \in Nat /\ ask[i].gen \in Nat
         /\ ask[i].frames \in Nat
<1>1. /\ records[i] \in Records /\ ask[i] \in Asks /\ wire[i] \in Decisions \cup {"none"}
      /\ sends[i] \in Sends /\ broker[i] \in {"none", "pending", "responding"}
      /\ gen \in 1 .. MaxGen
  BY DEF IInv, TypeOK
<1>2. gen \in Nat /\ records[i].gen \in Nat /\ ask[i].gen \in Nat /\ ask[i].frames \in Nat
  BY <1>1, ApprovalAssumption DEF Records, Asks
<1> QED BY <1>1, <1>2 DEF IInv, AsksOK, RecordsOK, SendsOK, LinkOK

(* An operation runs without sending anything, and is done.                *)
LEMMA HeadDone ==
  ASSUME IInv, NEW i \in Ids, tails[i] # <<>>, ~sends[i].on,
         NEW q \in Records, NEW us \in [Users -> Deciders], NEW v, v = Head(tails[i]).user,
         records' = [records EXCEPT ![i] = q], users' = NotifyWaiters(us, records'),
         tails' = [tails EXCEPT ![i] = Tail(@)],
         UNCHANGED <<sends, broker, wire, ask, link, gen, events, closed>>,
         q.gen = records[i].gen, RecordOK(q, ask[i], wire[i], FALSE),
         \/ v \notin Users /\ us = users
         \/ v \in Users /\ us = [users EXCEPT ![v] = Replied(@, "failed")]
  PROVE  IInv'
<1>1. sends[i].on = FALSE
  BY RequestIs, SendIs
<1>2. /\ sends' = [sends EXCEPT ![i] = sends[i]] /\ broker' = [broker EXCEPT ![i] = broker[i]]
      /\ wire' = [wire EXCEPT ![i] = wire[i]] /\ ask' = [ask EXCEPT ![i] = ask[i]]
  BY DEF IInv, TypeOK
<1>3. \A u \in Users : u # v => us[u] = users[u]
  BY DEF IInv, TypeOK
<1>4. v \in Users => /\ us[v] \in Acting /\ us[v].id = i /\ us[v].gen = users[v].gen
                     /\ us[v].pc = "done" /\ us[v].reply = "failed" /\ ask[i].from # v
  <2> SUFFICES ASSUME v \in Users
               PROVE  /\ us[v] \in Acting /\ us[v].id = i /\ us[v].gen = users[v].gen
                      /\ us[v].pc = "done" /\ us[v].reply = "failed" /\ ask[i].from # v
    OBVIOUS
  <2>1. us[v] = Replied(users[v], "failed")
    BY DEF IInv, TypeOK
  <2>2. users[v] \in Acting /\ users[v].id = i /\ ask[i].from # v
    BY HeadIs
  <2> QED BY <2>1, <2>2, RepliedIs
<1>5. /\ broker[i] = "pending" => ask[i].gen = gen /\ ask[i].frames = 0
      /\ broker[i] # "responding"
  BY RequestIs DEF SendOK
<1>6. AskOK(ask[i], wire[i]) /\ (~Connected => broker[i] = "none" /\ wire[i] = "none")
      /\ ask[i] \in Asks /\ wire[i] \in Decisions \cup {"none"} /\ sends[i] \in Sends
      /\ broker[i] \in {"none", "pending", "responding"}
  BY RequestIs
<1>7. TurnMakes(i, q, ask[i], wire[i], sends[i], broker[i], us)
  BY <1>1, <1>2 DEF TurnMakes
<1>8. TurnIsTrue(i, q, ask[i], wire[i], sends[i], broker[i])
  BY <1>1, <1>5, <1>6 DEF TurnIsTrue
<1>9. TurnTells(i, q, ask[i], sends[i], us, v)
  BY <1>1, <1>3, <1>4 DEF TurnTells
<1>10. TurnMakes(i, q, ask[i], wire[i], sends[i], broker[i], us)
       /\ TurnIsTrue(i, q, ask[i], wire[i], sends[i], broker[i])
       /\ TurnTells(i, q, ask[i], sends[i], us, v)
       /\ IInv /\ tails[i] # <<>> /\ v = Head(tails[i]).user
  BY <1>7, <1>8, <1>9
<1> QED
  BY ONLY <1>6, <1>10, TurnKeeps, q \in Records, us \in [Users -> Deciders], i \in Ids

----------------------------------------------------------------------------
(* How a response begins and how its sending ends.                         *)

(* Before a response is prepared the ask is unanswered: what can expire or *)
(* be decided was never sent.                                              *)
LEMMA UnsentIs ==
  ASSUME IInv, NEW i \in Ids, ~sends[i].on,
         Expirable(records[i]) \/ records[i].state = "pending"
  PROVE  /\ ~records[i].closed /\ records[i].gen = gen /\ ask[i].gen = gen
         /\ ask[i].frames = 0 /\ Expirable(records[i])
<1> DEFINE r == records[i]
           a == ask[i]
<1>1. RecordOK(r, a, wire[i], FALSE) /\ AskOK(a, wire[i])
      /\ r.gen \in Nat /\ a.gen \in Nat /\ gen \in Nat /\ a.frames \in Nat
  BY RequestIs, SendIs
<1> HIDE DEF r, a
<1>2. Expirable(r) \/ r.state = "pending"
  BY DEF r
<1>3. ~r.closed /\ (r.state = "pending" \/ (r.state = "expired" /\ r.outcome = "not_sent"))
  BY <1>1, <1>2 DEF Expirable, RecordOK
<1>4. r.gen = gen /\ a.gen = gen
  BY <1>1, <1>3 DEF RecordOK, AskOK
<1>5. r.outcome \in {"none", "not_sent"}
  BY <1>1, <1>3 DEF RecordOK
<1>6. a.frames # 1
  BY <1>1, <1>3, <1>4, <1>5 DEF RecordOK
<1>7. a.frames = 0
  BY <1>1, <1>6 DEF AskOK
<1> QED BY <1>3, <1>4, <1>7 DEF r, a, Expirable

(* A response in preparation says nothing untrue of an unanswered ask.     *)
LEMMA PreparedKeeps ==
  ASSUME NEW r \in Records, NEW a, NEW w, NEW s, RecordOK(r, a, w, s), ~r.closed,
         a.frames # 1
  PROVE  \A z : /\ \A d \in Decisions : RecordOK(Responding(r, d), a, w, z)
               /\ RecordOK(Declining(r), a, w, z)
<1>1. ASSUME NEW z, NEW d \in Decisions PROVE RecordOK(Responding(r, d), a, w, z)
  BY RespondingIs DEF RecordOK, Answered
<1>2. ASSUME NEW z PROVE RecordOK(Declining(r), a, w, z)
  <2>1. "deny" \in Decisions
    BY DEF Decisions
  <2> QED BY <2>1, RespondingIs DEF RecordOK, Answered
<1> QED BY <1>1, <1>2

(* What the end of a send makes of an approval.                            *)
LEMMA EndedKeeps ==
  ASSUME NEW r \in Records, NEW a \in Asks, NEW w, AskOK(a, w), RecordOK(r, a, w, TRUE),
         r.outcome = "sending", NEW out \in {"sent", "not_sent", "unknown"},
         out = "not_sent" => a.frames = 0
  PROVE  /\ RespondEnded(r, out) \in Records /\ RecordOK(RespondEnded(r, out), a, w, FALSE)
         /\ RespondEnded(r, out).gen = r.gen /\ (r.closed => RespondEnded(r, out) = r)
         /\ ExpiryEnded(r, out) \in Records /\ RecordOK(ExpiryEnded(r, out), a, w, FALSE)
         /\ ExpiryEnded(r, out).gen = r.gen
<1> DEFINE ended == [r EXCEPT !.outcome = out]
           back == [r EXCEPT !.kind = "none", !.decision = "none", !.outcome = "none"]
           again == [back EXCEPT !.state = "pending", !.timer = TRUE]
           p == [ended EXCEPT !.closed = TRUE, !.timer = FALSE]
<1>1. ended \in Records /\ ended.gen = r.gen /\ ended.kind = r.kind /\ ended.state = r.state
      /\ ended.decision = r.decision /\ ended.outcome = out /\ ended.resolved = r.resolved
      /\ ended.closed = r.closed
  BY DEF Records
<1>2. back \in Records /\ back.gen = r.gen /\ back.kind = "none" /\ back.state = r.state
      /\ back.decision = "none" /\ back.outcome = "none" /\ back.resolved = r.resolved
      /\ back.closed = r.closed
  BY DEF Records
<1>3. again \in Records /\ again.gen = r.gen /\ again.kind = "none" /\ again.state = "pending"
      /\ again.decision = "none" /\ again.outcome = "none" /\ again.resolved = r.resolved
      /\ again.closed = r.closed
  <2> HIDE DEF back
  <2> QED BY <1>2 DEF Records
<1>4. p \in Records /\ p.gen = r.gen /\ p.kind = r.kind /\ p.state = r.state /\ p.closed
      /\ p.decision = r.decision /\ p.outcome = out /\ p.resolved = r.resolved
  <2> HIDE DEF ended
  <2> QED BY <1>1 DEF Records
<1>5. RespondEnded(r, out) =
        IF r.closed THEN r ELSE IF out # "not_sent" THEN Settle(ended)
        ELSE IF r.resolved \/ r.item THEN Supersede(back) ELSE again
  BY DEF RespondEnded
<1>6. ExpiryEnded(r, out) =
        IF r.closed THEN r ELSE IF out # "not_sent" THEN Settle(ended)
        ELSE IF r.resolved \/ r.item THEN p ELSE ended
  BY DEF ExpiryEnded, MarkClosed
<1> HIDE DEF ended, back, again, p
<1>7. CASE r.closed
  <2>1. RecordOK(r, a, w, FALSE)
    BY <1>7 DEF RecordOK
  <2> QED BY <1>5, <1>6, <1>7, <2>1
<1>8. r.state # "pending"
  BY DEF RecordOK
<1>9. CASE ~r.closed /\ out # "not_sent"
  <2>1. RecordOK(ended, a, w, FALSE)
    BY <1>1, <1>8, <1>9 DEF RecordOK
  <2>2. RecordOK(Settle(ended), a, w, FALSE)
    BY <1>1, <2>1, ClosingKeeps
  <2>3. Settle(ended) \in Records /\ Settle(ended).gen = r.gen
    BY <1>1, SettleIs
  <2> QED BY <1>5, <1>6, <1>9, <2>2, <2>3
<1>10. CASE ~r.closed /\ out = "not_sent"
  <2>1. RecordOK(ended, a, w, FALSE) /\ RecordOK(p, a, w, FALSE)
    BY <1>1, <1>4, <1>8, <1>10 DEF RecordOK, Answered
  <2>2. RecordOK(again, a, w, FALSE)
    BY <1>3, <1>10 DEF RecordOK, Answered
  <2>3. RecordOK(back, a, w, FALSE)
    BY <1>2, <1>8, <1>10 DEF RecordOK, Answered
  <2>4. RecordOK(Supersede(back), a, w, FALSE)
    BY <1>2, <2>3, ClosingKeeps
  <2>5. Supersede(back) \in Records /\ Supersede(back).gen = r.gen
    BY <1>2, SupersedeIs
  <2> QED BY <1>1, <1>3, <1>4, <1>5, <1>6, <1>10, <2>1, <2>2, <2>4, <2>5
<1> QED BY <1>7, <1>9, <1>10

----------------------------------------------------------------------------
(* The operations.                                                         *)

(* The head of the tail starts to send a response, for its user or for     *)
(* nobody.                                                                 *)
LEMMA SendStarts ==
  ASSUME IInv, NEW i \in Ids, tails[i] # <<>>, ~sends[i].on,
         NEW v, v = Head(tails[i]).user, NEW kind \in {"user", "expiry"}, NEW d \in Decisions,
         kind = "user" => v \in Users,
         NEW q \in Records, q.gen = records[i].gen, ~q.closed, q.outcome = "sending",
         q.decision = d, RecordOK(q, ask[i], wire[i], TRUE),
         link = "up", records[i].gen = gen, broker[i] = "pending",
         Sending(i, kind, d, v),
         NEW us \in [Users -> Deciders],
         \/ v \notin Users /\ us = users
         \/ v \in Users /\ us = [users EXCEPT ![v].pc = "sending"],
         SetRecord(us, i, q),
         UNCHANGED <<tails, link, gen, events, closed, codex>>
  PROVE  IInv'
<1> DEFINE s == [on |-> TRUE, kind |-> kind, decision |-> d, user |-> v, gen |-> gen,
                 written |-> FALSE]
<1>1. /\ ask[i] \in Asks /\ wire[i] \in Decisions \cup {"none"} /\ AskOK(ask[i], wire[i])
      /\ gen \in 1 .. MaxGen /\ ask[i].gen = gen /\ ask[i].frames = 0
  BY RequestIs DEF SendOK
<1>2. s \in Responses /\ s \in Sends /\ s.on
  BY <1>1, HeadIs DEF Responses, Sends
<1>3. /\ records' = [records EXCEPT ![i] = q] /\ users' = NotifyWaiters(us, records')
      /\ sends' = [sends EXCEPT ![i] = s] /\ broker' = [broker EXCEPT ![i] = "responding"]
      /\ wire' = [wire EXCEPT ![i] = wire[i]] /\ ask' = [ask EXCEPT ![i] = ask[i]]
  BY DEF SetRecord, Put, Sending, codex, IInv, TypeOK
<1>4. SendOK(s, q, ask[i], "responding", tails[i])
  BY <1>1 DEF SendOK
<1>5. \A u \in Users : u # v => us[u] = users[u]
  BY DEF IInv, TypeOK
<1>6. v \in Users => us[v] \in Acting /\ us[v].id = i /\ us[v].gen = users[v].gen
                     /\ us[v].pc = "sending"
  <2> SUFFICES ASSUME v \in Users
               PROVE  us[v] \in Acting /\ us[v].id = i /\ us[v].gen = users[v].gen
                      /\ us[v].pc = "sending"
    OBVIOUS
  <2>1. us[v] = [users[v] EXCEPT !.pc = "sending"]
    BY DEF IInv, TypeOK
  <2>2. users[v] \in Acting /\ users[v].id = i
    BY HeadIs
  <2> QED BY <2>1, <2>2 DEF Acting
<1> HIDE DEF s
<1>7. TurnMakes(i, q, ask[i], wire[i], s, "responding", us)
  BY <1>2, <1>3 DEF TurnMakes
<1>8. TurnIsTrue(i, q, ask[i], wire[i], s, "responding")
  BY <1>1, <1>2, <1>4 DEF TurnIsTrue, Connected
<1>9. TurnTells(i, q, ask[i], s, us, v)
  BY <1>2, <1>5, <1>6 DEF TurnTells
<1>10. "responding" \in {"none", "pending", "responding"}
  OBVIOUS
<1> QED BY <1>1, <1>2, <1>7, <1>8, <1>9, <1>10, TurnKeeps

(* An expired request is declined, or cannot be.                           *)
LEMMA ExpireRecordPreserves ==
  ASSUME IInv, NEW i \in Ids, tails[i] # <<>>, ~sends[i].on,
         NEW v, v = Head(tails[i]).user, ExpireRecord(i, v),
         UNCHANGED <<link, gen, events, closed, codex>>
  PROVE  IInv'
<1> DEFINE r == Declining(records[i])
           told == IF v = "none" THEN users ELSE [users EXCEPT ![v] = Replied(@, "failed")]
           started == IF v = "none" THEN users ELSE [users EXCEPT ![v].pc = "sending"]
           q == ExpiryEnded(r, Refusal(r))
<1>1. /\ records[i] \in Records /\ ask[i] \in Asks /\ wire[i] \in Decisions \cup {"none"}
      /\ AskOK(ask[i], wire[i]) /\ RecordOK(records[i], ask[i], wire[i], FALSE)
      /\ users \in [Users -> Deciders] /\ records \in [Ids -> Records] /\ gen \in Nat
  BY RequestIs, SendIs DEF IInv, TypeOK
<1>2. v \in Users \cup {"none"} /\ "none" \notin Users
      /\ (v \in Users => users[v] \in Acting /\ users[v].pc = "queued")
  BY HeadIs, ApprovalAssumption
<1>3. told \in [Users -> Deciders] /\ started \in [Users -> Deciders]
  <2>1. v \in Users => Replied(users[v], "failed") \in Deciders
    BY <1>2, RepliedIs
  <2>2. v \in Users => [users[v] EXCEPT !.pc = "sending"] \in Deciders
    BY <1>2 DEF Acting, Deciders
  <2> QED BY <1>1, <1>2, <2>1, <2>2
<1>4. /\ \/ v \notin Users /\ told = users
         \/ v \in Users /\ told = [users EXCEPT ![v] = Replied(@, "failed")]
      /\ \/ v \notin Users /\ started = users
         \/ v \in Users /\ started = [users EXCEPT ![v].pc = "sending"]
  BY <1>2
<1>5. \/ /\ ~Expirable(records[i])
         /\ Done(i) /\ users' = told /\ UNCHANGED <<records, sends, broker>>
      \/ /\ Expirable(records[i]) /\ Claims(i, r)
         /\ SetRecord(started, i, r) /\ Sending(i, "expiry", "deny", v) /\ UNCHANGED tails
      \/ /\ Expirable(records[i]) /\ ~Claims(i, r)
         /\ SetRecord(told, i, q) /\ Done(i) /\ UNCHANGED <<sends, broker>>
  BY DEF ExpireRecord, Declining
<1> HIDE DEF told, started
<1>6. CASE ~Expirable(records[i])
  <2>1. Done(i) /\ users' = told /\ UNCHANGED <<records, sends, broker>>
    BY <1>5, <1>6
  <2>2. \A u \in Users : told[u].pc = "waiting" => ~records[told[u].id].closed
    <3> SUFFICES ASSUME NEW u \in Users, told[u].pc = "waiting"
                 PROVE  ~records[told[u].id].closed
      OBVIOUS
    <3>1. told[u] = users[u]
      BY <1>1, <1>2, <1>4, RepliedIs
    <3> QED BY <3>1, DeciderIs DEF IInv, UsersOK, UserOK, TypeOK
  <2>3. users' = NotifyWaiters(told, records')
    BY <1>1, <1>3, <2>1, <2>2, NobodyNotified
  <2>4. records' = [records EXCEPT ![i] = records[i]]
    BY <1>1, <2>1
  <2>5. /\ tails' = [tails EXCEPT ![i] = Tail(@)]
        /\ UNCHANGED <<sends, broker, wire, ask, link, gen, events, closed>>
    BY <2>1 DEF Done, codex
  <2> QED
    BY ONLY IInv, i \in Ids, tails[i] # <<>>, ~sends[i].on, v = Head(tails[i]).user,
            <1>1, <1>3, <1>4, <2>3, <2>4, <2>5, HeadDone
<1>7. ASSUME Expirable(records[i])
      PROVE  /\ ~records[i].closed /\ records[i].gen = gen /\ ask[i].frames = 0
             /\ r \in Records /\ r.gen = gen /\ ~r.closed /\ r.decision = "deny"
             /\ r.outcome = "sending" /\ RecordOK(r, ask[i], wire[i], TRUE)
  <2>1. "deny" \in Decisions
    BY DEF Decisions
  <2>2. ~records[i].closed /\ records[i].gen = gen /\ ask[i].frames = 0
    BY <1>7, UnsentIs
  <2>3. RecordOK(r, ask[i], wire[i], TRUE)
    <3>1. ask[i].frames # 1
      BY <2>2
    <3> QED BY <1>1, <2>2, <3>1, PreparedKeeps
  <2> QED BY <1>1, <2>1, <2>2, <2>3, RespondingIs
<1> HIDE DEF r
<1>8. CASE Expirable(records[i]) /\ Claims(i, r)
  <2>1. SetRecord(started, i, r) /\ Sending(i, "expiry", "deny", v) /\ UNCHANGED tails
    BY <1>5, <1>8
  <2>2. "deny" \in Decisions /\ "expiry" \in {"user", "expiry"}
    BY DEF Decisions
  <2>3. link = "up" /\ broker[i] = "pending"
    BY <1>8 DEF Claims
  <2> QED BY <1>3, <1>4, <1>7, <1>8, <2>1, <2>2, <2>3, SendStarts
<1>9. CASE Expirable(records[i]) /\ ~Claims(i, r)
  <2>1. SetRecord(told, i, q) /\ Done(i) /\ UNCHANGED <<sends, broker>>
    BY <1>5, <1>9
  <2>2. Refusal(r) = "not_sent"
    BY <1>7, <1>9 DEF Refusal
  <2>3. q \in Records /\ q.gen = records[i].gen /\ RecordOK(q, ask[i], wire[i], FALSE)
    BY <1>1, <1>7, <1>9, <2>2, EndedKeeps
  <2> HIDE DEF q
  <2>4. records' = [records EXCEPT ![i] = q] /\ users' = NotifyWaiters(told, records')
    BY <2>1 DEF SetRecord, Put
  <2> QED BY <1>3, <1>4, <2>1, <2>3, <2>4, HeadDone DEF Done, codex
<1> QED BY <1>6, <1>8, <1>9

(* An expiry runs for its record, or finds another.                        *)
LEMMA ExpirePreserves ==
  ASSUME IInv, NEW i \in Ids, Expire(i)
  PROVE  IInv'
<1> DEFINE v == Head(tails[i]).user
<1>1. /\ tails[i] # <<>> /\ ~sends[i].on /\ Head(tails[i]).op = "expire"
      /\ UNCHANGED <<link, gen, events, closed, codex>>
  BY DEF Expire, Runs
<1>2. v = "none" /\ v \notin Users
  BY <1>1, HeadIs
<1>3. CASE Head(tails[i]).gen = records[i].gen
  <2>1. ExpireRecord(i, v)
    BY <1>2, <1>3 DEF Expire
  <2> QED BY <1>1, <2>1, ExpireRecordPreserves
<1>4. CASE Head(tails[i]).gen # records[i].gen
  <2>1. Done(i) /\ UNCHANGED <<records, users, sends, broker>>
    BY <1>4 DEF Expire
  <2>2. users \in [Users -> Deciders] /\ records \in [Ids -> Records] /\ records[i] \in Records
        /\ RecordOK(records[i], ask[i], wire[i], FALSE)
    BY <1>1, RequestIs, SendIs DEF IInv, TypeOK
  <2>3. users' = NotifyWaiters(users, records')
    <3>1. \A u \in Users : users[u].pc = "waiting" => ~records[users[u].id].closed
      BY <2>2, DeciderIs DEF IInv, UsersOK, UserOK
    <3> QED BY <2>1, <2>2, <3>1, NobodyNotified
  <2>4. records' = [records EXCEPT ![i] = records[i]]
    BY <2>1, <2>2
  <2>5. /\ tails' = [tails EXCEPT ![i] = Tail(@)]
        /\ UNCHANGED <<sends, broker, wire, ask, link, gen, events, closed>>
    BY <1>1, <2>1 DEF Done, codex
  <2> HIDE DEF v
  <2>6. v = Head(tails[i]).user
    BY DEF v
  <2> QED
    BY ONLY IInv, i \in Ids, <1>1, <1>2, <2>2, <2>3, <2>4, <2>5, <2>6, HeadDone
<1> QED BY <1>3, <1>4

(* A decision comes too late, and the request is declined instead.         *)
LEMMA DeclinesInsteadPreserves ==
  ASSUME IInv, NEW i \in Ids, DeclinesInstead(i)
  PROVE  IInv'
BY ExpireRecordPreserves DEF DeclinesInstead, Runs

(* A decision about a request that is not pending, or of a lost            *)
(* connection.                                                             *)
LEMMA RefusesPreserves ==
  ASSUME IInv, NEW i \in Ids, Refuses(i)
  PROVE  IInv'
<1> DEFINE v == Head(tails[i]).user
           r == records[i]
           q == IF ~closed /\ link = "up" /\ r.gen # gen THEN Supersede(r) ELSE r
           us == [users EXCEPT ![v] = Replied(@, "failed")]
<1>1. /\ tails[i] # <<>> /\ ~sends[i].on /\ Head(tails[i]).op = "respond"
      /\ SetRecord(us, i, q) /\ Done(i)
      /\ UNCHANGED <<sends, broker, link, gen, events, closed, codex>>
  BY DEF Refuses, Runs
<1>2. v \in Users /\ us \in [Users -> Deciders]
  BY <1>1, HeadIs, RepliedIs DEF IInv, TypeOK
<1>3. r \in Records /\ ask[i] \in Asks /\ RecordOK(r, ask[i], wire[i], FALSE) /\ AskOK(ask[i], wire[i])
  BY <1>1, RequestIs, SendIs
<1>4. q \in Records /\ q.gen = r.gen /\ RecordOK(q, ask[i], wire[i], FALSE)
  BY <1>3, ClosingKeeps, SupersedeIs
<1>5. /\ records' = [records EXCEPT ![i] = q] /\ users' = NotifyWaiters(us, records')
      /\ tails' = [tails EXCEPT ![i] = Tail(@)]
      /\ UNCHANGED <<sends, broker, wire, ask, link, gen, events, closed>>
  BY <1>1 DEF SetRecord, Put, Done, codex
<1>6. v = Head(tails[i]).user /\ us = [users EXCEPT ![v] = Replied(@, "failed")]
  OBVIOUS
<1> HIDE DEF v, q, us
<1> QED
  BY ONLY IInv, i \in Ids, <1>1, <1>2, <1>3, <1>4, <1>5, <1>6, HeadDone

(* A decision is sent, or cannot be.                                       *)
LEMMA RespondPreserves ==
  ASSUME IInv, NEW i \in Ids, Respond(i) \/ RespondTooLate(i)
  PROVE  IInv'
<1> DEFINE v == Head(tails[i]).user
           d == users[v].decision
           r == Responding(records[i], d)
           q == RespondEnded(r, "not_sent")
           started == [users EXCEPT ![v].pc = "sending"]
           told == [users EXCEPT ![v] = Replied(@, "failed")]
<1>1. /\ tails[i] # <<>> /\ ~sends[i].on /\ Head(tails[i]).op = "respond"
      /\ link = "up" /\ records[i].gen = gen /\ records[i].state = "pending"
      /\ UNCHANGED <<link, gen, events, closed, codex>>
  BY DEF Respond, RespondTooLate, Runs, Answerable
<1>2. v \in Users /\ users[v] \in Acting /\ d \in Decisions
  <2>1. v \in Users /\ users[v] \in Acting
    BY <1>1, HeadIs
  <2> QED BY <2>1 DEF Acting
<1>3. told \in [Users -> Deciders] /\ started \in [Users -> Deciders]
      /\ told[v] = Replied(users[v], "failed")
  <2>1. Replied(users[v], "failed") \in Deciders
    BY <1>2, RepliedIs
  <2>2. [users[v] EXCEPT !.pc = "sending"] \in Deciders
    BY <1>2 DEF Acting, Deciders
  <2>3. users \in [Users -> Deciders]
    BY DEF IInv, TypeOK
  <2> QED BY <1>2, <2>1, <2>2, <2>3
<1>4. /\ records[i] \in Records /\ ask[i] \in Asks /\ AskOK(ask[i], wire[i])
      /\ RecordOK(records[i], ask[i], wire[i], sends[i].on)
      /\ ~records[i].closed /\ ask[i].frames = 0 /\ ask[i].frames # 1
  BY <1>1, RequestIs, UnsentIs
<1>5. /\ r \in Records /\ r.gen = records[i].gen /\ ~r.closed /\ r.decision = d
      /\ r.outcome = "sending"
  <2> HIDE DEF d
  <2> QED BY <1>2, <1>4, RespondingIs
<1>6. RecordOK(r, ask[i], wire[i], TRUE) /\ RecordOK(r, ask[i], wire[i], FALSE)
  BY <1>2, <1>4, PreparedKeeps
<1>7. q \in Records /\ q.gen = records[i].gen /\ RecordOK(q, ask[i], wire[i], FALSE)
  BY <1>4, <1>5, <1>6, EndedKeeps
<1>8. v = Head(tails[i]).user /\ told = [users EXCEPT ![v] = Replied(@, "failed")]
      /\ started = [users EXCEPT ![v].pc = "sending"]
  OBVIOUS
<1>9. CASE Respond(i) /\ Claims(i, r)
  <2>1. SetRecord(started, i, r) /\ Sending(i, "user", d, v) /\ UNCHANGED tails
    BY <1>9, <1>5 DEF Respond
  <2>2. broker[i] = "pending" /\ "user" \in {"user", "expiry"}
    BY <1>9 DEF Claims
  <2>3. UNCHANGED <<tails, link, gen, events, closed, codex>>
    BY <1>1, <2>1
  <2> HIDE DEF v, d, r, started
  <2> QED
    BY ONLY IInv, i \in Ids, <1>1, <1>2, <1>3, <1>5, <1>6, <1>8, <2>1, <2>2, <2>3, SendStarts
<1>10. CASE (Respond(i) /\ ~Claims(i, r)) \/ RespondTooLate(i)
  <2>1. PICK p \in {q, r} : SetRecord(told, i, p) /\ Done(i) /\ UNCHANGED <<sends, broker>>
    <3>1. CASE Respond(i) /\ ~Claims(i, r)
      <4>1. Refusal(r) = "not_sent"
        BY <1>1, <1>5 DEF Refusal
      <4>2. AfterRespond(users[v], q, "not_sent") = Replied(users[v], "failed")
        BY DEF AfterRespond
      <4>3. /\ SetRecord([users EXCEPT ![v] = AfterRespond(@, q, "not_sent")], i, q)
            /\ Done(i) /\ UNCHANGED <<sends, broker>>
        BY <3>1, <4>1 DEF Respond
      <4>4. [users EXCEPT ![v] = AfterRespond(@, q, "not_sent")] = told
        BY <4>2
      <4> QED BY <4>3, <4>4
    <3>2. CASE RespondTooLate(i)
      BY <3>2 DEF RespondTooLate
    <3> QED BY <1>10, <3>1, <3>2
  <2>2. /\ records' = [records EXCEPT ![i] = p] /\ users' = NotifyWaiters(told, records')
        /\ tails' = [tails EXCEPT ![i] = Tail(@)]
        /\ UNCHANGED <<sends, broker, wire, ask, link, gen, events, closed>>
    BY <1>1, <2>1 DEF SetRecord, Put, Done, codex
  <2>3. p \in Records /\ p.gen = records[i].gen /\ RecordOK(p, ask[i], wire[i], FALSE)
    BY <1>5, <1>6, <1>7, <2>1
  <2> HIDE DEF v, d, r, q, told
  <2> QED
    BY ONLY IInv, i \in Ids, <1>1, <1>2, <1>3, <1>8, <2>2, <2>3, HeadDone
<1> QED BY <1>9, <1>10

(* What Codex told of a request leaves its approval true.                  *)
LEMMA ObservedKeeps ==
  ASSUME NEW r \in Records, NEW a \in Asks, NEW w, NEW s, AskOK(a, w), RecordOK(r, a, w, s),
         NEW op \in EventOps \cup {"disconnect"}, op = "resolved" => "resolved" \in a.told
  PROVE  /\ Observed(op, r) \in Records /\ Observed(op, r).gen = r.gen
         /\ RecordOK(Observed(op, r), a, w, s)
<1> DEFINE p == [r EXCEPT !.resolved = TRUE]
           c == [r EXCEPT !.item = TRUE]
<1>1. p \in Records /\ p.gen = r.gen /\ c \in Records /\ c.gen = r.gen
  BY DEF Records
<1>2. op = "resolved" => RecordOK(p, a, w, s)
  BY DEF RecordOK, Answered, Records
<1>3. RecordOK(c, a, w, s)
  BY DEF RecordOK, Answered, Records
<1>4. \/ Observed(op, r) \in {r, Supersede(r)}
      \/ op = "resolved" /\ Observed(op, r) \in {Supersede(p), Settle(p)}
      \/ Observed(op, r) \in {Supersede(c), Settle(c)}
  <2>1. CASE op = "resolved"
    BY <2>1 DEF Observed
  <2>2. CASE op = "item"
    BY <2>2 DEF Observed
  <2>3. CASE op = "turn"
    BY <2>3 DEF Observed
  <2>4. CASE op = "disconnect"
    BY <2>4 DEF Observed
  <2> QED BY <2>1, <2>2, <2>3, <2>4 DEF EventOps
<1> HIDE DEF p, c
<1>5. RecordOK(Supersede(r), a, w, s) /\ Supersede(r) \in Records /\ Supersede(r).gen = r.gen
  BY ClosingKeeps, SupersedeIs
<1>6. op = "resolved" =>
        /\ RecordOK(Supersede(p), a, w, s) /\ Supersede(p) \in Records /\ Supersede(p).gen = r.gen
        /\ RecordOK(Settle(p), a, w, s) /\ Settle(p) \in Records /\ Settle(p).gen = r.gen
  BY <1>1, <1>2, ClosingKeeps, SupersedeIs, SettleIs
<1>7. /\ RecordOK(Supersede(c), a, w, s) /\ Supersede(c) \in Records /\ Supersede(c).gen = r.gen
      /\ RecordOK(Settle(c), a, w, s) /\ Settle(c) \in Records /\ Settle(c).gen = r.gen
  BY <1>1, <1>3, ClosingKeeps, SupersedeIs, SettleIs
<1> QED BY <1>4, <1>5, <1>6, <1>7

(* A notification reaches the record it is looked up for.                  *)
LEMMA ObservePreserves ==
  ASSUME IInv, NEW i \in Ids, Observe(i)
  PROVE  IInv'
<1> DEFINE v == Head(tails[i]).user
           op == Head(tails[i]).op
           q == IF records' = records THEN records[i] ELSE Observed(op, records[i])
<1>1. /\ tails[i] # <<>> /\ ~sends[i].on /\ op \in EventOps \cup {"disconnect"}
      /\ \/ SetRecord(users, i, Observed(op, records[i]))
         \/ UNCHANGED <<records, users>>
      /\ Done(i) /\ UNCHANGED <<sends, broker, link, gen, events, closed, codex>>
  BY DEF Observe, Runs
<1>2. v \notin Users
  BY <1>1, HeadIs DEF EventOps
<1>3. /\ records[i] \in Records /\ ask[i] \in Asks /\ AskOK(ask[i], wire[i])
      /\ RecordOK(records[i], ask[i], wire[i], FALSE)
      /\ users \in [Users -> Deciders] /\ records \in [Ids -> Records]
  BY <1>1, RequestIs, SendIs DEF IInv, TypeOK
<1>4. op = "resolved" => "resolved" \in ask[i].told
  BY <1>1, TailIs DEF IInv, ToldOK, Told
<1>5. /\ Observed(op, records[i]) \in Records /\ Observed(op, records[i]).gen = records[i].gen
      /\ RecordOK(Observed(op, records[i]), ask[i], wire[i], FALSE)
  BY <1>1, <1>3, <1>4, ObservedKeeps
<1>6. \A u \in Users : users[u].pc = "waiting" => ~records[users[u].id].closed
  BY <1>3, DeciderIs DEF IInv, UsersOK, UserOK
<1>7. NotifyWaiters(users, records) = users
  BY <1>3, <1>6, NobodyNotified
<1>8. q \in Records /\ q.gen = records[i].gen /\ RecordOK(q, ask[i], wire[i], FALSE)
      /\ records' = [records EXCEPT ![i] = q] /\ users' = NotifyWaiters(users, records')
  <2>1. CASE records' # records
    BY <1>1, <1>5, <2>1 DEF SetRecord, Put
  <2>2. CASE records' = records
    <3>1. records' = [records EXCEPT ![i] = q] /\ q = records[i]
      BY <1>3, <2>2
    <3>2. users' = NotifyWaiters(users, records')
      BY <1>1, <1>7, <2>2 DEF SetRecord, Put
    <3> QED BY <1>3, <3>1, <3>2
  <2> QED BY <2>1, <2>2
<1>9. /\ tails' = [tails EXCEPT ![i] = Tail(@)]
      /\ UNCHANGED <<sends, broker, wire, ask, link, gen, events, closed>>
  BY <1>1 DEF Done, codex
<1>10. v = Head(tails[i]).user
  OBVIOUS
<1> HIDE DEF v, op, q
<1> QED
  BY ONLY IInv, i \in Ids, <1>1, <1>2, <1>3, <1>8, <1>9, <1>10, HeadDone

----------------------------------------------------------------------------
(* The sends.                                                              *)

(* The head of a tail while its response is being sent.                    *)
LEMMA SenderIs ==
  ASSUME IInv, NEW i \in Ids, sends[i].on
  PROVE  LET s == sends[i] IN
         /\ tails[i] # <<>> /\ s \in Responses /\ Head(tails[i]).user = s.user
         /\ s.gen = gen /\ records[i].gen = gen /\ ask[i].gen = gen /\ broker[i] # "pending"
         /\ RecordOK(records[i], ask[i], wire[i], TRUE) /\ records[i].outcome = "sending"
         /\ (s.kind = "user" => s.user \in Users) /\ s.user \in Users \cup {"none"}
         /\ s.user \in Users => users[s.user] \in Acting /\ users[s.user].id = i
                                /\ users[s.user].pc = "sending"
<1>1. /\ SendOK(sends[i], records[i], ask[i], broker[i], tails[i]) /\ sends[i] \in Responses
      /\ AskOK(ask[i], wire[i]) /\ RecordOK(records[i], ask[i], wire[i], TRUE)
      /\ ask[i].gen \in Nat /\ gen \in Nat /\ records[i].gen \in Nat
  BY RequestIs, SendIs
<1>2. ask[i].gen = gen
  BY <1>1 DEF SendOK, AskOK, RecordOK
<1>3. sends[i].user \in Users =>
        users[sends[i].user] \in Acting /\ users[sends[i].user].id = i
        /\ users[sends[i].user].pc = "sending"
  BY DeciderIs DEF IInv, SendersOK, TypeOK
<1> QED BY <1>1, <1>2, <1>3 DEF SendOK, Responses

(* A frame is counted for the ask it answers, with whose response it is.   *)
LEMMA FrameCounted ==
  ASSUME NEW x \in Asks, x.frames = 0, NEW f \in Users \cup {"none"}
  PROVE  LET a == [x EXCEPT !.frames = @ + 1, !.from = f] IN
         /\ a \in Asks /\ a.gen = x.gen /\ a.taken = x.taken /\ a.told = x.told
         /\ a.frames = 1 /\ a.from = f
<1> DEFINE n == x.frames + 1
<1>1. n \in Nat /\ n = 1
  OBVIOUS
<1> HIDE DEF n
<1>2. LET a == [x EXCEPT !.frames = n, !.from = f] IN
         /\ a \in Asks /\ a.gen = x.gen /\ a.taken = x.taken /\ a.told = x.told
         /\ a.frames = 1 /\ a.from = f
  BY <1>1 DEF Asks
<1> QED BY <1>2 DEF n

(* A frame that is written is the first for its ask.                       *)
LEMMA WrittenIs ==
  ASSUME IInv, NEW i \in Ids, sends[i].on, ~sends[i].written, Written(i, sends[i])
  PROVE  \E a \in Asks, w \in Decisions :
           /\ ask' = [ask EXCEPT ![i] = a] /\ wire' = [wire EXCEPT ![i] = w]
           /\ a.gen = ask[i].gen /\ a.taken = ask[i].taken /\ a.told = ask[i].told
           /\ a.frames = 1
           /\ a.from = IF sends[i].kind = "user" THEN sends[i].user ELSE "none"
           /\ AskOK(a, w) /\ RecordOK(records[i], a, w, TRUE)
<1> DEFINE s == sends[i]
           from == IF s.kind = "user" THEN s.user ELSE "none"
           a == [ask[i] EXCEPT !.frames = @ + 1, !.from = from]
           w == s.decision
<1>1. /\ s \in Responses /\ records[i].gen = gen /\ ask[i].gen = gen
      /\ RecordOK(records[i], ask[i], wire[i], TRUE) /\ s.user \in Users \cup {"none"}
      /\ ask[i] \in Asks /\ AskOK(ask[i], wire[i])
      /\ ask[i].frames = 0 /\ records[i].decision = s.decision
  BY SenderIs, RequestIs DEF SendOK
<1>2. w \in Decisions /\ from \in Users \cup {"none"}
  BY <1>1 DEF Responses
<1>3. ask' = [ask EXCEPT ![i] = a] /\ wire' = [wire EXCEPT ![i] = w]
  BY DEF Written, IInv, TypeOK
<1>4. /\ a \in Asks /\ a.gen = ask[i].gen /\ a.taken = ask[i].taken /\ a.told = ask[i].told
      /\ a.frames = 1 /\ a.from = from
  <2> HIDE DEF from
  <2> QED BY <1>1, <1>2, FrameCounted
<1>5. records[i].decision = w /\ gen \in Nat /\ gen <= gen
  BY <1>1, RequestIs
<1> HIDE DEF a, w
<1>6. AskOK(a, w)
  BY <1>1, <1>2, <1>4, <1>5 DEF AskOK, Decisions
<1>7. a.taken \notin Decisions
  BY <1>1, <1>4 DEF AskOK
<1>8. RecordOK(records[i], a, w, TRUE)
  BY <1>1, <1>4, <1>5, <1>7 DEF RecordOK
<1> QED BY <1>2, <1>3, <1>4, <1>6, <1>8

(* The transport takes the frame of a response.                            *)
LEMMA WritesPreserves ==
  ASSUME IInv, NEW i \in Ids, Writes(i)
  PROVE  IInv'
<1> DEFINE v == Head(tails[i]).user
           s == [sends[i] EXCEPT !.written = TRUE]
           q == records[i]
           b == broker[i]
<1>1. /\ sends[i].on /\ ~sends[i].written /\ Connected /\ Written(i, sends[i])
      /\ sends' = [sends EXCEPT ![i] = s]
      /\ UNCHANGED <<records, tails, users, closed, broker, link, gen, events>>
  BY DEF Writes, IInv, TypeOK
<1>2. PICK a \in Asks, w \in Decisions :
        /\ ask' = [ask EXCEPT ![i] = a] /\ wire' = [wire EXCEPT ![i] = w]
        /\ a.gen = ask[i].gen /\ a.taken = ask[i].taken /\ a.told = ask[i].told
        /\ a.frames = 1
        /\ a.from = IF sends[i].kind = "user" THEN sends[i].user ELSE "none"
        /\ AskOK(a, w) /\ RecordOK(q, a, w, TRUE)
  BY <1>1, WrittenIs
<1>3. /\ sends[i] \in Responses /\ tails[i] # <<>> /\ v = sends[i].user /\ b # "pending"
      /\ (v \in Users => users[v] \in Acting /\ users[v].id = i /\ users[v].pc = "sending")
      /\ v \in Users \cup {"none"} /\ ask[i].gen = gen
      /\ SendOK(sends[i], q, ask[i], b, tails[i])
  <2>1. /\ sends[i] \in Responses /\ tails[i] # <<>> /\ v = sends[i].user /\ b # "pending"
        /\ sends[i].user \in Users \cup {"none"} /\ ask[i].gen = gen
    BY <1>1, SenderIs
  <2>2. v \in Users => users[v] \in Acting /\ users[v].id = i /\ users[v].pc = "sending"
    <3>1. sends[i].user \in Users => users[sends[i].user] \in Acting
            /\ users[sends[i].user].id = i /\ users[sends[i].user].pc = "sending"
      BY <1>1, SenderIs
    <3> QED BY <2>1, <3>1
  <2>3. SendOK(sends[i], q, ask[i], b, tails[i])
    BY RequestIs
  <2> QED BY <2>1, <2>2, <2>3
<1>4. /\ s \in Responses /\ s.on /\ s.kind = sends[i].kind /\ s.decision = sends[i].decision
      /\ s.user = sends[i].user /\ s.gen = sends[i].gen /\ s.written
  BY <1>3 DEF Responses
<1> HIDE DEF s
<1>5. /\ records' = [records EXCEPT ![i] = q] /\ broker' = [broker EXCEPT ![i] = b]
      /\ q \in Records /\ b \in {"none", "pending", "responding"} /\ s \in Sends
      /\ users \in [Users -> Deciders] /\ records \in [Ids -> Records]
  BY <1>1, <1>4 DEF IInv, TypeOK, Sends
<1>6. users' = NotifyWaiters(users, records')
  <2>1. \A u \in Users : users[u].pc = "waiting" => ~records[users[u].id].closed
    BY <1>5, DeciderIs DEF IInv, UsersOK, UserOK
  <2> QED BY <1>1, <1>5, <2>1, NobodyNotified
<1>7. SendOK(s, q, a, b, tails[i])
  BY <1>1, <1>2, <1>3, <1>4 DEF SendOK
<1>8. TurnMakes(i, q, a, w, s, b, users)
  BY <1>1, <1>2, <1>4, <1>5, <1>6 DEF TurnMakes
<1>9. TurnIsTrue(i, q, a, w, s, b)
  BY <1>1, <1>2, <1>3, <1>4, <1>7 DEF TurnIsTrue
<1>10. TurnTells(i, q, a, s, users, v)
  BY <1>2, <1>3, <1>4, ApprovalAssumption DEF TurnTells
<1>11. w \in Decisions \cup {"none"} /\ v = Head(tails[i]).user
  OBVIOUS
<1> HIDE DEF q, b, v
<1> QED
  BY ONLY IInv, i \in Ids, a \in Asks, <1>3, <1>5, <1>8, <1>9, <1>10, <1>11, TurnKeeps

(* Sending ends, with the frame on its way or not.                         *)
LEMMA SendEndsIs ==
  ASSUME IInv, NEW i \in Ids, NEW out \in {"sent", "not_sent", "unknown"}, SendEnds(i, out)
  PROVE  \E a \in Asks, w \in Decisions \cup {"none"} :
           /\ ask' = [ask EXCEPT ![i] = a] /\ wire' = [wire EXCEPT ![i] = w]
           /\ a.gen = ask[i].gen /\ a.taken = ask[i].taken /\ a.told = ask[i].told
           /\ out = "not_sent" => a.frames = 0
           /\ a.from = "none" \/ (sends[i].kind = "user" /\ a.from = sends[i].user)
           /\ AskOK(a, w) /\ RecordOK(records[i], a, w, TRUE) /\ (~Connected => w = "none")
<1>1. /\ sends[i].on /\ out \in SendOutcomes(sends[i])
      /\ \/ UNCHANGED <<wire, ask>>
         \/ out = "unknown" /\ ~sends[i].written /\ Connected /\ Written(i, sends[i])
  BY DEF SendEnds, codex
<1>2. CASE UNCHANGED <<wire, ask>>
  <2>1. /\ ask' = [ask EXCEPT ![i] = ask[i]] /\ wire' = [wire EXCEPT ![i] = wire[i]]
        /\ ask[i] \in Asks /\ wire[i] \in Decisions \cup {"none"} /\ AskOK(ask[i], wire[i])
        /\ RecordOK(records[i], ask[i], wire[i], TRUE) /\ (~Connected => wire[i] = "none")
        /\ SendOK(sends[i], records[i], ask[i], broker[i], tails[i])
    <3>1. ask' = [ask EXCEPT ![i] = ask[i]] /\ wire' = [wire EXCEPT ![i] = wire[i]]
      BY <1>2 DEF IInv, TypeOK
    <3>2. RecordOK(records[i], ask[i], wire[i], TRUE)
      BY <1>1, SenderIs
    <3>3. /\ ask[i] \in Asks /\ wire[i] \in Decisions \cup {"none"}
          /\ AskOK(ask[i], wire[i]) /\ (~Connected => wire[i] = "none")
          /\ SendOK(sends[i], records[i], ask[i], broker[i], tails[i])
      BY RequestIs
    <3> QED BY <3>1, <3>2, <3>3
  <2>2. sends[i].written \/ ask[i].frames = 0
    BY <1>1, <2>1 DEF SendOK
  <2>3. ask[i].from = "none" \/ (sends[i].kind = "user" /\ ask[i].from = sends[i].user)
    BY <1>1, <2>1, <2>2 DEF SendOK, AskOK
  <2>4. out = "not_sent" => ask[i].frames = 0
    BY <1>1, <2>2 DEF SendOutcomes
  <2> QED BY <2>1, <2>3, <2>4
<1>3. CASE out = "unknown" /\ ~sends[i].written /\ Connected /\ Written(i, sends[i])
  BY <1>1, <1>3, WrittenIs
<1> QED BY <1>1, <1>2, <1>3

(* A send ends as sent, not sent or unknown, for its user or for nobody.   *)
LEMMA SendEndsPreserves ==
  ASSUME IInv, NEW i \in Ids, NEW out \in {"sent", "not_sent", "unknown"}, SendEnds(i, out)
  PROVE  IInv'
<1> DEFINE s == sends[i]
           r == records[i]
           v == Head(tails[i]).user
           q == IF s.kind = "user" THEN RespondEnded(r, out) ELSE ExpiryEnded(r, out)
           b == IF broker[i] = "responding"
                  THEN IF out = "not_sent" /\ Connected THEN "pending" ELSE "none"
                  ELSE broker[i]
           us == IF s.kind = "user" THEN [users EXCEPT ![v] = AfterRespond(@, q, out)]
                 ELSE IF v # "none" THEN [users EXCEPT ![v] = Replied(@, "failed")]
                 ELSE users
<1>1. PICK a \in Asks, w \in Decisions \cup {"none"} :
        /\ ask' = [ask EXCEPT ![i] = a] /\ wire' = [wire EXCEPT ![i] = w]
        /\ a.gen = ask[i].gen /\ a.taken = ask[i].taken /\ a.told = ask[i].told
        /\ out = "not_sent" => a.frames = 0
        /\ a.from = "none" \/ (s.kind = "user" /\ a.from = s.user)
        /\ AskOK(a, w) /\ RecordOK(r, a, w, TRUE) /\ (~Connected => w = "none")
  BY SendEndsIs
<1>2. s.on
  BY DEF SendEnds
<1>3. /\ s \in Responses /\ tails[i] # <<>> /\ v = s.user /\ s.gen = gen
      /\ broker[i] \in {"none", "responding"} /\ (~Connected => broker[i] = "none")
      /\ (s.kind = "user" => v \in Users) /\ v \in Users \cup {"none"} /\ "none" \notin Users
      /\ (v \in Users => users[v] \in Acting /\ users[v].id = i /\ users[v].pc = "sending")
      /\ ask[i].gen = gen /\ r.gen = gen /\ r.outcome = "sending" /\ r \in Records
  <2>1. /\ s \in Responses /\ tails[i] # <<>> /\ v = s.user /\ s.gen = gen
        /\ broker[i] # "pending" /\ (s.kind = "user" => s.user \in Users)
        /\ s.user \in Users \cup {"none"} /\ ask[i].gen = gen /\ r.gen = gen
        /\ r.outcome = "sending"
    BY <1>2, SenderIs
  <2>2. v \in Users => users[v] \in Acting /\ users[v].id = i /\ users[v].pc = "sending"
    BY <1>2, <2>1, SenderIs
  <2>3. /\ broker[i] \in {"none", "pending", "responding"} /\ r \in Records
        /\ (~Connected => broker[i] = "none")
    BY RequestIs
  <2>4. broker[i] \in {"none", "responding"}
    BY <2>1, <2>3
  <2> HIDE DEF s, r, v
  <2> QED BY <2>1, <2>2, <2>3, <2>4, ApprovalAssumption
<1>4. q \in Records /\ q.gen = r.gen /\ RecordOK(q, a, w, FALSE)
  BY <1>1, <1>3, EndedKeeps
<1>5. /\ records' = [records EXCEPT ![i] = q] /\ users' = NotifyWaiters(us, records')
      /\ sends' = [sends EXCEPT ![i] = NoSend] /\ tails' = [tails EXCEPT ![i] = Tail(@)]
      /\ UNCHANGED <<link, gen, events, closed>>
  BY <1>3 DEF SendEnds, SetRecord, Put, Done
<1>6. broker' = [broker EXCEPT ![i] = b]
  <2>1. broker' = Released(i, s, out)
    BY DEF SendEnds
  <2>2. broker \in [Ids -> {"none", "pending", "responding"}]
    BY DEF IInv, TypeOK
  <2> QED BY <1>3, <2>1, <2>2 DEF Released
<1>7. NoSend \in Sends /\ ~NoSend.on
  BY DEF Sends, NoSend
<1>8. /\ b \in {"none", "pending", "responding"} /\ b # "responding"
      /\ (b # "none" => broker[i] # "none") /\ (~Connected => b = "none")
      /\ (b = "pending" => out = "not_sent")
  BY <1>3
<1> HIDE DEF q, b
<1>9. /\ us \in [Users -> Deciders]
      /\ \A u \in Users : u # v => us[u] = users[u]
      /\ v \in Users =>
           /\ us[v] \in Acting /\ us[v].id = i /\ us[v].gen = users[v].gen
           /\ \/ us[v].pc = "waiting"
              \/ us[v].pc = "done" /\ us[v].reply = "incomplete"
              \/ /\ us[v].pc = "done" /\ us[v].reply = "failed"
                 /\ out = "not_sent" \/ s.kind # "user"
  <2>1. users \in [Users -> Deciders]
    BY DEF IInv, TypeOK
  <2>2. CASE v \notin Users
    <3>1. us = users
      BY <1>3, <2>2
    <3> QED BY <2>1, <2>2, <3>1
  <2>3. CASE v \in Users
    <3>1. ASSUME NEW reply \in {"failed", "incomplete"}
          PROVE  /\ Replied(users[v], reply) \in Acting /\ Replied(users[v], reply) \in Deciders
                 /\ Replied(users[v], reply).id = i
                 /\ Replied(users[v], reply).gen = users[v].gen
                 /\ Replied(users[v], reply).pc = "done" /\ Replied(users[v], reply).reply = reply
      BY <1>3, <2>3, RepliedIs
    <3>2. LET x == [users[v] EXCEPT !.pc = "waiting"] IN
            x \in Acting /\ x \in Deciders /\ x.id = i /\ x.gen = users[v].gen /\ x.pc = "waiting"
      BY <1>3, <2>3 DEF Acting, Deciders
    <3>3. PICK x \in Deciders :
            /\ us = [users EXCEPT ![v] = x]
            /\ \/ x = Replied(users[v], "failed") /\ (out = "not_sent" \/ s.kind # "user")
               \/ x = Replied(users[v], "incomplete")
               \/ x = [users[v] EXCEPT !.pc = "waiting"]
      <4>1. CASE s.kind = "user"
        BY <2>3, <3>1, <3>2, <4>1 DEF AfterRespond
      <4>2. CASE s.kind # "user"
        BY <1>3, <2>3, <3>1, <4>2
      <4> QED BY <4>1, <4>2
    <3>4. us[v] = x /\ us \in [Users -> Deciders] /\ \A u \in Users : u # v => us[u] = users[u]
      BY <2>1, <2>3, <3>3
    <3> HIDE DEF us
    <3> QED BY <3>1, <3>2, <3>3, <3>4
  <2> QED BY <2>2, <2>3
<1> HIDE DEF us
<1>10. TurnMakes(i, q, a, w, NoSend, b, us)
  BY <1>1, <1>5, <1>6, <1>7 DEF TurnMakes
<1>11. TurnIsTrue(i, q, a, w, NoSend, b)
  <2>1. b = "pending" => a.gen = gen /\ a.frames = 0
    BY <1>1, <1>3, <1>8
  <2>2. NoSend.on = FALSE
    BY DEF NoSend
  <2> QED BY <1>1, <1>3, <1>4, <1>7, <1>8, <2>1, <2>2 DEF TurnIsTrue
<1>12. TurnTells(i, q, a, NoSend, us, v)
  <2>1. q.gen = a.gen
    BY <1>1, <1>3, <1>4
  <2>2. out = "not_sent" \/ s.kind # "user" => a.from = "none"
    BY <1>1 DEF AskOK
  <2>3. a.from = "none" \/ a.from = v
    BY <1>1, <1>3
  <2> QED BY <1>3, <1>7, <1>9, <2>1, <2>2, <2>3 DEF TurnTells
<1>13. v = Head(tails[i]).user
  OBVIOUS
<1> HIDE DEF v, s, r
<1> QED
  BY ONLY IInv, i \in Ids, a \in Asks, w \in Decisions \cup {"none"}, <1>3, <1>4, <1>7, <1>8,
     <1>9, <1>10, <1>11, <1>12, <1>13, TurnKeeps

----------------------------------------------------------------------------
(* What Codex does.                                                        *)

(* Codex takes an answer or tells of the ask it has taken one for.         *)
LEMMA AskMoves ==
  ASSUME IInv, NEW i \in Ids, NEW a \in Asks, NEW w \in Decisions \cup {"none"},
         ask' = [ask EXCEPT ![i] = a], wire' = [wire EXCEPT ![i] = w],
         UNCHANGED <<service, broker, link, gen>>,
         a.gen = ask[i].gen, a.frames = ask[i].frames, a.from = ask[i].from,
         ask[i].told \subseteq a.told, ask[i].taken # "none" => a.taken = ask[i].taken,
         AskOK(a, w), RecordOK(records[i], a, w, sends[i].on), ~Connected => w = "none",
         events' \in Seq(Notifications),
         \A k \in DOMAIN events' :
           events'[k].op = "resolved" =>
             Told(events'[k].id) \/ (events'[k].id = i /\ a.gen = gen /\ "resolved" \in a.told)
  PROVE  IInv'
<1> USE DEF IInv, service
<1>0. /\ ask'[i] = a /\ wire'[i] = w /\ ask[i] \in Asks
      /\ \A j \in Ids \ {i} : ask'[j] = ask[j] /\ wire'[j] = wire[j]
  BY DEF TypeOK
<1>1. AsksOK'
  <2>1. \A j \in Ids : AskOK(ask'[j], wire'[j])
    BY <1>0 DEF AsksOK
  <2> QED BY <2>1 DEF AsksOK, AskOK
<1>2. RecordsOK'
  <2>1. \A j \in Ids : RecordOK(records[j], ask'[j], wire'[j], sends[j].on)
    BY <1>0 DEF RecordsOK
  <2> QED BY <2>1 DEF RecordsOK, RecordOK
<1>3. SendsOK'
  <2>1. \A j \in Ids : SendOK(sends[j], records[j], ask'[j], broker[j], tails[j])
    BY <1>0 DEF SendsOK, SendOK
  <2> QED BY <2>1 DEF SendsOK, SendOK
<1>4. LinkOK'
  BY <1>0 DEF LinkOK, Connected
<1>5. TailsOK' /\ SendersOK'
  BY DEF TailsOK, QueuedOK, SendersOK
<1>6. UsersOK'
  <2> SUFFICES ASSUME NEW u \in Users PROVE UserOK(users[u])'
    BY DEF UsersOK
  <2>1. UserOK(users[u]) /\ (users[u] # Idle => users[u].id \in Ids /\ users[u].decision \in Decisions)
    BY DeciderIs DEF UsersOK, TypeOK, Acting
  <2>2. ASSUME users[u] # Idle, KeptFor(users[u], ask[users[u].id])
        PROVE  KeptFor(users[u], ask'[users[u].id])
    <3>1. CASE users[u].id = i
      <4>1. ask[i].taken \in {users[u].decision, "elsewhere"} => ask[i].taken # "none"
        BY <2>1, <2>2 DEF Decisions
      <4> QED BY <1>0, <2>2, <3>1, <4>1 DEF KeptFor
    <3>2. CASE users[u].id # i
      BY <1>0, <2>1, <2>2, <3>2
    <3> QED BY <3>1, <3>2
  <2> QED BY <2>1, <2>2 DEF UserOK, KeptFor
<1>7. FromOK'
  BY <1>0 DEF FromOK
<1>8. ToldOK'
  <2>1. \A j \in Ids : Told(j) => Told(j)'
    BY <1>0 DEF Told
  <2>2. ASSUME NEW k \in DOMAIN events', events'[k].op = "resolved" PROVE Told(events[k].id)'
    <3>1. events'[k] \in Notifications
      OBVIOUS
    <3>2. events'[k].id \in Ids
      BY <3>1 DEF Notifications
    <3>3. Told(events'[k].id) \/ (events'[k].id = i /\ a.gen = gen /\ "resolved" \in a.told)
      BY <2>2
    <3>4. /\ ask'[events'[k].id] = IF events'[k].id = i THEN a ELSE ask[events'[k].id]
          /\ gen' = gen
      BY <1>0, <3>2
    <3> QED BY <3>2, <3>3, <3>4 DEF Told
  <2>3. ASSUME NEW j \in Ids, NEW k \in DOMAIN tails'[j], tails'[j][k].op = "resolved"
        PROVE  Told(j)'
    BY <2>1, <2>3 DEF ToldOK
  <2> QED BY <2>2, <2>3 DEF ToldOK, Told
<1>9. TypeOK'
  BY <1>0 DEF TypeOK, Tracked, Held
<1> QED BY <1>1, <1>2, <1>3, <1>4, <1>5, <1>6, <1>7, <1>8, <1>9

(* What was told of still holds when nothing of the events changes.        *)
LEMMA EventsKnown ==
  ASSUME IInv
  PROVE  events \in Seq(Notifications)
         /\ \A k \in DOMAIN events : events[k].op = "resolved" => Told(events[k].id)
BY DEF IInv, TypeOK, ToldOK

(* Codex takes the frame that is on its way, or has an answer already.     *)
LEMMA HearsPreserves ==
  ASSUME IInv, NEW i \in Ids, Hears(i)
  PROVE  IInv'
<1> DEFINE x == ask[i]
           taken == IF x.taken = "none" THEN wire[i] ELSE x.taken
           a == [x EXCEPT !.taken = taken]
<1>1. /\ x \in Asks /\ wire[i] \in Decisions /\ AskOK(x, wire[i])
      /\ RecordOK(records[i], x, wire[i], sends[i].on) /\ x.frames \in Nat
  BY RequestIs DEF Hears
<1>2. taken \in Decisions \cup {"none", "elsewhere"}
  BY <1>1 DEF Asks
<1>3. /\ ask' = [ask EXCEPT ![i] = a] /\ wire' = [wire EXCEPT ![i] = "none"]
      /\ UNCHANGED <<service, broker, link, gen, events>>
  BY DEF Hears, IInv, TypeOK
<1>4. /\ x.taken = "none" => taken = wire[i]
      /\ x.taken # "none" => taken = x.taken
  OBVIOUS
<1> HIDE DEF x, taken
<1>5. /\ a \in Asks /\ a.gen = x.gen /\ a.frames = x.frames /\ a.from = x.from /\ a.told = x.told
      /\ a.taken = taken
  BY <1>1, <1>2 DEF Asks
<1> HIDE DEF a
<1>6. x.frames = 1 /\ "none" \notin Decisions
  BY <1>1 DEF AskOK, Decisions
<1>7. AskOK(a, "none")
  BY <1>1, <1>4, <1>5, <1>6 DEF AskOK
<1>8. RecordOK(records[i], a, "none", sends[i].on)
  <2>1. taken # "none" /\ (x.taken \in {records[i].decision, "elsewhere"} /\ records[i].decision \in Decisions
                              => taken = x.taken)
    BY <1>1, <1>4, <1>6 DEF Decisions
  <2>2. x.gen = records[i].gen => wire[i] = records[i].decision
    BY <1>1, <1>6 DEF RecordOK
  <2> QED BY <1>1, <1>4, <1>5, <1>6, <2>1, <2>2 DEF RecordOK
<1>9. x = ask[i] /\ "none" \in Decisions \cup {"none"}
  BY DEF x
<1> QED BY <1>3, <1>4, <1>5, <1>7, <1>8, <1>9, AskMoves, EventsKnown

(* Another client answers first.                                           *)
LEMMA AnsweredElsewherePreserves ==
  ASSUME IInv, NEW i \in Ids, AnsweredElsewhere(i)
  PROVE  IInv'
<1> DEFINE x == ask[i]
           a == [x EXCEPT !.taken = "elsewhere"]
<1>1. /\ x \in Asks /\ wire[i] \in Decisions \cup {"none"} /\ AskOK(x, wire[i])
      /\ RecordOK(records[i], x, wire[i], sends[i].on) /\ (~Connected => wire[i] = "none")
      /\ x.taken = "none"
  BY RequestIs DEF AnsweredElsewhere
<1>2. /\ ask' = [ask EXCEPT ![i] = a] /\ wire' = [wire EXCEPT ![i] = wire[i]]
      /\ UNCHANGED <<service, broker, link, gen, events>>
  BY DEF AnsweredElsewhere, IInv, TypeOK
<1> HIDE DEF x
<1>3. /\ a \in Asks /\ a.gen = x.gen /\ a.frames = x.frames /\ a.from = x.from /\ a.told = x.told
      /\ a.taken = "elsewhere"
  BY <1>1 DEF Asks
<1> HIDE DEF a
<1>4. AskOK(a, wire[i]) /\ RecordOK(records[i], a, wire[i], sends[i].on)
  BY <1>1, <1>3 DEF AskOK, RecordOK, Decisions
<1>5. x = ask[i]
  BY DEF x
<1> QED BY <1>1, <1>2, <1>3, <1>4, <1>5, AskMoves, EventsKnown

(* Codex tells of an ask that has an answer.                               *)
LEMMA TellsPreserves ==
  ASSUME IInv, NEW i \in Ids, NEW e \in EventOps, Tells(i, e)
  PROVE  IInv'
<1> DEFINE x == ask[i]
           told == x.told \cup {e}
           a == [x EXCEPT !.told = told]
           n == [op |-> e, id |-> i]
<1>1. /\ x \in Asks /\ wire[i] \in Decisions \cup {"none"} /\ AskOK(x, wire[i])
      /\ RecordOK(records[i], x, wire[i], sends[i].on) /\ (~Connected => wire[i] = "none")
      /\ x.taken # "none" /\ x.gen = gen
  BY RequestIs DEF Tells
<1>2. /\ ask' = [ask EXCEPT ![i] = a] /\ wire' = [wire EXCEPT ![i] = wire[i]]
      /\ UNCHANGED <<service, broker, link, gen>> /\ events' = Append(events, n)
  BY DEF Tells, IInv, TypeOK
<1>3. told \in SUBSET EventOps /\ x.told \subseteq told /\ (e = "resolved" => "resolved" \in told)
  BY <1>1 DEF Asks
<1> HIDE DEF x, told
<1>4. /\ a \in Asks /\ a.gen = x.gen /\ a.frames = x.frames /\ a.from = x.from
      /\ a.taken = x.taken /\ a.told = told
  BY <1>1, <1>3 DEF Asks
<1> HIDE DEF a
<1>5. AskOK(a, wire[i]) /\ RecordOK(records[i], a, wire[i], sends[i].on)
  BY <1>1, <1>3, <1>4 DEF AskOK, RecordOK
<1>6. x = ask[i]
  BY DEF x
<1>7. n \in Notifications /\ n.op = e /\ n.id = i
  BY DEF Notifications
<1> HIDE DEF n
<1>8. /\ events' \in Seq(Notifications)
      /\ \A k \in DOMAIN events' : (k \in DOMAIN events /\ events'[k] = events[k]) \/ events'[k] = n
  BY <1>2, <1>7, EventsKnown
<1>9. ASSUME NEW k \in DOMAIN events', events'[k].op = "resolved"
      PROVE  Told(events'[k].id) \/ (events'[k].id = i /\ a.gen = gen /\ "resolved" \in a.told)
  BY <1>1, <1>3, <1>4, <1>7, <1>8, <1>9, EventsKnown
<1> QED
  BY ONLY IInv, i \in Ids, <1>1, <1>2, <1>3, <1>4, <1>5, <1>6, <1>8, <1>9, AskMoves

(* A request id that is asked anew is not being answered, and whoever      *)
(* decided about it decided about an earlier ask.                          *)
LEMMA UnaskedIs ==
  ASSUME IInv, NEW i \in Ids, ask[i].gen # gen
  PROVE  /\ ~sends[i].on /\ broker[i] = "none" /\ ~Told(i) /\ records[i].closed
         /\ records[i].gen < gen /\ ask[i].gen < gen /\ wire[i] = "none"
         /\ \A u \in Users : users[u] # Idle /\ users[u].id = i =>
              users[u].gen <= ask[i].gen /\ users[u].gen \in Nat /\ users[u].pc # "waiting"
<1>1. /\ AskOK(ask[i], wire[i]) /\ RecordOK(records[i], ask[i], wire[i], sends[i].on)
      /\ SendOK(sends[i], records[i], ask[i], broker[i], tails[i])
      /\ broker[i] \in {"none", "pending", "responding"}
      /\ gen \in Nat /\ records[i].gen \in Nat /\ ask[i].gen \in Nat
  BY RequestIs
<1>2. ask[i].gen < gen /\ wire[i] = "none" /\ records[i].gen < gen
  BY <1>1 DEF AskOK, RecordOK
<1>3. records[i].closed /\ ~sends[i].on /\ broker[i] = "none"
  BY <1>1, <1>2 DEF RecordOK, SendOK
<1>4. ASSUME NEW u \in Users, users[u] # Idle, users[u].id = i
      PROVE  users[u].gen <= ask[i].gen /\ users[u].gen \in Nat /\ users[u].pc # "waiting"
  <2>1. users[u] \in Acting /\ UserOK(users[u])
    BY <1>4, DeciderIs DEF IInv, TypeOK, UsersOK
  <2> QED BY <1>3, <1>4, <2>1, ApprovalAssumption DEF UserOK, KeptFor, Acting
<1> QED BY <1>2, <1>3, <1>4 DEF Told

Fresh == [NoAsk EXCEPT !.gen = gen]

(* A new ask: nothing was sent, taken or told.                             *)
LEMMA FreshIs ==
  ASSUME TypeOK
  PROVE  /\ Fresh \in Asks /\ Fresh.gen = gen /\ Fresh.taken = "none" /\ Fresh.told = {}
         /\ Fresh.frames = 0 /\ Fresh.from = "none"
<1>1. gen \in 0 .. MaxGen
  BY ApprovalAssumption DEF TypeOK
<1> QED BY <1>1 DEF Fresh, NoAsk, Asks

(* What a new ask leaves of the invariant, whatever becomes of the rest.   *)
LEMMA AskedAnew ==
  ASSUME IInv, NEW i \in Ids, ask[i].gen # gen, ask' = [ask EXCEPT ![i] = Fresh],
         UNCHANGED <<tails, sends, users, gen, events>>,
         \A j \in Ids : wire'[j] \in {wire[j], "none"},
         \A u \in Users : users[u].pc = "waiting" => ~records'[users[u].id].closed
  PROVE  AsksOK' /\ TailsOK' /\ SendersOK' /\ UsersOK' /\ FromOK' /\ ToldOK'
         /\ ask' \in [Ids -> Asks]
<1> USE DEF IInv
<1>0. /\ ask'[i] = Fresh /\ ask \in [Ids -> Asks] /\ gen \in Nat
      /\ \A j \in Ids \ {i} : ask'[j] = ask[j]
  BY RequestIs DEF TypeOK
<1>1. AsksOK'
  <2>1. ASSUME NEW j \in Ids \ {i} PROVE AskOK(ask'[j], wire'[j])
    BY <1>0 DEF AsksOK, AskOK
  <2>2. AskOK(ask'[i], wire'[i])
    BY <1>0, FreshIs, UnaskedIs DEF AskOK, Decisions
  <2>3. \A j \in Ids : AskOK(ask'[j], wire'[j])
    BY <2>1, <2>2
  <2> QED BY <2>3 DEF AsksOK, AskOK
<1>2. TailsOK' /\ SendersOK'
  BY DEF TailsOK, QueuedOK, SendersOK
<1>3. UsersOK'
  <2> SUFFICES ASSUME NEW u \in Users, users[u] # Idle
               PROVE  KeptFor(users[u], ask'[users[u].id])
    BY DEF UsersOK, UserOK, KeptFor
  <2>1. KeptFor(users[u], ask[users[u].id]) /\ users[u].id \in Ids
    BY DeciderIs DEF UsersOK, UserOK, TypeOK, Acting
  <2>2. CASE users[u].id = i
    <3>1. users[u].gen < gen
      <4>1. users[u].gen <= ask[i].gen /\ users[u].gen \in Nat /\ ask[i].gen < gen
        BY <2>2, UnaskedIs
      <4>2. ask[i].gen \in Nat
        BY RequestIs
      <4> QED BY <1>0, <4>1, <4>2
    <3>2. users[u].gen \in Nat
      BY <2>2, UnaskedIs
    <3> QED BY <1>0, <2>2, <3>1, <3>2, FreshIs DEF KeptFor
  <2>3. CASE users[u].id # i
    BY <1>0, <2>1, <2>3
  <2> QED BY <2>2, <2>3
<1>4. FromOK'
  BY <1>0, FreshIs, ApprovalAssumption DEF FromOK
<1>5. ToldOK'
  <2>1. \A j \in Ids : Told(j) => Told(j)'
    BY <1>0, UnaskedIs DEF Told
  <2>2. ASSUME NEW k \in DOMAIN events, events[k].op = "resolved" PROVE Told(events[k].id)'
    <3>1. events[k] \in Notifications
      BY DEF TypeOK
    <3>2. events[k].id \in Ids /\ Told(events[k].id)
      BY <2>2, <3>1 DEF Notifications, ToldOK
    <3> QED BY <2>1, <3>2 DEF Told
  <2>3. ASSUME NEW j \in Ids, NEW k \in DOMAIN tails[j], tails[j][k].op = "resolved"
        PROVE  Told(j)'
    BY <2>1, <2>3 DEF ToldOK
  <2> QED BY <2>2, <2>3 DEF ToldOK, Told
<1>6. ask' \in [Ids -> Asks]
  BY <1>0, FreshIs
<1> QED BY <1>1, <1>2, <1>3, <1>4, <1>5, <1>6

(* What waits for its end is open.                                         *)
LEMMA WaitingIs ==
  ASSUME IInv
  PROVE  /\ users \in [Users -> Deciders] /\ records \in [Ids -> Records]
         /\ \A u \in Users : users[u].pc = "waiting" =>
              users[u].id \in Ids /\ ~records[users[u].id].closed
<1>1. users \in [Users -> Deciders] /\ records \in [Ids -> Records]
  BY DEF IInv, TypeOK
<1>2. ASSUME NEW u \in Users, users[u].pc = "waiting"
      PROVE  users[u].id \in Ids /\ ~records[users[u].id].closed
  BY <1>1, <1>2, DeciderIs DEF IInv, UsersOK, UserOK, Acting
<1> QED BY <1>1, <1>2

(* An ask for which there is no room ends the connection for good.         *)
LEMMA OverloadedPreserves ==
  ASSUME IInv, NEW i \in Ids, Overloaded(i)
  PROVE  IInv'
<1>1. /\ ask[i].gen # gen /\ ask' = [ask EXCEPT ![i] = Fresh]
      /\ link' = "failed" /\ broker' = [j \in Ids |-> "none"] /\ wire' = [j \in Ids |-> "none"]
      /\ UNCHANGED <<records, tails, sends, users, closed, gen, events>>
  BY DEF Overloaded, NewAsk, service, Fresh
<1>2. AsksOK' /\ TailsOK' /\ SendersOK' /\ UsersOK' /\ FromOK' /\ ToldOK' /\ ask' \in [Ids -> Asks]
  BY <1>1, AskedAnew, WaitingIs
<1>3. \A j \in Ids \ {i} : ask'[j] = ask[j]
  BY <1>1 DEF IInv, TypeOK
<1>4. ask'[i] = Fresh /\ ~sends[i].on /\ records[i].gen < gen /\ records[i].closed
      /\ records[i].gen \in Nat /\ gen \in Nat
  BY <1>1, UnaskedIs, RequestIs DEF IInv, TypeOK
<1>5. RecordsOK'
  <2>1. ASSUME NEW j \in Ids \ {i} PROVE RecordOK(records[j], ask'[j], "none", sends[j].on)
    BY <1>3, RequestIs DEF RecordOK, Decisions
  <2>2. RecordOK(records[i], ask'[i], "none", sends[i].on)
    <3>1. ask'[i].gen = gen
      BY <1>4, FreshIs DEF IInv
    <3>2. RecordOK(records[i], ask[i], wire[i], sends[i].on)
      BY RequestIs
    <3> QED BY <1>4, <3>1, <3>2 DEF RecordOK
  <2>3. \A j \in Ids : RecordOK(records[j], ask'[j], "none", sends[j].on)
    BY <2>1, <2>2
  <2> QED BY <1>1, <2>3 DEF RecordsOK, RecordOK
<1>6. SendsOK'
  <2>1. ASSUME NEW j \in Ids \ {i} PROVE SendOK(sends[j], records[j], ask'[j], "none", tails[j])
    BY <1>3, RequestIs DEF SendOK
  <2>2. SendOK(sends[i], records[i], ask'[i], "none", tails[i])
    BY <1>4 DEF SendOK
  <2>3. \A j \in Ids : SendOK(sends[j], records[j], ask'[j], "none", tails[j])
    BY <2>1, <2>2
  <2> QED BY <1>1, <2>3 DEF SendsOK, SendOK
<1>7. LinkOK'
  BY <1>1 DEF LinkOK
<1>8. TypeOK'
  <2>1. Held' = {}
    BY <1>1 DEF Held
  <2>2. Cardinality({}) = 0
    BY FS_EmptySet
  <2> QED BY <1>1, <1>2, <2>1, <2>2, ApprovalAssumption DEF IInv, TypeOK, Tracked
<1> QED BY <1>2, <1>5, <1>6, <1>7, <1>8 DEF IInv

(* A lost connection.                                                      *)
LEMMA LinkLostPreserves ==
  ASSUME IInv, LinkLost
  PROVE  IInv'
<1> USE DEF IInv
<1>1. /\ link' = "down" /\ broker' = [j \in Ids |-> "none"] /\ wire' = [j \in Ids |-> "none"]
      /\ UNCHANGED <<records, tails, sends, users, closed, gen, events, ask>>
  BY DEF LinkLost, service
<1>2. AsksOK'
  <2>1. \A j \in Ids : AskOK(ask[j], "none")
    BY RequestIs DEF AskOK
  <2> QED BY <1>1, <2>1 DEF AsksOK, AskOK
<1>3. RecordsOK'
  <2>1. \A j \in Ids : RecordOK(records[j], ask[j], "none", sends[j].on)
    BY RequestIs DEF RecordOK, Decisions
  <2> QED BY <1>1, <2>1 DEF RecordsOK, RecordOK
<1>4. SendsOK'
  <2>1. \A j \in Ids : SendOK(sends[j], records[j], ask[j], "none", tails[j])
    BY RequestIs DEF SendOK
  <2> QED BY <1>1, <2>1 DEF SendsOK, SendOK
<1>5. LinkOK' /\ TailsOK' /\ SendersOK' /\ FromOK' /\ ToldOK'
  BY <1>1 DEF LinkOK, TailsOK, QueuedOK, SendersOK, FromOK, ToldOK, Told
<1>6. UsersOK'
  BY <1>1 DEF UsersOK, UserOK, KeptFor
<1>7. TypeOK'
  <2>1. Held' = {}
    BY <1>1 DEF Held
  <2>2. Cardinality({}) = 0
    BY FS_EmptySet
  <2> QED BY <1>1, <2>1, <2>2, ApprovalAssumption DEF TypeOK, Tracked
<1> QED BY <1>2, <1>3, <1>4, <1>5, <1>6, <1>7

(* Nothing of the invariant depends on an admission.                       *)
LEMMA AdmitsPreserves ==
  ASSUME IInv, Admits \/ UNCHANGED vars
  PROVE  IInv'
<1>1. /\ UNCHANGED <<records, tails, sends, users, closed, broker, gen, events, wire, ask>>
      /\ link' = link \/ (Connected /\ link' = "up")
  BY DEF Admits, service, codex, vars, Connected
<1>2. AsksOK' /\ RecordsOK' /\ SendsOK'
  BY <1>1 DEF IInv, AsksOK, AskOK, RecordsOK, RecordOK, SendsOK, SendOK
<1>3. LinkOK' /\ TailsOK' /\ SendersOK' /\ FromOK' /\ ToldOK'
  BY <1>1 DEF IInv, LinkOK, Connected, TailsOK, QueuedOK, SendersOK, FromOK, ToldOK, Told
<1>4. UsersOK'
  BY <1>1 DEF IInv, UsersOK, UserOK, KeptFor
<1>5. TypeOK'
  BY <1>1 DEF IInv, TypeOK, Tracked, Held
<1> QED BY <1>2, <1>3, <1>4, <1>5 DEF IInv

(* The next connection finds nothing open, nothing being sent and nothing  *)
(* of the last one in the pipeline.                                        *)
LEMMA ReconnectsPreserves ==
  ASSUME IInv, Reconnects
  PROVE  IInv'
<1>1. /\ link = "down" /\ gen < MaxGen /\ ~closed /\ events = <<>> /\ ~Observing
      /\ \A i \in Ids : records[i].gen = gen => records[i].closed
      /\ link' = "resubscribing" /\ gen' = gen + 1
      /\ UNCHANGED <<records, tails, sends, users, closed, broker, events, wire, ask>>
  BY DEF Reconnects, Drained, service, codex
<1>2. ~Connected /\ gen \in 1 .. MaxGen /\ gen' \in 1 .. MaxGen /\ gen \in Nat
  BY <1>1, ApprovalAssumption DEF Connected, IInv, TypeOK
<1>3. ASSUME NEW i \in Ids
      PROVE  /\ records[i].closed /\ ~sends[i].on /\ wire[i] = "none" /\ broker[i] = "none"
             /\ records[i].gen <= gen /\ ask[i].gen <= gen
  <2>1. records[i].closed
    BY <1>1, RequestIs DEF RecordOK
  <2>2. ~sends[i].on
    BY <1>1, <2>1, RequestIs DEF SendOK
  <2>3. wire[i] = "none" /\ broker[i] = "none"
    BY <1>2, RequestIs
  <2>4. records[i].gen <= gen /\ ask[i].gen <= gen
    BY RequestIs DEF RecordOK, AskOK
  <2> QED BY <2>1, <2>2, <2>3, <2>4
<1>4. AsksOK'
  <2>1. ASSUME NEW i \in Ids PROVE AskOK(ask[i], wire[i])'
    <3>1. AskOK(ask[i], wire[i]) /\ ask[i].gen \in Nat
      BY RequestIs
    <3> QED BY <1>1, <1>2, <1>3, <3>1 DEF AskOK
  <2> QED BY <2>1 DEF AsksOK
<1>5. RecordsOK'
  <2>1. ASSUME NEW i \in Ids PROVE RecordOK(records[i], ask[i], wire[i], sends[i].on)'
    <3>1. RecordOK(records[i], ask[i], wire[i], sends[i].on)
      BY RequestIs
    <3> QED BY <1>1, <1>3, <3>1 DEF RecordOK
  <2> QED BY <2>1 DEF RecordsOK
<1>6. SendsOK' /\ LinkOK'
  BY <1>1, <1>3 DEF SendsOK, SendOK, LinkOK
<1>7. TailsOK' /\ SendersOK' /\ FromOK'
  BY <1>1 DEF IInv, TailsOK, QueuedOK, SendersOK, FromOK
<1>8. UsersOK'
  BY <1>1 DEF IInv, UsersOK, UserOK, KeptFor
<1>9. ToldOK'
  <2>1. ASSUME NEW i \in Ids, NEW k \in DOMAIN tails[i] PROVE tails[i][k].op # "resolved"
    <3>1. k \in 1 .. Len(tails[i])
      BY TailIs DEF IInv
    <3> QED BY <1>1, <3>1 DEF Observing, EventOps
  <2> QED BY <1>1, <2>1 DEF ToldOK
<1>10. TypeOK'
  BY <1>1, <1>2 DEF IInv, TypeOK, Tracked, Held
<1> QED BY <1>4, <1>5, <1>6, <1>7, <1>8, <1>9, <1>10 DEF IInv

(* The service is closed, with a response that is being sent or without.   *)
LEMMA ClosePreserves ==
  ASSUME IInv, Close
  PROVE  IInv'
<1> DEFINE rs == [i \in Ids |-> Supersede(records[i])]
<1>1. /\ closed' = TRUE /\ records' = rs /\ users' = NotifyWaiters(users, rs)
      /\ UNCHANGED <<tails, sends, broker, link, gen, events, wire, ask>>
  BY DEF Close, Put, codex
<1>2. ASSUME NEW i \in Ids
      PROVE  /\ rs[i] \in Records /\ rs[i].gen = records[i].gen
             /\ RecordOK(rs[i], ask[i], wire[i], sends[i].on)
             /\ rs[i].outcome = records[i].outcome /\ rs[i].decision = records[i].decision
  BY RequestIs, SupersedeIs, ClosingKeeps
<1>3. rs \in [Ids -> Records]
  BY <1>2
<1> HIDE DEF rs
<1>4. RecordsOK'
  <2>1. \A i \in Ids : RecordOK(records'[i], ask'[i], wire'[i], sends'[i].on)
    BY <1>1, <1>2
  <2> QED BY <1>1, <2>1 DEF RecordsOK, RecordOK
<1>5. SendsOK'
  <2>1. ASSUME NEW i \in Ids PROVE SendOK(sends[i], records[i], ask[i], broker[i], tails[i])'
    <3>1. SendOK(sends[i], records[i], ask[i], broker[i], tails[i])
      BY RequestIs
    <3> QED BY <1>1, <1>2, <3>1 DEF SendOK
  <2> QED BY <2>1 DEF SendsOK
<1>6. \A u \in Users : users[u] # Idle => KeptFor(users[u], ask'[users[u].id])
  BY <1>1 DEF IInv, UsersOK, UserOK
<1>7. \A u \in Users : users[u].pc = "waiting" => rs[users[u].id].gen = ask'[users[u].id].gen
  <2> SUFFICES ASSUME NEW u \in Users, users[u].pc = "waiting"
               PROVE  rs[users[u].id].gen = ask[users[u].id].gen
    BY <1>1
  <2> DEFINE i == users[u].id
  <2>1. i \in Ids /\ ~records[i].closed
    BY WaitingIs
  <2>2. /\ AskOK(ask[i], wire[i]) /\ RecordOK(records[i], ask[i], wire[i], sends[i].on)
        /\ gen \in Nat /\ ask[i].gen \in Nat
    BY <2>1, RequestIs
  <2> QED BY <1>2, <2>1, <2>2 DEF AskOK, RecordOK
<1>8. UsersOK' /\ users' \in [Users -> Deciders] /\ \A u \in Users : Quiet(u)
  <2>1. users \in [Users -> Deciders]
    BY WaitingIs
  <2> QED BY <1>1, <1>3, <1>4, <1>6, <1>7, <2>1, TruthIsTold
<1>9. TailsOK'
  <2> SUFFICES ASSUME NEW j \in Ids, NEW k \in DOMAIN tails[j], tails[j][k].user \in Users
               PROVE  QueuedOK(j, k)'
    BY <1>1 DEF IInv, TailsOK, QueuedOK
  <2>1. users'[tails[j][k].user] = users[tails[j][k].user]
    BY <1>8, QueuedIs DEF Quiet, IInv
  <2> QED BY <1>1, <2>1 DEF IInv, TailsOK, QueuedOK
<1>10. SendersOK' /\ FromOK'
  BY <1>1, <1>8 DEF IInv, SendersOK, FromOK, Quiet
<1>11. LinkOK' /\ ToldOK'
  BY <1>1 DEF IInv, LinkOK, Connected, ToldOK, Told
<1>12. AsksOK'
  BY <1>1 DEF IInv, AsksOK, AskOK
<1>13. TypeOK'
  <2>1. Tracked' = Tracked /\ Held' = Held
    BY <1>1, <1>2 DEF Tracked, Held
  <2> QED BY <1>1, <1>3, <1>8, <2>1 DEF IInv, TypeOK
<1> QED BY <1>4, <1>5, <1>8, <1>9, <1>10, <1>11, <1>12, <1>13 DEF IInv

(* Every open approval is of this connection.                              *)
LEMMA NothingToReconcile ==
  ASSUME IInv, NEW rs, rs \in [Ids -> Records],
         \A i \in Ids : rs[i] = records[i] \/ rs[i].closed
  PROVE  Reconciled(rs) = rs
<1>1. ASSUME NEW i \in Ids, rs[i].gen # gen PROVE Supersede(rs[i]) = rs[i]
  <2>1. rs[i].closed
    BY <1>1, RequestIs DEF RecordOK
  <2> QED BY <2>1 DEF Supersede
<1>2. \A i \in Ids : Reconciled(rs)[i] = rs[i]
  BY <1>1 DEF Reconciled
<1> QED BY <1>2 DEF Reconciled

(* Room is made by forgetting one approval that has ended, and not more    *)
(* are tracked than there is room for.                                     *)
LEMMA RoomIs ==
  ASSUME IInv, NEW i \in Ids, NEW n \in Nat, NEW rs \in RoomFor(i, n), NEW p \in Records,
         p.gen # 0
  PROVE  /\ rs \in [Ids -> Records]
         /\ \A j \in Ids : \/ rs[j] = records[j]
                           \/ rs[j] = NoRecord /\ records[j].closed /\ records[j].gen # 0
         /\ Cardinality({j \in Ids : [rs EXCEPT ![i] = p][j].gen # 0}) <= Capacity
<1> DEFINE New == {j \in Ids : [rs EXCEPT ![i] = p][j].gen # 0}
<1>1. /\ records \in [Ids -> Records] /\ NoRecord \in Records /\ NoRecord.gen = 0
      /\ IsFiniteSet(Tracked) /\ Cardinality(Tracked) \in Nat /\ Cardinality(Tracked) <= Capacity
      /\ Capacity \in Nat
  <2>1. records \in [Ids -> Records] /\ Cardinality(Tracked) <= Capacity
    BY DEF IInv, TypeOK
  <2>2. Tracked \subseteq Ids
    BY DEF Tracked
  <2>3. IsFiniteSet(Tracked) /\ Cardinality(Tracked) \in Nat
    BY <2>2, ApprovalAssumption, FS_Subset, FS_CardinalityType
  <2>4. NoRecord \in Records /\ NoRecord.gen = 0
    BY ApprovalAssumption DEF NoRecord, Records
  <2> QED BY <2>1, <2>3, <2>4, ApprovalAssumption
<1>2. CASE i \in Tracked
  <2>1. rs = records
    BY <1>2 DEF RoomFor
  <2>2. New = Tracked
    BY <1>1, <1>2, <2>1 DEF Tracked
  <2> QED BY <1>1, <2>1, <2>2
<1>3. CASE i \notin Tracked /\ Cardinality(Tracked) + n < Capacity
  <2>1. rs = records
    BY <1>3 DEF RoomFor
  <2>2. New = Tracked \cup {i}
    BY <1>1, <2>1 DEF Tracked
  <2>3. Cardinality(New) = Cardinality(Tracked) + 1
    BY <1>1, <1>3, <2>2, FS_AddElement
  <2> QED BY <1>1, <1>3, <2>1, <2>3
<1>4. CASE i \notin Tracked /\ ~(Cardinality(Tracked) + n < Capacity)
  <2>1. PICK j \in Tracked \ Unresolved : rs = [records EXCEPT ![j] = NoRecord]
    BY <1>4 DEF RoomFor
  <2>2. j \in Ids /\ records[j].closed /\ records[j].gen # 0 /\ i # j
    BY <1>4, <2>1 DEF Tracked, Unresolved
  <2>3. /\ rs \in [Ids -> Records] /\ rs[j] = NoRecord
        /\ \A k \in Ids \ {j} : rs[k] = records[k]
    BY <1>1, <2>1, <2>2
  <2>4. New = (Tracked \ {j}) \cup {i}
    BY <1>1, <2>2, <2>3 DEF Tracked
  <2>5. IsFiniteSet(Tracked \ {j}) /\ Cardinality(Tracked \ {j}) = Cardinality(Tracked) - 1
    BY <1>1, <2>1, FS_RemoveElement
  <2>6. Cardinality(New) = Cardinality(Tracked)
    <3> DEFINE Rest == Tracked \ {j}
    <3>1. i \notin Rest /\ IsFiniteSet(Rest) /\ New = Rest \cup {i}
      BY <1>4, <2>4, <2>5
    <3> HIDE DEF Rest, New
    <3>2. Cardinality(New) = Cardinality(Rest) + 1
      BY <3>1, FS_AddElement
    <3>3. Cardinality(Rest) = Cardinality(Tracked) - 1
      BY <2>5 DEF Rest
    <3> QED BY <1>1, <3>2, <3>3
  <2> QED BY <1>1, <2>2, <2>3, <2>6
<1> QED BY <1>2, <1>3, <1>4

(* A request is registered at the broker and at the service, in the place  *)
(* of one that has ended when there is no other room.                      *)
LEMMA RegisterPreserves ==
  ASSUME IInv, NEW i \in Ids, Register(i)
  PROVE  IInv'
<1>0. PICK n \in Elsewhere : \E late \in BOOLEAN, rs \in RoomFor(i, n) :
        /\ Cardinality(Held) + n < Capacity
        /\ Put(users, [Reconciled(rs) EXCEPT ![i] = Pending(late)])
  BY DEF Register
<1>1. PICK late \in BOOLEAN, rs \in RoomFor(i, n) :
        /\ Cardinality(Held) + n < Capacity
        /\ records' = [Reconciled(rs) EXCEPT ![i] = Pending(late)]
        /\ users' = NotifyWaiters(users, records')
  BY <1>0 DEF Put
<1> DEFINE p == Pending(late)
<1>2. /\ ask[i].gen # gen /\ Connected /\ ~closed /\ ask' = [ask EXCEPT ![i] = Fresh]
      /\ broker' = [broker EXCEPT ![i] = "pending"]
      /\ UNCHANGED <<tails, sends, link, gen, events, closed, wire>>
  BY DEF Register, NewAsk, Fresh
<1>3. n \in Nat
  BY ApprovalAssumption DEF Elsewhere
<1>4. /\ p \in Records /\ p.gen = gen /\ p.gen # 0 /\ ~p.closed /\ p.kind = "none" /\ ~p.resolved
      /\ p.state \in {"pending", "expired"} /\ (p.state = "pending" => p.outcome = "none")
  BY PendingIs, RequestIs DEF IInv
<1> HIDE DEF p
<1>5. /\ rs \in [Ids -> Records]
      /\ \A j \in Ids : \/ rs[j] = records[j]
                        \/ rs[j] = NoRecord /\ records[j].closed /\ records[j].gen # 0
      /\ Cardinality({j \in Ids : [rs EXCEPT ![i] = p][j].gen # 0}) <= Capacity
  BY <1>3, <1>4, RoomIs
<1>6. records' = [rs EXCEPT ![i] = p]
  <2>1. \A j \in Ids : rs[j] = records[j] \/ rs[j].closed
    BY <1>5 DEF NoRecord
  <2> QED BY <1>1, <1>5, <2>1, NothingToReconcile DEF p
<1>7. /\ records' \in [Ids -> Records] /\ records'[i] = p
      /\ \A j \in Ids \ {i} :
           \/ records'[j] = records[j]
           \/ records'[j] = NoRecord /\ records[j].closed /\ records[j].gen # 0
  BY <1>4, <1>5, <1>6
<1>8. /\ ~sends[i].on /\ broker[i] = "none" /\ wire[i] = "none" /\ records[i].closed
  BY <1>2, UnaskedIs
<1>9. \A u \in Users : users[u].pc = "waiting" => ~records'[users[u].id].closed
  BY <1>7, <1>8, WaitingIs
<1>10. users' = users
  BY <1>1, <1>7, <1>9, NobodyNotified, WaitingIs
<1>11. AsksOK' /\ TailsOK' /\ SendersOK' /\ UsersOK' /\ FromOK' /\ ToldOK' /\ ask' \in [Ids -> Asks]
  BY <1>2, <1>9, <1>10, AskedAnew
<1>12. ask'[i] = Fresh /\ \A j \in Ids \ {i} : ask'[j] = ask[j]
  BY <1>2 DEF IInv, TypeOK
<1>13. /\ Fresh.gen = gen /\ Fresh.taken = "none" /\ Fresh.told = {}
       /\ Fresh.frames = 0 /\ Fresh.from = "none"
  BY FreshIs DEF IInv
<1>14. RecordsOK'
  <2>1. ASSUME NEW j \in Ids \ {i} PROVE RecordOK(records'[j], ask[j], wire[j], sends[j].on)
    <3>1. CASE records'[j] = records[j]
      BY <3>1, RequestIs
    <3>2. CASE records'[j] = NoRecord /\ records[j].gen # 0
      <4>1. RecordOK(records[j], ask[j], wire[j], sends[j].on) /\ ask[j].gen \in Nat
            /\ records[j].gen \in Nat
        BY RequestIs
      <4>2. ask[j].gen > 0
        BY <3>2, <4>1 DEF RecordOK
      <4> QED BY <3>2, <4>1, <4>2 DEF RecordOK, NoRecord, Answered
    <3> QED BY <1>7, <3>1, <3>2
  <2>2. RecordOK(p, Fresh, "none", FALSE)
    BY <1>4, <1>13, RequestIs DEF RecordOK, Answered
  <2>3. wire'[i] = "none" /\ sends'[i].on = FALSE
    BY <1>2, <1>8, RequestIs, SendIs
  <2>4. \A j \in Ids : RecordOK(records'[j], ask'[j], wire'[j], sends'[j].on)
    BY <1>2, <1>7, <1>12, <2>1, <2>2, <2>3
  <2> QED BY <1>2, <2>4 DEF RecordsOK, RecordOK
<1>15. SendsOK'
  <2>1. ASSUME NEW j \in Ids \ {i} PROVE SendOK(sends[j], records'[j], ask[j], broker[j], tails[j])
    <3>1. SendOK(sends[j], records[j], ask[j], broker[j], tails[j])
      BY RequestIs
    <3>2. sends[j].on => records'[j] = records[j]
      BY <1>2, <1>7, <3>1 DEF SendOK
    <3> QED BY <3>1, <3>2 DEF SendOK
  <2>2. SendOK(sends[i], p, Fresh, "pending", tails[i])
    BY <1>8, <1>13 DEF SendOK
  <2>3. broker'[i] = "pending" /\ \A j \in Ids \ {i} : broker'[j] = broker[j]
    BY <1>2 DEF IInv, TypeOK
  <2>4. \A j \in Ids : SendOK(sends'[j], records'[j], ask'[j], broker'[j], tails'[j])
    BY <1>2, <1>7, <1>12, <2>1, <2>2, <2>3
  <2> QED BY <1>2, <2>4 DEF SendsOK, SendOK
<1>16. LinkOK'
  BY <1>2 DEF LinkOK, Connected
<1>17. TypeOK'
  <2>1. Tracked' = {j \in Ids : [rs EXCEPT ![i] = p][j].gen # 0}
    BY <1>6 DEF Tracked
  <2>2. Held' = Held \cup {i}
    BY <1>2 DEF Held, IInv, TypeOK
  <2>3. i \notin Held /\ IsFiniteSet(Held) /\ Cardinality(Held) \in Nat
    <3>1. i \notin Held /\ Held \subseteq Ids
      BY <1>8 DEF Held
    <3> QED BY <3>1, ApprovalAssumption, FS_Subset, FS_CardinalityType
  <2>4. Cardinality(Held') = Cardinality(Held) + 1
    BY <2>2, <2>3, FS_AddElement
  <2>5. Cardinality(Held') <= Capacity
    BY <1>1, <1>3, <2>3, <2>4, ApprovalAssumption
  <2>6. Cardinality(Tracked') <= Capacity
    BY <1>5, <2>1
  <2> QED BY <1>2, <1>7, <1>10, <1>11, <2>5, <2>6 DEF IInv, TypeOK
<1> QED BY <1>11, <1>14, <1>15, <1>16, <1>17 DEF IInv

----------------------------------------------------------------------------
(* Operations queue up.                                                    *)

(* An operation without a user goes to the end of a tail.                  *)
Grown(i) ==
  \/ tails'[i] = tails[i]
  \/ \E o \in Operations :
       /\ tails'[i] = Append(tails[i], o) /\ o.user \notin Users /\ o.op # "respond"
       /\ o.op = "resolved" => Told(i)

(* A grown tail keeps its operations, and its head.                        *)
LEMMA GrownIs ==
  ASSUME TypeOK, NEW i \in Ids, Grown(i)
  PROVE  /\ tails'[i] \in Seq(Operations)
         /\ \A k \in DOMAIN tails'[i] :
              \/ k \in DOMAIN tails[i] /\ tails'[i][k] = tails[i][k]
              \/ /\ tails'[i][k].user \notin Users /\ tails'[i][k].op # "respond"
                 /\ tails'[i][k].op = "resolved" => Told(i)
         /\ tails[i] # <<>> => tails'[i] # <<>> /\ Head(tails'[i]) = Head(tails[i])
<1>1. tails[i] \in Seq(Operations)
  BY DEF TypeOK
<1>2. CASE tails'[i] = tails[i]
  BY <1>1, <1>2
<1>3. CASE tails'[i] # tails[i]
  <2>1. PICK o \in Operations :
          /\ tails'[i] = Append(tails[i], o) /\ o.user \notin Users /\ o.op # "respond"
          /\ o.op = "resolved" => Told(i)
    BY <1>3 DEF Grown
  <2> DEFINE t == tails[i]
  <2> HIDE DEF t
  <2>2. t \in Seq(Operations) =>
          /\ Append(t, o) \in Seq(Operations)
          /\ \A k \in DOMAIN Append(t, o) : (k \in DOMAIN t /\ Append(t, o)[k] = t[k]) \/ Append(t, o)[k] = o
          /\ t # <<>> => Append(t, o) # <<>> /\ Head(Append(t, o)) = Head(t)
    OBVIOUS
  <2> QED BY <1>1, <2>1, <2>2 DEF t
<1> QED BY <1>2, <1>3

(* Only operations are queued, and a request becomes due or its timer      *)
(* fires.                                                                  *)
SameButTimes(r, q) ==
  /\ q.gen = r.gen /\ q.state = r.state /\ q.kind = r.kind /\ q.decision = r.decision
  /\ q.outcome = r.outcome /\ q.resolved = r.resolved /\ q.closed = r.closed

(* The timer and the due time are all that differs.                        *)
LEMMA TimesChange ==
  ASSUME NEW r \in Records
  PROVE  LET q == [r EXCEPT !.timer = FALSE]
             p == [r EXCEPT !.due = TRUE] IN
         q \in Records /\ SameButTimes(r, q) /\ p \in Records /\ SameButTimes(r, p)
BY DEF Records, SameButTimes

(* Queued operations and times keep the invariant.                         *)
LEMMA QueueKeeps ==
  ASSUME IInv, records' \in [Ids -> Records],
         \A i \in Ids : SameButTimes(records[i], records'[i]),
         DOMAIN tails' = Ids, tails' = [i \in Ids |-> tails'[i]], \A i \in Ids : Grown(i),
         UNCHANGED <<sends, users, broker, link, gen, closed, wire, ask>>,
         events' \in Seq(Notifications),
         \A k \in DOMAIN events' : events'[k].op = "resolved" => Told(events'[k].id)
  PROVE  IInv'
<1>1. AsksOK' /\ LinkOK' /\ SendersOK' /\ FromOK'
  BY DEF IInv, AsksOK, AskOK, LinkOK, Connected, SendersOK, FromOK
<1>2. RecordsOK'
  <2>1. ASSUME NEW i \in Ids PROVE RecordOK(records'[i], ask[i], wire[i], sends[i].on)
    BY RequestIs DEF RecordOK, SameButTimes, Answered
  <2> QED BY <2>1 DEF RecordsOK, RecordOK
<1>3. SendsOK'
  <2>1. ASSUME NEW i \in Ids PROVE SendOK(sends[i], records'[i], ask[i], broker[i], tails'[i])
    <3>1. SendOK(sends[i], records[i], ask[i], broker[i], tails[i])
      BY RequestIs
    <3>2. tails[i] # <<>> => tails'[i] # <<>> /\ Head(tails'[i]) = Head(tails[i])
      BY GrownIs DEF IInv
    <3>3. SameButTimes(records[i], records'[i])
      OBVIOUS
    <3> QED BY <3>1, <3>2, <3>3 DEF SendOK, SameButTimes
  <2> QED BY <2>1 DEF SendsOK, SendOK
<1>4. TailsOK'
  <2> SUFFICES ASSUME NEW i \in Ids, NEW k \in DOMAIN tails'[i]
               PROVE  (tails'[i][k].op = "respond" <=> tails'[i][k].user \in Users)
                      /\ QueuedOK(i, k)'
    BY DEF TailsOK
  <2>1. /\ \/ k \in DOMAIN tails[i] /\ tails'[i][k] = tails[i][k]
           \/ tails'[i][k].user \notin Users /\ tails'[i][k].op # "respond"
        /\ \A n \in DOMAIN tails'[i] :
             tails'[i][n].user \in Users => n \in DOMAIN tails[i] /\ tails'[i][n] = tails[i][n]
    BY GrownIs DEF IInv
  <2>2. CASE tails'[i][k].user \notin Users
    <3>1. tails'[i][k].op # "respond"
      BY <2>1, <2>2 DEF IInv, TailsOK
    <3> QED BY <2>2, <3>1 DEF QueuedOK
  <2>3. CASE tails'[i][k].user \in Users
    <3>1. k \in DOMAIN tails[i] /\ tails'[i][k] = tails[i][k]
      BY <2>1, <2>3
    <3>2. tails[i][k].op = "respond" /\ QueuedOK(i, k)
      BY <2>3, <3>1 DEF IInv, TailsOK
    <3> QED BY <2>1, <2>3, <3>1, <3>2 DEF QueuedOK
  <2> QED BY <2>2, <2>3
<1>5. UsersOK'
  <2> SUFFICES ASSUME NEW u \in Users, users[u] # Idle
               PROVE  KeptFor(users[u], ask[users[u].id])
                      /\ (users[u].pc = "waiting" => ~records'[users[u].id].closed)
    BY DEF UsersOK, UserOK, KeptFor
  <2>1. UserOK(users[u]) /\ users[u].id \in Ids
    BY DeciderIs DEF IInv, UsersOK, TypeOK, Acting
  <2> QED BY <2>1 DEF UserOK, SameButTimes
<1>6. ToldOK'
  <2>1. ASSUME NEW i \in Ids, NEW k \in DOMAIN tails'[i], tails'[i][k].op = "resolved"
        PROVE  Told(i)
    BY <2>1, GrownIs DEF IInv, ToldOK
  <2> QED BY <2>1 DEF ToldOK, Told
<1>7. TypeOK'
  <2>1. Tracked' = Tracked /\ Held' = Held
    BY DEF Tracked, Held, SameButTimes
  <2>2. tails' \in [Ids -> Seq(Operations)]
    BY GrownIs DEF IInv
  <2> QED BY <2>1, <2>2 DEF IInv, TypeOK
<1> QED BY <1>1, <1>2, <1>3, <1>4, <1>5, <1>6, <1>7 DEF IInv

(* A queued operation of HostDeck or of the event pipeline.                *)
LEMMA OpIs ==
  ASSUME IInv, NEW i \in Ids, NEW op \in {"expire", "disconnect"} \cup EventOps
  PROVE  LET o == Op(op, records[i].gen, "none") IN
         o \in Operations /\ o.op = op /\ o.user \notin Users /\ o.op # "respond"
<1>1. records[i].gen \in 0 .. MaxGen
  BY RequestIs DEF Records
<1> QED BY <1>1, ApprovalAssumption DEF Op, Operations, EventOps

(* An approval differs from itself in nothing.                             *)
LEMMA RecordsSame ==
  ASSUME IInv
  PROVE  records \in [Ids -> Records] /\ \A i \in Ids : SameButTimes(records[i], records[i])
BY DEF IInv, TypeOK, SameButTimes

(* The pipeline hands over a notification.                                 *)
LEMMA ObserveEventPreserves ==
  ASSUME IInv, ObserveEvent
  PROVE  IInv'
<1> DEFINE e == Head(events)
           o == Op(e.op, records[e.id].gen, "none")
<1>1. /\ events # <<>> /\ events' = Tail(events)
      /\ tails' = tails \/ tails' = [tails EXCEPT ![e.id] = Append(@, o)]
      /\ UNCHANGED <<records, sends, users, broker, link, gen, closed, wire, ask>>
  BY DEF ObserveEvent, codex
<1>2. /\ e \in Notifications /\ (e.op = "resolved" => Told(e.id))
      /\ events' \in Seq(Notifications)
      /\ \A k \in DOMAIN events' : k + 1 \in DOMAIN events /\ events'[k] = events[k + 1]
  <2>1. events \in Seq(Notifications)
    BY EventsKnown
  <2>2. e = events[1] /\ 1 \in DOMAIN events /\ e \in Notifications
    BY <1>1, <2>1
  <2>3. /\ events' \in Seq(Notifications)
        /\ \A k \in DOMAIN events' : k + 1 \in DOMAIN events /\ events'[k] = events[k + 1]
    BY <1>1, <2>1
  <2> HIDE DEF e
  <2> QED BY <2>2, <2>3, EventsKnown
<1>3. e.id \in Ids /\ e.op \in EventOps
  BY <1>2 DEF Notifications
<1>4. \A k \in DOMAIN events' : events'[k].op = "resolved" => Told(events'[k].id)
  BY <1>2, EventsKnown
<1>5. o \in Operations /\ o.op = e.op /\ o.user \notin Users /\ o.op # "respond"
  BY <1>3, OpIs
<1> HIDE DEF o, e
<1>6. tails \in [Ids -> Seq(Operations)]
  BY DEF IInv, TypeOK
<1>7. tails' = [i \in Ids |-> tails'[i]] /\ DOMAIN tails' = Ids
  BY <1>1, <1>3, <1>6
<1>8. \A i \in Ids : tails'[i] = tails[i] \/ (i = e.id /\ tails'[i] = Append(tails[i], o))
  BY <1>1, <1>3, <1>6
<1>9. \A i \in Ids : Grown(i)
  BY <1>2, <1>5, <1>8 DEF Grown
<1>10. records' \in [Ids -> Records] /\ \A i \in Ids : SameButTimes(records[i], records'[i])
  BY <1>1, RecordsSame
<1> QED BY <1>1, <1>2, <1>4, <1>7, <1>9, <1>10, QueueKeeps

(* One operation of HostDeck's own is queued.                              *)
LEMMA QueuesOne ==
  ASSUME IInv, NEW i \in Ids, NEW o \in Operations, o.user \notin Users, o.op # "respond",
         o.op # "resolved",
         tails' = [tails EXCEPT ![i] = Append(@, o)],
         records' \in [Ids -> Records], \A j \in Ids : SameButTimes(records[j], records'[j]),
         UNCHANGED <<sends, users, broker, link, gen, closed, wire, ask, events>>
  PROVE  IInv'
<1>1. tails \in [Ids -> Seq(Operations)]
  BY DEF IInv, TypeOK
<1>2. tails' = [j \in Ids |-> tails'[j]] /\ DOMAIN tails' = Ids
  BY <1>1
<1>3. \A j \in Ids : tails'[j] = tails[j] \/ tails'[j] = Append(tails[j], o)
  BY <1>1
<1>4. \A j \in Ids : Grown(j)
  BY <1>3 DEF Grown
<1> QED BY <1>2, <1>4, EventsKnown, QueueKeeps

(* The expiry timer fires and queues an expiry.                            *)
LEMMA TimerFiresPreserves ==
  ASSUME IInv, NEW i \in Ids, TimerFires(i)
  PROVE  IInv'
<1> DEFINE o == Op("expire", records[i].gen, "none")
           q == [records[i] EXCEPT !.timer = FALSE]
<1>1. /\ records' = [records EXCEPT ![i] = q] /\ tails' = [tails EXCEPT ![i] = Append(@, o)]
      /\ UNCHANGED <<sends, users, broker, link, gen, events, closed, wire, ask>>
  BY DEF TimerFires, codex
<1>2. q \in Records /\ SameButTimes(records[i], q)
  BY RequestIs, TimesChange
<1>3. o \in Operations /\ o.op = "expire" /\ o.user \notin Users
  BY OpIs
<1> HIDE DEF q, o
<1>4. records' \in [Ids -> Records] /\ \A j \in Ids : SameButTimes(records[j], records'[j])
  BY <1>1, <1>2, RecordsSame
<1> QED BY <1>1, <1>3, <1>4, QueuesOne

(* The cleanup after a lost connection queues the end of an open approval. *)
LEMMA DisconnectPreserves ==
  ASSUME IInv, NEW i \in Ids, Disconnect(i)
  PROVE  IInv'
<1> DEFINE o == Op("disconnect", records[i].gen, "none")
<1>1. /\ tails' = [tails EXCEPT ![i] = Append(@, o)]
      /\ UNCHANGED <<records, sends, users, broker, link, gen, events, closed, wire, ask>>
  BY DEF Disconnect, codex
<1>2. o \in Operations /\ o.op = "disconnect" /\ o.user \notin Users
  BY OpIs
<1> HIDE DEF o
<1> QED BY <1>1, <1>2, RecordsSame, QueuesOne

(* A request passes its expiry.                                            *)
LEMMA DuePreserves ==
  ASSUME IInv, NEW i \in Ids, Due(i)
  PROVE  IInv'
<1> DEFINE q == [records[i] EXCEPT !.due = TRUE]
<1>1. /\ records' = [records EXCEPT ![i] = q]
      /\ UNCHANGED <<tails, sends, users, broker, link, gen, events, closed, wire, ask>>
  BY DEF Due, codex, IInv, TypeOK
<1>2. q \in Records /\ SameButTimes(records[i], q)
  BY RequestIs, TimesChange
<1> HIDE DEF q
<1>3. records' \in [Ids -> Records] /\ \A j \in Ids : SameButTimes(records[j], records'[j])
  BY <1>1, <1>2, RecordsSame
<1>4. tails' = [j \in Ids |-> tails'[j]] /\ DOMAIN tails' = Ids /\ \A j \in Ids : Grown(j)
  BY <1>1 DEF IInv, TypeOK, Grown
<1> QED BY <1>1, <1>3, <1>4, EventsKnown, QueueKeeps

(* A reader of the approvals queues the expiry of those that are due.      *)
LEMMA ExpireDuePreserves ==
  ASSUME IInv, ExpireDue
  PROVE  IInv'
<1>1. PICK D \in SUBSET Ids :
        /\ tails' = [i \in Ids |->
             IF i \in D THEN Append(tails[i], Op("expire", records[i].gen, "none")) ELSE tails[i]]
        /\ Put(users, Reconciled(records))
        /\ UNCHANGED <<sends, broker, link, gen, events, closed, wire, ask>>
  BY DEF ExpireDue, codex
<1>2. Reconciled(records) = records
  BY NothingToReconcile, WaitingIs
<1>3. records' = records /\ users' = users
  BY <1>1, <1>2, WaitingIs, NobodyNotified DEF Put
<1>4. ASSUME NEW i \in Ids PROVE Grown(i)
  <2>1. LET o == Op("expire", records[i].gen, "none") IN
          o \in Operations /\ o.op = "expire" /\ o.user \notin Users
    BY OpIs
  <2>2. tails'[i] = tails[i] \/ tails'[i] = Append(tails[i], Op("expire", records[i].gen, "none"))
    BY <1>1
  <2> QED BY <2>1, <2>2 DEF Grown
<1>5. tails' = [i \in Ids |-> tails'[i]] /\ DOMAIN tails' = Ids
  BY <1>1
<1> QED BY <1>1, <1>3, <1>4, <1>5, RecordsSame, EventsKnown, QueueKeeps

----------------------------------------------------------------------------
(* The users.                                                              *)

(* A user who is not sending decides or gives up.                          *)
LEMMA UserMoves ==
  ASSUME IInv, NEW u \in Users, NEW w \in Acting, users' = [users EXCEPT ![u] = w],
         users[u].pc # "sending", w.pc \in {"queued", "done"}, KeptFor(w, ask[w.id]),
         \A i \in Ids : ask[i].from = u => w.id = i /\ w.pc = "done" /\ w.reply # "failed",
         UNCHANGED <<records, sends, broker, link, gen, events, closed, wire, ask>>,
         TailsOK', tails' \in [Ids -> Seq(Operations)],
         \A i \in Ids : sends[i].on => tails'[i] # <<>> /\ Head(tails'[i]) = Head(tails[i]),
         \A i \in Ids : \A k \in DOMAIN tails'[i] : tails'[i][k].op = "resolved" => Told(i)
  PROVE  IInv'
<1>0. /\ w # Idle /\ w \in Deciders /\ users'[u] = w /\ users' \in [Users -> Deciders]
      /\ \A v \in Users \ {u} : users'[v] = users[v]
  <2>1. w # Idle /\ w \in Deciders
    BY DEF Idle, Acting, Deciders
  <2> QED BY <2>1, WaitingIs
<1>1. AsksOK' /\ LinkOK' /\ RecordsOK'
  BY DEF IInv, AsksOK, AskOK, LinkOK, Connected, RecordsOK, RecordOK
<1>2. SendsOK'
  <2>1. ASSUME NEW i \in Ids PROVE SendOK(sends[i], records[i], ask[i], broker[i], tails'[i])
    <3>1. SendOK(sends[i], records[i], ask[i], broker[i], tails[i])
      BY RequestIs
    <3> QED BY <3>1 DEF SendOK
  <2> QED BY <2>1 DEF SendsOK, SendOK
<1>3. SendersOK'
  BY <1>0 DEF IInv, SendersOK
<1>4. UsersOK'
  <2>1. ASSUME NEW v \in Users PROVE UserOK(users[v])'
    <3>1. CASE v = u
      BY <1>0, <3>1 DEF UserOK, KeptFor
    <3>2. CASE v # u
      BY <1>0, <3>2 DEF IInv, UsersOK, UserOK, KeptFor
    <3> QED BY <3>1, <3>2
  <2> QED BY <2>1 DEF UsersOK
<1>5. FromOK'
  BY <1>0 DEF IInv, FromOK
<1>6. ToldOK'
  BY DEF IInv, ToldOK, Told
<1>7. TypeOK'
  BY <1>0 DEF IInv, TypeOK, Tracked, Held
<1> QED BY <1>1, <1>2, <1>3, <1>4, <1>5, <1>6, <1>7 DEF IInv

(* A user who has not decided is nowhere.                                  *)
LEMMA UndecidedIs ==
  ASSUME IInv, NEW u \in Users, users[u] = Idle
  PROVE  /\ \A i \in Ids : ask[i].from # u
         /\ \A i \in Ids : \A k \in DOMAIN tails[i] : tails[i][k].user # u
<1>1. \A i \in Ids : ask[i].from # u
  BY DEF IInv, FromOK
<1>2. \A i \in Ids : \A k \in DOMAIN tails[i] : tails[i][k].user # u
  BY QueuedIs DEF IInv
<1> QED BY <1>1, <1>2

(* A user decides and waits for the turn of his operation.                 *)
LEMMA DecidesPreserves ==
  ASSUME IInv, NEW u \in Users, NEW i \in Ids, NEW d \in Decisions, Decides(u, i, d)
  PROVE  IInv'
<1> DEFINE w == [pc |-> "queued", id |-> i, gen |-> records[i].gen, decision |-> d,
                 reply |-> "none"]
           o == Op("respond", 0, u)
<1>1. /\ users[u] = Idle /\ users' = [users EXCEPT ![u] = w]
      /\ tails' = [tails EXCEPT ![i] = Append(@, o)]
      /\ UNCHANGED <<records, sends, broker, link, gen, events, closed, wire, ask>>
  BY DEF Decides, codex
<1>2. /\ records[i].gen \in 0 .. MaxGen /\ RecordOK(records[i], ask[i], wire[i], sends[i].on)
  BY RequestIs DEF Records
<1>3. w \in Acting /\ w.pc = "queued" /\ w.id = i /\ w.gen = records[i].gen
  BY <1>2 DEF Acting
<1>4. o \in Operations /\ o.op = "respond" /\ o.user = u
  BY ApprovalAssumption DEF Op, Operations
<1> HIDE DEF w, o
<1>5. KeptFor(w, ask[w.id])
  BY <1>2, <1>3 DEF KeptFor, RecordOK
<1>6. users[u].pc # "sending"
  BY <1>1 DEF Idle
<1>7. w # Idle /\ users'[u] = w /\ \A v \in Users \ {u} : users'[v] = users[v]
  BY <1>1, <1>3, WaitingIs DEF Idle
<1> DEFINE t == tails[i]
<1>8. t \in Seq(Operations) /\ tails \in [Ids -> Seq(Operations)] /\ t = tails[i]
  BY DEF IInv, TypeOK
<1>9. tails'[i] = Append(t, o) /\ \A j \in Ids \ {i} : tails'[j] = tails[j]
  BY <1>1, <1>8
<1> HIDE DEF t
<1>10. /\ Append(t, o) \in Seq(Operations) /\ Len(t) \in Nat
       /\ DOMAIN Append(t, o) = 1 .. Len(t) + 1 /\ DOMAIN t = 1 .. Len(t)
       /\ \A k \in DOMAIN t : Append(t, o)[k] = t[k]
       /\ Append(t, o)[Len(t) + 1] = o
       /\ t # <<>> => Append(t, o) # <<>> /\ Head(Append(t, o)) = Head(t)
  BY <1>4, <1>8
<1>11. tails' \in [Ids -> Seq(Operations)]
  BY <1>1, <1>8, <1>10
<1>12. \A k \in DOMAIN Append(t, o) : k \in DOMAIN t \/ k = Len(t) + 1
  BY <1>10
<1>13. TailsOK'
  <2> SUFFICES ASSUME NEW j \in Ids, NEW k \in DOMAIN tails'[j]
               PROVE  (tails'[j][k].op = "respond" <=> tails'[j][k].user \in Users)
                      /\ QueuedOK(j, k)'
    BY DEF TailsOK
  <2>1. CASE j # i \/ k \in DOMAIN t
    <3>1. /\ k \in DOMAIN tails[j] /\ tails'[j][k] = tails[j][k]
      BY <1>8, <1>9, <1>10, <2>1
    <3>2. tails[j][k].user # u /\ (tails[j][k].op = "respond" <=> tails[j][k].user \in Users)
          /\ QueuedOK(j, k)
      BY <1>1, <3>1, UndecidedIs DEF IInv, TailsOK
    <3>3. \A n \in DOMAIN tails'[j] :
            (n \in DOMAIN tails[j] /\ tails'[j][n] = tails[j][n]) \/ tails'[j][n].user = u
      BY <1>4, <1>8, <1>9, <1>10, <1>12
    <3> QED BY <1>1, <1>7, <3>1, <3>2, <3>3 DEF QueuedOK
  <2>2. CASE j = i /\ k = Len(t) + 1
    <3>1. tails'[j][k] = o
      BY <1>9, <1>10, <2>2
    <3>2. \A n \in DOMAIN tails'[j] : tails'[j][n].user = u => n = k
      BY <1>1, <1>8, <1>9, <1>10, <1>12, <2>2, UndecidedIs
    <3> QED BY <1>3, <1>4, <1>7, <2>2, <3>1, <3>2 DEF QueuedOK
  <2> QED BY <1>9, <1>12, <2>1, <2>2
<1>14. \A j \in Ids : sends[j].on => tails'[j] # <<>> /\ Head(tails'[j]) = Head(tails[j])
  <2> SUFFICES ASSUME NEW j \in Ids, sends[j].on
               PROVE  tails'[j] # <<>> /\ Head(tails'[j]) = Head(tails[j])
    OBVIOUS
  <2>1. tails[j] # <<>>
    BY SenderIs
  <2> QED BY <1>8, <1>9, <1>10, <2>1
<1>15. ASSUME NEW j \in Ids, NEW k \in DOMAIN tails'[j], tails'[j][k].op = "resolved"
       PROVE  Told(j)
  <2>1. k \in DOMAIN tails[j] /\ tails'[j][k] = tails[j][k]
    BY <1>4, <1>8, <1>9, <1>10, <1>12, <1>15
  <2> QED BY <1>15, <2>1 DEF IInv, ToldOK
<1>16. \A j \in Ids : ask[j].from # u
  BY <1>1, UndecidedIs
<1> QED
  BY ONLY IInv, u \in Users, <1>1, <1>3, <1>5, <1>6, <1>11, <1>13, <1>14, <1>15, <1>16, UserMoves

(* A tail without one of its operations.                                   *)
LEMMA WithoutIs ==
  ASSUME NEW t \in Seq(Operations), NEW k \in DOMAIN t
  PROVE  /\ Without(t, k) \in Seq(Operations)
         /\ \A n \in DOMAIN Without(t, k) : \E m \in DOMAIN t :
              m # k /\ m = (IF n < k THEN n ELSE n + 1) /\ Without(t, k)[n] = t[m]
         /\ k # 1 => Without(t, k) # <<>> /\ Head(Without(t, k)) = Head(t)
<1> DEFINE s == Without(t, k)
<1>1. Len(t) \in Nat /\ DOMAIN t = 1 .. Len(t) /\ k \in 1 .. Len(t) /\ Len(t) - 1 \in Nat
  OBVIOUS
<1>2. s = [n \in 1 .. Len(t) - 1 |-> IF n < k THEN t[n] ELSE t[n + 1]]
  BY DEF Without
<1> HIDE DEF s
<1>3. \A n \in 1 .. Len(t) - 1 : n \in DOMAIN t /\ n + 1 \in DOMAIN t
  BY <1>1
<1>4. \A n \in 1 .. Len(t) - 1 : s[n] \in Operations
  BY <1>2, <1>3
<1>5. s \in Seq(Operations) /\ DOMAIN s = 1 .. Len(t) - 1 /\ Len(s) = Len(t) - 1
  BY <1>1, <1>2, <1>4
<1>6. ASSUME NEW n \in DOMAIN s
      PROVE  \E m \in DOMAIN t : m # k /\ m = (IF n < k THEN n ELSE n + 1) /\ s[n] = t[m]
  BY <1>1, <1>2, <1>3, <1>5
<1>7. ASSUME k # 1 PROVE s # <<>> /\ Head(s) = Head(t)
  <2>1. 1 \in DOMAIN s /\ 1 < k
    BY <1>1, <1>5, <1>7
  <2>2. s[1] = t[1]
    BY <1>2, <1>5, <2>1
  <2> QED BY <1>1, <1>5, <2>1, <2>2
<1> QED BY <1>5, <1>6, <1>7 DEF s

(* A user gives up before his operation runs, or while he waits for the    *)
(* end.                                                                    *)
LEMMA GivesUpPreserves ==
  ASSUME IInv, NEW u \in Users, GivesUp(u)
  PROVE  IInv'
<1> DEFINE i == users[u].id
<1>1. UNCHANGED <<records, sends, broker, link, gen, events, closed, wire, ask>>
  BY DEF GivesUp, codex
<1>2. users[u].pc \in {"queued", "waiting"}
  BY DEF GivesUp
<1>3. users[u] # Idle /\ users[u] \in Acting /\ i \in Ids /\ users \in [Users -> Deciders]
      /\ tails \in [Ids -> Seq(Operations)] /\ KeptFor(users[u], ask[i])
  <2>1. users \in [Users -> Deciders] /\ tails \in [Ids -> Seq(Operations)]
    BY DEF IInv, TypeOK
  <2>2. users[u] # Idle /\ users[u] \in Acting
    BY <1>2, <2>1, DeciderIs
  <2>3. KeptFor(users[u], ask[i])
    BY <2>2 DEF IInv, UsersOK, UserOK
  <2> QED BY <2>1, <2>2, <2>3 DEF Acting
<1>4. CASE users[u].pc = "queued"
  <2> DEFINE w == Replied(users[u], "failed")
             t == tails[i]
  <2>1. PICK k \in DOMAIN t : t[k].user = u /\ tails' = [tails EXCEPT ![i] = Without(@, k)]
    BY <1>4 DEF GivesUp
  <2>2. users' = [users EXCEPT ![u] = w]
    BY <1>4 DEF GivesUp
  <2>3. w \in Acting /\ w # Idle /\ w.pc = "done" /\ w.reply = "failed" /\ w.id = i
        /\ w.gen = users[u].gen
    BY <1>3, RepliedIs
  <2> HIDE DEF w
  <2>4. KeptFor(w, ask[w.id])
    BY <1>3, <2>3 DEF KeptFor
  <2>5. \A j \in Ids : ask[j].from # u
    BY <1>4 DEF IInv, FromOK
  <2>6. users'[u] = w /\ \A v \in Users \ {u} : users'[v] = users[v]
    BY <1>3, <2>2
  <2>7. t \in Seq(Operations) /\ tails'[i] = Without(t, k)
        /\ \A j \in Ids \ {i} : tails'[j] = tails[j]
    BY <1>3, <2>1
  <2>8. /\ Without(t, k) \in Seq(Operations)
        /\ \A n \in DOMAIN Without(t, k) : \E m \in DOMAIN t :
             m # k /\ m = (IF n < k THEN n ELSE n + 1) /\ Without(t, k)[n] = t[m]
        /\ k # 1 => Without(t, k) # <<>> /\ Head(Without(t, k)) = Head(t)
    BY <2>1, <2>7, WithoutIs
  <2>9. tails' \in [Ids -> Seq(Operations)]
    BY <1>3, <2>1, <2>7, <2>8
  <2>10. TailsOK'
    <3> SUFFICES ASSUME NEW j \in Ids, NEW n \in DOMAIN tails'[j]
                 PROVE  (tails'[j][n].op = "respond" <=> tails'[j][n].user \in Users)
                        /\ QueuedOK(j, n)'
      BY DEF TailsOK
    <3>1. CASE j # i
      <4>1. tails'[j] = tails[j]
        BY <2>7, <3>1
      <4>2. (tails[j][n].op = "respond" <=> tails[j][n].user \in Users) /\ QueuedOK(j, n)
        BY <1>3, <4>1 DEF IInv, TailsOK
      <4>3. tails[j][n].user # u
        BY <3>1, <4>1, QueuedIs DEF IInv
      <4> QED BY <1>1, <2>6, <4>1, <4>2, <4>3 DEF QueuedOK
    <3>2. CASE j = i
      <4>1. PICK m \in DOMAIN t :
              m # k /\ m = (IF n < k THEN n ELSE n + 1) /\ tails'[i][n] = t[m]
        BY <2>7, <2>8, <3>2
      <4>2. t[m].op = "respond" <=> t[m].user \in Users
        BY <1>3, <4>1 DEF IInv, TailsOK
      <4>3. CASE t[m].user \notin Users
        BY <3>2, <4>1, <4>2, <4>3 DEF QueuedOK
      <4>4. CASE t[m].user \in Users
        <5> DEFINE x == t[m].user
        <5>1. /\ users[x] # Idle /\ users[x].id = i
              /\ users[x].pc = "queued" \/ (users[x].pc = "sending" /\ m = 1 /\ sends[i].on)
              /\ \A l \in DOMAIN t : t[l].user = x => l = m
          <6>1. QueuedOK(i, m)
            BY <1>3, <4>1 DEF IInv, TailsOK
          <6> QED BY <1>3, <4>4, <6>1 DEF QueuedOK
        <5>2. x # u
          BY <2>1, <4>1, <5>1
        <5>3. k \in Nat /\ n \in Nat /\ k >= 1
          BY <2>1, <2>7, <2>8, <3>2
        <5>4. m = 1 => n = 1
          <6>1. CASE n < k
            BY <4>1, <6>1
          <6>2. CASE ~(n < k)
            BY <4>1, <5>3, <6>2
          <6> QED BY <6>1, <6>2
        <5>5. ASSUME NEW l \in DOMAIN tails'[i], tails'[i][l].user = x PROVE l = n
          <6>1. PICK p \in DOMAIN t :
                  p # k /\ p = (IF l < k THEN l ELSE l + 1) /\ tails'[i][l] = t[p]
            BY <2>7, <2>8
          <6>2. p = m
            BY <5>1, <5>5, <6>1
          <6>3. l \in Nat
            BY <2>7, <2>8
          <6> QED BY <4>1, <5>3, <6>1, <6>2, <6>3
        <5>6. users'[x] = users[x]
          BY <2>6, <4>4, <5>2
        <5> HIDE DEF t
        <5> QED BY <1>1, <3>2, <4>1, <4>2, <5>1, <5>4, <5>5, <5>6 DEF QueuedOK
      <4> QED BY <4>3, <4>4
    <3> QED BY <3>1, <3>2
  <2>11. \A j \in Ids : sends[j].on => tails'[j] # <<>> /\ Head(tails'[j]) = Head(tails[j])
    <3> SUFFICES ASSUME NEW j \in Ids, sends[j].on
                 PROVE  tails'[j] # <<>> /\ Head(tails'[j]) = Head(tails[j])
      OBVIOUS
    <3>1. tails[j] # <<>> /\ Head(tails[j]).user = sends[j].user
          /\ (sends[j].user \in Users => users[sends[j].user].pc = "sending")
      BY SenderIs
    <3>2. Head(tails[j]).user # u
      BY <1>4, <3>1
    <3>3. j = i => k # 1
      BY <2>1, <3>1, <3>2, TailIs DEF IInv
    <3> QED BY <2>7, <2>8, <3>1, <3>3
  <2>12. ASSUME NEW j \in Ids, NEW n \in DOMAIN tails'[j], tails'[j][n].op = "resolved"
         PROVE  Told(j)
    <3>1. \E m \in DOMAIN tails[j] : tails'[j][n] = tails[j][m]
      BY <2>7, <2>8
    <3> QED BY <2>12, <3>1 DEF IInv, ToldOK
  <2>13. users[u].pc # "sending"
    BY <1>4
  <2> HIDE DEF i, t
  <2> QED
    BY ONLY IInv, u \in Users, <1>1, <2>2, <2>3, <2>4, <2>5, <2>9, <2>10, <2>11, <2>12, <2>13,
       UserMoves
<1>5. CASE users[u].pc = "waiting"
  <2> DEFINE w == Replied(users[u], "incomplete")
  <2>1. users' = [users EXCEPT ![u] = w] /\ tails' = tails
    BY <1>5 DEF GivesUp
  <2>2. w \in Acting /\ w # Idle /\ w.pc = "done" /\ w.reply = "incomplete" /\ w.id = i
        /\ w.gen = users[u].gen
    BY <1>3, RepliedIs
  <2> HIDE DEF w
  <2>3. KeptFor(w, ask[w.id])
    BY <1>3, <2>2 DEF KeptFor
  <2>4. \A j \in Ids : ask[j].from = u => w.id = j /\ w.pc = "done" /\ w.reply # "failed"
    BY <2>2 DEF IInv, FromOK
  <2>5. \A v \in Users \ {u} : users'[v] = users[v]
    BY <1>3, <2>1
  <2>6. TailsOK'
    <3> SUFFICES ASSUME NEW j \in Ids, NEW k \in DOMAIN tails[j], tails[j][k].user \in Users
                 PROVE  QueuedOK(j, k)'
      BY <2>1 DEF IInv, TailsOK, QueuedOK
    <3>1. tails[j][k].user # u /\ QueuedOK(j, k)
      BY <1>5, QueuedIs DEF IInv, TailsOK
    <3> QED BY <1>1, <2>1, <2>5, <3>1 DEF QueuedOK
  <2>7. \A j \in Ids : sends[j].on => tails'[j] # <<>> /\ Head(tails'[j]) = Head(tails[j])
    BY <2>1, SenderIs
  <2>8. \A j \in Ids : \A k \in DOMAIN tails'[j] : tails'[j][k].op = "resolved" => Told(j)
    BY <2>1 DEF IInv, ToldOK
  <2>9. users[u].pc # "sending" /\ tails' \in [Ids -> Seq(Operations)]
    BY <1>3, <1>5, <2>1
  <2> HIDE DEF i
  <2> QED
    BY ONLY IInv, u \in Users, <1>1, <2>1, <2>2, <2>3, <2>4, <2>6, <2>7, <2>8, <2>9, UserMoves
<1> QED BY <1>2, <1>4, <1>5

----------------------------------------------------------------------------
(* The theorems.                                                           *)

LEMMA InitHolds == Init => IInv
<1> SUFFICES ASSUME Init PROVE IInv
  OBVIOUS
<1>1. NoRecord \in Records /\ NoRecord.gen = 0 /\ NoRecord.closed /\ NoRecord.kind = "none"
      /\ NoRecord.state = "none" /\ ~NoRecord.resolved
  BY ApprovalAssumption DEF NoRecord, Records
<1>2. NoAsk \in Asks /\ NoAsk.gen = 0 /\ NoAsk.frames = 0 /\ NoAsk.from = "none"
      /\ NoAsk.taken = "none" /\ NoAsk.told = {}
  BY ApprovalAssumption DEF NoAsk, Asks
<1>3. NoSend \in Sends /\ NoSend.on = FALSE
  BY DEF Sends, NoSend
<1>4. Idle \in Deciders /\ Idle.pc = "idle"
  BY DEF Deciders, Idle
<1>5. gen = 1 /\ gen \in 1 .. MaxGen
  BY ApprovalAssumption DEF Init
<1>6. TypeOK
  <2>1. Tracked = {} /\ Held = {}
    BY <1>1 DEF Init, Tracked, Held
  <2>2. Cardinality({}) = 0
    BY FS_EmptySet
  <2>3. Cardinality(Tracked) <= Capacity /\ Cardinality(Held) <= Capacity
    BY <2>1, <2>2, ApprovalAssumption
  <2>4. records \in [Ids -> Records] /\ tails \in [Ids -> Seq(Operations)]
        /\ sends \in [Ids -> Sends] /\ users \in [Users -> Deciders]
    BY <1>1, <1>3, <1>4 DEF Init
  <2>5. broker \in [Ids -> {"none", "pending", "responding"}]
        /\ wire \in [Ids -> Decisions \cup {"none"}] /\ ask \in [Ids -> Asks]
        /\ events \in Seq(Notifications) /\ closed \in BOOLEAN
        /\ link \in {"up", "resubscribing", "down", "failed"}
    <3>1. /\ broker = [i \in Ids |-> "none"] /\ wire = [i \in Ids |-> "none"]
          /\ ask = [i \in Ids |-> NoAsk] /\ events = <<>> /\ closed = FALSE /\ link = "up"
      BY DEF Init
    <3>2. <<>> \in Seq(Notifications)
      OBVIOUS
    <3> QED BY <1>2, <3>1, <3>2
  <2> QED BY <1>5, <2>3, <2>4, <2>5 DEF TypeOK
<1>7. AsksOK
  <2>1. AskOK(NoAsk, "none")
    BY <1>2, <1>5 DEF AskOK, Decisions
  <2> QED BY <2>1 DEF Init, AsksOK
<1>8. RecordsOK
  <2>1. RecordOK(NoRecord, NoAsk, "none", FALSE)
    BY <1>1, <1>2 DEF RecordOK, Answered
  <2> QED BY <1>3, <2>1 DEF Init, RecordsOK
<1>9. SendsOK /\ SendersOK /\ LinkOK
  BY <1>3 DEF Init, SendsOK, SendOK, SendersOK, LinkOK, Connected
<1>10. TailsOK /\ ToldOK
  BY DEF Init, TailsOK, ToldOK
<1>11. UsersOK
  BY DEF Init, UsersOK, UserOK
<1>12. FromOK
  BY <1>2, ApprovalAssumption DEF Init, FromOK
<1> QED BY <1>6, <1>7, <1>8, <1>9, <1>10, <1>11, <1>12 DEF IInv

(* Every step keeps the invariant.                                         *)
LEMMA NextPreserves == IInv /\ [Next]_vars => IInv'
<1> SUFFICES ASSUME IInv, [Next]_vars PROVE IInv'
  OBVIOUS
<1>1. CASE UNCHANGED vars
  BY <1>1, AdmitsPreserves
<1>2. ASSUME NEW i \in Ids, Register(i) PROVE IInv'
  BY <1>2, RegisterPreserves
<1>3. ASSUME NEW i \in Ids, Overloaded(i) PROVE IInv'
  BY <1>3, OverloadedPreserves
<1>4. ASSUME NEW i \in Ids, Hears(i) PROVE IInv'
  BY <1>4, HearsPreserves
<1>5. ASSUME NEW i \in Ids, AnsweredElsewhere(i) PROVE IInv'
  BY <1>5, AnsweredElsewherePreserves
<1>6. ASSUME NEW i \in Ids, NEW e \in EventOps, Tells(i, e) PROVE IInv'
  BY <1>6, TellsPreserves
<1>7. ASSUME NEW i \in Ids, NEW u \in Users, NEW d \in Decisions, Decides(u, i, d) PROVE IInv'
  BY <1>7, DecidesPreserves
<1>8. ASSUME NEW i \in Ids, Due(i) PROVE IInv'
  BY <1>8, DuePreserves
<1>9. ASSUME NEW i \in Ids, TimerFires(i) PROVE IInv'
  BY <1>9, TimerFiresPreserves
<1>10. ASSUME NEW i \in Ids, Expire(i) PROVE IInv'
  BY <1>10, ExpirePreserves
<1>11. ASSUME NEW i \in Ids, Refuses(i) PROVE IInv'
  BY <1>11, RefusesPreserves
<1>12. ASSUME NEW i \in Ids, DeclinesInstead(i) PROVE IInv'
  BY <1>12, DeclinesInsteadPreserves
<1>13. ASSUME NEW i \in Ids, Respond(i) \/ RespondTooLate(i) PROVE IInv'
  BY <1>13, RespondPreserves
<1>14. ASSUME NEW i \in Ids, Writes(i) PROVE IInv'
  BY <1>14, WritesPreserves
<1>15. ASSUME NEW i \in Ids, Observe(i) PROVE IInv'
  BY <1>15, ObservePreserves
<1>16. ASSUME NEW i \in Ids, Disconnect(i) PROVE IInv'
  BY <1>16, DisconnectPreserves
<1>17. ASSUME NEW i \in Ids, NEW out \in {"sent", "not_sent", "unknown"}, SendEnds(i, out)
       PROVE  IInv'
  BY <1>17, SendEndsPreserves
<1>18. ASSUME NEW u \in Users, GivesUp(u) PROVE IInv'
  BY <1>18, GivesUpPreserves
<1>19. CASE ObserveEvent
  BY <1>19, ObserveEventPreserves
<1>20. CASE ExpireDue
  BY <1>20, ExpireDuePreserves
<1>21. CASE LinkLost
  BY <1>21, LinkLostPreserves
<1>22. CASE Reconnects
  BY <1>22, ReconnectsPreserves
<1>23. CASE Admits
  BY <1>23, AdmitsPreserves
<1>24. CASE Close
  BY <1>24, ClosePreserves
<1> QED
  BY <1>1, <1>2, <1>3, <1>4, <1>5, <1>6, <1>7, <1>8, <1>9, <1>10, <1>11, <1>12, <1>13, <1>14,
     <1>15, <1>16, <1>17, <1>18, <1>19, <1>20, <1>21, <1>22, <1>23, <1>24 DEF Next

(* The invariant holds in every reachable state.                           *)
THEOREM InvariantHolds == Spec => []IInv
<1>1. Init => IInv
  BY InitHolds
<1>2. IInv /\ [Next]_vars => IInv'
  BY NextPreserves
<1> QED BY <1>1, <1>2, PTL DEF Spec

(* Every variable keeps its type, and neither the service nor the broker   *)
(* holds more requests than its capacity (register, addServerRequest).     *)
THEOREM TypeCorrect == Spec => []TypeOK
<1>1. IInv => TypeOK
  BY DEF IInv
<1> QED BY <1>1, InvariantHolds, PTL

(* Codex is sent at most one response to a request (respond, expireRecord  *)
(* and the broker's claim together).                                       *)
THEOREM OneResponseHolds == Spec => []OneResponse
<1>1. IInv => OneResponse
  BY DEF IInv, AsksOK, AskOK, OneResponse
<1> QED BY <1>1, InvariantHolds, PTL

(* What a user is told of a decision is true: final only if Codex took it  *)
(* or another client's answer came first, failed only if it was never sent *)
(* (respond, settle, the approval route).                                  *)
THEOREM DecisionKeptHolds == Spec => []DecisionKept
<1>1. IInv => DecisionKept
  <2> SUFFICES ASSUME IInv, NEW u \in Users, users[u].pc = "done",
                      ask[users[u].id].gen = users[u].gen
               PROVE  /\ users[u].reply = "finalized" =>
                           ask[users[u].id].taken \in {users[u].decision, "elsewhere"}
                      /\ users[u].reply = "failed" => ask[users[u].id].from # u
    BY DEF DecisionKept
  <2>1. users[u] # Idle /\ users[u].id \in Ids
    BY WaitingIs, DeciderIs DEF Acting
  <2>2. KeptFor(users[u], ask[users[u].id])
    BY <2>1 DEF IInv, UsersOK, UserOK
  <2>3. ask[users[u].id].from = u => users[u].reply # "failed"
    BY <2>1 DEF IInv, FromOK
  <2> QED BY <2>2, <2>3 DEF KeptFor
<1> QED BY <1>1, InvariantHolds, PTL

(* A request counts as resolved only if Codex resolved that very ask, also *)
(* when its id is used again on the next connection (observeEvent).        *)
THEOREM ResolutionIsRealHolds == Spec => []ResolutionIsReal
<1>1. IInv => ResolutionIsReal
  BY DEF IInv, RecordsOK, RecordOK, ResolutionIsReal
<1> QED BY <1>1, InvariantHolds, PTL
==============================================================================
