--------------------------- MODULE ApprovalControl ---------------------------
(***************************************************************************)
(* The approvals Codex asks for: the approval control service of           *)
(* packages/server, the server-request table of the protocol broker it     *)
(* answers through, and what the reconnect controller lets pass.           *)
(*                                                                         *)
(* Codex asks (a server request), and the ask ends by a user's decision,   *)
(* by HostDeck's own expiry, by another client of the same Codex (the      *)
(* laptop TUI) or by the loss of the connection.  What concerns one        *)
(* request id runs one operation at a time (serialized); an operation that *)
(* sends a response keeps the others waiting until the send has ended.     *)
(* Each request id stands for one ask of one session, with a turn and an   *)
(* item of its own, and is asked at most once per connection.              *)
(***************************************************************************)
EXTENDS Integers, Sequences, FiniteSets

CONSTANTS
  Ids,        \* request ids
  Users,      \* paired devices that decide; each responds once
  Capacity,   \* protocol_max_pending_server_requests, of the broker and the service
  Others,     \* most requests of sessions that are not followed here (bound)
  MaxGen,     \* connection generations (bound)
  MaxTail     \* queued operations per request id beyond which nobody lists (bound)

ASSUME ApprovalAssumption ==
  /\ Capacity \in Nat \ {0} /\ MaxGen \in Nat \ {0}
  /\ MaxTail \in Nat /\ Others \in Nat
  /\ IsFiniteSet(Ids) /\ "none" \notin Users

VARIABLES
  records,    \* the tracked approval of each request id
  tails,      \* the operations queued behind each other on each request id
  sends,      \* the response being sent for each request id
  users,      \* what each user's write is doing
  broker,     \* the broker's pendingServerRequests
  link,       \* "up" (admitted), "resubscribing", "down" or "failed" for good
  gen,        \* the connection generation
  events,     \* notifications in the event pipeline
  closed,     \* the service is closed (shutdown)
  \* Codex
  wire,       \* the response frame on its way
  ask         \* the ask of each request id and who answered it

service == <<records, tails, sends, users, closed>>
codex == <<wire, ask>>
vars == <<records, tails, sends, users, broker, link, gen, events, closed, wire, ask>>

Decisions == {"approve", "deny"}
EventOps == {"resolved", "item", "turn"}
Final(d) == IF d = "approve" THEN "approved" ELSE "denied"

NoRecord ==
  [gen |-> 0, state |-> "none", kind |-> "none", decision |-> "none", outcome |-> "none",
   resolved |-> FALSE, item |-> FALSE, closed |-> TRUE, due |-> FALSE, timer |-> FALSE]
Pending(late) ==
  [NoRecord EXCEPT !.gen = gen, !.closed = FALSE, !.timer = TRUE, !.due = late,
                   !.state = IF late THEN "expired" ELSE "pending",
                   !.outcome = IF late THEN "not_sent" ELSE "none"]
NoSend == [on |-> FALSE]
NoAsk == [gen |-> 0, taken |-> "none", told |-> {}, frames |-> 0, from |-> "none"]
Op(op, g, u) == [op |-> op, gen |-> g, user |-> u]

Tracked == {i \in Ids : records[i].gen # 0}
Unresolved == {i \in Ids : ~records[i].closed}
Connected == link \in {"up", "resubscribing"}

(* How a record ends: superseded, or settled once the response may have    *)
(* been sent and Codex has told that the request is resolved and its item  *)
(* completed.                                                              *)
MarkClosed(r) == [r EXCEPT !.closed = TRUE, !.timer = FALSE]
Supersede(r) == IF r.closed THEN r ELSE MarkClosed([r EXCEPT !.state = "superseded"])

Settle(r) ==
  IF r.closed \/ ~r.resolved \/ ~r.item \/ r.kind = "none" \/ r.outcome \notin {"sent", "unknown"}
    THEN r
    ELSE MarkClosed(IF r.kind = "user" THEN [r EXCEPT !.state = Final(r.decision)] ELSE r)

Expirable(r) ==
  ~r.closed /\ (r.state = "pending" \/ (r.state = "expired" /\ r.outcome = "not_sent"))

(* What a finished send leaves behind: of a user's response, and of the    *)
(* decline of an expired request.                                          *)
(* Mutant: the expiry timer is not armed again. *)
RespondEndedUnarmed(r, out) ==
  IF r.closed THEN r
  ELSE IF out # "not_sent" THEN Settle([r EXCEPT !.outcome = out])
  ELSE LET back == [r EXCEPT !.kind = "none", !.decision = "none", !.outcome = "none"]
       IN  IF r.resolved \/ r.item THEN Supersede(back)
           ELSE [back EXCEPT !.state = "pending"]
RespondEnded(r, out) ==
  IF r.closed THEN r
  ELSE IF out # "not_sent" THEN Settle([r EXCEPT !.outcome = out])
  ELSE LET back == [r EXCEPT !.kind = "none", !.decision = "none", !.outcome = "none"]
       IN  IF r.resolved \/ r.item THEN Supersede(back)
           ELSE [back EXCEPT !.state = "pending", !.timer = TRUE]
ExpiryEnded(r, out) ==
  LET ended == [r EXCEPT !.outcome = out]
  IN  IF r.closed THEN r
      ELSE IF out # "not_sent" THEN Settle(ended)
      ELSE IF r.resolved \/ r.item THEN MarkClosed(ended) ELSE ended

(* The answer to a user's write: a wait for the end of the record ends     *)
(* with the user's own decision or without a proven outcome.               *)
Idle == [pc |-> "idle"]
Replied(w, reply) == [w EXCEPT !.pc = "done", !.reply = reply]
Materialized(w, r) ==
  Replied(w, IF r.state = Final(w.decision) THEN "finalized" ELSE "incomplete")

NotifyWaiters(us, rs) ==
  [u \in Users |->
     IF us[u].pc = "waiting" /\ rs[us[u].id].closed
       THEN Materialized(us[u], rs[us[u].id]) ELSE us[u]]
Put(us, rs) == records' = rs /\ users' = NotifyWaiters(us, rs)
SetRecord(us, i, r) == Put(us, [records EXCEPT ![i] = r])

(* The operations run as microtasks: one that waits for no send has run    *)
(* before the event loop takes up a timer, a request, a message or the end *)
(* of a send.                                                              *)
Settled == \A i \in Ids : tails[i] # <<>> => sends[i].on

Init ==
  /\ records = [i \in Ids |-> NoRecord] /\ tails = [i \in Ids |-> <<>>]
  /\ sends = [i \in Ids |-> NoSend] /\ users = [u \in Users |-> Idle]
  /\ broker = [i \in Ids |-> "none"]
  /\ link = "up" /\ gen = 1 /\ events = <<>> /\ closed = FALSE
  /\ wire = [i \in Ids |-> "none"] /\ ask = [i \in Ids |-> NoAsk]
--------------------------------------------------------------------------------
(* Codex asks.  The broker holds a place for the request and hands it to   *)
(* the service; late: the request is already older than the expiry.        *)
Held == {i \in Ids : broker[i] # "none"}

(* The places that requests of other sessions take at this moment.         *)
Elsewhere == 0 .. Others

(* The service makes room by forgetting a request that has ended. *)
RoomFor(i, n) ==
  IF i \in Tracked \/ Cardinality(Tracked) + n < Capacity THEN {records}
  ELSE {[records EXCEPT ![j] = NoRecord] : j \in Tracked \ Unresolved}

(* Records of an earlier connection are superseded. *)
Reconciled(rs) == [i \in Ids |-> IF rs[i].gen = gen THEN rs[i] ELSE Supersede(rs[i])]

NewAsk(i) == Settled /\ Connected /\ ask[i].gen # gen
Register(i) ==
  /\ NewAsk(i) /\ ~closed
  /\ \E n \in Elsewhere : \E late \in BOOLEAN, rs \in RoomFor(i, n) :
       /\ Cardinality(Held) + n < Capacity
       /\ Put(users, [Reconciled(rs) EXCEPT ![i] = Pending(late)])
  /\ broker' = [broker EXCEPT ![i] = "pending"]
  /\ ask' = [ask EXCEPT ![i] = [NoAsk EXCEPT !.gen = gen]]
  /\ UNCHANGED <<tails, sends, link, gen, events, closed, wire>>

(* There is no room, at the broker or at the service: the reconnect        *)
(* controller takes either for a protocol failure and stops for good.      *)
Overloaded(i) ==
  /\ NewAsk(i) /\ ~closed
  /\ \E n \in Elsewhere : Cardinality(Held) + n >= Capacity \/ RoomFor(i, n) = {}
  /\ ask' = [ask EXCEPT ![i] = [NoAsk EXCEPT !.gen = gen]]
  /\ link' = "failed" /\ broker' = [j \in Ids |-> "none"] /\ wire' = [j \in Ids |-> "none"]
  /\ UNCHANGED <<service, gen, events>>

(* What Codex does with an ask: it takes the first answer, HostDeck's or   *)
(* another client's, and then tells that the request is resolved, that the *)
(* item has completed and that the turn has ended.                         *)
Hears(i) ==
  /\ Connected /\ wire[i] # "none"
  /\ wire' = [wire EXCEPT ![i] = "none"]
  /\ ask' = [ask EXCEPT ![i].taken = IF @ = "none" THEN wire[i] ELSE @]
  /\ UNCHANGED <<service, broker, link, gen, events>>

AnsweredElsewhere(i) ==
  /\ ask[i].gen = gen /\ Connected /\ ask[i].taken = "none"
  /\ ask' = [ask EXCEPT ![i].taken = "elsewhere"]
  /\ UNCHANGED <<service, broker, link, gen, events, wire>>

Tells(i, e) ==
  /\ Settled
  /\ ask[i].gen = gen /\ ask[i].taken # "none" /\ e \notin ask[i].told
  /\ (e = "turn") => "resolved" \in ask[i].told
  /\ "turn" \notin ask[i].told
  /\ Connected
  /\ ask' = [ask EXCEPT ![i].told = @ \cup {e}]
  /\ events' = Append(events, [op |-> e, id |-> i])
  /\ UNCHANGED <<service, broker, link, gen, wire>>
--------------------------------------------------------------------------------
(* The event pipeline hands one notification at a time to the service and  *)
(* waits until it has been observed.                                       *)
Observing == \E i \in Ids : \E k \in 1 .. Len(tails[i]) : tails[i][k].op \in EventOps

ObserveEvent ==
  /\ Settled
  /\ events # <<>> /\ ~Observing
  /\ LET e == Head(events)
         meets == e.op = "resolved" \/ ~records[e.id].closed
     IN  tails' = IF meets THEN [tails EXCEPT ![e.id] = Append(@, Op(e.op, records[e.id].gen, "none"))]
                           ELSE tails
  /\ events' = Tail(events)
  /\ UNCHANGED <<records, sends, users, broker, link, gen, closed, codex>>

(* A user decides, and gives up when the deadline of the write passes      *)
(* before its operation starts or while it waits for the end.              *)
Decides(u, i, d) ==
  /\ Settled
  /\ users[u] = Idle /\ i \in Tracked
  /\ users' = [users EXCEPT ![u] = [pc |-> "queued", id |-> i, gen |-> records[i].gen,
                                    decision |-> d, reply |-> "none"]]
  /\ tails' = [tails EXCEPT ![i] = Append(@, Op("respond", 0, u))]
  /\ UNCHANGED <<records, sends, broker, link, gen, events, closed, codex>>

(* The operation of a user who gave up does nothing when its turn comes.   *)
Without(t, k) == [n \in 1 .. Len(t) - 1 |-> IF n < k THEN t[n] ELSE t[n + 1]]

GivesUp(u) ==
  /\ Settled
  /\ \/ /\ users[u].pc = "queued" /\ users' = [users EXCEPT ![u] = Replied(@, "failed")]
        /\ \E k \in DOMAIN tails[users[u].id] :
             /\ tails[users[u].id][k].user = u
             /\ tails' = [tails EXCEPT ![users[u].id] = Without(@, k)]
     \/ /\ users[u].pc = "waiting" /\ users' = [users EXCEPT ![u] = Replied(@, "incomplete")]
        /\ UNCHANGED tails
  /\ UNCHANGED <<records, sends, broker, link, gen, events, closed, codex>>

(* Time: a request passes its expiry, and its timer fires. *)
Due(i) ==
  /\ Settled
  /\ ~records[i].closed /\ ~records[i].due
  /\ records' = [records EXCEPT ![i].due = TRUE]
  /\ UNCHANGED <<tails, sends, users, broker, link, gen, events, closed, codex>>

TimerFires(i) ==
  /\ Settled
  /\ records[i].timer /\ records[i].due
  /\ records' = [records EXCEPT ![i].timer = FALSE]
  /\ tails' = [tails EXCEPT ![i] = Append(@, Op("expire", records[i].gen, "none"))]
  /\ UNCHANGED <<sends, users, broker, link, gen, events, closed, codex>>

(* Reading the approvals of a session expires what is due, in every one.   *)
ExpireDue ==
  /\ Settled
  /\ ~closed /\ link = "up"
  /\ LET rs == Reconciled(records)
         due == {i \in Ids : rs[i].due /\ Expirable(rs[i]) /\ Len(tails[i]) < MaxTail}
     IN  /\ due # {}
         /\ tails' = [i \in Ids |->
              IF i \in due THEN Append(tails[i], Op("expire", records[i].gen, "none")) ELSE tails[i]]
  /\ Put(users, Reconciled(records))
  /\ UNCHANGED <<sends, broker, link, gen, events, closed, codex>>
--------------------------------------------------------------------------------
(* The operation at the head of a tail runs; a send keeps it there. *)
Runs(i, op) == tails[i] # <<>> /\ ~sends[i].on /\ Head(tails[i]).op = op
Done(i) == tails' = [tails EXCEPT ![i] = Tail(@)]

(* A response goes out only on the admitted connection the request came    *)
(* on, and only if the broker still holds the request and is not already   *)
(* sending a response to it.                                               *)
Claims(i, r) == link = "up" /\ r.gen = gen /\ broker[i] = "pending"
Refusal(r) == IF link = "up" /\ r.gen # gen THEN "unknown" ELSE "not_sent"
Sending(i, kind, d, u) ==
  /\ sends' = [sends EXCEPT ![i] = [on |-> TRUE, kind |-> kind, decision |-> d, user |-> u,
                                    gen |-> gen, written |-> FALSE]]
  /\ broker' = [broker EXCEPT ![i] = "responding"]

(* Declines a request that has expired, for the user u who came too late   *)
(* or for nobody.                                                          *)
ExpireRecord(i, u) ==
  LET r == [records[i] EXCEPT !.timer = FALSE, !.kind = "expiry", !.decision = "deny",
                              !.outcome = "sending", !.state = "expired"]
      told == IF u = "none" THEN users ELSE [users EXCEPT ![u] = Replied(@, "failed")]
      started == IF u = "none" THEN users ELSE [users EXCEPT ![u].pc = "sending"]
  IN  IF ~Expirable(records[i])
        THEN Done(i) /\ users' = told /\ UNCHANGED <<records, sends, broker>>
      ELSE IF Claims(i, r)
        THEN SetRecord(started, i, r) /\ Sending(i, "expiry", "deny", u) /\ UNCHANGED tails
      ELSE /\ SetRecord(told, i, ExpiryEnded(r, Refusal(r)))
           /\ Done(i) /\ UNCHANGED <<sends, broker>>

Expire(i) ==
  /\ Runs(i, "expire")
  /\ IF Head(tails[i]).gen = records[i].gen
       THEN ExpireRecord(i, "none")
       ELSE Done(i) /\ UNCHANGED <<records, users, sends, broker>>
  /\ UNCHANGED <<link, gen, events, closed, codex>>

(* After the send of a response a user waits for the end of the record     *)
(* (waitForTerminal), unless it is known already or cannot be known.       *)
AfterRespond(w, r, out) ==
  IF out = "not_sent" THEN Replied(w, "failed")
  ELSE IF r.closed \/ link # "up" \/ r.gen # gen THEN Replied(w, "incomplete")
  ELSE [w EXCEPT !.pc = "waiting"]

(* respond: a request that is not pending takes no response; one that has  *)
(* expired is declined instead.                                            *)
Refuses(i) ==
  LET u == Head(tails[i]).user
      r == records[i]
  IN  /\ Runs(i, "respond")
      /\ \/ closed \/ link # "up" \/ r.gen # gen
         \/ r.state \notin {"pending", "expired"}
      /\ SetRecord([users EXCEPT ![u] = Replied(@, "failed")], i,
                   IF ~closed /\ link = "up" /\ r.gen # gen THEN Supersede(r) ELSE r)
      /\ Done(i)
      /\ UNCHANGED <<sends, broker, link, gen, events, closed, codex>>

Answerable(i) == ~closed /\ link = "up" /\ records[i].gen = gen
DeclinesInstead(i) ==
  /\ Runs(i, "respond") /\ Answerable(i)
  /\ records[i].state = "expired" \/ (records[i].state = "pending" /\ records[i].due)
  /\ ExpireRecord(i, Head(tails[i]).user)
  /\ UNCHANGED <<link, gen, events, closed, codex>>

Responding(r, d) ==
  [r EXCEPT !.timer = FALSE, !.kind = "user", !.decision = d, !.outcome = "sending",
            !.state = "responding"]
Respond(i) ==
  LET u == Head(tails[i]).user
      r == Responding(records[i], users[u].decision)
  IN  /\ Runs(i, "respond") /\ Answerable(i)
      /\ records[i].state = "pending" /\ ~records[i].due
      /\ IF Claims(i, r)
           THEN /\ SetRecord([users EXCEPT ![u].pc = "sending"], i, r)
                /\ Sending(i, "user", r.decision, u) /\ UNCHANGED tails
           ELSE LET after == RespondEnded(r, Refusal(r))
                IN  /\ SetRecord([users EXCEPT ![u] = AfterRespond(@, after, Refusal(r))], i, after)
                    /\ Done(i) /\ UNCHANGED <<sends, broker>>
      /\ UNCHANGED <<link, gen, events, closed, codex>>

(* The deadline of the write passes between the check that lets the        *)
(* operation start and the one before the send: nothing is sent.           *)
RespondTooLate(i) ==
  LET u == Head(tails[i]).user
  IN  /\ Runs(i, "respond") /\ Answerable(i)
      /\ records[i].state = "pending" /\ ~records[i].due
      /\ SetRecord([users EXCEPT ![u] = Replied(@, "failed")], i,
                   Responding(records[i], users[u].decision))
      /\ Done(i)
      /\ UNCHANGED <<sends, broker, link, gen, events, closed, codex>>

(* The frame of a send is on its way to Codex. *)
Written(i, s) ==
  /\ wire' = [wire EXCEPT ![i] = s.decision]
  /\ ask' = [ask EXCEPT ![i].frames = @ + 1,
                        ![i].from = IF s.kind = "user" THEN s.user ELSE "none"]

(* The transport takes the frame, and the send ends: sent, proven not      *)
(* sent, or unknown (a frame that may still be written).                   *)
Writes(i) ==
  /\ sends[i].on /\ ~sends[i].written /\ Connected /\ sends[i].gen = gen
  /\ sends' = [sends EXCEPT ![i].written = TRUE]
  /\ Written(i, sends[i])
  /\ UNCHANGED <<records, tails, users, closed, broker, link, gen, events>>

(* Mutant: a frame that was taken can be reported as not sent. *)
SendOutcomesGuessed(s) == {"not_sent", "unknown"} \cup (IF s.written THEN {"sent"} ELSE {})
SendOutcomes(s) == {"unknown"} \cup (IF s.written THEN {"sent"} ELSE {"not_sent"})

Released(i, s, out) ==
  IF broker[i] = "responding" /\ s.gen = gen
    THEN [broker EXCEPT ![i] = IF out = "not_sent" /\ Connected THEN "pending" ELSE "none"]
    ELSE broker

SendEnds(i, out) ==
  LET s == sends[i]
      r == records[i]
      after == IF s.kind = "user" THEN RespondEnded(r, out) ELSE ExpiryEnded(r, out)
      us == IF s.kind = "user" THEN [users EXCEPT ![s.user] = AfterRespond(@, after, out)]
            ELSE IF s.user # "none" THEN [users EXCEPT ![s.user] = Replied(@, "failed")]
            ELSE users
  IN  /\ Settled /\ s.on /\ out \in SendOutcomes(s)
      /\ SetRecord(us, i, after)
      /\ broker' = Released(i, s, out)
      /\ sends' = [sends EXCEPT ![i] = NoSend] /\ Done(i)
      /\ \/ UNCHANGED codex
         \/ /\ out = "unknown" /\ ~s.written /\ Connected /\ s.gen = gen
            /\ Written(i, s)
      /\ UNCHANGED <<link, gen, events, closed>>

(* What Codex told is applied: a resolved request is looked up by its id,  *)
(* the others act on the record they were meant for.                       *)
Observed(op, r) ==
  LET seen == CASE op = "resolved" -> [r EXCEPT !.resolved = TRUE]
                [] op = "item" -> [r EXCEPT !.item = TRUE]
                [] OTHER -> r
  IN  CASE op = "turn" -> IF r.item THEN r ELSE Supersede(r)
        [] op = "disconnect" -> Supersede(r)
        [] OTHER -> IF r.kind = "none" THEN Supersede(seen) ELSE Settle(seen)

Observe(i) ==
  LET o == Head(tails[i])
  IN  /\ \E op \in EventOps \cup {"disconnect"} : Runs(i, op)
      /\ IF records[i].gen # 0 /\ (o.op = "resolved" \/ o.gen = records[i].gen)
           THEN SetRecord(users, i, Observed(o.op, records[i]))
           ELSE UNCHANGED <<records, users>>
      /\ Done(i)
      /\ UNCHANGED <<sends, broker, link, gen, events, closed, codex>>
--------------------------------------------------------------------------------
(* The connection: what is lost with it, the cleanup that supersedes its   *)
(* approvals one after the other, and the next one.                        *)
LinkLost ==
  /\ Settled
  /\ Connected
  /\ link' = "down"
  /\ broker' = [i \in Ids |-> "none"] /\ wire' = [i \in Ids |-> "none"]
  /\ UNCHANGED <<service, gen, events, ask>>

Cleaning == \E i \in Ids : \E k \in 1 .. Len(tails[i]) : tails[i][k].op = "disconnect"
Disconnect(i) ==
  /\ Settled
  /\ ~Connected /\ ~Cleaning
  /\ ~records[i].closed /\ records[i].gen = gen
  /\ tails' = [tails EXCEPT ![i] = Append(@, Op("disconnect", gen, "none"))]
  /\ UNCHANGED <<records, sends, users, broker, link, gen, events, closed, codex>>

(* Mutant: the next connection does not wait for the pipeline. *)
DrainedNever == TRUE
Drained == events = <<>> /\ ~Observing
Reconnects ==
  /\ Settled
  /\ link = "down" /\ gen < MaxGen /\ ~closed
  /\ \A i \in Ids : records[i].gen = gen => records[i].closed
  /\ ~Cleaning /\ Drained
  /\ link' = "resubscribing" /\ gen' = gen + 1
  /\ UNCHANGED <<service, broker, events, codex>>

Admits ==
  /\ Settled
  /\ link = "resubscribing" /\ Drained
  /\ link' = "up"
  /\ UNCHANGED <<service, broker, gen, events, codex>>

Close ==
  /\ Settled
  /\ ~closed
  /\ closed' = TRUE
  /\ Put(users, [i \in Ids |-> Supersede(records[i])])
  /\ UNCHANGED <<tails, sends, broker, link, gen, events, codex>>

Next ==
  \/ \E i \in Ids :
       \/ Register(i) \/ Overloaded(i) \/ Hears(i) \/ AnsweredElsewhere(i)
       \/ \E e \in EventOps : Tells(i, e)
       \/ \E u \in Users, d \in Decisions : Decides(u, i, d)
       \/ Due(i) \/ TimerFires(i)
       \/ Expire(i) \/ Refuses(i) \/ DeclinesInstead(i) \/ Respond(i) \/ RespondTooLate(i)
       \/ Writes(i) \/ Observe(i) \/ Disconnect(i)
       \/ \E out \in {"sent", "not_sent", "unknown"} : SendEnds(i, out)
  \/ \E u \in Users : GivesUp(u)
  \/ ObserveEvent \/ ExpireDue \/ LinkLost \/ Reconnects \/ Admits \/ Close

Spec == Init /\ [][Next]_vars

(* The event loop runs timers, queued operations, the event pipeline and   *)
(* the cleanup after a lost connection, a send ends (its timeout bounds    *)
(* it) and a connection that was made is admitted.  Nothing is promised of *)
(* Codex, of the users or of the network.                                  *)
Works(i) ==
  Expire(i) \/ Refuses(i) \/ DeclinesInstead(i) \/ Respond(i) \/ RespondTooLate(i) \/ Observe(i)
Fairness ==
  /\ WF_vars(ObserveEvent) /\ WF_vars(Admits)
  /\ \A i \in Ids :
       /\ WF_vars(Works(i)) /\ WF_vars(TimerFires(i)) /\ WF_vars(Disconnect(i))
       /\ WF_vars(\E out \in {"sent", "not_sent", "unknown"} : SendEnds(i, out))
FairSpec == Spec /\ Fairness
--------------------------------------------------------------------------------
Records ==
  [gen : 0 .. MaxGen, kind : {"none", "user", "expiry"}, decision : Decisions \cup {"none"},
   state : {"none", "pending", "responding", "expired", "approved", "denied", "superseded"},
   outcome : {"none", "not_sent", "sending", "sent", "unknown"},
   resolved : BOOLEAN, item : BOOLEAN, closed : BOOLEAN, due : BOOLEAN, timer : BOOLEAN]
Operations ==
  [op : {"respond", "expire", "disconnect"} \cup EventOps, gen : 0 .. MaxGen,
   user : Users \cup {"none"}]
Responses ==
  [on : {TRUE}, kind : {"user", "expiry"}, decision : Decisions, user : Users \cup {"none"},
   gen : 1 .. MaxGen, written : BOOLEAN]
Sends == {NoSend} \cup Responses
Acting ==
  [pc : {"queued", "sending", "waiting", "done"}, id : Ids, gen : 0 .. MaxGen,
   decision : Decisions, reply : {"none", "failed", "incomplete", "finalized"}]
Deciders == {Idle} \cup Acting
Notifications == [op : EventOps, id : Ids]
Asks ==
  [gen : 0 .. MaxGen, taken : Decisions \cup {"none", "elsewhere"}, told : SUBSET EventOps,
   frames : Nat, from : Users \cup {"none"}]

TypeOK ==
  /\ records \in [Ids -> Records] /\ tails \in [Ids -> Seq(Operations)]
  /\ sends \in [Ids -> Sends] /\ users \in [Users -> Deciders]
  /\ broker \in [Ids -> {"none", "pending", "responding"}]
  /\ wire \in [Ids -> Decisions \cup {"none"}] /\ ask \in [Ids -> Asks]
  /\ events \in Seq(Notifications) /\ closed \in BOOLEAN
  /\ gen \in 1 .. MaxGen /\ link \in {"up", "resubscribing", "down", "failed"}
  /\ Cardinality(Tracked) <= Capacity /\ Cardinality(Held) <= Capacity

(* Codex is sent at most one response to a request, whatever happens to    *)
(* the sends, the users, the expiry and the connection (respond,           *)
(* expireRecord and the broker's claimServerRequest together).             *)
OneResponse == \A i \in Ids : ask[i].frames <= 1

(* What a user is told of a decision is true: it became final only if      *)
(* Codex took it or another client's answer came first, and a decision     *)
(* that failed was never sent (respond, settle, and the outcomes the       *)
(* approval route makes of them).                                          *)
DecisionKept ==
  \A u \in Users :
    users[u].pc = "done" /\ ask[users[u].id].gen = users[u].gen =>
      LET a == ask[users[u].id]
      IN  /\ users[u].reply = "finalized" => a.taken \in {users[u].decision, "elsewhere"}
          /\ users[u].reply = "failed" => a.from # u

(* A request counts as resolved only if Codex resolved that very ask: a    *)
(* notification that was still in the pipeline when the connection was     *)
(* lost never meets the request that reuses its id (observeEvent looks it  *)
(* up by id alone).                                                        *)
ResolutionIsReal ==
  \A i \in Ids :
    records[i].gen = ask[i].gen /\ records[i].resolved => "resolved" \in ask[i].told

(* A request that is due does not stay pending (scheduleExpiry, the        *)
(* serialized expiry).                                                     *)
DueExpires ==
  \A i \in Ids :
    (records[i].state = "pending" /\ records[i].due) ~> (records[i].state # "pending")

================================================================================
