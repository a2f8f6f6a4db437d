---------------------------- MODULE EventDelivery ----------------------------
(***************************************************************************)
(* How the events of one session reach the browsers that follow it: the    *)
(* fanout hub, the replay-to-live handoff and the subscriber streams of    *)
(* packages/server, and the stream client of packages/web.                 *)
(*                                                                         *)
(* A commit and its publication are one step (projection-append-port       *)
(* publishes in the turn in which it committed).  The handoff opens in     *)
(* steps, one for each call it makes on the storage port, and commits may  *)
(* fall between them, as the tests of the handoff make them do.            *)
(***************************************************************************)
EXTENDS ProjectionTable, Sequences

CONSTANTS
  Clients,      \* browsers
  MaxStreams,   \* sse_max_subscribers_per_session
  QueueMax,     \* sse_queue_max_events
  ReplayMax,    \* sse_replay_max_events
  PageSize,     \* replayPageLimit
  MaxAttempts,  \* maximumRetentionReplayAttempts
  MaxRetries,   \* maxReconnectAttempts of the browser
  Window,       \* how far back a "recent" stream starts
  EventLimit,   \* output_event_limit
  MaxEvents,    \* events a session may accumulate (bound)
  MaxFaults     \* dropped connections, crashes and lost runtimes (bound)

ASSUME DeliveryAssumption ==
  /\ {QueueMax, ReplayMax, PageSize, MaxAttempts, MaxStreams} \subseteq Nat \ {0}
  /\ {EventLimit, MaxEvents} \subseteq Nat \ {0} /\ EventLimit >= 2
  /\ {MaxRetries, Window, MaxFaults} \subseteq Nat

VARIABLES
  stored,    \* the stored projection
  hub,       \* the fanout hub: failed, and the last cursor it published
  subs,      \* clients registered with the hub
  admitted,  \* clients holding a place in the subscriber service
  stream,    \* each client's server-side stream and handoff
  browser,   \* each client's connection state
  faults     \* faults so far

deliveryVars == <<stored, hub, subs, admitted, stream, browser, faults>>

Item(t, c) == [cursor |-> c, row |-> t.rows[c]]

NoStream ==
  [st |-> "none", after |-> None, observed |-> None, hw |-> None, floor |-> None,
   tries |-> 0, seen |-> None, paused |-> <<>>, replay |-> <<>>, queue |-> <<>>,
   wire |-> <<>>, waiting |-> FALSE]

Opening == {"subscribed", "reading", "checking"}
Registered == Opening \cup {"paused", "live"}

NewBrowser ==
  [phase |-> "idle", cursor |-> None, started |-> FALSE, marked |-> FALSE,
   retries |-> 0, lost |-> {}, why |-> "none"]

DeliveryInit ==
  /\ stored = EmptyTable /\ hub = [failed |-> FALSE, last |-> None]
  /\ subs = {} /\ admitted = {}
  /\ stream = [c \in Clients |-> NoStream]
  /\ browser = [c \in Clients |-> NewBrowser] /\ faults = 0

IsNext(prev, c) == c = OrZero(prev) + 1
LastOf(q, otherwise) == IF q = <<>> THEN otherwise ELSE q[Len(q)].cursor
Contiguous(prev, q) ==
  \A i \in 1..Len(q) : IsNext(IF i = 1 THEN prev ELSE q[i - 1].cursor, q[i].cursor)

\* The n-th smallest of a set of numbers.
Nth(S, n) == CHOOSE m \in S : Cardinality({l \in S : l <= m}) = n

-----------------------------------------------------------------------------
(* The streams' end of the hub. *)

\* The hub forgets a session that has no subscriber left.
KeepsSubscribed(S, gone) == S                          \* mutant: no unsubscribe
Unsubscribed(S, gone) == S \ gone
HubWithout(S, last) == [hub EXCEPT !.last = IF S = {} THEN None ELSE last]

\* isValidatedDuplicate
Duplicate(k, e) ==
  \/ k.replay # <<>> /\ k.replay[1].row.kind = "boundary" /\ e.cursor <= k.replay[1].cursor
  \/ \E i \in 1..Len(k.replay) : k.replay[i] = e

Broken(k) == [NoStream EXCEPT !.st = "broken"]

\* onCommitted of the handoff and accept of the stream: what one publication
\* does to one registered stream.  A stream that is gone ends as NoStream.
Hold(k, e) ==
  IF Len(k.paused) >= QueueMax THEN Broken(k)
  ELSE [k EXCEPT !.paused = Append(@, e), !.seen = e.cursor]

\* Mutant: a full queue drops its oldest event.
AcceptDropsOldest(k, e) ==
  IF k.waiting THEN [k EXCEPT !.wire = <<e>>, !.waiting = FALSE, !.seen = e.cursor]
  ELSE [k EXCEPT !.seen = e.cursor,
          !.queue = Append(IF Len(@) >= QueueMax THEN Tail(@) ELSE @, e)]
Accept(k, e) ==
  IF k.waiting THEN [k EXCEPT !.wire = <<e>>, !.waiting = FALSE, !.seen = e.cursor]
  ELSE IF Len(k.queue) >= QueueMax THEN NoStream
  ELSE [k EXCEPT !.queue = Append(@, e), !.seen = e.cursor]

OnCommitted(k, e) ==
  IF k.st \in Opening
    THEN IF k.seen = None \/ IsNext(k.seen, e.cursor) THEN Hold(k, e) ELSE Broken(k)
  ELSE IF k.st = "paused"
    THEN IF e.cursor <= OrZero(k.hw) THEN (IF Duplicate(k, e) THEN k ELSE Broken(k))
         ELSE IF IsNext(k.seen, e.cursor) THEN Hold(k, e) ELSE Broken(k)
  ELSE IF k.st = "live"
    THEN IF e.cursor > OrZero(k.hw) /\ IsNext(k.seen, e.cursor) THEN Accept(k, e) ELSE NoStream
  ELSE k

\* publish: a gap or a repeat stops the hub and every stream for good.
HubFollows(c) == ~hub.failed /\ (hub.last = None \/ c = hub.last + 1)
Publish(e) ==
  LET next == [c \in Clients |->
                 IF c \notin subs THEN stream[c]
                 ELSE IF HubFollows(e.cursor) THEN OnCommitted(stream[c], e)
                 ELSE IF stream[c].st = "live" THEN NoStream ELSE Broken(stream[c])]
      gone == {c \in subs : next[c].st \in {"none", "broken"}} IN
  /\ stream' = next
  /\ subs' = Unsubscribed(subs, gone)
  /\ admitted' = admitted \ {c \in gone : stream[c].st \in {"paused", "live"}}
  /\ hub' = IF subs = {} THEN hub
            ELSE IF ~HubFollows(e.cursor) THEN [failed |-> TRUE, last |-> None]
            ELSE HubWithout(subs', e.cursor)

-----------------------------------------------------------------------------
(* The writers. *)

\* The production append, pruned by its event limit.
Event ==
  /\ stored.last < MaxEvents
  /\ LET next == Appended(stored) IN
       IF next.count <= EventLimit THEN stored' = next
       ELSE /\ RetentionLayoutAccepted(next)
            /\ IF AppendCuts(next, EventLimit) = {} THEN stored' = next
               ELSE \E b \in AppendCuts(next, EventLimit) : stored' = Pruned(next, b)
  /\ Publish(Item(stored', stored'.last))
  /\ UNCHANGED <<browser, faults>>

\* The runtime was lost: the continuity port replaces history with a boundary.
RuntimeLost ==
  /\ stored.last < MaxEvents /\ faults < MaxFaults
  /\ stored' = BoundaryReplaced(stored, "disconnect")
  /\ Publish(Item(stored', stored'.last))
  /\ faults' = faults + 1 /\ UNCHANGED browser

-----------------------------------------------------------------------------
(* Opening a stream. *)

\* The browser leaves its attempt: for good, or to retry from its cursor.
GaveUp(b, why) == [b EXCEPT !.phase = "failed", !.why = why]
Retrying(b) ==
  IF b.retries + 1 > MaxRetries THEN GaveUp(b, "reconnect_exhausted")
  ELSE [b EXCEPT !.phase = "connecting", !.retries = @ + 1]

\* terminateRecord: releases the place, closes the handoff, unsubscribes.
Terminate(c) ==
  /\ stream' = [stream EXCEPT ![c] = NoStream]
  /\ subs' = Unsubscribed(subs, {c}) /\ admitted' = admitted \ {c}
  /\ hub' = HubWithout(subs', hub.last)

\* The request fails before the stream starts: an HTTP error, never retried.
Refused(c, why) ==
  /\ browser' = [browser EXCEPT ![c] = GaveUp(@, why)]
  /\ Terminate(c) /\ UNCHANGED <<stored, faults>>

\* The page read a session detail and asks for the stream after it.
Connect(c) ==
  /\ browser[c].phase = "idle"
  /\ \E after \in {stored.last, IF stored.last = None THEN None
                             ELSE IF stored.last > Window THEN stored.last - Window ELSE 0} :
       browser' = [browser EXCEPT ![c].phase = "connecting", ![c].cursor = after]
  /\ UNCHANGED <<stored, hub, subs, admitted, stream, faults>>

\* admit, reserve, and the paused subscription.
Open(c) ==
  /\ browser[c].phase = "connecting" /\ stream[c].st = "none" /\ c \notin admitted
  /\ IF Cardinality(admitted) >= MaxStreams \/ hub.failed
       THEN Refused(c, "unavailable")
       ELSE /\ admitted' = admitted \cup {c} /\ subs' = subs \cup {c}
            /\ stream' = [stream EXCEPT ![c] =
                 [NoStream EXCEPT !.st = "subscribed", !.after = browser[c].cursor,
                                  !.observed = hub.last]]
            /\ UNCHANGED <<stored, hub, browser, faults>>

\* The durable high-water cursor.
Capture(c) ==
  LET k == stream[c] IN
  /\ k.st = "subscribed"
  /\ IF k.observed # None /\ OrZero(stored.last) < k.observed THEN Refused(c, "replay_inconsistent")
     ELSE IF k.after # None /\ k.after > OrZero(stored.last) THEN Refused(c, "future_cursor")
     ELSE /\ stream' = [stream EXCEPT ![c].hw = stored.last,
               ![c].st = IF stored.last = None \/ k.after = stored.last THEN "checking" ELSE "reading"]
          /\ UNCHANGED <<stored, hub, subs, admitted, browser, faults>>

\* One listEvents call.  A boundary at the head of the page restarts the replay.
Page(k) ==
  LET from == LastOf(k.replay, k.after)
      cursors == {c \in PageCursors(stored, from, PageSize) : c <= k.hw} IN
  [i \in 1..Cardinality(cursors) |-> Item(stored, Nth(cursors, i))]

ReplayWith(k, page) ==
  IF page[1].row.kind = "boundary" THEN page ELSE k.replay \o page

ReplayPage(c) ==
  LET k == stream[c]
      from == LastOf(k.replay, k.after)
      page == Page(k)
      replay == ReplayWith(k, page) IN
  /\ k.st = "reading"
  /\ IF page = <<>> \/ ~ReadAccepted(stored, from, PageSize)
        \/ (page[1].row.kind # "boundary" /\ ~IsNext(from, page[1].cursor))
        \/ ~Contiguous(page[1].cursor, Tail(page))
       THEN Refused(c, "replay_inconsistent")
     ELSE IF Len(replay) > ReplayMax THEN Refused(c, "replay_limit")
     ELSE /\ stream' = [stream EXCEPT ![c].replay = replay,
               ![c].st = IF LastOf(replay, None) = k.hw THEN "checking" ELSE "reading"]
          /\ UNCHANGED <<stored, hub, subs, admitted, browser, faults>>

\* Whether the finished replay still agrees with the stored boundary.
Overtaken(k) ==
  \/ OrZero(stored.last) < k.hw
  \/ stored.boundary # None /\ stored.boundary >= k.hw
  \/ k.floor # None /\ stored.boundary < k.floor
Outdated(k) ==
  /\ CrossesBoundary(stored, k.after)
  /\ ~(k.replay[1].row.kind = "boundary" /\ k.replay[1].row.after = stored.boundary)
Unexpected(k) ==
  /\ stored.boundary # None /\ ~CrossesBoundary(stored, k.after)
  /\ k.replay[1].row.kind = "boundary"

\* normalizePausedQueue: what waited is a duplicate of the replay or follows it.
Above(k, q) ==
  LET kept == {i \in 1..Len(q) : q[i].cursor > OrZero(k.hw)} IN
  [n \in 1..Cardinality(kept) |-> q[Nth(kept, n)]]
Within(k, q) == {q[i] : i \in {j \in 1..Len(q) : q[j].cursor <= OrZero(k.hw)}}
Unbroken(prev, q) == prev = None \/ q = <<>> \/ IsNext(prev, q[1].cursor)

Settle(c) ==
  LET k == stream[c]
      live == Above(k, k.paused) IN
  IF \/ ~Unbroken(k.observed, k.paused)
     \/ k.paused # <<>> /\ ~Contiguous(k.paused[1].cursor, Tail(k.paused))
     \/ \E e \in Within(k, k.paused) : ~Duplicate(k, e)
     \/ ~Contiguous(k.hw, live)
    THEN Refused(c, "replay_inconsistent")
    ELSE /\ stream' = [stream EXCEPT ![c].st = "paused", ![c].paused = live,
                                     ![c].seen = LastOf(live, k.hw)]
         /\ UNCHANGED <<stored, hub, subs, admitted, browser, faults>>

Check(c) ==
  LET k == stream[c] IN
  /\ k.st = "checking"
  /\ IF k.replay = <<>> THEN Settle(c)
     ELSE IF Overtaken(k) THEN Refused(c, "replay_inconsistent")
     ELSE IF Outdated(k)
       THEN IF k.tries + 1 >= MaxAttempts THEN Refused(c, "replay_limit")
            ELSE /\ stream' = [stream EXCEPT ![c].st = "reading", ![c].tries = @ + 1,
                                 ![c].replay = <<>>, ![c].floor = stored.boundary]
                 /\ UNCHANGED <<stored, hub, subs, admitted, browser, faults>>
     ELSE IF Unexpected(k) THEN Refused(c, "replay_inconsistent")
     ELSE Settle(c)

\* Mutant: the events that waited are forgotten when the stream goes live.
ActivateForgetsPaused(c) ==
  /\ stream[c].st = "paused"
  /\ stream' = [stream EXCEPT ![c].st = "live", ![c].paused = <<>>]
  /\ browser' = [browser EXCEPT ![c].phase = "connected", ![c].started = FALSE]
  /\ UNCHANGED <<stored, hub, subs, admitted, faults>>

\* claim_replay, createStream and activate: the response starts.
Activate(c) ==
  /\ stream[c].st = "paused"
  /\ stream' = [stream EXCEPT ![c].st = "live", ![c].queue = stream[c].paused, ![c].paused = <<>>]
  /\ browser' = [browser EXCEPT ![c].phase = "connected", ![c].started = FALSE]
  /\ UNCHANGED <<stored, hub, subs, admitted, faults>>

\* A handoff that failed while it opened is noticed by its next step.
OpenBroken(c) == stream[c].st = "broken" /\ Refused(c, "handoff_failed")

-----------------------------------------------------------------------------
(* A live stream. *)

\* next() of the stream's iterator, called by the Readable for the socket.
Taken(k) ==
  IF k.replay # <<>> THEN [k EXCEPT !.wire = <<Head(k.replay)>>, !.replay = Tail(@)]
  ELSE IF k.queue # <<>> THEN [k EXCEPT !.wire = <<Head(k.queue)>>, !.queue = Tail(@)]
  ELSE [k EXCEPT !.waiting = TRUE]

Pull(c) ==
  /\ stream[c].st = "live" /\ stream[c].wire = <<>> /\ ~stream[c].waiting
  /\ stream' = [stream EXCEPT ![c] = Taken(@)]
  /\ UNCHANGED <<stored, hub, subs, admitted, browser, faults>>

\* validateEventContinuity of the browser.
Objection(b, e) ==
  IF b.cursor # None /\ e.cursor = b.cursor THEN "duplicate_event"
  ELSE IF b.cursor # None /\ e.cursor < b.cursor THEN "out_of_order_event"
  ELSE IF e.row.kind = "boundary"
    THEN IF b.started \/ b.marked \/ (b.cursor # None /\ OrZero(e.row.after) < b.cursor)
           THEN "invalid_event" ELSE "none"
  ELSE IF IsNext(b.cursor, e.cursor) THEN "none" ELSE "cursor_gap"

\* The event is applied.  Only a boundary tells the page of events it will not
\* see; lost is a history of what it was told.
Took(b, e) ==
  [b EXCEPT !.cursor = e.cursor, !.started = TRUE, !.retries = 0,
            !.marked = @ \/ e.row.kind = "boundary",
            !.lost = IF e.row.kind = "boundary"
                       THEN @ \cup ((OrZero(b.cursor) + 1)..(e.cursor - 1)) ELSE @]

Receive(c) ==
  LET k == stream[c]
      b == browser[c]
      e == Head(k.wire)
      why == Objection(b, e) IN
  /\ b.phase = "connected" /\ k.st = "live" /\ k.wire # <<>>
  /\ IF why = "none"
       THEN /\ browser' = [browser EXCEPT ![c] = Took(b, e)]
            /\ stream' = [stream EXCEPT ![c].wire = <<>>]
            /\ UNCHANGED <<hub, subs, admitted>>
       ELSE /\ browser' = [browser EXCEPT ![c] = GaveUp(b, why)]
            /\ Terminate(c)
  /\ UNCHANGED <<stored, faults>>

Heartbeat(c) ==
  /\ browser[c].phase = "connected" /\ stream[c].st = "live" /\ browser[c].retries # 0
  /\ browser' = [browser EXCEPT ![c].retries = 0]
  /\ UNCHANGED <<stored, hub, subs, admitted, stream, faults>>

\* The server ended the response: transport_unavailable, retried.
NoticeEnd(c) ==
  /\ browser[c].phase = "connected" /\ stream[c].st = "none"
  /\ browser' = [browser EXCEPT ![c] = Retrying(@)]
  /\ UNCHANGED <<stored, hub, subs, admitted, stream, faults>>

-----------------------------------------------------------------------------
(* Faults. *)

\* The connection drops: the request aborts and what it carried is lost.
Drop(c) ==
  /\ faults < MaxFaults /\ stream[c].st # "none"
  /\ Terminate(c)
  /\ browser' = [browser EXCEPT ![c] = Retrying(@)]
  /\ faults' = faults + 1 /\ UNCHANGED stored

\* HostDeck stops and starts again: only what is stored survives.
Crash ==
  /\ faults < MaxFaults
  /\ hub' = [failed |-> FALSE, last |-> None] /\ subs' = {} /\ admitted' = {}
  /\ stream' = [c \in Clients |-> NoStream]
  /\ browser' = [c \in Clients |->
       IF stream[c].st = "none" THEN browser[c] ELSE Retrying(browser[c])]
  /\ faults' = faults + 1 /\ UNCHANGED stored

Server(c) == Capture(c) \/ ReplayPage(c) \/ Check(c) \/ Activate(c) \/ OpenBroken(c) \/ Pull(c)
Browser(c) == Connect(c) \/ Open(c) \/ Receive(c) \/ NoticeEnd(c)

DeliveryNext ==
  \/ Event \/ RuntimeLost \/ Crash
  \/ \E c \in Clients : Server(c) \/ Browser(c) \/ Heartbeat(c) \/ Drop(c)

DeliverySpec == DeliveryInit /\ [][DeliveryNext]_deliveryVars

\* The event loop runs every open and every pending read; a page that is open
\* keeps reading its socket and retries.
Fairness == \A c \in Clients : WF_deliveryVars(Server(c)) /\ WF_deliveryVars(Browser(c))
FairDeliverySpec == DeliverySpec /\ Fairness

-----------------------------------------------------------------------------
DeliveryTypeOK ==
  /\ Shaped(stored) /\ OrZero(stored.last) <= MaxEvents
  /\ hub \in [failed : BOOLEAN, last : {None} \cup 1..MaxEvents]
  /\ subs \subseteq Clients /\ admitted \subseteq Clients /\ faults \in 0..MaxFaults
  /\ \A c \in Clients :
       /\ stream[c].st \in {"none", "broken"} \cup Registered
       /\ stream[c].tries \in 0..(MaxAttempts - 1)
       /\ Len(stream[c].paused) <= QueueMax /\ Len(stream[c].queue) <= QueueMax
       /\ Len(stream[c].replay) <= ReplayMax /\ Len(stream[c].wire) <= 1
       /\ browser[c].phase \in {"idle", "connecting", "connected", "failed"}
       /\ browser[c].retries \in 0..MaxRetries
       /\ browser[c].cursor \in {None} \cup 0..MaxEvents /\ browser[c].lost \subseteq 1..MaxEvents

\* Every way a stream can end gives back its registration and its place, so the
\* limits cannot leak away.
PlacesMatchStreams ==
  /\ subs = {c \in Clients : stream[c].st \in Registered}
  /\ subs \subseteq admitted
  /\ \A c \in admitted : stream[c].st # "none"

\* However commits, prunings and reconnections fall between the steps of an open,
\* no browser is sent an event twice, out of order or after a gap, and none comes
\* back with a cursor the storage has not reached.
Inconsistent == {"duplicate_event", "out_of_order_event", "cursor_gap", "future_cursor"}
NothingOutOfOrder == \A c \in Clients : browser[c].why \notin Inconsistent

\* Requirement FR-013 as an abstract specification, which this system implements:
\* whatever falls between the steps of an open, what a browser is sent takes it
\* from one cursor to the next, and a jump comes only with a boundary that tells it
\* what it missed.  A browser that objects to the order of what it was sent is
\* nowhere in the feed, and no step of the feed leads there.
Place(b) ==
  IF b.phase = "idle" THEN -1
  ELSE IF b.why \in Inconsistent THEN -2 ELSE OrZero(b.cursor)
Feed == INSTANCE GapFreeFeed WITH
  Readers <- Clients,
  last <- OrZero(stored.last),
  at <- [c \in Clients |-> Place(browser[c])],
  lost <- [c \in Clients |-> browser[c].lost]
ImplementsFeed == Feed!Spec

\* Once faults and commits have ended, every browser that was not turned away
\* holds the newest event, whatever appends, prunings, reconnections and restarts
\* came between; none gave up because it saw a duplicate, a reordering or a gap,
\* or because its cursor was ahead of the storage.
CaughtUp(c) ==
  \/ browser[c].phase = "failed" /\ browser[c].why \notin Inconsistent
  \/ OrZero(browser[c].cursor) = OrZero(stored.last)
EveryBrowserCatchesUp == \A c \in Clients : <>[]CaughtUp(c)

=============================================================================
