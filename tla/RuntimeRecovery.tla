--------------------------- MODULE RuntimeRecovery ---------------------------
(***************************************************************************)
(* The connection to Codex across losses: the reconnect controller, the    *)
(* reconciliation lifecycle it drives, and the event pipeline through      *)
(* which notifications reach the stored sessions.                          *)
(*                                                                         *)
(* Every connection has a generation.  When one is lost the controller     *)
(* runs `disconnected` (mark every session), backs off, connects again and *)
(* runs `reconcile` (observe the threads, fence the pipeline, replace the  *)
(* retained events of each session by a boundary), `resubscribe` (resume   *)
(* the threads) and `ready` (publish).  Notifications of the new           *)
(* generation are held until resubscription is over.  The code is single   *)
(* threaded: an action is what runs between two awaits, and the pipeline   *)
(* and the lifecycle interleave at every await.  A step whose connection   *)
(* is lost is abandoned at its next await, before the next step starts.    *)
(*                                                                         *)
(* A stored time is compared with the wall clock only: 0 is earlier, 1 is  *)
(* this millisecond, 2 is ahead of it.                                     *)
(***************************************************************************)
EXTENDS Naturals, Sequences, FiniteSets

CONSTANTS
  Sessions,   \* the managed sessions
  Adopted,    \* those whose thread was adopted, which may be unmanaged
  Limit,      \* protocol_max_pending_notifications, of the controller and of the pipeline
  MaxLosses,  \* connections lost or refused (bound)
  MaxEvents,  \* notifications Codex sends (bound)
  MaxFaults   \* steps that fail, and fatal protocol issues (bound)

ASSUME RecoveryAssumption ==
  /\ IsFiniteSet(Sessions) /\ Adopted \subseteq Sessions
  /\ Limit \in Nat \ {0} /\ MaxLosses \in Nat /\ MaxEvents \in Nat /\ MaxFaults \in Nat

VARIABLES
  ctl,     \* the reconnect controller
  link,    \* the transport: its generation, and the notifications it has carried
  held,    \* heldInbound
  life,    \* the reconciliation lifecycle
  step,    \* the lifecycle step in progress: where it is, sessions still to do
  pipe,    \* the event pipeline
  sess,    \* the stored sessions
  clock,   \* the last audit timestamp given out
  budget   \* losses, events and faults still allowed

vars == <<ctl, link, held, life, step, pipe, sess, clock, budget>>

Outcomes == {"recoverable", "stale", "recovery", "archived"}
Causes == {"none", "incompatible", "events", "cleanup", "failed"}
NoStep == [stage |-> "none", todo |-> {}, outcome |-> [s \in Sessions |-> "stale"]]
Cycle == {"reconcile", "resubscribe", "ready"}

Controls ==
  [at : {"idle", "loop", "cleanup", "backoff", "connecting", "reconcile", "resubscribe",
         "ready", "arming", "waiting", "ended"},
   ending : BOOLEAN, fatal : BOOLEAN, everReady : BOOLEAN,
   admitted : Nat, direct : Nat, lossPending : Nat, lossDone : Nat, cause : Causes]
Links == [gen : Nat, open : BOOLEAN, sent : Nat]
Lives ==
  [phase : {"idle", "gap_prepared", "reconciled", "resubscribed", "ready", "failed"},
   gap : BOOLEAN, cycle : Nat]
Stages == {"none", "dial", "handshake", "lost", "audit", "start", "mark", "fence", "commit",
           "refused", "resume", "barrier", "publish"}
Steps == [stage : Stages, todo : SUBSET Sessions, outcome : [Sessions -> Outcomes]]
Budgets == [losses : Nat, events : Nat, faults : Nat]

(* What waits in the pipeline's tail, and a stored session.                *)
Events == [kind : {"event"}, s : Sessions, gen : Nat, n : Nat, effect : {"plain", "trouble"}]
Fences == [kind : {"fence"}, gen : Nat]
Removals == [kind : {"unmanage"}, s : Sessions]
Entries == Events \cup Fences \cup Removals
Pipes == [queue : Seq(Entries), stopped : BOOLEAN, got : Nat]
Stored ==
  [here : BOOLEAN, selected : BOOLEAN, archived : BOOLEAN,
   fresh : {"current", "disconnected", "resubscribe", "other"},
   fence : Nat, since : SUBSET Nat, stamp : 0..2,
   asked : {"no", "asked", "valid", "stale"}]

TypeOK ==
  /\ ctl \in Controls /\ link \in Links /\ life \in Lives /\ step \in Steps
  /\ pipe \in Pipes
  /\ held \in Seq(Events) /\ Len(held) <= Limit
  /\ sess \in [Sessions -> Stored]
  /\ clock \in 0..2 /\ budget \in Budgets

(* A new process finds the sessions as an earlier one left them: current,  *)
(* when it was killed while connected.                                     *)
Init ==
  /\ ctl = [at |-> "idle", ending |-> FALSE, fatal |-> FALSE, everReady |-> FALSE,
            admitted |-> 0, direct |-> 0, lossPending |-> 0, lossDone |-> 0, cause |-> "none"]
  /\ link = [gen |-> 0, open |-> FALSE, sent |-> 0]
  /\ held = <<>>
  /\ life = [phase |-> "idle", gap |-> FALSE, cycle |-> 0]
  /\ step = NoStep
  /\ pipe = [queue |-> <<>>, stopped |-> FALSE, got |-> 0]
  /\ sess = [s \in Sessions |->
              [here |-> TRUE, selected |-> TRUE, archived |-> FALSE, fresh |-> "current",
               fence |-> 0, since |-> {}, stamp |-> 0, asked |-> "no"]]
  /\ clock = 0
  /\ budget = [losses |-> MaxLosses, events |-> MaxEvents, faults |-> MaxFaults]

----------------------------------------------------------------------------
(* Stored sessions and their times.                                        *)

Listed == {s \in Sessions : sess[s].here /\ ~sess[s].archived}
Managed(s) == sess[s].here /\ ~sess[s].archived /\ sess[s].selected
Recoverable == {s \in Sessions : step.outcome[s] = "recoverable"} \cap Listed

(* The audit clock never repeats a value: asked again in the same          *)
(* millisecond it answers with the next one.                               *)
AuditNow(c) == IF c = 0 THEN 1 ELSE 2
StampAfter(floor) == IF floor = 0 THEN AuditNow(clock) ELSE 2

(* A write changes the session's revision.                                 *)
Write(s, r) ==
  sess' = [sess EXCEPT ![s] =
            [r EXCEPT !.asked = IF r.asked = "valid" THEN "stale" ELSE r.asked]]

(* The wall clock passes every time stored so far. *)
Tick ==
  /\ ctl.at # "ended"
  /\ clock # 0 \/ \E s \in Sessions : sess[s].stamp # 0
  /\ clock' = 0
  /\ sess' = [s \in Sessions |-> [sess[s] EXCEPT !.stamp = 0]]
  /\ UNCHANGED <<ctl, link, held, life, step, pipe, budget>>

----------------------------------------------------------------------------
(* The controller's loop.                                                  *)

Spend(what) == budget[what] > 0 /\ budget' = [budget EXCEPT ![what] = @ - 1]

Start ==
  /\ ctl.at = "idle"
  /\ ctl' = [ctl EXCEPT !.at = "connecting"]
  /\ step' = [NoStep EXCEPT !.stage = "dial"]
  /\ UNCHANGED <<link, held, life, pipe, sess, clock, budget>>

(* Mutant: the close of the connection is no longer listened to. *)
StopDeaf(why) ==
  /\ ctl' = [ctl EXCEPT !.at = "loop", !.ending = TRUE, !.admitted = 0, !.direct = 0,
                        !.cause = why]
  /\ link' = [link EXCEPT !.open = FALSE]
  /\ held' = <<>>
  /\ step' = NoStep

(* recordTerminal: no more admission, the connection closed and its loss   *)
(* left for the loop to clean up.                                          *)
Stop(why) ==
  /\ ctl' = [ctl EXCEPT !.at = "loop", !.ending = TRUE, !.admitted = 0, !.direct = 0,
                        !.cause = why,
                        !.lossPending = IF link.open THEN link.gen ELSE @]
  /\ link' = [link EXCEPT !.open = FALSE]
  /\ held' = <<>>
  /\ step' = NoStep

(* A lifecycle step that throws is recorded before the controller stops.   *)
FailStep(why) ==
  /\ Stop(why)
  /\ life' = [life EXCEPT !.phase = "failed"]

LossToRecord == ctl.lossPending > ctl.lossDone

ThrowFatal ==
  /\ ctl.at = "loop" /\ ctl.fatal /\ ~ctl.ending
  /\ Stop("failed")
  /\ UNCHANGED <<life, pipe, sess, clock, budget>>

BeginCleanup ==
  /\ ctl.at = "loop" /\ (ctl.ending \/ ~ctl.fatal) /\ LossToRecord
  /\ ctl' = [ctl EXCEPT !.at = "cleanup"]
  /\ step' = [NoStep EXCEPT !.stage = "audit"]
  /\ UNCHANGED <<link, held, life, pipe, sess, clock, budget>>

Continue ==
  /\ ctl.at = "loop" /\ (ctl.ending \/ ~ctl.fatal) /\ ~LossToRecord
  /\ ctl' = [ctl EXCEPT !.at = IF ctl.ending THEN "ended" ELSE "backoff"]
  /\ UNCHANGED <<link, held, life, step, pipe, sess, clock, budget>>

(* The shortest delay is many milliseconds. *)
Backoff ==
  /\ ctl.at = "backoff"
  /\ ctl' = [ctl EXCEPT !.at = "connecting"]
  /\ step' = [NoStep EXCEPT !.stage = "dial"]
  /\ clock' = 0
  /\ sess' = [s \in Sessions |-> [sess[s] EXCEPT !.stamp = 0]]
  /\ UNCHANGED <<link, held, life, pipe, budget>>

----------------------------------------------------------------------------
(* The connection.                                                         *)

Connecting(stage) == ctl.at = "connecting" /\ step.stage = stage

Dial ==
  /\ Connecting("dial")
  /\ link' = [gen |-> link.gen + 1, open |-> TRUE, sent |-> 0]
  /\ pipe' = [pipe EXCEPT !.got = 0]
  /\ step' = [step EXCEPT !.stage = "handshake"]
  /\ UNCHANGED <<ctl, held, life, sess, clock, budget>>

ConnectRefused ==                     \* retried after a delay
  /\ \/ Connecting("dial") /\ Spend("losses")
     \/ Connecting("lost") /\ UNCHANGED budget
  /\ ctl' = [ctl EXCEPT !.at = "loop"]
  /\ step' = NoStep
  /\ UNCHANGED <<link, held, life, pipe, sess, clock>>

(* The version does not fit (before dialling), or the handshake shows it.  *)
Incompatible ==
  /\ \/ Connecting("dial") \/ Connecting("handshake")
  /\ Spend("faults")
  /\ Stop("incompatible")
  /\ UNCHANGED <<life, pipe, sess, clock>>

Handshake ==
  /\ Connecting("handshake")
  /\ ctl' = [ctl EXCEPT !.at = "reconcile"]
  /\ step' = [NoStep EXCEPT !.stage = "start"]
  /\ UNCHANGED <<link, held, life, pipe, sess, clock, budget>>

(* The transport closes.  A step in progress is abandoned; a connection    *)
(* attempt finds out by itself; between two awaits nobody is waiting yet.  *)
Lose ==
  /\ link.open /\ Spend("losses")
  /\ link' = [link EXCEPT !.open = FALSE]
  /\ held' = <<>>
  /\ ctl' = [ctl EXCEPT !.admitted = 0, !.direct = 0, !.lossPending = link.gen,
                        !.at = IF @ \in Cycle \cup {"waiting"} THEN "loop" ELSE @]
  /\ life' = [life EXCEPT !.phase = IF ctl.at \in Cycle THEN "failed" ELSE @]
  /\ step' = IF ctl.at = "connecting" THEN [step EXCEPT !.stage = "lost"] ELSE NoStep
  /\ UNCHANGED <<pipe, sess, clock>>

(* setPendingFatal *)
Fatal ==
  /\ ctl' = [ctl EXCEPT !.fatal = TRUE, !.admitted = 0,
                        !.at = IF @ \in Cycle \cup {"connecting", "waiting"} THEN "loop" ELSE @]
  /\ life' = [life EXCEPT !.phase = IF ctl.at \in Cycle THEN "failed" ELSE @]
  /\ step' = IF ctl.at = "cleanup" THEN step ELSE NoStep

ProtocolIssue ==
  /\ link.open /\ ~ctl.fatal /\ Spend("faults")
  /\ Fatal
  /\ UNCHANGED <<link, held, pipe, sess, clock>>

----------------------------------------------------------------------------
(* Notifications and the pipeline.                                         *)

(* consume: a full queue stops the pipeline; a stopped pipeline takes      *)
(* nothing.                                                                *)
Consumed(p, evs) ==
  LET pending == Cardinality({i \in DOMAIN p.queue : p.queue[i].kind = "event"})
      fits == SubSeq(evs, 1, IF Len(evs) <= Limit - pending THEN Len(evs) ELSE Limit - pending)
  IN  IF p.stopped THEN p
      ELSE [p EXCEPT !.queue = @ \o fits, !.stopped = Len(fits) < Len(evs)]

Direct == link.gen # 0 /\ link.gen \in {ctl.admitted, ctl.direct}

HeldFull == Len(held) >= Limit

(* receiveInbound: passed on when the generation is admitted or being      *)
(* published, held before.                                                 *)
Notify ==
  /\ link.open /\ ~ctl.fatal /\ ~ctl.ending /\ Spend("events")
  /\ \E s \in Sessions, effect \in {"plain", "trouble"} :
       LET ev == [kind |-> "event", s |-> s, gen |-> link.gen, n |-> link.sent + 1,
                  effect |-> effect]
       IN  /\ link' = [link EXCEPT !.sent = @ + 1]
           /\ \/ /\ Direct
                 /\ pipe' = Consumed(pipe, <<ev>>)
                 /\ UNCHANGED <<ctl, held, life, step>>
              \/ /\ ~Direct /\ ~HeldFull
                 /\ held' = Append(held, ev)
                 /\ UNCHANGED <<ctl, life, step, pipe>>
              \/ /\ ~Direct /\ HeldFull
                 /\ Fatal
                 /\ UNCHANGED <<held, pipe>>
  /\ UNCHANGED <<sess, clock>>

(* One entry of the pipeline's tail.  An event of a managed session is     *)
(* captured at the wall clock and refused, for good, when the session was  *)
(* written later than that.                                                *)
PipeEvent ==
  /\ pipe.queue # <<>> /\ Head(pipe.queue).kind = "event"
  /\ LET e == Head(pipe.queue)
         done == [pipe EXCEPT !.queue = Tail(@), !.got = IF e.gen = link.gen THEN e.n ELSE @]
     IN  \/ /\ pipe.stopped \/ ~Managed(e.s)
            /\ pipe' = done /\ UNCHANGED sess
         \/ /\ ~pipe.stopped /\ Managed(e.s) /\ sess[e.s].stamp = 2
            /\ pipe' = [done EXCEPT !.stopped = TRUE] /\ UNCHANGED sess
         \/ /\ ~pipe.stopped /\ Managed(e.s) /\ sess[e.s].stamp # 2
            /\ pipe' = done
            /\ Write(e.s, [sess[e.s] EXCEPT !.since = @ \cup {e.gen}, !.stamp = 1,
                             !.fresh = IF e.effect = "trouble" THEN "other" ELSE @])
  /\ UNCHANGED <<ctl, link, held, life, step, clock, budget>>

(* The place of reconcile in the tail.  Nothing happens when the step that *)
(* put it there was abandoned; naming an unmanaged thread stops the        *)
(* pipeline.                                                               *)
PipeFence ==
  /\ pipe.queue # <<>> /\ Head(pipe.queue).kind = "fence"
  /\ LET wanted == ctl.at = "reconcile" /\ Head(pipe.queue).gen = link.gen
         bad == \E s \in Sessions : step.outcome[s] = "recoverable" /\ ~Managed(s)
     IN  /\ pipe' = [pipe EXCEPT !.queue = Tail(@), !.stopped = @ \/ (wanted /\ bad)]
         /\ step' = IF ~wanted THEN step
                    ELSE [step EXCEPT !.stage = IF bad \/ pipe.stopped THEN "refused" ELSE "commit"]
  /\ UNCHANGED <<ctl, link, held, life, sess, clock, budget>>

(* The removal of an adopted session, serialized with the events: it is    *)
(* refused when the session was written after it was read.                 *)
PipeUnmanage ==
  /\ pipe.queue # <<>> /\ Head(pipe.queue).kind = "unmanage"
  /\ LET s == Head(pipe.queue).s
     IN  sess' = [sess EXCEPT ![s].asked = "no",
                              ![s].here = @ /\ (pipe.stopped \/ sess[s].asked # "valid")]
  /\ pipe' = [pipe EXCEPT !.queue = Tail(@)]
  /\ UNCHANGED <<ctl, link, held, life, step, clock, budget>>

(* A request admitted while Codex was ready; it may have to wait behind    *)
(* another membership change before it reads the session.                  *)
AskUnmanage(s) ==
  /\ ctl.admitted # 0 /\ s \in Adopted /\ sess[s].here /\ sess[s].asked = "no"
  /\ Spend("faults")
  /\ sess' = [sess EXCEPT ![s].asked = "asked"]
  /\ UNCHANGED <<ctl, link, held, life, step, pipe, clock>>

QueueUnmanage(s) ==
  /\ sess[s].asked = "asked" /\ ~pipe.stopped
  /\ sess' = [sess EXCEPT ![s].asked = "valid"]
  /\ pipe' = [pipe EXCEPT !.queue = Append(@, [kind |-> "unmanage", s |-> s])]
  /\ UNCHANGED <<ctl, link, held, life, step, clock, budget>>

----------------------------------------------------------------------------
(* The gap: approvals and audit trails closed, then every session marked.  *)
(* `disconnected` makes it for a loss, the first `reconcile` for a         *)
(* restart.                                                                *)

At(place, stage) == ctl.at = place /\ step.stage = stage

PrepareGap ==
  /\ At("cleanup", "audit") \/ (At("reconcile", "start") /\ ~life.gap)
  /\ ctl' = [ctl EXCEPT !.lossPending = IF ctl.at = "cleanup" THEN 0 ELSE @]
  /\ clock' = 2                       \* the observed time, then the cutoff after it
  /\ step' = [step EXCEPT !.stage = "mark", !.todo = Listed]
  /\ UNCHANGED <<link, held, life, pipe, sess, budget>>

Marking == ctl.at \in {"cleanup", "reconcile"} /\ step.stage = "mark"

Mark(s) ==
  /\ Marking /\ s \in step.todo /\ sess[s].here
  /\ Write(s, [sess[s] EXCEPT !.fresh = "disconnected", !.stamp = StampAfter(sess[s].stamp)])
  /\ clock' = AuditNow(clock)
  /\ step' = [step EXCEPT !.todo = @ \ {s}]
  /\ UNCHANGED <<ctl, link, held, life, pipe, budget>>

CleanupDone ==
  /\ At("cleanup", "mark") /\ step.todo = {}
  /\ ctl' = [ctl EXCEPT !.at = "loop", !.lossDone = link.gen]
  /\ life' = [phase |-> "gap_prepared", gap |-> TRUE, cycle |-> 0]
  /\ step' = NoStep
  /\ UNCHANGED <<link, held, pipe, sess, clock, budget>>

(* A cleanup that fails is not tried again. *)
CleanupFails ==
  /\ ctl.at = "cleanup"
  /\ \/ Spend("faults")
     \/ step.stage = "mark" /\ (\E s \in step.todo : ~sess[s].here) /\ UNCHANGED budget
  /\ ctl' = [ctl EXCEPT !.at = "loop", !.ending = TRUE, !.cause = "cleanup", !.lossPending = 0]
  /\ life' = [life EXCEPT !.phase = "failed"]
  /\ step' = NoStep
  /\ UNCHANGED <<link, held, pipe, sess, clock>>

----------------------------------------------------------------------------
(* reconcile                                                               *)

GapReady ==
  \/ At("reconcile", "start") /\ life.gap
  \/ At("reconcile", "mark") /\ step.todo = {}

(* Mutant: reconciliation does not wait for the events already queued. *)
ObserveUnfenced ==
  /\ GapReady /\ ~pipe.stopped
  /\ \E o \in [Sessions -> Outcomes] :
       /\ \A s \in Listed : ~sess[s].selected => o[s] = "recovery"
       /\ \A s \in Sessions \ Listed : o[s] = "stale"
       /\ step' = [stage |-> "commit", todo |-> Listed, outcome |-> o]
  /\ UNCHANGED <<ctl, link, held, life, pipe, sess, clock, budget>>

(* Mutant: only the sessions that can be resumed get a boundary. *)
ObserveRecoverable ==
  /\ GapReady /\ ~pipe.stopped
  /\ \E o \in [Sessions -> Outcomes] :
       /\ \A s \in Listed : ~sess[s].selected => o[s] = "recovery"
       /\ \A s \in Sessions \ Listed : o[s] = "stale"
       /\ step' = [stage |-> "fence", todo |-> {s \in Listed : o[s] = "recoverable"},
                   outcome |-> o]
  /\ pipe' = [pipe EXCEPT !.queue = Append(@, [kind |-> "fence", gen |-> link.gen])]
  /\ UNCHANGED <<ctl, link, held, life, sess, clock, budget>>

(* The threads are read and an outcome derived for each; a session that    *)
(* needs recovery stays so.  Then reconcile takes its place in the tail.   *)
Observe ==
  /\ GapReady /\ ~pipe.stopped
  /\ \E o \in [Sessions -> Outcomes] :
       /\ \A s \in Listed : ~sess[s].selected => o[s] = "recovery"
       /\ \A s \in Sessions \ Listed : o[s] = "stale"
       /\ step' = [stage |-> "fence", todo |-> Listed, outcome |-> o]
  /\ pipe' = [pipe EXCEPT !.queue = Append(@, [kind |-> "fence", gen |-> link.gen])]
  /\ UNCHANGED <<ctl, link, held, life, sess, clock, budget>>

(* A stopped pipeline refuses to reconcile, before or in its turn. *)
EventsRefuse ==
  /\ At("reconcile", "refused") \/ (GapReady /\ pipe.stopped)
  /\ FailStep("events")
  /\ UNCHANGED <<pipe, sess, clock, budget>>

FreshOf(outcome) ==
  CASE outcome = "recoverable" -> "resubscribe"
    [] outcome = "archived" -> "current"
    [] OTHER -> "other"

(* commitOutcomeBoundary: a change of disposition or an archive is a write *)
(* of its own before the boundary.                                         *)
CommitBoundary(s) ==
  /\ At("reconcile", "commit") /\ s \in step.todo /\ sess[s].here
  /\ LET o == step.outcome[s]
         twice == o = "archived" \/ sess[s].selected # (o # "recovery")
     IN  /\ Write(s, [sess[s] EXCEPT !.fresh = FreshOf(o), !.archived = (o = "archived"),
                        !.selected = (o # "recovery"), !.fence = link.gen, !.since = {},
                        !.stamp = IF twice THEN 2 ELSE StampAfter(@)])
         /\ clock' = IF twice THEN 2 ELSE AuditNow(clock)
  /\ step' = [step EXCEPT !.todo = @ \ {s}]
  /\ UNCHANGED <<ctl, link, held, life, pipe, budget>>

ReconcileDone ==
  /\ At("reconcile", "commit") /\ step.todo = {}
  /\ life' = [phase |-> "reconciled", gap |-> TRUE, cycle |-> link.gen]
  /\ ctl' = [ctl EXCEPT !.at = "resubscribe"]
  /\ step' = [step EXCEPT !.stage = "resume", !.todo = Recoverable]
  /\ UNCHANGED <<link, held, pipe, sess, clock, budget>>

----------------------------------------------------------------------------
(* resubscribe and ready                                                   *)

InCycle(phase) == life.cycle = link.gen /\ life.phase = phase
Eligible(s) == Managed(s) /\ sess[s].fresh = "resubscribe"

Resume(s) ==
  /\ At("resubscribe", "resume") /\ InCycle("reconciled") /\ s \in step.todo /\ Eligible(s)
  /\ Write(s, [sess[s] EXCEPT !.stamp = StampAfter(@)])
  /\ clock' = AuditNow(clock)
  /\ step' = [step EXCEPT !.todo = @ \ {s}]
  /\ UNCHANGED <<ctl, link, held, life, pipe, budget>>

(* Mutant: what was held is forgotten when the subscription is back. *)
ResubscribeDoneForgets ==
  /\ At("resubscribe", "resume") /\ InCycle("reconciled") /\ step.todo = {}
  /\ life' = [life EXCEPT !.phase = "resubscribed"]
  /\ held' = <<>>
  /\ ctl' = [ctl EXCEPT !.at = "ready", !.direct = link.gen]
  /\ step' = [step EXCEPT !.stage = "barrier", !.todo = {s \in Sessions : step.outcome[s] = "recoverable"}]
  /\ UNCHANGED <<link, pipe, sess, clock, budget>>

(* The held notifications are passed on in the order they came. *)
ResubscribeDone ==
  /\ At("resubscribe", "resume") /\ InCycle("reconciled") /\ step.todo = {}
  /\ life' = [life EXCEPT !.phase = "resubscribed"]
  /\ pipe' = Consumed(pipe, held)
  /\ held' = <<>>
  /\ ctl' = [ctl EXCEPT !.at = "ready", !.direct = link.gen]
  /\ step' = [step EXCEPT !.stage = "barrier", !.todo = {s \in Sessions : step.outcome[s] = "recoverable"}]
  /\ UNCHANGED <<link, sess, clock, budget>>

Settled == pipe.queue = <<>> /\ ~pipe.stopped

Barrier ==
  /\ At("ready", "barrier") /\ Settled
  /\ step' = [step EXCEPT !.stage = "publish"]
  /\ UNCHANGED <<ctl, link, held, life, pipe, sess, clock, budget>>

Publish(s) ==
  /\ At("ready", "publish") /\ s \in step.todo /\ Eligible(s)
  /\ Write(s, [sess[s] EXCEPT !.fresh = "current", !.stamp = StampAfter(@)])
  /\ clock' = AuditNow(clock)
  /\ step' = [step EXCEPT !.todo = @ \ {s}]
  /\ UNCHANGED <<ctl, link, held, life, pipe, budget>>

ReadyDone ==
  /\ At("ready", "publish") /\ step.todo = {} /\ Settled
  /\ life' = [life EXCEPT !.phase = "ready", !.gap = FALSE]
  /\ ctl' = [ctl EXCEPT !.at = "arming", !.direct = 0, !.admitted = link.gen, !.everReady = TRUE]
  /\ step' = NoStep
  /\ UNCHANGED <<link, held, pipe, sess, clock, budget>>

(* A step fails: a session changed under it, the pipeline stopped, or a    *)
(* read, a resume, a write or the deadline failed.                         *)
StepFails ==
  /\ ctl.at \in Cycle
  /\ \/ Spend("faults")
     \/ /\ UNCHANGED budget
        /\ \/ At("resubscribe", "resume") /\ \E s \in step.todo : ~Eligible(s)
           \/ At("ready", "publish") /\ \E s \in step.todo : ~Eligible(s)
           \/ ctl.at = "ready" /\ pipe.stopped
           \/ ctl.at = "reconcile" /\ step.stage \in {"mark", "commit"}
              /\ \E s \in step.todo : ~sess[s].here
  /\ FailStep("failed")
  /\ UNCHANGED <<pipe, sess, clock>>

(* Mutant: the wait starts without looking. *)
ArmBlindly ==
  /\ ctl.at = "arming"
  /\ ctl' = [ctl EXCEPT !.at = "waiting"]
  /\ UNCHANGED <<link, held, life, step, pipe, sess, clock, budget>>

(* waitForWake: what came in since admission is seen before waiting.       *)
Arm ==
  /\ ctl.at = "arming"
  /\ ctl' = [ctl EXCEPT !.at = IF ctl.lossPending # 0 \/ ctl.fatal THEN "loop" ELSE "waiting"]
  /\ UNCHANGED <<link, held, life, step, pipe, sess, clock, budget>>

(* The application starts without Codex only when the version check failed *)
(* before anything else happened; every session is then marked.            *)
SealStartupUnavailable ==
  /\ ctl.at = "ended" /\ ctl.cause = "incompatible" /\ ~ctl.everReady /\ life.phase = "idle"
  /\ life' = [life EXCEPT !.phase = "gap_prepared", !.gap = TRUE]
  /\ sess' = [s \in Sessions |->
               IF s \in Listed THEN [sess[s] EXCEPT !.fresh = "disconnected", !.stamp = 2]
               ELSE sess[s]]
  /\ clock' = 2
  /\ UNCHANGED <<ctl, link, held, step, pipe, budget>>

----------------------------------------------------------------------------
ControllerStep == Start \/ ThrowFatal \/ BeginCleanup \/ Continue \/ Backoff \/ Dial \/ Handshake \/ Arm
LifecycleStep ==
  \/ PrepareGap \/ CleanupDone \/ Observe \/ EventsRefuse \/ ReconcileDone
  \/ ResubscribeDone \/ Barrier \/ ReadyDone \/ SealStartupUnavailable
  \/ \E s \in Sessions : Mark(s) \/ CommitBoundary(s) \/ Resume(s) \/ Publish(s)
PipelineStep == PipeEvent \/ PipeFence \/ PipeUnmanage
Surroundings ==
  \/ Tick \/ Lose \/ Incompatible \/ ProtocolIssue \/ Notify
  \/ \E s \in Sessions : AskUnmanage(s) \/ QueueUnmanage(s)

Next ==
  \/ ControllerStep \/ LifecycleStep \/ PipelineStep \/ Surroundings
  \/ ConnectRefused \/ CleanupFails \/ StepFails

Spec == Init /\ [][Next]_vars

(* The loop, the lifecycle and the pipeline are promises that settle:      *)
(* every await of theirs ends by an answer, an abort or its deadline.      *)
FairSpec ==
  /\ Spec
  /\ WF_vars(ControllerStep \/ (Connecting("lost") /\ ConnectRefused))
  /\ WF_vars(LifecycleStep \/ (step.stage # "none" /\ StepFails) \/ CleanupFails)
  /\ WF_vars(PipelineStep)

----------------------------------------------------------------------------
(* A session shown as current is one that the open connection resumed,     *)
(* unless the loss of that connection is still being recorded.  Only a     *)
(* failed cleanup and a process that has not reached its first gap may     *)
(* leave another (disconnected, ready, recordTerminal).                    *)
CurrentIsConnected ==
  \A s \in Listed : sess[s].fresh = "current" =>
    \/ link.open /\ sess[s].fence = link.gen
    \/ LossToRecord /\ ctl.lossPending = link.gen
    \/ ctl.at = "cleanup" /\ (step.stage = "audit" \/ s \in step.todo)
    \/ ctl.cause = "cleanup"
    \/ ~life.gap /\ ~ctl.everReady

(* The events a session keeps behind its boundary all came over the        *)
(* connection whose reconciliation wrote the boundary: nothing of an older *)
(* connection, still queued when it was lost, is stored as if it were new  *)
(* (events.reconcile, receiveInbound, drainHeldInbound).                   *)
BoundarySeparates ==
  \A s \in Sessions : sess[s].since \subseteq {sess[s].fence}

(* Requests are let through only when every session that is still managed  *)
(* carries the boundary of this very connection and none is left marked as *)
(* disconnected or waiting for its resume (runConnectionCycle, reconcile,  *)
(* ready).                                                                 *)
AdmittedIsReconciled ==
  ctl.admitted # 0 =>
    /\ link.open /\ ctl.admitted = link.gen
    /\ \A s \in Listed : /\ sess[s].fence = link.gen
                         /\ sess[s].fresh \notin {"disconnected", "resubscribe"}

(* Notifications of the open connection reach the pipeline in the order    *)
(* they came and none is missing, through holding, draining and direct     *)
(* delivery, as long as the pipeline runs.                                 *)
Mine == {i \in DOMAIN pipe.queue :
           pipe.queue[i].kind = "event" /\ pipe.queue[i].gen = link.gen}
NoneSkipped ==
  link.open /\ ~pipe.stopped /\ ~ctl.fatal /\ ~ctl.ending =>
    /\ {pipe.queue[i].n : i \in Mine} = (pipe.got + 1) .. (link.sent - Len(held))
    /\ \A i, j \in Mine : i < j => pipe.queue[i].n < pipe.queue[j].n
    /\ \A i \in DOMAIN held : held[i].n = link.sent - Len(held) + i

(* A loss of the connection, whenever it comes, ends in a new admission    *)
(* or in a recorded terminal failure: the controller never waits for a     *)
(* wake-up that has already happened (run, waitForWake).                   *)
LossIsAnswered ==
  ctl.lossPending # 0 ~>
    ctl.lossPending = 0 /\ ctl.at \in {"waiting", "ended"}

=============================================================================
