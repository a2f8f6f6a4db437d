---------------------------- MODULE SelectedWrite ----------------------------
(***************************************************************************)
(* A write from its HTTP request to its durable outcome: the selected      *)
(* write gate of packages/server with its admission policy, its audit      *)
(* executor, the audit trails of packages/storage, and the passes that     *)
(* close the trails of writes nobody owns any more (at startup, when the   *)
(* Codex runtime comes back, and at shutdown).                             *)
(*                                                                         *)
(* One step is one turn of the event loop: the gate runs from one await to *)
(* the next without interruption, and everything else may happen while it  *)
(* waits for the target to be resolved, for the dispatch and for the       *)
(* response to be prepared.                                                *)
(***************************************************************************)
EXTENDS WriteAdmission

CONSTANTS
  Requests,   \* HTTP requests; a client retries with another request
  MaxFaults   \* crashes, lost runtimes, refused audit writes, locks, revocations,
              \* shutdowns (bound)

ASSUME WriteAssumption == MaxFaults \in Nat

VARIABLES
  adm,        \* the admission policy (memory)
  req,        \* what each request is doing (memory)
  host,       \* the process and its readiness for mutations
  gen,        \* generation of the local health snapshot
  trail,      \* selected_audit_events, by operation id (durable)
  locked,     \* the host lock (durable)
  revoked,    \* revoked actors (durable)
  faults,     \* faults so far
  \* history
  sent,       \* how often each operation was dispatched
  effect,     \* operations whose mutation took effect
  dropped,    \* operations whose trail retention has deleted
  current,    \* operations accepted since the last gap was prepared
  told,       \* the outcomes clients were told, by operation id
  shaken      \* owners that saw the host stop being ready since their admission

memory == <<adm, req>>
durable == <<trail, locked, revoked>>
history == <<sent, effect, dropped, current, told, shaken>>
vars ==
  <<adm, req, host, gen, trail, locked, revoked, faults, sent, effect, dropped, current,
    told, shaken>>

Owning == {"resolving", "dispatching", "preparing", "settling"}

Idle == [pc |-> "idle"]
Waiting(o) == [pc |-> "waiting", op |-> o]
Owner(o, a) ==
  [pc |-> "resolving", op |-> o, actor |-> a, proof |-> gen, outcome |-> "incomplete", broken |-> FALSE]

Owns(r, o) == req[r].pc \in Owning /\ req[r].op = o
Pending == {o \in Ops : trail[o] = "pending"}
Fault == faults < MaxFaults /\ faults' = faults + 1

(* Mutant: only the owner's promise is settled. *)
AnsweredOwnerOnly(r) == [q \in Requests |-> IF q = r THEN Idle ELSE req[q]]

(* The owner r of an operation and the requests that wait for it are       *)
(* answered together; their clients may go on to another request.          *)
Answered(r) ==
  [q \in Requests |-> IF q = r \/ req[q] = Waiting(req[r].op) THEN Idle ELSE req[q]]
Told(o, result) == told' = [told EXCEPT ![o] = @ \cup ({result} \cap Results)]
Unshaken(r) == shaken' = shaken \ {r}

Init ==
  /\ adm = EmptyAdmission /\ req = [r \in Requests |-> Idle]
  /\ host = "down" /\ gen = 0
  /\ trail = [o \in Ops |-> "absent"]
  /\ locked = FALSE /\ revoked = {} /\ faults = 0
  /\ sent = [o \in Ops |-> 0]
  /\ effect = {} /\ dropped = {} /\ current = {}
  /\ told = [o \in Ops |-> {}] /\ shaken = {}

--------------------------------------------------------------------------------
(* The first turn of a request: authorization, admission.begin, the lock.  *)

(* Neither a revoked actor nor a draining policy gets as far as the rate.  *)
Shut(a) == a \in revoked \/ adm.phase # "open"

(* The listener is bound after the maintenance of startup. *)
Listening == host \in {"disconnected", "prepared", "ready"}

Arrives(r) ==
  /\ req[r] = Idle /\ Listening
  /\ UNCHANGED <<host, gen, faults, durable, sent, effect, dropped, current, shaken>>

TurnedAway(r, o, a, t) ==
  LET m == Prune(adm)
      c == Charge(m, a) IN
  /\ Arrives(r)
  /\ UNCHANGED <<req, told>>
  /\ \/ Shut(a) /\ adm' = adm
     \/ ~Shut(a) /\ ~HasBucket(m, a) /\ adm' = m
     \/ ~Shut(a) /\ HasBucket(m, a) /\ ~InRate(m, a) /\ adm' = Touch(m, a)
     \/ /\ ~Shut(a) /\ HasBucket(m, a) /\ InRate(m, a)
        /\ ~Replays(c, o, a, t)
        /\ ~(Admits(c, o, a) /\ host = "ready")
        /\ adm' = c

(* A retry of the same intent joins the owner, or takes the settlement.    *)
Retried(r, o, a, t) ==
  LET m == Prune(adm)
      c == Charge(m, a) IN
  /\ Arrives(r)
  /\ ~Shut(a) /\ HasBucket(m, a) /\ InRate(m, a)
  /\ Replays(c, o, a, t)
  /\ adm' = c
  /\ IF Open(c, o)
     THEN req' = [req EXCEPT ![r] = Waiting(o)] /\ UNCHANGED told
     ELSE Told(o, c.entry[o].status) /\ UNCHANGED req

(* A new operation is claimed; on a locked host it is abandoned at once.   *)
Claimed(r, o, a, t) ==
  LET m == Prune(adm)
      c == Charge(m, a)
      owned == Claim(c, o, a, t) IN
  /\ Arrives(r)
  /\ ~Shut(a) /\ HasBucket(m, a) /\ InRate(m, a)
  /\ Admits(c, o, a) /\ host = "ready"
  /\ IF locked
     THEN adm' = Abandon(owned, o) /\ UNCHANGED req
     ELSE adm' = owned /\ req' = [req EXCEPT ![r] = Owner(o, a)]
  /\ UNCHANGED told

(* The deadline of a retry ends its wait, never the owner's work.          *)
WaitEnds(r) ==
  /\ req[r].pc = "waiting"
  /\ req' = [req EXCEPT ![r] = Idle]
  /\ UNCHANGED <<adm, host, gen, faults, durable, history>>

--------------------------------------------------------------------------------
(* The second turn: target, accepted record, and the last checks before    *)
(* the dispatch.                                                           *)

Resolving(r) == req[r].pc = "resolving" /\ host # "down"

(* The target is gone or the deadline has passed, or every place of the    *)
(* target is taken: nothing was written, the operation is forgotten.       *)
NotStarted(r) ==
  /\ Resolving(r)
  /\ adm' = Abandon(adm, req[r].op)
  /\ req' = Answered(r) /\ Unshaken(r)
  /\ UNCHANGED <<host, gen, faults, durable, sent, effect, dropped, current, told>>

Bound(r) == Resolving(r) /\ HasTargetSlot(adm, req[r].op)

(* recordAccepted finds a trail: the operation id was used before.         *)
Conflicts(r) ==
  /\ Bound(r)
  /\ trail[req[r].op] # "absent"
  /\ adm' = Retain(BindTarget(adm, req[r].op), req[r].op, "error")
  /\ req' = Answered(r) /\ Unshaken(r)
  /\ UNCHANGED <<host, gen, faults, durable, sent, effect, dropped, current, told>>

(* recordAccepted fails and provably wrote nothing.                        *)
AuditRefused(r) ==
  /\ Bound(r) /\ Fault
  /\ adm' = Abandon(BindTarget(adm, req[r].op), req[r].op)
  /\ req' = Answered(r) /\ Unshaken(r)
  /\ UNCHANGED <<host, gen, durable, sent, effect, dropped, current, told>>

(* recordAccepted fails and proves nothing: the record may be there, the   *)
(* write is not carried out, and retries are told so.                      *)
AuditUnproven(r) ==
  LET o == req[r].op IN
  /\ Bound(r) /\ Fault
  /\ trail[o] = "absent"
  /\ trail' \in {trail, [trail EXCEPT ![o] = "pending"]}
  /\ current' = IF trail' = trail THEN current ELSE current \cup {o}
  /\ adm' = Retain(BindTarget(adm, o), o, "error")
  /\ req' = Answered(r) /\ Unshaken(r)
  /\ UNCHANGED <<host, gen, locked, revoked, sent, effect, dropped, told>>

Authorized(r) == req[r].actor \notin revoked
(* Mutant: ready is ready, whatever happened since the admission. *)
MutationReadyNow(r) == host = "ready"

MutationReady(r) == host = "ready" /\ gen = req[r].proof

(* Mutant: an accepted record replaces the trail of an earlier use.        *)
AcceptedAgain(r) ==
  /\ Bound(r)
  /\ trail' = [trail EXCEPT ![req[r].op] = "pending"]
  /\ current' = current \cup {req[r].op}
  /\ adm' = BindTarget(adm, req[r].op)
  /\ UNCHANGED <<host, gen, faults, locked, revoked, effect, dropped, told, shaken>>

Accepted(r) ==
  /\ Bound(r)
  /\ trail[req[r].op] = "absent"
  /\ trail' = [trail EXCEPT ![req[r].op] = "pending"]
  /\ current' = current \cup {req[r].op}
  /\ adm' = BindTarget(adm, req[r].op)
  /\ UNCHANGED <<host, gen, faults, locked, revoked, effect, dropped, told, shaken>>

(* The transition ends before the dispatch: the deadline, a revoked actor, *)
(* or health that changed since admission (failed); or an ingress that is  *)
(* no longer current, which the executor sees as a throw (incomplete).     *)
AcceptedThenStopped(r) ==
  /\ Accepted(r)
  /\ \E stop \in {[outcome |-> "failed", broken |-> FALSE], [outcome |-> "incomplete", broken |-> TRUE]} :
       req' = [req EXCEPT ![r].pc = "settling", ![r].outcome = stop.outcome, ![r].broken = stop.broken]
  /\ UNCHANGED sent

AcceptedThenSent(r) ==
  /\ Accepted(r)
  /\ Authorized(r) /\ MutationReady(r)
  /\ req' = [req EXCEPT ![r].pc = "dispatching"]
  /\ sent' = [sent EXCEPT ![req[r].op] = @ + 1]

--------------------------------------------------------------------------------
(* The dispatch and what follows it.                                       *)

(* What a service may answer, and whether the mutation can have happened:  *)
(* it answers failed only when nothing was sent or Codex refused it.       *)
Answers(happened) ==
  IF happened THEN {"succeeded", "incomplete", "thrown"} ELSE {"failed", "incomplete", "thrown"}

(* Mutant: no answer is taken for a failure. *)
OutcomeAssumesFailure(answer) == IF answer \in {"thrown", "incomplete"} THEN "failed" ELSE answer

(* A throw leaves the outcome unknown: incomplete, and an error to the     *)
(* client unless the deadline explains it.                                 *)
Outcome(answer) == IF answer = "thrown" THEN "incomplete" ELSE answer

Dispatched(r) ==
  /\ req[r].pc = "dispatching"
  /\ \E happened \in BOOLEAN : \E answer \in Answers(happened) :
       /\ effect' = IF happened THEN effect \cup {req[r].op} ELSE effect
       /\ req' = [req EXCEPT
            ![r].pc = IF answer = "succeeded" THEN "preparing" ELSE "settling",
            ![r].outcome = Outcome(answer),
            ![r].broken = (answer = "thrown")]
  /\ UNCHANGED <<adm, host, gen, faults, durable, sent, dropped, current, told, shaken>>

(* A response that cannot be prepared does not change the outcome.         *)
Prepared(r) ==
  /\ req[r].pc = "preparing"
  /\ \E failed \in BOOLEAN :
       req' = [req EXCEPT ![r].pc = "settling", ![r].broken = failed]
  /\ UNCHANGED <<adm, host, gen, faults, durable, history>>

(* The terminal record, and the settlement the client and its retries get. *)
Settles(r) ==
  LET o == req[r].op
      result == IF req[r].broken THEN "error" ELSE req[r].outcome IN
  /\ req[r].pc = "settling"
  /\ trail[o] = "pending"
  /\ trail' = [trail EXCEPT ![o] = req[r].outcome]
  /\ adm' = Retain(adm, o, result)
  /\ req' = Answered(r) /\ Unshaken(r)
  /\ Told(o, result)
  /\ UNCHANGED <<host, gen, locked, revoked, faults, sent, effect, dropped, current>>

(* The terminal record is refused: the trail was closed meanwhile, or the  *)
(* audit storage fails.  The client is told that the audit failed.         *)
SettlesUnrecorded(r) ==
  LET o == req[r].op IN
  /\ req[r].pc = "settling"
  /\ \/ trail[o] # "pending" /\ UNCHANGED faults
     \/ trail[o] = "pending" /\ Fault
  /\ adm' = Retain(adm, o, "error")
  /\ req' = Answered(r) /\ Unshaken(r)
  /\ UNCHANGED <<host, gen, durable, sent, effect, dropped, current, told>>

--------------------------------------------------------------------------------
(* Closing the trails nobody owns.                                         *)

(* Mutant: a write without a terminal record is taken to have failed. *)
OrphanedAsFailed == "failed"

Orphaned == "incomplete"

(* A pass closes the trails of S, which is all of them unless it fails or  *)
(* runs out of time part of the way.                                       *)
Closed(S) == [o \in Ops |-> IF o \in S THEN Orphaned ELSE trail[o]]

(* Mutant: a pass that ran out of time counts as one that finished. *)
CompleteAnyway(S) == TRUE

Complete(S) == S = Pending

Start ==
  /\ host = "down" /\ host' = "starting"
  /\ UNCHANGED <<memory, gen, faults, durable, history>>

(* The gap in continuity is prepared before the runtime can be ready: for  *)
(* the first connection, and whenever it was lost.  The pass over the      *)
(* audit also closes the trails of writes still being carried out.         *)
PreparesGap(S) ==
  /\ host \in {"starting", "disconnected"}
  /\ S \subseteq Pending
  /\ trail' = Closed(S)
  /\ IF Complete(S)
     THEN /\ host' = IF host = "starting" THEN "connected" ELSE "prepared"
          /\ current' = {}
     ELSE UNCHANGED <<host, current>>
  /\ UNCHANGED <<memory, gen, faults, locked, revoked, sent, effect, dropped, told, shaken>>

(* The maintenance of startup: orphans again, then retention, which deletes *)
(* old trails that have a terminal record.  An incomplete pass ends the     *)
(* start; the runtime may be gone, or incompatible, when the host listens.  *)
Maintains(S, D) ==
  /\ host = "connected"
  /\ S \subseteq Pending
  /\ D \subseteq {o \in Ops : trail[o] \in Results}
  /\ trail' = [o \in Ops |-> IF o \in D THEN "absent" ELSE Closed(S)[o]]
  /\ dropped' = dropped \cup D
  /\ IF Complete(S)
     THEN host' \in {"ready", "disconnected"} /\ gen' = gen + 1
     ELSE host' = "stopping" /\ UNCHANGED gen
  /\ UNCHANGED <<memory, faults, locked, revoked, sent, effect, current, told, shaken>>

RuntimeReturns ==
  /\ host = "prepared"
  /\ host' = "ready" /\ gen' = gen + 1
  /\ UNCHANGED <<memory, faults, durable, history>>

Owners == {r \in Requests : req[r].pc \in Owning}

RuntimeLost ==
  /\ host = "ready" /\ Fault
  /\ host' = "disconnected" /\ gen' = gen + 1
  /\ shaken' = shaken \cup Owners
  /\ UNCHANGED <<memory, durable, sent, effect, dropped, current, told>>

--------------------------------------------------------------------------------
(* Shutdown, crashes, and what else happens to the host.                   *)

Drains ==
  /\ Listening /\ adm.phase = "open" /\ Fault
  /\ adm' = BeginDrain(adm)
  /\ UNCHANGED <<req, host, gen, durable, history>>

(* The barrier over the audit follows the drain even if the drain timed    *)
(* out with writes under way.                                              *)
Barrier(S) ==
  /\ adm.phase # "open" /\ host # "stopping"
  /\ S \subseteq Pending
  /\ trail' = Closed(S)
  /\ host' = "stopping"
  /\ shaken' = shaken \cup Owners
  /\ UNCHANGED <<memory, gen, faults, locked, revoked, sent, effect, dropped, current, told>>

(* The process ends; of the writes being dispatched those of S happen.     *)
Ends(S) ==
  /\ host # "down"
  /\ \/ host = "stopping" /\ UNCHANGED faults
     \/ host # "stopping" /\ Fault
  /\ S \subseteq {o \in Ops : \E r \in Requests : req[r].pc = "dispatching" /\ req[r].op = o}
  /\ effect' = effect \cup S
  /\ host' = "down" /\ gen' = 0
  /\ adm' = EmptyAdmission
  /\ req' = [r \in Requests |-> Idle]
  /\ shaken' = {}
  /\ UNCHANGED <<durable, sent, dropped, current, told>>

LockChanges ==
  /\ Listening /\ Fault
  /\ locked' = ~locked
  /\ UNCHANGED <<memory, host, gen, trail, revoked, history>>

Revokes(a) ==
  /\ Listening /\ a \notin revoked /\ Fault
  /\ revoked' = revoked \cup {a}
  /\ UNCHANGED <<memory, host, gen, trail, locked, history>>

TimePasses ==
  /\ Listening
  /\ adm' \in {WindowEnds(adm), Expire(adm)} /\ adm' # adm
  /\ UNCHANGED <<req, host, gen, faults, durable, history>>

--------------------------------------------------------------------------------
Resolves(r) ==
  \/ NotStarted(r) \/ Conflicts(r) \/ AuditRefused(r) \/ AuditUnproven(r)
  \/ AcceptedThenStopped(r) \/ AcceptedThenSent(r)
Ended(r) == Settles(r) \/ SettlesUnrecorded(r)

Next ==
  \/ \E r \in Requests, o \in Ops, a \in Actors, t \in Targets :
       TurnedAway(r, o, a, t) \/ Retried(r, o, a, t) \/ Claimed(r, o, a, t)
  \/ \E r \in Requests :
       WaitEnds(r) \/ Resolves(r) \/ Dispatched(r) \/ Prepared(r) \/ Ended(r)
  \/ \E S \in SUBSET Ops : PreparesGap(S) \/ Barrier(S) \/ Ends(S)
  \/ \E S, D \in SUBSET Ops : Maintains(S, D)
  \/ Start \/ RuntimeReturns \/ RuntimeLost \/ Drains \/ LockChanges
  \/ \E a \in Actors : Revokes(a)
  \/ TimePasses

Spec == Init /\ [][Next]_vars

(* Every await of the gate is raced with the deadline of its operation, so *)
(* an owner always reaches its next turn.  Nothing is assumed of the       *)
(* deadline of a retry, of the runtime, or of the process.                 *)
FairSpec ==
  Spec /\ \A r \in Requests :
    WF_vars(Resolves(r)) /\ WF_vars(Dispatched(r)) /\ WF_vars(Prepared(r)) /\ WF_vars(Ended(r))

--------------------------------------------------------------------------------
(* The state is well formed: no counter of the policy leaves its budget    *)
(* (assertReady, chargeRate, bindTarget).                                  *)
RequestStates ==
  {Idle} \cup {Waiting(o) : o \in Ops} \cup
  [pc : Owning, op : Ops, actor : Actors, proof : Nat, outcome : Results, broken : BOOLEAN]

TypeOK ==
  /\ adm.phase \in {"open", "draining", "closed"}
  /\ adm.entry \in [Ops -> Entries]
  /\ adm.owners \in 0..MaxOwners
  /\ adm.actors \in [Actors -> 0..PerActor]
  /\ adm.targets \in [Targets -> 0..PerTarget]
  /\ adm.bucket \in [Actors -> Buckets]
  /\ req \in [Requests -> RequestStates]
  /\ host \in {"down", "starting", "connected", "disconnected", "prepared", "ready", "stopping"}
  /\ gen \in Nat /\ faults \in 0..MaxFaults
  /\ trail \in [Ops -> {"absent", "pending"} \cup Results]
  /\ locked \in BOOLEAN /\ revoked \subseteq Actors
  /\ sent \in [Ops -> Nat]
  /\ effect \subseteq Ops /\ dropped \subseteq Ops /\ current \subseteq Ops
  /\ told \in [Ops -> SUBSET Results] /\ shaken \subseteq Owners

(* A client operation id is dispatched at most once, whatever the retries, *)
(* crashes and restarts, as long as retention keeps its trail: the policy  *)
(* forgets settled operations, the accepted record does not.               *)
AtMostOnce == \A o \in Ops : sent[o] <= 1 \/ o \in dropped

(* What a client is told is what happened: succeeded only when the         *)
(* mutation took effect, failed only when it did not and never will.       *)
RepliesTrue ==
  \A o \in Ops :
    /\ "succeeded" \in told[o] => o \in effect
    /\ "failed" \in told[o] => o \notin effect \/ o \in dropped

(* Every client that is told an outcome of one operation is told the same  *)
(* outcome, whether it owned it, waited for it, or came back later.        *)
RepliesAgree ==
  \A o \in Ops \ dropped : \A x, y \in told[o] : x = y

(* So is the audit: a terminal record that states an outcome is right,     *)
(* also when another pass than the owner's wrote it.                       *)
TrailTrue ==
  \A o \in Ops :
    /\ trail[o] = "succeeded" => o \in effect
    /\ trail[o] = "failed" => o \notin effect \/ o \in dropped

(* No mutation takes effect without an accepted record before it.          *)
EffectAudited == \A o \in effect : trail[o] # "absent" \/ o \in dropped

(* The host is never ready for mutations with an open trail of a time the  *)
(* runtime was lost or the process ended: whatever is pending was accepted *)
(* since the last gap was prepared.                                        *)
ReadyMeansClosed == host = "ready" => Pending \subseteq current

(* A write is dispatched only if its actor is still paired, and the host   *)
(* has been ready without interruption since the write was admitted.       *)
BeginsDispatch(r) == req[r].pc # "dispatching" /\ req'[r].pc = "dispatching"
DispatchStillAuthorised ==
  [][\A r \in Requests :
       BeginsDispatch(r) => req[r].actor \notin revoked /\ host = "ready" /\ r \notin shaken]_vars

(* Every request that owns an operation or waits for one is answered.      *)
EveryRequestAnswered == \A r \in Requests : (req[r] # Idle) ~> (req[r] = Idle)

================================================================================
