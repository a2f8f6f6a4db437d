--------------------------- MODULE RemoteIngress ---------------------------
(***************************************************************************)
(* Remote access through Tailscale Serve.                                  *)
(*                                                                         *)
(* An operator enables and disables it; a poll loop observes the published *)
(* mapping.  A remote request is admitted while three things agree on one  *)
(* generation: the durable state is ready, a durable proof names the       *)
(* enable that succeeded, and an observation lease of the process has not  *)
(* run out.  A guard timer set to the lease's end closes the requests and  *)
(* streams admitted under it.                                              *)
(*                                                                         *)
(* One control operation runs at a time.  Tailscale commands may fail, hang*)
(* or be carried out without an answer, other programs change the mapping, *)
(* writes fail and the process stops.  Time is counted in ticks towards a  *)
(* deadline.  One external origin is modelled.                             *)
(***************************************************************************)
EXTENDS Naturals

CONSTANTS
  Ops,        \* operation ids of enable and disable requests
  Streams,    \* remote requests that stay open
  Interval,   \* ticks of an observation lease
  MaxFaults,  \* failed writes and commands, clock failures and stops (bound)
  MaxDrifts   \* changes of the mapping by other programs (bound)

ASSUME RemoteAssumption ==
  Interval \in Nat \ {0} /\ MaxFaults \in Nat /\ MaxDrifts \in Nat

VARIABLES
  row,     \* selected_remote_ingress_state
  proof,   \* selected_remote_ingress_admission_proof
  trail,   \* the audit trail of an operation
  latest,  \* the latest audit record of a remote operation
  lease,   \* the control service's observation lease
  busy,    \* its operation in progress
  phase,   \* the lifecycle's phase
  guard,   \* ticks to the guard's deadline, or Off
  stream,  \* the generation a stream was admitted under, 0 when it is not open
  serve,   \* Tailscale: the mapping that is published
  asked,   \* history: the last operation whose accepted record was written
  made,    \* history: the published mapping is HostDeck's work
  faults   \* faults and drifts still allowed

vars == <<row, proof, trail, latest, lease, busy, phase, guard, stream, serve, asked, made, faults>>

None == "none"
Off == Interval + 1
NoProof == [op |-> None, gen |-> 0]
NoLease == [gen |-> 0, left |-> 0]
Idle == [kind |-> "idle", at |-> "idle", op |-> None, obs |-> None, res |-> None]

Outcomes == {None, "accepted", "rejected", "succeeded", "failed", "incomplete"}
Mappings == {"absent", "exact", "other"}

Rows ==
  [gen : Nat, intent : {"enabled", "disabled"}, sel : BOOLEAN,
   seen : {None} \cup Mappings, fail : {None, "failed", "cleanup"}]
Proofs == [op : Ops \cup {None}, gen : Nat]
Leases == [gen : Nat, left : 0..Interval]
Operations ==
  [kind : {"idle", "status", "enable", "disable"},
   at : {"idle", "observe", "observed", "manager", "managed", "terminal", "prove"},
   op : Ops \cup {None}, obs : {None, "fails"} \cup Mappings,
   res : {None, "done", "failed", "unsent", "unknown", "succeeded", "incomplete"}]

TypeOK ==
  /\ row \in Rows /\ proof \in Proofs
  /\ trail \in [Ops -> Outcomes] /\ latest \in [op : Ops \cup {None}, out : Outcomes]
  /\ lease \in Leases /\ busy \in Operations
  /\ phase \in {"running", "failed"} /\ guard \in 0..Off
  /\ stream \in [Streams -> Nat]
  /\ serve \in Mappings /\ made \in BOOLEAN
  /\ asked \in [op : Ops \cup {None}, kind : {None, "enable", "disable"}]
  /\ faults \in [faults : Nat, drifts : Nat]

(* The row is absent at generation 0.  `sel' says that a profile and a     *)
(* mapping are selected, `seen' what was last observed of them.            *)
Init ==
  /\ row = [gen |-> 0, intent |-> "disabled", sel |-> FALSE, seen |-> None, fail |-> None]
  /\ proof = NoProof
  /\ trail = [o \in Ops |-> None] /\ latest = [op |-> None, out |-> None]
  /\ lease = NoLease /\ busy = Idle /\ phase = "running" /\ guard = Off
  /\ stream = [s \in Streams |-> 0]
  /\ serve = "absent" /\ asked = [op |-> None, kind |-> None] /\ made = FALSE
  /\ faults = [faults |-> MaxFaults, drifts |-> MaxDrifts]

Spend(what) == faults[what] > 0 /\ faults' = [faults EXCEPT ![what] = @ - 1]
Fault == Spend("faults")

outside == <<serve, made>>
audit == <<trail, latest, asked>>

----------------------------------------------------------------------------
(* Admission.                                                              *)

(* isDurablyReady *)
Ready(r) == r.intent = "enabled" /\ r.seen = "exact" /\ r.fail = None

(* readAdmissionLease *)
OpenIn(r, p, l) ==
  Ready(r) /\ p.op # None /\ p.gen = r.gen /\ l.gen = r.gen /\ l.left > 0

Open == phase = "running" /\ OpenIn(row, proof, lease)

(* Mutant: no guard is set. *)
NeverArmed(open, left) == Off

(* armGuard *)
Armed(open, left) == IF open THEN left ELSE Off

(* synchronizeAdmission, on the state, the proof and the lease an operation*)
(* leaves: a closed admission ends every request lease.                    *)
Synchronized(r, p, l) ==
  LET open == OpenIn(r, p, l) IN
  /\ row' = r /\ proof' = p
  /\ lease' = IF l.gen = r.gen THEN l ELSE NoLease
  /\ guard' = Armed(open, l.left)
  /\ stream' = IF open THEN stream ELSE [s \in Streams |-> 0]

(* An operation ends, and the lifecycle reconciles. *)
Ends(r, p, l) == busy' = Idle /\ Synchronized(r, p, l) /\ UNCHANGED phase

(* An operation goes on; the requests admitted so far are left alone. *)
GoesOn(next, r, p) ==
  /\ busy' = next /\ row' = r /\ proof' = p
  /\ UNCHANGED <<phase, guard, stream>>

Running(kind) == phase = "running" /\ busy.kind = kind

Admit(s) ==
  /\ Open /\ stream[s] = 0
  /\ stream' = [stream EXCEPT ![s] = row.gen]
  /\ guard' = Armed(TRUE, lease.left)
  /\ UNCHANGED <<row, proof, audit, lease, busy, phase, outside, faults>>

(* A request is refused, or the poll loop finds a mutation in progress. *)
Refuse ==
  /\ phase = "running" /\ ~Open
  /\ Synchronized(row, proof, lease)
  /\ UNCHANGED <<audit, busy, phase, outside, faults>>

Leave(s) ==
  /\ stream[s] # 0 /\ stream' = [stream EXCEPT ![s] = 0]
  /\ UNCHANGED <<row, proof, audit, lease, busy, phase, guard, outside, faults>>

GuardFires ==
  /\ phase = "running" /\ guard = 0
  /\ Synchronized(row, proof, lease)
  /\ UNCHANGED <<audit, busy, phase, outside, faults>>

----------------------------------------------------------------------------
(* readStatus, by the poll loop or by a client.                            *)

Begin(kind, o) ==
  /\ busy' = [Idle EXCEPT !.kind = kind, !.at = "observe", !.op = o]
  /\ UNCHANGED <<row, proof, audit, lease, phase, guard, stream, outside, faults>>

StatusBegin == Running("idle") /\ row.sel /\ Begin("status", None)

(* No mapping is selected: there is nothing to observe. *)
StatusDisabled ==
  /\ Running("idle") /\ ~row.sel
  /\ Ends(row, proof, NoLease)
  /\ UNCHANGED <<audit, outside, faults>>

ObserverReads ==
  /\ busy.at = "observe"
  /\ \/ busy' = [busy EXCEPT !.at = "observed", !.obs = serve] /\ UNCHANGED faults
     \/ busy' = [busy EXCEPT !.at = "observed", !.obs = "fails"] /\ Fault
  /\ UNCHANGED <<row, proof, audit, lease, phase, guard, stream, outside>>

(* stateFromObservation and materiallyDifferent: the generation moves only *)
(* when what was observed differs.                                         *)
Observed ==
  LET seen == [row EXCEPT !.seen = busy.obs,
                          !.fail = IF row.intent = "disabled" THEN @ ELSE None]
  IN IF seen = row THEN row ELSE [seen EXCEPT !.gen = @ + 1]

(* establishReadyProofAndLease: a proof is carried to a later generation   *)
(* while its operation is the latest one.                                  *)
CarriedProof(r) ==
  IF Ready(r) /\ proof.op # None /\ latest = [op |-> proof.op, out |-> "succeeded"]
    THEN [proof EXCEPT !.gen = r.gen] ELSE proof

StatusEnd ==
  /\ Running("status") /\ busy.at = "observed"
  /\ \/ /\ busy.obs # "fails" /\ UNCHANGED faults
        /\ LET p == CarriedProof(Observed)
               proven == Ready(Observed) /\ p.op # None /\ p.gen = Observed.gen
           IN Ends(Observed, p, IF proven THEN [gen |-> p.gen, left |-> Interval] ELSE NoLease)
     \/ /\ busy.obs # "fails" /\ Fault      \* the state or the proof cannot be written
        /\ \E r \in {row, Observed} : Ends(r, proof, NoLease)
     \/ /\ busy.obs = "fails" /\ UNCHANGED faults
        /\ Ends(row, proof, NoLease)
  /\ UNCHANGED <<audit, outside>>

(* The clock has gone back: the lifecycle ends for good. *)
LifecycleFails ==
  /\ Running("status") /\ busy.at = "observed" /\ Fault
  /\ phase' = "failed" /\ guard' = Off /\ stream' = [s \in Streams |-> 0]
  /\ lease' = NoLease /\ busy' = Idle
  /\ UNCHANGED <<row, proof, audit, outside>>

----------------------------------------------------------------------------
(* The audit trail of a mutation.                                          *)

Recorded(o, out) ==
  /\ trail' = [trail EXCEPT ![o] = out]
  /\ latest' = [op |-> o, out |-> out]

(* Mutant: an accepted operation leaves the proof of an earlier one. *)
ProofAfterAcceptedKept == proof

(* The trigger on accepted remote records deletes the proof. *)
ProofAfterAccepted == NoProof

AcceptedAs(kind) ==
  /\ Recorded(busy.op, "accepted")
  /\ asked' = [op |-> busy.op, kind |-> kind]

(* The accepted record cannot be written: the operation has no effect. *)
Unaccepted(r) == Fault /\ Ends(r, proof, NoLease) /\ UNCHANGED audit

Concluded(out) == [busy EXCEPT !.at = "terminal", !.res = out]

----------------------------------------------------------------------------
(* enable                                                                  *)

EnableBegin(o) == trail[o] = None /\ Running("idle") /\ Begin("enable", o)

(* prepareEnable *)
MayEnable(r) ==
  IF row.sel THEN r.fail # "cleanup" /\ busy.obs \in {"absent", "exact"}
             ELSE busy.obs = "absent"

Preflight == IF row.sel /\ busy.obs # "fails" THEN Observed ELSE row

EnableRejected ==
  /\ Running("enable") /\ busy.at = "observed" /\ ~MayEnable(Preflight)
  /\ \/ /\ Recorded(busy.op, "rejected") /\ UNCHANGED faults
        /\ Ends(Preflight, proof, NoLease)
     \/ /\ Fault /\ UNCHANGED <<trail, latest>>   \* the row or the record cannot be written
        /\ \E r \in {row, Preflight} : Ends(r, proof, NoLease)
  /\ UNCHANGED <<asked, outside>>

EnableAccepted ==
  LET intent == [gen |-> Preflight.gen + 1, intent |-> "enabled", sel |-> TRUE,
                 seen |-> busy.obs, fail |-> None]
  IN
  /\ Running("enable") /\ busy.at = "observed" /\ MayEnable(Preflight)
  /\ \/ /\ AcceptedAs("enable") /\ lease' = NoLease /\ UNCHANGED faults
        /\ GoesOn([busy EXCEPT !.at = "manager"], intent, ProofAfterAccepted)
     \/ /\ AcceptedAs("enable") /\ lease' = NoLease /\ Fault
        /\ GoesOn(Concluded("failed"), Preflight, ProofAfterAccepted)
     \/ \E r \in {row, Preflight} : Unaccepted(r)
  /\ UNCHANGED outside

(* The Serve manager observes, changes and observes again.  It does not    *)
(* touch a mapping that is not the selected one.                           *)
ManagerRuns ==
  LET goal == IF busy.kind = "enable" THEN "exact" ELSE "absent"
      free == serve \in {"absent", "exact"}
      Result(res, obs) == busy' = [busy EXCEPT !.at = "managed", !.res = res, !.obs = obs]
      Publishes(now) == serve' = now /\ made' = (now = "exact" /\ (made \/ serve # "exact"))
  IN
  /\ busy.at = "manager"
  /\ \/ free /\ Publishes(goal) /\ Result("done", goal) /\ UNCHANGED faults
     \/ ~free /\ UNCHANGED outside /\ Result("failed", serve) /\ UNCHANGED faults
     \/ Fault /\ UNCHANGED outside /\ \E res \in {"failed", "unsent"} : Result(res, serve)
     \/ /\ Fault /\ \E now \in {serve} \cup (IF free THEN {goal} ELSE {}) : Publishes(now)
        /\ Result("unknown", "other")
  /\ UNCHANGED <<row, proof, audit, lease, phase, guard, stream>>

Outcome(res) ==
  CASE res = "done" -> "succeeded" [] res = "unknown" -> "incomplete" [] OTHER -> "failed"

EnableApplied ==
  LET after == [row EXCEPT !.gen = @ + 1, !.seen = busy.obs,
                           !.fail = IF busy.res = "done" THEN None ELSE "failed"]
  IN
  /\ busy.kind = "enable" /\ busy.at = "managed"
  /\ \/ /\ UNCHANGED faults
        /\ GoesOn(Concluded(Outcome(busy.res)), IF busy.res = "unsent" THEN row ELSE after, proof)
     \/ Fault /\ GoesOn(Concluded("incomplete"), row, proof)
  /\ UNCHANGED <<audit, lease, outside>>

(* recordTerminal, of either mutation. *)
Terminal ==
  /\ busy.at = "terminal"
  /\ \/ /\ Recorded(busy.op, busy.res) /\ UNCHANGED faults
        /\ IF busy.kind = "enable" /\ busy.res = "succeeded"
             THEN GoesOn([busy EXCEPT !.at = "prove"], row, proof) /\ UNCHANGED lease
             ELSE Ends(row, proof, NoLease)
     \/ Fault /\ Ends(row, proof, NoLease) /\ UNCHANGED <<trail, latest>>
  /\ UNCHANGED <<asked, outside>>

EnableProven ==
  /\ busy.at = "prove"
  /\ \/ /\ latest = [op |-> busy.op, out |-> "succeeded"] /\ UNCHANGED faults
        /\ Ends(row, [op |-> busy.op, gen |-> row.gen], [gen |-> row.gen, left |-> Interval])
     \/ Fault /\ Ends(row, proof, NoLease)
  /\ UNCHANGED <<audit, outside>>

----------------------------------------------------------------------------
(* disable                                                                 *)

Unconfigured(r) ==
  [gen |-> r.gen + 1, intent |-> "disabled", sel |-> FALSE, seen |-> None, fail |-> None]

(* disabledCleanupState: the mapping stays selected until it is gone. *)
CleanupState(r) == [r EXCEPT !.gen = @ + 1, !.intent = "disabled", !.fail = "cleanup"]

DisableBegin(o) ==
  LET op == [Idle EXCEPT !.kind = "disable", !.op = o]
      Goes(at, res) == [op EXCEPT !.at = at, !.res = res]
      Accepted == Recorded(o, "accepted") /\ asked' = [op |-> o, kind |-> "disable"]
  IN
  /\ trail[o] = None /\ Running("idle")
  /\ \/ /\ Accepted /\ lease' = NoLease /\ UNCHANGED faults
        /\ IF row.sel THEN GoesOn(Goes("manager", None), CleanupState(row), ProofAfterAccepted)
                      ELSE GoesOn(Goes("terminal", "succeeded"), Unconfigured(row), ProofAfterAccepted)
     \/ /\ Accepted /\ lease' = NoLease /\ Fault      \* the row cannot be written
        /\ GoesOn(Goes("terminal", "incomplete"), row, ProofAfterAccepted)
     \/ Unaccepted(row)
  /\ UNCHANGED outside

(* Mutant: a removal that was not verified counts as one. *)
RemovedUnlessRefused == busy.res \in {"done", "unknown"}

(* isVerifiedAbsent *)
RemovalVerified == busy.res = "done"

DisableApplied ==
  /\ busy.kind = "disable" /\ busy.at = "managed"
  /\ \/ /\ RemovalVerified /\ UNCHANGED faults
        /\ GoesOn(Concluded("succeeded"), Unconfigured(row), proof)
     \/ RemovalVerified /\ Fault /\ GoesOn(Concluded("incomplete"), row, proof)
     \/ ~RemovalVerified /\ UNCHANGED faults /\ GoesOn(Concluded("incomplete"), row, proof)
  /\ UNCHANGED <<audit, lease, outside>>

----------------------------------------------------------------------------
(* The surroundings.                                                       *)

Tick ==
  /\ lease.left > 0 \/ guard \in 1..Interval
  /\ lease' = IF lease.left > 0 THEN [lease EXCEPT !.left = @ - 1] ELSE lease
  /\ guard' = IF guard \in 1..Interval THEN guard - 1 ELSE guard
  /\ UNCHANGED <<row, proof, audit, busy, phase, stream, outside, faults>>

Drift ==
  /\ Spend("drifts")
  /\ serve' \in {"absent", "exact", "other"} \ {serve} /\ made' = FALSE
  /\ UNCHANGED <<row, proof, audit, lease, busy, phase, guard, stream>>

(* The process stops and starts; every trail without an end becomes        *)
(* incomplete, in no particular order.                                     *)
Restart ==
  LET open == {o \in Ops : trail[o] = "accepted"} IN
  /\ Fault
  /\ lease' = NoLease /\ busy' = Idle /\ phase' = "running" /\ guard' = Off
  /\ stream' = [s \in Streams |-> 0]
  /\ trail' = [o \in Ops |-> IF o \in open THEN "incomplete" ELSE trail[o]]
  /\ latest' \in IF open = {} THEN {latest} ELSE [op : open, out : {"incomplete"}]
  /\ UNCHANGED <<row, proof, asked, outside>>

Next ==
  \/ \E s \in Streams : Admit(s) \/ Leave(s)
  \/ \E o \in Ops : EnableBegin(o) \/ DisableBegin(o)
  \/ Refuse \/ GuardFires \/ StatusBegin \/ StatusDisabled \/ ObserverReads \/ StatusEnd
  \/ LifecycleFails \/ EnableRejected \/ EnableAccepted \/ ManagerRuns \/ EnableApplied
  \/ Terminal \/ EnableProven \/ DisableApplied \/ Tick \/ Drift \/ Restart

(* Only timers are fair: every command of Tailscale may hang. *)
Fairness == WF_vars(Tick) /\ WF_vars(GuardFires)

Spec == Init /\ [][Next]_vars /\ Fairness

----------------------------------------------------------------------------
(* Properties.                                                             *)

(* Remote requests are admitted only while the last operation the operator *)
(* was granted is an enable, recorded as succeeded.  No failed write, no   *)
(* command without an answer, no restart and no later observation opens    *)
(* admission under a disable or under an enable whose end is not on record *)
(* (readAdmissionLease, proveTransaction, the proof's trigger).            *)
AdmissionEarned ==
  Open => asked.kind = "enable" /\ trail[asked.op] = "succeeded" /\ proof.op = asked.op

(* HostDeck never forgets a mapping it has published: until the mapping is *)
(* gone, the row selects it, so that a later disable can remove it, even   *)
(* when the command that published or removed it was cut off               *)
(* (executeEnableTransition, executeDisableTransition).                    *)
MappingRemembered == made => row.sel

(* A stream that is no longer covered by an open admission ends, or the    *)
(* admission is renewed, although the observer and the manager may hang    *)
(* for ever (runGuard, armGuard, synchronize).                             *)
StreamsEnd == \A s \in Streams : stream[s] # 0 /\ ~Open ~> stream[s] = 0 \/ Open
=============================================================================
