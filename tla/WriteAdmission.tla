---------------------------- MODULE WriteAdmission ----------------------------
(***************************************************************************)
(* The state of the selected-write admission policy of packages/server and *)
(* what each of its calls makes of it.  The policy holds at most one entry *)
(* per client operation id; the entry is open while one request owns the   *)
(* operation and keeps the settlement afterwards, so that a retry of the   *)
(* same intent is answered from it.                                        *)
(***************************************************************************)
EXTENDS Naturals, FiniteSets

CONSTANTS
  Ops,        \* client operation ids
  Actors,     \* paired devices (and the local administrator)
  Targets,    \* what an operation acts on; with the actor it is the fingerprint
  PerActor,   \* mutation_max_in_flight_per_device
  PerTarget,  \* mutation_max_in_flight_per_target
  MaxOwners,  \* mutation_max_in_flight_global
  MaxKeys,    \* admission_max_tracked_keys
  MaxRate     \* mutation_max_requests_per_device

ASSUME AdmissionAssumption ==
  /\ IsFiniteSet(Ops) /\ IsFiniteSet(Actors)
  /\ {PerActor, PerTarget, MaxOwners, MaxKeys, MaxRate} \subseteq Nat \ {0}

Results == {"succeeded", "failed", "incomplete"}
Settled == Results \cup {"error"}

NoEntry == [status |-> "absent"]
NoBucket == [on |-> FALSE, count |-> 0, idle |-> FALSE]

Entries ==
  {NoEntry} \cup
  [status : {"open"} \cup Settled, actor : Actors, target : Targets,
   bound : BOOLEAN, stale : BOOLEAN]
Buckets == [on : BOOLEAN, count : 0..MaxRate, idle : BOOLEAN]

EmptyAdmission ==
  [phase |-> "open", entry |-> [o \in Ops |-> NoEntry], owners |-> 0,
   actors |-> [a \in Actors |-> 0], targets |-> [t \in Targets |-> 0],
   bucket |-> [a \in Actors |-> NoBucket]]

Tracked(m, o) == m.entry[o].status # "absent"
Open(m, o) == m.entry[o].status = "open"

(* trackedKeys: operations and rate buckets share one limit. *)
Keys(m) ==
  Cardinality({o \in Ops : Tracked(m, o)}) + Cardinality({a \in Actors : m.bucket[a].on})

(* Settled entries and idle buckets older than the time to live go; a      *)
(* bucket stays while its actor owns an operation.                         *)
Prune(m) ==
  [m EXCEPT
    !.entry = [o \in Ops |->
      IF m.entry[o].status \in Settled /\ m.entry[o].stale THEN NoEntry ELSE m.entry[o]],
    !.bucket = [a \in Actors |->
      IF m.actors[a] = 0 /\ m.bucket[a].idle THEN NoBucket ELSE m.bucket[a]]]

(* chargeRate: an actor's bucket as its next request finds it ...          *)
Window(b) == [b EXCEPT !.on = TRUE, !.idle = FALSE]
(* ... which a new bucket cannot when every key is taken ...               *)
HasBucket(m, a) == m.bucket[a].on \/ Keys(m) < MaxKeys
(* ... and the request it may count, when the window is not full.          *)
InRate(m, a) == Window(m.bucket[a]).count < MaxRate
Touch(m, a) == [m EXCEPT !.bucket[a] = Window(@)]
Charge(m, a) ==
  LET b == Window(m.bucket[a]) IN
  [m EXCEPT !.bucket[a] = [b EXCEPT !.count = b.count + 1]]

(* The three outcomes of begin for a request that has been charged.        *)
SameIntent(m, o, a, t) == m.entry[o].actor = a /\ m.entry[o].target = t
Replays(m, o, a, t) == Tracked(m, o) /\ SameIntent(m, o, a, t)
Admits(m, o, a) ==
  /\ ~Tracked(m, o)
  /\ Keys(m) < MaxKeys
  /\ m.actors[a] < PerActor
  /\ m.owners < MaxOwners

Claim(m, o, a, t) ==
  [m EXCEPT
    !.entry[o] = [status |-> "open", actor |-> a, target |-> t, bound |-> FALSE, stale |-> FALSE],
    !.actors[a] = @ + 1,
    !.owners = @ + 1]

HasTargetSlot(m, o) == m.targets[m.entry[o].target] < PerTarget
BindTarget(m, o) ==
  [m EXCEPT !.entry[o].bound = TRUE, !.targets[m.entry[o].target] = @ + 1]

CloseIfDrained(m) ==
  IF m.phase = "draining" /\ m.owners = 0 THEN [m EXCEPT !.phase = "closed"] ELSE m

ReleaseOwner(m, o) ==
  LET e == m.entry[o] IN
  CloseIfDrained(
    [m EXCEPT
      !.actors[e.actor] = @ - 1,
      !.owners = @ - 1,
      !.targets[e.target] = IF e.bound THEN @ - 1 ELSE @])

(* complete and fail keep the settlement for retries; abandon forgets the  *)
(* operation, which the caller has proved was never started.               *)
Retain(m, o, result) == [ReleaseOwner(m, o) EXCEPT !.entry[o].status = result]
Abandon(m, o) == [ReleaseOwner(m, o) EXCEPT !.entry[o] = NoEntry]

BeginDrain(m) ==
  CloseIfDrained(IF m.phase = "open" THEN [m EXCEPT !.phase = "draining"] ELSE m)

(* What time does to the state: a rate window ends and the next request    *)
(* opens a new one; the time to live (never shorter than the window) of    *)
(* everything now settled or idle ends.                                    *)
WindowEnds(m) ==
  [m EXCEPT !.bucket = [a \in Actors |-> [m.bucket[a] EXCEPT !.count = 0]]]
Expire(m) ==
  [m EXCEPT
    !.entry = [o \in Ops |->
      IF m.entry[o].status \in Settled THEN [m.entry[o] EXCEPT !.stale = TRUE] ELSE m.entry[o]],
    !.bucket = [a \in Actors |-> [on |-> m.bucket[a].on, count |-> 0, idle |-> m.bucket[a].on]]]
================================================================================
