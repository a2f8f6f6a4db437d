------------------------ MODULE RuntimeRecoveryProofs ------------------------
(***************************************************************************)
(* What is proved of RuntimeRecovery for every set of sessions, every      *)
(* limit and any number of losses, notifications and faults: the events    *)
(* behind a boundary are of the connection that wrote it, requests are     *)
(* admitted only when every session is reconciled, a session shown as      *)
(* current is one the connection resumed, and no notification is skipped.  *)
(*                                                                         *)
(* The inductive invariant adds where the controller may be while the      *)
(* connection is open, which entries the pipeline's tail may hold at each  *)
(* stage of a reconciliation, and which sessions have their boundary.      *)
(***************************************************************************)
EXTENDS RuntimeRecovery, FiniteSetTheorems, SequenceTheorems, TLAPS

(* Where the controller is tells whether the connection is open, and a     *)
(* loss is pending only until it is cleaned up (run, recordLoss).          *)
LossInPlace ==
  /\ ctl.lossDone <= link.gen
  /\ ctl.lossPending # 0 =>
       ctl.lossPending = link.gen /\ ctl.lossDone < link.gen /\ ~link.open
  /\ link.open => ctl.lossDone < link.gen
  /\ ctl.at \in {"idle", "backoff", "cleanup", "ended"} => ~link.open
  /\ ctl.at \in Cycle \cup {"waiting"} => link.open
  /\ ctl.at = "loop" /\ link.open => ctl.fatal /\ ~ctl.ending
  /\ ctl.at = "connecting" =>
       step.stage \in {"dial", "handshake", "lost"} /\ (link.open <=> step.stage = "handshake")
  /\ ctl.at = "arming" /\ ~link.open => ctl.lossPending # 0
  /\ ctl.at \in {"idle", "backoff"} \/ (ctl.at = "connecting" /\ step.stage = "dial")
       => ctl.lossPending = 0
  /\ ctl.at = "cleanup" /\ step.stage = "mark" => ctl.lossPending = 0
  /\ ctl.at = "reconcile" => step.stage \in {"start", "mark", "fence", "commit", "refused"}

(* A controller that ends has closed the connection and only cleans up.    *)
EndingInPlace ==
  /\ ctl.ending => ctl.at \in {"loop", "cleanup", "ended"} /\ ~link.open
  /\ ctl.fatal => ctl.at \in {"loop", "arming", "cleanup", "ended"}
  /\ ctl.cause = "cleanup" => ctl.ending

(* What passes directly, and what is held, belongs to the open connection. *)
PassingInPlace ==
  /\ ctl.admitted # 0 =>
       ctl.at \in {"arming", "waiting"} /\ ctl.admitted = link.gen /\ link.open /\ ~ctl.fatal
  /\ ctl.direct # 0 =>
       /\ ctl.direct = link.gen /\ link.open
       /\ ctl.at = "ready" \/ (ctl.at = "loop" /\ ctl.fatal)
  /\ ctl.at = "ready" => ctl.direct = link.gen
  /\ ~link.open \/ ctl.admitted # 0 \/ ctl.direct # 0 => held = <<>>

(* No entry of the tail comes from a later connection.                     *)
IsEvent(i) == pipe.queue[i].kind = "event"
FenceOf(i) == pipe.queue[i].kind = "fence" /\ pipe.queue[i].gen = link.gen
EntriesKnown ==
  /\ \A i \in DOMAIN pipe.queue :
       pipe.queue[i].kind \in {"event", "fence"} => pipe.queue[i].gen <= link.gen
  /\ \A i \in DOMAIN held : held[i].gen = link.gen

(* The fence of a reconciliation is put behind the queued events, nothing  *)
(* joins them until the resubscription, and when the boundaries are        *)
(* written they are gone (events.reconcile).                               *)
FenceHolds ==
  /\ (ctl.at = "connecting" /\ step.stage = "handshake")
     \/ (ctl.at = "reconcile" /\ step.stage \in {"start", "mark"})
       => \A i \in DOMAIN pipe.queue : ~FenceOf(i)
  /\ ctl.at = "reconcile" /\ step.stage = "fence" =>
       \A i, j \in DOMAIN pipe.queue : FenceOf(i) /\ i < j => ~IsEvent(j)
  /\ (ctl.at = "reconcile" /\ step.stage \in {"commit", "refused"}) \/ ctl.at = "resubscribe"
       => \A i \in DOMAIN pipe.queue : ~IsEvent(i)

(* While notifications are numbered, no more were stored than were queued. *)
Running == link.open /\ ~pipe.stopped /\ ~ctl.fatal /\ ~ctl.ending
StoredInTurn == Running => pipe.got <= link.sent - Len(held)

(* A queued event of a managed session came over the connection that wrote *)
(* the session's boundary.                                                 *)
EventsBelong ==
  \A i \in DOMAIN pipe.queue :
    IsEvent(i) /\ Managed(pipe.queue[i].s) =>
      sess[pipe.queue[i].s].fence = pipe.queue[i].gen

(* The sessions a reconciliation is done with carry its boundary, and wait *)
(* for a resume only if their outcome allows one.                          *)
Fenced(s) ==
  /\ sess[s].fence = link.gen /\ sess[s].fresh # "disconnected"
  /\ sess[s].fresh = "resubscribe" => step.outcome[s] = "recoverable"
BoundaryWritten ==
  /\ ctl.at = "reconcile" /\ step.stage \in {"fence", "commit", "refused"} =>
       \A s \in Listed \ step.todo : Fenced(s)
  /\ ctl.at \in {"resubscribe", "ready"} => \A s \in Listed : Fenced(s)
  /\ ctl.at = "ready" => \A s \in Listed : sess[s].fresh = "resubscribe" => s \in step.todo

(* The cleanup of a loss has marked every session it is done with.         *)
CleanupMarks ==
  ctl.at = "cleanup" /\ step.stage = "mark" =>
    \A s \in Listed \ step.todo : sess[s].fresh # "current"

InPlace == LossInPlace /\ EndingInPlace /\ PassingInPlace
TailOK == EntriesKnown /\ FenceHolds /\ StoredInTurn /\ NoneSkipped
SessionsOK ==
  /\ EventsBelong /\ BoundarySeparates /\ BoundaryWritten
  /\ AdmittedIsReconciled /\ CurrentIsConnected /\ CleanupMarks

IInv == TypeOK /\ InPlace /\ TailOK /\ SessionsOK

(* A stored session restamped, with its freshness, or asked to be removed. *)
LEMMA RowRestamped ==
  ASSUME NEW r \in Stored, NEW t \in 0..2
  PROVE  /\ [r EXCEPT !.stamp = t] \in Stored
         /\ [r EXCEPT !.fresh = "disconnected", !.stamp = t] \in Stored
         /\ [r EXCEPT !.fresh = "current", !.stamp = t] \in Stored
<1>1. ASSUME NEW f \in {"current", "disconnected"}
      PROVE  [r EXCEPT !.fresh = f, !.stamp = t] \in Stored
  <2> DEFINE q == [r EXCEPT !.fresh = f]
  <2>1. q \in Stored
    BY DEF Stored
  <2>2. [q EXCEPT !.stamp = t] = [r EXCEPT !.fresh = f, !.stamp = t]
    OBVIOUS
  <2> HIDE DEF q
  <2>3. [q EXCEPT !.stamp = t] \in Stored
    BY <2>1 DEF Stored
  <2> QED  BY <2>2, <2>3
<1>2. [r EXCEPT !.stamp = t] \in Stored
  BY DEF Stored
<1> QED
  BY <1>1, <1>2

LEMMA RowAsked ==
  ASSUME NEW r \in Stored, NEW a \in {"no", "asked", "valid", "stale"}
  PROVE  [r EXCEPT !.asked = a] \in Stored
BY DEF Stored

(* Every write of a session keeps it a session.                            *)
LEMMA WriteTyped ==
  ASSUME TypeOK, NEW s \in Sessions, NEW r \in Stored, Write(s, r)
  PROVE  sess' \in [Sessions -> Stored]
<1>1. [r EXCEPT !.asked = IF r.asked = "valid" THEN "stale" ELSE r.asked] \in Stored
  BY DEF Stored
<1> QED
  BY <1>1 DEF TypeOK, Write

(* The audit clock stays within the three times that are told apart.       *)
LEMMA ClockTyped ==
  ASSUME TypeOK
  PROVE  /\ AuditNow(clock) \in 0..2
         /\ \A f \in 0..2 : StampAfter(f) \in 0..2
  BY DEF TypeOK, AuditNow, StampAfter

(* What the pipeline takes is a prefix of what it is offered, all of it as *)
(* long as it does not stop.                                               *)
LEMMA ConsumedPrefix ==
  ASSUME TypeOK, NEW evs \in Seq(Events)
  PROVE  /\ Consumed(pipe, evs) \in Pipes
         /\ Consumed(pipe, evs).got = pipe.got
         /\ pipe.stopped => Consumed(pipe, evs) = pipe
         /\ \E n \in 0..Len(evs) :
              /\ Consumed(pipe, evs).queue = pipe.queue \o SubSeq(evs, 1, n)
              /\ ~Consumed(pipe, evs).stopped => n = Len(evs)
<1> DEFINE pending == Cardinality({i \in DOMAIN pipe.queue : pipe.queue[i].kind = "event"})
           room == Limit - pending
           k == IF Len(evs) <= room THEN Len(evs) ELSE room
           n == IF k < 0 THEN 0 ELSE k
           fits == SubSeq(evs, 1, k)
<1>1. pipe.queue \in Seq(Entries) /\ pipe.stopped \in BOOLEAN /\ pipe.got \in Nat
  BY DEF TypeOK, Pipes
<1>2. pending \in Nat
  <2>1. IsFiniteSet(1 .. Len(pipe.queue))
    <3>1. 1 \in Int /\ Len(pipe.queue) \in Int
      BY <1>1
    <3> QED  BY <3>1, FS_Interval
  <2>2. IsFiniteSet({i \in DOMAIN pipe.queue : pipe.queue[i].kind = "event"})
    BY <1>1, <2>1, FS_Subset
  <2> QED  BY <2>2, FS_CardinalityType
<1>3. room \in Int
  BY <1>2, RecoveryAssumption
<1> HIDE DEF pending, room
<1>4. Len(evs) \in Nat
  OBVIOUS
<1>5. k \in Int /\ n \in 0..Len(evs)
  BY <1>3, <1>4
<1>6. fits = SubSeq(evs, 1, n)
  BY <1>5
<1>7. fits \in Seq(Events) /\ Len(fits) = n
  BY <1>5, <1>6, SubSeqProperties
<1>8. fits \in Seq(Entries)
  BY <1>7 DEF Entries
<1>9. Consumed(pipe, evs) =
        IF pipe.stopped THEN pipe
        ELSE [pipe EXCEPT !.queue = @ \o fits, !.stopped = Len(fits) < Len(evs)]
  BY DEF Consumed, room, pending
<1> HIDE DEF fits, k
<1>10. pipe.queue \o fits \in Seq(Entries)
  BY <1>1, <1>8
<1>11. CASE pipe.stopped
  <2>1. SubSeq(evs, 1, 0) = <<>>
    BY SubSeqProperties
  <2>2. pipe.queue = pipe.queue \o SubSeq(evs, 1, 0)
    BY <1>1, <2>1
  <2>3. Consumed(pipe, evs) = pipe
    BY <1>9, <1>11
  <2>4. pipe \in Pipes
    BY DEF TypeOK, Pipes
  <2>5. \E m \in 0..Len(evs) :
          /\ Consumed(pipe, evs).queue = pipe.queue \o SubSeq(evs, 1, m)
          /\ ~Consumed(pipe, evs).stopped => m = Len(evs)
    <3>1. 0 \in 0..Len(evs)
      BY <1>4
    <3> QED  BY <1>11, <2>2, <2>3, <3>1
  <2> QED  BY <2>3, <2>4, <2>5
<1>12. CASE ~pipe.stopped
  <2>1. Consumed(pipe, evs) = [pipe EXCEPT !.queue = @ \o fits, !.stopped = Len(fits) < Len(evs)]
    BY <1>9, <1>12
  <2>2. pipe \in Pipes
    BY DEF TypeOK, Pipes
  <2>3. (Len(fits) < Len(evs)) \in BOOLEAN
    OBVIOUS
  <2>4. /\ Consumed(pipe, evs).queue = pipe.queue \o fits
        /\ Consumed(pipe, evs).stopped = (Len(fits) < Len(evs))
        /\ Consumed(pipe, evs).got = pipe.got
    BY <2>1, <2>2
  <2>5. Consumed(pipe, evs) \in Pipes
    BY <1>10, <2>1, <2>2, <2>3 DEF Pipes
  <2>6. Consumed(pipe, evs).queue = pipe.queue \o SubSeq(evs, 1, n)
    BY <1>6, <2>4
  <2> HIDE DEF n
  <2>7. ~Consumed(pipe, evs).stopped => n = Len(evs)
    <3>1. SUFFICES ASSUME ~(Len(fits) < Len(evs)) PROVE n = Len(evs)
      BY <2>4
    <3> QED  BY <1>4, <1>5, <1>7, <3>1
  <2> QED  BY <1>5, <1>12, <2>4, <2>5, <2>6, <2>7
<1> QED  BY <1>11, <1>12

(* Taking the first entry of the tail, and joining it.                     *)
LEMMA TailTaken ==
  ASSUME TypeOK, pipe.queue # <<>>
  PROVE  /\ Tail(pipe.queue) \in Seq(Entries)
         /\ Len(pipe.queue) \in Nat \ {0} /\ DOMAIN pipe.queue = 1 .. Len(pipe.queue)
         /\ Len(Tail(pipe.queue)) = Len(pipe.queue) - 1
         /\ DOMAIN Tail(pipe.queue) = 1 .. (Len(pipe.queue) - 1)
         /\ \A i \in DOMAIN Tail(pipe.queue) : Tail(pipe.queue)[i] = pipe.queue[i + 1]
         /\ Head(pipe.queue) = pipe.queue[1] /\ Head(pipe.queue) \in Entries
<1> DEFINE q == pipe.queue
<1>1. q \in Seq(Entries)
  BY DEF TypeOK, Pipes
<1> SUFFICES ASSUME q # <<>>
             PROVE  /\ Tail(q) \in Seq(Entries)
                    /\ Len(q) \in Nat \ {0} /\ DOMAIN q = 1 .. Len(q)
                    /\ Len(Tail(q)) = Len(q) - 1
                    /\ DOMAIN Tail(q) = 1 .. (Len(q) - 1)
                    /\ \A i \in DOMAIN Tail(q) : Tail(q)[i] = q[i + 1]
                    /\ Head(q) = q[1] /\ Head(q) \in Entries
  OBVIOUS
<1> HIDE DEF q
<1> QED
  BY <1>1

(* An entry that joins the tail keeps its place and that of the others.    *)
LEMMA EntryJoins ==
  ASSUME TypeOK, NEW e \in Entries
  PROVE  /\ Append(pipe.queue, e) \in Seq(Entries)
         /\ DOMAIN pipe.queue = 1 .. Len(pipe.queue) /\ Len(pipe.queue) \in Nat
         /\ DOMAIN Append(pipe.queue, e) = 1 .. (Len(pipe.queue) + 1)
         /\ \A i \in DOMAIN pipe.queue : Append(pipe.queue, e)[i] = pipe.queue[i]
         /\ Append(pipe.queue, e)[Len(pipe.queue) + 1] = e
<1> DEFINE q == pipe.queue
<1>1. q \in Seq(Entries)
  BY DEF TypeOK, Pipes
<1> SUFFICES /\ Append(q, e) \in Seq(Entries)
             /\ DOMAIN q = 1 .. Len(q) /\ Len(q) \in Nat
             /\ DOMAIN Append(q, e) = 1 .. (Len(q) + 1)
             /\ \A i \in DOMAIN q : Append(q, e)[i] = q[i]
             /\ Append(q, e)[Len(q) + 1] = e
  OBVIOUS
<1> HIDE DEF q
<1> QED
  BY <1>1


(* A new step, wherever it begins, has the type of a step.                 *)
LEMMA NoStepTyped ==
  /\ NoStep \in Steps
  /\ \A g \in Stages : [NoStep EXCEPT !.stage = g] \in Steps
BY DEF NoStep, Steps, Stages, Outcomes

(* Stopping, failing, spending and the passing of time keep the types.     *)
LEMMA StopTyped ==
  ASSUME TypeOK, NEW why \in Causes, Stop(why)
  PROVE  /\ ctl' \in Controls /\ link' \in Links /\ step' \in Steps
         /\ held' \in Seq(Events) /\ Len(held') <= Limit
<1>1. ctl' \in Controls
  BY DEF Stop, TypeOK, Controls, Links
<1>2. link' \in Links
  BY DEF Stop, TypeOK, Links
<1> QED
  BY <1>1, <1>2, NoStepTyped, RecoveryAssumption DEF Stop

(* A fatal end keeps the types of what it touches.                         *)
LEMMA FatalTyped ==
  ASSUME TypeOK, Fatal
  PROVE  ctl' \in Controls /\ life' \in Lives /\ step' \in Steps
<1>1. ctl' \in Controls
  BY DEF Fatal, TypeOK, Controls
<1>2. life' \in Lives
  BY DEF Fatal, TypeOK, Lives
<1> QED
  BY <1>1, <1>2, NoStepTyped DEF Fatal, TypeOK

(* A budget that is spent stays one.                                       *)
LEMMA SpendTyped ==
  ASSUME TypeOK, NEW what \in {"losses", "events", "faults"}, Spend(what)
  PROVE  budget' \in Budgets
BY DEF Spend, TypeOK, Budgets

(* The changes a step makes to a session's row keep it one.                *)
LEMMA StoredChanges ==
  ASSUME NEW r \in Stored
  PROVE  /\ [r EXCEPT !.stamp = 0] \in Stored
         /\ [r EXCEPT !.fresh = "disconnected", !.stamp = 2] \in Stored
         /\ \A g \in Nat, f \in {r.fresh, "other"} :
              [r EXCEPT !.since = @ \cup {g}, !.stamp = 1, !.fresh = f] \in Stored
         /\ \A b \in BOOLEAN : [r EXCEPT !.asked = "no", !.here = b] \in Stored
<1>1. [r EXCEPT !.stamp = 0] \in Stored
  BY DEF Stored
<1>2. [r EXCEPT !.fresh = "disconnected", !.stamp = 2] \in Stored
  <2> DEFINE q == [r EXCEPT !.fresh = "disconnected"]
  <2>1. q \in Stored
    BY DEF Stored
  <2>2. [q EXCEPT !.stamp = 2] = [r EXCEPT !.fresh = "disconnected", !.stamp = 2]
    OBVIOUS
  <2> HIDE DEF q
  <2>3. [q EXCEPT !.stamp = 2] \in Stored
    BY <2>1 DEF Stored
  <2> QED  BY <2>2, <2>3
<1>3. ASSUME NEW g \in Nat, NEW f \in {r.fresh, "other"}
      PROVE  [r EXCEPT !.since = @ \cup {g}, !.stamp = 1, !.fresh = f] \in Stored
  <2>1. r.since \cup {g} \in SUBSET Nat
    BY DEF Stored
  <2>2. r.fresh \in {"current", "disconnected", "resubscribe", "other"}
    BY DEF Stored
  <2>3. [r EXCEPT !.fresh = f] \in Stored
    BY <2>2 DEF Stored
  <2> DEFINE q == [r EXCEPT !.fresh = f]
             t == [q EXCEPT !.since = r.since \cup {g}]
  <2>4. t \in Stored
    BY <2>1, <2>3 DEF Stored
  <2>5. [t EXCEPT !.stamp = 1] =
          [r EXCEPT !.since = @ \cup {g}, !.stamp = 1, !.fresh = f]
    BY DEF Stored
  <2> HIDE DEF t
  <2>6. [t EXCEPT !.stamp = 1] \in Stored
    BY <2>4 DEF Stored
  <2> QED  BY <2>5, <2>6
<1>4. ASSUME NEW b \in BOOLEAN PROVE [r EXCEPT !.asked = "no", !.here = b] \in Stored
  BY <1>4 DEF Stored
<1> QED
  BY <1>1, <1>2, <1>3, <1>4

(* A new clock reading leaves the rows what they are.                      *)
LEMMA RestampTyped ==
  ASSUME TypeOK, sess' = [s \in Sessions |-> [sess[s] EXCEPT !.stamp = 0]]
  PROVE  sess' \in [Sessions -> Stored]
BY StoredChanges DEF TypeOK

(* Types, step by step.                                                    *)
LEMMA TypePreserved ==
  ASSUME TypeOK, [Next]_vars
  PROVE  TypeOK'
<1>1. CASE Start
  <2>1. ctl' \in Controls
    BY <1>1 DEF TypeOK, Start, Controls, Causes
  <2>2. step' \in Steps
    BY <1>1, NoStepTyped DEF TypeOK, Start, Steps, Stages
  <2> QED  BY <1>1, <2>1, <2>2, RecoveryAssumption DEF TypeOK, Start
<1>2. CASE ThrowFatal
  <2>1. /\ ctl' \in Controls /\ link' \in Links /\ step' \in Steps
        /\ held' \in Seq(Events) /\ Len(held') <= Limit
    BY <1>2, StopTyped DEF ThrowFatal, Causes
  <2> QED  BY <1>2, <2>1, RecoveryAssumption DEF TypeOK, ThrowFatal, Stop
<1>3. CASE BeginCleanup
  <2>1. ctl' \in Controls
    BY <1>3 DEF TypeOK, BeginCleanup, Controls, Causes
  <2>2. step' \in Steps
    BY <1>3, NoStepTyped DEF TypeOK, BeginCleanup, Steps, Stages
  <2> QED  BY <1>3, <2>1, <2>2, RecoveryAssumption DEF TypeOK, BeginCleanup
<1>4. CASE Continue
  <2>1. ctl' \in Controls
    BY <1>4 DEF TypeOK, Continue, Controls, Causes
  <2> QED  BY <1>4, <2>1, RecoveryAssumption DEF TypeOK, Continue
<1>5. CASE Backoff
  <2>1. ctl' \in Controls
    BY <1>5 DEF TypeOK, Backoff, Controls, Causes
  <2>2. step' \in Steps
    BY <1>5, NoStepTyped DEF TypeOK, Backoff, Steps, Stages
  <2>3. sess' \in [Sessions -> Stored]
    BY <1>5, RestampTyped DEF TypeOK, Backoff, Stored
  <2> QED  BY <1>5, <2>1, <2>2, <2>3, RecoveryAssumption DEF TypeOK, Backoff
<1>6. CASE Dial
  <2>1. link' \in Links
    BY <1>6 DEF TypeOK, Dial, Links
  <2>2. pipe' \in Pipes
    BY <1>6 DEF TypeOK, Dial, Pipes
  <2>3. step' \in Steps
    BY <1>6 DEF TypeOK, Dial, Steps, Stages
  <2> QED  BY <1>6, <2>1, <2>2, <2>3, RecoveryAssumption DEF TypeOK, Dial
<1>7. CASE Handshake
  <2>1. ctl' \in Controls
    BY <1>7 DEF TypeOK, Handshake, Controls, Causes
  <2>2. step' \in Steps
    BY <1>7, NoStepTyped DEF TypeOK, Handshake, Steps, Stages
  <2> QED  BY <1>7, <2>1, <2>2, RecoveryAssumption DEF TypeOK, Handshake
<1>8. CASE Arm
  <2>1. ctl' \in Controls
    BY <1>8 DEF TypeOK, Arm, Controls, Causes
  <2> QED  BY <1>8, <2>1, RecoveryAssumption DEF TypeOK, Arm
<1>9. CASE PrepareGap
  <2>1. ctl' \in Controls
    BY <1>9 DEF TypeOK, PrepareGap, Controls, Causes
  <2>2. step' \in Steps
    BY <1>9 DEF TypeOK, PrepareGap, Listed, Steps, Stages
  <2> QED  BY <1>9, <2>1, <2>2, RecoveryAssumption DEF TypeOK, PrepareGap
<1>10. CASE CleanupDone
  <2>1. ctl' \in Controls
    BY <1>10 DEF TypeOK, CleanupDone, Links, Controls, Causes
  <2>2. life' \in Lives
    BY <1>10 DEF TypeOK, CleanupDone, Lives
  <2>3. step' \in Steps
    BY <1>10, NoStepTyped DEF TypeOK, CleanupDone, Steps, Stages
  <2> QED  BY <1>10, <2>1, <2>2, <2>3, RecoveryAssumption DEF TypeOK, CleanupDone
<1>11. CASE Observe
  <2>1. step' \in Steps
    BY <1>11 DEF TypeOK, Observe, Listed, Steps, Stages
  <2> DEFINE e == [kind |-> "fence", gen |-> link.gen]
  <2>2. e \in Entries
    BY DEF Entries, Fences, TypeOK, Links
  <2>3. pipe' = [pipe EXCEPT !.queue = Append(@, e)]
    BY <1>11 DEF Observe
  <2> HIDE DEF e
  <2>4. pipe' \in Pipes
    BY <2>2, <2>3, EntryJoins DEF TypeOK, Pipes
  <2> QED  BY <1>11, <2>1, <2>4 DEF TypeOK, Observe
<1>12. CASE EventsRefuse
  <2>1. /\ ctl' \in Controls /\ link' \in Links /\ step' \in Steps
        /\ held' \in Seq(Events) /\ Len(held') <= Limit
    BY <1>12, StopTyped DEF EventsRefuse, FailStep, Causes
  <2>2. life' \in Lives
    BY <1>12 DEF TypeOK, EventsRefuse, FailStep, Lives
  <2> QED  BY <1>12, <2>1, <2>2, RecoveryAssumption DEF TypeOK, EventsRefuse, FailStep, Stop
<1>13. CASE ReconcileDone
  <2>1. life' \in Lives
    BY <1>13 DEF TypeOK, ReconcileDone, Links, Lives
  <2>2. ctl' \in Controls
    BY <1>13 DEF TypeOK, ReconcileDone, Controls, Causes
  <2>3. step' \in Steps
    BY <1>13 DEF TypeOK, ReconcileDone, Recoverable, Listed, Steps, Stages
  <2> QED  BY <1>13, <2>1, <2>2, <2>3, RecoveryAssumption DEF TypeOK, ReconcileDone
<1>14. CASE ResubscribeDone
  <2>1. life' \in Lives
    BY <1>14 DEF TypeOK, ResubscribeDone, Lives
  <2>2. pipe' \in Pipes
    BY <1>14, ConsumedPrefix DEF TypeOK, ResubscribeDone, Pipes
  <2>3. held' \in Seq(Events)
    BY <1>14 DEF TypeOK, ResubscribeDone
  <2>4. ctl' \in Controls
    BY <1>14 DEF TypeOK, ResubscribeDone, Links, Controls, Causes
  <2>5. step' \in Steps
    BY <1>14 DEF TypeOK, ResubscribeDone, Steps, Stages
  <2> QED  BY <1>14, <2>1, <2>2, <2>3, <2>4, <2>5, RecoveryAssumption DEF TypeOK, ResubscribeDone
<1>15. CASE Barrier
  <2>1. step' \in Steps
    BY <1>15 DEF TypeOK, Barrier, Steps, Stages
  <2> QED  BY <1>15, <2>1, RecoveryAssumption DEF TypeOK, Barrier
<1>16. CASE ReadyDone
  <2>1. life' \in Lives
    BY <1>16 DEF TypeOK, ReadyDone, Lives
  <2>2. ctl' \in Controls
    BY <1>16 DEF TypeOK, ReadyDone, Links, Controls, Causes
  <2>3. step' \in Steps
    BY <1>16, NoStepTyped DEF TypeOK, ReadyDone, Steps, Stages
  <2> QED  BY <1>16, <2>1, <2>2, <2>3, RecoveryAssumption DEF TypeOK, ReadyDone
<1>17. CASE SealStartupUnavailable
  <2>1. life' \in Lives
    BY <1>17 DEF TypeOK, SealStartupUnavailable, Lives
  <2>2. ASSUME NEW s \in Sessions
        PROVE  [sess[s] EXCEPT !.fresh = "disconnected", !.stamp = 2] \in Stored
    BY StoredChanges DEF TypeOK
  <2>3. sess' \in [Sessions -> Stored]
    <3> DEFINE M(s) == [sess[s] EXCEPT !.fresh = "disconnected", !.stamp = 2]
    <3>1. sess' = [s \in Sessions |-> IF s \in Listed THEN M(s) ELSE sess[s]]
      BY <1>17 DEF SealStartupUnavailable
    <3>2. \A s \in Sessions : M(s) \in Stored /\ sess[s] \in Stored
      BY <2>2 DEF TypeOK
    <3> HIDE DEF M
    <3> QED  BY <3>1, <3>2
  <2>4. clock' = 2 /\ UNCHANGED <<ctl, link, held, step, pipe, budget>>
    BY <1>17 DEF SealStartupUnavailable
  <2> QED  BY <2>1, <2>3, <2>4 DEF TypeOK
<1>18. ASSUME NEW s \in Sessions, Mark(s) PROVE TypeOK'
  <2>1. sess' \in [Sessions -> Stored]
    <3> DEFINE t == StampAfter(sess[s].stamp)
               r == [sess[s] EXCEPT !.fresh = "disconnected", !.stamp = t]
    <3>1. Write(s, r)
      BY <1>18 DEF Mark
    <3>2. sess[s] \in Stored /\ sess[s].stamp \in 0..2
      BY DEF TypeOK, Stored
    <3>3. t \in 0..2
      BY <3>2, ClockTyped
    <3> HIDE DEF t
    <3>4. r \in Stored
      BY <3>2, <3>3, RowRestamped
    <3> QED  BY <3>1, <3>4, WriteTyped
  <2>2. clock' \in 0..2
    BY <1>18, ClockTyped DEF TypeOK, Mark
  <2>3. step' \in Steps
    BY <1>18 DEF TypeOK, Mark, Steps, Stages
  <2> QED  BY <1>18, <2>1, <2>2, <2>3, RecoveryAssumption DEF TypeOK, Mark
<1>19. ASSUME NEW s \in Sessions, CommitBoundary(s) PROVE TypeOK'
  <2> DEFINE o == step.outcome[s]
             twice == o = "archived" \/ sess[s].selected # (o # "recovery")
             t == IF twice THEN 2 ELSE StampAfter(sess[s].stamp)
             r == [sess[s] EXCEPT !.fresh = FreshOf(o), !.archived = (o = "archived"),
                     !.selected = (o # "recovery"), !.fence = link.gen, !.since = {},
                     !.stamp = t]
  <2>1. Write(s, r) /\ clock' \in 0..2
    BY <1>19, ClockTyped DEF CommitBoundary
  <2>2. t \in 0..2
    BY ClockTyped DEF TypeOK, Stored
  <2>3. FreshOf(o) \in {"current", "disconnected", "resubscribe", "other"} /\ link.gen \in Nat
    BY DEF FreshOf, TypeOK, Links
  <2> HIDE DEF o, t
  <2>4. r \in Stored
    BY <2>2, <2>3 DEF TypeOK, Stored
  <2>5. sess' \in [Sessions -> Stored]
    BY <2>1, <2>4, WriteTyped
  <2>6. step' \in Steps
    BY <1>19 DEF TypeOK, CommitBoundary, Steps
  <2> QED  BY <1>19, <2>1, <2>5, <2>6 DEF TypeOK, CommitBoundary
<1>20. ASSUME NEW s \in Sessions, Resume(s) PROVE TypeOK'
  <2>1. sess' \in [Sessions -> Stored]
    <3> DEFINE t == StampAfter(sess[s].stamp)
               r == [sess[s] EXCEPT !.stamp = t]
    <3>1. Write(s, r)
      BY <1>20 DEF Resume
    <3>2. sess[s] \in Stored /\ sess[s].stamp \in 0..2
      BY DEF TypeOK, Stored
    <3>3. t \in 0..2
      BY <3>2, ClockTyped
    <3> HIDE DEF t
    <3>4. r \in Stored
      BY <3>2, <3>3, RowRestamped
    <3> QED  BY <3>1, <3>4, WriteTyped
  <2>2. clock' \in 0..2
    BY <1>20, ClockTyped DEF TypeOK, Resume
  <2>3. step' \in Steps
    BY <1>20 DEF TypeOK, Resume, Steps, Stages
  <2> QED  BY <1>20, <2>1, <2>2, <2>3, RecoveryAssumption DEF TypeOK, Resume
<1>21. ASSUME NEW s \in Sessions, Publish(s) PROVE TypeOK'
  <2>1. sess' \in [Sessions -> Stored]
    <3> DEFINE t == StampAfter(sess[s].stamp)
               r == [sess[s] EXCEPT !.fresh = "current", !.stamp = t]
    <3>1. Write(s, r)
      BY <1>21 DEF Publish
    <3>2. sess[s] \in Stored /\ sess[s].stamp \in 0..2
      BY DEF TypeOK, Stored
    <3>3. t \in 0..2
      BY <3>2, ClockTyped
    <3> HIDE DEF t
    <3>4. r \in Stored
      BY <3>2, <3>3, RowRestamped
    <3> QED  BY <3>1, <3>4, WriteTyped
  <2>2. clock' \in 0..2
    BY <1>21, ClockTyped DEF TypeOK, Publish
  <2>3. step' \in Steps
    BY <1>21 DEF TypeOK, Publish, Steps, Stages
  <2> QED  BY <1>21, <2>1, <2>2, <2>3, RecoveryAssumption DEF TypeOK, Publish
<1>22. CASE PipeEvent
  <2>1. Head(pipe.queue) \in Events
    BY <1>22, TailTaken DEF PipeEvent, Entries, Fences, Removals
  <2> DEFINE e == Head(pipe.queue)
             done == [pipe EXCEPT !.queue = Tail(@), !.got = IF e.gen = link.gen THEN e.n ELSE @]
             r == [sess[e.s] EXCEPT !.since = @ \cup {e.gen}, !.stamp = 1,
                     !.fresh = IF e.effect = "trouble" THEN "other" ELSE sess[e.s].fresh]
  <2>2. /\ pipe' = done \/ pipe' = [done EXCEPT !.stopped = TRUE]
        /\ UNCHANGED sess \/ Write(e.s, r)
    BY <1>22 DEF PipeEvent
  <2>3. e.s \in Sessions /\ e.gen \in Nat /\ e.n \in Nat
    BY <2>1 DEF Events
  <2> HIDE DEF e
  <2>4. pipe' \in Pipes
    BY <1>22, <2>2, <2>3, TailTaken DEF TypeOK, Pipes, PipeEvent
  <2>5. r \in Stored
    <3>1. sess[e.s] \in Stored
      BY <2>3 DEF TypeOK
    <3> QED  BY <2>3, <3>1, StoredChanges
  <2> HIDE DEF r
  <2>6. sess' \in [Sessions -> Stored]
    BY <2>2, <2>3, <2>5, WriteTyped DEF TypeOK
  <2> QED  BY <1>22, <2>4, <2>6 DEF TypeOK, PipeEvent
<1>23. CASE PipeFence
  <2>1. pipe' \in Pipes
    <3>1. PICK b \in BOOLEAN : pipe' = [pipe EXCEPT !.queue = Tail(@), !.stopped = b]
      BY <1>23 DEF PipeFence, TypeOK, Pipes
    <3> QED  BY <1>23, <3>1, TailTaken DEF PipeFence, TypeOK, Pipes
  <2>2. step' \in Steps
    BY <1>23 DEF TypeOK, PipeFence, Steps, Stages
  <2> QED  BY <1>23, <2>1, <2>2 DEF TypeOK, PipeFence
<1>24. CASE PipeUnmanage
  <2>1. pipe' \in Pipes
    BY <1>24, TailTaken DEF TypeOK, PipeUnmanage, Pipes
  <2>2. PICK b \in BOOLEAN : sess' = [sess EXCEPT ![Head(pipe.queue).s].asked = "no",
                                                 ![Head(pipe.queue).s].here = b]
    BY <1>24 DEF PipeUnmanage, TypeOK, Pipes, Stored
  <2>3. sess' \in [Sessions -> Stored]
    <3> DEFINE s == Head(pipe.queue).s
               r == [sess[s] EXCEPT !.asked = "no", !.here = b]
    <3>1. Head(pipe.queue) \in Removals
      BY <1>24, TailTaken DEF PipeUnmanage, Entries, Fences, Events
    <3>2. s \in Sessions /\ sess[s] \in Stored
      BY <3>1 DEF TypeOK, Removals
    <3>3. r \in Stored
      BY <3>2, StoredChanges
    <3>4. sess' = [sess EXCEPT ![s] = r]
      BY <2>2, <3>2 DEF TypeOK
    <3> HIDE DEF r, s
    <3> QED  BY <3>2, <3>3, <3>4 DEF TypeOK
  <2> QED  BY <1>24, <2>1, <2>3 DEF TypeOK, PipeUnmanage
<1>25. CASE Tick
  <2>1. sess' \in [Sessions -> Stored]
    BY <1>25, RestampTyped DEF TypeOK, Tick, Stored
  <2> QED  BY <1>25, <2>1, RecoveryAssumption DEF TypeOK, Tick
<1>26. CASE Lose
  <2>1. budget' \in Budgets
    BY <1>26, SpendTyped DEF TypeOK, Lose, Budgets
  <2>2. link' \in Links
    BY <1>26 DEF TypeOK, Lose, Links
  <2>3. ctl' \in Controls
    BY <1>26 DEF TypeOK, Lose, Links, Controls, Causes
  <2>4. life' \in Lives
    BY <1>26 DEF TypeOK, Lose, Lives
  <2>5. step' \in Steps
    BY <1>26, NoStepTyped DEF TypeOK, Lose, Steps, Stages
  <2> QED  BY <1>26, <2>1, <2>2, <2>3, <2>4, <2>5, RecoveryAssumption DEF TypeOK, Lose
<1>27. CASE Incompatible
  <2>1. /\ ctl' \in Controls /\ link' \in Links /\ step' \in Steps
        /\ held' \in Seq(Events) /\ Len(held') <= Limit
    BY <1>27, StopTyped DEF Incompatible, Causes
  <2>2. budget' \in Budgets
    BY <1>27, SpendTyped DEF TypeOK, Incompatible, Budgets
  <2> QED  BY <1>27, <2>1, <2>2, RecoveryAssumption DEF TypeOK, Incompatible, Stop
<1>28. CASE ProtocolIssue
  <2>1. ctl' \in Controls /\ life' \in Lives /\ step' \in Steps
    BY <1>28, FatalTyped DEF ProtocolIssue
  <2>2. budget' \in Budgets
    BY <1>28, SpendTyped DEF TypeOK, ProtocolIssue, Budgets
  <2> QED  BY <1>28, <2>1, <2>2, RecoveryAssumption DEF TypeOK, ProtocolIssue, Fatal
<1>29. CASE Notify
  <2>1. PICK s \in Sessions, effect \in {"plain", "trouble"} :
          LET ev == [kind |-> "event", s |-> s, gen |-> link.gen, n |-> link.sent + 1,
                     effect |-> effect]
          IN  /\ link' = [link EXCEPT !.sent = @ + 1]
              /\ \/ /\ Direct
                    /\ pipe' = Consumed(pipe, <<ev>>)
                    /\ UNCHANGED <<ctl, held, life, step>>
                 \/ /\ ~Direct /\ ~HeldFull
                    /\ held' = Append(held, ev)
                    /\ UNCHANGED <<ctl, life, step, pipe>>
                 \/ /\ ~Direct /\ HeldFull
                    /\ Fatal
                    /\ UNCHANGED <<held, pipe>>
    BY <1>29 DEF Notify
  <2> DEFINE ev == [kind |-> "event", s |-> s, gen |-> link.gen, n |-> link.sent + 1,
                    effect |-> effect]
  <2>2. ev \in Events /\ link' \in Links
    BY <2>1 DEF TypeOK, Links, Events
  <2>3. budget' \in Budgets /\ UNCHANGED <<sess, clock>>
    BY <1>29, SpendTyped DEF Notify
  <2> HIDE DEF ev
  <2>4. CASE pipe' = Consumed(pipe, <<ev>>) /\ UNCHANGED <<ctl, held, life, step>>
    <3>1. <<ev>> \in Seq(Events)
      BY <2>2
    <3>2. pipe' \in Pipes
      BY <2>4, <3>1, ConsumedPrefix
    <3> QED  BY <2>2, <2>3, <2>4, <3>2 DEF TypeOK
  <2>5. CASE ~HeldFull /\ held' = Append(held, ev) /\ UNCHANGED <<ctl, life, step, pipe>>
    <3>1. held' \in Seq(Events) /\ Len(held') <= Limit
      BY <2>2, <2>5, RecoveryAssumption DEF TypeOK, HeldFull
    <3> QED  BY <2>2, <2>3, <2>5, <3>1 DEF TypeOK
  <2>6. CASE Fatal /\ UNCHANGED <<held, pipe>>
    BY <2>2, <2>3, <2>6, FatalTyped DEF TypeOK
  <2> QED  BY <2>1, <2>4, <2>5, <2>6 DEF ev
<1>30. ASSUME NEW s \in Sessions, AskUnmanage(s) PROVE TypeOK'
  <2>1. budget' \in Budgets
    BY <1>30, SpendTyped DEF TypeOK, AskUnmanage, Budgets
  <2>2. sess' \in [Sessions -> Stored]
    <3>1. [sess[s] EXCEPT !.asked = "asked"] \in Stored
      BY RowAsked DEF TypeOK
    <3>2. sess' = [sess EXCEPT ![s] = [sess[s] EXCEPT !.asked = "asked"]]
      BY <1>30 DEF AskUnmanage
    <3> QED  BY <3>1, <3>2 DEF TypeOK
  <2>3. UNCHANGED <<ctl, link, held, life, step, pipe, clock>>
    BY <1>30 DEF AskUnmanage
  <2> QED  BY <2>1, <2>2, <2>3 DEF TypeOK
<1>31. ASSUME NEW s \in Sessions, QueueUnmanage(s) PROVE TypeOK'
  <2>1. sess' \in [Sessions -> Stored]
    <3>1. [sess[s] EXCEPT !.asked = "valid"] \in Stored
      BY RowAsked DEF TypeOK
    <3>2. sess' = [sess EXCEPT ![s] = [sess[s] EXCEPT !.asked = "valid"]]
      BY <1>31 DEF QueueUnmanage
    <3> QED  BY <3>1, <3>2 DEF TypeOK
  <2> DEFINE e == [kind |-> "unmanage", s |-> s]
  <2>2. e \in Entries
    BY DEF Entries, Removals
  <2>3. pipe' = [pipe EXCEPT !.queue = Append(@, e)]
    BY <1>31 DEF QueueUnmanage
  <2> HIDE DEF e
  <2>4. pipe' \in Pipes
    BY <2>2, <2>3, EntryJoins DEF TypeOK, Pipes
  <2> QED  BY <1>31, <2>1, <2>4 DEF TypeOK, QueueUnmanage
<1>32. CASE ConnectRefused
  <2>1. budget' \in Budgets
    BY <1>32, SpendTyped DEF TypeOK, ConnectRefused, Budgets
  <2>2. ctl' \in Controls
    BY <1>32 DEF TypeOK, ConnectRefused, Controls, Causes
  <2>3. step' \in Steps
    BY <1>32, NoStepTyped DEF TypeOK, ConnectRefused, Steps, Stages
  <2> QED  BY <1>32, <2>1, <2>2, <2>3, RecoveryAssumption DEF TypeOK, ConnectRefused
<1>33. CASE CleanupFails
  <2>1. budget' \in Budgets
    BY <1>33, SpendTyped DEF TypeOK, CleanupFails, Budgets
  <2>2. ctl' \in Controls
    BY <1>33 DEF TypeOK, CleanupFails, Controls, Causes
  <2>3. life' \in Lives
    BY <1>33 DEF TypeOK, CleanupFails, Lives
  <2>4. step' \in Steps
    BY <1>33, NoStepTyped DEF TypeOK, CleanupFails, Steps, Stages
  <2> QED  BY <1>33, <2>1, <2>2, <2>3, <2>4, RecoveryAssumption DEF TypeOK, CleanupFails
<1>34. CASE StepFails
  <2>1. /\ ctl' \in Controls /\ link' \in Links /\ step' \in Steps
        /\ held' \in Seq(Events) /\ Len(held') <= Limit
    BY <1>34, StopTyped DEF StepFails, FailStep, Causes
  <2>2. budget' \in Budgets
    BY <1>34, SpendTyped DEF TypeOK, StepFails, FailStep, Budgets
  <2>3. life' \in Lives
    BY <1>34 DEF TypeOK, StepFails, FailStep, Lives
  <2> QED  BY <1>34, <2>1, <2>2, <2>3, RecoveryAssumption DEF TypeOK, StepFails, FailStep, Stop
<1>35. CASE UNCHANGED vars
  BY <1>35 DEF TypeOK, vars
<1> QED
  BY <1>1, <1>2, <1>3, <1>4, <1>5, <1>6, <1>7, <1>8, <1>9, <1>10, <1>11, <1>12,
     <1>13, <1>14, <1>15, <1>16, <1>17, <1>18, <1>19, <1>20, <1>21, <1>22, <1>23,
     <1>24, <1>25, <1>26, <1>27, <1>28, <1>29, <1>30, <1>31, <1>32, <1>33, <1>34,
     <1>35
     DEF Next, ControllerStep, LifecycleStep, PipelineStep, Surroundings

(* What an untrusted stream leaves of the loop, field by field.            *)
LEMMA FatalFields ==
  ASSUME TypeOK, Fatal
  PROVE  /\ ctl'.fatal /\ ctl'.admitted = 0 /\ ctl'.ending = ctl.ending
         /\ ctl'.cause = ctl.cause /\ ctl'.direct = ctl.direct
         /\ ctl'.lossPending = ctl.lossPending /\ ctl'.lossDone = ctl.lossDone
         /\ ctl'.at = IF ctl.at \in Cycle \cup {"connecting", "waiting"} THEN "loop" ELSE ctl.at
         /\ ctl.at = "cleanup" => step' = step
         /\ ctl.at # "cleanup" => step' = NoStep /\ step'.stage = "none"
<1>1. /\ ctl'.fatal /\ ctl'.admitted = 0 /\ ctl'.ending = ctl.ending
      /\ ctl'.cause = ctl.cause /\ ctl'.direct = ctl.direct
      /\ ctl'.lossPending = ctl.lossPending /\ ctl'.lossDone = ctl.lossDone
  BY DEF Fatal, TypeOK, Controls
<1>2. ctl'.at = IF ctl.at \in Cycle \cup {"connecting", "waiting"} THEN "loop" ELSE ctl.at
  BY DEF Fatal, TypeOK, Controls
<1>3. /\ ctl.at = "cleanup" => step' = step
      /\ ctl.at # "cleanup" => step' = NoStep /\ step'.stage = "none"
  BY DEF Fatal, NoStep
<1> QED
  BY <1>1, <1>2, <1>3

(* Every step keeps the controller and the connection in step.             *)
LEMMA LossInPlaceKept ==
  ASSUME TypeOK, InPlace, [Next]_vars
  PROVE  LossInPlace'
<1>1. CASE SealStartupUnavailable \/ PipeEvent \/ PipeUnmanage \/ Tick \/ UNCHANGED vars \/ (\E
          s \in Sessions : Mark(s) \/ CommitBoundary(s) \/ Resume(s) \/ Publish(s)
          \/ AskUnmanage(s) \/ QueueUnmanage(s))
  <2>1. UNCHANGED <<ctl, link, held>> /\ step'.stage = step.stage
    BY <1>1
    DEF SealStartupUnavailable, Mark, CommitBoundary, Resume, Publish, PipeEvent,
       PipeUnmanage, Tick, AskUnmanage, QueueUnmanage, vars, TypeOK, Steps
  <2> QED  BY <2>1 DEF InPlace, LossInPlace
<1>2. CASE Start
  BY <1>2 DEF Start, NoStep, InPlace, LossInPlace, EndingInPlace, PassingInPlace,
     TypeOK, Controls, Links, Steps, Cycle
<1>3. CASE ThrowFatal
  BY <1>3 DEF ThrowFatal, Stop, NoStep, InPlace, LossInPlace, EndingInPlace,
     PassingInPlace, TypeOK, Controls, Links, Steps, Cycle
<1>4. CASE BeginCleanup
  BY <1>4 DEF BeginCleanup, NoStep, LossToRecord, InPlace, LossInPlace, EndingInPlace,
     PassingInPlace, TypeOK, Controls, Links, Steps, Cycle
<1>5. CASE Continue
  BY <1>5 DEF Continue, LossToRecord, InPlace, LossInPlace, EndingInPlace,
     PassingInPlace, TypeOK, Controls, Links, Steps, Cycle
<1>6. CASE Backoff
  BY <1>6 DEF Backoff, NoStep, InPlace, LossInPlace, EndingInPlace, PassingInPlace,
     TypeOK, Controls, Links, Steps, Cycle
<1>7. CASE Dial
  BY <1>7 DEF Dial, Connecting, InPlace, LossInPlace, EndingInPlace, PassingInPlace,
     TypeOK, Controls, Links, Steps, Cycle
<1>8. CASE Handshake
  BY <1>8 DEF Handshake, Connecting, NoStep, InPlace, LossInPlace, EndingInPlace,
     PassingInPlace, TypeOK, Controls, Links, Steps, Cycle
<1>9. CASE Arm
  BY <1>9 DEF Arm, InPlace, LossInPlace, EndingInPlace, PassingInPlace, TypeOK,
     Controls, Links, Steps, Cycle
<1>10. CASE PrepareGap
  BY <1>10 DEF PrepareGap, At, InPlace, LossInPlace, EndingInPlace, PassingInPlace,
     TypeOK, Controls, Links, Steps, Cycle
<1>11. CASE CleanupDone
  BY <1>11 DEF CleanupDone, At, NoStep, InPlace, LossInPlace, EndingInPlace,
     PassingInPlace, TypeOK, Controls, Links, Steps, Cycle
<1>12. CASE Observe
  BY <1>12 DEF Observe, GapReady, At, InPlace, LossInPlace, EndingInPlace,
     PassingInPlace, TypeOK, Controls, Links, Steps, Cycle
<1>13. CASE EventsRefuse
  BY <1>13 DEF EventsRefuse, FailStep, Stop, NoStep, GapReady, At, InPlace, LossInPlace,
     EndingInPlace, PassingInPlace, TypeOK, Controls, Links, Steps, Cycle
<1>14. CASE ReconcileDone
  BY <1>14 DEF ReconcileDone, At, InPlace, LossInPlace, EndingInPlace, PassingInPlace,
     TypeOK, Controls, Links, Steps, Cycle
<1>15. CASE ResubscribeDone
  BY <1>15 DEF ResubscribeDone, At, InPlace, LossInPlace, EndingInPlace, PassingInPlace,
     TypeOK, Controls, Links, Steps, Cycle
<1>16. CASE Barrier
  BY <1>16 DEF Barrier, At, InPlace, LossInPlace, EndingInPlace, PassingInPlace, TypeOK,
     Controls, Links, Steps, Cycle
<1>17. CASE ReadyDone
  BY <1>17 DEF ReadyDone, At, NoStep, InPlace, LossInPlace, EndingInPlace,
     PassingInPlace, TypeOK, Controls, Links, Steps, Cycle
<1>18. CASE PipeFence
  BY <1>18 DEF PipeFence, InPlace, LossInPlace, EndingInPlace, PassingInPlace, TypeOK,
     Controls, Links, Steps, Cycle
<1>19. CASE Lose
  BY <1>19 DEF Lose, NoStep, InPlace, LossInPlace, EndingInPlace, PassingInPlace,
     TypeOK, Controls, Links, Steps, Cycle
<1>20. CASE Incompatible
  BY <1>20 DEF Incompatible, Stop, NoStep, Connecting, InPlace, LossInPlace,
     EndingInPlace, PassingInPlace, TypeOK, Controls, Links, Steps, Cycle
<1>21. CASE ProtocolIssue
  <2>1. Fatal /\ UNCHANGED <<link, held>>
    BY <1>21 DEF ProtocolIssue
  <2> QED  BY <1>21, <2>1, FatalFields
           DEF ProtocolIssue, InPlace, LossInPlace, EndingInPlace, PassingInPlace, Cycle
<1>22. CASE Notify
  <2>1. link'.gen = link.gen /\ link'.open = link.open /\ link.open /\ ~ctl.fatal /\ ~ctl.ending
    BY <1>22 DEF Notify, TypeOK, Links
  <2>2. \/ UNCHANGED <<ctl, held, step>>
        \/ ~Direct /\ UNCHANGED <<ctl, step>>
        \/ Fatal /\ UNCHANGED held
    BY <1>22 DEF Notify
  <2>3. CASE UNCHANGED <<ctl, step>>
    BY <2>1, <2>3 DEF InPlace, LossInPlace
  <2>4. CASE Fatal
    BY <2>1, <2>4, FatalFields DEF InPlace, LossInPlace, PassingInPlace, Cycle
  <2> QED  BY <2>2, <2>3, <2>4
<1>23. CASE ConnectRefused
  BY <1>23 DEF ConnectRefused, Connecting, NoStep, InPlace, LossInPlace, EndingInPlace,
     PassingInPlace, TypeOK, Controls, Links, Steps, Cycle
<1>24. CASE CleanupFails
  BY <1>24 DEF CleanupFails, NoStep, InPlace, LossInPlace, EndingInPlace,
     PassingInPlace, TypeOK, Controls, Links, Steps, Cycle
<1>25. CASE StepFails
  BY <1>25 DEF StepFails, FailStep, Stop, NoStep, InPlace, LossInPlace, EndingInPlace,
     PassingInPlace, TypeOK, Controls, Links, Steps, Cycle
<1> QED
  BY <1>1, <1>2, <1>3, <1>4, <1>5, <1>6, <1>7, <1>8, <1>9, <1>10, <1>11, <1>12, <1>13,
     <1>14, <1>15, <1>16, <1>17, <1>18, <1>19, <1>20, <1>21, <1>22, <1>23, <1>24, <1>25
     DEF Next, ControllerStep, LifecycleStep, PipelineStep, Surroundings

(* A controller that ends stays where it may only clean up.                *)
LEMMA EndingInPlaceKept ==
  ASSUME TypeOK, InPlace, [Next]_vars
  PROVE  EndingInPlace'
<1>1. CASE SealStartupUnavailable \/ PipeEvent \/ PipeUnmanage \/ Tick \/ UNCHANGED vars \/ (\E
          s \in Sessions : Mark(s) \/ CommitBoundary(s) \/ Resume(s) \/ Publish(s)
          \/ AskUnmanage(s) \/ QueueUnmanage(s))
  <2>1. UNCHANGED <<ctl, link, held>> /\ step'.stage = step.stage
    BY <1>1
    DEF SealStartupUnavailable, Mark, CommitBoundary, Resume, Publish, PipeEvent,
       PipeUnmanage, Tick, AskUnmanage, QueueUnmanage, vars, TypeOK, Steps
  <2> QED  BY <2>1 DEF InPlace, EndingInPlace
<1>2. CASE Start
  BY <1>2 DEF Start, NoStep, InPlace, LossInPlace, EndingInPlace, PassingInPlace,
     TypeOK, Controls, Links, Steps, Cycle
<1>3. CASE ThrowFatal
  BY <1>3 DEF ThrowFatal, Stop, NoStep, InPlace, LossInPlace, EndingInPlace,
     PassingInPlace, TypeOK, Controls, Links, Steps, Cycle
<1>4. CASE BeginCleanup
  BY <1>4 DEF BeginCleanup, NoStep, LossToRecord, InPlace, LossInPlace, EndingInPlace,
     PassingInPlace, TypeOK, Controls, Links, Steps, Cycle
<1>5. CASE Continue
  BY <1>5 DEF Continue, LossToRecord, InPlace, LossInPlace, EndingInPlace,
     PassingInPlace, TypeOK, Controls, Links, Steps, Cycle
<1>6. CASE Backoff
  BY <1>6 DEF Backoff, NoStep, InPlace, LossInPlace, EndingInPlace, PassingInPlace,
     TypeOK, Controls, Links, Steps, Cycle
<1>7. CASE Dial
  BY <1>7 DEF Dial, Connecting, InPlace, LossInPlace, EndingInPlace, PassingInPlace,
     TypeOK, Controls, Links, Steps, Cycle
<1>8. CASE Handshake
  BY <1>8 DEF Handshake, Connecting, NoStep, InPlace, LossInPlace, EndingInPlace,
     PassingInPlace, TypeOK, Controls, Links, Steps, Cycle
<1>9. CASE Arm
  BY <1>9 DEF Arm, InPlace, LossInPlace, EndingInPlace, PassingInPlace, TypeOK,
     Controls, Links, Steps, Cycle
<1>10. CASE PrepareGap
  BY <1>10 DEF PrepareGap, At, InPlace, LossInPlace, EndingInPlace, PassingInPlace,
     TypeOK, Controls, Links, Steps, Cycle
<1>11. CASE CleanupDone
  BY <1>11 DEF CleanupDone, At, NoStep, InPlace, LossInPlace, EndingInPlace,
     PassingInPlace, TypeOK, Controls, Links, Steps, Cycle
<1>12. CASE Observe
  BY <1>12 DEF Observe, GapReady, At, InPlace, LossInPlace, EndingInPlace,
     PassingInPlace, TypeOK, Controls, Links, Steps, Cycle
<1>13. CASE EventsRefuse
  BY <1>13 DEF EventsRefuse, FailStep, Stop, NoStep, GapReady, At, InPlace, LossInPlace,
     EndingInPlace, PassingInPlace, TypeOK, Controls, Links, Steps, Cycle
<1>14. CASE ReconcileDone
  BY <1>14 DEF ReconcileDone, At, InPlace, LossInPlace, EndingInPlace, PassingInPlace,
     TypeOK, Controls, Links, Steps, Cycle
<1>15. CASE ResubscribeDone
  BY <1>15 DEF ResubscribeDone, At, InPlace, LossInPlace, EndingInPlace, PassingInPlace,
     TypeOK, Controls, Links, Steps, Cycle
<1>16. CASE Barrier
  BY <1>16 DEF Barrier, At, InPlace, LossInPlace, EndingInPlace, PassingInPlace, TypeOK,
     Controls, Links, Steps, Cycle
<1>17. CASE ReadyDone
  BY <1>17 DEF ReadyDone, At, NoStep, InPlace, LossInPlace, EndingInPlace,
     PassingInPlace, TypeOK, Controls, Links, Steps, Cycle
<1>18. CASE PipeFence
  BY <1>18 DEF PipeFence, InPlace, LossInPlace, EndingInPlace, PassingInPlace, TypeOK,
     Controls, Links, Steps, Cycle
<1>19. CASE Lose
  BY <1>19 DEF Lose, NoStep, InPlace, LossInPlace, EndingInPlace, PassingInPlace,
     TypeOK, Controls, Links, Steps, Cycle
<1>20. CASE Incompatible
  BY <1>20 DEF Incompatible, Stop, NoStep, Connecting, InPlace, LossInPlace,
     EndingInPlace, PassingInPlace, TypeOK, Controls, Links, Steps, Cycle
<1>21. CASE ProtocolIssue
  <2>1. Fatal /\ UNCHANGED <<link, held>>
    BY <1>21 DEF ProtocolIssue
  <2>2. ctl.at \in {"idle", "loop", "cleanup", "backoff", "connecting", "reconcile",
                    "resubscribe", "ready", "arming", "waiting", "ended"}
    BY DEF TypeOK, Controls
  <2>3. ~ctl.ending /\ ctl.cause # "cleanup" /\ ctl.at \notin {"idle", "backoff"}
    BY <1>21 DEF ProtocolIssue, InPlace, LossInPlace, EndingInPlace
  <2> QED  BY <2>1, <2>2, <2>3, FatalFields DEF EndingInPlace, Cycle
<1>22. CASE Notify
  <2>1. link'.gen = link.gen /\ link'.open = link.open /\ link.open /\ ~ctl.fatal /\ ~ctl.ending
    BY <1>22 DEF Notify, TypeOK, Links
  <2>2. \/ UNCHANGED <<ctl, held, step>>
        \/ ~Direct /\ UNCHANGED <<ctl, step>>
        \/ Fatal /\ UNCHANGED held
    BY <1>22 DEF Notify
  <2>3. CASE UNCHANGED <<ctl, step>>
    BY <2>1, <2>3 DEF InPlace, EndingInPlace
  <2>4. CASE Fatal
    <3>1. ctl.at \in {"idle", "loop", "cleanup", "backoff", "connecting", "reconcile",
                      "resubscribe", "ready", "arming", "waiting", "ended"}
      BY DEF TypeOK, Controls
    <3>2. ctl.cause # "cleanup" /\ ctl.at \notin {"idle", "backoff"}
      BY <2>1 DEF InPlace, LossInPlace, EndingInPlace
    <3> QED  BY <2>1, <2>4, <3>1, <3>2, FatalFields DEF EndingInPlace, Cycle
  <2> QED  BY <2>2, <2>3, <2>4
<1>23. CASE ConnectRefused
  BY <1>23 DEF ConnectRefused, Connecting, NoStep, InPlace, LossInPlace, EndingInPlace,
     PassingInPlace, TypeOK, Controls, Links, Steps, Cycle
<1>24. CASE CleanupFails
  BY <1>24 DEF CleanupFails, NoStep, InPlace, LossInPlace, EndingInPlace,
     PassingInPlace, TypeOK, Controls, Links, Steps, Cycle
<1>25. CASE StepFails
  BY <1>25 DEF StepFails, FailStep, Stop, NoStep, InPlace, LossInPlace, EndingInPlace,
     PassingInPlace, TypeOK, Controls, Links, Steps, Cycle
<1> QED
  BY <1>1, <1>2, <1>3, <1>4, <1>5, <1>6, <1>7, <1>8, <1>9, <1>10, <1>11, <1>12, <1>13,
     <1>14, <1>15, <1>16, <1>17, <1>18, <1>19, <1>20, <1>21, <1>22, <1>23, <1>24, <1>25
     DEF Next, ControllerStep, LifecycleStep, PipelineStep, Surroundings

(* What passes, and what is held, stays with the open connection.          *)
LEMMA PassingInPlaceKept ==
  ASSUME TypeOK, InPlace, [Next]_vars
  PROVE  PassingInPlace'
<1>1. CASE SealStartupUnavailable \/ PipeEvent \/ PipeUnmanage \/ Tick \/ UNCHANGED vars \/ (\E
          s \in Sessions : Mark(s) \/ CommitBoundary(s) \/ Resume(s) \/ Publish(s)
          \/ AskUnmanage(s) \/ QueueUnmanage(s))
  <2>1. UNCHANGED <<ctl, link, held>> /\ step'.stage = step.stage
    BY <1>1
    DEF SealStartupUnavailable, Mark, CommitBoundary, Resume, Publish, PipeEvent,
       PipeUnmanage, Tick, AskUnmanage, QueueUnmanage, vars, TypeOK, Steps
  <2> QED  BY <2>1 DEF InPlace, PassingInPlace
<1>2. CASE Start
  BY <1>2 DEF Start, NoStep, InPlace, LossInPlace, EndingInPlace, PassingInPlace,
     TypeOK, Controls, Links, Steps, Cycle
<1>3. CASE ThrowFatal
  BY <1>3 DEF ThrowFatal, Stop, NoStep, InPlace, LossInPlace, EndingInPlace,
     PassingInPlace, TypeOK, Controls, Links, Steps, Cycle
<1>4. CASE BeginCleanup
  BY <1>4 DEF BeginCleanup, NoStep, LossToRecord, InPlace, LossInPlace, EndingInPlace,
     PassingInPlace, TypeOK, Controls, Links, Steps, Cycle
<1>5. CASE Continue
  BY <1>5 DEF Continue, LossToRecord, InPlace, LossInPlace, EndingInPlace,
     PassingInPlace, TypeOK, Controls, Links, Steps, Cycle
<1>6. CASE Backoff
  BY <1>6 DEF Backoff, NoStep, InPlace, LossInPlace, EndingInPlace, PassingInPlace,
     TypeOK, Controls, Links, Steps, Cycle
<1>7. CASE Dial
  BY <1>7 DEF Dial, Connecting, InPlace, LossInPlace, EndingInPlace, PassingInPlace,
     TypeOK, Controls, Links, Steps, Cycle
<1>8. CASE Handshake
  BY <1>8 DEF Handshake, Connecting, NoStep, InPlace, LossInPlace, EndingInPlace,
     PassingInPlace, TypeOK, Controls, Links, Steps, Cycle
<1>9. CASE Arm
  BY <1>9 DEF Arm, InPlace, LossInPlace, EndingInPlace, PassingInPlace, TypeOK,
     Controls, Links, Steps, Cycle
<1>10. CASE PrepareGap
  BY <1>10 DEF PrepareGap, At, InPlace, LossInPlace, EndingInPlace, PassingInPlace,
     TypeOK, Controls, Links, Steps, Cycle
<1>11. CASE CleanupDone
  BY <1>11 DEF CleanupDone, At, NoStep, InPlace, LossInPlace, EndingInPlace,
     PassingInPlace, TypeOK, Controls, Links, Steps, Cycle
<1>12. CASE Observe
  BY <1>12 DEF Observe, GapReady, At, InPlace, LossInPlace, EndingInPlace,
     PassingInPlace, TypeOK, Controls, Links, Steps, Cycle
<1>13. CASE EventsRefuse
  BY <1>13 DEF EventsRefuse, FailStep, Stop, NoStep, GapReady, At, InPlace, LossInPlace,
     EndingInPlace, PassingInPlace, TypeOK, Controls, Links, Steps, Cycle
<1>14. CASE ReconcileDone
  BY <1>14 DEF ReconcileDone, At, InPlace, LossInPlace, EndingInPlace, PassingInPlace,
     TypeOK, Controls, Links, Steps, Cycle
<1>15. CASE ResubscribeDone
  BY <1>15 DEF ResubscribeDone, At, InPlace, LossInPlace, EndingInPlace, PassingInPlace,
     TypeOK, Controls, Links, Steps, Cycle
<1>16. CASE Barrier
  BY <1>16 DEF Barrier, At, InPlace, LossInPlace, EndingInPlace, PassingInPlace, TypeOK,
     Controls, Links, Steps, Cycle
<1>17. CASE ReadyDone
  BY <1>17 DEF ReadyDone, At, NoStep, InPlace, LossInPlace, EndingInPlace,
     PassingInPlace, TypeOK, Controls, Links, Steps, Cycle
<1>18. CASE PipeFence
  BY <1>18 DEF PipeFence, InPlace, LossInPlace, EndingInPlace, PassingInPlace, TypeOK,
     Controls, Links, Steps, Cycle
<1>19. CASE Lose
  BY <1>19 DEF Lose, NoStep, InPlace, LossInPlace, EndingInPlace, PassingInPlace,
     TypeOK, Controls, Links, Steps, Cycle
<1>20. CASE Incompatible
  BY <1>20 DEF Incompatible, Stop, NoStep, Connecting, InPlace, LossInPlace,
     EndingInPlace, PassingInPlace, TypeOK, Controls, Links, Steps, Cycle
<1>21. CASE ProtocolIssue
  <2>1. Fatal /\ UNCHANGED <<link, held>>
    BY <1>21 DEF ProtocolIssue
  <2> QED  BY <1>21, <2>1, FatalFields
           DEF ProtocolIssue, InPlace, LossInPlace, EndingInPlace, PassingInPlace, Cycle
<1>22. CASE Notify
  <2>1. link'.gen = link.gen /\ link'.open = link.open /\ link.open /\ ~ctl.fatal /\ ~ctl.ending
    BY <1>22 DEF Notify, TypeOK, Links
  <2>2. \/ UNCHANGED <<ctl, held, step>>
        \/ ~Direct /\ UNCHANGED <<ctl, step>>
        \/ Fatal /\ UNCHANGED held
    BY <1>22 DEF Notify
  <2>3. CASE UNCHANGED <<ctl, held, step>>
    BY <2>1, <2>3 DEF InPlace, PassingInPlace
  <2>4. CASE ~Direct /\ UNCHANGED <<ctl, step>>
    BY <2>1, <2>4 DEF InPlace, PassingInPlace, Direct
  <2>5. CASE Fatal /\ UNCHANGED held
    BY <2>1, <2>5, FatalFields DEF InPlace, LossInPlace, PassingInPlace, Cycle
  <2> QED  BY <2>2, <2>3, <2>4, <2>5
<1>23. CASE ConnectRefused
  BY <1>23 DEF ConnectRefused, Connecting, NoStep, InPlace, LossInPlace, EndingInPlace,
     PassingInPlace, TypeOK, Controls, Links, Steps, Cycle
<1>24. CASE CleanupFails
  BY <1>24 DEF CleanupFails, NoStep, InPlace, LossInPlace, EndingInPlace,
     PassingInPlace, TypeOK, Controls, Links, Steps, Cycle
<1>25. CASE StepFails
  BY <1>25 DEF StepFails, FailStep, Stop, NoStep, InPlace, LossInPlace, EndingInPlace,
     PassingInPlace, TypeOK, Controls, Links, Steps, Cycle
<1> QED
  BY <1>1, <1>2, <1>3, <1>4, <1>5, <1>6, <1>7, <1>8, <1>9, <1>10, <1>11, <1>12, <1>13,
     <1>14, <1>15, <1>16, <1>17, <1>18, <1>19, <1>20, <1>21, <1>22, <1>23, <1>24, <1>25
     DEF Next, ControllerStep, LifecycleStep, PipelineStep, Surroundings


(* What a write of one session leaves of all of them.                      *)
LEMMA WriteEffect ==
  ASSUME TypeOK, NEW s \in Sessions, NEW r \in Stored, Write(s, r)
  PROVE  /\ \A t \in Sessions \ {s} : sess'[t] = sess[t]
         /\ sess'[s].here = r.here /\ sess'[s].selected = r.selected
         /\ sess'[s].archived = r.archived /\ sess'[s].fresh = r.fresh
         /\ sess'[s].fence = r.fence /\ sess'[s].since = r.since
<1> DEFINE q == [r EXCEPT !.asked = IF r.asked = "valid" THEN "stale" ELSE r.asked]
<1>1. /\ q.here = r.here /\ q.selected = r.selected /\ q.archived = r.archived
      /\ q.fresh = r.fresh /\ q.fence = r.fence /\ q.since = r.since
  BY DEF Stored
<1>2. sess' = [sess EXCEPT ![s] = q]
  BY DEF Write
<1> HIDE DEF q
<1> QED
  BY <1>1, <1>2 DEF TypeOK

(* Most steps only wear the sessions down: one may disappear, or be shown  *)
(* as troubled, and its boundary stays (applyEvent, unmanage, resume).     *)
Worn ==
  \A t \in Sessions :
    /\ sess'[t].here => sess[t].here
    /\ sess'[t].selected = sess[t].selected /\ sess'[t].archived = sess[t].archived
    /\ sess'[t].fence = sess[t].fence /\ sess'[t].fresh \in {sess[t].fresh, "other"}

(* Steps that change only how one session is shown.                        *)
OnlyFresh(s, f) ==
  \A t \in Sessions :
    /\ sess'[t].here = sess[t].here /\ sess'[t].selected = sess[t].selected
    /\ sess'[t].archived = sess[t].archived /\ sess'[t].fence = sess[t].fence
    /\ sess'[t].since = sess[t].since
    /\ sess'[t].fresh = IF t = s THEN f ELSE sess[t].fresh

(* A write of the stamp alone, and one of the freshness with it.           *)
LEMMA StampWritten ==
  ASSUME TypeOK, NEW s \in Sessions, NEW n \in 0..2,
         Write(s, [sess[s] EXCEPT !.stamp = n])
  PROVE  Worn
<1> DEFINE r == [sess[s] EXCEPT !.stamp = n]
<1>1. sess[s] \in Stored
  BY DEF TypeOK
<1>2. r \in Stored
  BY <1>1 DEF Stored
<1>3. /\ r.here = sess[s].here /\ r.selected = sess[s].selected /\ r.archived = sess[s].archived
      /\ r.fresh = sess[s].fresh /\ r.fence = sess[s].fence
  BY <1>1 DEF Stored
<1>4. Write(s, r)
  OBVIOUS
<1> HIDE DEF r
<1> QED
  BY <1>2, <1>3, <1>4, WriteEffect DEF Worn

(* A write of the freshness changes that of one session alone.             *)
LEMMA FreshWritten ==
  ASSUME TypeOK, NEW s \in Sessions, NEW n \in 0..2, NEW f \in {"disconnected", "current"},
         Write(s, [sess[s] EXCEPT !.fresh = f, !.stamp = n])
  PROVE  OnlyFresh(s, f)
<1> DEFINE p == [sess[s] EXCEPT !.fresh = f]
           r == [sess[s] EXCEPT !.fresh = f, !.stamp = n]
<1>1. sess[s] \in Stored
  BY DEF TypeOK
<1>2. p \in Stored
  BY <1>1 DEF Stored
<1>3. r = [p EXCEPT !.stamp = n]
  OBVIOUS
<1>4. /\ r.here = sess[s].here /\ r.selected = sess[s].selected /\ r.archived = sess[s].archived
      /\ r.fresh = f /\ r.fence = sess[s].fence /\ r.since = sess[s].since
  BY <1>1 DEF Stored
<1>5. Write(s, r)
  OBVIOUS
<1> HIDE DEF p
<1>6. r \in Stored
  BY <1>2, <1>3 DEF Stored
<1> HIDE DEF r
<1> QED
  BY <1>4, <1>5, <1>6, WriteEffect DEF OnlyFresh

(* A new clock reading takes nothing from what a session is known by.      *)
LEMMA RestampWears ==
  ASSUME TypeOK, sess' = [s \in Sessions |-> [sess[s] EXCEPT !.stamp = 0]]
  PROVE  Worn
<1> SUFFICES ASSUME NEW t \in Sessions
             PROVE  /\ sess'[t].here => sess[t].here
                    /\ sess'[t].selected = sess[t].selected
                    /\ sess'[t].archived = sess[t].archived
                    /\ sess'[t].fence = sess[t].fence
                    /\ sess'[t].fresh \in {sess[t].fresh, "other"}
  BY DEF Worn
<1>1. sess'[t] = [sess[t] EXCEPT !.stamp = 0] /\ sess[t] \in Stored
  BY DEF TypeOK
<1> QED
  BY <1>1 DEF Stored

(* Neither does a request to unmanage one, before the pipeline takes it.   *)
LEMMA AskWears ==
  ASSUME TypeOK, NEW s \in Sessions, AskUnmanage(s) \/ QueueUnmanage(s)
  PROVE  Worn
<1>1. PICK a \in {"asked", "valid"} : sess' = [sess EXCEPT ![s].asked = a]
  BY DEF AskUnmanage, QueueUnmanage
<1> QED
  BY <1>1 DEF TypeOK, Stored, Worn

(* The event at the head of the tail is stored with its session's own      *)
(* boundary, or not at all.                                                *)
LEMMA EventWears ==
  ASSUME TypeOK, PipeEvent
  PROVE  /\ Worn
         /\ \/ UNCHANGED sess
            \/ \E s \in Sessions :
                 /\ s = Head(pipe.queue).s /\ Managed(s)
                 /\ sess'[s].since = sess[s].since \cup {Head(pipe.queue).gen}
                 /\ \A t \in Sessions \ {s} : sess'[t] = sess[t]
<1>1. Head(pipe.queue) \in Events
  BY TailTaken DEF PipeEvent, Entries, Fences, Removals
<1> DEFINE e == Head(pipe.queue)
           f == IF e.effect = "trouble" THEN "other" ELSE sess[e.s].fresh
           r == [sess[e.s] EXCEPT !.since = @ \cup {e.gen}, !.stamp = 1, !.fresh = f]
<1>2. CASE UNCHANGED sess
  BY <1>2 DEF Worn
<1>3. CASE Managed(e.s) /\ Write(e.s, r)
  <2>1. e.s \in Sessions /\ e.gen \in Nat /\ f \in {sess[e.s].fresh, "other"}
    BY <1>1 DEF Events
  <2> HIDE DEF e, f
  <2>2. sess[e.s] \in Stored
    BY <2>1 DEF TypeOK
  <2>3. r \in Stored
    BY <2>1, <2>2, StoredChanges
  <2>4. /\ r.here = sess[e.s].here /\ r.selected = sess[e.s].selected
        /\ r.archived = sess[e.s].archived /\ r.fence = sess[e.s].fence
        /\ r.fresh = f /\ r.since = sess[e.s].since \cup {e.gen}
    BY <2>2 DEF Stored
  <2> HIDE DEF r
  <2>5. /\ \A t \in Sessions \ {e.s} : sess'[t] = sess[t]
        /\ sess'[e.s].here = r.here /\ sess'[e.s].selected = r.selected
        /\ sess'[e.s].archived = r.archived /\ sess'[e.s].fresh = r.fresh
        /\ sess'[e.s].fence = r.fence /\ sess'[e.s].since = r.since
    BY <1>3, <2>1, <2>3, WriteEffect
  <2>6. Worn
    BY <2>1, <2>4, <2>5 DEF Worn
  <2>7. sess'[e.s].since = sess[e.s].since \cup {e.gen}
    BY <2>4, <2>5
  <2> QED  BY <1>3, <2>1, <2>5, <2>6, <2>7 DEF e
<1> QED
  BY <1>2, <1>3 DEF PipeEvent

(* A removal takes a session off the list and adds no connection to it.    *)
LEMMA RemovalWears ==
  ASSUME TypeOK, PipeUnmanage
  PROVE  Worn /\ \A t \in Sessions : sess'[t].since = sess[t].since
<1> DEFINE s == Head(pipe.queue).s
<1>1. Head(pipe.queue) \in Removals
  BY TailTaken DEF PipeUnmanage, Entries, Fences, Events
<1>2. s \in Sessions
  BY <1>1 DEF Removals
<1>3. PICK b \in BOOLEAN :
        (b => sess[s].here) /\ sess' = [sess EXCEPT ![s].asked = "no", ![s].here = b]
  <2> DEFINE c == sess[s].here /\ (pipe.stopped \/ sess[s].asked # "valid")
  <2>1. sess' = [sess EXCEPT ![s].asked = "no", ![s].here = c]
    BY <1>2 DEF PipeUnmanage, TypeOK
  <2>2. c \in BOOLEAN /\ (c => sess[s].here)
    OBVIOUS
  <2> HIDE DEF c
  <2> QED  BY <2>1, <2>2
<1> HIDE DEF s
<1>4. sess[s] \in Stored
  BY <1>2 DEF TypeOK
<1>5. sess'[s].here = b /\ \A t \in Sessions \ {s} : sess'[t] = sess[t]
  BY <1>2, <1>3, <1>4 DEF TypeOK, Stored
<1>6. /\ sess'[s].selected = sess[s].selected /\ sess'[s].archived = sess[s].archived
      /\ sess'[s].fence = sess[s].fence /\ sess'[s].fresh = sess[s].fresh
      /\ sess'[s].since = sess[s].since
  BY <1>2, <1>3, <1>4 DEF TypeOK, Stored
<1> QED
  BY <1>3, <1>5, <1>6 DEF Worn


(* The writes of a boundary and of the markings.                           *)
LEMMA BoundaryWrites ==
  ASSUME TypeOK, NEW s \in Sessions, CommitBoundary(s)
  PROVE  /\ \A t \in Sessions \ {s} : sess'[t] = sess[t]
         /\ sess'[s].here = sess[s].here /\ sess'[s].fence = link.gen /\ sess'[s].since = {}
         /\ sess'[s].archived = (step.outcome[s] = "archived")
         /\ sess'[s].fresh = FreshOf(step.outcome[s])
<1> DEFINE o == step.outcome[s]
           twice == o = "archived" \/ sess[s].selected # (o # "recovery")
           n == IF twice THEN 2 ELSE StampAfter(sess[s].stamp)
           r == [sess[s] EXCEPT !.fresh = FreshOf(o), !.archived = (o = "archived"),
                   !.selected = (o # "recovery"), !.fence = link.gen, !.since = {},
                   !.stamp = n]
<1>1. Write(s, r)
  BY DEF CommitBoundary
<1>2. n \in 0..2
  BY ClockTyped DEF TypeOK, Stored
<1>3. FreshOf(o) \in {"current", "disconnected", "resubscribe", "other"} /\ link.gen \in Nat
  BY DEF FreshOf, TypeOK, Links
<1> HIDE DEF o, n
<1>4. r \in Stored
  BY <1>2, <1>3 DEF TypeOK, Stored
<1>5. /\ r.here = sess[s].here /\ r.fence = link.gen /\ r.since = {}
      /\ r.archived = (o = "archived") /\ r.fresh = FreshOf(o)
  BY DEF TypeOK, Stored
<1> HIDE DEF r
<1> QED
  BY <1>1, <1>4, <1>5, WriteEffect DEF o

(* A lost connection marks a session and leaves the others.                *)
LEMMA MarkWrites ==
  ASSUME TypeOK, NEW s \in Sessions, Mark(s)
  PROVE  OnlyFresh(s, "disconnected")
<1>1. StampAfter(sess[s].stamp) \in 0..2
  BY ClockTyped DEF TypeOK, Stored
<1>2. Write(s, [sess[s] EXCEPT !.fresh = "disconnected", !.stamp = StampAfter(sess[s].stamp)])
  BY DEF Mark
<1> QED
  BY <1>1, <1>2, FreshWritten

(* A publication makes one session current and leaves the others.          *)
LEMMA PublishWrites ==
  ASSUME TypeOK, NEW s \in Sessions, Publish(s)
  PROVE  OnlyFresh(s, "current")
<1>1. StampAfter(sess[s].stamp) \in 0..2
  BY ClockTyped DEF TypeOK, Stored
<1>2. Write(s, [sess[s] EXCEPT !.fresh = "current", !.stamp = StampAfter(sess[s].stamp)])
  BY DEF Publish
<1> QED
  BY <1>1, <1>2, FreshWritten

(* A resubscription stores a time of its own only.                         *)
LEMMA ResumeWears ==
  ASSUME TypeOK, NEW s \in Sessions, Resume(s)
  PROVE  Worn
<1>1. StampAfter(sess[s].stamp) \in 0..2
  BY ClockTyped DEF TypeOK, Stored
<1>2. Write(s, [sess[s] EXCEPT !.stamp = StampAfter(sess[s].stamp)])
  BY DEF Resume
<1> QED
  BY <1>1, <1>2, StampWritten

(* The sealing of an unavailable startup marks every listed session.       *)
LEMMA SealWrites ==
  ASSUME TypeOK, SealStartupUnavailable
  PROVE  \A t \in Sessions :
           /\ sess'[t].here = sess[t].here /\ sess'[t].archived = sess[t].archived
           /\ sess'[t].selected = sess[t].selected /\ sess'[t].fence = sess[t].fence
           /\ sess'[t].since = sess[t].since
           /\ sess'[t].fresh = IF t \in Listed THEN "disconnected" ELSE sess[t].fresh
<1> DEFINE M(t) == [sess[t] EXCEPT !.fresh = "disconnected", !.stamp = 2]
<1>1. \A t \in Sessions : sess'[t] = IF t \in Listed THEN M(t) ELSE sess[t]
  BY DEF SealStartupUnavailable
<1>2. ASSUME NEW t \in Sessions
      PROVE  /\ M(t).here = sess[t].here /\ M(t).archived = sess[t].archived
             /\ M(t).selected = sess[t].selected /\ M(t).fence = sess[t].fence
             /\ M(t).since = sess[t].since /\ M(t).fresh = "disconnected"
  BY DEF TypeOK, Stored
<1> HIDE DEF M
<1> QED
  BY <1>1, <1>2

(* What a session keeps of the past connections survives wearing.          *)
Boundaries == BoundaryWritten /\ AdmittedIsReconciled /\ CurrentIsConnected /\ CleanupMarks

(* So does everything else that is said of past connections.               *)
LEMMA WornKeeps ==
  ASSUME TypeOK, TypeOK', Boundaries, Worn, UNCHANGED <<ctl, link.gen, link.open, life, step>>
  PROVE  Boundaries'
<1>1. BoundaryWritten'
  BY DEF Boundaries, Worn, BoundaryWritten, Fenced, Listed
<1>2. AdmittedIsReconciled'
  BY DEF Boundaries, Worn, AdmittedIsReconciled, Listed
<1>3. CurrentIsConnected'
  BY DEF Boundaries, Worn, CurrentIsConnected, Listed, LossToRecord
<1>4. CleanupMarks'
  BY DEF Boundaries, Worn, CleanupMarks, Listed
<1> QED
  BY <1>1, <1>2, <1>3, <1>4 DEF Boundaries

(* A fatal issue takes the controller out of its cycle and nothing else.   *)
LEMMA FatalKeeps ==
  ASSUME TypeOK, InPlace, Boundaries, Fatal, UNCHANGED <<link.gen, link.open, sess>>
  PROVE  Boundaries'
<1>1. /\ ctl'.at = IF ctl.at \in Cycle \cup {"connecting", "waiting"} THEN "loop" ELSE ctl.at
      /\ ctl'.admitted = 0 /\ ctl'.lossPending = ctl.lossPending
      /\ ctl'.lossDone = ctl.lossDone /\ ctl'.cause = ctl.cause
      /\ ctl'.everReady = ctl.everReady /\ life'.gap = life.gap
      /\ ctl.at = "cleanup" => step' = step
  BY DEF Fatal, TypeOK, Controls, Lives
<1>2. BoundaryWritten' /\ CleanupMarks'
  BY <1>1 DEF Boundaries, BoundaryWritten, CleanupMarks, Listed, Cycle
<1>3. AdmittedIsReconciled'
  BY <1>1 DEF AdmittedIsReconciled
<1>4. CurrentIsConnected'
  BY <1>1 DEF Boundaries, CurrentIsConnected, LossToRecord, Listed, Cycle
<1> QED
  BY <1>2, <1>3, <1>4 DEF Boundaries

(* How an outcome is shown.                                                *)
LEMMA FreshOfOutcome ==
  ASSUME NEW o \in Outcomes
  PROVE  /\ FreshOf(o) # "disconnected"
         /\ FreshOf(o) = "resubscribe" => o = "recoverable"
         /\ FreshOf(o) = "current" => o = "archived"
BY DEF FreshOf, Outcomes


(* The boundaries and the markings through every step.                     *)
LEMMA BoundariesKept ==
  ASSUME TypeOK, InPlace, FenceHolds, Boundaries, [Next]_vars
  PROVE  Boundaries'
<1>0. TypeOK'
  BY TypePreserved
<1>1. CASE Start
  <2>1. BoundaryWritten'
    BY <1>1 DEF Start, NoStep, Boundaries, BoundaryWritten, Fenced, Listed, InPlace,
       LossInPlace, EndingInPlace, PassingInPlace, TypeOK, Controls, Links, Steps, Stages,
       Cycle
  <2>2. AdmittedIsReconciled'
    BY <1>1 DEF Start, NoStep, Boundaries, AdmittedIsReconciled, Listed, InPlace,
       LossInPlace, EndingInPlace, PassingInPlace, TypeOK, Controls, Links, Steps, Stages,
       Cycle
  <2>3. CurrentIsConnected'
    BY <1>1 DEF Start, NoStep, Boundaries, CurrentIsConnected, LossToRecord, Listed,
       InPlace, LossInPlace, EndingInPlace, PassingInPlace, TypeOK, Controls, Links,
       Steps, Stages, Cycle
  <2>4. CleanupMarks'
    BY <1>1 DEF Start, NoStep, Boundaries, CleanupMarks, Listed, InPlace, LossInPlace,
       EndingInPlace, PassingInPlace, TypeOK, Controls, Links, Steps, Stages, Cycle
  <2> QED  BY <2>1, <2>2, <2>3, <2>4 DEF Boundaries
<1>2. CASE ThrowFatal
  <2>1. BoundaryWritten'
    BY <1>2 DEF ThrowFatal, Stop, NoStep, Boundaries, BoundaryWritten, Fenced, Listed,
       InPlace, LossInPlace, EndingInPlace, PassingInPlace, TypeOK, Controls, Links,
       Steps, Stages, Cycle
  <2>2. AdmittedIsReconciled'
    BY <1>2 DEF ThrowFatal, Stop, NoStep, Boundaries, AdmittedIsReconciled, Listed,
       InPlace, LossInPlace, EndingInPlace, PassingInPlace, TypeOK, Controls, Links,
       Steps, Stages, Cycle
  <2>3. CurrentIsConnected'
    BY <1>2 DEF ThrowFatal, Stop, NoStep, Boundaries, CurrentIsConnected, LossToRecord,
       Listed, InPlace, LossInPlace, EndingInPlace, PassingInPlace, TypeOK, Controls,
       Links, Steps, Stages, Cycle
  <2>4. CleanupMarks'
    BY <1>2 DEF ThrowFatal, Stop, NoStep, Boundaries, CleanupMarks, Listed, InPlace,
       LossInPlace, EndingInPlace, PassingInPlace, TypeOK, Controls, Links, Steps, Stages,
       Cycle
  <2> QED  BY <2>1, <2>2, <2>3, <2>4 DEF Boundaries
<1>3. CASE BeginCleanup
  <2>1. BoundaryWritten'
    BY <1>3 DEF BeginCleanup, NoStep, LossToRecord, Boundaries, BoundaryWritten, Fenced,
       Listed, InPlace, LossInPlace, EndingInPlace, PassingInPlace, TypeOK, Controls,
       Links, Steps, Stages, Cycle
  <2>2. AdmittedIsReconciled'
    BY <1>3 DEF BeginCleanup, NoStep, LossToRecord, Boundaries, AdmittedIsReconciled,
       Listed, InPlace, LossInPlace, EndingInPlace, PassingInPlace, TypeOK, Controls,
       Links, Steps, Stages, Cycle
  <2>3. CurrentIsConnected'
    BY <1>3 DEF BeginCleanup, NoStep, LossToRecord, Boundaries, CurrentIsConnected,
       Listed, InPlace, LossInPlace, EndingInPlace, PassingInPlace, TypeOK, Controls,
       Links, Steps, Stages, Cycle
  <2>4. CleanupMarks'
    BY <1>3 DEF BeginCleanup, NoStep, LossToRecord, Boundaries, CleanupMarks, Listed,
       InPlace, LossInPlace, EndingInPlace, PassingInPlace, TypeOK, Controls, Links,
       Steps, Stages, Cycle
  <2> QED  BY <2>1, <2>2, <2>3, <2>4 DEF Boundaries
<1>4. CASE Continue
  <2>1. BoundaryWritten'
    BY <1>4 DEF Continue, LossToRecord, Boundaries, BoundaryWritten, Fenced, Listed,
       InPlace, LossInPlace, EndingInPlace, PassingInPlace, TypeOK, Controls, Links,
       Steps, Stages, Cycle
  <2>2. AdmittedIsReconciled'
    BY <1>4 DEF Continue, LossToRecord, Boundaries, AdmittedIsReconciled, Listed, InPlace,
       LossInPlace, EndingInPlace, PassingInPlace, TypeOK, Controls, Links, Steps, Stages,
       Cycle
  <2>3. CurrentIsConnected'
    BY <1>4 DEF Continue, LossToRecord, Boundaries, CurrentIsConnected, Listed, InPlace,
       LossInPlace, EndingInPlace, PassingInPlace, TypeOK, Controls, Links, Steps, Stages,
       Cycle
  <2>4. CleanupMarks'
    BY <1>4 DEF Continue, LossToRecord, Boundaries, CleanupMarks, Listed, InPlace,
       LossInPlace, EndingInPlace, PassingInPlace, TypeOK, Controls, Links, Steps, Stages,
       Cycle
  <2> QED  BY <2>1, <2>2, <2>3, <2>4 DEF Boundaries
<1>5. CASE Backoff
  <2>1. BoundaryWritten'
    BY <1>5, RestampWears DEF Backoff, NoStep, Worn, Boundaries, BoundaryWritten, Fenced,
       Listed, InPlace, LossInPlace, EndingInPlace, PassingInPlace, TypeOK, Controls,
       Links, Steps, Stages, Cycle
  <2>2. AdmittedIsReconciled'
    BY <1>5, RestampWears DEF Backoff, NoStep, Worn, Boundaries, AdmittedIsReconciled,
       Listed, InPlace, LossInPlace, EndingInPlace, PassingInPlace, TypeOK, Controls,
       Links, Steps, Stages, Cycle
  <2>3. CurrentIsConnected'
    BY <1>5, RestampWears DEF Backoff, NoStep, Worn, Boundaries, CurrentIsConnected,
       LossToRecord, Listed, InPlace, LossInPlace, EndingInPlace, PassingInPlace, TypeOK,
       Controls, Links, Steps, Stages, Cycle
  <2>4. CleanupMarks'
    BY <1>5, RestampWears DEF Backoff, NoStep, Worn, Boundaries, CleanupMarks, Listed,
       InPlace, LossInPlace, EndingInPlace, PassingInPlace, TypeOK, Controls, Links,
       Steps, Stages, Cycle
  <2> QED  BY <2>1, <2>2, <2>3, <2>4 DEF Boundaries
<1>6. CASE Dial
  <2>1. BoundaryWritten'
    BY <1>6 DEF Dial, Connecting, Boundaries, BoundaryWritten, Fenced, Listed, InPlace,
       LossInPlace, EndingInPlace, PassingInPlace, TypeOK, Controls, Links, Steps, Stages,
       Cycle
  <2>2. AdmittedIsReconciled'
    BY <1>6 DEF Dial, Connecting, Boundaries, AdmittedIsReconciled, Listed, InPlace,
       LossInPlace, EndingInPlace, PassingInPlace, TypeOK, Controls, Links, Steps, Stages,
       Cycle
  <2>3. CurrentIsConnected'
    BY <1>6 DEF Dial, Connecting, Boundaries, CurrentIsConnected, LossToRecord, Listed,
       InPlace, LossInPlace, EndingInPlace, PassingInPlace, TypeOK, Controls, Links,
       Steps, Stages, Cycle
  <2>4. CleanupMarks'
    BY <1>6 DEF Dial, Connecting, Boundaries, CleanupMarks, Listed, InPlace, LossInPlace,
       EndingInPlace, PassingInPlace, TypeOK, Controls, Links, Steps, Stages, Cycle
  <2> QED  BY <2>1, <2>2, <2>3, <2>4 DEF Boundaries
<1>7. CASE Handshake
  <2>1. BoundaryWritten'
    BY <1>7 DEF Handshake, Connecting, NoStep, Boundaries, BoundaryWritten, Fenced,
       Listed, InPlace, LossInPlace, EndingInPlace, PassingInPlace, TypeOK, Controls,
       Links, Steps, Stages, Cycle
  <2>2. AdmittedIsReconciled'
    BY <1>7 DEF Handshake, Connecting, NoStep, Boundaries, AdmittedIsReconciled, Listed,
       InPlace, LossInPlace, EndingInPlace, PassingInPlace, TypeOK, Controls, Links,
       Steps, Stages, Cycle
  <2>3. CurrentIsConnected'
    BY <1>7 DEF Handshake, Connecting, NoStep, Boundaries, CurrentIsConnected,
       LossToRecord, Listed, InPlace, LossInPlace, EndingInPlace, PassingInPlace, TypeOK,
       Controls, Links, Steps, Stages, Cycle
  <2>4. CleanupMarks'
    BY <1>7 DEF Handshake, Connecting, NoStep, Boundaries, CleanupMarks, Listed, InPlace,
       LossInPlace, EndingInPlace, PassingInPlace, TypeOK, Controls, Links, Steps, Stages,
       Cycle
  <2> QED  BY <2>1, <2>2, <2>3, <2>4 DEF Boundaries
<1>8. CASE Arm
  <2>1. BoundaryWritten'
    BY <1>8 DEF Arm, Boundaries, BoundaryWritten, Fenced, Listed, InPlace, LossInPlace,
       EndingInPlace, PassingInPlace, TypeOK, Controls, Links, Steps, Stages, Cycle
  <2>2. AdmittedIsReconciled'
    BY <1>8 DEF Arm, Boundaries, AdmittedIsReconciled, Listed, InPlace, LossInPlace,
       EndingInPlace, PassingInPlace, TypeOK, Controls, Links, Steps, Stages, Cycle
  <2>3. CurrentIsConnected'
    BY <1>8 DEF Arm, Boundaries, CurrentIsConnected, LossToRecord, Listed, InPlace,
       LossInPlace, EndingInPlace, PassingInPlace, TypeOK, Controls, Links, Steps, Stages,
       Cycle
  <2>4. CleanupMarks'
    BY <1>8 DEF Arm, Boundaries, CleanupMarks, Listed, InPlace, LossInPlace,
       EndingInPlace, PassingInPlace, TypeOK, Controls, Links, Steps, Stages, Cycle
  <2> QED  BY <2>1, <2>2, <2>3, <2>4 DEF Boundaries
<1>9. CASE PrepareGap
  <2>1. BoundaryWritten'
    BY <1>9 DEF PrepareGap, At, Boundaries, BoundaryWritten, Fenced, Listed, InPlace,
       LossInPlace, EndingInPlace, PassingInPlace, TypeOK, Controls, Links, Steps, Stages,
       Cycle
  <2>2. AdmittedIsReconciled'
    BY <1>9 DEF PrepareGap, At, Boundaries, AdmittedIsReconciled, Listed, InPlace,
       LossInPlace, EndingInPlace, PassingInPlace, TypeOK, Controls, Links, Steps, Stages,
       Cycle
  <2>3. CurrentIsConnected'
    BY <1>9 DEF PrepareGap, At, Boundaries, CurrentIsConnected, LossToRecord, Listed,
       InPlace, LossInPlace, EndingInPlace, PassingInPlace, TypeOK, Controls, Links,
       Steps, Stages, Cycle
  <2>4. CleanupMarks'
    BY <1>9 DEF PrepareGap, At, Boundaries, CleanupMarks, Listed, InPlace, LossInPlace,
       EndingInPlace, PassingInPlace, TypeOK, Controls, Links, Steps, Stages, Cycle
  <2> QED  BY <2>1, <2>2, <2>3, <2>4 DEF Boundaries
<1>10. CASE CleanupDone
  <2>1. BoundaryWritten'
    BY <1>10 DEF CleanupDone, At, NoStep, Boundaries, BoundaryWritten, Fenced, Listed,
       InPlace, LossInPlace, EndingInPlace, PassingInPlace, TypeOK, Controls, Links,
       Steps, Stages, Cycle
  <2>2. AdmittedIsReconciled'
    BY <1>10 DEF CleanupDone, At, NoStep, Boundaries, AdmittedIsReconciled, Listed,
       InPlace, LossInPlace, EndingInPlace, PassingInPlace, TypeOK, Controls, Links,
       Steps, Stages, Cycle
  <2>3. CurrentIsConnected'
    BY <1>10 DEF CleanupDone, At, NoStep, CleanupMarks, Boundaries, CurrentIsConnected,
       LossToRecord, Listed, InPlace, LossInPlace, EndingInPlace, PassingInPlace, TypeOK,
       Controls, Links, Steps, Stages, Cycle
  <2>4. CleanupMarks'
    BY <1>10 DEF CleanupDone, At, NoStep, Boundaries, CleanupMarks, Listed, InPlace,
       LossInPlace, EndingInPlace, PassingInPlace, TypeOK, Controls, Links, Steps, Stages,
       Cycle
  <2> QED  BY <2>1, <2>2, <2>3, <2>4 DEF Boundaries
<1>11. CASE Observe
  <2>1. BoundaryWritten'
    BY <1>11 DEF Observe, GapReady, At, Boundaries, BoundaryWritten, Fenced, Listed,
       InPlace, LossInPlace, EndingInPlace, PassingInPlace, TypeOK, Controls, Links,
       Steps, Stages, Cycle
  <2>2. AdmittedIsReconciled'
    BY <1>11 DEF Observe, GapReady, At, Boundaries, AdmittedIsReconciled, Listed, InPlace,
       LossInPlace, EndingInPlace, PassingInPlace, TypeOK, Controls, Links, Steps, Stages,
       Cycle
  <2>3. CurrentIsConnected'
    BY <1>11 DEF Observe, GapReady, At, Boundaries, CurrentIsConnected, LossToRecord,
       Listed, InPlace, LossInPlace, EndingInPlace, PassingInPlace, TypeOK, Controls,
       Links, Steps, Stages, Cycle
  <2>4. CleanupMarks'
    BY <1>11 DEF Observe, GapReady, At, Boundaries, CleanupMarks, Listed, InPlace,
       LossInPlace, EndingInPlace, PassingInPlace, TypeOK, Controls, Links, Steps, Stages,
       Cycle
  <2> QED  BY <2>1, <2>2, <2>3, <2>4 DEF Boundaries
<1>12. CASE EventsRefuse
  <2>1. BoundaryWritten'
    BY <1>12 DEF EventsRefuse, FailStep, Stop, NoStep, GapReady, At, Boundaries,
       BoundaryWritten, Fenced, Listed, InPlace, LossInPlace, EndingInPlace,
       PassingInPlace, TypeOK, Controls, Links, Steps, Stages, Cycle
  <2>2. AdmittedIsReconciled'
    BY <1>12 DEF EventsRefuse, FailStep, Stop, NoStep, GapReady, At, Boundaries,
       AdmittedIsReconciled, Listed, InPlace, LossInPlace, EndingInPlace, PassingInPlace,
       TypeOK, Controls, Links, Steps, Stages, Cycle
  <2>3. CurrentIsConnected'
    BY <1>12 DEF EventsRefuse, FailStep, Stop, NoStep, GapReady, At, Boundaries,
       CurrentIsConnected, LossToRecord, Listed, InPlace, LossInPlace, EndingInPlace,
       PassingInPlace, TypeOK, Controls, Links, Steps, Stages, Cycle
  <2>4. CleanupMarks'
    BY <1>12 DEF EventsRefuse, FailStep, Stop, NoStep, GapReady, At, Boundaries,
       CleanupMarks, Listed, InPlace, LossInPlace, EndingInPlace, PassingInPlace, TypeOK,
       Controls, Links, Steps, Stages, Cycle
  <2> QED  BY <2>1, <2>2, <2>3, <2>4 DEF Boundaries
<1>13. CASE ReconcileDone
  <2>1. BoundaryWritten'
    BY <1>13 DEF ReconcileDone, At, Recoverable, Boundaries, BoundaryWritten, Fenced,
       Listed, InPlace, LossInPlace, EndingInPlace, PassingInPlace, TypeOK, Controls,
       Links, Steps, Stages, Cycle
  <2>2. AdmittedIsReconciled'
    BY <1>13 DEF ReconcileDone, At, Boundaries, AdmittedIsReconciled, Listed, InPlace,
       LossInPlace, EndingInPlace, PassingInPlace, TypeOK, Controls, Links, Steps, Stages,
       Cycle
  <2>3. CurrentIsConnected'
    BY <1>13 DEF ReconcileDone, At, BoundaryWritten, Fenced, Boundaries,
       CurrentIsConnected, LossToRecord, Listed, InPlace, LossInPlace, EndingInPlace,
       PassingInPlace, TypeOK, Controls, Links, Steps, Stages, Cycle
  <2>4. CleanupMarks'
    BY <1>13 DEF ReconcileDone, At, Boundaries, CleanupMarks, Listed, InPlace,
       LossInPlace, EndingInPlace, PassingInPlace, TypeOK, Controls, Links, Steps, Stages,
       Cycle
  <2> QED  BY <2>1, <2>2, <2>3, <2>4 DEF Boundaries
<1>14. CASE ResubscribeDone
  <2>1. BoundaryWritten'
    BY <1>14 DEF ResubscribeDone, At, Boundaries, BoundaryWritten, Fenced, Listed,
       InPlace, LossInPlace, EndingInPlace, PassingInPlace, TypeOK, Controls, Links,
       Steps, Stages, Cycle
  <2>2. AdmittedIsReconciled'
    BY <1>14 DEF ResubscribeDone, At, Boundaries, AdmittedIsReconciled, Listed, InPlace,
       LossInPlace, EndingInPlace, PassingInPlace, TypeOK, Controls, Links, Steps, Stages,
       Cycle
  <2>3. CurrentIsConnected'
    BY <1>14 DEF ResubscribeDone, At, Boundaries, CurrentIsConnected, LossToRecord,
       Listed, InPlace, LossInPlace, EndingInPlace, PassingInPlace, TypeOK, Controls,
       Links, Steps, Stages, Cycle
  <2>4. CleanupMarks'
    BY <1>14 DEF ResubscribeDone, At, Boundaries, CleanupMarks, Listed, InPlace,
       LossInPlace, EndingInPlace, PassingInPlace, TypeOK, Controls, Links, Steps, Stages,
       Cycle
  <2> QED  BY <2>1, <2>2, <2>3, <2>4 DEF Boundaries
<1>15. CASE Barrier
  <2>1. BoundaryWritten'
    BY <1>15 DEF Barrier, At, Boundaries, BoundaryWritten, Fenced, Listed, InPlace,
       LossInPlace, EndingInPlace, PassingInPlace, TypeOK, Controls, Links, Steps, Stages,
       Cycle
  <2>2. AdmittedIsReconciled'
    BY <1>15 DEF Barrier, At, Boundaries, AdmittedIsReconciled, Listed, InPlace,
       LossInPlace, EndingInPlace, PassingInPlace, TypeOK, Controls, Links, Steps, Stages,
       Cycle
  <2>3. CurrentIsConnected'
    BY <1>15 DEF Barrier, At, Boundaries, CurrentIsConnected, LossToRecord, Listed,
       InPlace, LossInPlace, EndingInPlace, PassingInPlace, TypeOK, Controls, Links,
       Steps, Stages, Cycle
  <2>4. CleanupMarks'
    BY <1>15 DEF Barrier, At, Boundaries, CleanupMarks, Listed, InPlace, LossInPlace,
       EndingInPlace, PassingInPlace, TypeOK, Controls, Links, Steps, Stages, Cycle
  <2> QED  BY <2>1, <2>2, <2>3, <2>4 DEF Boundaries
<1>16. CASE ReadyDone
  <2>1. BoundaryWritten'
    BY <1>16 DEF ReadyDone, At, NoStep, Boundaries, BoundaryWritten, Fenced, Listed,
       InPlace, LossInPlace, EndingInPlace, PassingInPlace, TypeOK, Controls, Links,
       Steps, Stages, Cycle
  <2>2. AdmittedIsReconciled'
    BY <1>16 DEF ReadyDone, At, NoStep, BoundaryWritten, Fenced, Boundaries,
       AdmittedIsReconciled, Listed, InPlace, LossInPlace, EndingInPlace, PassingInPlace,
       TypeOK, Controls, Links, Steps, Stages, Cycle
  <2>3. CurrentIsConnected'
    BY <1>16 DEF ReadyDone, At, NoStep, BoundaryWritten, Fenced, Boundaries,
       CurrentIsConnected, LossToRecord, Listed, InPlace, LossInPlace, EndingInPlace,
       PassingInPlace, TypeOK, Controls, Links, Steps, Stages, Cycle
  <2>4. CleanupMarks'
    BY <1>16 DEF ReadyDone, At, NoStep, Boundaries, CleanupMarks, Listed, InPlace,
       LossInPlace, EndingInPlace, PassingInPlace, TypeOK, Controls, Links, Steps, Stages,
       Cycle
  <2> QED  BY <2>1, <2>2, <2>3, <2>4 DEF Boundaries
<1>17. CASE SealStartupUnavailable
  <2>1. ctl.at = "ended" /\ UNCHANGED <<ctl, link, step>> /\ ~link.open
    BY <1>17 DEF SealStartupUnavailable, InPlace, LossInPlace
  <2>2. \A t \in Sessions :
          /\ sess'[t].here = sess[t].here /\ sess'[t].archived = sess[t].archived
          /\ sess'[t].fresh = IF t \in Listed THEN "disconnected" ELSE sess[t].fresh
    BY <1>17, SealWrites
  <2>3. CurrentIsConnected'
    BY <2>2 DEF CurrentIsConnected, Listed
  <2>4. ctl.admitted = 0
    BY <2>1 DEF InPlace, PassingInPlace
  <2>5. BoundaryWritten' /\ AdmittedIsReconciled' /\ CleanupMarks'
    BY <2>1, <2>4 DEF BoundaryWritten, AdmittedIsReconciled, CleanupMarks
  <2> QED  BY <2>3, <2>5 DEF Boundaries
<1>18. ASSUME NEW s \in Sessions, Mark(s) PROVE Boundaries'
  <2>1. /\ ctl.at \in {"cleanup", "reconcile"} /\ step.stage = "mark"
        /\ UNCHANGED <<ctl, link, life>>
        /\ step'.stage = step.stage /\ step'.todo = step.todo \ {s}
    BY <1>18 DEF Mark, Marking, TypeOK, Steps
  <2>2. OnlyFresh(s, "disconnected")
    BY <1>18, MarkWrites
  <2>3. ctl.admitted = 0
    BY <2>1 DEF InPlace, PassingInPlace
  <2>4. BoundaryWritten' /\ AdmittedIsReconciled'
    BY <2>1, <2>3 DEF BoundaryWritten, AdmittedIsReconciled
  <2>5. CleanupMarks'
    BY <2>1, <2>2 DEF Boundaries, CleanupMarks, OnlyFresh, Listed
  <2>6. CurrentIsConnected'
    BY <2>1, <2>2 DEF Boundaries, CurrentIsConnected, OnlyFresh, LossToRecord, Listed
  <2> QED  BY <2>4, <2>5, <2>6 DEF Boundaries
<1>19. ASSUME NEW s \in Sessions, CommitBoundary(s) PROVE Boundaries'
  <2> DEFINE o == step.outcome[s]
  <2>1. /\ ctl.at = "reconcile" /\ step.stage = "commit"
        /\ UNCHANGED <<ctl, link, life>> /\ step'.outcome = step.outcome
        /\ step'.stage = step.stage /\ step'.todo = step.todo \ {s}
    BY <1>19 DEF CommitBoundary, At, TypeOK, Steps
  <2>2. /\ \A t \in Sessions \ {s} : sess'[t] = sess[t]
        /\ sess'[s].fence = link.gen /\ sess'[s].archived = (o = "archived")
        /\ sess'[s].fresh = FreshOf(o)
    BY <1>19, BoundaryWrites
  <2>3. /\ FreshOf(o) # "disconnected"
        /\ FreshOf(o) = "resubscribe" => o = "recoverable"
        /\ FreshOf(o) = "current" => o = "archived"
    BY FreshOfOutcome DEF TypeOK, Steps
  <2>4. Fenced(s)'
    BY <2>1, <2>2, <2>3 DEF Fenced
  <2>5. ASSUME NEW t \in (Listed \ step.todo)', t # s PROVE Fenced(t)'
    BY <2>1, <2>2, <2>5 DEF Boundaries, BoundaryWritten, Fenced, Listed
  <2>6. BoundaryWritten'
    BY <2>1, <2>4, <2>5 DEF BoundaryWritten
  <2>7. ctl.admitted = 0
    BY <2>1 DEF InPlace, PassingInPlace
  <2>8. AdmittedIsReconciled' /\ CleanupMarks'
    BY <2>1, <2>7 DEF AdmittedIsReconciled, CleanupMarks
  <2>9. CurrentIsConnected'
    <3>1. sess'[s].fresh = "current" => s \notin Listed'
      BY <2>2, <2>3 DEF Listed
    <3>2. ASSUME NEW t \in Listed', t # s, sess'[t].fresh = "current"
          PROVE  t \in Listed /\ sess[t].fresh = "current" /\ sess'[t].fence = sess[t].fence
      BY <2>2, <3>2 DEF Listed
    <3> QED  BY <2>1, <3>1, <3>2 DEF Boundaries, CurrentIsConnected, LossToRecord
  <2> QED  BY <2>6, <2>8, <2>9 DEF Boundaries
<1>20. ASSUME NEW s \in Sessions, Resume(s) PROVE Boundaries'
  <2>1. BoundaryWritten'
    BY <1>20, ResumeWears DEF Resume, At, Worn, Boundaries, BoundaryWritten, Fenced,
       Listed, InPlace, LossInPlace, EndingInPlace, PassingInPlace, TypeOK, Controls,
       Links, Steps, Stages, Cycle
  <2>2. AdmittedIsReconciled'
    BY <1>20, ResumeWears DEF Resume, At, Worn, Boundaries, AdmittedIsReconciled, Listed,
       InPlace, LossInPlace, EndingInPlace, PassingInPlace, TypeOK, Controls, Links,
       Steps, Stages, Cycle
  <2>3. CurrentIsConnected'
    BY <1>20, ResumeWears DEF Resume, At, Worn, Boundaries, CurrentIsConnected,
       LossToRecord, Listed, InPlace, LossInPlace, EndingInPlace, PassingInPlace, TypeOK,
       Controls, Links, Steps, Stages, Cycle
  <2>4. CleanupMarks'
    BY <1>20, ResumeWears DEF Resume, At, Worn, Boundaries, CleanupMarks, Listed, InPlace,
       LossInPlace, EndingInPlace, PassingInPlace, TypeOK, Controls, Links, Steps, Stages,
       Cycle
  <2> QED  BY <2>1, <2>2, <2>3, <2>4 DEF Boundaries
<1>21. ASSUME NEW s \in Sessions, Publish(s) PROVE Boundaries'
  <2>1. /\ ctl.at = "ready" /\ UNCHANGED <<ctl, link, life>>
        /\ step'.outcome = step.outcome
        /\ step'.stage = step.stage /\ step'.todo = step.todo \ {s}
    BY <1>21 DEF Publish, At, TypeOK, Steps
  <2>2. s \in Listed
    BY <1>21 DEF Publish, Eligible, Managed, Listed
  <2>3. OnlyFresh(s, "current")
    BY <1>21, PublishWrites
  <2>4. BoundaryWritten'
    BY <2>1, <2>3 DEF Boundaries, BoundaryWritten, Fenced, OnlyFresh, Listed
  <2>5. ctl.admitted = 0 /\ link.open
    BY <2>1 DEF InPlace, PassingInPlace, LossInPlace, Cycle
  <2>6. AdmittedIsReconciled' /\ CleanupMarks'
    BY <2>1, <2>5 DEF AdmittedIsReconciled, CleanupMarks
  <2>7. Fenced(s)
    BY <2>1, <2>2 DEF Boundaries, BoundaryWritten
  <2>8. CurrentIsConnected'
    BY <2>1, <2>3, <2>5, <2>7
       DEF Boundaries, CurrentIsConnected, Fenced, OnlyFresh, LossToRecord, Listed
  <2> QED  BY <2>4, <2>6, <2>8 DEF Boundaries
<1>22. CASE PipeEvent
  <2>1. UNCHANGED <<ctl, link, life, step>>
    BY <1>22 DEF PipeEvent
  <2>2. Worn
    BY <1>22, EventWears DEF PipeEvent
  <2> QED  BY <1>0, <2>1, <2>2, WornKeeps
<1>23. CASE PipeFence
  <2>1. UNCHANGED <<ctl, link, life, sess>>
    BY <1>23 DEF PipeFence
  <2>2. CASE step' = step
    BY <1>0, <2>1, <2>2, WornKeeps DEF Worn
  <2>3. CASE step' # step
    <3>1. /\ ctl.at = "reconcile" /\ Head(pipe.queue).kind = "fence"
          /\ Head(pipe.queue).gen = link.gen /\ pipe.queue # <<>>
          /\ step'.stage \in {"commit", "refused"} /\ step'.todo = step.todo
          /\ step'.outcome = step.outcome
      BY <1>23, <2>3 DEF PipeFence, TypeOK, Steps
    <3>2. 1 \in DOMAIN pipe.queue /\ FenceOf(1)
      BY <3>1, TailTaken DEF FenceOf
    <3>3. step.stage \in {"fence", "commit", "refused"}
      BY <3>1, <3>2 DEF FenceHolds, InPlace, LossInPlace
    <3>4. BoundaryWritten'
      BY <2>1, <3>1, <3>3 DEF Boundaries, BoundaryWritten, Fenced, Listed
    <3>5. AdmittedIsReconciled'
      BY <2>1 DEF Boundaries, AdmittedIsReconciled, Listed
    <3>6. CurrentIsConnected'
      BY <2>1, <3>1 DEF Boundaries, CurrentIsConnected, LossToRecord, Listed
    <3>7. CleanupMarks'
      BY <2>1, <3>1 DEF CleanupMarks
    <3> QED  BY <3>4, <3>5, <3>6, <3>7 DEF Boundaries
  <2> QED  BY <2>2, <2>3
<1>24. CASE PipeUnmanage
  <2>1. UNCHANGED <<ctl, link, life, step>>
    BY <1>24 DEF PipeUnmanage
  <2>2. Worn
    BY <1>24, RemovalWears DEF PipeUnmanage
  <2> QED  BY <1>0, <2>1, <2>2, WornKeeps
<1>25. CASE Tick
  <2>1. UNCHANGED <<ctl, link, life, step>>
    BY <1>25 DEF Tick
  <2>2. Worn
    BY <1>25, RestampWears DEF Tick
  <2> QED  BY <1>0, <2>1, <2>2, WornKeeps
<1>26. CASE Lose
  <2>1. BoundaryWritten'
    BY <1>26 DEF Lose, NoStep, Boundaries, BoundaryWritten, Fenced, Listed, InPlace,
       LossInPlace, EndingInPlace, PassingInPlace, TypeOK, Controls, Links, Steps, Stages,
       Cycle
  <2>2. AdmittedIsReconciled'
    BY <1>26 DEF Lose, NoStep, Boundaries, AdmittedIsReconciled, Listed, InPlace,
       LossInPlace, EndingInPlace, PassingInPlace, TypeOK, Controls, Links, Steps, Stages,
       Cycle
  <2>3. CurrentIsConnected'
    BY <1>26 DEF Lose, NoStep, Boundaries, CurrentIsConnected, LossToRecord, Listed,
       InPlace, LossInPlace, EndingInPlace, PassingInPlace, TypeOK, Controls, Links,
       Steps, Stages, Cycle
  <2>4. CleanupMarks'
    BY <1>26 DEF Lose, NoStep, Boundaries, CleanupMarks, Listed, InPlace, LossInPlace,
       EndingInPlace, PassingInPlace, TypeOK, Controls, Links, Steps, Stages, Cycle
  <2> QED  BY <2>1, <2>2, <2>3, <2>4 DEF Boundaries
<1>27. CASE Incompatible
  <2>1. BoundaryWritten'
    BY <1>27 DEF Incompatible, Stop, NoStep, Connecting, Boundaries, BoundaryWritten,
       Fenced, Listed, InPlace, LossInPlace, EndingInPlace, PassingInPlace, TypeOK,
       Controls, Links, Steps, Stages, Cycle
  <2>2. AdmittedIsReconciled'
    BY <1>27 DEF Incompatible, Stop, NoStep, Connecting, Boundaries, AdmittedIsReconciled,
       Listed, InPlace, LossInPlace, EndingInPlace, PassingInPlace, TypeOK, Controls,
       Links, Steps, Stages, Cycle
  <2>3. CurrentIsConnected'
    BY <1>27 DEF Incompatible, Stop, NoStep, Connecting, Boundaries, CurrentIsConnected,
       LossToRecord, Listed, InPlace, LossInPlace, EndingInPlace, PassingInPlace, TypeOK,
       Controls, Links, Steps, Stages, Cycle
  <2>4. CleanupMarks'
    BY <1>27 DEF Incompatible, Stop, NoStep, Connecting, Boundaries, CleanupMarks, Listed,
       InPlace, LossInPlace, EndingInPlace, PassingInPlace, TypeOK, Controls, Links,
       Steps, Stages, Cycle
  <2> QED  BY <2>1, <2>2, <2>3, <2>4 DEF Boundaries
<1>28. CASE ProtocolIssue
  <2>1. Fatal /\ UNCHANGED <<link.gen, link.open, sess>>
    BY <1>28 DEF ProtocolIssue
  <2> QED  BY <2>1, FatalKeeps
<1>29. CASE Notify
  <2>1. UNCHANGED <<link.gen, link.open, sess>>
    BY <1>29 DEF Notify, TypeOK, Links
  <2>2. UNCHANGED <<ctl, life, step>> \/ Fatal
    BY <1>29 DEF Notify
  <2>3. CASE UNCHANGED <<ctl, life, step>>
    BY <1>0, <2>1, <2>3, WornKeeps DEF Worn
  <2>4. CASE Fatal
    BY <2>1, <2>4, FatalKeeps
  <2> QED  BY <2>2, <2>3, <2>4
<1>30. ASSUME NEW s \in Sessions, AskUnmanage(s) PROVE Boundaries'
  <2>1. UNCHANGED <<ctl, link, life, step>>
    BY <1>30 DEF AskUnmanage
  <2>2. Worn
    BY <1>30, AskWears DEF AskUnmanage
  <2> QED  BY <1>0, <2>1, <2>2, WornKeeps
<1>31. ASSUME NEW s \in Sessions, QueueUnmanage(s) PROVE Boundaries'
  <2>1. UNCHANGED <<ctl, link, life, step>>
    BY <1>31 DEF QueueUnmanage
  <2>2. Worn
    BY <1>31, AskWears DEF QueueUnmanage
  <2> QED  BY <1>0, <2>1, <2>2, WornKeeps
<1>32. CASE ConnectRefused
  <2>1. BoundaryWritten'
    BY <1>32 DEF ConnectRefused, Connecting, NoStep, Boundaries, BoundaryWritten, Fenced,
       Listed, InPlace, LossInPlace, EndingInPlace, PassingInPlace, TypeOK, Controls,
       Links, Steps, Stages, Cycle
  <2>2. AdmittedIsReconciled'
    BY <1>32 DEF ConnectRefused, Connecting, NoStep, Boundaries, AdmittedIsReconciled,
       Listed, InPlace, LossInPlace, EndingInPlace, PassingInPlace, TypeOK, Controls,
       Links, Steps, Stages, Cycle
  <2>3. CurrentIsConnected'
    BY <1>32 DEF ConnectRefused, Connecting, NoStep, Boundaries, CurrentIsConnected,
       LossToRecord, Listed, InPlace, LossInPlace, EndingInPlace, PassingInPlace, TypeOK,
       Controls, Links, Steps, Stages, Cycle
  <2>4. CleanupMarks'
    BY <1>32 DEF ConnectRefused, Connecting, NoStep, Boundaries, CleanupMarks, Listed,
       InPlace, LossInPlace, EndingInPlace, PassingInPlace, TypeOK, Controls, Links,
       Steps, Stages, Cycle
  <2> QED  BY <2>1, <2>2, <2>3, <2>4 DEF Boundaries
<1>33. CASE CleanupFails
  <2>1. BoundaryWritten'
    BY <1>33 DEF CleanupFails, NoStep, Boundaries, BoundaryWritten, Fenced, Listed,
       InPlace, LossInPlace, EndingInPlace, PassingInPlace, TypeOK, Controls, Links,
       Steps, Stages, Cycle
  <2>2. AdmittedIsReconciled'
    BY <1>33 DEF CleanupFails, NoStep, Boundaries, AdmittedIsReconciled, Listed, InPlace,
       LossInPlace, EndingInPlace, PassingInPlace, TypeOK, Controls, Links, Steps, Stages,
       Cycle
  <2>3. CurrentIsConnected'
    BY <1>33 DEF CleanupFails, NoStep, Boundaries, CurrentIsConnected, LossToRecord,
       Listed, InPlace, LossInPlace, EndingInPlace, PassingInPlace, TypeOK, Controls,
       Links, Steps, Stages, Cycle
  <2>4. CleanupMarks'
    BY <1>33 DEF CleanupFails, NoStep, Boundaries, CleanupMarks, Listed, InPlace,
       LossInPlace, EndingInPlace, PassingInPlace, TypeOK, Controls, Links, Steps, Stages,
       Cycle
  <2> QED  BY <2>1, <2>2, <2>3, <2>4 DEF Boundaries
<1>34. CASE StepFails
  <2>1. BoundaryWritten'
    BY <1>34 DEF StepFails, FailStep, Stop, NoStep, Boundaries, BoundaryWritten, Fenced,
       Listed, InPlace, LossInPlace, EndingInPlace, PassingInPlace, TypeOK, Controls,
       Links, Steps, Stages, Cycle
  <2>2. AdmittedIsReconciled'
    BY <1>34 DEF StepFails, FailStep, Stop, NoStep, Boundaries, AdmittedIsReconciled,
       Listed, InPlace, LossInPlace, EndingInPlace, PassingInPlace, TypeOK, Controls,
       Links, Steps, Stages, Cycle
  <2>3. CurrentIsConnected'
    BY <1>34 DEF StepFails, FailStep, Stop, NoStep, Boundaries, CurrentIsConnected,
       LossToRecord, Listed, InPlace, LossInPlace, EndingInPlace, PassingInPlace, TypeOK,
       Controls, Links, Steps, Stages, Cycle
  <2>4. CleanupMarks'
    BY <1>34 DEF StepFails, FailStep, Stop, NoStep, Boundaries, CleanupMarks, Listed,
       InPlace, LossInPlace, EndingInPlace, PassingInPlace, TypeOK, Controls, Links,
       Steps, Stages, Cycle
  <2> QED  BY <2>1, <2>2, <2>3, <2>4 DEF Boundaries
<1>35. CASE UNCHANGED vars
  <2>1. Worn /\ UNCHANGED <<ctl, link, life, step>>
    BY <1>35 DEF Worn, vars
  <2> QED  BY <1>0, <2>1, WornKeeps
<1> QED
  BY <1>1, <1>2, <1>3, <1>4, <1>5, <1>6, <1>7, <1>8, <1>9, <1>10, <1>11, <1>12, <1>13,
     <1>14, <1>15, <1>16, <1>17, <1>18, <1>19, <1>20, <1>21, <1>22, <1>23, <1>24,
     <1>25, <1>26, <1>27, <1>28, <1>29, <1>30, <1>31, <1>32, <1>33, <1>34, <1>35
     DEF Next, ControllerStep, LifecycleStep, PipelineStep, Surroundings


(* The tail after a hand-over of events: the old entries, then a prefix.   *)
LEMMA EventsJoin ==
  ASSUME TypeOK, NEW evs \in Seq(Events), NEW n \in 0..Len(evs)
  PROVE  /\ DOMAIN pipe.queue = 1 .. Len(pipe.queue) /\ Len(pipe.queue) \in Nat
         /\ DOMAIN (pipe.queue \o SubSeq(evs, 1, n)) = 1 .. (Len(pipe.queue) + n)
         /\ \A i \in DOMAIN pipe.queue : (pipe.queue \o SubSeq(evs, 1, n))[i] = pipe.queue[i]
         /\ \A j \in 1..n :
              (pipe.queue \o SubSeq(evs, 1, n))[Len(pipe.queue) + j] = evs[j]
<1> DEFINE q == pipe.queue
           f == SubSeq(evs, 1, n)
<1>1. q \in Seq(Entries)
  BY DEF TypeOK, Pipes
<1>2. f \in Seq(Events) /\ Len(f) = n /\ \A j \in 1..n : f[j] = evs[j]
  BY SubSeqProperties
<1> SUFFICES /\ DOMAIN q = 1 .. Len(q) /\ Len(q) \in Nat
             /\ DOMAIN (q \o f) = 1 .. (Len(q) + n)
             /\ \A i \in DOMAIN q : (q \o f)[i] = q[i]
             /\ \A j \in 1..n : (q \o f)[Len(q) + j] = evs[j]
  OBVIOUS
<1> HIDE DEF q, f
<1>3. f \in Seq(Entries)
  BY <1>2 DEF Entries
<1>4. Len(q) \in Nat /\ DOMAIN q = 1 .. Len(q) /\ DOMAIN f = 1 .. n /\ n \in Nat
  BY <1>1, <1>2, <1>3
<1>5. /\ q \o f \in Seq(Entries) /\ Len(q \o f) = Len(q) + n
      /\ \A i \in 1 .. (Len(q) + n) : (q \o f)[i] = IF i <= Len(q) THEN q[i] ELSE f[i - Len(q)]
  BY <1>1, <1>2, <1>3, <1>4, ConcatProperties
<1>6. ASSUME NEW j \in 1..n PROVE (q \o f)[Len(q) + j] = evs[j]
  <2>1. Len(q) + j \in 1 .. (Len(q) + n) /\ ~(Len(q) + j <= Len(q)) /\ Len(q) + j - Len(q) = j
    BY <1>4
  <2>2. (q \o f)[Len(q) + j] = f[j]
    BY <1>5, <2>1
  <2> QED  BY <1>2, <2>2
<1>7. ASSUME NEW i \in DOMAIN q PROVE (q \o f)[i] = q[i]
  BY <1>4, <1>5
<1>8. DOMAIN (q \o f) = 1 .. (Len(q) + n)
  BY <1>5
<1> QED
  BY <1>4, <1>6, <1>7, <1>8

(* The ways in which the tail changes.                                     *)
Popped == pipe.queue # <<>> /\ pipe'.queue = Tail(pipe.queue)
Joined(e) == pipe'.queue = Append(pipe.queue, e)
Handed(evs) == \E n \in 0..Len(evs) : pipe'.queue = pipe.queue \o SubSeq(evs, 1, n)

(* Where each entry of the new tail comes from.                            *)
LEMMA PoppedEntries ==
  ASSUME TypeOK, Popped
  PROVE  \A i \in DOMAIN pipe'.queue :
           i + 1 \in DOMAIN pipe.queue /\ pipe'.queue[i] = pipe.queue[i + 1] /\ i \in Nat
BY TailTaken DEF Popped

(* What the tail holds after an entry joined: the old entries, then it.    *)
LEMMA JoinedEntries ==
  ASSUME TypeOK, NEW e \in Entries, Joined(e)
  PROVE  /\ \A i \in DOMAIN pipe'.queue :
              \/ i \in DOMAIN pipe.queue /\ pipe'.queue[i] = pipe.queue[i]
              \/ i = Len(pipe.queue) + 1 /\ pipe'.queue[i] = e
         /\ \A i \in DOMAIN pipe.queue : i \in DOMAIN pipe'.queue
         /\ \A i \in DOMAIN pipe.queue : i < Len(pipe.queue) + 1
BY EntryJoins DEF Joined

(* What the tail holds after notifications were handed to it.              *)
LEMMA HandedEntries ==
  ASSUME TypeOK, NEW evs \in Seq(Events), Handed(evs)
  PROVE  \A i \in DOMAIN pipe'.queue :
           \/ i \in DOMAIN pipe.queue /\ pipe'.queue[i] = pipe.queue[i]
           \/ \E j \in DOMAIN evs : pipe'.queue[i] = evs[j]
<1>1. PICK n \in 0..Len(evs) : pipe'.queue = pipe.queue \o SubSeq(evs, 1, n)
  BY DEF Handed
<1> DEFINE q == pipe.queue
           r == pipe'.queue
<1>2. \A i \in DOMAIN q : r[i] = q[i]
  BY <1>1, EventsJoin
<1>3. SUFFICES ASSUME NEW i \in DOMAIN r, i \notin DOMAIN q
               PROVE  \E j \in DOMAIN evs : r[i] = evs[j]
  BY <1>2
<1>4. i \in 1 .. (Len(pipe.queue) + n) /\ ~(i \in 1 .. Len(pipe.queue))
  BY <1>1, <1>3, EventsJoin
<1> DEFINE j == i - Len(pipe.queue)
<1>5. j \in 1..n /\ i = Len(pipe.queue) + j
  BY <1>4, EventsJoin
<1>6. pipe'.queue[i] = evs[j]
  BY <1>1, <1>5, EventsJoin
<1>7. j \in DOMAIN evs
  BY <1>5
<1> QED
  BY <1>6, <1>7

(* The steps that change the tail, each in its way.                        *)
LEMMA NotifyCases ==
  ASSUME TypeOK, Notify
  PROVE  \/ Fatal /\ UNCHANGED <<held, pipe>>
         \/ \E e \in Events :
              /\ e.gen = link.gen /\ e.n = link.sent + 1 /\ UNCHANGED <<ctl, life, step>>
              /\ \/ Direct /\ held' = held /\ pipe' = Consumed(pipe, <<e>>)
                 \/ ~Direct /\ held' = Append(held, e) /\ pipe' = pipe
<1>1. PICK s \in Sessions, f \in {"plain", "trouble"} :
        LET ev == [kind |-> "event", s |-> s, gen |-> link.gen, n |-> link.sent + 1,
                   effect |-> f]
        IN  \/ Direct /\ pipe' = Consumed(pipe, <<ev>>) /\ UNCHANGED <<ctl, held, life, step>>
            \/ ~Direct /\ held' = Append(held, ev) /\ UNCHANGED <<ctl, life, step, pipe>>
            \/ Fatal /\ UNCHANGED <<held, pipe>>
  BY DEF Notify
<1> DEFINE ev == [kind |-> "event", s |-> s, gen |-> link.gen, n |-> link.sent + 1,
                  effect |-> f]
<1>2. ev \in Events /\ ev.gen = link.gen /\ ev.n = link.sent + 1
  BY DEF TypeOK, Links, Events
<1>3. \/ Direct /\ pipe' = Consumed(pipe, <<ev>>) /\ UNCHANGED <<ctl, held, life, step>>
      \/ ~Direct /\ held' = Append(held, ev) /\ UNCHANGED <<ctl, life, step, pipe>>
      \/ Fatal /\ UNCHANGED <<held, pipe>>
  BY <1>1
<1> HIDE DEF ev
<1> QED
  BY <1>2, <1>3

(* A notification is handed to the pipeline at once or held.               *)
LEMMA HandedByNotify ==
  ASSUME TypeOK, Notify
  PROVE  \/ pipe' = pipe
         \/ /\ Direct /\ UNCHANGED <<ctl, held, life, step>>
            /\ \E e \in Events : /\ e.gen = link.gen /\ e.n = link.sent + 1
                                 /\ pipe' = Consumed(pipe, <<e>>)
BY NotifyCases

(* What the pipeline takes of some notifications is the first of them.     *)
LEMMA ConsumedIsHanded ==
  ASSUME TypeOK, NEW evs \in Seq(Events), pipe' = Consumed(pipe, evs)
  PROVE  Handed(evs) /\ pipe'.got = pipe.got
BY ConsumedPrefix DEF Handed

(* Every step of the pipeline takes the head of the tail.                  *)
LEMMA PipePops ==
  ASSUME TypeOK, PipelineStep
  PROVE  Popped
<1>1. CASE PipeEvent
  BY <1>1 DEF PipeEvent, Popped, TypeOK, Pipes
<1>2. CASE PipeFence
  BY <1>2 DEF PipeFence, Popped, TypeOK, Pipes
<1>3. CASE PipeUnmanage
  BY <1>3 DEF PipeUnmanage, Popped, TypeOK, Pipes
<1> QED
  BY <1>1, <1>2, <1>3 DEF PipelineStep

(* A reading of a thread queues the fence of its connection.               *)
LEMMA ObserveJoins ==
  ASSUME TypeOK, Observe
  PROVE  /\ [kind |-> "fence", gen |-> link.gen] \in Entries
         /\ Joined([kind |-> "fence", gen |-> link.gen])
<1>1. [kind |-> "fence", gen |-> link.gen] \in Entries
  BY DEF Entries, Fences, TypeOK, Links
<1> QED
  BY <1>1 DEF Observe, Joined, TypeOK, Pipes

(* An accepted removal queues an entry of its own.                         *)
LEMMA RemovalJoins ==
  ASSUME TypeOK, NEW s \in Sessions, QueueUnmanage(s)
  PROVE  \E e \in Removals : e \in Entries /\ e.kind = "unmanage" /\ Joined(e)
<1> DEFINE e == [kind |-> "unmanage", s |-> s]
<1>1. e \in Removals /\ e \in Entries /\ e.kind = "unmanage"
  BY DEF Entries, Removals
<1>2. pipe' = [pipe EXCEPT !.queue = Append(@, e)]
  BY DEF QueueUnmanage
<1> HIDE DEF e
<1>3. Joined(e)
  BY <1>2 DEF Joined, TypeOK, Pipes
<1> QED
  BY <1>1, <1>3


(* The tail holds no entry of a later connection.                          *)
LEMMA EntriesKnownKept ==
  ASSUME TypeOK, InPlace, EntriesKnown, [Next]_vars
  PROVE  EntriesKnown'
<1>1. CASE Start \/ ThrowFatal \/ BeginCleanup \/ Continue \/ Backoff \/ Handshake \/ Arm \/
          PrepareGap \/ CleanupDone \/ EventsRefuse \/ ReconcileDone \/ Barrier \/
          ReadyDone \/ SealStartupUnavailable \/ Tick \/ Lose \/ Incompatible \/
          ProtocolIssue \/ ConnectRefused \/ CleanupFails \/ StepFails \/ UNCHANGED
          vars \/ (\E s \in Sessions : Mark(s) \/ CommitBoundary(s) \/ Resume(s) \/
          Publish(s) \/ AskUnmanage(s))
  <2>1. /\ pipe'.queue = pipe.queue /\ link'.gen = link.gen
        /\ held' = held \/ held' = <<>>
    BY <1>1
    DEF Start, ThrowFatal, Stop, BeginCleanup, Continue, Backoff, Handshake, Arm,
       PrepareGap, CleanupDone, EventsRefuse, FailStep, ReconcileDone, Barrier,
       ReadyDone, SealStartupUnavailable, Mark, CommitBoundary, Resume, Publish,
       Tick, Lose, Incompatible, ProtocolIssue, Fatal, AskUnmanage,
       ConnectRefused, CleanupFails, StepFails, vars, TypeOK, Links, Pipes
  <2> QED  BY <2>1 DEF EntriesKnown
<1>2. CASE Dial
  <2>1. link'.gen = link.gen + 1 /\ link.gen \in Nat /\ pipe'.queue = pipe.queue /\ held' = <<>>
    BY <1>2 DEF Dial, Connecting, TypeOK, Links, Pipes, InPlace, LossInPlace, PassingInPlace
  <2>2. \A i \in DOMAIN pipe.queue :
          pipe.queue[i].kind \in {"event", "fence"} => pipe.queue[i].gen \in Nat
    BY DEF TypeOK, Pipes, Entries, Events, Fences, Removals
  <2> QED  BY <2>1, <2>2 DEF EntriesKnown
<1>3. CASE Observe
  <2>1. UNCHANGED <<link, held>>
    BY <1>3 DEF Observe
  <2> DEFINE e == [kind |-> "fence", gen |-> link.gen]
  <2>2. e \in Entries /\ Joined(e) /\ e.gen = link.gen /\ link.gen \in Nat
    BY <1>3, ObserveJoins DEF TypeOK, Links
  <2> HIDE DEF e
  <2>3. \A i \in DOMAIN pipe'.queue :
          \/ i \in DOMAIN pipe.queue /\ pipe'.queue[i] = pipe.queue[i]
          \/ i = Len(pipe.queue) + 1 /\ pipe'.queue[i] = e
    BY <2>2, JoinedEntries
  <2> QED  BY <2>1, <2>2, <2>3 DEF EntriesKnown
<1>4. CASE ResubscribeDone
  <2>1. link' = link /\ held' = <<>> /\ held \in Seq(Events) /\ pipe' = Consumed(pipe, held)
    BY <1>4 DEF ResubscribeDone, TypeOK
  <2>2. \A i \in DOMAIN pipe'.queue :
          \/ i \in DOMAIN pipe.queue /\ pipe'.queue[i] = pipe.queue[i]
          \/ \E j \in DOMAIN held : pipe'.queue[i] = held[j]
    BY <2>1, ConsumedIsHanded, HandedEntries
  <2>3. link.gen \in Nat
    BY DEF TypeOK, Links
  <2> QED  BY <2>1, <2>2, <2>3 DEF EntriesKnown
<1>5. CASE PipeEvent
  <2>1. Popped /\ UNCHANGED <<link, held>>
    BY <1>5, PipePops DEF PipelineStep, PipeEvent
  <2>2. \A i \in DOMAIN pipe'.queue :
          i + 1 \in DOMAIN pipe.queue /\ pipe'.queue[i] = pipe.queue[i + 1]
    BY <2>1, PoppedEntries
  <2> QED  BY <2>1, <2>2 DEF EntriesKnown
<1>6. CASE PipeFence
  <2>1. Popped /\ UNCHANGED <<link, held>>
    BY <1>6, PipePops DEF PipelineStep, PipeFence
  <2>2. \A i \in DOMAIN pipe'.queue :
          i + 1 \in DOMAIN pipe.queue /\ pipe'.queue[i] = pipe.queue[i + 1]
    BY <2>1, PoppedEntries
  <2> QED  BY <2>1, <2>2 DEF EntriesKnown
<1>7. CASE PipeUnmanage
  <2>1. Popped /\ UNCHANGED <<link, held>>
    BY <1>7, PipePops DEF PipelineStep, PipeUnmanage
  <2>2. \A i \in DOMAIN pipe'.queue :
          i + 1 \in DOMAIN pipe.queue /\ pipe'.queue[i] = pipe.queue[i + 1]
    BY <2>1, PoppedEntries
  <2> QED  BY <2>1, <2>2 DEF EntriesKnown
<1>8. CASE Notify
  <2>1. link'.gen = link.gen /\ link.gen \in Nat
    BY <1>8 DEF Notify, TypeOK, Links
  <2>2. \A i \in DOMAIN held' : held'[i].gen = link.gen
    <3>1. CASE held' = held
      BY <3>1 DEF EntriesKnown
    <3>2. ASSUME NEW s \in Sessions, NEW f \in {"plain", "trouble"},
                 held' = Append(held, [kind |-> "event", s |-> s, gen |-> link.gen,
                                       n |-> link.sent + 1, effect |-> f])
          PROVE  \A i \in DOMAIN held' : held'[i].gen = link.gen
      <4> DEFINE e == [kind |-> "event", s |-> s, gen |-> link.gen, n |-> link.sent + 1,
                       effect |-> f]
      <4>1. held \in Seq(Events) /\ e.gen = link.gen /\ held' = Append(held, e)
        BY <3>2 DEF TypeOK
      <4> HIDE DEF e
      <4> QED  BY <4>1 DEF EntriesKnown
    <3> QED  BY <1>8, <3>1, <3>2 DEF Notify
  <2>3. CASE pipe' = pipe
    BY <2>1, <2>2, <2>3 DEF EntriesKnown
  <2>4. ASSUME NEW e \in Events, e.gen = link.gen, pipe' = Consumed(pipe, <<e>>)
        PROVE  EntriesKnown'
    <3>1. <<e>> \in Seq(Events) /\ DOMAIN <<e>> = {1} /\ <<e>>[1] = e
      OBVIOUS
    <3>2. \A i \in DOMAIN pipe'.queue :
            \/ i \in DOMAIN pipe.queue /\ pipe'.queue[i] = pipe.queue[i]
            \/ pipe'.queue[i] = e
      BY <2>4, <3>1, ConsumedIsHanded, HandedEntries
    <3> QED  BY <2>1, <2>2, <2>4, <3>2 DEF EntriesKnown
  <2> QED  BY <1>8, <2>3, <2>4, HandedByNotify
<1>9. ASSUME NEW s \in Sessions, QueueUnmanage(s) PROVE EntriesKnown'
  <2>1. UNCHANGED <<link, held>>
    BY <1>9 DEF QueueUnmanage
  <2>2. PICK e \in Removals : e \in Entries /\ e.kind = "unmanage" /\ Joined(e)
    BY <1>9, RemovalJoins
  <2>3. \A i \in DOMAIN pipe'.queue :
          \/ i \in DOMAIN pipe.queue /\ pipe'.queue[i] = pipe.queue[i]
          \/ i = Len(pipe.queue) + 1 /\ pipe'.queue[i] = e
    BY <2>2, JoinedEntries
  <2> QED  BY <2>1, <2>2, <2>3 DEF EntriesKnown
<1> QED
  BY <1>1, <1>2, <1>3, <1>4, <1>5, <1>6, <1>7, <1>8, <1>9
     DEF Next, ControllerStep, LifecycleStep, PipelineStep, Surroundings

(* The fence stays behind the events that were queued before it.           *)
LEMMA FenceHoldsKept ==
  ASSUME TypeOK, InPlace, EntriesKnown, FenceHolds, [Next]_vars
  PROVE  FenceHolds'
<1>1. CASE Start
  BY <1>1 DEF Start, NoStep, FenceHolds, FenceOf, IsEvent, InPlace, LossInPlace, TypeOK,
     Controls, Links, Steps, Stages, Cycle
<1>2. CASE ThrowFatal
  BY <1>2 DEF ThrowFatal, Stop, NoStep, FenceHolds, FenceOf, IsEvent, InPlace,
     LossInPlace, TypeOK, Controls, Links, Steps, Stages, Cycle
<1>3. CASE BeginCleanup
  BY <1>3 DEF BeginCleanup, NoStep, LossToRecord, FenceHolds, FenceOf, IsEvent, InPlace,
     LossInPlace, TypeOK, Controls, Links, Steps, Stages, Cycle
<1>4. CASE Continue
  BY <1>4 DEF Continue, LossToRecord, FenceHolds, FenceOf, IsEvent, InPlace,
     LossInPlace, TypeOK, Controls, Links, Steps, Stages, Cycle
<1>5. CASE Backoff
  BY <1>5 DEF Backoff, NoStep, FenceHolds, FenceOf, IsEvent, InPlace, LossInPlace,
     TypeOK, Controls, Links, Steps, Stages, Cycle
<1>6. CASE Dial
  <2>1. link'.gen = link.gen + 1 /\ link.gen \in Nat /\ pipe'.queue = pipe.queue
    BY <1>6 DEF Dial, TypeOK, Links, Pipes
  <2>2. ctl.at = "connecting" /\ ctl' = ctl
    BY <1>6 DEF Dial, Connecting
  <2>3. \A i \in DOMAIN pipe.queue : pipe.queue[i].kind = "fence" => pipe.queue[i].gen <= link.gen
    BY DEF EntriesKnown
  <2>4. \A i \in DOMAIN pipe'.queue : ~FenceOf(i)'
    BY <2>1, <2>3 DEF FenceOf
  <2> QED  BY <2>2, <2>4 DEF FenceHolds
<1>7. CASE Handshake
  <2>1. /\ ctl.at = "connecting" /\ step.stage = "handshake" /\ UNCHANGED <<link, pipe>>
        /\ ctl'.at = "reconcile" /\ step'.stage = "start"
    BY <1>7 DEF Handshake, Connecting, NoStep, TypeOK, Controls
  <2> QED  BY <2>1 DEF FenceHolds, FenceOf
<1>8. CASE Arm
  BY <1>8 DEF Arm, FenceHolds, FenceOf, IsEvent, InPlace, LossInPlace, TypeOK, Controls,
     Links, Steps, Stages, Cycle
<1>9. CASE PrepareGap
  BY <1>9 DEF PrepareGap, At, FenceHolds, FenceOf, IsEvent, InPlace, LossInPlace,
     TypeOK, Controls, Links, Steps, Stages, Cycle
<1>10. CASE CleanupDone
  BY <1>10 DEF CleanupDone, At, NoStep, FenceHolds, FenceOf, IsEvent, InPlace,
     LossInPlace, TypeOK, Controls, Links, Steps, Stages, Cycle
<1>11. CASE Observe
  <2>1. /\ UNCHANGED <<ctl, link>> /\ ctl.at = "reconcile" /\ step'.stage = "fence"
        /\ step.stage \in {"start", "mark"}
    BY <1>11 DEF Observe, GapReady, At
  <2> DEFINE e == [kind |-> "fence", gen |-> link.gen]
  <2>2. e \in Entries /\ Joined(e) /\ e.kind = "fence"
    BY <1>11, ObserveJoins
  <2> HIDE DEF e
  <2>3. /\ \A i \in DOMAIN pipe'.queue :
             \/ i \in DOMAIN pipe.queue /\ pipe'.queue[i] = pipe.queue[i]
             \/ i = Len(pipe.queue) + 1 /\ pipe'.queue[i] = e
    BY <2>2, JoinedEntries
  <2>4. \A i \in DOMAIN pipe.queue : ~FenceOf(i)
    BY <2>1 DEF FenceHolds
  <2>5. ASSUME NEW i \in DOMAIN pipe'.queue, NEW j \in DOMAIN pipe'.queue, FenceOf(i)', i < j
        PROVE  ~IsEvent(j)'
    <3>1. i = Len(pipe.queue) + 1
      BY <2>1, <2>3, <2>4, <2>5 DEF FenceOf
    <3>2. pipe'.queue[j] = e
      BY <2>2, <2>3, <2>5, <3>1, JoinedEntries, EntryJoins
    <3> QED  BY <2>2, <3>2 DEF IsEvent
  <2> QED  BY <2>1, <2>5 DEF FenceHolds
<1>12. CASE EventsRefuse
  BY <1>12 DEF EventsRefuse, FailStep, Stop, NoStep, GapReady, At, FenceHolds, FenceOf,
     IsEvent, InPlace, LossInPlace, TypeOK, Controls, Links, Steps, Stages, Cycle
<1>13. CASE ReconcileDone
  BY <1>13 DEF ReconcileDone, At, FenceHolds, FenceOf, IsEvent, InPlace, LossInPlace,
     TypeOK, Controls, Links, Steps, Stages, Cycle
<1>14. CASE ResubscribeDone
  <2>1. ctl'.at = "ready"
    BY <1>14 DEF ResubscribeDone, TypeOK, Controls
  <2> QED  BY <2>1 DEF FenceHolds
<1>15. CASE Barrier
  BY <1>15 DEF Barrier, At, FenceHolds, FenceOf, IsEvent, InPlace, LossInPlace, TypeOK,
     Controls, Links, Steps, Stages, Cycle
<1>16. CASE ReadyDone
  BY <1>16 DEF ReadyDone, At, NoStep, FenceHolds, FenceOf, IsEvent, InPlace,
     LossInPlace, TypeOK, Controls, Links, Steps, Stages, Cycle
<1>17. CASE SealStartupUnavailable
  BY <1>17 DEF SealStartupUnavailable, FenceHolds, FenceOf, IsEvent, InPlace,
     LossInPlace, TypeOK, Controls, Links, Steps, Stages, Cycle
<1>18. ASSUME NEW s \in Sessions, Mark(s) PROVE FenceHolds'
  BY <1>18 DEF Mark, FenceHolds, FenceOf, IsEvent, InPlace, LossInPlace, TypeOK,
     Controls, Links, Steps, Stages, Cycle
<1>19. ASSUME NEW s \in Sessions, CommitBoundary(s) PROVE FenceHolds'
  BY <1>19 DEF CommitBoundary, At, FenceHolds, FenceOf, IsEvent, InPlace, LossInPlace,
     TypeOK, Controls, Links, Steps, Stages, Cycle
<1>20. ASSUME NEW s \in Sessions, Resume(s) PROVE FenceHolds'
  BY <1>20 DEF Resume, At, FenceHolds, FenceOf, IsEvent, InPlace, LossInPlace, TypeOK,
     Controls, Links, Steps, Stages, Cycle
<1>21. ASSUME NEW s \in Sessions, Publish(s) PROVE FenceHolds'
  BY <1>21 DEF Publish, At, FenceHolds, FenceOf, IsEvent, InPlace, LossInPlace, TypeOK,
     Controls, Links, Steps, Stages, Cycle
<1>22. CASE PipeEvent
  <2>1. Popped /\ UNCHANGED <<ctl, link, step>>
    BY <1>22, PipePops DEF PipelineStep, PipeEvent
  <2>2. \A i \in DOMAIN pipe'.queue :
          i + 1 \in DOMAIN pipe.queue /\ pipe'.queue[i] = pipe.queue[i + 1] /\ i \in Nat
    BY <2>1, PoppedEntries
  <2> QED  BY <2>1, <2>2 DEF FenceHolds, FenceOf, IsEvent
<1>23. CASE PipeFence
  <2>1. Popped /\ UNCHANGED <<ctl, link>> /\ pipe.queue # <<>>
    BY <1>23, PipePops DEF PipelineStep, PipeFence
  <2>2. \A i \in DOMAIN pipe'.queue :
          i + 1 \in DOMAIN pipe.queue /\ pipe'.queue[i] = pipe.queue[i + 1] /\ i \in Nat /\ i # 0
    BY <2>1, PoppedEntries, TailTaken DEF Popped
  <2>3. CASE step' = step
    BY <2>1, <2>2, <2>3 DEF FenceHolds, FenceOf, IsEvent
  <2>4. CASE step' # step
    <3>1. /\ ctl.at = "reconcile" /\ Head(pipe.queue).kind = "fence"
          /\ Head(pipe.queue).gen = link.gen /\ step'.stage \in {"commit", "refused"}
      BY <1>23, <2>4 DEF PipeFence, TypeOK, Steps
    <3>2. 1 \in DOMAIN pipe.queue /\ FenceOf(1)
      BY <2>1, <3>1, TailTaken DEF FenceOf
    <3>3. step.stage \in {"fence", "commit", "refused"}
      BY <3>1, <3>2 DEF FenceHolds, InPlace, LossInPlace
    <3>4. \A i \in DOMAIN pipe.queue : 1 < i => ~IsEvent(i)
      BY <3>1, <3>2, <3>3 DEF FenceHolds
    <3>5. \A i \in DOMAIN pipe'.queue : 1 < i + 1
      BY <2>2
    <3>6. \A i \in DOMAIN pipe'.queue : ~IsEvent(i)'
      BY <2>2, <3>4, <3>5 DEF IsEvent
    <3> QED  BY <2>1, <3>1, <3>6 DEF FenceHolds
  <2> QED  BY <2>3, <2>4
<1>24. CASE PipeUnmanage
  <2>1. Popped /\ UNCHANGED <<ctl, link, step>>
    BY <1>24, PipePops DEF PipelineStep, PipeUnmanage
  <2>2. \A i \in DOMAIN pipe'.queue :
          i + 1 \in DOMAIN pipe.queue /\ pipe'.queue[i] = pipe.queue[i + 1] /\ i \in Nat
    BY <2>1, PoppedEntries
  <2> QED  BY <2>1, <2>2 DEF FenceHolds, FenceOf, IsEvent
<1>25. CASE Tick
  BY <1>25 DEF Tick, FenceHolds, FenceOf, IsEvent, InPlace, LossInPlace, TypeOK,
     Controls, Links, Steps, Stages, Cycle
<1>26. CASE Lose
  BY <1>26 DEF Lose, NoStep, FenceHolds, FenceOf, IsEvent, InPlace, LossInPlace, TypeOK,
     Controls, Links, Steps, Stages, Cycle
<1>27. CASE Incompatible
  BY <1>27 DEF Incompatible, Stop, NoStep, Connecting, FenceHolds, FenceOf, IsEvent,
     InPlace, LossInPlace, TypeOK, Controls, Links, Steps, Stages, Cycle
<1>28. CASE ProtocolIssue
  BY <1>28 DEF ProtocolIssue, Fatal, NoStep, FenceHolds, FenceOf, IsEvent, InPlace,
     LossInPlace, TypeOK, Controls, Links, Steps, Stages, Cycle
<1>29. CASE Notify
  <2>1. link'.gen = link.gen
    BY <1>29 DEF Notify, TypeOK, Links
  <2>2. CASE Direct /\ UNCHANGED <<ctl, held, life, step>>
    <3>1. ctl.at \in {"arming", "waiting", "ready", "loop"}
      BY <2>2 DEF Direct, InPlace, PassingInPlace
    <3> QED  BY <2>2, <3>1 DEF FenceHolds
  <2>3. CASE pipe' = pipe /\ UNCHANGED <<ctl, life, step>>
    BY <2>1, <2>3 DEF FenceHolds, FenceOf, IsEvent
  <2>4. CASE Fatal
    BY <2>4 DEF Fatal, FenceHolds, TypeOK, Controls, Cycle
  <2> QED  BY <1>29, <2>2, <2>3, <2>4 DEF Notify
<1>30. ASSUME NEW s \in Sessions, AskUnmanage(s) PROVE FenceHolds'
  BY <1>30 DEF AskUnmanage, FenceHolds, FenceOf, IsEvent, InPlace, LossInPlace, TypeOK,
     Controls, Links, Steps, Stages, Cycle
<1>31. ASSUME NEW s \in Sessions, QueueUnmanage(s) PROVE FenceHolds'
  <2>1. UNCHANGED <<ctl, link, step>>
    BY <1>31 DEF QueueUnmanage
  <2>2. PICK e \in Removals : e \in Entries /\ e.kind = "unmanage" /\ Joined(e)
    BY <1>31, RemovalJoins
  <2>3. \A i \in DOMAIN pipe'.queue :
          \/ i \in DOMAIN pipe.queue /\ pipe'.queue[i] = pipe.queue[i]
          \/ i = Len(pipe.queue) + 1 /\ pipe'.queue[i] = e
    BY <2>2, JoinedEntries
  <2> QED  BY <2>1, <2>2, <2>3 DEF FenceHolds, FenceOf, IsEvent
<1>32. CASE ConnectRefused
  BY <1>32 DEF ConnectRefused, Connecting, NoStep, FenceHolds, FenceOf, IsEvent,
     InPlace, LossInPlace, TypeOK, Controls, Links, Steps, Stages, Cycle
<1>33. CASE CleanupFails
  BY <1>33 DEF CleanupFails, NoStep, FenceHolds, FenceOf, IsEvent, InPlace, LossInPlace,
     TypeOK, Controls, Links, Steps, Stages, Cycle
<1>34. CASE StepFails
  BY <1>34 DEF StepFails, FailStep, Stop, NoStep, FenceHolds, FenceOf, IsEvent, InPlace,
     LossInPlace, TypeOK, Controls, Links, Steps, Stages, Cycle
<1>35. CASE UNCHANGED vars
  BY <1>35 DEF vars, FenceHolds, FenceOf, IsEvent,
     InPlace, LossInPlace, TypeOK, Controls, Links, Steps, Stages, Cycle
<1> QED
  BY <1>1, <1>2, <1>3, <1>4, <1>5, <1>6, <1>7, <1>8, <1>9, <1>10, <1>11, <1>12, <1>13,
     <1>14, <1>15, <1>16, <1>17, <1>18, <1>19, <1>20, <1>21, <1>22, <1>23, <1>24, <1>25,
     <1>26, <1>27, <1>28, <1>29, <1>30, <1>31, <1>32, <1>33, <1>34, <1>35
     DEF Next, ControllerStep, LifecycleStep, PipelineStep, Surroundings


(* Whom the queued events belong to, as the tail and the sessions change.  *)
LEMMA BelongWorn ==
  ASSUME TypeOK, EventsBelong, Worn, pipe'.queue = pipe.queue \/ Popped
  PROVE  EventsBelong'
<1>1. ASSUME NEW i \in DOMAIN pipe'.queue
      PROVE  \E j \in DOMAIN pipe.queue : pipe'.queue[i] = pipe.queue[j]
  BY PoppedEntries
<1>2. \A j \in DOMAIN pipe.queue : IsEvent(j) => pipe.queue[j].s \in Sessions
  BY DEF TypeOK, Pipes, Entries, Events, Fences, Removals, IsEvent
<1> SUFFICES ASSUME NEW i \in DOMAIN pipe'.queue, IsEvent(i)', Managed(pipe.queue[i].s)'
             PROVE  sess'[pipe'.queue[i].s].fence = pipe'.queue[i].gen
  BY DEF EventsBelong
<1>3. PICK j \in DOMAIN pipe.queue : pipe'.queue[i] = pipe.queue[j]
  BY <1>1
<1> DEFINE s == pipe.queue[j].s
<1>4. IsEvent(j) /\ s \in Sessions
  BY <1>2, <1>3 DEF IsEvent
<1>5. sess'[s].here /\ ~sess'[s].archived /\ sess'[s].selected
  BY <1>3 DEF Managed
<1>6. Managed(s) /\ sess'[s].fence = sess[s].fence
  BY <1>4, <1>5 DEF Managed, Worn
<1> QED
  BY <1>3, <1>4, <1>6 DEF EventsBelong

(* Steps that leave the tail and every boundary alone.                     *)
LEMMA BelongKept ==
  ASSUME TypeOK, EventsBelong, pipe'.queue = pipe.queue,
         \A t \in Sessions :
           /\ sess'[t].here = sess[t].here /\ sess'[t].selected = sess[t].selected
           /\ sess'[t].archived = sess[t].archived /\ sess'[t].fence = sess[t].fence
  PROVE  EventsBelong'
<1>1. \A j \in DOMAIN pipe.queue : IsEvent(j) => pipe.queue[j].s \in Sessions
  BY DEF TypeOK, Pipes, Entries, Events, Fences, Removals, IsEvent
<1> QED
  BY <1>1 DEF EventsBelong, IsEvent, Managed

(* Events of the open connection are handed over only when every listed    *)
(* session carries its boundary.                                           *)
LEMMA BelongHanded ==
  ASSUME TypeOK, EventsBelong, NEW evs \in Seq(Events), Handed(evs), UNCHANGED sess,
         \A i \in DOMAIN evs : evs[i].gen = link.gen,
         \A s \in Listed : sess[s].fence = link.gen
  PROVE  EventsBelong'
<1> SUFFICES ASSUME NEW i \in DOMAIN pipe'.queue, IsEvent(i)', Managed(pipe.queue[i].s)'
             PROVE  sess[pipe'.queue[i].s].fence = pipe'.queue[i].gen
  BY DEF EventsBelong
<1>1. CASE i \in DOMAIN pipe.queue /\ pipe'.queue[i] = pipe.queue[i]
  BY <1>1 DEF EventsBelong, IsEvent, Managed
<1>2. ASSUME NEW j \in DOMAIN evs, pipe'.queue[i] = evs[j]
      PROVE  sess[pipe'.queue[i].s].fence = pipe'.queue[i].gen
  <2>1. evs[j] \in Events
    OBVIOUS
  <2>2. evs[j].s \in Listed
    BY <1>2, <2>1 DEF Events, Managed, Listed
  <2> QED  BY <1>2, <2>2
<1> QED
  BY <1>1, <1>2, HandedEntries

(* A queued event belongs to the boundary of its session.                  *)
LEMMA EventsBelongKept ==
  ASSUME TypeOK, InPlace, EntriesKnown, FenceHolds, EventsBelong, Boundaries, [Next]_vars
  PROVE  EventsBelong'
<1>1. CASE Start \/ ThrowFatal \/ BeginCleanup \/ Continue \/ Dial \/ Handshake \/ Arm \/
          PrepareGap \/ CleanupDone \/ EventsRefuse \/ ReconcileDone \/ Barrier \/
          ReadyDone \/ Lose \/ Incompatible \/ ProtocolIssue \/ ConnectRefused \/
          CleanupFails \/ StepFails \/ UNCHANGED vars
  <2>1. pipe'.queue = pipe.queue /\ UNCHANGED sess
    BY <1>1
    DEF Start, ThrowFatal, BeginCleanup, Continue, Dial, Handshake, Arm, PrepareGap,
       CleanupDone, EventsRefuse, ReconcileDone, Barrier, ReadyDone, Lose,
       Incompatible, ProtocolIssue, ConnectRefused, CleanupFails, StepFails,
       vars, TypeOK, Pipes
  <2> QED  BY <2>1, BelongKept
<1>2. CASE Backoff
  <2>1. pipe'.queue = pipe.queue
    BY <1>2 DEF Backoff
  <2>2. Worn
    BY <1>2, RestampWears DEF Backoff
  <2> QED  BY <2>1, <2>2, BelongWorn
<1>3. CASE Observe
  <2>1. UNCHANGED sess
    BY <1>3 DEF Observe
  <2> DEFINE e == [kind |-> "fence", gen |-> link.gen]
  <2>2. e \in Entries /\ Joined(e) /\ e.kind # "event"
    BY <1>3, ObserveJoins
  <2> HIDE DEF e
  <2> QED  BY <2>1, <2>2, JoinedEntries DEF EventsBelong, IsEvent, Managed
<1>4. CASE ResubscribeDone
  <2>1. /\ ctl.at = "resubscribe" /\ pipe' = Consumed(pipe, held) /\ UNCHANGED sess
        /\ held \in Seq(Events)
    BY <1>4 DEF ResubscribeDone, At, TypeOK
  <2>2. \A s \in Listed : sess[s].fence = link.gen
    BY <2>1 DEF Boundaries, BoundaryWritten, Fenced
  <2>3. \A i \in DOMAIN held : held[i].gen = link.gen
    BY DEF EntriesKnown
  <2> QED  BY <2>1, <2>2, <2>3, ConsumedIsHanded, BelongHanded
<1>5. CASE SealStartupUnavailable
  <2>1. pipe'.queue = pipe.queue
    BY <1>5 DEF SealStartupUnavailable
  <2> QED  BY <1>5, <2>1, SealWrites, BelongKept DEF OnlyFresh
<1>6. ASSUME NEW s \in Sessions, Mark(s) PROVE EventsBelong'
  <2>1. pipe'.queue = pipe.queue
    BY <1>6 DEF Mark
  <2> QED  BY <1>6, <2>1, MarkWrites, BelongKept DEF OnlyFresh
<1>7. ASSUME NEW s \in Sessions, CommitBoundary(s) PROVE EventsBelong'
  <2>1. ctl.at = "reconcile" /\ step.stage = "commit" /\ pipe' = pipe
    BY <1>7 DEF CommitBoundary, At
  <2>2. \A i \in DOMAIN pipe.queue : ~IsEvent(i)
    BY <2>1 DEF FenceHolds
  <2> QED  BY <2>1, <2>2 DEF EventsBelong, IsEvent
<1>8. ASSUME NEW s \in Sessions, Resume(s) PROVE EventsBelong'
  <2>1. pipe'.queue = pipe.queue
    BY <1>8 DEF Resume
  <2>2. Worn
    BY <1>8, ResumeWears DEF Resume
  <2> QED  BY <2>1, <2>2, BelongWorn
<1>9. ASSUME NEW s \in Sessions, Publish(s) PROVE EventsBelong'
  <2>1. pipe'.queue = pipe.queue
    BY <1>9 DEF Publish
  <2> QED  BY <1>9, <2>1, PublishWrites, BelongKept DEF OnlyFresh
<1>10. CASE PipeEvent
  <2>1. Popped
    BY <1>10, PipePops DEF PipelineStep
  <2>2. Worn
    BY <1>10, EventWears
  <2> QED  BY <2>1, <2>2, BelongWorn
<1>11. CASE PipeFence
  <2>1. Popped
    BY <1>11, PipePops DEF PipelineStep
  <2>2. Worn
    BY <1>11 DEF PipeFence, Worn
  <2> QED  BY <2>1, <2>2, BelongWorn
<1>12. CASE PipeUnmanage
  <2>1. Popped
    BY <1>12, PipePops DEF PipelineStep
  <2>2. Worn
    BY <1>12, RemovalWears
  <2> QED  BY <2>1, <2>2, BelongWorn
<1>13. CASE Tick
  <2>1. pipe'.queue = pipe.queue
    BY <1>13 DEF Tick
  <2>2. Worn
    BY <1>13, RestampWears DEF Tick
  <2> QED  BY <2>1, <2>2, BelongWorn
<1>14. CASE Notify
  <2>1. UNCHANGED sess
    BY <1>14 DEF Notify
  <2>2. CASE pipe' = pipe
    BY <2>1, <2>2, BelongKept
  <2>3. ASSUME NEW e \in Events, e.gen = link.gen, pipe' = Consumed(pipe, <<e>>), Direct
        PROVE  EventsBelong'
    <3>1. \A s \in Listed : sess[s].fence = link.gen
      <4>1. CASE ctl.admitted # 0
        BY <4>1 DEF Boundaries, AdmittedIsReconciled
      <4>2. CASE ctl.direct # 0
        <5>1. ctl.at = "ready"
          BY <1>14, <4>2 DEF Notify, InPlace, PassingInPlace
        <5> QED  BY <5>1 DEF Boundaries, BoundaryWritten, Fenced
      <4> QED  BY <2>3, <4>1, <4>2 DEF Direct
    <3>2. <<e>> \in Seq(Events) /\ \A i \in DOMAIN <<e>> : <<e>>[i].gen = link.gen
      BY <2>3
    <3> QED  BY <2>1, <2>3, <3>1, <3>2, ConsumedIsHanded, BelongHanded
  <2> QED  BY <1>14, <2>2, <2>3, HandedByNotify
<1>15. ASSUME NEW s \in Sessions, AskUnmanage(s) PROVE EventsBelong'
  <2>1. pipe'.queue = pipe.queue
    BY <1>15 DEF AskUnmanage
  <2>2. Worn
    BY <1>15, AskWears DEF AskUnmanage
  <2> QED  BY <2>1, <2>2, BelongWorn
<1>16. ASSUME NEW s \in Sessions, QueueUnmanage(s) PROVE EventsBelong'
  <2>1. PICK e \in Removals : e \in Entries /\ e.kind = "unmanage" /\ Joined(e)
    BY <1>16, RemovalJoins
  <2>2. \A i \in DOMAIN pipe'.queue : IsEvent(i)' =>
          i \in DOMAIN pipe.queue /\ pipe'.queue[i] = pipe.queue[i]
    BY <2>1, JoinedEntries DEF IsEvent
  <2>3. Worn
    BY <1>16, AskWears
  <2>4. \A i \in DOMAIN pipe.queue : IsEvent(i) => pipe.queue[i].s \in Sessions
    BY DEF TypeOK, Pipes, Entries, Events, Fences, Removals, IsEvent
  <2> QED  BY <2>2, <2>3, <2>4 DEF EventsBelong, IsEvent, Managed, Worn
<1> QED
  BY <1>1, <1>2, <1>3, <1>4, <1>5, <1>6, <1>7, <1>8, <1>9, <1>10, <1>11, <1>12, <1>13,
     <1>14, <1>15, <1>16
     DEF Next, ControllerStep, LifecycleStep, PipelineStep, Surroundings

(* What is stored behind a boundary is of its connection.                  *)
LEMMA BoundarySeparatesKept ==
  ASSUME TypeOK, EventsBelong, BoundarySeparates, [Next]_vars
  PROVE  BoundarySeparates'
<1>1. CASE Start \/ ThrowFatal \/ BeginCleanup \/ Continue \/ Dial \/ Handshake \/ Arm \/
          PrepareGap \/ CleanupDone \/ Observe \/ EventsRefuse \/ ReconcileDone \/
          ResubscribeDone \/ Barrier \/ ReadyDone \/ PipeFence \/ Lose \/
          Incompatible \/ ProtocolIssue \/ Notify \/ ConnectRefused \/ CleanupFails
          \/ StepFails \/ UNCHANGED vars
  <2>1. UNCHANGED sess
    BY <1>1
    DEF Start, ThrowFatal, BeginCleanup, Continue, Dial, Handshake, Arm, PrepareGap,
       CleanupDone, Observe, EventsRefuse, ReconcileDone, ResubscribeDone,
       Barrier, ReadyDone, PipeFence, Lose, Incompatible, ProtocolIssue, Notify,
       ConnectRefused, CleanupFails, StepFails, vars
  <2> QED  BY <2>1 DEF BoundarySeparates
<1>2. CASE Backoff
  <2>1. ASSUME NEW t \in Sessions
        PROVE  sess'[t].since = sess[t].since /\ sess'[t].fence = sess[t].fence
    <3>1. sess'[t] = [sess[t] EXCEPT !.stamp = 0] /\ sess[t] \in Stored
      BY <1>2 DEF Backoff, TypeOK
    <3> QED  BY <3>1 DEF Stored
  <2> QED  BY <2>1 DEF BoundarySeparates
<1>3. CASE SealStartupUnavailable
  BY <1>3, SealWrites DEF BoundarySeparates, OnlyFresh
<1>4. ASSUME NEW s \in Sessions, Mark(s) PROVE BoundarySeparates'
  BY <1>4, MarkWrites DEF BoundarySeparates, OnlyFresh
<1>5. ASSUME NEW s \in Sessions, CommitBoundary(s) PROVE BoundarySeparates'
  BY <1>5, BoundaryWrites DEF BoundarySeparates
<1>6. ASSUME NEW s \in Sessions, Resume(s) PROVE BoundarySeparates'
  <2> DEFINE n == StampAfter(sess[s].stamp)
             r == [sess[s] EXCEPT !.stamp = n]
  <2>1. sess[s] \in Stored /\ n \in 0..2
    BY ClockTyped DEF TypeOK, Stored
  <2>2. Write(s, r)
    BY <1>6 DEF Resume
  <2> HIDE DEF n
  <2>3. r \in Stored /\ r.since = sess[s].since /\ r.fence = sess[s].fence
    BY <2>1 DEF Stored
  <2> HIDE DEF r
  <2> QED  BY <2>2, <2>3, WriteEffect DEF BoundarySeparates
<1>7. ASSUME NEW s \in Sessions, Publish(s) PROVE BoundarySeparates'
  BY <1>7, PublishWrites DEF BoundarySeparates, OnlyFresh
<1>8. CASE PipeEvent
  <2>1. CASE UNCHANGED sess
    BY <2>1 DEF BoundarySeparates
  <2>2. ASSUME NEW s \in Sessions, s = Head(pipe.queue).s, Managed(s),
               sess'[s].since = sess[s].since \cup {Head(pipe.queue).gen},
               \A t \in Sessions \ {s} : sess'[t] = sess[t]
        PROVE  BoundarySeparates'
    <3>1. 1 \in DOMAIN pipe.queue /\ IsEvent(1) /\ pipe.queue[1] = Head(pipe.queue)
      BY <1>8, TailTaken DEF PipeEvent, IsEvent
    <3>2. sess[s].fence = Head(pipe.queue).gen
      BY <2>2, <3>1 DEF EventsBelong
    <3>3. sess'[s].fence = sess[s].fence
      BY <1>8, EventWears DEF Worn
    <3> QED  BY <2>2, <3>2, <3>3 DEF BoundarySeparates
  <2> QED  BY <1>8, <2>1, <2>2, EventWears
<1>9. CASE PipeUnmanage
  BY <1>9, RemovalWears DEF BoundarySeparates, Worn
<1>10. CASE Tick
  <2>1. ASSUME NEW t \in Sessions
        PROVE  sess'[t].since = sess[t].since /\ sess'[t].fence = sess[t].fence
    <3>1. sess'[t] = [sess[t] EXCEPT !.stamp = 0] /\ sess[t] \in Stored
      BY <1>10 DEF Tick, TypeOK
    <3> QED  BY <3>1 DEF Stored
  <2> QED  BY <2>1 DEF BoundarySeparates
<1>11. ASSUME NEW s \in Sessions, AskUnmanage(s) PROVE BoundarySeparates'
  <2>1. PICK a \in {"asked", "valid"} : sess' = [sess EXCEPT ![s].asked = a]
    BY <1>11 DEF AskUnmanage
  <2> QED  BY <2>1 DEF BoundarySeparates, TypeOK, Stored
<1>12. ASSUME NEW s \in Sessions, QueueUnmanage(s) PROVE BoundarySeparates'
  <2>1. PICK a \in {"asked", "valid"} : sess' = [sess EXCEPT ![s].asked = a]
    BY <1>12 DEF QueueUnmanage
  <2> QED  BY <2>1 DEF BoundarySeparates, TypeOK, Stored
<1> QED
  BY <1>1, <1>2, <1>3, <1>4, <1>5, <1>6, <1>7, <1>8, <1>9, <1>10, <1>11, <1>12
     DEF Next, ControllerStep, LifecycleStep, PipelineStep, Surroundings


(* The numbers of the open connection: all of those not yet stored, in the *)
(* order they came.                                                        *)
Numbered(last) ==
  /\ pipe.got <= last
  /\ \A i \in Mine : pipe.queue[i].n \in (pipe.got + 1) .. last
  /\ \A k \in (pipe.got + 1) .. last : \E i \in Mine : pipe.queue[i].n = k
  /\ \A i, j \in Mine : i < j => pipe.queue[i].n < pipe.queue[j].n
HeldNumbered ==
  \A i \in DOMAIN held : held[i].n = link.sent - Len(held) + i
InTurn == Running => Numbered(link.sent - Len(held)) /\ HeldNumbered

(* The two orders, of what is stored and of what is queued and held, are   *)
(* one statement about the connection that runs.                           *)
LEMMA InTurnIs ==
  InTurn <=> (StoredInTurn /\ NoneSkipped)
<1>1. ASSUME InTurn PROVE StoredInTurn /\ NoneSkipped
  BY <1>1 DEF InTurn, StoredInTurn, NoneSkipped, Running, Numbered, HeldNumbered
<1>2. ASSUME StoredInTurn, NoneSkipped PROVE InTurn
  BY <1>2 DEF InTurn, StoredInTurn, NoneSkipped, Running, Numbered, HeldNumbered
<1> QED
  BY <1>1, <1>2

(* The events of the connection that runs stand in the tail with their     *)
(* numbers.                                                                *)
LEMMA MineTyped ==
  ASSUME TypeOK
  PROVE  /\ Mine \subseteq DOMAIN pipe.queue /\ DOMAIN pipe.queue = 1 .. Len(pipe.queue)
         /\ Len(pipe.queue) \in Nat
         /\ \A i \in Mine : i \in Nat /\ pipe.queue[i].n \in Nat
<1>1. pipe.queue \in Seq(Entries)
  BY DEF TypeOK, Pipes
<1>2. ASSUME NEW i \in Mine PROVE i \in Nat /\ pipe.queue[i].n \in Nat
  <2>1. pipe.queue[i] \in Entries /\ pipe.queue[i].kind = "event" /\ i \in Nat
    BY <1>1 DEF Mine
  <2> QED  BY <2>1 DEF Entries, Events, Fences, Removals
<1> QED
  BY <1>1, <1>2 DEF Mine

(* Nothing happens to the numbers.                                         *)
LEMMA InTurnKept ==
  ASSUME TypeOK, InTurn, UNCHANGED <<link, held>>, Running' => Running,
         pipe'.queue = pipe.queue, pipe'.got = pipe.got
  PROVE  InTurn'
<1>1. Mine' = Mine
  BY DEF Mine
<1> QED
  BY <1>1 DEF InTurn, Numbered, HeldNumbered

(* Something that is no event joins the tail.                              *)
LEMMA InTurnJoined ==
  ASSUME TypeOK, InTurn, UNCHANGED <<link, held>>, Running' => Running,
         NEW e \in Entries, e.kind # "event", Joined(e), pipe'.got = pipe.got
  PROVE  InTurn'
<1>1. Mine' = Mine /\ \A i \in Mine : pipe'.queue[i] = pipe.queue[i]
  BY EntryJoins DEF Mine, Joined
<1> QED
  BY <1>1 DEF InTurn, Numbered, HeldNumbered

(* The first entry leaves the tail, and is counted if it is an event of    *)
(* the open connection.                                                    *)
LEMMA InTurnPopped ==
  ASSUME TypeOK, InTurn, UNCHANGED <<link, held>>, Running' => Running, Popped,
         pipe'.got = IF 1 \in Mine THEN pipe.queue[1].n ELSE pipe.got
  PROVE  InTurn'
<1> DEFINE last == link.sent - Len(held)
           q == pipe.queue
           r == pipe'.queue
<1>1. SUFFICES ASSUME Running' PROVE Numbered(last)' /\ HeldNumbered'
  BY DEF InTurn
<1>2. Numbered(last) /\ HeldNumbered /\ last \in Int /\ pipe.got \in Nat
  BY <1>1 DEF InTurn, TypeOK, Links, Pipes
<1>3. HeldNumbered' /\ last' = last
  BY <1>2 DEF HeldNumbered
<1>4. /\ \A i \in DOMAIN r : i + 1 \in DOMAIN q /\ r[i] = q[i + 1] /\ i \in Nat \ {0}
      /\ \A j \in DOMAIN q : j # 1 => j - 1 \in DOMAIN r /\ r[j - 1] = q[j] /\ j \in Nat
      /\ 1 \in DOMAIN q
  BY TailTaken DEF Popped
<1>5. \A i \in Mine' : i \in Nat \ {0} /\ i + 1 \in Mine /\ r[i].n = q[i + 1].n
  BY <1>4 DEF Mine
<1>6. \A j \in Mine : j # 1 => j \in Nat /\ j - 1 \in Mine' /\ r[j - 1].n = q[j].n
  BY <1>4 DEF Mine
<1>7. \A i \in Mine : i \in Nat \ {0} /\ q[i].n \in Nat
  BY MineTyped
<1> HIDE DEF last
<1>8. CASE 1 \notin Mine
  <2>1. pipe'.got = pipe.got
    BY <1>8
  <2>2. \A k \in (pipe.got + 1) .. last : \E i \in Mine' : r[i].n = k
    <3>1. SUFFICES ASSUME NEW k \in (pipe.got + 1) .. last PROVE \E i \in Mine' : r[i].n = k
      OBVIOUS
    <3>2. PICK j \in Mine : q[j].n = k
      BY <1>2, <3>1 DEF Numbered
    <3> QED  BY <1>6, <1>8, <3>2
  <2>3. \A i \in Mine' : r[i].n \in (pipe.got + 1) .. last
    BY <1>2, <1>5 DEF Numbered
  <2>4. \A i, j \in Mine' : i < j => r[i].n < r[j].n
    BY <1>2, <1>5 DEF Numbered
  <2> QED  BY <1>2, <1>3, <2>1, <2>2, <2>3, <2>4 DEF Numbered
<1>9. CASE 1 \in Mine
  <2>1. q[1].n = pipe.got + 1 /\ pipe.got + 1 <= last
    <3>1. q[1].n \in (pipe.got + 1) .. last
      BY <1>2, <1>9 DEF Numbered
    <3>2. pipe.got + 1 \in (pipe.got + 1) .. last
      BY <1>2, <3>1
    <3>3. PICK i \in Mine : q[i].n = pipe.got + 1
      BY <1>2, <3>2 DEF Numbered
    <3>4. CASE i = 1
      BY <1>2, <3>2, <3>3, <3>4
    <3>5. CASE i # 1
      <4>1. 1 < i
        BY <1>7, <3>5
      <4>2. q[1].n < q[i].n
        BY <1>2, <1>9, <4>1 DEF Numbered
      <4> QED  BY <1>2, <1>7, <3>1, <3>3, <4>2
    <3> QED  BY <3>4, <3>5
  <2>2. pipe'.got = pipe.got + 1
    BY <1>9, <2>1
  <2>3. \A i \in Mine' : r[i].n \in (pipe.got + 2) .. last
    <3>1. SUFFICES ASSUME NEW i \in Mine' PROVE r[i].n \in (pipe.got + 2) .. last
      OBVIOUS
    <3>2. i + 1 \in Mine /\ 1 < i + 1 /\ r[i].n = q[i + 1].n
      BY <1>5
    <3>3. q[1].n < q[i + 1].n /\ q[i + 1].n \in (pipe.got + 1) .. last
      BY <1>2, <1>9, <3>2 DEF Numbered
    <3> QED  BY <1>2, <2>1, <3>2, <3>3
  <2>4. \A k \in (pipe.got + 2) .. last : \E i \in Mine' : r[i].n = k
    <3>1. SUFFICES ASSUME NEW k \in (pipe.got + 2) .. last PROVE \E i \in Mine' : r[i].n = k
      OBVIOUS
    <3>2. k \in (pipe.got + 1) .. last /\ k # pipe.got + 1
      BY <1>2, <3>1
    <3>3. PICK j \in Mine : q[j].n = k
      BY <1>2, <3>2 DEF Numbered
    <3>4. j # 1
      BY <2>1, <3>2, <3>3
    <3> QED  BY <1>6, <3>3, <3>4
  <2>5. \A i, j \in Mine' : i < j => r[i].n < r[j].n
    BY <1>2, <1>5 DEF Numbered
  <2>6. pipe.got + 1 + 1 = pipe.got + 2
    BY <1>2
  <2> QED  BY <1>2, <1>3, <2>1, <2>2, <2>3, <2>4, <2>5, <2>6 DEF Numbered
<1> QED
  BY <1>8, <1>9

(* Numbered events are handed over, all of them.                           *)
LEMMA InTurnHanded ==
  ASSUME TypeOK, NEW last \in Int, Numbered(last), NEW evs \in Seq(Events),
         link'.gen = link.gen,
         \A j \in DOMAIN evs : evs[j].gen = link.gen /\ evs[j].n = last + j,
         pipe'.queue = pipe.queue \o SubSeq(evs, 1, Len(evs)), pipe'.got = pipe.got
  PROVE  Numbered(last + Len(evs))'
<1> DEFINE q == pipe.queue
           r == pipe'.queue
           n == Len(evs)
<1>1. n \in 0..Len(evs) /\ n \in Nat /\ DOMAIN evs = 1..n /\ pipe.got \in Nat
  BY DEF TypeOK, Pipes
<1>2. /\ DOMAIN q = 1 .. Len(q) /\ Len(q) \in Nat
      /\ DOMAIN r = 1 .. (Len(q) + n)
      /\ \A i \in DOMAIN q : r[i] = q[i]
      /\ \A j \in 1..n : r[Len(q) + j] = evs[j]
  <2>1. n \in 0..Len(evs) /\ r = q \o SubSeq(evs, 1, n)
    BY <1>1
  <2> HIDE DEF n, r
  <2> QED  BY <2>1, EventsJoin
<1>3. \A j \in 1..n : evs[j].kind = "event" /\ evs[j].gen = link.gen /\ evs[j].n = last + j
  <2>1. SUFFICES ASSUME NEW j \in 1..n
                 PROVE  evs[j].kind = "event" /\ evs[j].gen = link.gen /\ evs[j].n = last + j
    OBVIOUS
  <2>2. j \in DOMAIN evs /\ evs[j] \in Events
    BY <1>1
  <2> QED  BY <2>2 DEF Events
<1>4. \A i \in Mine : i \in Nat /\ i \in DOMAIN q /\ i <= Len(q) /\ q[i].n \in Nat
  BY <1>2, MineTyped
<1>5. /\ \A i : i \in Mine <=> i \in DOMAIN q /\ q[i].kind = "event" /\ q[i].gen = link.gen
      /\ \A i : i \in Mine' <=> i \in DOMAIN r /\ r[i].kind = "event" /\ r[i].gen = link.gen
  BY DEF Mine
<1>6. /\ pipe.got <= last
      /\ \A i \in Mine : q[i].n \in (pipe.got + 1) .. last
      /\ \A k \in (pipe.got + 1) .. last : \E i \in Mine : q[i].n = k
      /\ \A i, j \in Mine : i < j => q[i].n < q[j].n
  BY DEF Numbered
<1>7. pipe'.got <= last + n
  BY <1>1, <1>6
<1> SUFFICES /\ \A i \in Mine' : r[i].n \in (pipe.got + 1) .. (last + n)
             /\ \A k \in (pipe.got + 1) .. (last + n) : \E i \in Mine' : r[i].n = k
             /\ \A i, j \in Mine' : i < j => r[i].n < r[j].n
  BY <1>7 DEF Numbered
<1> HIDE DEF n, q, r
<1>8. \A i \in Mine : i \in Mine' /\ r[i].n = q[i].n
  <2>1. SUFFICES ASSUME NEW i \in Mine PROVE i \in Mine' /\ r[i].n = q[i].n
    OBVIOUS
  <2>2. i \in DOMAIN q /\ q[i].kind = "event" /\ q[i].gen = link.gen
    BY <1>5
  <2>3. i \in DOMAIN r /\ r[i] = q[i]
    BY <1>1, <1>2, <2>2
  <2> QED  BY <1>5, <2>2, <2>3
<1>9. \A j \in 1..n : Len(q) + j \in Mine' /\ r[Len(q) + j].n = last + j
  <2>1. SUFFICES ASSUME NEW j \in 1..n
                 PROVE  Len(q) + j \in Mine' /\ r[Len(q) + j].n = last + j
    OBVIOUS
  <2>2. Len(q) + j \in DOMAIN r /\ r[Len(q) + j] = evs[j]
    BY <1>1, <1>2
  <2>3. evs[j].kind = "event" /\ evs[j].gen = link.gen /\ evs[j].n = last + j
    BY <1>3
  <2> QED  BY <1>5, <2>2, <2>3
<1>10. \A i \in Mine' : (i \in Mine /\ r[i].n = q[i].n) \/ \E j \in 1..n : i = Len(q) + j /\ r[i].n = last + j
  <2>1. SUFFICES ASSUME NEW i \in Mine', i \notin Mine
                 PROVE  \E j \in 1..n : i = Len(q) + j /\ r[i].n = last + j
    BY <1>8
  <2>2. i \in 1 .. (Len(q) + n) /\ i \notin DOMAIN q
    BY <1>2, <1>5, <2>1
  <2> DEFINE j == i - Len(q)
  <2>3. j \in 1..n /\ i = Len(q) + j
    BY <1>1, <1>2, <2>2
  <2> QED  BY <1>9, <2>3
<1>11. \A i \in Mine' : r[i].n \in (pipe.got + 1) .. (last + n)
  <2>1. SUFFICES ASSUME NEW i \in Mine' PROVE r[i].n \in (pipe.got + 1) .. (last + n)
    OBVIOUS
  <2>2. CASE i \in Mine /\ r[i].n = q[i].n
    BY <1>1, <1>6, <2>2
  <2>3. ASSUME NEW j \in 1..n, r[i].n = last + j PROVE r[i].n \in (pipe.got + 1) .. (last + n)
    BY <1>1, <1>6, <2>3
  <2> QED  BY <1>10, <2>2, <2>3
<1>12. \A k \in (pipe.got + 1) .. (last + n) : \E i \in Mine' : r[i].n = k
  <2>1. SUFFICES ASSUME NEW k \in (pipe.got + 1) .. (last + n) PROVE \E i \in Mine' : r[i].n = k
    OBVIOUS
  <2>2. CASE k <= last
    <3>1. k \in (pipe.got + 1) .. last
      BY <1>1, <2>1, <2>2
    <3> QED  BY <1>8, <1>6, <3>1
  <2>3. CASE ~(k <= last)
    <3>1. k - last \in 1..n /\ last + (k - last) = k
      BY <1>1, <2>1, <2>3
    <3> QED  BY <1>9, <3>1
  <2> QED  BY <2>2, <2>3
<1>13. \A i, j \in Mine' : i < j => r[i].n < r[j].n
  <2>1. SUFFICES ASSUME NEW i \in Mine', NEW j \in Mine', i < j PROVE r[i].n < r[j].n
    OBVIOUS
  <2>2. CASE i \in Mine /\ j \in Mine
    BY <1>8, <1>6, <2>1, <2>2
  <2>3. ASSUME i \in Mine, NEW b \in 1..n, j = Len(q) + b, r[j].n = last + b
        PROVE  r[i].n < r[j].n
    BY <1>1, <1>8, <1>6, <2>3
  <2>4. ASSUME NEW a \in 1..n, i = Len(q) + a, r[i].n = last + a,
               NEW b \in 1..n, j = Len(q) + b, r[j].n = last + b
        PROVE  r[i].n < r[j].n
    BY <1>1, <1>2, <2>1, <2>4
  <2>5. ASSUME NEW a \in 1..n, i = Len(q) + a, j \in Mine PROVE FALSE
    BY <1>1, <1>2, <1>4, <2>1, <2>5
  <2> QED  BY <1>10, <2>2, <2>3, <2>4, <2>5
<1> QED
  BY <1>11, <1>12, <1>13


(* Every step keeps the numbers of the open connection in turn.            *)
LEMMA InTurnPreserved ==
  ASSUME TypeOK, InPlace, EntriesKnown, InTurn, [Next]_vars
  PROVE  InTurn'
<1>1. CASE Start \/ BeginCleanup \/ Continue \/ Backoff \/ Handshake \/ Arm \/ PrepareGap \/
          CleanupDone \/ ReconcileDone \/ Barrier \/ ReadyDone \/
          SealStartupUnavailable \/ Tick \/ ConnectRefused \/ CleanupFails \/
          UNCHANGED vars \/ (\E s \in Sessions : Mark(s) \/ CommitBoundary(s) \/
          Resume(s) \/ Publish(s) \/ AskUnmanage(s))
  <2>1. /\ UNCHANGED <<link, held>> /\ pipe'.queue = pipe.queue /\ pipe'.got = pipe.got
        /\ Running' => Running
    BY <1>1
    DEF Start, BeginCleanup, Continue, Backoff, Handshake, Arm, PrepareGap, CleanupDone,
       ReconcileDone, Barrier, ReadyDone, SealStartupUnavailable, Mark,
       CommitBoundary, Resume, Publish, Tick, AskUnmanage, ConnectRefused,
       CleanupFails, vars, Running, TypeOK, Controls, Pipes
  <2> QED  BY <2>1, InTurnKept
<1>2. CASE ThrowFatal
  <2>1. ~Running'
    BY <1>2 DEF ThrowFatal, Stop, Running, TypeOK, Controls, Links
  <2> QED  BY <2>1 DEF InTurn
<1>3. CASE Dial
  <2>1. /\ link'.gen = link.gen + 1 /\ link.gen \in Nat /\ link'.sent = 0 /\ pipe'.got = 0
        /\ pipe'.queue = pipe.queue /\ held' = <<>>
    BY <1>3 DEF Dial, Connecting, TypeOK, Links, Pipes, InPlace, LossInPlace, PassingInPlace
  <2>2. \A i \in DOMAIN pipe.queue :
          pipe.queue[i].kind = "event" =>
            pipe.queue[i].gen \in Nat /\ pipe.queue[i].gen <= link.gen
    BY DEF EntriesKnown, TypeOK, Pipes, Entries, Events, Fences, Removals
  <2>3. Mine' = {}
    BY <2>1, <2>2 DEF Mine
  <2>4. link'.sent - Len(held') = 0
    <3>1. Len(held') = 0
      BY <2>1
    <3>2. link'.sent = 0
      BY <2>1
    <3> QED  BY <3>1, <3>2
  <2>5. Numbered(link.sent - Len(held))'
    BY <2>1, <2>3, <2>4 DEF Numbered
  <2>6. HeldNumbered'
    BY <2>1 DEF HeldNumbered
  <2> QED  BY <2>5, <2>6 DEF InTurn
<1>4. CASE Observe
  <2>1. UNCHANGED <<link, held, ctl>> /\ pipe'.got = pipe.got /\ (Running' => Running)
    BY <1>4 DEF Observe, Running, TypeOK, Pipes
  <2> DEFINE e == [kind |-> "fence", gen |-> link.gen]
  <2>2. e \in Entries /\ Joined(e) /\ e.kind # "event"
    BY <1>4, ObserveJoins
  <2> HIDE DEF e
  <2> QED  BY <2>1, <2>2, InTurnJoined
<1>5. CASE EventsRefuse
  <2>1. ~Running'
    BY <1>5 DEF EventsRefuse, FailStep, Stop, Running, TypeOK, Controls, Links
  <2> QED  BY <2>1 DEF InTurn
<1>6. CASE ResubscribeDone
  <2>1. /\ UNCHANGED link /\ held' = <<>> /\ pipe' = Consumed(pipe, held)
        /\ held \in Seq(Events) /\ link.sent \in Nat
        /\ ctl'.fatal = ctl.fatal /\ ctl'.ending = ctl.ending
    BY <1>6 DEF ResubscribeDone, TypeOK, Links, Controls
  <2>2. SUFFICES ASSUME Running' PROVE Numbered(link.sent - Len(held))' /\ HeldNumbered'
    BY DEF InTurn
  <2>3. ~pipe'.stopped /\ pipe'.got = pipe.got
    BY <2>1, <2>2, ConsumedIsHanded DEF Running
  <2>4. ~pipe.stopped
    BY <2>1, <2>3, ConsumedPrefix
  <2>5. Running
    BY <2>1, <2>2, <2>4 DEF Running
  <2>6. pipe'.queue = pipe.queue \o SubSeq(held, 1, Len(held))
    BY <2>1, <2>3, ConsumedPrefix
  <2> DEFINE last == link.sent - Len(held)
  <2>7. Numbered(last) /\ HeldNumbered /\ last \in Int /\ last + Len(held) = link.sent
    BY <2>1, <2>5 DEF InTurn
  <2>8. \A j \in DOMAIN held : held[j].gen = link.gen /\ held[j].n = last + j
    BY <2>7 DEF EntriesKnown, HeldNumbered
  <2>9. PICK l \in Int : l = last
    BY <2>7
  <2>10. PICK v \in Seq(Events) : v = held
    BY <2>1
  <2> HIDE DEF last
  <2>11. Numbered(l + Len(v))'
    BY <2>1, <2>3, <2>6, <2>7, <2>8, <2>9, <2>10, InTurnHanded
  <2>12. (link.sent - Len(held))' = l + Len(v)
    <3>1. Len(held') = 0
      BY <2>1
    <3> QED  BY <2>1, <2>7, <2>9, <2>10, <3>1
  <2>13. HeldNumbered'
    BY <2>1 DEF HeldNumbered
  <2> QED  BY <2>11, <2>12, <2>13 DEF Numbered
<1>7. CASE PipeEvent
  <2>1. Popped /\ UNCHANGED <<link, held, ctl>>
    BY <1>7, PipePops DEF PipelineStep, PipeEvent
  <2>2. /\ pipe'.got = IF pipe.queue[1].gen = link.gen THEN pipe.queue[1].n ELSE pipe.got
        /\ pipe'.stopped = FALSE => pipe.stopped = FALSE
    BY <1>7, TailTaken DEF PipeEvent, TypeOK, Pipes
  <2>3. 1 \in Mine <=> pipe.queue[1].gen = link.gen
    BY <1>7, TailTaken DEF PipeEvent, Mine
  <2>4. Running' => Running
    BY <2>1, <2>2 DEF Running, TypeOK, Pipes
  <2> QED  BY <2>1, <2>2, <2>3, <2>4, InTurnPopped
<1>8. CASE PipeFence
  <2>1. Popped /\ UNCHANGED <<link, held, ctl>>
    BY <1>8, PipePops DEF PipelineStep, PipeFence
  <2>2. pipe'.got = pipe.got /\ (Running' => Running)
    BY <1>8 DEF PipeFence, Running, TypeOK, Pipes
  <2>3. 1 \notin Mine
    BY <1>8, TailTaken DEF PipeFence, Mine
  <2> QED  BY <2>1, <2>2, <2>3, InTurnPopped
<1>9. CASE PipeUnmanage
  <2>1. Popped /\ UNCHANGED <<link, held, ctl>>
    BY <1>9, PipePops DEF PipelineStep, PipeUnmanage
  <2>2. pipe'.got = pipe.got /\ (Running' => Running)
    BY <1>9 DEF PipeUnmanage, Running, TypeOK, Pipes
  <2>3. 1 \notin Mine
    BY <1>9, TailTaken DEF PipeUnmanage, Mine
  <2> QED  BY <2>1, <2>2, <2>3, InTurnPopped
<1>10. CASE Lose
  <2>1. ~Running'
    BY <1>10 DEF Lose, Running, TypeOK, Controls, Links
  <2> QED  BY <2>1 DEF InTurn
<1>11. CASE Incompatible
  <2>1. ~Running'
    BY <1>11 DEF Incompatible, Stop, Running, TypeOK, Controls, Links
  <2> QED  BY <2>1 DEF InTurn
<1>12. CASE ProtocolIssue
  <2>1. ~Running'
    BY <1>12 DEF ProtocolIssue, Fatal, Running, TypeOK, Controls, Links
  <2> QED  BY <2>1 DEF InTurn
<1>13. CASE Notify
  <2>1. /\ link'.gen = link.gen /\ link'.open = link.open /\ link'.sent = link.sent + 1
        /\ link.sent \in Nat
    BY <1>13 DEF Notify, TypeOK, Links
  <2>2. CASE Fatal
    <3>1. ~Running'
      BY <2>2 DEF Fatal, Running, TypeOK, Controls
    <3> QED  BY <3>1 DEF InTurn
  <2>3. ASSUME NEW e \in Events, e.gen = link.gen, e.n = link.sent + 1,
               held' = Append(held, e), UNCHANGED <<ctl, pipe>>
        PROVE  InTurn'
    <3>1. held \in Seq(Events) /\ held' = Append(held, e)
      BY <2>3 DEF TypeOK
    <3>2. SUFFICES ASSUME Running' PROVE Numbered(link.sent - Len(held))' /\ HeldNumbered'
      BY DEF InTurn
    <3>3. Numbered(link.sent - Len(held)) /\ HeldNumbered
      BY <2>1, <2>3, <3>2 DEF InTurn, Running
    <3>4. Len(held') = Len(held) + 1 /\ link'.sent - Len(held') = link.sent - Len(held)
      <4>1. Len(held') = Len(held) + 1 /\ Len(held) \in Nat
        BY <3>1
      <4> QED  BY <2>1, <4>1
    <3>5. Mine' = Mine
      BY <2>1, <2>3 DEF Mine
    <3>6. Numbered(link.sent - Len(held))'
      BY <2>3, <3>3, <3>4, <3>5 DEF Numbered
    <3>7. HeldNumbered'
      BY <2>1, <2>3, <3>1, <3>3, <3>4 DEF HeldNumbered
    <3> QED  BY <3>6, <3>7
  <2>4. ASSUME NEW e \in Events, e.gen = link.gen, e.n = link.sent + 1, Direct,
               pipe' = Consumed(pipe, <<e>>), UNCHANGED <<ctl, held>>
        PROVE  InTurn'
    <3>1. SUFFICES ASSUME Running' PROVE Numbered(link.sent - Len(held))' /\ HeldNumbered'
      BY DEF InTurn
    <3>2. <<e>> \in Seq(Events) /\ DOMAIN <<e>> = {1} /\ <<e>>[1] = e /\ Len(<<e>>) = 1
      OBVIOUS
    <3>3. ~pipe'.stopped /\ pipe'.got = pipe.got
      BY <2>4, <3>1, <3>2, ConsumedIsHanded DEF Running
    <3>4. ~pipe.stopped
      BY <2>4, <3>2, <3>3, ConsumedPrefix
    <3>5. pipe'.queue = pipe.queue \o SubSeq(<<e>>, 1, Len(<<e>>))
      BY <2>4, <3>2, <3>3, ConsumedPrefix
    <3>6. held = <<>>
      BY <2>4 DEF Direct, InPlace, PassingInPlace
    <3>7. Numbered(link.sent)
      <4>1. Running
        BY <2>1, <2>4, <3>1, <3>4 DEF Running
      <4>2. link.sent - Len(held) = link.sent
        BY <2>1, <3>6
      <4> QED  BY <4>1, <4>2 DEF InTurn
    <3>8. \A j \in DOMAIN <<e>> : <<e>>[j].gen = link.gen /\ <<e>>[j].n = link.sent + j
      BY <2>4, <3>2
    <3> DEFINE last == link.sent
               evs == <<e>>
    <3>9. Numbered(last) /\ evs \in Seq(Events) /\ Len(evs) = 1 /\ last \in Int
      BY <2>1, <3>2, <3>7
    <3>10. /\ \A j \in DOMAIN evs : evs[j].gen = link.gen /\ evs[j].n = last + j
           /\ pipe'.queue = pipe.queue \o SubSeq(evs, 1, Len(evs))
      BY <3>5, <3>8
    <3>11. link'.sent - Len(held') = last + Len(evs)
      BY <2>1, <2>4, <3>6, <3>9
    <3>12. HeldNumbered'
      BY <2>4, <3>6 DEF HeldNumbered
    <3>13. PICK l \in Int : l = last
      BY <3>9
    <3>14. PICK v \in Seq(Events) : v = evs
      BY <3>9
    <3> HIDE DEF last, evs
    <3>15. Numbered(l + Len(v))'
      BY <2>1, <3>3, <3>9, <3>10, <3>13, <3>14, InTurnHanded
    <3>16. (l + Len(v))' = l + Len(v)
      OBVIOUS
    <3> QED  BY <3>11, <3>12, <3>13, <3>14, <3>15 DEF Numbered
  <2> QED  BY <1>13, <2>2, <2>3, <2>4, NotifyCases
<1>14. ASSUME NEW s \in Sessions, QueueUnmanage(s) PROVE InTurn'
  <2>1. UNCHANGED <<link, held, ctl>> /\ pipe'.got = pipe.got /\ (Running' => Running)
    BY <1>14 DEF QueueUnmanage, Running, TypeOK, Pipes
  <2>2. PICK e \in Removals : e \in Entries /\ e.kind = "unmanage" /\ Joined(e)
    BY <1>14, RemovalJoins
  <2> QED  BY <2>1, <2>2, InTurnJoined
<1>15. CASE StepFails
  <2>1. ~Running'
    BY <1>15 DEF StepFails, FailStep, Stop, Running, TypeOK, Controls, Links
  <2> QED  BY <2>1 DEF InTurn
<1> QED
  BY <1>1, <1>2, <1>3, <1>4, <1>5, <1>6, <1>7, <1>8, <1>9, <1>10, <1>11, <1>12, <1>13,
     <1>14, <1>15
     DEF Next, ControllerStep, LifecycleStep, PipelineStep, Surroundings


----------------------------------------------------------------------------
(* The program starts in the invariant: not connected, nothing queued.     *)
LEMMA InitOK ==
  ASSUME Init
  PROVE  IInv
<1>1. ctl \in Controls /\ link \in Links /\ life \in Lives
  BY DEF Init, Controls, Links, Lives, Causes
<1>2. pipe \in Pipes /\ pipe.queue = <<>> /\ held \in Seq(Events) /\ Len(held) = 0
  BY DEF Init, Pipes
<1>3. sess \in [Sessions -> Stored]
  BY DEF Init, Stored
<1>4. step \in Steps /\ step.stage = "none"
  BY NoStepTyped DEF Init, NoStep
<1>5. clock \in 0..2 /\ budget \in Budgets
  BY RecoveryAssumption DEF Init, Budgets
<1>6. TypeOK
  BY <1>1, <1>2, <1>3, <1>4, <1>5, RecoveryAssumption DEF TypeOK
<1>7. /\ ctl.at = "idle" /\ ~ctl.ending /\ ~ctl.fatal /\ ctl.admitted = 0 /\ ctl.direct = 0
      /\ ctl.lossPending = 0 /\ ctl.lossDone = 0 /\ ctl.cause = "none" /\ ~ctl.everReady
      /\ link.gen = 0 /\ ~link.open /\ held = <<>> /\ ~life.gap
  BY DEF Init
<1>8. InPlace
  BY <1>7 DEF InPlace, LossInPlace, EndingInPlace, PassingInPlace, Cycle
<1>9. TailOK
  BY <1>2, <1>7 DEF TailOK, EntriesKnown, FenceHolds, StoredInTurn, NoneSkipped, Running
<1>10. EventsBelong /\ BoundaryWritten /\ AdmittedIsReconciled /\ CurrentIsConnected /\ CleanupMarks
  BY <1>2, <1>7 DEF EventsBelong, BoundaryWritten, AdmittedIsReconciled, CurrentIsConnected,
     CleanupMarks
<1>11. BoundarySeparates
  BY DEF Init, BoundarySeparates
<1> QED
  BY <1>6, <1>8, <1>9, <1>10, <1>11 DEF IInv, SessionsOK

(* The invariant is kept by every step.                                    *)
LEMMA StepOK ==
  ASSUME IInv, [Next]_vars
  PROVE  IInv'
<1>1. TypeOK'
  BY TypePreserved DEF IInv
<1>2. InPlace'
  BY LossInPlaceKept, EndingInPlaceKept, PassingInPlaceKept DEF IInv, InPlace
<1>3. EntriesKnown'
  BY EntriesKnownKept DEF IInv, TailOK
<1>4. FenceHolds'
  BY FenceHoldsKept DEF IInv, TailOK
<1>5. StoredInTurn' /\ NoneSkipped'
  <2>1. InTurn
    BY InTurnIs DEF IInv, TailOK
  <2>2. InTurn'
    BY <2>1, InTurnPreserved DEF IInv, TailOK
  <2> QED  BY <2>2, InTurnIs, PTL
<1>6. Boundaries'
  BY BoundariesKept DEF IInv, TailOK, SessionsOK, Boundaries
<1>7. EventsBelong'
  BY EventsBelongKept DEF IInv, TailOK, SessionsOK, Boundaries
<1>8. BoundarySeparates'
  BY BoundarySeparatesKept DEF IInv, SessionsOK
<1> QED
  BY <1>1, <1>2, <1>3, <1>4, <1>5, <1>6, <1>7, <1>8 DEF IInv, TailOK, SessionsOK, Boundaries

(* The invariant holds of every run of the program.                        *)
THEOREM InvariantHolds == Spec => []IInv
<1>1. Init => IInv
  BY InitOK
<1>2. IInv /\ [Next]_vars => IInv'
  BY StepOK
<1> QED
  BY <1>1, <1>2, PTL DEF Spec

(* Every variable keeps its type: the controller's places, the entries of  *)
(* the pipeline's tail, the stored sessions.                               *)
THEOREM TypeCorrect == Spec => []TypeOK
<1>1. IInv => TypeOK
  BY DEF IInv
<1> QED
  BY <1>1, InvariantHolds, PTL

(* What a session stores behind its boundary came over the connection      *)
(* whose reconciliation wrote the boundary (events.reconcile,              *)
(* receiveInbound, drainHeldInbound).                                      *)
THEOREM BoundarySeparatesHolds == Spec => []BoundarySeparates
<1>1. IInv => BoundarySeparates
  BY DEF IInv, SessionsOK
<1> QED
  BY <1>1, InvariantHolds, PTL

(* Requests are admitted only over the open connection and when every      *)
(* managed session has its boundary (runConnectionCycle, ready).           *)
THEOREM AdmittedIsReconciledHolds == Spec => []AdmittedIsReconciled
<1>1. IInv => AdmittedIsReconciled
  BY DEF IInv, SessionsOK
<1> QED
  BY <1>1, InvariantHolds, PTL

(* A session is shown as current only while the connection that resumed it *)
(* is open, or its loss still has to be recorded (disconnected, ready,     *)
(* recordTerminal).                                                        *)
THEOREM CurrentIsConnectedHolds == Spec => []CurrentIsConnected
<1>1. IInv => CurrentIsConnected
  BY DEF IInv, SessionsOK
<1> QED
  BY <1>1, InvariantHolds, PTL

(* No notification is lost or overtaken between the transport and the      *)
(* store while the pipeline runs (receiveInbound, drainHeldInbound,        *)
(* consume).                                                               *)
THEOREM NoneSkippedHolds == Spec => []NoneSkipped
<1>1. IInv => NoneSkipped
  BY DEF IInv, TailOK
<1> QED
  BY <1>1, InvariantHolds, PTL

==============================================================================
