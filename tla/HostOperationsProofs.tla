------------------------ MODULE HostOperationsProofs ------------------------
(***************************************************************************)
(* Proofs about the two parts that work on the host.                       *)
(*                                                                         *)
(* RemoteIngress, for any number of operations and streams, any length of  *)
(* a lease and any number of faults and drifts: admission is earned by the *)
(* last granted enable, a published mapping is remembered, and an open     *)
(* stream has a guard (IInv).                                              *)
(*                                                                         *)
(* ServiceLifecycle, for any number of releases, kills, failed calls and   *)
(* restarts of the machine: with nothing pending the installation is whole *)
(* or absent, the service runs the selected release, and a rollback that   *)
(* is reported has put everything back, except after the failures that     *)
(* slips records (ServiceInv).                                             *)
(***************************************************************************)
EXTENDS RemoteIngress, ServiceLifecycle, TLAPS

(***************************************************************************)
(* Remote ingress.                                                         *)
(***************************************************************************)

(* An operation in progress and its audit trail: nothing is on record      *)
(* before the observation, an accepted record while the operation runs, a  *)
(* result before the terminal record and a success before the proof is     *)
(* written (executeAudit).                                                 *)
OperationOnRecord ==
  /\ busy.kind \in {"enable", "disable"} =>
       /\ busy.op \in Ops
       /\ busy.at \in {"observe", "observed"} => trail[busy.op] = None
       /\ busy.at \in {"manager", "managed", "terminal"} =>
            trail[busy.op] = "accepted" /\ asked = [op |-> busy.op, kind |-> busy.kind]
       /\ busy.at = "prove" =>
            trail[busy.op] = "succeeded" /\ asked = [op |-> busy.op, kind |-> "enable"]
  /\ busy.at = "managed" => busy.obs \in Mappings
  /\ busy.at = "terminal" => busy.res \in {"succeeded", "failed", "incomplete"}
  /\ busy.kind \in {"idle", "status"} => busy.at \in {"idle", "observe", "observed"}

(* A proof names the last operation that was granted, an enable that       *)
(* succeeded: an accepted record deletes it (the trigger of the proof).    *)
ProofEarned ==
  proof.op # None =>
    /\ proof.op \in Ops /\ trail[proof.op] = "succeeded"
    /\ asked = [op |-> proof.op, kind |-> "enable"]

(* The manager runs with a selected mapping and says it is gone only when  *)
(* HostDeck's mapping is gone (executeEnableTransition, isVerifiedAbsent).  *)
ManagerOwnsMapping ==
  /\ busy.at = "manager" => row.sel
  /\ busy.kind = "disable" /\ busy.at = "managed" /\ busy.res = "done" => ~made

(* A guard is set as long as a stream is open (armGuard, acquire). *)
StreamsGuarded == \A s \in Streams : stream[s] # 0 => guard # Off

IInv ==
  /\ TypeOK
  /\ OperationOnRecord /\ ProofEarned
  /\ ManagerOwnsMapping /\ MappingRemembered
  /\ StreamsGuarded

----------------------------------------------------------------------------
(* Each part of the invariant speaks of a few variables only: a step that  *)
(* leaves them alone preserves it.                                         *)
LEMMA Untouched ==
  /\ OperationOnRecord /\ UNCHANGED <<busy, trail, asked>> => OperationOnRecord'
  /\ ProofEarned /\ UNCHANGED <<proof, trail, asked>> => ProofEarned'
  /\ ManagerOwnsMapping /\ UNCHANGED <<busy, row, made>> => ManagerOwnsMapping'
  /\ MappingRemembered /\ UNCHANGED <<row, made>> => MappingRemembered'
  /\ StreamsGuarded /\ UNCHANGED <<stream, guard>> => StreamsGuarded'
<1>1. OperationOnRecord /\ UNCHANGED <<busy, trail, asked>> => OperationOnRecord'
  BY DEF OperationOnRecord
<1>2. ProofEarned /\ UNCHANGED <<proof, trail, asked>> => ProofEarned'
  BY DEF ProofEarned
<1>3. ManagerOwnsMapping /\ UNCHANGED <<busy, row, made>> => ManagerOwnsMapping'
  BY DEF ManagerOwnsMapping
<1>4. MappingRemembered /\ UNCHANGED <<row, made>> => MappingRemembered'
  BY DEF MappingRemembered
<1>5. StreamsGuarded /\ UNCHANGED <<stream, guard>> => StreamsGuarded'
  BY DEF StreamsGuarded
<1> QED BY <1>1, <1>2, <1>3, <1>4, <1>5

(* The budgets bound the faults and stay natural numbers. *)
LEMMA FaultsTyped ==
  ASSUME TypeOK
  PROVE  /\ \A what \in {"faults", "drifts"} : Spend(what) => faults' \in [faults : Nat, drifts : Nat]
         /\ Fault => faults' \in [faults : Nat, drifts : Nat]
         /\ UNCHANGED faults => faults' \in [faults : Nat, drifts : Nat]
<1>1. faults \in [faults : Nat, drifts : Nat]
  BY DEF TypeOK
<1>2. ASSUME NEW what \in {"faults", "drifts"}, Spend(what)
      PROVE  faults' \in [faults : Nat, drifts : Nat]
  <2>1. CASE what = "faults"
    BY <1>1, <1>2, <2>1 DEF Spend
  <2>2. CASE what = "drifts"
    BY <1>1, <1>2, <2>2 DEF Spend
  <2> QED BY <2>1, <2>2
<1>3. Fault => faults' \in [faults : Nat, drifts : Nat]
  BY <1>2 DEF Fault
<1> QED BY <1>1, <1>2, <1>3

(* What was observed changes neither the selection nor the intent. *)
LEMMA ObservedKeeps ==
  ASSUME TypeOK
  PROVE  /\ busy.obs # "fails" => Observed \in Rows /\ Observed.sel = row.sel
         /\ Preflight \in Rows /\ Preflight.sel = row.sel
<1> DEFINE seen == [row EXCEPT !.seen = busy.obs,
                               !.fail = IF row.intent = "disabled" THEN @ ELSE None]
<1>1. row \in Rows /\ busy \in Operations
  BY DEF TypeOK
<1>2. ASSUME busy.obs # "fails"
      PROVE  Observed \in Rows /\ Observed.sel = row.sel
  <2>1. seen \in Rows /\ seen.sel = row.sel
    BY <1>1, <1>2 DEF Rows, Operations
  <2>2. Observed = IF seen = row THEN row ELSE [seen EXCEPT !.gen = @ + 1]
    BY DEF Observed
  <2> HIDE DEF seen
  <2>3. [seen EXCEPT !.gen = @ + 1] \in Rows /\ [seen EXCEPT !.gen = @ + 1].sel = seen.sel
    BY <2>1 DEF Rows
  <2> QED BY <1>1, <2>1, <2>2, <2>3
<1>3. Preflight \in Rows /\ Preflight.sel = row.sel
  BY <1>1, <1>2 DEF Preflight
<1> QED BY <1>2, <1>3

(* A proof is carried to a later generation of the same operation. *)
LEMMA CarriedKeeps ==
  ASSUME TypeOK, NEW r \in Rows
  PROVE  CarriedProof(r) \in Proofs /\ CarriedProof(r).op = proof.op
<1>1. proof \in Proofs /\ r.gen \in Nat
  BY DEF TypeOK, Rows
<1> QED BY <1>1 DEF CarriedProof, Proofs

(* Whatever an operation leaves, a closed admission ends every stream and  *)
(* an open one arms the guard (synchronizeAdmission).                      *)
LEMMA SynchronizedGuards ==
  ASSUME TypeOK, NEW r \in Rows, NEW p \in Proofs, NEW l \in Leases, Synchronized(r, p, l)
  PROVE  /\ row' = r /\ proof' = p
         /\ lease' \in Leases /\ guard' \in 0..Off /\ stream' \in [Streams -> Nat]
         /\ StreamsGuarded'
<1>1. row' = r /\ proof' = p /\ lease' \in {l, NoLease}
  BY DEF Synchronized
<1>2. NoLease \in Leases
  BY RemoteAssumption DEF NoLease, Leases
<1>3. CASE OpenIn(r, p, l)
  <2>1. guard' = l.left /\ stream' = stream
    BY <1>3 DEF Synchronized, Armed
  <2>2. guard' \in 0..Off /\ guard' # Off
    BY <2>1, RemoteAssumption DEF Leases, Off
  <2>3. stream' \in [Streams -> Nat]
    BY <2>1 DEF TypeOK
  <2> QED BY <1>1, <1>2, <2>2, <2>3 DEF StreamsGuarded
<1>4. CASE ~OpenIn(r, p, l)
  <2>1. guard' = Off /\ stream' = [s \in Streams |-> 0]
    BY <1>4 DEF Synchronized, Armed
  <2>2. guard' \in 0..Off
    BY <2>1, RemoteAssumption DEF Off
  <2> QED BY <1>1, <1>2, <2>1, <2>2 DEF StreamsGuarded
<1> QED BY <1>3, <1>4

(* The end of an operation leaves nothing in progress. *)
LEMMA EndsLeavesNothing ==
  ASSUME TypeOK, NEW r \in Rows, NEW p \in Proofs, NEW l \in Leases, Ends(r, p, l)
  PROVE  /\ row' = r /\ proof' = p /\ UNCHANGED phase
         /\ lease' \in Leases /\ guard' \in 0..Off /\ stream' \in [Streams -> Nat]
         /\ busy' \in Operations
         /\ OperationOnRecord' /\ ManagerOwnsMapping' /\ StreamsGuarded'
<1>1. Synchronized(r, p, l) /\ busy' = Idle /\ UNCHANGED phase
  BY DEF Ends
<1>2. busy' \in Operations
  BY <1>1 DEF Idle, Operations
<1>3. OperationOnRecord' /\ ManagerOwnsMapping'
  BY <1>1 DEF Idle, OperationOnRecord, ManagerOwnsMapping
<1> QED BY <1>1, <1>2, <1>3, SynchronizedGuards

(* An operation that goes on leaves the streams and their guard alone. *)
LEMMA GoesOnKeeps ==
  ASSUME TypeOK, StreamsGuarded, NEW b \in Operations, NEW r \in Rows, NEW p \in Proofs,
         GoesOn(b, r, p)
  PROVE  /\ busy' = b /\ row' = r /\ proof' = p /\ UNCHANGED <<phase, guard, stream>>
         /\ StreamsGuarded'
  BY Untouched DEF GoesOn

(* An audit record is written for one operation. *)
LEMMA RecordedIs ==
  ASSUME TypeOK, NEW o \in Ops, NEW out \in Outcomes, Recorded(o, out)
  PROVE  /\ trail' \in [Ops -> Outcomes] /\ latest' \in [op : Ops \cup {None}, out : Outcomes]
         /\ trail'[o] = out /\ \A q \in Ops \ {o} : trail'[q] = trail[q]
  BY DEF Recorded, TypeOK

(* Constants of the module and their types. *)
LEMMA Defaults ==
  NoLease \in Leases /\ NoProof \in Proofs /\ Idle \in Operations
  BY RemoteAssumption DEF NoLease, Leases, NoProof, Proofs, Idle, Operations

(* A proof survives the end of another operation. *)
LEMMA OtherTrailEnds ==
  ASSUME TypeOK, ProofEarned, NEW o \in Ops, trail[o] # "succeeded",
         NEW out \in Outcomes, Recorded(o, out), UNCHANGED asked,
         proof'.op = proof.op
  PROVE  ProofEarned'
  BY RecordedIs DEF ProofEarned

(* A request is admitted under an open lease, to whose end the guard is set. *)
LEMMA AdmitPreserves ==
  ASSUME IInv, NEW s \in Streams, Admit(s)
  PROVE  IInv'
<1>1. guard' \in 0..Off /\ guard' # Off
  BY RemoteAssumption DEF Admit, Armed, IInv, TypeOK, Leases, Off
<1>2. stream' \in [Streams -> Nat]
  BY DEF Admit, IInv, TypeOK, Rows
<1>3. TypeOK'
  BY <1>1, <1>2 DEF Admit, IInv, TypeOK, audit, outside
<1>4. StreamsGuarded'
  BY <1>1 DEF StreamsGuarded
<1> QED BY <1>3, <1>4, Untouched DEF Admit, IInv, audit, outside

(* A stream that ends needs no guard. *)
LEMMA LeavePreserves ==
  ASSUME IInv, NEW s \in Streams, Leave(s)
  PROVE  IInv'
<1>1. TypeOK'
  BY DEF Leave, IInv, TypeOK, audit, outside
<1>2. StreamsGuarded'
  BY DEF Leave, IInv, TypeOK, StreamsGuarded
<1> QED BY <1>1, <1>2, Untouched DEF Leave, IInv, audit, outside

(* A closed admission is found by a request, by the poll loop or by the    *)
(* guard.                                                                  *)
LEMMA RefusePreserves ==
  ASSUME IInv, Refuse \/ GuardFires
  PROVE  IInv'
<1>1. Synchronized(row, proof, lease) /\ UNCHANGED <<audit, busy, phase, outside, faults>>
  BY DEF Refuse, GuardFires
<1>2. /\ row' = row /\ proof' = proof
      /\ lease' \in Leases /\ guard' \in 0..Off /\ stream' \in [Streams -> Nat]
      /\ StreamsGuarded'
  BY <1>1, SynchronizedGuards DEF IInv, TypeOK
<1>3. TypeOK'
  BY <1>1, <1>2 DEF IInv, TypeOK, audit, outside
<1> QED BY <1>1, <1>2, <1>3, Untouched DEF IInv, audit, outside

(* An observation begins with nothing on record. *)
LEMMA BeginPreserves ==
  ASSUME IInv, StatusBegin \/ \E o \in Ops : EnableBegin(o)
  PROVE  IInv'
<1>1. PICK kind \in {"status", "enable"}, o \in Ops \cup {None} :
        Begin(kind, o) /\ (kind = "enable" => o \in Ops /\ trail[o] = None)
  BY DEF StatusBegin, EnableBegin
<1>2. busy' = [kind |-> kind, at |-> "observe", op |-> o, obs |-> None, res |-> None]
  BY <1>1 DEF Begin, Idle
<1>3. UNCHANGED <<row, proof, trail, latest, asked, lease, phase, guard, stream, serve, made, faults>>
  BY <1>1 DEF Begin, audit, outside
<1>4. TypeOK'
  <2>1. busy' \in Operations
    BY <1>2 DEF Operations
  <2> QED BY <1>3, <2>1 DEF IInv, TypeOK
<1>5. OperationOnRecord'
  BY <1>1, <1>2, <1>3 DEF OperationOnRecord
<1>6. ManagerOwnsMapping'
  BY <1>1, <1>2 DEF ManagerOwnsMapping
<1> QED BY <1>3, <1>4, <1>5, <1>6, Untouched DEF IInv

(* Without a selection nothing is observed. *)
LEMMA StatusDisabledPreserves ==
  ASSUME IInv, StatusDisabled
  PROVE  IInv'
<1>1. Ends(row, proof, NoLease) /\ UNCHANGED <<audit, outside, faults>>
  BY DEF StatusDisabled
<1>2. /\ row' = row /\ proof' = proof /\ UNCHANGED phase
      /\ lease' \in Leases /\ guard' \in 0..Off /\ stream' \in [Streams -> Nat]
      /\ busy' \in Operations
      /\ OperationOnRecord' /\ ManagerOwnsMapping' /\ StreamsGuarded'
  BY <1>1, EndsLeavesNothing, Defaults DEF IInv, TypeOK
<1>3. TypeOK'
  BY <1>1, <1>2 DEF IInv, TypeOK, audit, outside
<1> QED BY <1>1, <1>2, <1>3, Untouched DEF IInv, audit, outside

(* The observer only looks. *)
LEMMA ObserverReadsPreserves ==
  ASSUME IInv, ObserverReads
  PROVE  IInv'
<1>1. /\ busy' \in Operations
      /\ busy'.kind = busy.kind /\ busy'.op = busy.op /\ busy'.at = "observed"
  BY DEF ObserverReads, IInv, TypeOK, Operations
<1>2. faults' \in [faults : Nat, drifts : Nat]
  BY FaultsTyped DEF ObserverReads, IInv
<1>3. TypeOK'
  BY <1>1, <1>2 DEF ObserverReads, IInv, TypeOK, audit, outside
<1>4. OperationOnRecord'
  BY <1>1 DEF ObserverReads, IInv, OperationOnRecord, audit
<1>5. ManagerOwnsMapping'
  BY <1>1 DEF ManagerOwnsMapping
<1> QED BY <1>3, <1>4, <1>5, Untouched DEF ObserverReads, IInv, audit, outside

(* What a status request leaves selects the same mapping and proves the    *)
(* same operation.                                                         *)
LEMMA StatusEndPreserves ==
  ASSUME IInv, StatusEnd
  PROVE  IInv'
<1>1. PICK r \in Rows, p \in Proofs, l \in Leases :
        Ends(r, p, l) /\ r.sel = row.sel /\ p.op = proof.op
  <2>1. row \in Rows /\ proof \in Proofs /\ busy \in Operations /\ NoLease \in Leases
    BY Defaults DEF IInv, TypeOK
  <2>2. busy.obs # "fails" => Observed \in Rows /\ Observed.sel = row.sel
    BY ObservedKeeps DEF IInv
  <2>3. CASE busy.obs = "fails"
    BY <2>1, <2>3 DEF StatusEnd
  <2>4. CASE busy.obs # "fails" /\ \E r \in {row, Observed} : Ends(r, proof, NoLease)
    BY <2>1, <2>2, <2>4
  <2>5. CASE /\ busy.obs # "fails"
             /\ LET p == CarriedProof(Observed)
                    proven == Ready(Observed) /\ p.op # None /\ p.gen = Observed.gen
                IN Ends(Observed, p, IF proven THEN [gen |-> p.gen, left |-> Interval] ELSE NoLease)
    <3> DEFINE p == CarriedProof(Observed)
    <3>1. p \in Proofs /\ p.op = proof.op
      BY <2>2, <2>5, CarriedKeeps DEF IInv
    <3>2. [gen |-> p.gen, left |-> Interval] \in Leases
      BY <3>1, RemoteAssumption DEF Proofs, Leases
    <3> HIDE DEF p
    <3>3. PICK l \in Leases : Ends(Observed, p, l)
      BY <2>1, <2>5, <3>2 DEF p
    <3> QED BY <2>2, <2>5, <3>1, <3>3
  <2> QED BY <2>3, <2>4, <2>5 DEF StatusEnd
<1>2. /\ row' = r /\ proof' = p /\ UNCHANGED phase
      /\ lease' \in Leases /\ guard' \in 0..Off /\ stream' \in [Streams -> Nat]
      /\ busy' \in Operations
      /\ OperationOnRecord' /\ ManagerOwnsMapping' /\ StreamsGuarded'
  BY <1>1, EndsLeavesNothing DEF IInv
<1>3. UNCHANGED <<trail, latest, asked, serve, made>> /\ faults' \in [faults : Nat, drifts : Nat]
  BY FaultsTyped DEF StatusEnd, audit, outside, IInv
<1>4. TypeOK'
  BY <1>2, <1>3 DEF IInv, TypeOK
<1>5. ProofEarned'
  BY <1>1, <1>2, <1>3 DEF IInv, ProofEarned
<1>6. MappingRemembered'
  BY <1>1, <1>2, <1>3 DEF IInv, MappingRemembered
<1> QED BY <1>2, <1>4, <1>5, <1>6 DEF IInv

(* A lifecycle that fails has ended its streams. *)
LEMMA LifecycleFailsPreserves ==
  ASSUME IInv, LifecycleFails
  PROVE  IInv'
<1>1. TypeOK'
  <2>1. guard' \in 0..Off /\ faults' \in [faults : Nat, drifts : Nat]
    BY RemoteAssumption, FaultsTyped DEF LifecycleFails, Off, IInv
  <2> QED BY <2>1, Defaults DEF LifecycleFails, IInv, TypeOK, audit, outside
<1>2. OperationOnRecord' /\ ManagerOwnsMapping'
  BY DEF LifecycleFails, Idle, OperationOnRecord, ManagerOwnsMapping
<1>3. StreamsGuarded'
  BY DEF LifecycleFails, StreamsGuarded
<1> QED BY <1>1, <1>2, <1>3, Untouched DEF LifecycleFails, IInv, audit, outside

(* A rejected enable is recorded beside the proof of an earlier one. *)
LEMMA EnableRejectedPreserves ==
  ASSUME IInv, EnableRejected
  PROVE  IInv'
<1>1. PICK r \in {row, Preflight} : Ends(r, proof, NoLease)
  BY DEF EnableRejected
<1>2. r \in Rows /\ r.sel = row.sel
  BY ObservedKeeps DEF IInv, TypeOK
<1>3. /\ row' = r /\ proof' = proof /\ UNCHANGED phase
      /\ lease' \in Leases /\ guard' \in 0..Off /\ stream' \in [Streams -> Nat]
      /\ busy' \in Operations
      /\ OperationOnRecord' /\ ManagerOwnsMapping' /\ StreamsGuarded'
  BY <1>1, <1>2, EndsLeavesNothing, Defaults DEF IInv, TypeOK
<1>4. busy.op \in Ops /\ trail[busy.op] = None
  BY DEF EnableRejected, Running, IInv, OperationOnRecord
<1>5. UNCHANGED <<asked, serve, made>> /\ faults' \in [faults : Nat, drifts : Nat]
  BY FaultsTyped DEF EnableRejected, outside, IInv
<1>6. Recorded(busy.op, "rejected") \/ UNCHANGED <<trail, latest>>
  BY DEF EnableRejected
<1>7. TypeOK'
  <2>1. trail' \in [Ops -> Outcomes] /\ latest' \in [op : Ops \cup {None}, out : Outcomes]
    BY <1>4, <1>6, RecordedIs DEF IInv, TypeOK, Outcomes
  <2> QED BY <1>2, <1>3, <1>5, <2>1 DEF IInv, TypeOK
<1>8. ProofEarned'
  <2>1. CASE Recorded(busy.op, "rejected")
    <3>1. "rejected" \in Outcomes /\ trail[busy.op] # "succeeded"
      BY <1>4 DEF Outcomes, None
    <3> QED BY <1>3, <1>4, <1>5, <2>1, <3>1, OtherTrailEnds DEF IInv
  <2>2. CASE UNCHANGED <<trail, latest>>
    BY <1>3, <1>5, <2>2, Untouched DEF IInv
  <2> QED BY <1>6, <2>1, <2>2
<1>9. MappingRemembered'
  BY <1>2, <1>3, <1>5 DEF IInv, MappingRemembered
<1> QED BY <1>3, <1>7, <1>8, <1>9 DEF IInv

(* An accepted record: the operation is the one that was asked for, and    *)
(* the proof of an earlier one is gone.                                    *)
LEMMA AcceptedIs ==
  ASSUME TypeOK, NEW o \in Ops, NEW kind \in {"enable", "disable"},
         Recorded(o, "accepted"), asked' = [op |-> o, kind |-> kind], proof' = ProofAfterAccepted,
         busy'.kind = kind, busy'.op = o, busy'.at \in {"manager", "terminal"},
         busy'.at = "terminal" => busy'.res \in {"succeeded", "failed", "incomplete"}
  PROVE  /\ trail' \in [Ops -> Outcomes] /\ latest' \in [op : Ops \cup {None}, out : Outcomes]
         /\ asked' \in [op : Ops \cup {None}, kind : {None, "enable", "disable"}]
         /\ OperationOnRecord' /\ ProofEarned'
<1>1. /\ trail' \in [Ops -> Outcomes] /\ latest' \in [op : Ops \cup {None}, out : Outcomes]
      /\ trail'[o] = "accepted"
  BY RecordedIs DEF Outcomes
<1>2. asked' \in [op : Ops \cup {None}, kind : {None, "enable", "disable"}]
  OBVIOUS
<1>3. OperationOnRecord'
  BY <1>1 DEF OperationOnRecord
<1>4. ProofEarned'
  BY DEF ProofEarned, ProofAfterAccepted, NoProof
<1> QED BY <1>1, <1>2, <1>3, <1>4

(* An operation whose accepted record cannot be written has no effect. *)
LEMMA UnacceptedPreserves ==
  ASSUME IInv, NEW r \in Rows, r.sel = row.sel, Unaccepted(r), UNCHANGED outside
  PROVE  IInv'
<1>1. Ends(r, proof, NoLease) /\ UNCHANGED audit /\ Fault
  BY DEF Unaccepted
<1>2. /\ row' = r /\ proof' = proof /\ UNCHANGED phase
      /\ lease' \in Leases /\ guard' \in 0..Off /\ stream' \in [Streams -> Nat]
      /\ busy' \in Operations
      /\ OperationOnRecord' /\ ManagerOwnsMapping' /\ StreamsGuarded'
  BY <1>1, EndsLeavesNothing, Defaults DEF IInv, TypeOK
<1>3. UNCHANGED <<trail, latest, asked, serve, made>> /\ faults' \in [faults : Nat, drifts : Nat]
  BY <1>1, FaultsTyped DEF audit, outside, IInv
<1>4. TypeOK'
  BY <1>2, <1>3 DEF IInv, TypeOK
<1>5. ProofEarned' /\ MappingRemembered'
  BY <1>2, <1>3 DEF IInv, ProofEarned, MappingRemembered
<1> QED BY <1>2, <1>4, <1>5 DEF IInv

(* An accepted enable selects the mapping before the manager runs. *)
LEMMA EnableAcceptedPreserves ==
  ASSUME IInv, EnableAccepted
  PROVE  IInv'
<1> DEFINE intent == [gen |-> Preflight.gen + 1, intent |-> "enabled", sel |-> TRUE,
                      seen |-> busy.obs, fail |-> None]
<1>1. busy \in Operations /\ busy.kind = "enable" /\ busy.at = "observed" /\ busy.op \in Ops
  BY DEF EnableAccepted, Running, IInv, TypeOK, OperationOnRecord
<1>2. Preflight \in Rows /\ Preflight.sel = row.sel /\ row \in Rows
  BY ObservedKeeps DEF IInv, TypeOK
<1>3. UNCHANGED outside
  BY DEF EnableAccepted
<1>4. CASE \E r \in {row, Preflight} : Unaccepted(r)
  BY <1>2, <1>3, <1>4, UnacceptedPreserves
<1>5. CASE /\ AcceptedAs("enable") /\ lease' = NoLease /\ UNCHANGED faults
           /\ GoesOn([busy EXCEPT !.at = "manager"], intent, ProofAfterAccepted)
  <2>1. busy.obs \in {None} \cup Mappings
    BY <1>1 DEF EnableAccepted, MayEnable, Mappings
  <2>2. intent \in Rows /\ intent.sel
    BY <1>2, <2>1 DEF Rows
  <2>3. /\ busy' = [busy EXCEPT !.at = "manager"] /\ row' = intent /\ proof' = ProofAfterAccepted
        /\ UNCHANGED <<phase, guard, stream>>
    BY <1>5 DEF GoesOn
  <2> HIDE DEF intent
  <2>4. /\ busy' \in Operations
        /\ busy'.kind = "enable" /\ busy'.op = busy.op /\ busy'.at = "manager"
    BY <1>1, <2>3 DEF Operations
  <2>5. Recorded(busy.op, "accepted") /\ asked' = [op |-> busy.op, kind |-> "enable"]
    BY <1>5 DEF AcceptedAs
  <2>6. /\ trail' \in [Ops -> Outcomes] /\ latest' \in [op : Ops \cup {None}, out : Outcomes]
        /\ asked' \in [op : Ops \cup {None}, kind : {None, "enable", "disable"}]
        /\ OperationOnRecord' /\ ProofEarned'
    BY <1>1, <2>3, <2>4, <2>5, AcceptedIs DEF IInv
  <2>7. TypeOK'
    BY <1>3, <1>5, <2>2, <2>3, <2>4, <2>6, Defaults DEF IInv, TypeOK, outside, ProofAfterAccepted
  <2>8. ManagerOwnsMapping' /\ MappingRemembered'
    BY <2>2, <2>3, <2>4 DEF ManagerOwnsMapping, MappingRemembered
  <2> QED BY <2>3, <2>6, <2>7, <2>8, Untouched DEF IInv
<1>6. CASE /\ AcceptedAs("enable") /\ lease' = NoLease /\ Fault
           /\ GoesOn(Concluded("failed"), Preflight, ProofAfterAccepted)
  <2>1. /\ busy' = Concluded("failed") /\ row' = Preflight /\ proof' = ProofAfterAccepted
        /\ UNCHANGED <<phase, guard, stream>>
    BY <1>6 DEF GoesOn
  <2>2. /\ busy' \in Operations
        /\ busy'.kind = "enable" /\ busy'.op = busy.op /\ busy'.at = "terminal"
        /\ busy'.res = "failed"
    BY <1>1, <2>1 DEF Operations, Concluded
  <2>3. Recorded(busy.op, "accepted") /\ asked' = [op |-> busy.op, kind |-> "enable"]
    BY <1>6 DEF AcceptedAs
  <2>4. /\ trail' \in [Ops -> Outcomes] /\ latest' \in [op : Ops \cup {None}, out : Outcomes]
        /\ asked' \in [op : Ops \cup {None}, kind : {None, "enable", "disable"}]
        /\ OperationOnRecord' /\ ProofEarned'
    BY <1>1, <2>1, <2>2, <2>3, AcceptedIs DEF IInv
  <2>5. faults' \in [faults : Nat, drifts : Nat]
    BY <1>6, FaultsTyped DEF IInv
  <2>6. TypeOK'
    BY <1>2, <1>3, <1>6, <2>1, <2>2, <2>4, <2>5, Defaults DEF IInv, TypeOK, outside, ProofAfterAccepted
  <2>7. ManagerOwnsMapping' /\ MappingRemembered'
    BY <1>2, <1>3, <2>1, <2>2 DEF IInv, ManagerOwnsMapping, MappingRemembered, outside
  <2> QED BY <2>1, <2>4, <2>6, <2>7, Untouched DEF IInv
<1> QED BY <1>4, <1>5, <1>6 DEF EnableAccepted

(* The manager publishes for a selected row only. *)
LEMMA ManagerRunsPreserves ==
  ASSUME IInv, ManagerRuns
  PROVE  IInv'
<1>1. busy \in Operations /\ busy.at = "manager" /\ row.sel
  BY DEF ManagerRuns, IInv, TypeOK, ManagerOwnsMapping
<1>2. busy.kind \in {"enable", "disable"}
  BY <1>1 DEF IInv, OperationOnRecord, Operations
<1>3. serve' \in Mappings /\ made' \in BOOLEAN
  BY DEF ManagerRuns, outside, IInv, TypeOK, Mappings
<1>4. PICK res \in {"done", "failed", "unsent", "unknown"}, obs \in Mappings :
        busy' = [busy EXCEPT !.at = "managed", !.res = res, !.obs = obs]
  BY <1>2 DEF ManagerRuns, IInv, TypeOK, Mappings
<1>5. /\ busy' \in Operations
      /\ busy'.kind = busy.kind /\ busy'.op = busy.op /\ busy'.at = "managed" /\ busy'.obs \in Mappings
  BY <1>1, <1>4 DEF Operations
<1>6. busy.kind = "disable" /\ busy'.res = "done" => ~made'
  BY <1>1 DEF ManagerRuns, Operations
<1>7. UNCHANGED <<row, proof, trail, latest, asked, lease, phase, guard, stream>>
  BY DEF ManagerRuns, audit
<1>8. faults' \in [faults : Nat, drifts : Nat]
  BY FaultsTyped DEF ManagerRuns, IInv
<1>9. TypeOK'
  BY <1>3, <1>5, <1>7, <1>8 DEF IInv, TypeOK
<1>10. OperationOnRecord'
  BY <1>1, <1>2, <1>5, <1>7 DEF IInv, OperationOnRecord
<1>11. ManagerOwnsMapping' /\ MappingRemembered'
  BY <1>1, <1>5, <1>6, <1>7 DEF ManagerOwnsMapping, MappingRemembered
<1> QED BY <1>7, <1>9, <1>10, <1>11, Untouched DEF IInv

(* What the manager did is written; its result awaits the terminal record. *)
LEMMA EnableAppliedPreserves ==
  ASSUME IInv, EnableApplied
  PROVE  IInv'
<1> DEFINE after == [row EXCEPT !.gen = @ + 1, !.seen = busy.obs,
                                !.fail = IF busy.res = "done" THEN None ELSE "failed"]
<1>1. busy \in Operations /\ row \in Rows /\ busy.kind = "enable" /\ busy.at = "managed"
  BY DEF EnableApplied, IInv, TypeOK
<1>2. busy.obs \in {None} \cup Mappings
  BY <1>1 DEF IInv, OperationOnRecord
<1>3. PICK r \in {row, after}, out \in {"succeeded", "incomplete", "failed"} :
        GoesOn(Concluded(out), r, proof)
  BY DEF EnableApplied, Outcome
<1>4. /\ busy' = Concluded(out) /\ row' = r /\ proof' = proof /\ UNCHANGED <<phase, guard, stream>>
  BY <1>3 DEF GoesOn
<1>5. /\ busy' \in Operations
      /\ busy'.kind = busy.kind /\ busy'.op = busy.op /\ busy'.at = "terminal"
      /\ busy'.res \in {"succeeded", "incomplete", "failed"}
  BY <1>1, <1>4 DEF Operations, Concluded
<1>6. UNCHANGED <<trail, latest, asked, lease, serve, made>> /\ faults' \in [faults : Nat, drifts : Nat]
  BY FaultsTyped DEF EnableApplied, audit, outside, IInv
<1>7. r \in Rows /\ r.sel = row.sel
  <2> DEFINE g == row.gen + 1
             f == IF busy.res = "done" THEN None ELSE "failed"
  <2>1. g \in Nat /\ f \in {None, "failed"} /\ after = [row EXCEPT !.gen = g, !.seen = busy.obs, !.fail = f]
    BY <1>1 DEF Rows
  <2> HIDE DEF after, g, f
  <2>2. after \in Rows /\ after.sel = row.sel
    BY <1>1, <1>2, <2>1 DEF Rows
  <2> QED BY <1>1, <2>2
<1>8. TypeOK'
  BY <1>4, <1>5, <1>6, <1>7 DEF IInv, TypeOK
<1>9. OperationOnRecord'
  BY <1>1, <1>5, <1>6 DEF IInv, OperationOnRecord
<1>10. ManagerOwnsMapping' /\ MappingRemembered'
  BY <1>4, <1>5, <1>6, <1>7 DEF IInv, ManagerOwnsMapping, MappingRemembered
<1> QED BY <1>4, <1>6, <1>8, <1>9, <1>10, Untouched DEF IInv

(* The terminal record closes the operation's own trail. *)
LEMMA TerminalPreserves ==
  ASSUME IInv, Terminal
  PROVE  IInv'
<1>1. /\ busy \in Operations /\ busy.at = "terminal" /\ busy.kind \in {"enable", "disable"}
      /\ busy.op \in Ops /\ trail[busy.op] = "accepted"
      /\ asked = [op |-> busy.op, kind |-> busy.kind]
  <2>1. busy \in Operations /\ busy.at = "terminal"
    BY DEF Terminal, IInv, TypeOK
  <2>2. busy.kind \in {"enable", "disable"}
    BY <2>1 DEF IInv, OperationOnRecord, Operations
  <2> QED BY <2>1, <2>2 DEF IInv, OperationOnRecord
<1>2. UNCHANGED <<asked, serve, made>> /\ faults' \in [faults : Nat, drifts : Nat]
  BY FaultsTyped DEF Terminal, outside, IInv
<1>3. Recorded(busy.op, busy.res) \/ UNCHANGED <<trail, latest>>
  BY DEF Terminal
<1>4. /\ row \in Rows /\ proof \in Proofs
      /\ proof.op = None
  BY <1>1 DEF IInv, TypeOK, ProofEarned
<1>5. ProofEarned' /\ row' = row /\ proof' = proof /\ UNCHANGED phase /\ StreamsGuarded'
      /\ lease' \in Leases /\ guard' \in 0..Off /\ stream' \in [Streams -> Nat]
      /\ busy' \in Operations
      /\ \/ OperationOnRecord' /\ ManagerOwnsMapping'
         \/ /\ Recorded(busy.op, "succeeded") /\ busy.kind = "enable"
            /\ busy' = [busy EXCEPT !.at = "prove"]
  <2>1. CASE Ends(row, proof, NoLease)
    <3>1. /\ row' = row /\ proof' = proof /\ UNCHANGED phase
          /\ lease' \in Leases /\ guard' \in 0..Off /\ stream' \in [Streams -> Nat]
          /\ busy' \in Operations
          /\ OperationOnRecord' /\ ManagerOwnsMapping' /\ StreamsGuarded'
      BY <1>4, <2>1, EndsLeavesNothing, Defaults DEF IInv
    <3> QED BY <1>4, <3>1 DEF ProofEarned
  <2>2. CASE /\ Recorded(busy.op, busy.res) /\ busy.kind = "enable" /\ busy.res = "succeeded"
             /\ GoesOn([busy EXCEPT !.at = "prove"], row, proof) /\ UNCHANGED lease
    <3>1. /\ busy' = [busy EXCEPT !.at = "prove"] /\ row' = row /\ proof' = proof
          /\ UNCHANGED <<phase, guard, stream>>
      BY <2>2 DEF GoesOn
    <3>2. busy' \in Operations
      BY <1>1, <3>1 DEF Operations
    <3> QED BY <1>4, <2>2, <3>1, <3>2, Untouched DEF IInv, TypeOK, ProofEarned
  <2> QED BY <2>1, <2>2 DEF Terminal
<1>6. TypeOK'
  <2>1. busy.res \in {"succeeded", "failed", "incomplete"}
    BY DEF IInv, OperationOnRecord, Terminal
  <2>2. trail' \in [Ops -> Outcomes] /\ latest' \in [op : Ops \cup {None}, out : Outcomes]
    BY <1>1, <1>3, <2>1, RecordedIs DEF IInv, TypeOK, Outcomes
  <2> QED BY <1>2, <1>4, <1>5, <2>2 DEF IInv, TypeOK
<1>7. OperationOnRecord' /\ ManagerOwnsMapping'
  <2>1. CASE /\ Recorded(busy.op, "succeeded") /\ busy.kind = "enable"
             /\ busy' = [busy EXCEPT !.at = "prove"]
    <3>1. busy'.kind = "enable" /\ busy'.op = busy.op /\ busy'.at = "prove"
      BY <1>1, <2>1 DEF Operations
    <3>2. trail'[busy.op] = "succeeded"
      BY <1>1, <2>1, RecordedIs DEF IInv, Outcomes
    <3> QED BY <1>1, <1>2, <2>1, <3>1, <3>2 DEF OperationOnRecord, ManagerOwnsMapping
  <2> QED BY <1>5, <2>1
<1> QED BY <1>2, <1>5, <1>6, <1>7, Untouched DEF IInv

(* The proof of an enable is written behind its successful terminal record. *)
LEMMA EnableProvenPreserves ==
  ASSUME IInv, EnableProven
  PROVE  IInv'
<1>1. row \in Rows /\ proof \in Proofs /\ busy \in Operations /\ busy.at = "prove"
  BY DEF EnableProven, IInv, TypeOK
<1>2. busy.kind \in {"enable", "disable"}
  BY <1>1 DEF IInv, OperationOnRecord, Operations
<1>3. /\ busy.op \in Ops /\ trail[busy.op] = "succeeded"
      /\ asked = [op |-> busy.op, kind |-> "enable"]
  BY <1>1, <1>2 DEF IInv, OperationOnRecord
<1>4. UNCHANGED <<trail, latest, asked, serve, made>> /\ faults' \in [faults : Nat, drifts : Nat]
  BY FaultsTyped DEF EnableProven, audit, outside, IInv
<1>5. PICK p \in Proofs, l \in Leases : Ends(row, p, l) /\ p.op \in {proof.op, busy.op}
  <2>1. CASE Ends(row, [op |-> busy.op, gen |-> row.gen], [gen |-> row.gen, left |-> Interval])
    <3>1. [op |-> busy.op, gen |-> row.gen] \in Proofs /\ [gen |-> row.gen, left |-> Interval] \in Leases
      BY <1>1, <1>3, RemoteAssumption DEF Rows, Proofs, Leases
    <3>2. [op |-> busy.op, gen |-> row.gen].op = busy.op
      OBVIOUS
    <3> QED BY <2>1, <3>1, <3>2
  <2>2. CASE Ends(row, proof, NoLease)
    BY <1>1, <2>2, Defaults
  <2> QED BY <2>1, <2>2 DEF EnableProven
<1>6. /\ row' = row /\ proof' = p /\ UNCHANGED phase
      /\ lease' \in Leases /\ guard' \in 0..Off /\ stream' \in [Streams -> Nat]
      /\ busy' \in Operations
      /\ OperationOnRecord' /\ ManagerOwnsMapping' /\ StreamsGuarded'
  BY <1>1, <1>5, EndsLeavesNothing DEF IInv
<1>7. TypeOK'
  BY <1>4, <1>6 DEF IInv, TypeOK
<1>8. ProofEarned'
  BY <1>3, <1>4, <1>5, <1>6 DEF IInv, ProofEarned
<1> QED BY <1>4, <1>6, <1>7, <1>8, Untouched DEF IInv

(* A disable drops a selection that is not there and keeps one that is. *)
LEMMA DisableRows ==
  ASSUME NEW r \in Rows
  PROVE  /\ Unconfigured(r) \in Rows /\ ~Unconfigured(r).sel
         /\ CleanupState(r) \in Rows /\ CleanupState(r).sel = r.sel
<1> DEFINE g == r.gen + 1
<1>1. g \in Nat
  BY DEF Rows
<1>2. /\ Unconfigured(r)
           = [gen |-> g, intent |-> "disabled", sel |-> FALSE, seen |-> None, fail |-> None]
      /\ CleanupState(r) = [r EXCEPT !.gen = g, !.intent = "disabled", !.fail = "cleanup"]
  BY DEF Unconfigured, CleanupState
<1> HIDE DEF g
<1>3. Unconfigured(r) \in Rows /\ ~Unconfigured(r).sel
  BY <1>1, <1>2 DEF Rows
<1>4. CleanupState(r) \in Rows /\ CleanupState(r).sel = r.sel
  BY <1>1, <1>2 DEF Rows
<1> QED BY <1>3, <1>4

(* Where a disable goes from idle. *)
DisableAt(o, at, res) == [[Idle EXCEPT !.kind = "disable", !.op = o] EXCEPT !.at = at, !.res = res]

(* A disable keeps the selection while there is something to remove. *)
LEMMA DisableBeginPreserves ==
  ASSUME IInv, NEW o \in Ops, DisableBegin(o)
  PROVE  IInv'
<1>1. row \in Rows /\ UNCHANGED outside
  BY DEF DisableBegin, IInv, TypeOK
<1>2. CASE Unaccepted(row)
  BY <1>1, <1>2, UnacceptedPreserves
<1>3. ASSUME NEW at \in {"manager", "terminal"}, NEW res \in {None, "succeeded", "incomplete"},
             NEW r \in Rows,
             r.sel = row.sel, at = "manager" => row.sel,
             at = "terminal" => res \in {"succeeded", "incomplete"},
             Recorded(o, "accepted"), asked' = [op |-> o, kind |-> "disable"], lease' = NoLease,
             faults' \in [faults : Nat, drifts : Nat],
             GoesOn(DisableAt(o, at, res), r, ProofAfterAccepted)
      PROVE  IInv'
  <2>1. /\ DisableAt(o, at, res) \in Operations
        /\ DisableAt(o, at, res).kind = "disable" /\ DisableAt(o, at, res).op = o
        /\ DisableAt(o, at, res).at = at /\ DisableAt(o, at, res).res = res
    BY DEF DisableAt, Idle, Operations
  <2>2. /\ busy' = DisableAt(o, at, res) /\ row' = r /\ proof' = ProofAfterAccepted
        /\ UNCHANGED <<phase, guard, stream>>
    BY <1>3 DEF GoesOn
  <2>3. /\ trail' \in [Ops -> Outcomes] /\ latest' \in [op : Ops \cup {None}, out : Outcomes]
        /\ asked' \in [op : Ops \cup {None}, kind : {None, "enable", "disable"}]
        /\ OperationOnRecord' /\ ProofEarned'
    <3>1. busy'.kind = "disable" /\ busy'.op = o /\ busy'.at \in {"manager", "terminal"}
      BY <2>1, <2>2
    <3>2. busy'.at = "terminal" => busy'.res \in {"succeeded", "failed", "incomplete"}
      BY <1>3, <2>1, <2>2
    <3> QED BY <1>3, <2>2, <3>1, <3>2, AcceptedIs DEF IInv
  <2>4. TypeOK'
    BY <1>1, <1>3, <2>1, <2>2, <2>3, Defaults DEF IInv, TypeOK, outside, ProofAfterAccepted
  <2>5. ManagerOwnsMapping' /\ MappingRemembered'
    BY <1>1, <1>3, <2>1, <2>2 DEF IInv, ManagerOwnsMapping, MappingRemembered, outside
  <2> QED BY <2>2, <2>3, <2>4, <2>5, Untouched DEF IInv
<1>4. CASE /\ Recorded(o, "accepted") /\ asked' = [op |-> o, kind |-> "disable"]
           /\ lease' = NoLease /\ UNCHANGED faults /\ row.sel
           /\ GoesOn(DisableAt(o, "manager", None), CleanupState(row), ProofAfterAccepted)
  <2>1. CleanupState(row) \in Rows /\ CleanupState(row).sel = row.sel
    BY <1>1, DisableRows
  <2> QED BY <1>3, <1>4, <2>1, FaultsTyped DEF IInv
<1>5. CASE /\ Recorded(o, "accepted") /\ asked' = [op |-> o, kind |-> "disable"]
           /\ lease' = NoLease /\ UNCHANGED faults /\ ~row.sel
           /\ GoesOn(DisableAt(o, "terminal", "succeeded"), Unconfigured(row), ProofAfterAccepted)
  <2>1. Unconfigured(row) \in Rows /\ ~Unconfigured(row).sel
    BY <1>1, DisableRows
  <2>2. Unconfigured(row).sel = row.sel
    BY <1>1, <1>5, <2>1 DEF Rows
  <2> QED BY <1>3, <1>5, <2>1, <2>2, FaultsTyped DEF IInv
<1>6. CASE /\ Recorded(o, "accepted") /\ asked' = [op |-> o, kind |-> "disable"]
           /\ lease' = NoLease /\ Fault
           /\ GoesOn(DisableAt(o, "terminal", "incomplete"), row, ProofAfterAccepted)
  BY <1>1, <1>3, <1>6, FaultsTyped DEF IInv
<1>7. \/ Unaccepted(row)
      \/ /\ Recorded(o, "accepted") /\ asked' = [op |-> o, kind |-> "disable"] /\ lease' = NoLease
         /\ \/ /\ UNCHANGED faults /\ row.sel
               /\ GoesOn(DisableAt(o, "manager", None), CleanupState(row), ProofAfterAccepted)
            \/ /\ UNCHANGED faults /\ ~row.sel
               /\ GoesOn(DisableAt(o, "terminal", "succeeded"), Unconfigured(row), ProofAfterAccepted)
            \/ Fault /\ GoesOn(DisableAt(o, "terminal", "incomplete"), row, ProofAfterAccepted)
  BY DEF DisableBegin, DisableAt
<1> QED BY <1>2, <1>4, <1>5, <1>6, <1>7

(* The selection goes only when the mapping is verified to be gone. *)
LEMMA DisableAppliedPreserves ==
  ASSUME IInv, DisableApplied
  PROVE  IInv'
<1>1. busy \in Operations /\ row \in Rows /\ busy.kind = "disable" /\ busy.at = "managed"
  BY DEF DisableApplied, IInv, TypeOK
<1>2. PICK r \in {row, Unconfigured(row)}, out \in {"succeeded", "incomplete"} :
        /\ GoesOn(Concluded(out), r, proof)
        /\ r # row => busy.res = "done"
  BY DEF DisableApplied, RemovalVerified
<1>3. /\ busy' = Concluded(out) /\ row' = r /\ proof' = proof /\ UNCHANGED <<phase, guard, stream>>
  BY <1>2 DEF GoesOn
<1>4. /\ busy' \in Operations
      /\ busy'.kind = busy.kind /\ busy'.op = busy.op /\ busy'.at = "terminal"
      /\ busy'.res \in {"succeeded", "incomplete"}
  BY <1>1, <1>3 DEF Operations, Concluded
<1>5. UNCHANGED <<trail, latest, asked, lease, serve, made>> /\ faults' \in [faults : Nat, drifts : Nat]
  BY FaultsTyped DEF DisableApplied, audit, outside, IInv
<1>6. r \in Rows
  BY <1>1, DisableRows
<1>7. made => r = row
  BY <1>1, <1>2 DEF IInv, ManagerOwnsMapping
<1>8. TypeOK'
  BY <1>3, <1>4, <1>5, <1>6 DEF IInv, TypeOK
<1>9. OperationOnRecord'
  BY <1>1, <1>4, <1>5 DEF IInv, OperationOnRecord
<1>10. ManagerOwnsMapping' /\ MappingRemembered'
  BY <1>3, <1>4, <1>5, <1>7 DEF IInv, ManagerOwnsMapping, MappingRemembered
<1> QED BY <1>3, <1>5, <1>8, <1>9, <1>10, Untouched DEF IInv

(* A guard that runs down stays set. *)
LEMMA TickPreserves ==
  ASSUME IInv, Tick
  PROVE  IInv'
<1>1. lease' \in Leases
  <2>1. lease \in Leases
    BY DEF IInv, TypeOK
  <2>2. lease.left > 0 => [lease EXCEPT !.left = @ - 1] \in Leases
    BY <2>1, RemoteAssumption DEF Leases
  <2> QED BY <2>1, <2>2 DEF Tick
<1>2. guard' \in 0..Off /\ (guard # Off => guard' # Off)
  BY RemoteAssumption DEF Tick, IInv, TypeOK, Off
<1>3. TypeOK'
  BY <1>1, <1>2 DEF Tick, IInv, TypeOK, audit, outside
<1>4. StreamsGuarded'
  BY <1>2 DEF Tick, IInv, StreamsGuarded
<1> QED BY <1>3, <1>4, Untouched DEF Tick, IInv, audit, outside

(* A mapping changed by another program is no longer HostDeck's. *)
LEMMA DriftPreserves ==
  ASSUME IInv, Drift
  PROVE  IInv'
<1>1. TypeOK'
  <2>1. faults' \in [faults : Nat, drifts : Nat]
    BY FaultsTyped DEF Drift, IInv
  <2> QED BY <2>1 DEF Drift, IInv, TypeOK, audit, Mappings
<1>2. ManagerOwnsMapping' /\ MappingRemembered'
  BY DEF Drift, IInv, ManagerOwnsMapping, MappingRemembered
<1> QED BY <1>1, <1>2, Untouched DEF Drift, IInv, audit

(* A restart ends open trails and touches no success. *)
LEMMA RestartPreserves ==
  ASSUME IInv, Restart
  PROVE  IInv'
<1> DEFINE open == {o \in Ops : trail[o] = "accepted"}
<1>1. trail \in [Ops -> Outcomes] /\ trail' = [o \in Ops |-> IF o \in open THEN "incomplete" ELSE trail[o]]
  BY DEF Restart, IInv, TypeOK
<1>2. trail' \in [Ops -> Outcomes] /\ \A o \in Ops : trail[o] = "succeeded" => trail'[o] = "succeeded"
  BY <1>1 DEF Outcomes
<1>3. latest' \in [op : Ops \cup {None}, out : Outcomes]
  <2>1. CASE open = {}
    BY <2>1 DEF Restart, IInv, TypeOK
  <2>2. CASE open # {}
    BY <2>2 DEF Restart, Outcomes
  <2> QED BY <2>1, <2>2
<1>4. faults' \in [faults : Nat, drifts : Nat] /\ guard' \in 0..Off
  BY FaultsTyped, RemoteAssumption DEF Restart, IInv, Off
<1>5. TypeOK'
  BY <1>2, <1>3, <1>4, Defaults DEF Restart, IInv, TypeOK, outside
<1>6. OperationOnRecord' /\ ManagerOwnsMapping'
  BY DEF Restart, Idle, OperationOnRecord, ManagerOwnsMapping
<1>7. ProofEarned'
  BY <1>2 DEF Restart, IInv, ProofEarned
<1>8. StreamsGuarded'
  BY DEF Restart, StreamsGuarded
<1> QED BY <1>5, <1>6, <1>7, <1>8, Untouched DEF Restart, IInv, outside

----------------------------------------------------------------------------
(* Every step preserves the invariant. *)
LEMMA StepPreserves == IInv /\ [Next]_vars => IInv'
<1> SUFFICES ASSUME IInv, [Next]_vars PROVE IInv'
  OBVIOUS
<1>1. CASE \E s \in Streams : Admit(s) \/ Leave(s)
  BY <1>1, AdmitPreserves, LeavePreserves
<1>2. CASE \E o \in Ops : EnableBegin(o) \/ DisableBegin(o)
  BY <1>2, BeginPreserves, DisableBeginPreserves
<1>3. CASE Refuse \/ GuardFires \/ StatusBegin \/ StatusDisabled \/ ObserverReads \/ StatusEnd
           \/ LifecycleFails
  BY <1>3, RefusePreserves, BeginPreserves, StatusDisabledPreserves, ObserverReadsPreserves,
     StatusEndPreserves, LifecycleFailsPreserves
<1>4. CASE EnableRejected \/ EnableAccepted \/ ManagerRuns \/ EnableApplied \/ Terminal
           \/ EnableProven \/ DisableApplied
  BY <1>4, EnableRejectedPreserves, EnableAcceptedPreserves, ManagerRunsPreserves,
     EnableAppliedPreserves, TerminalPreserves, EnableProvenPreserves, DisableAppliedPreserves
<1>5. CASE Tick \/ Drift \/ Restart
  BY <1>5, TickPreserves, DriftPreserves, RestartPreserves
<1>6. CASE UNCHANGED vars
  BY <1>6, Untouched DEF IInv, TypeOK, vars
<1> QED BY <1>1, <1>2, <1>3, <1>4, <1>5, <1>6 DEF Next

(* At first remote access is disabled and nothing is on record. *)
LEMMA InitEstablishes == Init => IInv
<1> SUFFICES ASSUME Init PROVE IInv
  OBVIOUS
<1>1. TypeOK
  <2>1. row \in Rows /\ guard \in 0..Off
    BY RemoteAssumption DEF Init, Rows, Off
  <2> QED BY <2>1, RemoteAssumption, Defaults DEF Init, TypeOK, Outcomes, Mappings
<1>2. OperationOnRecord /\ ManagerOwnsMapping /\ MappingRemembered /\ StreamsGuarded
  BY DEF Init, Idle, OperationOnRecord, ManagerOwnsMapping, MappingRemembered, StreamsGuarded
<1>3. ProofEarned
  BY DEF Init, NoProof, ProofEarned
<1> QED BY <1>1, <1>2, <1>3 DEF IInv

(* The invariant of remote access, for any number of operations, streams,  *)
(* faults and drifts and any length of a lease.                            *)
THEOREM InvariantHolds == Spec => []IInv
  BY InitEstablishes, StepPreserves, PTL DEF Spec

(* The rows, the audit trails, the lease and the timers have the types the *)
(* code gives them.                                                        *)
THEOREM TypeCorrect == Spec => []TypeOK
<1>1. IInv => TypeOK
  BY DEF IInv
<1> QED BY <1>1, InvariantHolds, PTL

(* No failed write, no command without an answer, no restart and no later  *)
(* observation opens admission under a disable or under an enable whose    *)
(* end is not on record (readAdmissionLease, the proof's trigger).         *)
THEOREM AdmissionEarnedHolds == Spec => []AdmissionEarned
<1>1. IInv => AdmissionEarned
  BY DEF IInv, ProofEarned, AdmissionEarned, Open, OpenIn
<1> QED BY <1>1, InvariantHolds, PTL

(* A mapping HostDeck has published stays selected until it is gone        *)
(* (executeEnableTransition, executeDisableTransition).                    *)
THEOREM MappingRememberedHolds == Spec => []MappingRemembered
<1>1. IInv => MappingRemembered
  BY DEF IInv
<1> QED BY <1>1, InvariantHolds, PTL

(* While a stream is open the guard timer is set, so that it ends when its *)
(* admission does: what the liveness of streams rests on (armGuard).       *)
THEOREM StreamsGuardedHolds == Spec => []StreamsGuarded
<1>1. IInv => StreamsGuarded
  BY DEF IInv
<1> QED BY <1>1, InvariantHolds, PTL

(***************************************************************************)
(* The service commands.  ServiceInv says what the journal, the files and  *)
(* the manager hold at each step of a command; its last part only as long  *)
(* as the machine was not restarted nor the manager reloaded by others.    *)
(***************************************************************************)
(* The steps of a command, by the journal they find.                       *)
Opening == {"inspect", "restart", "ready", "stop", "stopped", "again_reload", "again_enable",
            "again_canon", "again_check", "journal", "x_journal"}
Changing == Forward \cup Undoing \cup GoingBack \cup {"undo_close"}
Removing == {"x_own", "x_stop", "x_stopped", "x_disable", "x_disabled", "x_anchors", "x_anchored",
             "x_releases", "x_reload", "x_reloaded", "x_close"}
Steps == Opening \cup Recovering \cup Changing \cup Removing
Commands == {"install", "upgrade", "start", "stop", "restart", "uninstall"}

OrNone == Releases \cup {NoRelease}
Phases == {"preparing", "prepared", "selected", "manager_reloaded"}
Removals ==
  {"prepared", "stopped", "disabled", "anchors_removed", "releases_removed", "manager_reloaded"}
Transactions == [op : {"install", "upgrade"}, phase : Phases, next : Releases, active : BOOLEAN,
                 prev : OrNone]
Uninstalls == [op : {"uninstall"}, phase : Removals, active : OrNone, sels : SUBSET Releases]
Disks == [releases : [Releases -> {"absent", "torn", "whole"}], staging : BOOLEAN,
          selector : OrNone, anchors : {"none", "some", "all"},
          environment : {"absent", "torn", "whole"}, enabled : {"no", "manager", "exact"},
          temp : BOOLEAN]
Managers == [loaded : OrNone, host : OrNone, codex : BOOLEAN]
Runs == [at : Steps, cmd : Commands, src : OrNone, active : BOOLEAN, prev : OrNone,
         clean : BOOLEAN, created : BOOLEAN, published : BOOLEAN]
Budgets == [kills : Nat, faults : Nat, reboots : 0..MaxReboots]

ServiceTyped ==
  /\ journal \in {NoJournal, TornJournal} \cup Transactions \cup Uninstalls
  /\ disk \in Disks /\ manager \in Managers /\ run \in {NoCommand} \cup Runs
  /\ budget \in Budgets /\ slips \subseteq {"kept", "unjournalled"}

(* The journal is the one of the running command.  An install or upgrade   *)
(* works without one while it reads its result, and when it is undone      *)
(* after that: then a call has failed since the journal was removed.       *)
Unrecorded == "unjournalled" \in slips
JournalOfCommand ==
  /\ journal.op = "install" => journal.prev = NoRelease
  /\ journal.op = "upgrade" => journal.prev # NoRelease
  /\ run # NoCommand /\ run.cmd \in {"install", "upgrade"} => run.src \in Releases
  /\ run.at \in Opening \cup {"result"} => journal = NoJournal
  /\ run.at \in Recovering \ {"recover"} => journal.op \in {"install", "upgrade"}
  /\ run.at \in Removing => journal.op = "uninstall"
  /\ run.at \in Changing \cup {"journal"} =>
       run.cmd \in {"install", "upgrade"} /\ (run.prev = NoRelease <=> run.cmd = "install")
  /\ run.at \in Changing /\ journal # NoJournal =>
       /\ journal.op = run.cmd /\ journal.next = run.src
       /\ journal.active = run.active /\ journal.prev = run.prev
  /\ run.at \in (Forward \ {"result"}) \cup {"discard"} => journal # NoJournal
  /\ run.at \in Changing /\ journal = NoJournal => run.at = "result" \/ Unrecorded
  /\ run.at \in {"stage", "publish", "prepared"} => journal.phase = "preparing"
  /\ run.at = "discard" => journal.phase \in {"preparing", "prepared"}
  /\ run.at \in {"reload", "reloaded", "enable", "canonical", "next_restart", "next_ready",
                 "next_inactive", "prune", "close"} =>
       journal.phase \in {"selected", "manager_reloaded"}
  /\ run.at \in Changing \ {"stage", "publish", "prepared", "discard"} /\ journal # NoJournal =>
       journal.phase # "preparing"
  /\ run.at \in {"rec_disable", "rec_remove"} => journal.prev = NoRelease
  /\ run.at \in {"rec_select", "rec_restart", "rec_ready", "rec_inactive"} =>
       journal.prev # NoRelease
  /\ run.at \in {"environment", "anchors", "enable", "canonical", "undo_close"} \cup Undoing =>
       run.prev = NoRelease
  /\ run.at \in {"next_restart", "next_ready"} \cup (GoingBack \ {"discard"}) =>
       run.prev # NoRelease
  /\ run.at \in {"back_restart", "next_restart"} => run.active

(* What is on the disk while the journal says otherwise.  "Kept" is what a *)
(* failed publication left behind that the undoing does not know of.       *)
Nothing == NoArtifacts /\ disk.enabled = "no"
Kept == "kept" \in slips
AsBefore(prev) ==
  IF prev = NoRelease THEN Nothing ELSE AllArtifacts /\ disk.selector = prev
CanGoBack(prev) == prev # NoRelease => prev \in Whole
Undoable ==
  run.cmd = "install" => /\ run.created \/ disk.environment = "absent"
                         /\ run.published \/ disk.selector = NoRelease
UndoneSoFar ==
  /\ run.at # "undo_enable" => disk.enabled = "no"
  /\ run.at \notin {"undo_enable", "undo_selector"} => disk.selector = NoRelease
  /\ run.at \in {"undo_environment", "undo_reload", "undo_close"} => disk.anchors = "none"
  /\ run.at \in {"undo_reload", "undo_close"} => disk.environment = "absent"

FilesOfStep ==
  /\ journal = NoJournal /\ slips = {} => AllArtifacts \/ Nothing
  /\ run.at \in {"again_reload", "again_enable", "again_canon", "again_check"} => AllArtifacts
  /\ run.at = "journal" => AsBefore(run.prev)
  /\ run.at = "rec_remove" => disk.enabled = "no"
  /\ run.at = "rec_select" =>
       disk.anchors = "all" /\ disk.environment = "whole" /\ CanGoBack(journal.prev)
  /\ run.at \in {"rec_reload", "rec_restart", "rec_ready", "rec_inactive", "rec_close"} =>
       AsBefore(journal.prev)
  /\ run.at \in {"stage", "publish", "prepared", "discard", "environment"} => AsBefore(run.prev)
  /\ run.at \in Forward \ {"stage", "publish"} => run.src \in Whole /\ CanGoBack(run.prev)
  /\ run.at = "anchors" => disk.environment = "whole"
  /\ run.at = "select" => disk.environment = "whole" /\ disk.anchors = "all"
  /\ run.at \in {"selected", "reload", "reloaded", "enable", "canonical", "next_restart",
                 "next_ready", "next_inactive", "prune", "close", "result"} =>
       AllArtifacts /\ disk.selector = run.src
  /\ run.at \in (Forward \ {"stage", "publish", "prepared"}) \cup Undoing => Kept \/ Undoable
  /\ run.at \in Undoing \cup {"undo_close"} /\ run.clean => Kept \/ UndoneSoFar
  /\ run.at = "back_select" =>
       disk.anchors = "all" /\ disk.environment = "whole" /\ CanGoBack(run.prev)
  /\ run.at \in GoingBack \ {"back_select"} => AsBefore(run.prev)
  /\ run.at \in {"x_disabled", "x_anchors", "x_anchored", "x_releases", "x_reload", "x_reloaded",
                 "x_close"} => disk.enabled = "no"
  /\ run.at \in {"x_anchored", "x_releases", "x_reload", "x_reloaded", "x_close"} => NoArtifacts

(* A rollback ends with the previous release loaded, and running if it did. *)
UnitsGoBack ==
  /\ run.at \in {"back_restart", "back_check", "back_close"} => manager.loaded = run.prev
  /\ run.at \in {"back_check", "back_close"} /\ run.active => manager.host = run.prev
  /\ run.at = "back_close" /\ ~run.active => manager.host = NoRelease

(* As long as the machine was not restarted nor the manager reloaded by    *)
(* others, it knows the release that the journal says.                     *)
Knows(r) == manager.loaded \in {NoRelease, r} /\ manager.host \in {NoRelease, r}
UnitsOfJournal ==
  /\ journal.op = "install" => manager.host = NoRelease
  /\ journal.op = "install" /\ journal.phase = "preparing" => manager.loaded = NoRelease
  /\ journal.op = "upgrade" /\ ~ManagerMayHaveObservedNext => Knows(journal.prev)
UnitsOfStep ==
  /\ journal = NoJournal => Knows(disk.selector)
  /\ UnitsOfJournal
  /\ run.at \in {"rec_restart", "rec_ready", "rec_inactive"} => manager.loaded = journal.prev
  /\ run.at = "rec_ready" => manager.host = journal.prev
  /\ run.at = "rec_close" => Knows(journal.prev)
  /\ run.at = "discard" => Knows(run.prev)
  /\ run.at \in {"reloaded", "enable", "canonical", "next_restart", "next_ready", "prune",
                 "close"} =>
       manager.loaded = run.src
  /\ run.at = "next_ready" => manager.host = run.src
  /\ run.at \in {"prune", "close"} => Knows(run.src)
  /\ run.at \in {"x_disable", "x_disabled", "x_anchors", "x_anchored", "x_releases", "x_reload",
                 "x_reloaded", "x_close"} => manager.host = NoRelease
  /\ run.at = "x_close" => manager.loaded = NoRelease
Undisturbed == budget.reboots = MaxReboots /\ ~Unrecorded
UnitsUndisturbed == Undisturbed => UnitsOfStep

ServiceInv == ServiceTyped /\ JournalOfCommand /\ FilesOfStep /\ UnitsGoBack /\ UnitsUndisturbed

----------------------------------------------------------------------------
\* Releases are numbered from one, so none of them is "no release".
LEMMA ReleasesNumbered ==
  /\ NoRelease \notin Releases /\ Whole \subseteq Releases
  /\ Releases \subseteq OrNone /\ NoRelease \in OrNone
  BY LifecycleAssumption DEF NoRelease, Releases, Whole, OrNone

\* The files after a change of one or a few of their fields.
LEMMA DiskChanges ==
  ASSUME NEW d \in Disks
  PROVE  /\ \A b \in BOOLEAN : /\ [d EXCEPT !.staging = b] \in Disks
                               /\ [d EXCEPT !.temp = b] \in Disks
         /\ \A s \in OrNone : [d EXCEPT !.selector = s] \in Disks
         /\ \A e \in {"no", "manager", "exact"} : [d EXCEPT !.enabled = e] \in Disks
         /\ d.environment \in {"absent", "torn", "whole"} /\ d.selector \in OrNone
  BY DEF Disks

\* The files after the environment or the links came or went.
LEMMA ArtifactChanges ==
  ASSUME NEW d \in Disks, NEW a \in {"none", "some", "all"}, NEW s \in OrNone,
         NEW e \in {"absent", "torn", "whole"}
  PROVE  /\ [d EXCEPT !.environment = e] \in Disks
         /\ [d EXCEPT !.anchors = a] \in Disks
         /\ [d EXCEPT !.selector = s, !.anchors = a] \in Disks
         /\ [d EXCEPT !.selector = s, !.anchors = a, !.environment = e] \in Disks
         /\ [d EXCEPT !.anchors = a, !.selector = s, !.environment = e] \in Disks
<1>0. [d EXCEPT !.environment = e] \in Disks
  BY DEF Disks
<1>1. [d EXCEPT !.anchors = a] \in Disks
  BY DEF Disks
<1>2. [d EXCEPT !.selector = s, !.anchors = a] \in Disks
  BY DEF Disks
<1>3. [d EXCEPT !.selector = s, !.anchors = a, !.environment = e] \in Disks
  BY DEF Disks
<1>4. [d EXCEPT !.anchors = a, !.selector = s, !.environment = e] \in Disks
  BY DEF Disks
<1> QED BY <1>0, <1>1, <1>2, <1>3, <1>4

\* The files after a release was published, removed or torn.
LEMMA ReleaseChanges ==
  ASSUME NEW d \in Disks, NEW r \in Releases, NEW e \in {"absent", "torn", "whole"},
         NEW b \in BOOLEAN
  PROVE  /\ [d EXCEPT !.releases[r] = e] \in Disks
         /\ [d EXCEPT !.staging = b, !.releases[r] = e] \in Disks
  BY DEF Disks

\* The manager after a reload, a start or a stop.
LEMMA ManagerChanges ==
  ASSUME NEW m \in Managers
  PROVE  /\ \A r \in OrNone : /\ [m EXCEPT !.loaded = r] \in Managers
                              /\ [m EXCEPT !.host = r] \in Managers
                              /\ \A b \in BOOLEAN : [m EXCEPT !.host = r, !.codex = b] \in Managers
         /\ m.loaded \in OrNone /\ m.host \in OrNone
         /\ OnDisk \in OrNone /\ NoRelease \in OrNone
  BY DEF Managers, OrNone, OnDisk, Whole

\* The journal of a transaction at a later phase.
LEMMA JournalChanges ==
  /\ \A j \in Transactions, p \in Phases : [j EXCEPT !.phase = p] \in Transactions
  /\ \A j \in Uninstalls, p \in Removals : [j EXCEPT !.phase = p] \in Uninstalls
  /\ ServiceTyped /\ journal.op \in {"install", "upgrade"} => journal \in Transactions
  /\ ServiceTyped /\ journal.op = "uninstall" => journal \in Uninstalls
  /\ \A j \in Transactions : j.prev \in OrNone /\ j.next \in Releases
  BY DEF Transactions, Uninstalls, ServiceTyped, NoJournal, TornJournal

\* What is on record about a transaction when its phase moves on.
LEMMA PhaseMoves ==
  ASSUME ServiceTyped, journal.op \in {"install", "upgrade"}, NEW p \in Phases, SetPhase(p)
  PROVE  /\ journal' \in Transactions /\ journal'.phase = p
         /\ journal'.op = journal.op /\ journal'.next = journal.next
         /\ journal'.active = journal.active /\ journal'.prev = journal.prev
         /\ journal' # NoJournal /\ UNCHANGED <<disk, manager, budget, slips>>
<1>1. journal \in Transactions
  BY JournalChanges
<1>2. journal' = [journal EXCEPT !.phase = p] /\ UNCHANGED <<disk, manager, budget, slips>>
  BY DEF SetPhase, SetJournal
<1>3. journal' \in Transactions
  BY <1>1, <1>2, JournalChanges
<1> QED BY <1>1, <1>2, <1>3 DEF Transactions, NoJournal

\* An uninstall goes on from one phase to the next, or leaves a later one.
LEMMA Advances ==
  ASSUME ServiceTyped, journal.op = "uninstall", NEW p \in Removals, NEW l, Advance(p, l)
  PROVE  /\ journal' \in Uninstalls /\ journal'.op = "uninstall" /\ journal' # NoJournal
         /\ Goto(l) /\ UNCHANGED <<disk, manager, budget, slips>>
<1>1. journal \in Uninstalls
  BY JournalChanges
<1>2. /\ journal' \in {[journal EXCEPT !.phase = p], journal}
      /\ Goto(l) /\ UNCHANGED <<disk, manager, budget, slips>>
  BY DEF Advance, SetJournal
<1>3. journal' \in Uninstalls
  BY <1>1, <1>2, JournalChanges
<1> QED BY <1>2, <1>3 DEF Uninstalls, NoJournal

\* The running command at another step.
LEMMA RunMoves ==
  ASSUME ServiceTyped, run.at # "idle"
  PROVE  /\ run \in Runs
         /\ \A l \in Steps, b \in BOOLEAN : /\ [run EXCEPT !.at = l] \in Runs
                                         /\ [run EXCEPT !.at = l, !.created = b] \in Runs
                                         /\ [run EXCEPT !.at = l, !.published = b] \in Runs
                                         /\ [run EXCEPT !.clean = b, !.at = l] \in Runs
         /\ \A l \in Steps, b \in BOOLEAN, r \in OrNone :
              [run EXCEPT !.at = l, !.active = b, !.prev = r] \in Runs
         /\ run # NoCommand
<1>1. run \in Runs /\ run # NoCommand
  BY DEF ServiceTyped, NoCommand
<1>2. \A l \in Steps : [run EXCEPT !.at = l] \in Runs
  BY <1>1 DEF Runs
<1>3. \A l \in Steps, b \in BOOLEAN, r \in OrNone :
        [run EXCEPT !.at = l, !.active = b, !.prev = r] \in Runs
  BY <1>1 DEF Runs
<1>4. \A l \in Steps, b \in BOOLEAN : [run EXCEPT !.at = l, !.created = b] \in Runs
  BY <1>1 DEF Runs
<1>5. \A l \in Steps, b \in BOOLEAN : [run EXCEPT !.at = l, !.published = b] \in Runs
  BY <1>1 DEF Runs
<1>6. \A l \in Steps, b \in BOOLEAN : [run EXCEPT !.clean = b, !.at = l] \in Runs
  BY <1>1 DEF Runs
<1> QED BY <1>1, <1>2, <1>3, <1>4, <1>5, <1>6

\* An installation that is reported whole or absent is.
LEMMA InstallStateTrue ==
  /\ InstallState \in {"coherent", "disabled"} => AllArtifacts
  /\ InstallState = "not_installed" => Nothing
  BY DEF InstallState, Nothing

\* What a command that found nothing pending goes on to do, and on what files.
LEMMA InspectedIs ==
  ASSUME ServiceInv, Inspect
  PROVE  /\ Inspected \in {"ok", "refused", "again_reload", "journal", "x_journal", "restart",
                           "ready", "stop"}
         /\ Inspected = "again_reload" => AllArtifacts
         /\ Inspected = "journal" =>
              /\ run.src \in Releases
              /\ (run.cmd = "install" /\ Nothing) \/ (run.cmd = "upgrade" /\ AllArtifacts)
<1>a. run.at = "inspect" /\ run \in Runs /\ run # NoCommand
  BY RunMoves DEF ServiceInv, Inspect, At
<1>1. /\ journal = NoJournal /\ run \in Runs
      /\ run.cmd \in {"install", "upgrade"} => run.src \in Releases
  BY <1>a DEF ServiceInv, JournalOfCommand, Opening
<1>2. InstallState \in {"coherent", "disabled"} => AllArtifacts
  BY InstallStateTrue
<1>3. InstallState = "not_installed" => Nothing
  BY InstallStateTrue
<1>4. run.cmd \in Commands
  BY <1>1 DEF Runs
<1>5. CASE run.cmd = "install"
  <2>1. Inspected = InspectInstall
    BY <1>5 DEF Inspected
  <2> QED BY <1>1, <1>2, <1>3, <1>5, <2>1 DEF InspectInstall
<1>6. CASE run.cmd = "upgrade"
  <2>1. Inspected = InspectUpgrade
    BY <1>6 DEF Inspected
  <2> QED BY <1>1, <1>2, <1>6, <2>1 DEF InspectUpgrade
<1>7. CASE run.cmd = "uninstall"
  <2>1. Inspected = InspectUninstall
    BY <1>7 DEF Inspected
  <2> QED BY <2>1 DEF InspectUninstall
<1>8. CASE run.cmd \in {"start", "stop", "restart"}
  <2>1. Inspected = InspectUnits
    BY <1>8 DEF Inspected
  <2> QED BY <1>8, <2>1 DEF InspectUnits
<1> QED BY <1>4, <1>5, <1>6, <1>7, <1>8 DEF Commands

\* A command that is not running is at no step.
LEMMA AtNoStep ==
  /\ NoCommand.at = "idle" /\ "idle" \notin Steps
  /\ Opening \subseteq Steps /\ Recovering \subseteq Steps /\ Changing \subseteq Steps
  /\ Removing \subseteq Steps /\ Forward \subseteq Changing /\ Undoing \subseteq Changing
  /\ GoingBack \subseteq Changing /\ "undo_close" \in Changing
  BY DEF NoCommand, Steps, Opening, Recovering, Changing, Forward, Undoing, GoingBack, Removing

\* A command gives up and leaves a journal: what the disk holds is of no concern
\* until a command has dealt with that journal.
LEMMA Abandoned ==
  ASSUME ServiceInv, run' = NoCommand, journal' # NoJournal,
         journal' \in {TornJournal} \cup Transactions \cup Uninstalls,
         journal'.op = "install" => journal'.prev = NoRelease,
         journal'.op = "upgrade" => journal'.prev # NoRelease,
         disk' \in Disks, budget' \in Budgets, manager' \in Managers,
         slips' \subseteq {"kept", "unjournalled"}, Undisturbed' => UnitsOfJournal'
  PROVE  ServiceInv'
<1>1. run'.at = "idle" /\ run'.at \notin Steps
  BY AtNoStep
<1>2. ServiceTyped'
  BY DEF ServiceTyped
<1>3. JournalOfCommand'
  BY <1>1 DEF JournalOfCommand, Steps, Opening, Recovering, Changing, Forward, Undoing, GoingBack,
              Removing
<1>4. FilesOfStep'
  BY <1>1 DEF FilesOfStep, Forward, Undoing, GoingBack
<1>5. UnitsGoBack'
  BY <1>1 DEF UnitsGoBack
<1>6. UnitsUndisturbed'
  BY <1>1 DEF UnitsUndisturbed, UnitsOfStep
<1> QED BY <1>2, <1>3, <1>4, <1>5, <1>6 DEF ServiceInv

\* A command ends and leaves no journal.
LEMMA LeavesNoJournal ==
  ASSUME ServiceInv, run' = NoCommand, journal' = NoJournal, disk' \in Disks, budget' \in Budgets,
         manager' \in Managers, slips' \subseteq {"kept", "unjournalled"},
         slips' = {} => AllArtifacts' \/ Nothing',
         Undisturbed' => Knows(disk.selector)'
  PROVE  ServiceInv'
<1>1. run'.at = "idle" /\ run'.at \notin Steps
  BY AtNoStep
<1>2. ServiceTyped'
  BY DEF ServiceTyped
<1>3. JournalOfCommand'
  BY <1>1 DEF JournalOfCommand, Steps, Opening, Recovering, Changing, Forward, Undoing, GoingBack,
              Removing, NoJournal
<1>4. FilesOfStep'
  BY <1>1 DEF FilesOfStep, Forward, Undoing, GoingBack
<1>5. UnitsGoBack'
  BY <1>1 DEF UnitsGoBack
<1>6. UnitsUndisturbed'
  BY <1>1 DEF UnitsUndisturbed, UnitsOfStep, UnitsOfJournal, NoJournal
<1> QED BY <1>2, <1>3, <1>4, <1>5, <1>6 DEF ServiceInv

\* A pending journal is one of those Abandoned speaks of.
LEMMA PendingJournal ==
  ASSUME ServiceInv, journal # NoJournal
  PROVE  /\ journal \in {TornJournal} \cup Transactions \cup Uninstalls
         /\ journal.op = "install" => journal.prev = NoRelease
         /\ journal.op = "upgrade" => journal.prev # NoRelease
  BY DEF ServiceInv, ServiceTyped, JournalOfCommand

\* A command that ends without a change leaves everything as its step found it.
LEMMA EndsQuietly ==
  ASSUME ServiceInv, run' = NoCommand, UNCHANGED <<journal, disk, manager, slips>>,
         budget' \in Budgets, budget'.reboots = MaxReboots => budget.reboots = MaxReboots
  PROVE  ServiceInv'
<1>1. /\ disk' \in Disks /\ manager' \in Managers /\ slips' \subseteq {"kept", "unjournalled"}
      /\ Undisturbed' => Undisturbed
  BY DEF ServiceInv, ServiceTyped, Undisturbed, Unrecorded
<1>2. CASE journal = NoJournal
  <2>1. slips' = {} => AllArtifacts' \/ Nothing'
    BY <1>2 DEF ServiceInv, FilesOfStep, AllArtifacts, Nothing, NoArtifacts, Whole
  <2>2. Undisturbed' => Knows(disk.selector)'
    BY <1>1, <1>2 DEF ServiceInv, UnitsUndisturbed, UnitsOfStep, Knows
  <2> QED BY <1>1, <1>2, <2>1, <2>2, LeavesNoJournal
<1>3. CASE journal # NoJournal
  <2>1. Undisturbed' => UnitsOfJournal'
    BY <1>1 DEF ServiceInv, UnitsUndisturbed, UnitsOfStep, UnitsOfJournal, Knows,
                ManagerMayHaveObservedNext
  <2> QED BY <1>1, <1>3, <2>1, PendingJournal, Abandoned
<1> QED BY <1>2, <1>3

\* A command starts: with a pending journal it has to deal with that first.
LEMMA BeginStep ==
  ASSUME ServiceInv, NEW c \in Commands, NEW r \in OrNone,
         c \in {"install", "upgrade"} => r \in Releases, BeginCommand(c, r)
  PROVE  ServiceInv'
<1> DEFINE l == IF c = "uninstall" /\ journal.op = "uninstall" THEN "x_own"
                ELSE IF journal # NoJournal THEN "recover" ELSE "inspect"
<1>1. /\ run' = [at |-> l, cmd |-> c, src |-> r, active |-> FALSE, prev |-> NoRelease,
                  clean |-> TRUE, created |-> FALSE, published |-> FALSE]
      /\ UNCHANGED <<journal, disk, manager, budget, slips>>
  BY DEF BeginCommand, Quiet
<1>2. /\ l \in {"x_own", "recover", "inspect"}
      /\ l = "x_own" => journal.op = "uninstall"
      /\ l = "inspect" => journal = NoJournal
  OBVIOUS
<1> HIDE DEF l
<1>3. l \in Steps
  BY <1>2 DEF Steps, Opening, Recovering, Removing
<1>4. run' \in Runs /\ run'.at = l /\ run'.cmd = c /\ run'.src = r
  BY <1>1, <1>3, ReleasesNumbered DEF Runs
<1>5. ServiceTyped'
  BY <1>1, <1>4 DEF ServiceInv, ServiceTyped
<1>6. JournalOfCommand'
  BY <1>1, <1>2, <1>4 DEF ServiceInv, JournalOfCommand, Opening, Recovering, Removing, Changing,
                          Forward, Undoing, GoingBack, Unrecorded
<1>7. FilesOfStep'
  BY <1>1, <1>2, <1>4 DEF ServiceInv, FilesOfStep, Nothing, NoArtifacts, AllArtifacts, Whole,
                          Forward, Undoing, GoingBack
<1>8. UnitsGoBack'
  BY <1>1, <1>2, <1>4 DEF UnitsGoBack
<1>9. UnitsUndisturbed'
  BY <1>1, <1>2, <1>4 DEF ServiceInv, UnitsUndisturbed, Undisturbed, Unrecorded,
                          UnitsOfStep, UnitsOfJournal, Knows,
                          ManagerMayHaveObservedNext
<1> QED BY <1>5, <1>6, <1>7, <1>8, <1>9 DEF ServiceInv

\* What a step that is cut short can leave.
LEMMA TearsTyped ==
  ASSUME ServiceInv, NEW d \in Tears \cup TempLinks
  PROVE  d \in Disks /\ (journal = NoJournal => Unrecorded)
<1> USE DEF At
<1>1. disk \in Disks /\ disk.selector \in OrNone /\ NoRelease \in OrNone
      /\ disk.anchors \in {"none", "some", "all"}
  BY ReleasesNumbered DEF ServiceInv, ServiceTyped, Disks
<1>2. \/ run.at \in (Recovering \ {"recover"}) \cup Removing
      \/ run.at \in Changing /\ run.at # "result"
  BY DEF Tears, TempLinks, Recovering, Changing, Removing, Forward, Undoing, GoingBack
<1>3. journal = NoJournal => Unrecorded
  BY <1>2 DEF ServiceInv, JournalOfCommand, NoJournal
<1>4. \/ d = [disk EXCEPT !.environment = "torn"]
      \/ \E sel \in OrNone, how \in {"none", "some", "all"} :
           d = [disk EXCEPT !.selector = sel, !.anchors = how]
      \/ d = [disk EXCEPT !.temp = TRUE] \/ d = [disk EXCEPT !.staging = FALSE]
      \/ \E r \in Whole : d = [disk EXCEPT !.releases[r] = "torn"]
  BY <1>1 DEF Tears, TempLinks, Links
<1>5. CASE \E r \in Whole : d = [disk EXCEPT !.releases[r] = "torn"]
  BY <1>1, <1>3, <1>5, ReleaseChanges, ReleasesNumbered
<1>6. CASE d = [disk EXCEPT !.environment = "torn"]
  BY <1>1, <1>3, <1>6, ArtifactChanges
<1>7. CASE d = [disk EXCEPT !.temp = TRUE] \/ d = [disk EXCEPT !.staging = FALSE]
  BY <1>1, <1>3, <1>7, DiskChanges
<1>8. CASE \E sel \in OrNone, how \in {"none", "some", "all"} :
             d = [disk EXCEPT !.selector = sel, !.anchors = how]
  <2>1. PICK sel \in OrNone, how \in {"none", "some", "all"} :
               d = [disk EXCEPT !.selector = sel, !.anchors = how]
    BY <1>8
  <2>2. [disk EXCEPT !.selector = sel, !.anchors = how] \in Disks
    BY <1>1, ArtifactChanges
  <2> QED BY <1>3, <2>1, <2>2
<1> QED BY <1>3, <1>4, <1>5, <1>6, <1>7, <1>8

\* A command is killed.
LEMMA KillStep ==
  ASSUME ServiceInv, Kill
  PROVE  ServiceInv'
<1>1. /\ run' = NoCommand /\ UNCHANGED <<manager, slips>>
      /\ budget' = [budget EXCEPT !.kills = @ - 1] /\ budget.kills > 0
  BY DEF Kill
<1>2. budget' \in Budgets /\ budget'.reboots = budget.reboots
  BY <1>1 DEF ServiceInv, ServiceTyped, Budgets
<1>3. /\ manager' \in Managers /\ slips' \subseteq {"kept", "unjournalled"}
      /\ Undisturbed' <=> Undisturbed
  BY <1>1, <1>2 DEF ServiceInv, ServiceTyped, Undisturbed, Unrecorded
<1>4. CASE UNCHANGED <<journal, disk>>
  BY <1>1, <1>2, <1>4, EndsQuietly
<1>5. CASE journal' = journal /\ disk' \in Tears \cup TempLinks
  <2>1. disk' \in Disks /\ (journal = NoJournal => Unrecorded)
    BY <1>5, TearsTyped
  <2>2. CASE journal = NoJournal
    <3>1. slips' # {} /\ ~Undisturbed'
      BY <1>1, <1>3, <2>1, <2>2 DEF Unrecorded, Undisturbed
    <3> QED BY <1>1, <1>2, <1>3, <1>5, <2>1, <2>2, <3>1, LeavesNoJournal
  <2>3. CASE journal # NoJournal
    <3>1. Undisturbed' => UnitsOfJournal'
      BY <1>1, <1>3, <1>5 DEF ServiceInv, UnitsUndisturbed, UnitsOfStep, UnitsOfJournal, Knows,
                              ManagerMayHaveObservedNext
    <3> QED BY <1>1, <1>2, <1>3, <1>5, <2>1, <2>3, <3>1, PendingJournal, Abandoned
  <2> QED BY <2>2, <2>3
<1>6. CASE journal' = TornJournal /\ disk' = disk
  <2>1. journal' # NoJournal /\ journal'.op = "torn" /\ disk' \in Disks
    BY <1>6 DEF TornJournal, NoJournal, ServiceInv, ServiceTyped
  <2>2. UnitsOfJournal'
    BY <2>1 DEF UnitsOfJournal
  <2> QED BY <1>1, <1>2, <1>3, <1>6, <2>1, <2>2, Abandoned
<1> QED BY <1>4, <1>5, <1>6 DEF Kill

\* The machine restarts, and with it the manager.
LEMMA RebootStep ==
  ASSUME ServiceInv, Reboot
  PROVE  ServiceInv'
<1>1. /\ run' = NoCommand /\ UNCHANGED <<journal, disk, slips>>
      /\ budget' = [budget EXCEPT !.reboots = @ - 1] /\ budget.reboots > 0
  BY DEF Reboot
<1>2. budget' \in Budgets /\ budget'.reboots # MaxReboots
  BY <1>1, LifecycleAssumption DEF ServiceInv, ServiceTyped, Budgets
<1>3. manager' \in Managers
  <2> DEFINE up == IF disk.enabled = "no" THEN NoRelease ELSE OnDisk
  <2>1. manager' = [loaded |-> OnDisk, host |-> up, codex |-> up # NoRelease]
    BY DEF Reboot
  <2>2. OnDisk \in OrNone /\ up \in OrNone
    BY ReleasesNumbered DEF OnDisk
  <2> HIDE DEF up
  <2> QED BY <2>1, <2>2 DEF Managers
<1>4. run'.at = "idle" /\ run'.at \notin Steps
  BY <1>1 DEF NoCommand, Steps, Opening, Recovering, Changing, Forward, Undoing, GoingBack, Removing
<1>5. ServiceTyped'
  BY <1>1, <1>2, <1>3 DEF ServiceInv, ServiceTyped
<1>6. JournalOfCommand'
  BY <1>1, <1>4 DEF ServiceInv, JournalOfCommand, Steps, Opening, Recovering, Changing, Forward,
              Undoing, GoingBack, Removing
<1>7. FilesOfStep'
  BY <1>1, <1>4 DEF ServiceInv, FilesOfStep, AllArtifacts, Nothing, NoArtifacts, Whole, Forward,
              Undoing, GoingBack
<1>8. UnitsGoBack' /\ UnitsUndisturbed'
  BY <1>2, <1>4 DEF UnitsGoBack, UnitsUndisturbed, Undisturbed
<1> QED BY <1>5, <1>6, <1>7, <1>8 DEF ServiceInv

\* Somebody else reloads the manager.
LEMMA ForeignReloadStep ==
  ASSUME ServiceInv, ForeignReload
  PROVE  ServiceInv'
<1>1. /\ UNCHANGED <<journal, disk, run, slips>> /\ manager.loaded # OnDisk
      /\ manager' = [manager EXCEPT !.loaded = OnDisk]
      /\ budget' = [budget EXCEPT !.reboots = @ - 1] /\ budget.reboots > 0
  BY DEF ForeignReload, Reload
<1>2. budget' \in Budgets /\ budget'.reboots # MaxReboots
  BY <1>1, LifecycleAssumption DEF ServiceInv, ServiceTyped, Budgets
<1>3. manager' \in Managers
  BY <1>1, ManagerChanges DEF ServiceInv, ServiceTyped
<1>4. ServiceTyped'
  BY <1>1, <1>2, <1>3 DEF ServiceInv, ServiceTyped
<1>5. JournalOfCommand'
  BY <1>1 DEF ServiceInv, JournalOfCommand, Unrecorded
<1>6. FilesOfStep'
  BY <1>1 DEF ServiceInv, FilesOfStep, AsBefore, Nothing, NoArtifacts, AllArtifacts, Whole,
              CanGoBack, Undoable, UndoneSoFar, Kept
<1>7. UnitsGoBack'
  <2>1. run.at \notin {"back_restart", "back_check", "back_close"}
    BY <1>1 DEF ServiceInv, UnitsGoBack, JournalOfCommand, FilesOfStep, AsBefore, AllArtifacts,
                GoingBack, OnDisk
  <2> QED BY <1>1, <2>1 DEF UnitsGoBack
<1>8. UnitsUndisturbed'
  BY <1>2 DEF UnitsUndisturbed, Undisturbed
<1> QED BY <1>4, <1>5, <1>6, <1>7, <1>8 DEF ServiceInv

\* The manager changes alone, while the files and the command stay as they are.
LEMMA ManagerAlone ==
  ASSUME ServiceInv, UNCHANGED <<journal, disk, run, budget, slips>>, manager' \in Managers,
         UnitsGoBack', UnitsOfStep => UnitsOfStep'
  PROVE  ServiceInv'
<1>1. ServiceTyped'
  BY DEF ServiceInv, ServiceTyped
<1>2. JournalOfCommand'
  BY DEF ServiceInv, JournalOfCommand, Unrecorded
<1>3. FilesOfStep'
  BY DEF ServiceInv, FilesOfStep, AsBefore, Nothing, NoArtifacts, AllArtifacts, Whole, CanGoBack,
         Undoable, UndoneSoFar, Kept
<1>4. UnitsUndisturbed'
  BY DEF ServiceInv, UnitsUndisturbed, Undisturbed, Unrecorded
<1> QED BY <1>1, <1>2, <1>3, <1>4 DEF ServiceInv

\* systemd restarts a service that exits, with what is loaded now.
LEMMA ServiceRestartsStep ==
  ASSUME ServiceInv, ServiceRestarts
  PROVE  ServiceInv'
<1>1. /\ manager.host # NoRelease /\ manager.host # manager.loaded
      /\ manager' = [manager EXCEPT !.host = manager.loaded] /\ manager.loaded # NoRelease
      /\ UNCHANGED <<journal, disk, run, budget, slips>>
  BY DEF ServiceRestarts
<1>2. manager \in Managers
  BY DEF ServiceInv, ServiceTyped
<1>3. manager' \in Managers
  BY <1>1, <1>2, ManagerChanges
<1>4. manager'.host = manager.loaded /\ manager'.loaded = manager.loaded
  BY <1>1, <1>2 DEF Managers
<1>5. UnitsGoBack'
  BY <1>1, <1>4 DEF ServiceInv, UnitsGoBack
<1>6. UnitsOfStep => UnitsOfStep'
  BY <1>1, <1>4 DEF UnitsOfStep, UnitsOfJournal, Knows, ManagerMayHaveObservedNext
<1> QED BY <1>1, <1>3, <1>5, <1>6, ManagerAlone

\* What the operator does by hand while no command runs.
LEMMA OperatorStep ==
  ASSUME ServiceInv, OperatorDisables \/ OperatorStops \/ OperatorReloads
  PROVE  ServiceInv'
<1>1. run.at = "idle" /\ run' = run /\ UNCHANGED <<journal, budget, slips>> /\ run.at \notin Steps
  BY DEF OperatorDisables, OperatorStops, OperatorReloads, At, Steps, Opening, Recovering, Changing,
         Forward, Undoing, GoingBack, Removing
<1>2. UnitsGoBack'
  BY <1>1 DEF UnitsGoBack
<1>3. CASE OperatorDisables
  <2>1. manager' = manager /\ disk' = [disk EXCEPT !.enabled = "no"] /\ AllArtifacts
    BY <1>3, InstallStateTrue DEF OperatorDisables
  <2>2. disk' \in Disks /\ disk \in Disks
    BY <2>1, DiskChanges DEF ServiceInv, ServiceTyped
  <2>3. AllArtifacts' /\ disk'.selector = disk.selector
    BY <2>1, <2>2 DEF AllArtifacts, Whole, Disks
  <2>4. ServiceTyped'
    BY <1>1, <2>1, <2>2 DEF ServiceInv, ServiceTyped
  <2>5. JournalOfCommand'
    BY <1>1 DEF ServiceInv, JournalOfCommand, Unrecorded
  <2>6. FilesOfStep'
    BY <1>1, <2>3 DEF FilesOfStep, Forward, Undoing, GoingBack
  <2>7. UnitsUndisturbed'
    BY <1>1, <2>1, <2>3 DEF ServiceInv, UnitsUndisturbed, Undisturbed, Unrecorded, UnitsOfStep,
                            UnitsOfJournal, Knows, ManagerMayHaveObservedNext
  <2> QED BY <1>2, <2>4, <2>5, <2>6, <2>7 DEF ServiceInv
<1>4. CASE OperatorStops
  <2>1. disk' = disk /\ manager' = [manager EXCEPT !.host = NoRelease] /\ manager \in Managers
    BY <1>4 DEF OperatorStops, ServiceInv, ServiceTyped
  <2>2. manager' \in Managers /\ manager'.host = NoRelease /\ manager'.loaded = manager.loaded
    BY <2>1, ManagerChanges DEF Managers
  <2>3. UnitsOfStep => UnitsOfStep'
    BY <1>1, <2>1, <2>2 DEF UnitsOfStep, UnitsOfJournal, Knows, ManagerMayHaveObservedNext
  <2> QED BY <1>1, <1>2, <2>1, <2>2, <2>3, ManagerAlone
<1>5. CASE OperatorReloads
  <2>1. /\ disk' = disk /\ manager' = [manager EXCEPT !.loaded = OnDisk] /\ manager \in Managers
        /\ journal.op = "uninstall"
    BY <1>5 DEF OperatorReloads, Reload, ServiceInv, ServiceTyped
  <2>2. manager' \in Managers /\ manager'.host = manager.host
    BY <2>1, ManagerChanges DEF Managers
  <2>3. UnitsOfStep => UnitsOfStep'
    BY <1>1, <2>1, <2>2 DEF UnitsOfStep, UnitsOfJournal, NoJournal
  <2> QED BY <1>1, <1>2, <2>1, <2>2, <2>3, ManagerAlone
<1> QED BY <1>3, <1>4, <1>5
\* A call that is reported as failed may have changed the manager as it was asked to.
LEMMA LateEffectUnits ==
  ASSUME ServiceTyped, LateEffect
  PROVE  /\ manager' \in Managers
         /\ manager' # manager => /\ run.at \in Reloads \cup Restarts \cup Stops
                                  /\ UNCHANGED <<journal, disk>>
         /\ manager'.loaded # manager.loaded => run.at \in Reloads /\ manager'.loaded = OnDisk
         /\ manager'.host # manager.host =>
              \/ run.at \in Restarts /\ manager'.host = manager.loaded
              \/ run.at \in Stops /\ manager'.host = NoRelease
<1>1. manager \in Managers
  BY DEF ServiceTyped
<1>2. \/ manager' = manager
      \/ /\ UNCHANGED <<journal, disk>>
         /\ \/ manager' = [manager EXCEPT !.loaded = OnDisk] /\ run.at \in Reloads
            \/ /\ manager' = [manager EXCEPT !.host = manager.loaded, !.codex = TRUE]
               /\ run.at \in Restarts
            \/ manager' = [manager EXCEPT !.host = NoRelease] /\ run.at \in Stops
  BY DEF LateEffect, LateUnits, LateFiles, LateJournal, Reload, RestartHost
<1>3. manager' \in Managers
  BY <1>1, <1>2, ManagerChanges
<1>4. CASE manager' = manager
  BY <1>3, <1>4
<1>5. CASE manager' = [manager EXCEPT !.loaded = OnDisk] /\ run.at \in Reloads
  BY <1>1, <1>2, <1>3, <1>5 DEF Managers
<1>6. CASE manager' = [manager EXCEPT !.host = manager.loaded, !.codex = TRUE] /\ run.at \in Restarts
  BY <1>1, <1>2, <1>3, <1>6 DEF Managers
<1>7. CASE manager' = [manager EXCEPT !.host = NoRelease] /\ run.at \in Stops
  BY <1>1, <1>2, <1>3, <1>7 DEF Managers
<1> QED BY <1>2, <1>4, <1>5, <1>6, <1>7

\* ... the files as its step does, wholly or in part ...
LEMMA LateEffectFiles ==
  ASSUME ServiceInv, LateEffect, run.at # "idle"
  PROVE  disk' \in Disks
<1> USE DEF At
<1>1. disk \in Disks /\ run \in Runs
  BY RunMoves DEF ServiceInv, ServiceTyped
<1>2. CASE disk' \in Tears
  BY <1>2, TearsTyped
<1>3. CASE \/ disk' = disk
           \/ disk' = [disk EXCEPT !.enabled = "manager"]
           \/ disk' = [disk EXCEPT !.enabled = "no"]
           \/ disk' = [disk EXCEPT !.staging = FALSE]
  BY <1>1, <1>3, DiskChanges
<1>4. CASE disk' = [disk EXCEPT !.environment = "whole"]
  BY <1>1, <1>4, ArtifactChanges, ReleasesNumbered
<1>5. CASE disk' = [disk EXCEPT !.selector = run.src]
  BY <1>1, <1>5, DiskChanges DEF Runs
<1>6. CASE /\ run.at = "publish"
           /\ disk' = [disk EXCEPT !.staging = FALSE, !.releases[run.src] = "whole"]
  <2>1. run.src \in Releases
    BY <1>1, <1>6, RunMoves DEF ServiceInv, JournalOfCommand, Changing, Forward
  <2> QED BY <1>1, <1>6, <2>1, ReleaseChanges
<1>7. LateUnits => \/ disk' = disk \/ disk' = [disk EXCEPT !.enabled = "manager"]
                   \/ disk' = [disk EXCEPT !.enabled = "no"]
  BY DEF LateUnits
<1>8. LateFiles => disk' \in Disks
  BY <1>2, <1>4, <1>5, <1>6 DEF LateFiles
<1>9. LateJournal => disk' = disk \/ disk' = [disk EXCEPT !.staging = FALSE]
  BY DEF LateJournal
<1> QED BY <1>3, <1>7, <1>8, <1>9 DEF LateEffect

\* ... and the journal where its step writes or removes it.
LEMMA LateEffectJournal ==
  ASSUME LateEffect
  PROVE  \/ journal' = journal
         \/ /\ run.at = "journal" /\ journal' \in {TornJournal, Transaction}
            /\ UNCHANGED <<disk, manager>>
         \/ run.at = "x_journal" /\ journal' = TornJournal /\ UNCHANGED <<disk, manager>>
         \/ /\ run.at = "prepared" /\ journal' = [journal EXCEPT !.phase = "prepared"]
            /\ UNCHANGED <<disk, manager>>
         \/ /\ run.at \in Closings /\ Removes /\ journal' = NoJournal
            /\ disk' = [disk EXCEPT !.staging = FALSE] /\ manager' = manager
  BY DEF LateEffect, LateJournal, At

\* The journal an install or upgrade starts with.
LEMMA TransactionIs ==
  ASSUME ServiceInv, run.at = "journal"
  PROVE  /\ Transaction \in Transactions /\ Transaction # NoJournal
         /\ Transaction.op = run.cmd /\ Transaction.phase = "preparing"
         /\ Transaction.next = run.src /\ Transaction.active = run.active
         /\ Transaction.prev = run.prev /\ run.cmd \in {"install", "upgrade"}
         /\ (run.prev = NoRelease <=> run.cmd = "install")
         /\ disk.selector = run.prev /\ journal = NoJournal
         /\ run \in Runs /\ run # NoCommand /\ run.src \in Releases
<1>1. run \in Runs /\ run # NoCommand
  BY RunMoves DEF ServiceInv
<1>2. /\ run.cmd \in {"install", "upgrade"} /\ journal = NoJournal
      /\ (run.prev = NoRelease <=> run.cmd = "install")
  BY DEF ServiceInv, JournalOfCommand, Opening
<1>3. run.src \in Releases
  BY <1>1, <1>2 DEF ServiceInv, JournalOfCommand
<1>4. disk.selector = run.prev
  BY DEF ServiceInv, FilesOfStep, AsBefore, Nothing, NoArtifacts
<1>5. Transaction \in Transactions
  BY <1>1, <1>2, <1>3 DEF Transaction, Transactions, Phases, Runs
<1>6. Transaction # NoJournal
  BY <1>2 DEF Transaction, NoJournal
<1> QED BY <1>1, <1>2, <1>3, <1>4, <1>5, <1>6 DEF Transaction

\* A call fails in a command that gives up there, with a reply.
LEMMA FailsAndEnds ==
  ASSUME ServiceInv, CallFails, run' = NoCommand
  PROVE  ServiceInv'
<1>1. /\ run.at # "idle" /\ LateEffect /\ slips' = slips \cup Slipped
      /\ budget' = [budget EXCEPT !.faults = @ - 1] /\ budget.faults > 0
  BY DEF CallFails, At
<1>2. run.at \notin Forward \ {"publish"}
  <2> SUFFICES ASSUME run.at \in Forward \ {"publish"} PROVE FALSE
    OBVIOUS
  <2>1. run' = [run EXCEPT !.at = Compensate]
    BY DEF CallFails, At, Goto, Forward, Recovering, Undoing, GoingBack
  <2>2. run \in Runs /\ Compensate # "idle"
    BY <1>1, RunMoves DEF ServiceInv, Compensate
  <2> QED BY <2>1, <2>2 DEF NoCommand, Runs
<1>3. slips' = slips
  BY <1>1, <1>2 DEF Slipped, At, Forward
<1>4. /\ budget' \in Budgets /\ slips' \subseteq {"kept", "unjournalled"}
      /\ Undisturbed' <=> Undisturbed
  BY <1>1, <1>3 DEF ServiceInv, ServiceTyped, Budgets, Undisturbed, Unrecorded
<1>5. disk' \in Disks /\ manager' \in Managers
  BY <1>1, LateEffectFiles, LateEffectUnits DEF ServiceInv
<1>6. /\ manager'.loaded # manager.loaded => run.at \in Reloads /\ manager'.loaded = OnDisk
      /\ manager'.host # manager.host =>
           \/ run.at \in Restarts /\ manager'.host = manager.loaded
           \/ run.at \in Stops /\ manager'.host = NoRelease
  BY <1>1, LateEffectUnits DEF ServiceInv
<1>7. CASE journal' = journal /\ journal # NoJournal
  <2>1. ASSUME Undisturbed, journal.op = "install"
        PROVE  /\ manager'.host = NoRelease
               /\ journal.phase = "preparing" => manager'.loaded = NoRelease
    <3>1. manager.host = NoRelease /\ (journal.phase = "preparing" => manager.loaded = NoRelease)
      BY <2>1 DEF ServiceInv, UnitsUndisturbed, UnitsOfStep, UnitsOfJournal
    <3>2. run.at \notin Restarts
      BY <1>2, <1>7, <2>1 DEF ServiceInv, JournalOfCommand, Restarts, Opening, Recovering, Forward,
                              GoingBack, Changing
    <3>3. journal.phase = "preparing" /\ run.at \in Reloads => run.at = "rec_reload"
      BY <1>2, <1>7, <2>1 DEF ServiceInv, JournalOfCommand, Reloads, Opening, Removing, Changing,
                              Forward, Undoing, GoingBack
    <3>4. run.at = "rec_reload" => OnDisk = NoRelease
      BY <2>1 DEF ServiceInv, JournalOfCommand, FilesOfStep, AsBefore, Nothing, NoArtifacts, OnDisk
    <3> QED BY <1>6, <3>1, <3>2, <3>3, <3>4
  <2>2. ASSUME Undisturbed, journal.op = "upgrade", ~ManagerMayHaveObservedNext
        PROVE  Knows(journal.prev)'
    <3>1. manager.loaded \in {NoRelease, journal.prev} /\ manager.host \in {NoRelease, journal.prev}
      BY <2>2 DEF ServiceInv, UnitsUndisturbed, UnitsOfStep, UnitsOfJournal, Knows
    <3>2. run.at \in Reloads => run.at \in {"rec_reload", "back_reload"}
      BY <1>2, <1>7, <2>2 DEF ServiceInv, JournalOfCommand, Reloads, Opening, Removing, Undoing,
                              Changing, Forward, GoingBack
    <3>3. run.at \in {"rec_reload", "back_reload"} => OnDisk \in {NoRelease, journal.prev}
      BY <1>7, <2>2 DEF ServiceInv, JournalOfCommand, FilesOfStep, AsBefore, OnDisk, Changing,
                        GoingBack
    <3> QED BY <1>6, <1>7, <3>1, <3>2, <3>3 DEF Knows
  <2>3. Undisturbed' => UnitsOfJournal'
    BY <1>4, <1>7, <2>1, <2>2 DEF UnitsOfJournal, ManagerMayHaveObservedNext
  <2> QED BY <1>4, <1>5, <1>7, <2>3, PendingJournal, Abandoned
<1>8. CASE journal' = journal /\ journal = NoJournal
  <2>1. CASE Unrecorded
    <3>1. slips' # {} /\ ~Undisturbed'
      BY <1>3, <1>4, <2>1 DEF Unrecorded, Undisturbed
    <3> QED BY <1>4, <1>5, <1>8, <3>1, LeavesNoJournal
  <2>2. CASE ~Unrecorded
    <3>1. run.at \notin (Recovering \ {"recover"}) \cup Changing \cup Removing
      BY <1>2, <1>8, <2>2 DEF ServiceInv, JournalOfCommand, NoJournal, Changing, Forward
    <3>2. \/ disk' = disk
          \/ disk' = [disk EXCEPT !.enabled = "manager"] /\ run.at = "again_enable"
      BY <1>1, <1>8, <3>1 DEF LateEffect, LateUnits, LateFiles, LateJournal, Tears, Closings, At,
           Enables, Disables, Recovering, Changing, Removing, Forward, Undoing, GoingBack, NoJournal,
           Transaction, TornJournal
    <3>3. AllArtifacts /\ disk' = [disk EXCEPT !.enabled = "manager"] => AllArtifacts'
      BY DEF ServiceInv, ServiceTyped, Disks, AllArtifacts, Whole
    <3>4. run.at = "again_enable" => AllArtifacts
      BY DEF ServiceInv, FilesOfStep
    <3>5. slips' = {} => AllArtifacts' \/ Nothing'
      <4>1. disk' = disk => (AllArtifacts' <=> AllArtifacts) /\ (Nothing' <=> Nothing)
        BY DEF AllArtifacts, Nothing, NoArtifacts, Whole
      <4>2. slips = {} => AllArtifacts \/ Nothing
        BY <1>8 DEF ServiceInv, FilesOfStep
      <4> QED BY <1>3, <3>2, <3>3, <3>4, <4>1, <4>2
    <3>6. disk'.selector = disk.selector
      BY <3>2 DEF ServiceInv, ServiceTyped, Disks
    <3>7. Undisturbed' => Knows(disk.selector)'
      <4>1. Undisturbed => /\ manager.loaded \in {NoRelease, disk.selector}
                           /\ manager.host \in {NoRelease, disk.selector}
        BY <1>8 DEF ServiceInv, UnitsUndisturbed, UnitsOfStep, Knows
      <4>2. OnDisk \in {NoRelease, disk.selector}
        BY DEF OnDisk
      <4> QED BY <1>4, <1>6, <3>6, <4>1, <4>2 DEF Knows
    <3> QED BY <1>4, <1>5, <1>8, <3>5, <3>7, LeavesNoJournal
  <2> QED BY <2>1, <2>2
<1>9. CASE journal' = TornJournal
  <2>1. journal' # NoJournal /\ journal'.op = "torn"
    BY <1>9 DEF TornJournal, NoJournal
  <2>2. UnitsOfJournal'
    BY <2>1 DEF UnitsOfJournal
  <2> QED BY <1>4, <1>5, <1>9, <2>1, <2>2, Abandoned
<1>10. CASE run.at = "journal" /\ journal' = Transaction /\ UNCHANGED <<disk, manager>>
  <2>1. /\ journal' \in Transactions /\ journal' # NoJournal /\ journal'.op = run.cmd
        /\ journal'.prev = run.prev /\ (run.prev = NoRelease <=> run.cmd = "install")
        /\ disk.selector = run.prev /\ journal = NoJournal
    BY <1>10, TransactionIs
  <2>2. Undisturbed => Knows(run.prev)
    BY <2>1 DEF ServiceInv, UnitsUndisturbed, UnitsOfStep
  <2>3. Undisturbed' => UnitsOfJournal'
    BY <1>4, <1>10, <2>1, <2>2 DEF UnitsOfJournal, Knows
  <2>4. /\ journal'.op = "install" => journal'.prev = NoRelease
        /\ journal'.op = "upgrade" => journal'.prev # NoRelease
    BY <2>1
  <2> QED BY <1>4, <1>5, <2>1, <2>3, <2>4, Abandoned
<1>11. CASE /\ run.at \in Closings /\ Removes /\ journal' = NoJournal
            /\ disk' = [disk EXCEPT !.staging = FALSE] /\ manager' = manager
  <2>1. /\ disk'.releases = disk.releases /\ disk'.selector = disk.selector
        /\ disk'.anchors = disk.anchors /\ disk'.environment = disk.environment
        /\ disk'.enabled = disk.enabled
    BY <1>11 DEF ServiceInv, ServiceTyped, Disks
  <2>2. (AllArtifacts => AllArtifacts') /\ (Nothing => Nothing')
    BY <2>1 DEF AllArtifacts, Nothing, NoArtifacts, Whole
  <2>3. Knows(disk.selector) => Knows(disk.selector)'
    BY <1>11, <2>1 DEF Knows
  <2>4. run.at \in {"rec_close", "discard", "back_close", "undo_close", "x_close"}
    BY <1>2, <1>11 DEF Closings, Forward
  <2>5. CASE run.at = "rec_close"
    <3>1. AsBefore(journal.prev) /\ (Undisturbed => Knows(journal.prev))
      BY <2>5 DEF ServiceInv, FilesOfStep, UnitsUndisturbed, UnitsOfStep
    <3>2. (AllArtifacts \/ Nothing) /\ disk.selector = journal.prev
      BY <3>1 DEF AsBefore, Nothing, NoArtifacts
    <3> QED BY <1>4, <1>5, <1>11, <2>2, <2>3, <3>1, <3>2, LeavesNoJournal
  <2>6. CASE run.at = "discard"
    <3>1. AsBefore(run.prev) /\ (Undisturbed => Knows(run.prev))
      BY <2>6 DEF ServiceInv, FilesOfStep, UnitsUndisturbed, UnitsOfStep, GoingBack
    <3>2. (AllArtifacts \/ Nothing) /\ disk.selector = run.prev
      BY <3>1 DEF AsBefore, Nothing, NoArtifacts
    <3> QED BY <1>4, <1>5, <1>11, <2>2, <2>3, <3>1, <3>2, LeavesNoJournal
  <2>7. CASE run.at = "back_close"
    <3>1. AsBefore(run.prev) /\ Knows(run.prev)
      BY <2>7 DEF ServiceInv, FilesOfStep, UnitsGoBack, Knows, GoingBack
    <3>2. (AllArtifacts \/ Nothing) /\ disk.selector = run.prev
      BY <3>1 DEF AsBefore, Nothing, NoArtifacts
    <3> QED BY <1>4, <1>5, <1>11, <2>2, <2>3, <3>1, <3>2, LeavesNoJournal
  <2>8. CASE run.at = "undo_close"
    <3>1. run.clean /\ NotFound
      BY <1>11, <2>8 DEF Removes, At
    <3>2. slips = {} => Nothing
      BY <2>8, <3>1 DEF ServiceInv, FilesOfStep, UndoneSoFar, Kept, Nothing, NoArtifacts
    <3>3. Knows(disk.selector)
      BY <3>1 DEF NotFound, Knows
    <3> QED BY <1>3, <1>4, <1>5, <1>11, <2>2, <2>3, <3>2, <3>3, LeavesNoJournal
  <2>9. CASE run.at = "x_close"
    <3>1. Nothing /\ (Undisturbed => Knows(disk.selector))
      BY <2>9 DEF ServiceInv, FilesOfStep, UnitsUndisturbed, UnitsOfStep, Knows, Nothing
    <3> QED BY <1>4, <1>5, <1>11, <2>2, <2>3, <3>1, LeavesNoJournal
  <2> QED BY <2>4, <2>5, <2>6, <2>7, <2>8, <2>9
<1>12. run.at # "prepared"
  BY <1>2 DEF Forward
<1> QED BY <1>1, <1>7, <1>8, <1>9, <1>10, <1>11, <1>12, LateEffectJournal

\* What a failed call of an install or upgrade under way leaves of what its undoing
\* or its way back starts from.
LEMMA LateForward ==
  ASSUME ServiceInv, LateEffect, run.at \in Forward, run.at = "publish" => disk' = disk
  PROVE  /\ \/ journal' = journal
            \/ run.at = "prepared" /\ journal' = [journal EXCEPT !.phase = "prepared"]
            \/ run.at = "close" /\ journal' = NoJournal
         /\ run.at \in {"stage", "publish", "prepared"} =>
              /\ disk'.selector = disk.selector /\ disk'.anchors = disk.anchors
              /\ disk'.environment = disk.environment /\ disk'.enabled = disk.enabled
         /\ disk'.environment = disk.environment \/ (run.at = "environment" /\ disk' # disk)
         /\ disk'.selector = disk.selector \/ (run.at = "select" /\ disk' # disk)
         /\ disk'.anchors = disk.anchors \/ run.at = "anchors"
         /\ \A r \in Releases : r \in Whole => r \in Whole' \/ (run.at = "prune" /\ r \notin Retained)
<1> USE DEF At
<1>1. disk \in Disks
  BY DEF ServiceInv, ServiceTyped
<1>2. /\ \/ journal' = journal
         \/ run.at = "prepared" /\ journal' = [journal EXCEPT !.phase = "prepared"]
         \/ run.at = "close" /\ journal' = NoJournal
  BY LateEffectJournal DEF Closings, Forward
<1>3. \/ disk' = disk
      \/ run.at = "enable" /\ disk' = [disk EXCEPT !.enabled = "manager"]
      \/ run.at = "environment" /\ \E e \in {"torn", "whole"} : disk' = [disk EXCEPT !.environment = e]
      \/ run.at = "anchors" /\ disk' = [disk EXCEPT !.selector = disk.selector, !.anchors = "some"]
      \/ run.at = "select" /\ disk' = [disk EXCEPT !.selector = run.src]
      \/ run.at \in {"prepared", "selected", "reloaded"} /\ disk' = [disk EXCEPT !.temp = TRUE]
      \/ run.at = "prune" /\ \E r \in Whole \ Retained : disk' = [disk EXCEPT !.releases[r] = "torn"]
      \/ run.at = "close" /\ disk' = [disk EXCEPT !.staging = FALSE]
  <2>1. LateUnits => \/ disk' = disk
                     \/ run.at = "enable" /\ disk' = [disk EXCEPT !.enabled = "manager"]
    BY DEF LateUnits, Enables, Disables, Forward
  <2>2. disk' \in Tears =>
          \/ run.at = "environment" /\ disk' = [disk EXCEPT !.environment = "torn"]
          \/ run.at = "anchors" /\ disk' = [disk EXCEPT !.selector = disk.selector, !.anchors = "some"]
          \/ run.at \in {"prepared", "selected", "reloaded"} /\ disk' = [disk EXCEPT !.temp = TRUE]
          \/ /\ run.at = "prune"
             /\ \E r \in Whole \ Retained : disk' = [disk EXCEPT !.releases[r] = "torn"]
    BY DEF Tears, Links, Forward
  <2>3. LateJournal =>
          disk' = disk \/ (run.at = "close" /\ disk' = [disk EXCEPT !.staging = FALSE])
    BY DEF LateJournal, Closings, Forward
  <2>4. LateFiles =>
          \/ disk' \in Tears \/ disk' = disk
          \/ run.at = "environment" /\ disk' = [disk EXCEPT !.environment = "whole"]
          \/ run.at = "select" /\ disk' = [disk EXCEPT !.selector = run.src]
    BY DEF LateFiles
  <2> QED BY <2>1, <2>2, <2>3, <2>4 DEF LateEffect
<1>4. CASE disk' = disk
  BY <1>2, <1>4 DEF Whole
<1>5. CASE run.at = "environment" /\ \E e \in {"torn", "whole"} : disk' = [disk EXCEPT !.environment = e]
  <2>1. /\ disk'.selector = disk.selector /\ disk'.anchors = disk.anchors
        /\ disk'.releases = disk.releases /\ disk'.enabled = disk.enabled
    BY <1>1, <1>5 DEF Disks
  <2>2. disk'.environment # disk.environment => disk' # disk
    OBVIOUS
  <2> QED BY <1>2, <1>5, <2>1, <2>2 DEF Whole
<1>6. CASE run.at = "anchors" /\ disk' = [disk EXCEPT !.selector = disk.selector, !.anchors = "some"]
  <2>1. /\ disk'.selector = disk.selector /\ disk'.environment = disk.environment
        /\ disk'.releases = disk.releases /\ disk'.enabled = disk.enabled
    BY <1>1, <1>6 DEF Disks
  <2> QED BY <1>2, <1>6, <2>1 DEF Whole
<1>7. CASE run.at = "select" /\ disk' = [disk EXCEPT !.selector = run.src]
  <2>1. /\ disk'.anchors = disk.anchors /\ disk'.environment = disk.environment
        /\ disk'.releases = disk.releases /\ disk'.enabled = disk.enabled
    BY <1>1, <1>7 DEF Disks
  <2>2. disk'.selector # disk.selector => disk' # disk
    OBVIOUS
  <2> QED BY <1>2, <1>7, <2>1, <2>2 DEF Whole
<1>8. CASE \/ run.at = "enable" /\ disk' = [disk EXCEPT !.enabled = "manager"]
           \/ run.at \in {"prepared", "selected", "reloaded"} /\ disk' = [disk EXCEPT !.temp = TRUE]
           \/ run.at = "close" /\ disk' = [disk EXCEPT !.staging = FALSE]
  <2>1. /\ disk'.anchors = disk.anchors /\ disk'.environment = disk.environment
        /\ disk'.releases = disk.releases /\ disk'.selector = disk.selector
        /\ run.at # "enable" => disk'.enabled = disk.enabled
    BY <1>1, <1>8 DEF Disks
  <2> QED BY <1>2, <2>1, <1>8 DEF Whole
<1>9. CASE /\ run.at = "prune"
           /\ \E r \in Whole \ Retained : disk' = [disk EXCEPT !.releases[r] = "torn"]
  <2>1. PICK r \in Whole \ Retained : disk' = [disk EXCEPT !.releases[r] = "torn"]
    BY <1>9
  <2>2. /\ disk'.anchors = disk.anchors /\ disk'.environment = disk.environment
        /\ disk'.selector = disk.selector /\ disk'.enabled = disk.enabled
        /\ \A s \in Releases : s # r => disk'.releases[s] = disk.releases[s]
    BY <1>1, <2>1, ReleasesNumbered DEF Disks
  <2> QED BY <1>2, <1>9, <2>2 DEF Whole
<1> QED BY <1>3, <1>4, <1>5, <1>6, <1>7, <1>8, <1>9

\* A call fails in an install or upgrade that is under way: it is undone.
LEMMA FailsAndCompensates ==
  ASSUME ServiceInv, CallFails, run.at \in Forward, run' # NoCommand
  PROVE  ServiceInv'
<1> USE DEF At, NoCommand
<1>1. /\ run.at # "idle" /\ LateEffect /\ budget.faults > 0 /\ slips' = slips \cup Slipped
      /\ budget' = [budget EXCEPT !.faults = @ - 1] /\ run' = [run EXCEPT !.at = Compensate]
      /\ run.at = "publish" => disk' = disk
  BY DEF CallFails, Goto, Reply, Forward, Recovering, Undoing, GoingBack
<1>2. /\ budget' \in Budgets /\ budget'.reboots = budget.reboots
      /\ slips' \subseteq {"kept", "unjournalled"} /\ slips \subseteq slips'
  BY <1>1 DEF ServiceInv, ServiceTyped, Budgets, Slipped
<1>3. disk' \in Disks /\ manager' \in Managers
  BY <1>1, LateEffectFiles, LateEffectUnits DEF ServiceInv
<1>4. /\ manager' # manager => run.at \in Reloads \cup Restarts \cup Stops
      /\ manager'.loaded # manager.loaded => run.at \in Reloads /\ manager'.loaded = OnDisk
      /\ manager'.host # manager.host =>
           \/ run.at \in Restarts /\ manager'.host = manager.loaded
           \/ run.at \in Stops /\ manager'.host = NoRelease
  BY <1>1, LateEffectUnits DEF ServiceInv
<1>5. /\ \/ journal' = journal
         \/ run.at = "prepared" /\ journal' = [journal EXCEPT !.phase = "prepared"]
         \/ run.at = "close" /\ journal' = NoJournal
      /\ run.at \in {"stage", "publish", "prepared"} =>
           /\ disk'.selector = disk.selector /\ disk'.anchors = disk.anchors
           /\ disk'.environment = disk.environment /\ disk'.enabled = disk.enabled
      /\ disk'.environment = disk.environment \/ (run.at = "environment" /\ disk' # disk)
      /\ disk'.selector = disk.selector \/ (run.at = "select" /\ disk' # disk)
      /\ disk'.anchors = disk.anchors \/ run.at = "anchors"
      /\ \A r \in Releases : r \in Whole => r \in Whole' \/ (run.at = "prune" /\ r \notin Retained)
  BY <1>1, LateForward
<1>6. /\ run \in Runs /\ run # NoCommand /\ run.cmd \in {"install", "upgrade"}
      /\ run.src \in Releases /\ (run.prev = NoRelease <=> run.cmd = "install")
  <2>1. run \in Runs /\ run # NoCommand
    BY <1>1, RunMoves DEF ServiceInv
  <2> QED BY <2>1 DEF ServiceInv, JournalOfCommand, Changing
<1>7. \/ run.at \in {"stage", "publish", "prepared"} /\ Compensate = "discard"
      \/ /\ run.at \notin {"stage", "publish", "prepared"}
         /\ Compensate = IF run.cmd = "install" THEN "undo_enable" ELSE "back_select"
  BY DEF Compensate
<1>8. /\ run' \in Runs /\ run'.at = Compensate /\ run'.cmd = run.cmd /\ run'.src = run.src
      /\ run'.active = run.active /\ run'.created = run.created /\ run'.prev = run.prev
      /\ run'.published = run.published
  <2>1. Compensate \in Steps
    BY <1>7 DEF Steps, Changing, Undoing, GoingBack
  <2>2. run' \in Runs
    BY <1>1, <2>1, RunMoves DEF ServiceInv
  <2> QED BY ONLY <1>1, <1>6, <2>2 DEF Runs
<1>9. journal' = NoJournal => Unrecorded'
  <2>1. journal = NoJournal => run.at = "result"
    BY DEF ServiceInv, JournalOfCommand
  <2>2. journal # NoJournal /\ journal' = NoJournal => run.at = "close"
    <3>1. run.at = "prepared" => journal \in Transactions
      BY JournalChanges DEF ServiceInv, JournalOfCommand, Changing, Forward, NoJournal
    <3>2. run.at = "prepared" => [journal EXCEPT !.phase = "prepared"] # NoJournal
      BY <3>1 DEF Transactions, NoJournal
    <3> QED BY <1>5, <3>2
  <2>3. journal' = NoJournal => Slipped = {"unjournalled"}
    BY <2>1, <2>2 DEF Slipped
  <2> QED BY <1>1, <2>3 DEF Unrecorded
<1>10. journal' # NoJournal =>
         /\ journal # NoJournal /\ journal \in Transactions /\ journal' \in Transactions
         /\ journal.op = run.cmd /\ journal.prev = run.prev
         /\ journal'.op = run.cmd /\ journal'.next = run.src /\ journal'.active = run.active
         /\ journal'.prev = run.prev
         /\ journal'.phase = IF run.at = "prepared" THEN journal'.phase ELSE journal.phase
         /\ run.at = "prepared" => journal'.phase \in {"preparing", "prepared"}
  <2> SUFFICES ASSUME journal' # NoJournal
               PROVE  /\ journal # NoJournal /\ journal \in Transactions /\ journal' \in Transactions
                      /\ journal.op = run.cmd /\ journal.prev = run.prev
                      /\ journal'.op = run.cmd /\ journal'.next = run.src
                      /\ journal'.active = run.active /\ journal'.prev = run.prev
                      /\ journal'.phase = IF run.at = "prepared" THEN journal'.phase ELSE journal.phase
                      /\ run.at = "prepared" => journal'.phase \in {"preparing", "prepared"}
    OBVIOUS
  <2>1. journal # NoJournal
    BY <1>5 DEF ServiceInv, JournalOfCommand, Forward
  <2>2. /\ journal.op = run.cmd /\ journal.next = run.src /\ journal.active = run.active
        /\ journal.prev = run.prev /\ (run.at = "prepared" => journal.phase = "preparing")
    BY <2>1 DEF ServiceInv, JournalOfCommand, Changing
  <2>3. journal \in Transactions
    BY <1>6, <2>2, JournalChanges DEF ServiceInv
  <2>4. CASE journal' = journal
    BY <2>1, <2>2, <2>3, <2>4
  <2>5. CASE run.at = "prepared" /\ journal' = [journal EXCEPT !.phase = "prepared"]
    BY <2>1, <2>2, <2>3, <2>5 DEF Transactions, Phases
  <2> QED BY <1>5, <2>4, <2>5
<1>11. ServiceTyped'
  BY <1>2, <1>3, <1>8, <1>10 DEF ServiceTyped
<1>12. JournalOfCommand'
  <2>1. run.at \in {"stage", "publish", "prepared"} =>
          journal' # NoJournal /\ journal'.phase \in {"preparing", "prepared"}
    <3>1. run.at \in {"stage", "publish", "prepared"} =>
            journal # NoJournal /\ journal.phase = "preparing"
      BY DEF ServiceInv, JournalOfCommand, Forward
    <3>2. run.at \in {"stage", "publish", "prepared"} => journal' # NoJournal
      <4>1. run.at = "prepared" => journal \in Transactions
        BY JournalChanges DEF ServiceInv, JournalOfCommand, Changing, Forward, NoJournal
      <4>2. run.at = "prepared" => [journal EXCEPT !.phase = "prepared"] # NoJournal
        BY <4>1 DEF Transactions, NoJournal
      <4> QED BY <1>5, <3>1, <4>2
    <3> QED BY <1>10, <3>1, <3>2
  <2>2. run.at \notin {"stage", "publish", "prepared"} /\ journal' # NoJournal =>
          journal'.phase # "preparing"
    BY <1>10 DEF ServiceInv, JournalOfCommand, Changing, GoingBack, Forward
  <2>3. journal'.op = "install" => journal'.prev = NoRelease
    BY <1>6, <1>10 DEF NoJournal
  <2>4. journal'.op = "upgrade" => journal'.prev # NoRelease
    BY <1>6, <1>10 DEF NoJournal
  <2> QED BY <1>6, <1>7, <1>8, <1>9, <1>10, <2>1, <2>2, <2>3, <2>4
          DEF JournalOfCommand, Opening, Recovering, Removing, Changing, Forward, Undoing, GoingBack
<1>13. FilesOfStep'
  <2>0. journal' = NoJournal => slips' # {}
    BY <1>9 DEF Unrecorded
  <2>1. CASE run.at \in {"stage", "publish", "prepared"}
    <3>1. AsBefore(run.prev)
      BY <2>1 DEF ServiceInv, FilesOfStep
    <3>2. \A r \in Releases : r \in Whole => r \in Whole'
      BY <1>5, <2>1
    <3>3. AsBefore(run.prev)'
      BY <1>5, <1>8, <2>1, <3>1, <3>2, ReleasesNumbered DEF AsBefore, Nothing, NoArtifacts, AllArtifacts
    <3> QED BY <1>7, <1>8, <2>0, <2>1, <3>3 DEF FilesOfStep, Forward, Undoing, GoingBack
  <2>2. CASE run.at \notin {"stage", "publish", "prepared"} /\ run.cmd = "install"
    <3>1. Kept \/ Undoable
      BY <2>2 DEF ServiceInv, FilesOfStep
    <3>2. CASE UNCHANGED <<disk.environment, disk.selector>>
      <4>1. (Kept \/ Undoable)'
        BY <1>2, <1>8, <3>1, <3>2 DEF Undoable, Kept
      <4> QED BY <1>7, <1>8, <2>0, <2>2, <4>1 DEF FilesOfStep, Forward, Undoing, GoingBack, UndoneSoFar
    <3>3. CASE ~UNCHANGED <<disk.environment, disk.selector>>
      <4>1. run.at \in {"environment", "select"} /\ disk' # disk
        BY <1>5, <3>3
      <4>2. Slipped = {"kept"}
        BY <2>2, <4>1 DEF Slipped
      <4>3. Kept'
        BY <1>1, <4>2 DEF Kept
      <4> QED BY <1>7, <1>8, <2>0, <2>2, <4>3 DEF FilesOfStep, Forward, Undoing, GoingBack
    <3> QED BY <3>2, <3>3
  <2>3. CASE run.at \notin {"stage", "publish", "prepared"} /\ run.cmd = "upgrade"
    <3>1. run.at \notin {"environment", "anchors"}
      BY <1>6, <2>3 DEF ServiceInv, JournalOfCommand
    <3>2. disk.anchors = "all" /\ disk.environment = "whole" /\ CanGoBack(run.prev)
      BY <2>3, <3>1 DEF ServiceInv, FilesOfStep, JournalOfCommand, AllArtifacts, Forward
    <3>3. disk'.anchors = "all" /\ disk'.environment = "whole"
      BY <1>5, <3>1, <3>2
    <3>4. CanGoBack(run.prev)'
      <4>1. run.prev \in Whole /\ run.prev \in Releases
        BY <1>6, <2>3, <3>2, ReleasesNumbered DEF CanGoBack
      <4>2. run.prev \in Retained
        BY DEF Retained
      <4> QED BY <1>5, <1>8, <4>1, <4>2 DEF CanGoBack
    <3> QED BY <1>7, <1>8, <2>0, <2>3, <3>3, <3>4 DEF FilesOfStep, Forward, Undoing, GoingBack
  <2> QED BY <1>6, <2>1, <2>2, <2>3
<1>14. UnitsGoBack'
  BY <1>7, <1>8 DEF UnitsGoBack
<1>15. UnitsUndisturbed'
  <2> SUFFICES ASSUME Undisturbed' PROVE UnitsOfStep'
    BY DEF UnitsUndisturbed
  <2>1. journal' # NoJournal /\ Undisturbed /\ UnitsOfStep
    BY <1>2, <1>9 DEF ServiceInv, UnitsUndisturbed, Undisturbed, Unrecorded
  <2>2. ASSUME run.cmd = "install"
        PROVE  /\ manager'.host = NoRelease
               /\ journal.phase = "preparing" => manager'.loaded = NoRelease
    <3>1. manager.host = NoRelease /\ (journal.phase = "preparing" => manager.loaded = NoRelease)
      BY <1>10, <2>1, <2>2 DEF UnitsOfStep, UnitsOfJournal
    <3>2. run.at \notin Restarts
      BY <1>6, <2>2 DEF ServiceInv, JournalOfCommand, Restarts, Forward
    <3>3. run.at \in Reloads => journal.phase # "preparing"
      BY DEF ServiceInv, JournalOfCommand, Reloads, Forward
    <3> QED BY <1>4, <3>1, <3>2, <3>3
  <2>3. ASSUME run.cmd = "upgrade", ~ManagerMayHaveObservedNext
        PROVE  Knows(run.prev)'
    <3>1. manager.loaded \in {NoRelease, run.prev} /\ manager.host \in {NoRelease, run.prev}
      BY <1>10, <2>1, <2>3 DEF UnitsOfStep, UnitsOfJournal, Knows
    <3>2. run.at \notin Reloads \cup Restarts
      BY <2>3 DEF ServiceInv, JournalOfCommand, Reloads, Restarts, Forward, ManagerMayHaveObservedNext
    <3> QED BY <1>4, <1>8, <3>1, <3>2, AtNoStep DEF Knows, Stops, Forward
  <2>4. run.at \in {"stage", "publish", "prepared"} =>
          /\ journal.phase = "preparing" /\ UNCHANGED manager
    BY <1>4 DEF ServiceInv, JournalOfCommand, Reloads, Restarts, Stops
  <2>5. run'.at = "discard" => Knows(run.prev)'
    <3>1. run'.at = "discard" => run.at \in {"stage", "publish", "prepared"}
      BY <1>7, <1>8
    <3>2. run'.at = "discard" /\ run.cmd = "install" => Knows(run.prev)'
      BY <1>6, <1>8, <2>2, <2>4, <3>1 DEF Knows
    <3>3. run'.at = "discard" /\ run.cmd = "upgrade" => Knows(run.prev)'
      BY <2>3, <2>4, <3>1 DEF ManagerMayHaveObservedNext
    <3> QED BY <1>6, <3>2, <3>3
  <2>6. UnitsOfJournal'
    <3>1. journal'.phase = "preparing" => journal.phase = "preparing"
      BY <1>10, <2>1, <2>4
    <3>2. ManagerMayHaveObservedNext => ManagerMayHaveObservedNext'
      BY <1>10, <2>1, <2>4 DEF ManagerMayHaveObservedNext
    <3> QED BY <1>6, <1>8, <1>10, <2>1, <2>2, <2>3, <3>1, <3>2 DEF UnitsOfJournal, Knows
  <2> QED BY <1>7, <1>8, <2>1, <2>5, <2>6 DEF UnitsOfStep
<1> QED BY <1>11, <1>12, <1>13, <1>14, <1>15 DEF ServiceInv

\* A step of the undoing of an install fails: the rest of it goes on, and what is
\* left is not taken for clean.
LEMMA FailsAndGoesOn ==
  ASSUME ServiceInv, CallFails, run.at \in Undoing
  PROVE  ServiceInv'
<1> USE DEF At, NoCommand
<1>1. /\ run.at # "idle" /\ LateEffect /\ budget.faults > 0 /\ slips' = slips \cup Slipped
      /\ budget' = [budget EXCEPT !.faults = @ - 1]
      /\ run' = [run EXCEPT !.clean = FALSE, !.at = UndoNext]
  BY DEF CallFails, Forward, Recovering, Undoing, GoingBack
<1>2. /\ budget' \in Budgets /\ budget'.reboots = budget.reboots /\ slips' = slips
  BY <1>1 DEF ServiceInv, ServiceTyped, Budgets, Slipped, Undoing
<1>3. disk' \in Disks /\ manager' \in Managers
  BY <1>1, LateEffectFiles, LateEffectUnits DEF ServiceInv
<1>4. manager'.host = manager.host
  BY <1>1, LateEffectUnits DEF ServiceInv, Restarts, Stops, Undoing
<1>5. journal' = journal
  BY <1>1, LateEffectJournal DEF Closings, Undoing
<1>6. disk'.environment = disk.environment /\ disk'.selector = disk.selector
  <2>1. disk' = disk \/ disk' = [disk EXCEPT !.selector = disk.selector, !.anchors = "some"]
    BY <1>1 DEF LateEffect, LateUnits, LateFiles, LateJournal, Tears, Links, Enables, Disables,
                Closings, Undoing
  <2> QED BY <2>1 DEF ServiceInv, ServiceTyped, Disks
<1>7. /\ run \in Runs /\ run # NoCommand /\ run.cmd = "install" /\ run.prev = NoRelease
      /\ run.src \in Releases
  <2>1. run \in Runs /\ run # NoCommand
    BY <1>1, RunMoves DEF ServiceInv
  <2>2. run.cmd = "install" /\ run.prev = NoRelease
    BY DEF ServiceInv, JournalOfCommand, Changing
  <2> QED BY <2>1, <2>2 DEF ServiceInv, JournalOfCommand
<1>8. UndoNext \in {"undo_selector", "undo_anchors", "undo_environment", "undo_reload", "undo_close"}
  BY DEF UndoNext, Undoing
<1>9. /\ run' \in Runs /\ run'.at = UndoNext /\ run'.cmd = run.cmd /\ run'.src = run.src
      /\ run'.active = run.active /\ run'.created = run.created /\ run'.prev = run.prev
      /\ run'.published = run.published /\ ~run'.clean
  <2>1. UndoNext \in Steps
    BY <1>8 DEF Steps, Changing, Undoing
  <2>2. run' \in Runs
    BY <1>1, <2>1, RunMoves DEF ServiceInv
  <2> QED BY ONLY <1>1, <1>7, <2>2 DEF Runs
<1>10. ServiceTyped'
  BY <1>2, <1>3, <1>5, <1>9 DEF ServiceInv, ServiceTyped
<1>11. JournalOfCommand'
  BY <1>2, <1>5, <1>7, <1>8, <1>9
     DEF ServiceInv, JournalOfCommand, Opening, Recovering, Removing, Changing, Forward, Undoing,
         GoingBack, Unrecorded
<1>12. FilesOfStep'
  <2>1. (Kept \/ Undoable)'
    BY <1>2, <1>6, <1>9 DEF ServiceInv, FilesOfStep, Undoable, Kept
  <2>2. journal' = NoJournal => slips' # {}
    BY <1>2, <1>5 DEF ServiceInv, JournalOfCommand, Unrecorded, Changing, Undoing
  <2> QED BY <1>8, <1>9, <2>1, <2>2 DEF FilesOfStep, Forward, Undoing, GoingBack
<1>13. UnitsGoBack'
  BY <1>8, <1>9 DEF UnitsGoBack
<1>14. UnitsUndisturbed'
  <2> SUFFICES ASSUME Undisturbed' PROVE UnitsOfStep'
    BY DEF UnitsUndisturbed
  <2>1. /\ journal # NoJournal /\ UnitsOfStep
    BY <1>2 DEF ServiceInv, UnitsUndisturbed, Undisturbed, Unrecorded, JournalOfCommand, Changing,
                Undoing
  <2>2. journal.op = "install" /\ journal.phase # "preparing"
    BY <1>7, <2>1 DEF ServiceInv, JournalOfCommand, Changing, Undoing
  <2>3. manager'.host = NoRelease
    BY <1>4, <2>1, <2>2 DEF UnitsOfStep, UnitsOfJournal
  <2> QED BY <1>5, <1>8, <1>9, <2>1, <2>2, <2>3 DEF UnitsOfStep, UnitsOfJournal
<1> QED BY <1>10, <1>11, <1>12, <1>13, <1>14 DEF ServiceInv

\* A call of a command fails.
LEMMA FailStep ==
  ASSUME ServiceInv, CallFails
  PROVE  ServiceInv'
<1>1. run' = NoCommand \/ run.at \in Forward \/ run.at \in Undoing
  BY DEF CallFails, Reply
<1> QED BY <1>1, FailsAndEnds, FailsAndCompensates, FailsAndGoesOn

\* Recovery of a pending install or upgrade, step by step (recoverPendingTransaction).
LEMMA RecoveryStep ==
  ASSUME ServiceInv,
         Recover \/ RecoverDisable \/ RecoverRemove \/ RecoverSelect \/ RecoverReload \/
         RecoverRestart \/ RecoverReady \/ RecoverInactive \/ RecoverClose
  PROVE  ServiceInv'
<1> USE DEF ServiceInv, At, Goto, Pass, Reply, Answer, Quiet, Files, Units, SetJournal, NoCommand,
         NoJournal, Steps, Opening, Recovering, Changing, Forward, Undoing, GoingBack,
         Removing, Kept, Unrecorded, Undisturbed
<1>1. CASE Recover
  <2>1. ServiceTyped'
    <3>1. RecoverNext \in {"recovery_required", "rec_close", "rec_disable", "rec_remove", "rec_select",
                          "rec_reload"}
      BY DEF RecoverNext
    <3>2. UNCHANGED <<journal, disk, manager, budget, slips>>
      BY <1>1 DEF Recover
    <3>3. run' \in {NoCommand} \cup Runs
      BY <1>1, <3>1, RunMoves DEF Recover
    <3> QED BY <3>1, <3>2, <3>3 DEF ServiceTyped
  <2>2. JournalOfCommand'
    BY <1>1 DEF ServiceTyped, Runs, Transactions, JournalOfCommand, Recover, RecoverNext,
      RecoverUpgradeAllowed, RecoverInstallAllowed, RecoverUnpublished,
      ManagerMayHaveObservedNext
  <2>3. FilesOfStep'
    BY <1>1 DEF ServiceTyped, Runs, Disks, Transactions, JournalOfCommand, FilesOfStep,
      AsBefore, Nothing, NoArtifacts, AllArtifacts, Whole, CanGoBack, Undoable, UndoneSoFar, Recover,
      RecoverNext, RecoverUpgradeAllowed, RecoverInstallAllowed, RecoverUnpublished,
      ManagerMayHaveObservedNext
  <2>4. UnitsGoBack'
    BY <1>1 DEF ServiceTyped, Runs, Managers, UnitsGoBack, JournalOfCommand, Recover,
      RecoverNext, RecoverUpgradeAllowed, RecoverInstallAllowed, RecoverUnpublished,
      ManagerMayHaveObservedNext
  <2>5. UnitsUndisturbed'
    BY <1>1 DEF ServiceTyped, Runs, Disks, Managers, Transactions, UnitsUndisturbed,
      UnitsOfStep, UnitsOfJournal, Knows, ManagerMayHaveObservedNext, JournalOfCommand, UnitsGoBack,
      FilesOfStep, AsBefore, Nothing, NoArtifacts, AllArtifacts, Recover, RecoverNext,
      RecoverUpgradeAllowed, RecoverInstallAllowed, RecoverUnpublished
  <2> QED BY <2>1, <2>2, <2>3, <2>4, <2>5
<1>2. CASE RecoverDisable
  <2>1. ServiceTyped'
    BY <1>2, DiskChanges, ManagerChanges, JournalChanges, RunMoves DEF ServiceTyped,
      RecoverDisable
  <2>2. JournalOfCommand'
    BY <1>2 DEF ServiceTyped, Runs, Transactions, JournalOfCommand, RecoverDisable
  <2>3. FilesOfStep'
    BY <1>2 DEF ServiceTyped, Runs, Disks, Transactions, JournalOfCommand, FilesOfStep,
      AsBefore, Nothing, NoArtifacts, AllArtifacts, Whole, CanGoBack, Undoable, UndoneSoFar,
      RecoverDisable
  <2>4. UnitsGoBack'
    BY <1>2 DEF ServiceTyped, Runs, Managers, UnitsGoBack, JournalOfCommand, RecoverDisable
  <2>5. UnitsUndisturbed'
    BY <1>2 DEF ServiceTyped, Runs, Disks, Managers, Transactions, UnitsUndisturbed,
      UnitsOfStep, UnitsOfJournal, Knows, ManagerMayHaveObservedNext, JournalOfCommand, UnitsGoBack,
      FilesOfStep, AsBefore, Nothing, NoArtifacts, AllArtifacts, RecoverDisable
  <2> QED BY <2>1, <2>2, <2>3, <2>4, <2>5
<1>3. CASE RecoverRemove
  <2>1. ServiceTyped'
    <3>1. UNCHANGED <<journal, manager, budget, slips>>
      BY <1>3 DEF RecoverRemove
    <3>2. disk' \in Disks
      BY <1>3, ArtifactChanges, ReleasesNumbered DEF ServiceTyped, RecoverRemove
    <3>3. run' \in {NoCommand} \cup Runs
      BY <1>3, RunMoves DEF RecoverRemove
    <3> QED BY <3>1, <3>2, <3>3 DEF ServiceTyped
  <2>2. JournalOfCommand'
    BY <1>3 DEF ServiceTyped, Runs, Transactions, JournalOfCommand, RecoverRemove
  <2>3. FilesOfStep'
    BY <1>3 DEF ServiceTyped, Runs, Disks, Transactions, JournalOfCommand, FilesOfStep,
      AsBefore, Nothing, NoArtifacts, AllArtifacts, Whole, CanGoBack, Undoable, UndoneSoFar,
      RecoverRemove
  <2>4. UnitsGoBack'
    BY <1>3 DEF ServiceTyped, Runs, Managers, UnitsGoBack, JournalOfCommand, RecoverRemove
  <2>5. UnitsUndisturbed'
    BY <1>3 DEF ServiceTyped, Runs, Disks, Managers, Transactions, UnitsUndisturbed,
      UnitsOfStep, UnitsOfJournal, Knows, ManagerMayHaveObservedNext, JournalOfCommand, UnitsGoBack,
      FilesOfStep, AsBefore, Nothing, NoArtifacts, AllArtifacts, RecoverRemove
  <2> QED BY <2>1, <2>2, <2>3, <2>4, <2>5
<1>4. CASE RecoverSelect
  <2>1. ServiceTyped'
    <3>1. journal \in Transactions
      BY <1>4, JournalChanges DEF JournalOfCommand, RecoverSelect
    <3>2. UNCHANGED <<journal, manager, budget, slips>>
      BY <1>4 DEF RecoverSelect
    <3>3. disk' \in Disks
      BY <1>4, <3>1, JournalChanges, DiskChanges DEF ServiceTyped, RecoverSelect
    <3>4. run' \in {NoCommand} \cup Runs
      BY <1>4, RunMoves DEF RecoverSelect
    <3> QED BY <3>1, <3>2, <3>3, <3>4 DEF ServiceTyped
  <2>2. JournalOfCommand'
    BY <1>4 DEF ServiceTyped, Runs, Transactions, JournalOfCommand, RecoverSelect
  <2>3. FilesOfStep'
    BY <1>4 DEF ServiceTyped, Runs, Disks, Transactions, JournalOfCommand, FilesOfStep,
      AsBefore, Nothing, NoArtifacts, AllArtifacts, Whole, CanGoBack, Undoable, UndoneSoFar,
      RecoverSelect
  <2>4. UnitsGoBack'
    BY <1>4 DEF ServiceTyped, Runs, Managers, UnitsGoBack, JournalOfCommand, RecoverSelect
  <2>5. UnitsUndisturbed'
    BY <1>4 DEF ServiceTyped, Runs, Disks, Managers, Transactions, UnitsUndisturbed,
      UnitsOfStep, UnitsOfJournal, Knows, ManagerMayHaveObservedNext, JournalOfCommand, UnitsGoBack,
      FilesOfStep, AsBefore, Nothing, NoArtifacts, AllArtifacts, RecoverSelect
  <2> QED BY <2>1, <2>2, <2>3, <2>4, <2>5
<1>5. CASE RecoverReload
  <2>1. ServiceTyped'
    BY <1>5, DiskChanges, ManagerChanges, JournalChanges, RunMoves DEF ServiceTyped,
      RecoverReload, Reload
  <2>2. JournalOfCommand'
    BY <1>5 DEF ServiceTyped, Runs, Transactions, JournalOfCommand, RecoverReload
  <2>3. FilesOfStep'
    BY <1>5 DEF ServiceTyped, Runs, Disks, Transactions, JournalOfCommand, FilesOfStep,
      AsBefore, Nothing, NoArtifacts, AllArtifacts, Whole, CanGoBack, Undoable, UndoneSoFar,
      RecoverReload
  <2>4. UnitsGoBack'
    BY <1>5 DEF ServiceTyped, Runs, Managers, UnitsGoBack, JournalOfCommand, RecoverReload,
      Reload, OnDisk
  <2>5. UnitsUndisturbed'
    BY <1>5 DEF ServiceTyped, Runs, Disks, Managers, Transactions, UnitsUndisturbed,
      UnitsOfStep, UnitsOfJournal, Knows, ManagerMayHaveObservedNext, JournalOfCommand, UnitsGoBack,
      FilesOfStep, AsBefore, Nothing, NoArtifacts, AllArtifacts, RecoverReload, Reload,
      OnDisk
  <2> QED BY <2>1, <2>2, <2>3, <2>4, <2>5
<1>6. CASE RecoverRestart
  <2>1. ServiceTyped'
    BY <1>6, DiskChanges, ManagerChanges, JournalChanges, RunMoves DEF ServiceTyped,
      RecoverRestart, RestartHost
  <2>2. JournalOfCommand'
    BY <1>6 DEF ServiceTyped, Runs, Transactions, JournalOfCommand, RecoverRestart
  <2>3. FilesOfStep'
    BY <1>6 DEF ServiceTyped, Runs, Disks, Transactions, JournalOfCommand, FilesOfStep,
      AsBefore, Nothing, NoArtifacts, AllArtifacts, Whole, CanGoBack, Undoable, UndoneSoFar,
      RecoverRestart
  <2>4. UnitsGoBack'
    BY <1>6 DEF ServiceTyped, Runs, Managers, UnitsGoBack, JournalOfCommand, RecoverRestart,
      RestartHost
  <2>5. UnitsUndisturbed'
    BY <1>6 DEF ServiceTyped, Runs, Disks, Managers, Transactions, UnitsUndisturbed,
      UnitsOfStep, UnitsOfJournal, Knows, ManagerMayHaveObservedNext, JournalOfCommand, UnitsGoBack,
      FilesOfStep, AsBefore, Nothing, NoArtifacts, AllArtifacts, RecoverRestart, RestartHost
  <2> QED BY <2>1, <2>2, <2>3, <2>4, <2>5
<1>7. CASE RecoverReady
  <2>1. ServiceTyped'
    <3>1. UNCHANGED <<journal, disk, manager, budget, slips>>
      BY <1>7 DEF RecoverReady
    <3>2. run' \in {NoCommand} \cup Runs
      BY <1>7, RunMoves DEF RecoverReady
    <3> QED BY <3>1, <3>2 DEF ServiceTyped
  <2>2. JournalOfCommand'
    BY <1>7 DEF ServiceTyped, Runs, Transactions, JournalOfCommand, RecoverReady
  <2>3. FilesOfStep'
    BY <1>7 DEF ServiceTyped, Runs, Disks, Transactions, JournalOfCommand, FilesOfStep,
      AsBefore, Nothing, NoArtifacts, AllArtifacts, Whole, CanGoBack, Undoable, UndoneSoFar, RecoverReady
  <2>4. UnitsGoBack'
    BY <1>7 DEF ServiceTyped, Runs, Managers, UnitsGoBack, JournalOfCommand, RecoverReady,
      InstalledIdentity
  <2>5. UnitsUndisturbed'
    BY <1>7 DEF ServiceTyped, Runs, Disks, Managers, Transactions, UnitsUndisturbed,
      UnitsOfStep, UnitsOfJournal, Knows, ManagerMayHaveObservedNext, JournalOfCommand, UnitsGoBack,
      FilesOfStep, AsBefore, Nothing, NoArtifacts, AllArtifacts, RecoverReady,
      InstalledIdentity
  <2> QED BY <2>1, <2>2, <2>3, <2>4, <2>5
<1>8. CASE RecoverInactive
  <2>1. ServiceTyped'
    <3>1. UNCHANGED <<journal, disk, manager, budget, slips>>
      BY <1>8 DEF RecoverInactive
    <3>2. run' \in {NoCommand} \cup Runs
      BY <1>8, RunMoves DEF RecoverInactive
    <3> QED BY <3>1, <3>2 DEF ServiceTyped
  <2>2. JournalOfCommand'
    BY <1>8 DEF ServiceTyped, Runs, Transactions, JournalOfCommand, RecoverInactive
  <2>3. FilesOfStep'
    BY <1>8 DEF ServiceTyped, Runs, Disks, Transactions, JournalOfCommand, FilesOfStep,
      AsBefore, Nothing, NoArtifacts, AllArtifacts, Whole, CanGoBack, Undoable, UndoneSoFar,
      RecoverInactive
  <2>4. UnitsGoBack'
    BY <1>8 DEF ServiceTyped, Runs, Managers, UnitsGoBack, JournalOfCommand,
      RecoverInactive, InstalledIdentity
  <2>5. UnitsUndisturbed'
    BY <1>8 DEF ServiceTyped, Runs, Disks, Managers, Transactions, UnitsUndisturbed,
      UnitsOfStep, UnitsOfJournal, Knows, ManagerMayHaveObservedNext, JournalOfCommand, UnitsGoBack,
      FilesOfStep, AsBefore, Nothing, NoArtifacts, AllArtifacts, RecoverInactive,
      InstalledIdentity
  <2> QED BY <2>1, <2>2, <2>3, <2>4, <2>5
<1>9. CASE RecoverClose
  <2>1. ServiceTyped'
    BY <1>9, DiskChanges, ManagerChanges, JournalChanges, RunMoves DEF ServiceTyped,
      RecoverClose
  <2>2. JournalOfCommand'
    BY <1>9 DEF ServiceTyped, Runs, Transactions, JournalOfCommand, RecoverClose
  <2>3. FilesOfStep'
    BY <1>9 DEF ServiceTyped, Runs, Disks, Transactions, JournalOfCommand, FilesOfStep,
      AsBefore, Nothing, NoArtifacts, AllArtifacts, Whole, CanGoBack, Undoable, UndoneSoFar, RecoverClose
  <2>4. UnitsGoBack'
    BY <1>9 DEF ServiceTyped, Runs, Managers, UnitsGoBack, JournalOfCommand, RecoverClose
  <2>5. UnitsUndisturbed'
    BY <1>9 DEF ServiceTyped, Runs, Disks, Managers, Transactions, UnitsUndisturbed,
      UnitsOfStep, UnitsOfJournal, Knows, ManagerMayHaveObservedNext, JournalOfCommand, UnitsGoBack,
      FilesOfStep, AsBefore, Nothing, NoArtifacts, AllArtifacts, RecoverClose
  <2> QED BY <2>1, <2>2, <2>3, <2>4, <2>5
<1> QED BY <1>1, <1>2, <1>3, <1>4, <1>5, <1>6, <1>7, <1>8, <1>9

\* Inspection, the unit commands, and an install that finds itself installed.
LEMMA OpeningStep ==
  ASSUME ServiceInv,
         Inspect \/ UnitRestart \/ UnitReady \/ UnitStop \/ UnitStopped \/ AgainReload \/
         AgainEnable \/ AgainCanonical \/ AgainCheck
  PROVE  ServiceInv'
<1> USE DEF ServiceInv, At, Goto, Pass, Reply, Answer, Quiet, Files, Units, SetJournal, NoCommand,
         NoJournal, Steps, Opening, Recovering, Changing, Forward, Undoing, GoingBack,
         Removing, Kept, Unrecorded, Undisturbed
<1>1. CASE Inspect
  <2>1. run.at = "inspect" /\ UNCHANGED <<journal, disk, manager, budget, slips>>
    BY <1>1 DEF Inspect
  <2>2. run \in Runs /\ run # NoCommand /\ journal = NoJournal
    BY <2>1, RunMoves DEF JournalOfCommand
  <2>3. CASE run' = NoCommand
    BY <2>1, <2>2, <2>3, EndsQuietly DEF ServiceTyped
  <2>4. CASE run' # NoCommand
    <3> DEFINE l == Inspected
               b == manager.host # NoRelease
               p == IF run.cmd = "upgrade" THEN disk.selector ELSE NoRelease
               next == {"again_reload", "journal", "x_journal", "restart", "ready", "stop"}
    <3>1. run' = [run EXCEPT !.at = l, !.active = b, !.prev = p] /\ l \notin {"ok", "refused"}
      BY <1>1, <2>4 DEF Inspect
    <3>2. /\ l \in next /\ b \in BOOLEAN /\ p \in OrNone
          /\ l = "again_reload" => AllArtifacts
      BY <1>1, <3>1, InspectedIs, ReleasesNumbered DEF ServiceTyped, Disks
    <3>c. l = "journal" =>
            /\ run.cmd \in {"install", "upgrade"} /\ (p = NoRelease <=> run.cmd = "install")
            /\ AsBefore(p)
      BY <1>1, InspectedIs, ReleasesNumbered DEF AsBefore, AllArtifacts
    <3> HIDE DEF l, b, p
    <3>a. l \in Steps /\ run.at # "idle"
      BY <2>1, <3>2
    <3>b. run' \in Runs
      BY <3>a, <3>1, <3>2, RunMoves
    <3>3. /\ run' \in Runs /\ run'.at = l /\ run'.cmd = run.cmd /\ run'.src = run.src
          /\ run'.prev = p
      BY <2>2, <3>1, <3>b DEF Runs
    <3>4. ServiceTyped'
      BY <2>1, <3>3 DEF ServiceTyped
    <3>5. JournalOfCommand'
      BY <2>1, <2>2, <3>2, <3>c, <3>3 DEF JournalOfCommand
    <3>6. FilesOfStep'
      BY <2>1, <2>2, <3>2, <3>c, <3>3 DEF FilesOfStep, AsBefore, Nothing, NoArtifacts,
         AllArtifacts, Whole
    <3>7. UnitsGoBack'
      BY <2>1, <3>2, <3>3 DEF UnitsGoBack
    <3>8. UnitsUndisturbed'
      BY <2>1, <2>2, <3>2, <3>3 DEF UnitsUndisturbed, UnitsOfStep, UnitsOfJournal, Knows,
         ManagerMayHaveObservedNext
    <3> QED BY <3>4, <3>5, <3>6, <3>7, <3>8
  <2> QED BY <2>3, <2>4
<1>2. CASE UnitRestart
  <2>1. ServiceTyped'
    BY <1>2, DiskChanges, ManagerChanges, JournalChanges, RunMoves DEF ServiceTyped,
      UnitRestart, RestartHost
  <2>2. JournalOfCommand'
    BY <1>2 DEF ServiceTyped, Runs, Transactions, JournalOfCommand, UnitRestart
  <2>3. FilesOfStep'
    BY <1>2 DEF ServiceTyped, Runs, Disks, Transactions, JournalOfCommand, FilesOfStep,
      AsBefore, Nothing, NoArtifacts, AllArtifacts, Whole, CanGoBack, Undoable, UndoneSoFar, UnitRestart
  <2>4. UnitsGoBack'
    BY <1>2 DEF ServiceTyped, Runs, Managers, UnitsGoBack, JournalOfCommand, UnitRestart,
      RestartHost
  <2>5. UnitsUndisturbed'
    BY <1>2 DEF ServiceTyped, Runs, Disks, Managers, Transactions, UnitsUndisturbed,
      UnitsOfStep, UnitsOfJournal, Knows, ManagerMayHaveObservedNext, JournalOfCommand, UnitsGoBack,
      FilesOfStep, AsBefore, Nothing, NoArtifacts, AllArtifacts, UnitRestart, RestartHost
  <2> QED BY <2>1, <2>2, <2>3, <2>4, <2>5
<1>3. CASE UnitReady
  <2>1. ServiceTyped'
    BY <1>3, DiskChanges, ManagerChanges, JournalChanges, RunMoves DEF ServiceTyped,
      UnitReady
  <2>2. JournalOfCommand'
    BY <1>3 DEF ServiceTyped, Runs, Transactions, JournalOfCommand, UnitReady
  <2>3. FilesOfStep'
    BY <1>3 DEF ServiceTyped, Runs, Disks, Transactions, JournalOfCommand, FilesOfStep,
      AsBefore, Nothing, NoArtifacts, AllArtifacts, Whole, CanGoBack, Undoable, UndoneSoFar, UnitReady
  <2>4. UnitsGoBack'
    BY <1>3 DEF ServiceTyped, Runs, Managers, UnitsGoBack, JournalOfCommand, UnitReady
  <2>5. UnitsUndisturbed'
    BY <1>3 DEF ServiceTyped, Runs, Disks, Managers, Transactions, UnitsUndisturbed,
      UnitsOfStep, UnitsOfJournal, Knows, ManagerMayHaveObservedNext, JournalOfCommand, UnitsGoBack,
      FilesOfStep, AsBefore, Nothing, NoArtifacts, AllArtifacts, UnitReady
  <2> QED BY <2>1, <2>2, <2>3, <2>4, <2>5
<1>4. CASE UnitStop
  <2>1. ServiceTyped'
    BY <1>4, DiskChanges, ManagerChanges, JournalChanges, RunMoves DEF ServiceTyped,
      UnitStop
  <2>2. JournalOfCommand'
    BY <1>4 DEF ServiceTyped, Runs, Transactions, JournalOfCommand, UnitStop
  <2>3. FilesOfStep'
    BY <1>4 DEF ServiceTyped, Runs, Disks, Transactions, JournalOfCommand, FilesOfStep,
      AsBefore, Nothing, NoArtifacts, AllArtifacts, Whole, CanGoBack, Undoable, UndoneSoFar, UnitStop
  <2>4. UnitsGoBack'
    BY <1>4 DEF ServiceTyped, Runs, Managers, UnitsGoBack, JournalOfCommand, UnitStop
  <2>5. UnitsUndisturbed'
    BY <1>4 DEF ServiceTyped, Runs, Disks, Managers, Transactions, UnitsUndisturbed,
      UnitsOfStep, UnitsOfJournal, Knows, ManagerMayHaveObservedNext, JournalOfCommand, UnitsGoBack,
      FilesOfStep, AsBefore, Nothing, NoArtifacts, AllArtifacts, UnitStop
  <2> QED BY <2>1, <2>2, <2>3, <2>4, <2>5
<1>5. CASE UnitStopped
  <2>1. ServiceTyped'
    BY <1>5, DiskChanges, ManagerChanges, JournalChanges, RunMoves DEF ServiceTyped,
      UnitStopped
  <2>2. JournalOfCommand'
    BY <1>5 DEF ServiceTyped, Runs, Transactions, JournalOfCommand, UnitStopped
  <2>3. FilesOfStep'
    BY <1>5 DEF ServiceTyped, Runs, Disks, Transactions, JournalOfCommand, FilesOfStep,
      AsBefore, Nothing, NoArtifacts, AllArtifacts, Whole, CanGoBack, Undoable, UndoneSoFar, UnitStopped
  <2>4. UnitsGoBack'
    BY <1>5 DEF ServiceTyped, Runs, Managers, UnitsGoBack, JournalOfCommand, UnitStopped
  <2>5. UnitsUndisturbed'
    BY <1>5 DEF ServiceTyped, Runs, Disks, Managers, Transactions, UnitsUndisturbed,
      UnitsOfStep, UnitsOfJournal, Knows, ManagerMayHaveObservedNext, JournalOfCommand, UnitsGoBack,
      FilesOfStep, AsBefore, Nothing, NoArtifacts, AllArtifacts, UnitStopped
  <2> QED BY <2>1, <2>2, <2>3, <2>4, <2>5
<1>6. CASE AgainReload
  <2>1. ServiceTyped'
    BY <1>6, DiskChanges, ManagerChanges, JournalChanges, RunMoves DEF ServiceTyped,
      AgainReload, Reload
  <2>2. JournalOfCommand'
    BY <1>6 DEF ServiceTyped, Runs, Transactions, JournalOfCommand, AgainReload
  <2>3. FilesOfStep'
    BY <1>6 DEF ServiceTyped, Runs, Disks, Transactions, JournalOfCommand, FilesOfStep,
      AsBefore, Nothing, NoArtifacts, AllArtifacts, Whole, CanGoBack, Undoable, UndoneSoFar, AgainReload
  <2>4. UnitsGoBack'
    BY <1>6 DEF ServiceTyped, Runs, Managers, UnitsGoBack, JournalOfCommand, AgainReload,
      Reload, OnDisk
  <2>5. UnitsUndisturbed'
    BY <1>6 DEF ServiceTyped, Runs, Disks, Managers, Transactions, UnitsUndisturbed,
      UnitsOfStep, UnitsOfJournal, Knows, ManagerMayHaveObservedNext, JournalOfCommand, UnitsGoBack,
      FilesOfStep, AsBefore, Nothing, NoArtifacts, AllArtifacts, AgainReload, Reload, OnDisk
  <2> QED BY <2>1, <2>2, <2>3, <2>4, <2>5
<1>7. CASE AgainEnable
  <2>1. ServiceTyped'
    BY <1>7, DiskChanges, ManagerChanges, JournalChanges, RunMoves DEF ServiceTyped,
      AgainEnable
  <2>2. JournalOfCommand'
    BY <1>7 DEF ServiceTyped, Runs, Transactions, JournalOfCommand, AgainEnable
  <2>3. FilesOfStep'
    BY <1>7 DEF ServiceTyped, Runs, Disks, Transactions, JournalOfCommand, FilesOfStep,
      AsBefore, Nothing, NoArtifacts, AllArtifacts, Whole, CanGoBack, Undoable, UndoneSoFar, AgainEnable
  <2>4. UnitsGoBack'
    BY <1>7 DEF ServiceTyped, Runs, Managers, UnitsGoBack, JournalOfCommand, AgainEnable
  <2>5. UnitsUndisturbed'
    BY <1>7 DEF ServiceTyped, Runs, Disks, Managers, Transactions, UnitsUndisturbed,
      UnitsOfStep, UnitsOfJournal, Knows, ManagerMayHaveObservedNext, JournalOfCommand, UnitsGoBack,
      FilesOfStep, AsBefore, Nothing, NoArtifacts, AllArtifacts, AgainEnable
  <2> QED BY <2>1, <2>2, <2>3, <2>4, <2>5
<1>8. CASE AgainCanonical
  <2>1. ServiceTyped'
    BY <1>8, DiskChanges, ManagerChanges, JournalChanges, RunMoves DEF ServiceTyped,
      AgainCanonical
  <2>2. JournalOfCommand'
    BY <1>8 DEF ServiceTyped, Runs, Transactions, JournalOfCommand, AgainCanonical
  <2>3. FilesOfStep'
    BY <1>8 DEF ServiceTyped, Runs, Disks, Transactions, JournalOfCommand, FilesOfStep,
      AsBefore, Nothing, NoArtifacts, AllArtifacts, Whole, CanGoBack, Undoable, UndoneSoFar,
      AgainCanonical
  <2>4. UnitsGoBack'
    BY <1>8 DEF ServiceTyped, Runs, Managers, UnitsGoBack, JournalOfCommand, AgainCanonical
  <2>5. UnitsUndisturbed'
    BY <1>8 DEF ServiceTyped, Runs, Disks, Managers, Transactions, UnitsUndisturbed,
      UnitsOfStep, UnitsOfJournal, Knows, ManagerMayHaveObservedNext, JournalOfCommand, UnitsGoBack,
      FilesOfStep, AsBefore, Nothing, NoArtifacts, AllArtifacts, AgainCanonical
  <2> QED BY <2>1, <2>2, <2>3, <2>4, <2>5
<1>9. CASE AgainCheck
  <2>1. ServiceTyped'
    BY <1>9, DiskChanges, ManagerChanges, JournalChanges, RunMoves DEF ServiceTyped,
      AgainCheck
  <2>2. JournalOfCommand'
    BY <1>9 DEF ServiceTyped, Runs, Transactions, JournalOfCommand, AgainCheck
  <2>3. FilesOfStep'
    BY <1>9 DEF ServiceTyped, Runs, Disks, Transactions, JournalOfCommand, FilesOfStep,
      AsBefore, Nothing, NoArtifacts, AllArtifacts, Whole, CanGoBack, Undoable, UndoneSoFar, AgainCheck
  <2>4. UnitsGoBack'
    BY <1>9 DEF ServiceTyped, Runs, Managers, UnitsGoBack, JournalOfCommand, AgainCheck
  <2>5. UnitsUndisturbed'
    BY <1>9 DEF ServiceTyped, Runs, Disks, Managers, Transactions, UnitsUndisturbed,
      UnitsOfStep, UnitsOfJournal, Knows, ManagerMayHaveObservedNext, JournalOfCommand, UnitsGoBack,
      FilesOfStep, AsBefore, Nothing, NoArtifacts, AllArtifacts, AgainCheck
  <2> QED BY <2>1, <2>2, <2>3, <2>4, <2>5
<1> QED BY <1>1, <1>2, <1>3, <1>4, <1>5, <1>6, <1>7, <1>8, <1>9

\* An install or upgrade from its journal to its close (installService, upgradeService).
LEMMA ForwardStep ==
  ASSUME ServiceInv,
         WriteJournal \/ Stage \/ Publish \/ Prepared \/ PublishEnvironment \/
         PublishAnchors \/ Select \/ Selected \/ ReloadNext \/ ManagerReloaded \/ Enable
         \/ Canonicalize \/ NextRestart \/ NextReady \/ NextInactive \/ Prune \/ Close
         \/ ReadResult
  PROVE  ServiceInv'
<1> USE DEF ServiceInv, At, Goto, Pass, Reply, Answer, Quiet, Files, Units, SetJournal, NoCommand,
         NoJournal, Steps, Opening, Recovering, Changing, Forward, Undoing, GoingBack,
         Removing, Kept, Unrecorded, Undisturbed
<1>1. CASE WriteJournal
  <2>z. run.at = "journal" /\ run # NoCommand
    BY <1>1 DEF WriteJournal
  <2>a. AsBefore(run.prev) /\ CanGoBack(run.prev)
    BY <2>z DEF FilesOfStep, AsBefore, CanGoBack, AllArtifacts
  <2>c. /\ Transaction \in Transactions /\ Transaction # NoJournal
        /\ Transaction.op = run.cmd /\ Transaction.phase = "preparing"
        /\ Transaction.next = run.src /\ Transaction.active = run.active
        /\ Transaction.prev = run.prev /\ run.cmd \in {"install", "upgrade"}
        /\ (run.prev = NoRelease <=> run.cmd = "install")
        /\ disk.selector = run.prev /\ journal = NoJournal
        /\ run \in Runs /\ run # NoCommand /\ run.src \in Releases
    BY <2>z, TransactionIs
  <2>d. /\ journal' = Transaction /\ Goto("stage") /\ UNCHANGED <<disk, manager, budget, slips>>
    BY <1>1 DEF WriteJournal
  <2>1. ServiceTyped'
    <3>1. UNCHANGED <<disk, manager, budget, slips>>
      BY <1>1 DEF WriteJournal
    <3>2. journal' \in {NoJournal, TornJournal} \cup Transactions \cup Uninstalls
      BY <2>c, <2>d
    <3>3. run' \in {NoCommand} \cup Runs
      BY <1>1, RunMoves DEF WriteJournal
    <3> QED BY <3>1, <3>2, <3>3 DEF ServiceTyped
  <2>e. /\ run'.at = "stage" /\ run'.cmd = run.cmd /\ run'.src = run.src /\ run'.prev = run.prev
        /\ run'.active = run.active /\ run' # NoCommand
    BY <2>c, <2>d DEF Runs
  <2>2. JournalOfCommand'
    BY <2>c, <2>d, <2>e DEF JournalOfCommand
  <2>3. FilesOfStep'
    BY <2>a, <2>c, <2>d, <2>e DEF FilesOfStep, AsBefore, Nothing, NoArtifacts, AllArtifacts, Whole,
      CanGoBack
  <2>4. UnitsGoBack'
    BY <2>e DEF UnitsGoBack
  <2>5. UnitsUndisturbed'
    <3>1. Undisturbed => Knows(run.prev)
      BY <2>c DEF UnitsUndisturbed, UnitsOfStep
    <3> QED BY <2>c, <2>d, <2>e, <3>1 DEF UnitsUndisturbed, UnitsOfStep, UnitsOfJournal, Knows
  <2> QED BY <2>1, <2>2, <2>3, <2>4, <2>5
<1>2. CASE Stage
  <2>1. ServiceTyped'
    <3>1. UNCHANGED <<journal, manager, budget, slips>>
      BY <1>2 DEF Stage
    <3>2. disk' \in Disks
      BY <1>2, DiskChanges DEF ServiceTyped, Stage
    <3>3. run' \in {NoCommand} \cup Runs
      BY <1>2, RunMoves DEF Stage
    <3> QED BY <3>1, <3>2, <3>3 DEF ServiceTyped
  <2>2. JournalOfCommand'
    BY <1>2 DEF ServiceTyped, Runs, Transactions, JournalOfCommand, Stage
  <2>3. FilesOfStep'
    BY <1>2 DEF ServiceTyped, Runs, Disks, Transactions, JournalOfCommand, FilesOfStep,
      AsBefore, Nothing, NoArtifacts, AllArtifacts, Whole, CanGoBack, Undoable, UndoneSoFar, Stage
  <2>4. UnitsGoBack'
    BY <1>2 DEF ServiceTyped, Runs, Managers, UnitsGoBack, JournalOfCommand, Stage
  <2>5. UnitsUndisturbed'
    BY <1>2 DEF ServiceTyped, Runs, Disks, Managers, Transactions, UnitsUndisturbed,
      UnitsOfStep, UnitsOfJournal, Knows, ManagerMayHaveObservedNext, JournalOfCommand, UnitsGoBack,
      FilesOfStep, AsBefore, Nothing, NoArtifacts, AllArtifacts, Stage
  <2> QED BY <2>1, <2>2, <2>3, <2>4, <2>5
<1>3. CASE Publish
  <2>1. ServiceTyped'
    <3>1. journal \in Transactions /\ run.src = journal.next
      BY <1>3, JournalChanges DEF JournalOfCommand, Publish
    <3>2. UNCHANGED <<journal, manager, budget, slips>>
      BY <1>3 DEF Publish
    <3>3. disk' \in Disks
      BY <1>3, <3>1, JournalChanges, ReleaseChanges DEF ServiceTyped, Publish
    <3>4. run' \in {NoCommand} \cup Runs
      BY <1>3, RunMoves DEF Publish
    <3> QED BY <3>1, <3>2, <3>3, <3>4 DEF ServiceTyped
  <2>2. JournalOfCommand'
    BY <1>3 DEF ServiceTyped, Runs, Transactions, JournalOfCommand, Publish
  <2>3. FilesOfStep'
    BY <1>3 DEF ServiceTyped, Runs, Disks, Transactions, JournalOfCommand, FilesOfStep,
      AsBefore, Nothing, NoArtifacts, AllArtifacts, Whole, CanGoBack, Undoable, UndoneSoFar, Publish
  <2>4. UnitsGoBack'
    BY <1>3 DEF ServiceTyped, Runs, Managers, UnitsGoBack, JournalOfCommand, Publish
  <2>5. UnitsUndisturbed'
    BY <1>3 DEF ServiceTyped, Runs, Disks, Managers, Transactions, UnitsUndisturbed,
      UnitsOfStep, UnitsOfJournal, Knows, ManagerMayHaveObservedNext, JournalOfCommand, UnitsGoBack,
      FilesOfStep, AsBefore, Nothing, NoArtifacts, AllArtifacts, Publish
  <2> QED BY <2>1, <2>2, <2>3, <2>4, <2>5
<1>4. CASE Prepared
  <2>a. journal.op \in {"install", "upgrade"} /\ SetPhase("prepared")
    BY <1>4 DEF ServiceTyped, JournalOfCommand, Prepared
  <2>b. /\ journal' \in Transactions /\ journal'.phase = "prepared" /\ journal'.op = journal.op
        /\ journal'.next = journal.next /\ journal'.active = journal.active
        /\ journal'.prev = journal.prev /\ journal' # NoJournal
        /\ UNCHANGED <<disk, manager, budget, slips>>
    BY <2>a, PhaseMoves DEF Phases
  <2>1. ServiceTyped'
    BY <1>4, DiskChanges, ManagerChanges, JournalChanges, RunMoves, <2>b DEF ServiceTyped,
      Prepared
  <2>2. JournalOfCommand'
    BY <1>4, <2>b DEF ServiceTyped, Runs, Transactions, JournalOfCommand, Prepared
  <2>3. FilesOfStep'
    BY <1>4, <2>b DEF ServiceTyped, Runs, Disks, Transactions, JournalOfCommand,
      FilesOfStep, AsBefore, Nothing, NoArtifacts, AllArtifacts, Whole, CanGoBack, Undoable, UndoneSoFar,
      Prepared
  <2>4. UnitsGoBack'
    BY <1>4, <2>b DEF ServiceTyped, Runs, Managers, UnitsGoBack, JournalOfCommand, Prepared
  <2>5. UnitsUndisturbed'
    BY <1>4, <2>b DEF ServiceTyped, Runs, Disks, Managers, Transactions, UnitsUndisturbed,
      UnitsOfStep, UnitsOfJournal, Knows, ManagerMayHaveObservedNext, JournalOfCommand, UnitsGoBack,
      FilesOfStep, AsBefore, Nothing, NoArtifacts, AllArtifacts, Prepared
  <2> QED BY <2>1, <2>2, <2>3, <2>4, <2>5
<1>5. CASE PublishEnvironment
  <2>a. run.prev = NoRelease /\ disk.environment = "absent" /\ journal # NoJournal
    BY <1>5 DEF JournalOfCommand, FilesOfStep, AsBefore, Nothing, NoArtifacts,
      PublishEnvironment
  <2>d. run' = [run EXCEPT !.at = "anchors", !.created = (disk.environment = "absent")]
    BY <1>5 DEF PublishEnvironment
  <2>e. run.at = "environment"
    BY <1>5 DEF PublishEnvironment
  <2>f. run \in Runs
    BY <2>e, RunMoves
  <2>b. /\ run'.created /\ run'.at = "anchors" /\ run'.src = run.src /\ run'.cmd = run.cmd
        /\ run'.prev = run.prev /\ run'.published = run.published
    BY <2>a, <2>d, <2>f DEF Runs
  <2>c. UNCHANGED <<journal, manager, budget, slips>>
    BY <1>5 DEF PublishEnvironment
  <2>1. ServiceTyped'
    <3>1. disk' = [disk EXCEPT !.environment = "whole"]
      BY <1>5 DEF PublishEnvironment
    <3>2. UNCHANGED <<journal, manager, budget, slips>>
      BY <1>5 DEF PublishEnvironment
    <3>3. disk' \in Disks
      BY <3>1, ArtifactChanges, DiskChanges, ReleasesNumbered DEF ServiceTyped
    <3>4. run' \in {NoCommand} \cup Runs
      BY <1>5, RunMoves DEF PublishEnvironment
    <3> QED BY <3>1, <3>2, <3>3, <3>4 DEF ServiceTyped
  <2>2. JournalOfCommand'
    BY <1>5 DEF ServiceTyped, Runs, Transactions, JournalOfCommand, PublishEnvironment
  <2>3. FilesOfStep'
    BY <1>5, <2>a, <2>d, <2>e, <2>f, <2>b, <2>c DEF ServiceTyped, Runs, Disks, Transactions,
      JournalOfCommand, FilesOfStep, AsBefore, Nothing, NoArtifacts, AllArtifacts, Whole,
      CanGoBack, Undoable, UndoneSoFar, PublishEnvironment
  <2>4. UnitsGoBack'
    BY <1>5 DEF ServiceTyped, Runs, Managers, UnitsGoBack, JournalOfCommand,
      PublishEnvironment
  <2>5. UnitsUndisturbed'
    BY <2>a, <2>b, <2>c DEF UnitsUndisturbed, UnitsOfStep, UnitsOfJournal, Knows, ManagerMayHaveObservedNext
  <2> QED BY <2>1, <2>2, <2>3, <2>4, <2>5
<1>6. CASE PublishAnchors
  <2>1. ServiceTyped'
    <3>1. UNCHANGED <<journal, manager, budget, slips>>
      BY <1>6 DEF PublishAnchors
    <3>2. disk' \in Disks
      BY <1>6, ArtifactChanges, ReleasesNumbered DEF ServiceTyped, PublishAnchors
    <3>3. run' \in {NoCommand} \cup Runs
      BY <1>6, RunMoves DEF PublishAnchors
    <3> QED BY <3>1, <3>2, <3>3 DEF ServiceTyped
  <2>2. JournalOfCommand'
    BY <1>6 DEF ServiceTyped, Runs, Transactions, JournalOfCommand, PublishAnchors
  <2>3. FilesOfStep'
    BY <1>6 DEF ServiceTyped, Runs, Disks, Transactions, JournalOfCommand, FilesOfStep,
      AsBefore, Nothing, NoArtifacts, AllArtifacts, Whole, CanGoBack, Undoable, UndoneSoFar,
      PublishAnchors
  <2>4. UnitsGoBack'
    BY <1>6 DEF ServiceTyped, Runs, Managers, UnitsGoBack, JournalOfCommand, PublishAnchors
  <2>5. UnitsUndisturbed'
    BY <1>6 DEF ServiceTyped, Runs, Disks, Managers, Transactions, UnitsUndisturbed,
      UnitsOfStep, UnitsOfJournal, Knows, ManagerMayHaveObservedNext, JournalOfCommand, UnitsGoBack,
      FilesOfStep, AsBefore, Nothing, NoArtifacts, AllArtifacts, PublishAnchors
  <2> QED BY <2>1, <2>2, <2>3, <2>4, <2>5
<1>7. CASE Select
  <2>1. ServiceTyped'
    <3>1. journal \in Transactions /\ run.src = journal.next
      BY <1>7, JournalChanges DEF JournalOfCommand, Select
    <3>2. UNCHANGED <<journal, manager, budget, slips>>
      BY <1>7 DEF Select
    <3>3. disk' \in Disks
      BY <1>7, <3>1, JournalChanges, ReleasesNumbered, DiskChanges DEF ServiceTyped, Select
    <3>4. run' \in {NoCommand} \cup Runs
      BY <1>7, RunMoves DEF Select
    <3> QED BY <3>1, <3>2, <3>3, <3>4 DEF ServiceTyped
  <2>2. JournalOfCommand'
    BY <1>7 DEF ServiceTyped, Runs, Transactions, JournalOfCommand, Select
  <2>3. FilesOfStep'
    BY <1>7 DEF ServiceTyped, Runs, Disks, Transactions, JournalOfCommand, FilesOfStep,
      AsBefore, Nothing, NoArtifacts, AllArtifacts, Whole, CanGoBack, Undoable, UndoneSoFar, Select
  <2>4. UnitsGoBack'
    BY <1>7 DEF ServiceTyped, Runs, Managers, UnitsGoBack, JournalOfCommand, Select
  <2>5. UnitsUndisturbed'
    BY <1>7 DEF ServiceTyped, Runs, Disks, Managers, Transactions, UnitsUndisturbed,
      UnitsOfStep, UnitsOfJournal, Knows, ManagerMayHaveObservedNext, JournalOfCommand, UnitsGoBack,
      FilesOfStep, AsBefore, Nothing, NoArtifacts, AllArtifacts, Select
  <2> QED BY <2>1, <2>2, <2>3, <2>4, <2>5
<1>8. CASE Selected
  <2>a. journal.op \in {"install", "upgrade"} /\ SetPhase("selected")
    BY <1>8 DEF ServiceTyped, JournalOfCommand, Selected
  <2>b. /\ journal' \in Transactions /\ journal'.phase = "selected" /\ journal'.op = journal.op
        /\ journal'.next = journal.next /\ journal'.active = journal.active
        /\ journal'.prev = journal.prev /\ journal' # NoJournal
        /\ UNCHANGED <<disk, manager, budget, slips>>
    BY <2>a, PhaseMoves DEF Phases
  <2>1. ServiceTyped'
    BY <1>8, DiskChanges, ManagerChanges, JournalChanges, RunMoves, <2>b DEF ServiceTyped,
      Selected
  <2>2. JournalOfCommand'
    BY <1>8, <2>b DEF ServiceTyped, Runs, Transactions, JournalOfCommand, Selected
  <2>3. FilesOfStep'
    BY <1>8, <2>b DEF ServiceTyped, Runs, Disks, Transactions, JournalOfCommand,
      FilesOfStep, AsBefore, Nothing, NoArtifacts, AllArtifacts, Whole, CanGoBack, Undoable, UndoneSoFar,
      Selected
  <2>4. UnitsGoBack'
    BY <1>8, <2>b DEF ServiceTyped, Runs, Managers, UnitsGoBack, JournalOfCommand, Selected
  <2>5. UnitsUndisturbed'
    BY <1>8, <2>b DEF ServiceTyped, Runs, Disks, Managers, Transactions, UnitsUndisturbed,
      UnitsOfStep, UnitsOfJournal, Knows, ManagerMayHaveObservedNext, JournalOfCommand, UnitsGoBack,
      FilesOfStep, AsBefore, Nothing, NoArtifacts, AllArtifacts, Selected
  <2> QED BY <2>1, <2>2, <2>3, <2>4, <2>5
<1>9. CASE ReloadNext
  <2>1. ServiceTyped'
    BY <1>9, DiskChanges, ManagerChanges, JournalChanges, RunMoves DEF ServiceTyped,
      ReloadNext, Reload
  <2>2. JournalOfCommand'
    BY <1>9 DEF ServiceTyped, Runs, Transactions, JournalOfCommand, ReloadNext
  <2>3. FilesOfStep'
    BY <1>9 DEF ServiceTyped, Runs, Disks, Transactions, JournalOfCommand, FilesOfStep,
      AsBefore, Nothing, NoArtifacts, AllArtifacts, Whole, CanGoBack, Undoable, UndoneSoFar, ReloadNext
  <2>4. UnitsGoBack'
    BY <1>9 DEF ServiceTyped, Runs, Managers, UnitsGoBack, JournalOfCommand, ReloadNext,
      Reload, OnDisk
  <2>5. UnitsUndisturbed'
    BY <1>9 DEF ServiceTyped, Runs, Disks, Managers, Transactions, UnitsUndisturbed,
      UnitsOfStep, UnitsOfJournal, Knows, ManagerMayHaveObservedNext, JournalOfCommand, UnitsGoBack,
      FilesOfStep, AsBefore, Nothing, NoArtifacts, AllArtifacts, ReloadNext, Reload, OnDisk
  <2> QED BY <2>1, <2>2, <2>3, <2>4, <2>5
<1>10. CASE ManagerReloaded
  <2>a. journal.op \in {"install", "upgrade"} /\ SetPhase("manager_reloaded")
    BY <1>10 DEF ServiceTyped, JournalOfCommand, ManagerReloaded
  <2>b. /\ journal' \in Transactions /\ journal'.phase = "manager_reloaded"
        /\ journal'.op = journal.op
        /\ journal'.next = journal.next /\ journal'.active = journal.active
        /\ journal'.prev = journal.prev /\ journal' # NoJournal
        /\ UNCHANGED <<disk, manager, budget, slips>>
    BY <2>a, PhaseMoves DEF Phases
  <2>1. ServiceTyped'
    BY <1>10, DiskChanges, ManagerChanges, JournalChanges, RunMoves, <2>b DEF ServiceTyped,
      ManagerReloaded
  <2>2. JournalOfCommand'
    BY <1>10, <2>b DEF ServiceTyped, Runs, Transactions, JournalOfCommand, ManagerReloaded
  <2>3. FilesOfStep'
    BY <1>10, <2>b DEF ServiceTyped, Runs, Disks, Transactions, JournalOfCommand,
      FilesOfStep, AsBefore, Nothing, NoArtifacts, AllArtifacts, Whole, CanGoBack, Undoable, UndoneSoFar,
      ManagerReloaded
  <2>4. UnitsGoBack'
    BY <1>10, <2>b DEF ServiceTyped, Runs, Managers, UnitsGoBack, JournalOfCommand,
      ManagerReloaded
  <2>5. UnitsUndisturbed'
    BY <1>10, <2>b DEF ServiceTyped, Runs, Disks, Managers, Transactions, UnitsUndisturbed,
      UnitsOfStep, UnitsOfJournal, Knows, ManagerMayHaveObservedNext, JournalOfCommand, UnitsGoBack,
      FilesOfStep, AsBefore, Nothing, NoArtifacts, AllArtifacts, ManagerReloaded
  <2> QED BY <2>1, <2>2, <2>3, <2>4, <2>5
<1>11. CASE Enable
  <2>1. ServiceTyped'
    BY <1>11, DiskChanges, ManagerChanges, JournalChanges, RunMoves DEF ServiceTyped, Enable
  <2>2. JournalOfCommand'
    BY <1>11 DEF ServiceTyped, Runs, Transactions, JournalOfCommand, Enable
  <2>3. FilesOfStep'
    BY <1>11 DEF ServiceTyped, Runs, Disks, Transactions, JournalOfCommand, FilesOfStep,
      AsBefore, Nothing, NoArtifacts, AllArtifacts, Whole, CanGoBack, Undoable, UndoneSoFar, Enable
  <2>4. UnitsGoBack'
    BY <1>11 DEF ServiceTyped, Runs, Managers, UnitsGoBack, JournalOfCommand, Enable
  <2>5. UnitsUndisturbed'
    BY <1>11 DEF ServiceTyped, Runs, Disks, Managers, Transactions, UnitsUndisturbed,
      UnitsOfStep, UnitsOfJournal, Knows, ManagerMayHaveObservedNext, JournalOfCommand, UnitsGoBack,
      FilesOfStep, AsBefore, Nothing, NoArtifacts, AllArtifacts, Enable
  <2> QED BY <2>1, <2>2, <2>3, <2>4, <2>5
<1>12. CASE Canonicalize
  <2>1. ServiceTyped'
    BY <1>12, DiskChanges, ManagerChanges, JournalChanges, RunMoves DEF ServiceTyped,
      Canonicalize
  <2>2. JournalOfCommand'
    BY <1>12 DEF ServiceTyped, Runs, Transactions, JournalOfCommand, Canonicalize
  <2>3. FilesOfStep'
    BY <1>12 DEF ServiceTyped, Runs, Disks, Transactions, JournalOfCommand, FilesOfStep,
      AsBefore, Nothing, NoArtifacts, AllArtifacts, Whole, CanGoBack, Undoable, UndoneSoFar, Canonicalize
  <2>4. UnitsGoBack'
    BY <1>12 DEF ServiceTyped, Runs, Managers, UnitsGoBack, JournalOfCommand, Canonicalize
  <2>5. UnitsUndisturbed'
    BY <1>12 DEF ServiceTyped, Runs, Disks, Managers, Transactions, UnitsUndisturbed,
      UnitsOfStep, UnitsOfJournal, Knows, ManagerMayHaveObservedNext, JournalOfCommand, UnitsGoBack,
      FilesOfStep, AsBefore, Nothing, NoArtifacts, AllArtifacts, Canonicalize
  <2> QED BY <2>1, <2>2, <2>3, <2>4, <2>5
<1>13. CASE NextRestart
  <2>1. ServiceTyped'
    BY <1>13, DiskChanges, ManagerChanges, JournalChanges, RunMoves DEF ServiceTyped,
      NextRestart, RestartHost
  <2>2. JournalOfCommand'
    BY <1>13 DEF ServiceTyped, Runs, Transactions, JournalOfCommand, NextRestart
  <2>3. FilesOfStep'
    BY <1>13 DEF ServiceTyped, Runs, Disks, Transactions, JournalOfCommand, FilesOfStep,
      AsBefore, Nothing, NoArtifacts, AllArtifacts, Whole, CanGoBack, Undoable, UndoneSoFar, NextRestart
  <2>4. UnitsGoBack'
    BY <1>13 DEF ServiceTyped, Runs, Managers, UnitsGoBack, JournalOfCommand, NextRestart,
      RestartHost
  <2>5. UnitsUndisturbed'
    BY <1>13 DEF ServiceTyped, Runs, Disks, Managers, Transactions, UnitsUndisturbed,
      UnitsOfStep, UnitsOfJournal, Knows, ManagerMayHaveObservedNext, JournalOfCommand, UnitsGoBack,
      FilesOfStep, AsBefore, Nothing, NoArtifacts, AllArtifacts, NextRestart, RestartHost
  <2> QED BY <2>1, <2>2, <2>3, <2>4, <2>5
<1>14. CASE NextReady
  <2>1. ServiceTyped'
    <3>1. UNCHANGED <<journal, disk, manager, budget, slips>>
      BY <1>14 DEF NextReady, CheckNext
    <3>2. run' \in {NoCommand} \cup Runs
      BY <1>14, RunMoves DEF NextReady, CheckNext, Compensate
    <3> QED BY <3>1, <3>2 DEF ServiceTyped
  <2>2. JournalOfCommand'
    BY <1>14 DEF ServiceTyped, Runs, Transactions, JournalOfCommand, NextReady, CheckNext,
      Compensate
  <2>3. FilesOfStep'
    BY <1>14 DEF ServiceTyped, Runs, Disks, Transactions, JournalOfCommand, FilesOfStep,
      AsBefore, Nothing, NoArtifacts, AllArtifacts, Whole, CanGoBack, Undoable, UndoneSoFar, NextReady,
      CheckNext, Compensate
  <2>4. UnitsGoBack'
    BY <1>14 DEF ServiceTyped, Runs, Managers, UnitsGoBack, JournalOfCommand, NextReady,
      CheckNext, Compensate, InstalledIdentity
  <2>5. UnitsUndisturbed'
    BY <1>14 DEF ServiceTyped, Runs, Disks, Managers, Transactions, UnitsUndisturbed,
      UnitsOfStep, UnitsOfJournal, Knows, ManagerMayHaveObservedNext, JournalOfCommand, UnitsGoBack,
      FilesOfStep, AsBefore, Nothing, NoArtifacts, AllArtifacts, NextReady, CheckNext,
      Compensate, InstalledIdentity
  <2> QED BY <2>1, <2>2, <2>3, <2>4, <2>5
<1>15. CASE NextInactive
  <2>1. ServiceTyped'
    <3>1. UNCHANGED <<journal, disk, manager, budget, slips>>
      BY <1>15 DEF NextInactive, CheckNext
    <3>2. run' \in {NoCommand} \cup Runs
      BY <1>15, RunMoves DEF NextInactive, CheckNext, Compensate
    <3> QED BY <3>1, <3>2 DEF ServiceTyped
  <2>2. JournalOfCommand'
    BY <1>15 DEF ServiceTyped, Runs, Transactions, JournalOfCommand, NextInactive,
      CheckNext, Compensate
  <2>3. FilesOfStep'
    BY <1>15 DEF ServiceTyped, Runs, Disks, Transactions, JournalOfCommand, FilesOfStep,
      AsBefore, Nothing, NoArtifacts, AllArtifacts, Whole, CanGoBack, Undoable, UndoneSoFar,
      NextInactive, CheckNext, Compensate
  <2>4. UnitsGoBack'
    BY <1>15 DEF ServiceTyped, Runs, Managers, UnitsGoBack, JournalOfCommand, NextInactive,
      CheckNext, Compensate, InstalledIdentity
  <2>5. UnitsUndisturbed'
    BY <1>15 DEF ServiceTyped, Runs, Disks, Managers, Transactions, UnitsUndisturbed,
      UnitsOfStep, UnitsOfJournal, Knows, ManagerMayHaveObservedNext, JournalOfCommand, UnitsGoBack,
      FilesOfStep, AsBefore, Nothing, NoArtifacts, AllArtifacts, NextInactive, CheckNext,
      Compensate, InstalledIdentity
  <2> QED BY <2>1, <2>2, <2>3, <2>4, <2>5
<1>16. CASE Prune
  <2>1. ServiceTyped'
    <3>1. disk' = disk \/ \E r \in Releases : disk' = [disk EXCEPT !.releases[r] = "absent"]
      BY <1>16, ReleasesNumbered DEF Prune
    <3>2. UNCHANGED <<journal, manager, budget, slips>>
      BY <1>16 DEF Prune
    <3>3. disk' \in Disks
      BY <3>1, ReleaseChanges DEF ServiceTyped
    <3>4. run' \in {NoCommand} \cup Runs
      BY <1>16, RunMoves DEF Prune
    <3> QED BY <3>1, <3>2, <3>3, <3>4 DEF ServiceTyped
  <2>2. JournalOfCommand'
    BY <1>16 DEF ServiceTyped, Runs, Transactions, JournalOfCommand, Prune, Retained
  <2>3. FilesOfStep'
    BY <1>16 DEF ServiceTyped, Runs, Disks, Transactions, JournalOfCommand, FilesOfStep,
      AsBefore, Nothing, NoArtifacts, AllArtifacts, Whole, CanGoBack, Undoable, UndoneSoFar, Prune,
      Retained
  <2>4. UnitsGoBack'
    BY <1>16 DEF ServiceTyped, Runs, Managers, UnitsGoBack, JournalOfCommand, Prune,
      Retained
  <2>5. UnitsUndisturbed'
    BY <1>16 DEF ServiceTyped, Runs, Disks, Managers, Transactions, UnitsUndisturbed,
      UnitsOfStep, UnitsOfJournal, Knows, ManagerMayHaveObservedNext, JournalOfCommand, UnitsGoBack,
      FilesOfStep, AsBefore, Nothing, NoArtifacts, AllArtifacts, Prune, Retained
  <2> QED BY <2>1, <2>2, <2>3, <2>4, <2>5
<1>17. CASE Close
  <2>1. ServiceTyped'
    BY <1>17, DiskChanges, ManagerChanges, JournalChanges, RunMoves DEF ServiceTyped, Close
  <2>2. JournalOfCommand'
    BY <1>17 DEF ServiceTyped, Runs, Transactions, JournalOfCommand, Close
  <2>3. FilesOfStep'
    BY <1>17 DEF ServiceTyped, Runs, Disks, Transactions, JournalOfCommand, FilesOfStep,
      AsBefore, Nothing, NoArtifacts, AllArtifacts, Whole, CanGoBack, Undoable, UndoneSoFar, Close
  <2>4. UnitsGoBack'
    BY <1>17 DEF ServiceTyped, Runs, Managers, UnitsGoBack, JournalOfCommand, Close
  <2>5. UnitsUndisturbed'
    BY <1>17 DEF ServiceTyped, Runs, Disks, Managers, Transactions, UnitsUndisturbed,
      UnitsOfStep, UnitsOfJournal, Knows, ManagerMayHaveObservedNext, JournalOfCommand, UnitsGoBack,
      FilesOfStep, AsBefore, Nothing, NoArtifacts, AllArtifacts, Close
  <2> QED BY <2>1, <2>2, <2>3, <2>4, <2>5
<1>18. CASE ReadResult
  <2>1. run.at = "result" /\ run' = NoCommand /\ UNCHANGED <<journal, disk, manager, budget, slips>>
    BY <1>18 DEF ReadResult
  <2> QED BY <2>1, EndsQuietly DEF ServiceTyped
<1> QED BY <1>1, <1>2, <1>3, <1>4, <1>5, <1>6, <1>7, <1>8, <1>9, <1>10, <1>11,
          <1>12, <1>13, <1>14, <1>15, <1>16, <1>17, <1>18

\* The undoing of an install and the way back of an upgrade.
LEMMA UndoStep ==
  ASSUME ServiceInv,
         Discard \/ UndoEnable \/ UndoSelector \/ UndoAnchors \/ UndoEnvironment \/
         UndoReload \/ UndoClose \/ BackSelect \/ BackReload \/ BackRestart \/
         BackCheck \/ BackClose
  PROVE  ServiceInv'
<1> USE DEF ServiceInv, At, Goto, Pass, Reply, Answer, Quiet, Files, Units, SetJournal, NoCommand,
         NoJournal, Steps, Opening, Recovering, Changing, Forward, Undoing, GoingBack,
         Removing, Kept, Unrecorded, Undisturbed
<1>1. CASE Discard
  <2>1. ServiceTyped'
    BY <1>1, DiskChanges, ManagerChanges, JournalChanges, RunMoves DEF ServiceTyped, Discard
  <2>2. JournalOfCommand'
    BY <1>1 DEF ServiceTyped, Runs, Transactions, JournalOfCommand, Discard
  <2>3. FilesOfStep'
    BY <1>1 DEF ServiceTyped, Runs, Disks, Transactions, JournalOfCommand, FilesOfStep,
      AsBefore, Nothing, NoArtifacts, AllArtifacts, Whole, CanGoBack, Undoable, UndoneSoFar, Discard
  <2>4. UnitsGoBack'
    BY <1>1 DEF ServiceTyped, Runs, Managers, UnitsGoBack, JournalOfCommand, Discard
  <2>5. UnitsUndisturbed'
    BY <1>1 DEF ServiceTyped, Runs, Disks, Managers, Transactions, UnitsUndisturbed,
      UnitsOfStep, UnitsOfJournal, Knows, ManagerMayHaveObservedNext, JournalOfCommand, UnitsGoBack,
      FilesOfStep, AsBefore, Nothing, NoArtifacts, AllArtifacts, Discard
  <2> QED BY <2>1, <2>2, <2>3, <2>4, <2>5
<1>2. CASE UndoEnable
  <2>1. ServiceTyped'
    BY <1>2, DiskChanges, ManagerChanges, JournalChanges, RunMoves DEF ServiceTyped,
      UndoEnable
  <2>2. JournalOfCommand'
    BY <1>2 DEF ServiceTyped, Runs, Transactions, JournalOfCommand, UndoEnable
  <2>3. FilesOfStep'
    BY <1>2 DEF ServiceTyped, Runs, Disks, Transactions, JournalOfCommand, FilesOfStep,
      AsBefore, Nothing, NoArtifacts, AllArtifacts, Whole, CanGoBack, Undoable, UndoneSoFar, UndoEnable
  <2>4. UnitsGoBack'
    BY <1>2 DEF ServiceTyped, Runs, Managers, UnitsGoBack, JournalOfCommand, UndoEnable
  <2>5. UnitsUndisturbed'
    BY <1>2 DEF ServiceTyped, Runs, Disks, Managers, Transactions, UnitsUndisturbed,
      UnitsOfStep, UnitsOfJournal, Knows, ManagerMayHaveObservedNext, JournalOfCommand, UnitsGoBack,
      FilesOfStep, AsBefore, Nothing, NoArtifacts, AllArtifacts, UndoEnable
  <2> QED BY <2>1, <2>2, <2>3, <2>4, <2>5
<1>3. CASE UndoSelector
  <2>1. ServiceTyped'
    <3>1. UNCHANGED <<journal, manager, budget, slips>>
      BY <1>3 DEF UndoSelector
    <3>2. disk' \in Disks
      BY <1>3, ArtifactChanges, DiskChanges, ReleasesNumbered DEF ServiceTyped, UndoSelector
    <3>3. run' \in {NoCommand} \cup Runs
      BY <1>3, RunMoves DEF UndoSelector
    <3> QED BY <3>1, <3>2, <3>3 DEF ServiceTyped
  <2>2. JournalOfCommand'
    BY <1>3 DEF ServiceTyped, Runs, Transactions, JournalOfCommand, UndoSelector
  <2>3. FilesOfStep'
    BY <1>3 DEF ServiceTyped, Runs, Disks, Transactions, JournalOfCommand, FilesOfStep,
      AsBefore, Nothing, NoArtifacts, AllArtifacts, Whole, CanGoBack, Undoable, UndoneSoFar, UndoSelector
  <2>4. UnitsGoBack'
    BY <1>3 DEF ServiceTyped, Runs, Managers, UnitsGoBack, JournalOfCommand, UndoSelector
  <2>5. UnitsUndisturbed'
    BY <1>3 DEF ServiceTyped, Runs, Disks, Managers, Transactions, UnitsUndisturbed,
      UnitsOfStep, UnitsOfJournal, Knows, ManagerMayHaveObservedNext, JournalOfCommand, UnitsGoBack,
      FilesOfStep, AsBefore, Nothing, NoArtifacts, AllArtifacts, UndoSelector
  <2> QED BY <2>1, <2>2, <2>3, <2>4, <2>5
<1>4. CASE UndoAnchors
  <2>1. ServiceTyped'
    <3>1. UNCHANGED <<journal, manager, budget, slips>>
      BY <1>4 DEF UndoAnchors
    <3>2. disk' \in Disks
      BY <1>4, ArtifactChanges, DiskChanges, ReleasesNumbered DEF ServiceTyped, UndoAnchors
    <3>3. run' \in {NoCommand} \cup Runs
      BY <1>4, RunMoves DEF UndoAnchors
    <3> QED BY <3>1, <3>2, <3>3 DEF ServiceTyped
  <2>2. JournalOfCommand'
    BY <1>4 DEF ServiceTyped, Runs, Transactions, JournalOfCommand, UndoAnchors
  <2>3. FilesOfStep'
    BY <1>4 DEF ServiceTyped, Runs, Disks, Transactions, JournalOfCommand, FilesOfStep,
      AsBefore, Nothing, NoArtifacts, AllArtifacts, Whole, CanGoBack, Undoable, UndoneSoFar, UndoAnchors
  <2>4. UnitsGoBack'
    BY <1>4 DEF ServiceTyped, Runs, Managers, UnitsGoBack, JournalOfCommand, UndoAnchors
  <2>5. UnitsUndisturbed'
    BY <1>4 DEF ServiceTyped, Runs, Disks, Managers, Transactions, UnitsUndisturbed,
      UnitsOfStep, UnitsOfJournal, Knows, ManagerMayHaveObservedNext, JournalOfCommand, UnitsGoBack,
      FilesOfStep, AsBefore, Nothing, NoArtifacts, AllArtifacts, UndoAnchors
  <2> QED BY <2>1, <2>2, <2>3, <2>4, <2>5
<1>5. CASE UndoEnvironment
  <2>1. ServiceTyped'
    <3>1. UNCHANGED <<journal, manager, budget, slips>>
      BY <1>5 DEF UndoEnvironment
    <3>2. disk' \in Disks
      BY <1>5, ArtifactChanges, DiskChanges, ReleasesNumbered DEF ServiceTyped, UndoEnvironment
    <3>3. run' \in {NoCommand} \cup Runs
      BY <1>5, RunMoves DEF UndoEnvironment
    <3> QED BY <3>1, <3>2, <3>3 DEF ServiceTyped
  <2>2. JournalOfCommand'
    BY <1>5 DEF ServiceTyped, Runs, Transactions, JournalOfCommand, UndoEnvironment
  <2>3. FilesOfStep'
    BY <1>5 DEF ServiceTyped, Runs, Disks, Transactions, JournalOfCommand, FilesOfStep,
      AsBefore, Nothing, NoArtifacts, AllArtifacts, Whole, CanGoBack, Undoable, UndoneSoFar, UndoEnvironment
  <2>4. UnitsGoBack'
    BY <1>5 DEF ServiceTyped, Runs, Managers, UnitsGoBack, JournalOfCommand, UndoEnvironment
  <2>5. UnitsUndisturbed'
    BY <1>5 DEF ServiceTyped, Runs, Disks, Managers, Transactions, UnitsUndisturbed,
      UnitsOfStep, UnitsOfJournal, Knows, ManagerMayHaveObservedNext, JournalOfCommand, UnitsGoBack,
      FilesOfStep, AsBefore, Nothing, NoArtifacts, AllArtifacts, UndoEnvironment
  <2> QED BY <2>1, <2>2, <2>3, <2>4, <2>5
<1>6. CASE UndoReload
  <2>1. ServiceTyped'
    BY <1>6, DiskChanges, ManagerChanges, JournalChanges, RunMoves DEF ServiceTyped,
      UndoReload, Reload
  <2>2. JournalOfCommand'
    BY <1>6 DEF ServiceTyped, Runs, Transactions, JournalOfCommand, UndoReload
  <2>3. FilesOfStep'
    BY <1>6 DEF ServiceTyped, Runs, Disks, Transactions, JournalOfCommand, FilesOfStep,
      AsBefore, Nothing, NoArtifacts, AllArtifacts, Whole, CanGoBack, Undoable, UndoneSoFar, UndoReload
  <2>4. UnitsGoBack'
    BY <1>6 DEF ServiceTyped, Runs, Managers, UnitsGoBack, JournalOfCommand, UndoReload,
      Reload, OnDisk
  <2>5. UnitsUndisturbed'
    BY <1>6 DEF ServiceTyped, Runs, Disks, Managers, Transactions, UnitsUndisturbed,
      UnitsOfStep, UnitsOfJournal, Knows, ManagerMayHaveObservedNext, JournalOfCommand, UnitsGoBack,
      FilesOfStep, AsBefore, Nothing, NoArtifacts, AllArtifacts, UndoReload, Reload, OnDisk
  <2> QED BY <2>1, <2>2, <2>3, <2>4, <2>5
<1>7. CASE UndoClose
  <2>1. ServiceTyped'
    BY <1>7, DiskChanges, ManagerChanges, JournalChanges, RunMoves DEF ServiceTyped,
      UndoClose
  <2>2. JournalOfCommand'
    BY <1>7 DEF ServiceTyped, Runs, Transactions, JournalOfCommand, UndoClose
  <2>3. FilesOfStep'
    BY <1>7 DEF ServiceTyped, Runs, Disks, Transactions, JournalOfCommand, FilesOfStep,
      AsBefore, Nothing, NoArtifacts, AllArtifacts, Whole, CanGoBack, Undoable, UndoneSoFar, UndoClose,
      NotFound
  <2>4. UnitsGoBack'
    BY <1>7 DEF ServiceTyped, Runs, Managers, UnitsGoBack, JournalOfCommand, UndoClose,
      NotFound
  <2>5. UnitsUndisturbed'
    BY <1>7 DEF ServiceTyped, Runs, Disks, Managers, Transactions, UnitsUndisturbed,
      UnitsOfStep, UnitsOfJournal, Knows, ManagerMayHaveObservedNext, JournalOfCommand, UnitsGoBack,
      FilesOfStep, AsBefore, Nothing, NoArtifacts, AllArtifacts, UndoClose, NotFound
  <2> QED BY <2>1, <2>2, <2>3, <2>4, <2>5
<1>8. CASE BackSelect
  <2>1. ServiceTyped'
    <3>1. run.prev \in OrNone
      BY <1>8, RunMoves DEF Runs, BackSelect
    <3>2. UNCHANGED <<journal, manager, budget, slips>>
      BY <1>8 DEF BackSelect
    <3>3. disk' \in Disks
      BY <1>8, <3>1, DiskChanges DEF ServiceTyped, BackSelect
    <3>4. run' \in {NoCommand} \cup Runs
      BY <1>8, RunMoves DEF BackSelect
    <3> QED BY <3>1, <3>2, <3>3, <3>4 DEF ServiceTyped
  <2>2. JournalOfCommand'
    BY <1>8 DEF ServiceTyped, Runs, Transactions, JournalOfCommand, BackSelect
  <2>3. FilesOfStep'
    BY <1>8 DEF ServiceTyped, Runs, Disks, Transactions, JournalOfCommand, FilesOfStep,
      AsBefore, Nothing, NoArtifacts, AllArtifacts, Whole, CanGoBack, Undoable, UndoneSoFar, BackSelect
  <2>4. UnitsGoBack'
    BY <1>8 DEF ServiceTyped, Runs, Managers, UnitsGoBack, JournalOfCommand, BackSelect
  <2>5. UnitsUndisturbed'
    BY <1>8 DEF ServiceTyped, Runs, Disks, Managers, Transactions, UnitsUndisturbed,
      UnitsOfStep, UnitsOfJournal, Knows, ManagerMayHaveObservedNext, JournalOfCommand, UnitsGoBack,
      FilesOfStep, AsBefore, Nothing, NoArtifacts, AllArtifacts, BackSelect
  <2> QED BY <2>1, <2>2, <2>3, <2>4, <2>5
<1>9. CASE BackReload
  <2>1. ServiceTyped'
    BY <1>9, DiskChanges, ManagerChanges, JournalChanges, RunMoves DEF ServiceTyped,
      BackReload, Reload
  <2>2. JournalOfCommand'
    BY <1>9 DEF ServiceTyped, Runs, Transactions, JournalOfCommand, BackReload
  <2>3. FilesOfStep'
    BY <1>9 DEF ServiceTyped, Runs, Disks, Transactions, JournalOfCommand, FilesOfStep,
      AsBefore, Nothing, NoArtifacts, AllArtifacts, Whole, CanGoBack, Undoable, UndoneSoFar, BackReload
  <2>4. UnitsGoBack'
    BY <1>9 DEF ServiceTyped, Runs, Managers, UnitsGoBack, JournalOfCommand, BackReload,
      Reload, OnDisk, FilesOfStep, AsBefore, AllArtifacts, Whole
  <2>5. UnitsUndisturbed'
    BY <1>9 DEF ServiceTyped, Runs, Disks, Managers, Transactions, UnitsUndisturbed,
      UnitsOfStep, UnitsOfJournal, Knows, ManagerMayHaveObservedNext, JournalOfCommand, UnitsGoBack,
      FilesOfStep, AsBefore, Nothing, NoArtifacts, AllArtifacts, BackReload, Reload, OnDisk
  <2> QED BY <2>1, <2>2, <2>3, <2>4, <2>5
<1>10. CASE BackRestart
  <2>1. ServiceTyped'
    BY <1>10, DiskChanges, ManagerChanges, JournalChanges, RunMoves DEF ServiceTyped,
      BackRestart, RestartHost
  <2>2. JournalOfCommand'
    BY <1>10 DEF ServiceTyped, Runs, Transactions, JournalOfCommand, BackRestart
  <2>3. FilesOfStep'
    BY <1>10 DEF ServiceTyped, Runs, Disks, Transactions, JournalOfCommand, FilesOfStep,
      AsBefore, Nothing, NoArtifacts, AllArtifacts, Whole, CanGoBack, Undoable, UndoneSoFar, BackRestart
  <2>4. UnitsGoBack'
    BY <1>10 DEF ServiceTyped, Runs, Managers, UnitsGoBack, JournalOfCommand, BackRestart,
      RestartHost
  <2>5. UnitsUndisturbed'
    BY <1>10 DEF ServiceTyped, Runs, Disks, Managers, Transactions, UnitsUndisturbed,
      UnitsOfStep, UnitsOfJournal, Knows, ManagerMayHaveObservedNext, JournalOfCommand, UnitsGoBack,
      FilesOfStep, AsBefore, Nothing, NoArtifacts, AllArtifacts, BackRestart, RestartHost
  <2> QED BY <2>1, <2>2, <2>3, <2>4, <2>5
<1>11. CASE BackCheck
  <2>1. ServiceTyped'
    BY <1>11, DiskChanges, ManagerChanges, JournalChanges, RunMoves DEF ServiceTyped,
      BackCheck
  <2>2. JournalOfCommand'
    BY <1>11 DEF ServiceTyped, Runs, Transactions, JournalOfCommand, BackCheck
  <2>3. FilesOfStep'
    BY <1>11 DEF ServiceTyped, Runs, Disks, Transactions, JournalOfCommand, FilesOfStep,
      AsBefore, Nothing, NoArtifacts, AllArtifacts, Whole, CanGoBack, Undoable, UndoneSoFar, BackCheck
  <2>4. UnitsGoBack'
    BY <1>11 DEF ServiceTyped, Runs, Managers, UnitsGoBack, JournalOfCommand, BackCheck,
      InstalledIdentity
  <2>5. UnitsUndisturbed'
    BY <1>11 DEF ServiceTyped, Runs, Disks, Managers, Transactions, UnitsUndisturbed,
      UnitsOfStep, UnitsOfJournal, Knows, ManagerMayHaveObservedNext, JournalOfCommand, UnitsGoBack,
      FilesOfStep, AsBefore, Nothing, NoArtifacts, AllArtifacts, BackCheck,
      InstalledIdentity
  <2> QED BY <2>1, <2>2, <2>3, <2>4, <2>5
<1>12. CASE BackClose
  <2>1. ServiceTyped'
    BY <1>12, DiskChanges, ManagerChanges, JournalChanges, RunMoves DEF ServiceTyped,
      BackClose
  <2>2. JournalOfCommand'
    BY <1>12 DEF ServiceTyped, Runs, Transactions, JournalOfCommand, BackClose
  <2>3. FilesOfStep'
    BY <1>12 DEF ServiceTyped, Runs, Disks, Transactions, JournalOfCommand, FilesOfStep,
      AsBefore, Nothing, NoArtifacts, AllArtifacts, Whole, CanGoBack, Undoable, UndoneSoFar, BackClose
  <2>4. UnitsGoBack'
    BY <1>12 DEF ServiceTyped, Runs, Managers, UnitsGoBack, JournalOfCommand, BackClose
  <2>5. UnitsUndisturbed'
    BY <1>12 DEF ServiceTyped, Runs, Disks, Managers, Transactions, UnitsUndisturbed,
      UnitsOfStep, UnitsOfJournal, Knows, ManagerMayHaveObservedNext, JournalOfCommand, UnitsGoBack,
      FilesOfStep, AsBefore, Nothing, NoArtifacts, AllArtifacts, BackClose
  <2> QED BY <2>1, <2>2, <2>3, <2>4, <2>5
<1> QED BY <1>1, <1>2, <1>3, <1>4, <1>5, <1>6, <1>7, <1>8, <1>9, <1>10, <1>11, <1>12

\* An uninstall, at whatever phase it starts (uninstallService).
LEMMA RemovingStep ==
  ASSUME ServiceInv,
         WriteUninstall \/ UninstallOwned \/ UninstallStop \/ UninstallStopped \/
         UninstallDisable \/ UninstallDisabled \/ UninstallAnchors \/ UninstallAnchored
         \/ UninstallReleases \/ UninstallReload \/ UninstallReloaded \/ UninstallClose
  PROVE  ServiceInv'
<1> USE DEF ServiceInv, At, Goto, Pass, Reply, Answer, Quiet, Files, Units, SetJournal, NoCommand,
         NoJournal, Steps, Opening, Recovering, Changing, Forward, Undoing, GoingBack,
         Removing, Kept, Unrecorded, Undisturbed
<1>1. CASE WriteUninstall
  <2>1. ServiceTyped'
    <3>1. disk.selector \in OrNone /\ Whole \in SUBSET Releases
      BY ReleasesNumbered, DiskChanges DEF ServiceTyped
    <3>2. UNCHANGED <<disk, manager, budget, slips>>
      BY <1>1 DEF WriteUninstall
    <3>3. journal' \in {NoJournal, TornJournal} \cup Transactions \cup Uninstalls
      BY <1>1, <3>1 DEF WriteUninstall, Uninstalls, Removals
    <3>4. run' \in {NoCommand} \cup Runs
      BY <1>1, RunMoves DEF WriteUninstall
    <3> QED BY <3>1, <3>2, <3>3, <3>4 DEF ServiceTyped
  <2>2. JournalOfCommand'
    BY <1>1 DEF ServiceTyped, Runs, Transactions, JournalOfCommand, WriteUninstall
  <2>3. FilesOfStep'
    BY <1>1 DEF ServiceTyped, Runs, Disks, Transactions, JournalOfCommand, FilesOfStep,
      AsBefore, Nothing, NoArtifacts, AllArtifacts, Whole, CanGoBack, Undoable, UndoneSoFar,
      WriteUninstall
  <2>4. UnitsGoBack'
    BY <1>1 DEF ServiceTyped, Runs, Managers, UnitsGoBack, JournalOfCommand, WriteUninstall
  <2>5. UnitsUndisturbed'
    BY <1>1 DEF ServiceTyped, Runs, Disks, Managers, Transactions, UnitsUndisturbed,
      UnitsOfStep, UnitsOfJournal, Knows, ManagerMayHaveObservedNext, JournalOfCommand, UnitsGoBack,
      FilesOfStep, AsBefore, Nothing, NoArtifacts, AllArtifacts, WriteUninstall
  <2> QED BY <2>1, <2>2, <2>3, <2>4, <2>5
<1>2. CASE UninstallOwned
  <2>1. ServiceTyped'
    BY <1>2, DiskChanges, ManagerChanges, JournalChanges, RunMoves DEF ServiceTyped,
      UninstallOwned
  <2>2. JournalOfCommand'
    BY <1>2 DEF ServiceTyped, Runs, Transactions, JournalOfCommand, UninstallOwned
  <2>3. FilesOfStep'
    BY <1>2 DEF ServiceTyped, Runs, Disks, Transactions, JournalOfCommand, FilesOfStep,
      AsBefore, Nothing, NoArtifacts, AllArtifacts, Whole, CanGoBack, Undoable, UndoneSoFar,
      UninstallOwned
  <2>4. UnitsGoBack'
    BY <1>2 DEF ServiceTyped, Runs, Managers, UnitsGoBack, JournalOfCommand, UninstallOwned
  <2>5. UnitsUndisturbed'
    BY <1>2 DEF ServiceTyped, Runs, Disks, Managers, Transactions, UnitsUndisturbed,
      UnitsOfStep, UnitsOfJournal, Knows, ManagerMayHaveObservedNext, JournalOfCommand, UnitsGoBack,
      FilesOfStep, AsBefore, Nothing, NoArtifacts, AllArtifacts, UninstallOwned
  <2> QED BY <2>1, <2>2, <2>3, <2>4, <2>5
<1>3. CASE UninstallStop
  <2>1. ServiceTyped'
    BY <1>3, DiskChanges, ManagerChanges, JournalChanges, RunMoves DEF ServiceTyped,
      UninstallStop
  <2>2. JournalOfCommand'
    BY <1>3 DEF ServiceTyped, Runs, Transactions, JournalOfCommand, UninstallStop
  <2>3. FilesOfStep'
    BY <1>3 DEF ServiceTyped, Runs, Disks, Transactions, JournalOfCommand, FilesOfStep,
      AsBefore, Nothing, NoArtifacts, AllArtifacts, Whole, CanGoBack, Undoable, UndoneSoFar,
      UninstallStop
  <2>4. UnitsGoBack'
    BY <1>3 DEF ServiceTyped, Runs, Managers, UnitsGoBack, JournalOfCommand, UninstallStop
  <2>5. UnitsUndisturbed'
    BY <1>3 DEF ServiceTyped, Runs, Disks, Managers, Transactions, UnitsUndisturbed,
      UnitsOfStep, UnitsOfJournal, Knows, ManagerMayHaveObservedNext, JournalOfCommand, UnitsGoBack,
      FilesOfStep, AsBefore, Nothing, NoArtifacts, AllArtifacts, UninstallStop
  <2> QED BY <2>1, <2>2, <2>3, <2>4, <2>5
<1>4. CASE UninstallStopped
  <2>a. journal.op = "uninstall"
    BY <1>4 DEF JournalOfCommand, UninstallStopped
  <2>b. /\ journal' \in Uninstalls \cup {journal} /\ journal'.op = "uninstall"
        /\ journal' # NoJournal
        /\ (run' = NoCommand \/ Goto("x_disable")) /\ UNCHANGED <<disk, manager, budget, slips>>
    BY <1>4, <2>a, Advances DEF UninstallStopped, Removals
  <2>1. ServiceTyped'
    <3>1. run.at # "idle"
      BY <1>4 DEF UninstallStopped
    <3>2. run' \in {NoCommand} \cup Runs
      BY <2>b, <3>1, RunMoves
    <3> QED BY <2>b, <3>2 DEF ServiceTyped
  <2>2. JournalOfCommand'
    BY <1>4, <2>b DEF ServiceTyped, Runs, Transactions, JournalOfCommand, UninstallStopped
  <2>3. FilesOfStep'
    BY <1>4, <2>b DEF ServiceTyped, Runs, Disks, Transactions, JournalOfCommand,
      FilesOfStep, AsBefore, Nothing, NoArtifacts, AllArtifacts, Whole, CanGoBack, Undoable, UndoneSoFar,
      UninstallStopped
  <2>4. UnitsGoBack'
    BY <1>4, <2>b DEF ServiceTyped, Runs, Managers, UnitsGoBack, JournalOfCommand,
      UninstallStopped
  <2>5. UnitsUndisturbed'
    BY <1>4, <2>b DEF ServiceTyped, Runs, Disks, Managers, Transactions, UnitsUndisturbed,
      UnitsOfStep, UnitsOfJournal, Knows, ManagerMayHaveObservedNext, JournalOfCommand, UnitsGoBack,
      FilesOfStep, AsBefore, Nothing, NoArtifacts, AllArtifacts, UninstallStopped
  <2> QED BY <2>1, <2>2, <2>3, <2>4, <2>5
<1>5. CASE UninstallDisable
  <2>1. ServiceTyped'
    BY <1>5, DiskChanges, ManagerChanges, JournalChanges, RunMoves DEF ServiceTyped,
      UninstallDisable
  <2>2. JournalOfCommand'
    BY <1>5 DEF ServiceTyped, Runs, Transactions, JournalOfCommand, UninstallDisable
  <2>3. FilesOfStep'
    BY <1>5 DEF ServiceTyped, Runs, Disks, Transactions, JournalOfCommand, FilesOfStep,
      AsBefore, Nothing, NoArtifacts, AllArtifacts, Whole, CanGoBack, Undoable, UndoneSoFar,
      UninstallDisable
  <2>4. UnitsGoBack'
    BY <1>5 DEF ServiceTyped, Runs, Managers, UnitsGoBack, JournalOfCommand,
      UninstallDisable
  <2>5. UnitsUndisturbed'
    BY <1>5 DEF ServiceTyped, Runs, Disks, Managers, Transactions, UnitsUndisturbed,
      UnitsOfStep, UnitsOfJournal, Knows, ManagerMayHaveObservedNext, JournalOfCommand, UnitsGoBack,
      FilesOfStep, AsBefore, Nothing, NoArtifacts, AllArtifacts, UninstallDisable
  <2> QED BY <2>1, <2>2, <2>3, <2>4, <2>5
<1>6. CASE UninstallDisabled
  <2>a. journal.op = "uninstall"
    BY <1>6 DEF JournalOfCommand, UninstallDisabled
  <2>b. /\ journal' \in Uninstalls \cup {journal} /\ journal'.op = "uninstall"
        /\ journal' # NoJournal
        /\ (run' = NoCommand \/ Goto("x_anchors")) /\ UNCHANGED <<disk, manager, budget, slips>>
    BY <1>6, <2>a, Advances DEF UninstallDisabled, Removals
  <2>1. ServiceTyped'
    <3>1. run.at # "idle"
      BY <1>6 DEF UninstallDisabled
    <3>2. run' \in {NoCommand} \cup Runs
      BY <2>b, <3>1, RunMoves
    <3> QED BY <2>b, <3>2 DEF ServiceTyped
  <2>2. JournalOfCommand'
    BY <1>6, <2>b DEF ServiceTyped, Runs, Transactions, JournalOfCommand, UninstallDisabled
  <2>3. FilesOfStep'
    BY <1>6, <2>b DEF ServiceTyped, Runs, Disks, Transactions, JournalOfCommand,
      FilesOfStep, AsBefore, Nothing, NoArtifacts, AllArtifacts, Whole, CanGoBack, Undoable, UndoneSoFar,
      UninstallDisabled
  <2>4. UnitsGoBack'
    BY <1>6, <2>b DEF ServiceTyped, Runs, Managers, UnitsGoBack, JournalOfCommand,
      UninstallDisabled
  <2>5. UnitsUndisturbed'
    BY <1>6, <2>b DEF ServiceTyped, Runs, Disks, Managers, Transactions, UnitsUndisturbed,
      UnitsOfStep, UnitsOfJournal, Knows, ManagerMayHaveObservedNext, JournalOfCommand, UnitsGoBack,
      FilesOfStep, AsBefore, Nothing, NoArtifacts, AllArtifacts, UninstallDisabled
  <2> QED BY <2>1, <2>2, <2>3, <2>4, <2>5
<1>7. CASE UninstallAnchors
  <2>1. ServiceTyped'
    <3>1. UNCHANGED <<journal, manager, budget, slips>>
      BY <1>7 DEF UninstallAnchors
    <3>2. disk' \in Disks
      BY <1>7, ArtifactChanges, ReleasesNumbered DEF ServiceTyped, UninstallAnchors
    <3>3. run' \in {NoCommand} \cup Runs
      BY <1>7, RunMoves DEF UninstallAnchors
    <3> QED BY <3>1, <3>2, <3>3 DEF ServiceTyped
  <2>2. JournalOfCommand'
    BY <1>7 DEF ServiceTyped, Runs, Transactions, JournalOfCommand, UninstallAnchors
  <2>3. FilesOfStep'
    BY <1>7 DEF ServiceTyped, Runs, Disks, Transactions, JournalOfCommand, FilesOfStep,
      AsBefore, Nothing, NoArtifacts, AllArtifacts, Whole, CanGoBack, Undoable, UndoneSoFar,
      UninstallAnchors
  <2>4. UnitsGoBack'
    BY <1>7 DEF ServiceTyped, Runs, Managers, UnitsGoBack, JournalOfCommand,
      UninstallAnchors
  <2>5. UnitsUndisturbed'
    BY <1>7 DEF ServiceTyped, Runs, Disks, Managers, Transactions, UnitsUndisturbed,
      UnitsOfStep, UnitsOfJournal, Knows, ManagerMayHaveObservedNext, JournalOfCommand, UnitsGoBack,
      FilesOfStep, AsBefore, Nothing, NoArtifacts, AllArtifacts, UninstallAnchors
  <2> QED BY <2>1, <2>2, <2>3, <2>4, <2>5
<1>8. CASE UninstallAnchored
  <2>a. journal.op = "uninstall" /\ run # NoCommand
    BY <1>8 DEF JournalOfCommand, UninstallAnchored
  <2>b. /\ journal' \in Uninstalls /\ journal'.op = "uninstall" /\ journal' # NoJournal
        /\ Goto("x_releases") /\ UNCHANGED <<disk, manager, budget, slips>>
    BY <1>8, <2>a, Advances DEF UninstallAnchored, Removals
  <2>1. ServiceTyped'
    BY <1>8, DiskChanges, ManagerChanges, JournalChanges, RunMoves, <2>b DEF ServiceTyped,
      UninstallAnchored
  <2>2. JournalOfCommand'
    BY <1>8, <2>b DEF ServiceTyped, Runs, Transactions, JournalOfCommand, UninstallAnchored
  <2>3. FilesOfStep'
    BY <1>8, <2>b DEF ServiceTyped, Runs, Disks, Transactions, JournalOfCommand,
      FilesOfStep, AsBefore, Nothing, NoArtifacts, AllArtifacts, Whole, CanGoBack, Undoable, UndoneSoFar,
      UninstallAnchored
  <2>4. UnitsGoBack'
    BY <1>8, <2>b DEF ServiceTyped, Runs, Managers, UnitsGoBack, JournalOfCommand,
      UninstallAnchored
  <2>5. UnitsUndisturbed'
    BY <1>8, <2>b DEF ServiceTyped, Runs, Disks, Managers, Transactions, UnitsUndisturbed,
      UnitsOfStep, UnitsOfJournal, Knows, ManagerMayHaveObservedNext, JournalOfCommand, UnitsGoBack,
      FilesOfStep, AsBefore, Nothing, NoArtifacts, AllArtifacts, UninstallAnchored
  <2> QED BY <2>1, <2>2, <2>3, <2>4, <2>5
<1>9. CASE UninstallReleases
  <2>a. journal.op = "uninstall" /\ run # NoCommand
    BY <1>9 DEF JournalOfCommand, UninstallReleases
  <2>b. \/ /\ journal' \in Uninstalls /\ journal'.op = "uninstall" /\ journal' # NoJournal
           /\ Goto("x_reload") /\ UNCHANGED <<disk, manager, budget, slips>>
        \/ /\ \E r \in Whole : disk' = [disk EXCEPT !.releases[r] = "absent"]
           /\ Goto("x_releases") /\ UNCHANGED <<journal, manager, budget, slips>>
    BY <1>9, <2>a, Advances DEF UninstallReleases, Removals
  <2>1. ServiceTyped'
    <3>1. disk' = disk \/ \E r \in Releases : disk' = [disk EXCEPT !.releases[r] = "absent"]
      BY <2>b, ReleasesNumbered
    <3>2. UNCHANGED <<manager, budget, slips>>
      BY <2>b
    <3>3. journal' \in {NoJournal, TornJournal} \cup Transactions \cup Uninstalls
      BY <2>b DEF ServiceTyped
    <3>4. disk' \in Disks
      BY <3>1, ReleaseChanges DEF ServiceTyped
    <3>5. run' \in {NoCommand} \cup Runs
      BY <1>9, <2>b, RunMoves DEF UninstallReleases
    <3> QED BY <3>1, <3>2, <3>3, <3>4, <3>5 DEF ServiceTyped
  <2>2. JournalOfCommand'
    BY <1>9, <2>b DEF ServiceTyped, Runs, Transactions, JournalOfCommand, UninstallReleases
  <2>3. FilesOfStep'
    BY <1>9, <2>b DEF ServiceTyped, Runs, Disks, Transactions, JournalOfCommand,
      FilesOfStep, AsBefore, Nothing, NoArtifacts, AllArtifacts, Whole, CanGoBack, Undoable, UndoneSoFar,
      UninstallReleases
  <2>4. UnitsGoBack'
    BY <1>9, <2>b DEF ServiceTyped, Runs, Managers, UnitsGoBack, JournalOfCommand,
      UninstallReleases
  <2>5. UnitsUndisturbed'
    BY <1>9, <2>b DEF ServiceTyped, Runs, Disks, Managers, Transactions, UnitsUndisturbed,
      UnitsOfStep, UnitsOfJournal, Knows, ManagerMayHaveObservedNext, JournalOfCommand, UnitsGoBack,
      FilesOfStep, AsBefore, Nothing, NoArtifacts, AllArtifacts, UninstallReleases
  <2> QED BY <2>1, <2>2, <2>3, <2>4, <2>5
<1>10. CASE UninstallReload
  <2>1. ServiceTyped'
    BY <1>10, DiskChanges, ManagerChanges, JournalChanges, RunMoves DEF ServiceTyped,
      UninstallReload, Reload
  <2>2. JournalOfCommand'
    BY <1>10 DEF ServiceTyped, Runs, Transactions, JournalOfCommand, UninstallReload
  <2>3. FilesOfStep'
    BY <1>10 DEF ServiceTyped, Runs, Disks, Transactions, JournalOfCommand, FilesOfStep,
      AsBefore, Nothing, NoArtifacts, AllArtifacts, Whole, CanGoBack, Undoable, UndoneSoFar,
      UninstallReload
  <2>4. UnitsGoBack'
    BY <1>10 DEF ServiceTyped, Runs, Managers, UnitsGoBack, JournalOfCommand,
      UninstallReload, Reload, OnDisk
  <2>5. UnitsUndisturbed'
    BY <1>10 DEF ServiceTyped, Runs, Disks, Managers, Transactions, UnitsUndisturbed,
      UnitsOfStep, UnitsOfJournal, Knows, ManagerMayHaveObservedNext, JournalOfCommand, UnitsGoBack,
      FilesOfStep, AsBefore, Nothing, NoArtifacts, AllArtifacts, UninstallReload, Reload,
      OnDisk
  <2> QED BY <2>1, <2>2, <2>3, <2>4, <2>5
<1>11. CASE UninstallReloaded
  <2>a. journal.op = "uninstall"
    BY <1>11 DEF JournalOfCommand, UninstallReloaded
  <2>b. /\ journal' \in Uninstalls \cup {journal} /\ journal'.op = "uninstall"
        /\ journal' # NoJournal
        /\ (run' = NoCommand \/ Goto("x_close")) /\ UNCHANGED <<disk, manager, budget, slips>>
    BY <1>11, <2>a, Advances DEF UninstallReloaded, Removals
  <2>1. ServiceTyped'
    <3>1. run.at # "idle"
      BY <1>11 DEF UninstallReloaded
    <3>2. run' \in {NoCommand} \cup Runs
      BY <2>b, <3>1, RunMoves
    <3> QED BY <2>b, <3>2 DEF ServiceTyped
  <2>2. JournalOfCommand'
    BY <1>11, <2>b DEF ServiceTyped, Runs, Transactions, JournalOfCommand, UninstallReloaded
  <2>3. FilesOfStep'
    BY <1>11, <2>b DEF ServiceTyped, Runs, Disks, Transactions, JournalOfCommand,
      FilesOfStep, AsBefore, Nothing, NoArtifacts, AllArtifacts, Whole, CanGoBack, Undoable, UndoneSoFar,
      UninstallReloaded, NotFound
  <2>4. UnitsGoBack'
    BY <1>11, <2>b DEF ServiceTyped, Runs, Managers, UnitsGoBack, JournalOfCommand,
      UninstallReloaded, NotFound
  <2>5. UnitsUndisturbed'
    BY <1>11, <2>b DEF ServiceTyped, Runs, Disks, Managers, Transactions, UnitsUndisturbed,
      UnitsOfStep, UnitsOfJournal, Knows, ManagerMayHaveObservedNext, JournalOfCommand, UnitsGoBack,
      FilesOfStep, AsBefore, Nothing, NoArtifacts, AllArtifacts, UninstallReloaded, NotFound
  <2> QED BY <2>1, <2>2, <2>3, <2>4, <2>5
<1>12. CASE UninstallClose
  <2>1. ServiceTyped'
    BY <1>12, DiskChanges, ManagerChanges, JournalChanges, RunMoves DEF ServiceTyped,
      UninstallClose
  <2>2. JournalOfCommand'
    BY <1>12 DEF ServiceTyped, Runs, Transactions, JournalOfCommand, UninstallClose
  <2>3. FilesOfStep'
    BY <1>12 DEF ServiceTyped, Runs, Disks, Transactions, JournalOfCommand, FilesOfStep,
      AsBefore, Nothing, NoArtifacts, AllArtifacts, Whole, CanGoBack, Undoable, UndoneSoFar,
      UninstallClose
  <2>4. UnitsGoBack'
    BY <1>12 DEF ServiceTyped, Runs, Managers, UnitsGoBack, JournalOfCommand, UninstallClose
  <2>5. UnitsUndisturbed'
    BY <1>12 DEF ServiceTyped, Runs, Disks, Managers, Transactions, UnitsUndisturbed,
      UnitsOfStep, UnitsOfJournal, Knows, ManagerMayHaveObservedNext, JournalOfCommand, UnitsGoBack,
      FilesOfStep, AsBefore, Nothing, NoArtifacts, AllArtifacts, UninstallClose
  <2> QED BY <2>1, <2>2, <2>3, <2>4, <2>5
<1> QED BY <1>1, <1>2, <1>3, <1>4, <1>5, <1>6, <1>7, <1>8, <1>9, <1>10, <1>11, <1>12

\* Nothing is installed at first.
LEMMA ServiceInitOK == ServiceInit => ServiceInv
<1> SUFFICES ASSUME ServiceInit PROVE ServiceInv
  OBVIOUS
<1>1. /\ journal = NoJournal /\ run.at = "idle" /\ run.at \notin Steps /\ run = NoCommand
      /\ manager.loaded = NoRelease /\ manager.host = NoRelease
  BY DEF ServiceInit, NoCommand, Steps, Opening, Recovering, Changing, Forward, Undoing, GoingBack,
         Removing
<1>2. ServiceTyped
  <2>1. disk \in Disks
    BY ReleasesNumbered DEF ServiceInit, Disks
  <2>2. manager \in Managers /\ budget \in Budgets
    BY ReleasesNumbered, LifecycleAssumption DEF ServiceInit, Managers, Budgets
  <2> QED BY <1>1, <2>1, <2>2 DEF ServiceTyped, ServiceInit
<1>3. JournalOfCommand
  BY <1>1 DEF JournalOfCommand, NoJournal, Steps, Opening, Recovering, Changing, Forward, Undoing,
              GoingBack, Removing
<1>4. FilesOfStep
  BY <1>1 DEF FilesOfStep, ServiceInit, Nothing, NoArtifacts, Forward, Undoing, GoingBack
<1>5. UnitsGoBack
  BY <1>1 DEF UnitsGoBack
<1>6. UnitsUndisturbed
  BY <1>1 DEF UnitsUndisturbed, UnitsOfStep, UnitsOfJournal, Knows, NoJournal
<1> QED BY <1>2, <1>3, <1>4, <1>5, <1>6 DEF ServiceInv

\* A step of the running command.
LEMMA CommandStep ==
  ASSUME ServiceInv, Step
  PROVE  ServiceInv'
  BY RecoveryStep, OpeningStep, ForwardStep, UndoStep, RemovingStep DEF Step

\* Every step keeps the invariant.
LEMMA ServiceStepOK == ServiceInv /\ [ServiceNext]_serviceVars => ServiceInv'
<1> SUFFICES ASSUME ServiceInv, [ServiceNext]_serviceVars PROVE ServiceInv'
  OBVIOUS
<1>1. CASE Step
  BY <1>1, CommandStep
<1>2. ASSUME NEW c \in {"install", "upgrade"}, NEW r \in Releases, BeginCommand(c, r)
      PROVE  ServiceInv'
  BY <1>2, BeginStep, ReleasesNumbered DEF Commands
<1>3. ASSUME NEW c \in {"start", "stop", "restart", "uninstall"}, BeginCommand(c, NoRelease)
      PROVE  ServiceInv'
  BY <1>3, BeginStep, ReleasesNumbered DEF Commands
<1>4. CASE CallFails
  BY <1>4, FailStep
<1>5. CASE Kill
  BY <1>5, KillStep
<1>6. CASE Reboot
  BY <1>6, RebootStep
<1>7. CASE ForeignReload
  BY <1>7, ForeignReloadStep
<1>8. CASE ServiceRestarts
  BY <1>8, ServiceRestartsStep
<1>9. CASE OperatorDisables \/ OperatorStops \/ OperatorReloads
  BY <1>9, OperatorStep
<1>10. CASE UNCHANGED serviceVars
  <2>1. UNCHANGED <<journal, disk, manager, run, budget, slips>>
    BY <1>10 DEF serviceVars
  <2>2. manager' \in Managers /\ UnitsGoBack' /\ (UnitsOfStep => UnitsOfStep')
    BY <2>1 DEF ServiceInv, ServiceTyped, UnitsGoBack, UnitsOfStep, UnitsOfJournal, Knows,
                ManagerMayHaveObservedNext
  <2> QED BY <2>1, <2>2, ManagerAlone
<1> QED BY <1>1, <1>2, <1>3, <1>4, <1>5, <1>6, <1>7, <1>8, <1>9, <1>10 DEF ServiceNext

\* The invariant holds in every state.
LEMMA ServiceAlways == ServiceSpec => []ServiceInv
  BY ServiceInitOK, ServiceStepOK, PTL DEF ServiceSpec

(* Whenever no command runs and no journal is left, the installation is    *)
(* there as a whole or not at all, whatever was killed, failed or torn     *)
(* before, unless a publication failed that had made its file or a call    *)
(* failed when the journal was gone already (installService,               *)
(* upgradeService, uninstallService and recoverPendingTransaction).        *)
THEOREM InstalledWholeOrNotAtAll == ServiceSpec => []AllOrNothing
<1>1. ServiceInv => AllOrNothing
  BY DEF ServiceInv, FilesOfStep, AllOrNothing, WholeOrNothing, Nothing
<1> QED BY <1>1, ServiceAlways, PTL

(* With nothing pending the service runs the selected release or none,     *)
(* unless the machine was restarted, the manager reloaded by others, or a  *)
(* call failed when the journal was gone already                           *)
(* (recoverPendingTransaction's managerMayHaveObservedNext, and the        *)
(* rollback of upgradeService).                                            *)
THEOREM RunsWhatIsSelected == ServiceSpec => []SameRelease
<1>1. ServiceInv => SameRelease
  BY DEF ServiceInv, UnitsUndisturbed, UnitsOfStep, Knows, SameRelease, RunsSelected, Undisturbed,
         Unrecorded
<1> QED BY <1>1, ServiceAlways, PTL

\* Only the last step of an undoing reports a rollback.
LEMMA OnlyUndoingReports ==
  ASSUME ServiceNext, ReportsRollback
  PROVE  UndoClose \/ BackClose
<1> USE DEF At, Goto, Pass, Reply, Answer, Quiet, ReportsRollback
<1>1. ~ (\/ Recover \/ RecoverDisable \/ RecoverRemove \/ RecoverSelect \/ RecoverReload
         \/ RecoverRestart \/ RecoverReady \/ RecoverInactive \/ RecoverClose)
  BY DEF Recover, RecoverDisable, RecoverRemove, RecoverSelect, RecoverReload, RecoverRestart,
         RecoverReady, RecoverInactive, RecoverClose
<1>2. ~ (\/ Inspect \/ UnitRestart \/ UnitReady \/ UnitStop \/ UnitStopped
         \/ AgainReload \/ AgainEnable \/ AgainCanonical \/ AgainCheck)
  BY DEF Inspect, UnitRestart, UnitReady, UnitStop, UnitStopped, AgainReload, AgainEnable,
         AgainCanonical, AgainCheck
<1>3. ~ (\/ WriteJournal \/ Stage \/ Publish \/ Prepared \/ PublishEnvironment \/ PublishAnchors
         \/ Select \/ Selected \/ ReloadNext \/ ManagerReloaded \/ Enable \/ Canonicalize
         \/ NextRestart \/ NextReady \/ NextInactive \/ Prune \/ Close \/ ReadResult)
  BY DEF WriteJournal, Stage, Publish, Prepared, PublishEnvironment, PublishAnchors, Select,
         Selected, ReloadNext, ManagerReloaded, Enable, Canonicalize, NextRestart, NextReady,
         NextInactive, CheckNext, Prune, Close, ReadResult
<1>4. ~ (\/ Discard \/ UndoEnable \/ UndoSelector \/ UndoAnchors \/ UndoEnvironment
         \/ UndoReload \/ BackSelect \/ BackReload \/ BackRestart \/ BackCheck)
  BY DEF Discard, UndoEnable, UndoSelector, UndoAnchors, UndoEnvironment, UndoReload, BackSelect,
         BackReload, BackRestart, BackCheck
<1>5. ~ (\/ WriteUninstall \/ UninstallOwned \/ UninstallStop \/ UninstallStopped
         \/ UninstallDisable \/ UninstallDisabled \/ UninstallAnchors \/ UninstallAnchored)
  BY DEF WriteUninstall, UninstallOwned, UninstallStop, UninstallStopped, UninstallDisable,
         UninstallDisabled, UninstallAnchors, UninstallAnchored, Advance
<1>6. ~ (UninstallReleases \/ UninstallReload \/ UninstallReloaded \/ UninstallClose)
  BY DEF UninstallReleases, UninstallReload, UninstallReloaded, UninstallClose, Advance
<1>7. ~ (\/ CallFails \/ Kill \/ Reboot \/ ForeignReload \/ ServiceRestarts
         \/ OperatorDisables \/ OperatorStops \/ OperatorReloads)
  BY DEF CallFails, Kill, Reboot, ForeignReload, ServiceRestarts, OperatorDisables, OperatorStops,
         OperatorReloads
<1>8. \A c, r : ~BeginCommand(c, r)
  BY DEF BeginCommand
<1> QED BY <1>1, <1>2, <1>3, <1>4, <1>5, <1>6, <1>7, <1>8 DEF ServiceNext, Step

(* A command that reports a rollback as succeeded has put everything back: *)
(* selector, loaded unit and what runs are what they were, no journal is   *)
(* left, and of a failed install nothing is; unless a publication failed   *)
(* that had made its file (the ends of installService and upgradeService). *)
THEOREM RollbackIsTrue == ServiceSpec => RollbackTrue
<1>1. ServiceInv /\ [ServiceNext]_serviceVars =>
        (ReportsRollback /\ "kept" \notin slips => PutsBack)
  <2> SUFFICES ASSUME ServiceInv, [ServiceNext]_serviceVars, ReportsRollback, "kept" \notin slips
               PROVE  PutsBack
    OBVIOUS
  <2>1. UndoClose \/ BackClose
    BY OnlyUndoingReports DEF serviceVars, ReportsRollback
  <2>2. CASE UndoClose
    <3>1. /\ run.at = "undo_close" /\ run.clean /\ NotFound
          /\ journal' = NoJournal /\ UNCHANGED <<disk, manager>>
      BY <2>1, <2>2 DEF UndoClose, At, Answer, Reply, SetJournal, ReportsRollback
    <3>2. run.prev = NoRelease
      BY <3>1 DEF ServiceInv, JournalOfCommand, Changing
    <3>3. NoArtifacts /\ disk.enabled = "no"
      BY <3>1 DEF ServiceInv, FilesOfStep, Kept, UndoneSoFar, NoArtifacts
    <3> QED BY <3>1, <3>2, <3>3 DEF NotFound, PutsBack, NoArtifacts
  <2>3. CASE BackClose
    <3>1. run.at = "back_close" /\ journal' = NoJournal /\ UNCHANGED <<disk, manager>>
      BY <2>3 DEF BackClose, At, SetJournal
    <3>2. run.prev # NoRelease
      BY <3>1 DEF ServiceInv, JournalOfCommand, GoingBack
    <3>3. disk.selector = run.prev
      BY <3>1, <3>2 DEF ServiceInv, FilesOfStep, AsBefore, GoingBack
    <3> QED BY <3>1, <3>2, <3>3 DEF ServiceInv, UnitsGoBack, PutsBack
  <2> QED BY <2>1, <2>2, <2>3
<1> QED BY <1>1, ServiceAlways, PTL DEF ServiceSpec, RollbackTrue

==============================================================================
