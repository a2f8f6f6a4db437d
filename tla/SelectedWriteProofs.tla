------------------------- MODULE SelectedWriteProofs -------------------------
(***************************************************************************)
(* Proofs about SelectedWrite for any number of requests, operations and   *)
(* actors, any budgets and any number of faults: writes are dispatched at  *)
(* most once, replies and audit trails tell the truth, a dispatch is still *)
(* authorised when it begins, and the host is ready only when the trails   *)
(* of earlier times are closed.                                            *)
(***************************************************************************)
EXTENDS SelectedWrite, Integers, TLAPS

(* The admission state without its budgets: the proofs below do not need them. *)
Rates == [on : BOOLEAN, count : Int, idle : BOOLEAN]
Admissions ==
  [phase : {"open", "draining", "closed"}, entry : [Ops -> Entries], owners : Int,
   actors : [Actors -> Int], targets : [Targets -> Int], bucket : [Actors -> Rates]]
(* What prune may do to an entry e. *)
Kept(e, f) == f.status = e.status \/ (e.status # "open" /\ f = NoEntry)

(* An entry can be replaced by another. *)
LEMMA EntryUpdates ==
  ASSUME NEW m \in Admissions, NEW o \in Ops, NEW e \in Entries
  PROVE  /\ [m EXCEPT !.entry[o] = e] \in Admissions
         /\ [m EXCEPT !.entry[o] = e].entry = [m.entry EXCEPT ![o] = e]
         /\ m.entry \in [Ops -> Entries]
<1>1. [m EXCEPT !.entry[o] = e] \in Admissions
  BY DEF Admissions
<1>2. [m EXCEPT !.entry[o] = e].entry = [m.entry EXCEPT ![o] = e]
  BY DEF Admissions
<1>3. m.entry \in [Ops -> Entries]
  BY DEF Admissions
<1> QED BY <1>1, <1>2, <1>3

(* prune never touches the entry of an operation somebody owns. *)
LEMMA PruneKeeps ==
  ASSUME NEW m \in Admissions
  PROVE  /\ Prune(m) \in Admissions
         /\ \A o \in Ops : Kept(m.entry[o], Prune(m).entry[o])
<1>1. NoEntry \in Entries /\ NoBucket \in Rates
  BY DEF Entries, NoBucket, Rates
<1>2. Prune(m) \in Admissions
  BY <1>1 DEF Admissions, Prune
<1>3. \A o \in Ops : Kept(m.entry[o], Prune(m).entry[o])
  BY DEF Admissions, Prune, Kept, Settled, Results
<1> QED BY <1>2, <1>3

(* chargeRate touches no entry. *)
LEMMA ChargeKeeps ==
  ASSUME NEW m \in Admissions, NEW a \in Actors
  PROVE  /\ Charge(m, a) \in Admissions /\ Charge(m, a).entry = m.entry
         /\ Touch(m, a) \in Admissions /\ Touch(m, a).entry = m.entry
<1> DEFINE b == Window(m.bucket[a])
<1>1. b \in Rates
  BY DEF Admissions, Window, Rates
<1>2. \A c \in Rates : [c EXCEPT !.count = c.count + 1] \in Rates
  BY DEF Rates
<1>3. \A c \in Rates : [m EXCEPT !.bucket[a] = c] \in Admissions /\ [m EXCEPT !.bucket[a] = c].entry = m.entry
  BY DEF Admissions
<1>4. Charge(m, a) = [m EXCEPT !.bucket[a] = [b EXCEPT !.count = b.count + 1]]
  BY DEF Charge
<1>5. Touch(m, a) = [m EXCEPT !.bucket[a] = b]
  BY DEF Touch
<1> HIDE DEF b
<1> QED BY <1>1, <1>2, <1>3, <1>4, <1>5

(* begin opens the entry of its operation and no other. *)
LEMMA ClaimOpens ==
  ASSUME NEW m \in Admissions, NEW o \in Ops, NEW a \in Actors, NEW t \in Targets
  PROVE  /\ Claim(m, o, a, t) \in Admissions
         /\ Claim(m, o, a, t).entry[o].status = "open"
         /\ \A p \in Ops \ {o} : Claim(m, o, a, t).entry[p] = m.entry[p]
<1> DEFINE e == [status |-> "open", actor |-> a, target |-> t, bound |-> FALSE, stale |-> FALSE]
           x == m.actors[a] + 1
           y == m.owners + 1
<1>1. e \in Entries /\ e.status = "open"
  BY DEF Entries
<1>2. x \in Int /\ y \in Int
  BY DEF Admissions
<1>3. Claim(m, o, a, t) = [m EXCEPT !.entry[o] = e, !.actors[a] = x, !.owners = y]
  BY DEF Claim
<1> HIDE DEF e, x, y
<1>4. /\ [m EXCEPT !.entry[o] = e, !.actors[a] = x, !.owners = y] \in Admissions
      /\ [m EXCEPT !.entry[o] = e, !.actors[a] = x, !.owners = y].entry = [m.entry EXCEPT ![o] = e]
      /\ m.entry \in [Ops -> Entries]
  <2>1. [m EXCEPT !.entry[o] = e, !.actors[a] = x, !.owners = y] \in Admissions
    BY <1>1, <1>2 DEF Admissions
  <2>2. [m EXCEPT !.entry[o] = e, !.actors[a] = x, !.owners = y].entry = [m.entry EXCEPT ![o] = e]
    BY <1>1, <1>2 DEF Admissions
  <2> QED BY <2>1, <2>2, <1>1, EntryUpdates
<1> QED BY <1>1, <1>3, <1>4

(* Entries of operations that are owned or settled. *)
Claims == [status : {"open"} \cup Settled, actor : Actors, target : Targets, bound : BOOLEAN, stale : BOOLEAN]

(* What the updates of an entry leave alone. *)
LEMMA ClaimsAreEntries ==
  /\ Entries = {NoEntry} \cup Claims /\ NoEntry.status = "absent"
  /\ \A f \in Claims :
       /\ f.actor \in Actors /\ f.target \in Targets
       /\ [f EXCEPT !.bound = TRUE] \in Claims /\ [f EXCEPT !.bound = TRUE].status = f.status
       /\ [f EXCEPT !.stale = TRUE] \in Claims /\ [f EXCEPT !.stale = TRUE].status = f.status
       /\ \A result \in Settled :
            [f EXCEPT !.status = result] \in Claims /\ [f EXCEPT !.status = result].status = result
  BY DEF Claims, Entries, NoEntry

(* An open entry has an actor and a target. *)
LEMMA OpenEntry ==
  ASSUME NEW m \in Admissions, NEW o \in Ops, Open(m, o)
  PROVE  m.entry[o] \in Claims
<1>1. m.entry[o] \in Entries /\ m.entry[o].status = "open"
  BY DEF Admissions, Open
<1> QED BY <1>1, ClaimsAreEntries

(* bindTarget changes the status of no entry. *)
LEMMA BindKeeps ==
  ASSUME NEW m \in Admissions, NEW o \in Ops, Open(m, o)
  PROVE  /\ BindTarget(m, o) \in Admissions
         /\ \A p \in Ops : BindTarget(m, o).entry[p].status = m.entry[p].status
<1> DEFINE f == m.entry[o]
           t == f.target
           e == [f EXCEPT !.bound = TRUE]
           z == m.targets[t] + 1
<1>1. f \in Claims
  BY OpenEntry
<1>2. BindTarget(m, o) = [m EXCEPT !.entry[o] = e, !.targets[t] = z]
  BY DEF BindTarget
<1> HIDE DEF f
<1>3. t \in Targets /\ e \in Entries /\ e.status = f.status
  BY <1>1, ClaimsAreEntries
<1>4. z \in Int
  BY <1>3 DEF Admissions
<1> HIDE DEF e, t, z
<1>5. /\ [m EXCEPT !.entry[o] = e, !.targets[t] = z] \in Admissions
      /\ [m EXCEPT !.entry[o] = e, !.targets[t] = z].entry = [m.entry EXCEPT ![o] = e]
      /\ m.entry \in [Ops -> Entries]
  <2>1. [m EXCEPT !.entry[o] = e, !.targets[t] = z] \in Admissions
    BY <1>3, <1>4 DEF Admissions
  <2>2. [m EXCEPT !.entry[o] = e, !.targets[t] = z].entry = [m.entry EXCEPT ![o] = e]
    BY <1>3, <1>4 DEF Admissions
  <2> QED BY <2>1, <2>2, <1>3, EntryUpdates
<1> QED BY <1>2, <1>3, <1>5 DEF f

(* releaseOwner changes no entry. *)
LEMMA ReleaseKeeps ==
  ASSUME NEW m \in Admissions, NEW o \in Ops, Open(m, o)
  PROVE  ReleaseOwner(m, o) \in Admissions /\ ReleaseOwner(m, o).entry = m.entry
<1> DEFINE e == m.entry[o]
           x == m.actors[e.actor] - 1
           y == m.owners - 1
           z == IF e.bound THEN m.targets[e.target] - 1 ELSE m.targets[e.target]
           n == [m EXCEPT !.actors[e.actor] = x, !.owners = y, !.targets[e.target] = z]
<1>1. e.actor \in Actors /\ e.target \in Targets
  BY OpenEntry, ClaimsAreEntries
<1>2. x \in Int /\ y \in Int /\ z \in Int
  BY <1>1 DEF Admissions
<1>3. ReleaseOwner(m, o) = CloseIfDrained(n)
  BY DEF ReleaseOwner
<1> HIDE DEF e, x, y, z
<1>4. n \in Admissions /\ n.entry = m.entry
  BY <1>1, <1>2 DEF Admissions
<1> HIDE DEF n
<1>5. CloseIfDrained(n) \in Admissions /\ CloseIfDrained(n).entry = n.entry
  BY <1>4 DEF Admissions, CloseIfDrained
<1> QED BY <1>3, <1>4, <1>5

(* complete and fail settle the entry of their operation and no other. *)
LEMMA RetainSettles ==
  ASSUME NEW m \in Admissions, NEW o \in Ops, Open(m, o), NEW result \in Settled
  PROVE  /\ Retain(m, o, result) \in Admissions
         /\ Retain(m, o, result).entry[o].status = result
         /\ \A p \in Ops \ {o} : Retain(m, o, result).entry[p] = m.entry[p]
<1> DEFINE n == ReleaseOwner(m, o)
           f == n.entry[o]
           e == [f EXCEPT !.status = result]
<1>1. n \in Admissions /\ n.entry = m.entry
  BY ReleaseKeeps
<1>2. Retain(m, o, result) = [n EXCEPT !.entry[o] = e]
  BY DEF Retain
<1> HIDE DEF n
<1>3. f \in Claims
  BY <1>1, OpenEntry
<1> HIDE DEF f
<1>4. e \in Entries /\ e.status = result
  BY <1>3, ClaimsAreEntries
<1> HIDE DEF e
<1>5. /\ [n EXCEPT !.entry[o] = e] \in Admissions
      /\ [n EXCEPT !.entry[o] = e].entry = [n.entry EXCEPT ![o] = e]
      /\ n.entry \in [Ops -> Entries]
  BY <1>1, <1>4 DEF Admissions
<1> QED BY <1>1, <1>2, <1>4, <1>5

(* abandon forgets its operation and no other. *)
LEMMA AbandonForgets ==
  ASSUME NEW m \in Admissions, NEW o \in Ops, Open(m, o)
  PROVE  /\ Abandon(m, o) \in Admissions
         /\ Abandon(m, o).entry[o] = NoEntry
         /\ \A p \in Ops \ {o} : Abandon(m, o).entry[p] = m.entry[p]
<1> DEFINE n == ReleaseOwner(m, o)
<1>1. n \in Admissions /\ n.entry = m.entry
  BY ReleaseKeeps
<1>2. Abandon(m, o) = [n EXCEPT !.entry[o] = NoEntry]
  BY DEF Abandon
<1>3. NoEntry \in Entries
  BY DEF Entries
<1> HIDE DEF n
<1> QED BY <1>1, <1>2, <1>3 DEF Admissions

(* Neither time nor a drain changes the status of an entry. *)
LEMMA TimeKeeps ==
  ASSUME NEW m \in Admissions
  PROVE  /\ WindowEnds(m) \in Admissions /\ WindowEnds(m).entry = m.entry
         /\ Expire(m) \in Admissions
         /\ \A o \in Ops : Expire(m).entry[o].status = m.entry[o].status
         /\ BeginDrain(m) \in Admissions /\ BeginDrain(m).entry = m.entry
<1>1. WindowEnds(m) \in Admissions /\ WindowEnds(m).entry = m.entry
  <2> DEFINE g == [a \in Actors |-> [m.bucket[a] EXCEPT !.count = 0]]
  <2>1. m.bucket \in [Actors -> Rates]
    BY DEF Admissions
  <2>2. g \in [Actors -> Rates]
    BY <2>1 DEF Rates
  <2>3. WindowEnds(m) = [m EXCEPT !.bucket = g]
    BY DEF WindowEnds
  <2> HIDE DEF g
  <2> QED BY <2>2, <2>3 DEF Admissions
<1>2. Expire(m) \in Admissions /\ \A o \in Ops : Expire(m).entry[o].status = m.entry[o].status
  <2> DEFINE Aged(x) == IF x.status \in Settled THEN [x EXCEPT !.stale = TRUE] ELSE x
             f == [o \in Ops |-> Aged(m.entry[o])]
             g == [a \in Actors |-> [on |-> m.bucket[a].on, count |-> 0, idle |-> m.bucket[a].on]]
  <2>1. m.entry \in [Ops -> Entries] /\ m.bucket \in [Actors -> Rates]
    BY DEF Admissions
  <2>4. \A e \in Entries : Aged(e) \in Entries /\ Aged(e).status = e.status
    BY ClaimsAreEntries DEF Settled, Results
  <2>5. f \in [Ops -> Entries] /\ \A o \in Ops : f[o].status = m.entry[o].status
    <3> HIDE DEF Aged
    <3> QED BY <2>1, <2>4
  <2>6. g \in [Actors -> Rates]
    BY <2>1 DEF Rates, NoBucket
  <2>7. Expire(m) = [m EXCEPT !.entry = f, !.bucket = g]
    BY DEF Expire
  <2> HIDE DEF f, g
  <2> QED BY <2>5, <2>6, <2>7 DEF Admissions
<1>3. BeginDrain(m) \in Admissions /\ BeginDrain(m).entry = m.entry
  BY DEF Admissions, BeginDrain, CloseIfDrained
<1> QED BY <1>1, <1>2, <1>3

(* Requests that own an operation. *)
OwnerStates ==
  [pc : Owning, op : Ops, actor : Actors, proof : Nat, outcome : Results, broken : BOOLEAN]

Trails == {"absent", "pending"} \cup Results

(* The types the argument needs. *)
Typed ==
  /\ adm \in Admissions
  /\ req \in [Requests -> RequestStates]
  /\ gen \in Nat
  /\ trail \in [Ops -> Trails]
  /\ sent \in [Ops -> Nat]
  /\ told \in [Ops -> SUBSET Results]
  /\ effect \subseteq Ops

(* An operation has one owner, and its entry is open: this is what makes the
   claim of an operation exclusive. *)
OwnersOpen ==
  /\ \A r \in Requests : req[r].pc \in Owning => Open(adm, req[r].op)
  /\ \A q, r \in Requests :
       req[q].pc \in Owning /\ req[r].pc \in Owning /\ req[q].op = req[r].op => q = r

(* The write has an accepted record and is being carried out. *)
Carried(r) == req[r].pc \in {"dispatching", "preparing", "settling"}

(* An owner that carries a write knows of the outcome what is true, and its
   trail is open, unless a pass closed it as incomplete. *)
KnowsOutcome(r) ==
  LET o == req[r].op IN
  /\ trail[o] \in {"pending", "incomplete"} \/ o \in dropped
  /\ req[r].pc = "dispatching" => o \notin effect \/ o \in dropped
  /\ req[r].pc # "dispatching" /\ req[r].outcome = "succeeded" => o \in effect
  /\ req[r].pc # "dispatching" /\ req[r].outcome = "failed" => o \notin effect \/ o \in dropped

CarriedTrue == \A r \in Requests : Carried(r) => KnowsOutcome(r)

(* Nothing has happened under this operation id. *)
Unused(o) == sent[o] = 0 /\ o \notin effect /\ told[o] = {}
Kind(o) == adm.entry[o].status

(* What trail, settlement and replies of one operation say of it is true. *)
OperationTrue(o) ==
  /\ trail[o] = "absent" => Unused(o) \/ o \in dropped
  /\ sent[o] <= 1 \/ o \in dropped
  /\ trail[o] = "succeeded" => o \in effect
  /\ trail[o] = "failed" => o \notin effect \/ o \in dropped
  /\ told[o] \subseteq {trail[o]} \/ o \in dropped
  /\ "succeeded" \in told[o] => o \in effect
  /\ Kind(o) \in Results => trail[o] = Kind(o) \/ o \in dropped
  /\ Kind(o) = "succeeded" => o \in effect

(* The inductive invariant.  AtMostOnce alone is not inductive: the step that
   sends needs to know that an absent trail means an unused id, and the steps
   that settle need to know what the owner knows. *)
IndInv == Typed /\ OwnersOpen /\ CarriedTrue /\ \A o \in Ops : OperationTrue(o)

(* A request that owns an operation has the fields of an owner. *)
LEMMA OwnerShape ==
  /\ \A x \in RequestStates : x.pc \in Owning => x \in OwnerStates
  /\ OwnerStates \subseteq RequestStates /\ Idle \in RequestStates
  /\ Idle.pc = "idle" /\ "idle" \notin Owning
  /\ \A o \in Ops : Waiting(o) \in RequestStates /\ Waiting(o).pc = "waiting"
<1>1. Idle.pc = "idle" /\ \A o \in Ops : Waiting(o).pc = "waiting"
  BY DEF Idle, Waiting
<1>2. RequestStates = {Idle} \cup {Waiting(o) : o \in Ops} \cup OwnerStates
  BY DEF RequestStates, OwnerStates
<1>3. "idle" \notin Owning /\ "waiting" \notin Owning
  BY DEF Owning
<1> QED BY <1>1, <1>2, <1>3

(* The types of those fields. *)
LEMMA OwnerFields ==
  \A x \in OwnerStates : x.pc \in Owning /\ x.op \in Ops /\ x.outcome \in Results
  BY DEF OwnerStates

(* A state directory that was never used satisfies the invariant. *)
LEMMA InitInv == Init => IndInv
<1> SUFFICES ASSUME Init PROVE IndInv
  OBVIOUS
<1>1. NoEntry \in Entries /\ NoEntry.status = "absent" /\ NoBucket \in Rates
  BY DEF Entries, NoEntry, NoBucket, Rates
<1>2. EmptyAdmission \in Admissions /\ \A o \in Ops : EmptyAdmission.entry[o] = NoEntry
  BY <1>1 DEF EmptyAdmission, Admissions
<1>3. Typed
  BY <1>2, OwnerShape DEF Init, Typed, Trails
<1>4. OwnersOpen /\ CarriedTrue
  BY OwnerShape DEF Init, OwnersOpen, CarriedTrue, Carried, Idle
<1>5. \A o \in Ops : OperationTrue(o)
  BY <1>1, <1>2 DEF Init, OperationTrue, Unused, Kind, Results
<1> QED BY <1>3, <1>4, <1>5 DEF IndInv

(* Owners stay distinct when none is added and their entries stay open. *)
LEMMA SameOwners ==
  ASSUME OwnersOpen,
         \A r \in Requests : req'[r].pc \in Owning =>
           req[r].pc \in Owning /\ req'[r].op = req[r].op /\ Open(adm', req[r].op)
  PROVE  OwnersOpen'
  BY DEF OwnersOpen, Open

(* A step that neither writes a trail nor sends nor carries a write further
   preserves what is known of outcomes, if it tells a client no more than the
   settlement the policy keeps. *)
LEMMA QuietStep ==
  ASSUME IndInv, UNCHANGED <<trail, sent, effect, dropped>>,
         \A r \in Requests : Carried(r)' => req'[r] = req[r],
         \A o \in Ops : Kind(o)' \in Results => Kind(o)' = Kind(o),
         \A o \in Ops : told'[o] = told[o] \/ (Kind(o) \in Results /\ told'[o] = told[o] \cup {Kind(o)})
  PROVE  CarriedTrue' /\ \A o \in Ops : OperationTrue(o)'
<1>1. CarriedTrue'
  BY DEF IndInv, CarriedTrue, Carried, KnowsOutcome
<1>2. ASSUME NEW o \in Ops PROVE OperationTrue(o)'
  <2>1. OperationTrue(o) /\ trail[o] \in Trails
    BY DEF IndInv, Typed
  <2>2. told'[o] \subseteq {trail[o]} \/ o \in dropped
    BY <2>1 DEF OperationTrue
  <2>3. "succeeded" \in told'[o] => o \in effect
    BY <2>1 DEF OperationTrue
  <2>4. trail[o] = "absent" => told'[o] = told[o] \/ o \in dropped
    BY <2>1 DEF OperationTrue, Results
  <2>5. "succeeded" \in Results
    BY DEF Results
  <2> HIDE DEF Results
  <2>6. (trail[o] = "absent" => Unused(o) \/ o \in dropped)'
    BY <2>1, <2>4 DEF OperationTrue, Unused
  <2>7. (Kind(o) \in Results => trail[o] = Kind(o) \/ o \in dropped)'
    BY <2>1 DEF OperationTrue
  <2>8. (Kind(o) = "succeeded" => o \in effect)'
    BY <2>1, <2>5 DEF OperationTrue
  <2>9. /\ (sent[o] <= 1 \/ o \in dropped)'
        /\ (trail[o] = "succeeded" => o \in effect)'
        /\ (trail[o] = "failed" => o \notin effect \/ o \in dropped)'
    BY <2>1 DEF OperationTrue
  <2> QED BY <2>2, <2>3, <2>6, <2>7, <2>8, <2>9 DEF OperationTrue
<1> QED BY <1>1, <1>2

(* Answering an owner and the requests that wait for it leaves the other
   owners as they are. *)
LEMMA AnsweredOwners ==
  ASSUME Typed, NEW r \in Requests, req[r].pc \in Owning, req' = Answered(r)
  PROVE  /\ req' \in [Requests -> RequestStates]
         /\ \A q \in Requests : req'[q].pc \in Owning => q # r /\ req'[q] = req[q]
<1>1. Idle \in RequestStates /\ Idle.pc \notin Owning
  BY OwnerShape
<1>2. \A q \in Requests : req'[q] = Idle \/ (q # r /\ req'[q] = req[q])
  BY DEF Answered
<1>3. req' \in [Requests -> RequestStates]
  BY <1>1 DEF Answered, Typed
<1> QED BY <1>1, <1>2, <1>3

(* The first turn of a request preserves the invariant. *)
LEMMA FirstTurn ==
  ASSUME IndInv, NEW r \in Requests, NEW o \in Ops, NEW a \in Actors, NEW t \in Targets,
         TurnedAway(r, o, a, t) \/ Retried(r, o, a, t) \/ Claimed(r, o, a, t)
  PROVE  IndInv'
<1> DEFINE m == Prune(adm)
           c == Charge(m, a)
           owned == Claim(c, o, a, t)
<1>1. adm \in Admissions /\ Typed /\ OwnersOpen /\ req[r] = Idle /\ req[r].pc \notin Owning
  BY OwnerShape DEF IndInv, Typed, TurnedAway, Retried, Claimed, Arrives
<1>2. m \in Admissions /\ \A p \in Ops : Kept(adm.entry[p], m.entry[p])
  BY <1>1, PruneKeeps
<1>3. c \in Admissions /\ c.entry = m.entry /\ Touch(m, a) \in Admissions /\ Touch(m, a).entry = m.entry
  BY <1>2, ChargeKeeps
<1>4. /\ owned \in Admissions /\ owned.entry[o].status = "open"
      /\ \A p \in Ops \ {o} : owned.entry[p] = c.entry[p]
  BY <1>3, ClaimOpens
<1>5. UNCHANGED <<trail, sent, effect, dropped, gen>>
  BY DEF TurnedAway, Retried, Claimed, Arrives, durable
<1>6. ASSUME adm' \in Admissions, req' = req, \A p \in Ops : Kept(adm.entry[p], adm'.entry[p]),
             told' \in [Ops -> SUBSET Results],
             \A p \in Ops : told'[p] = told[p] \/ (Kind(p) \in Results /\ told'[p] = told[p] \cup {Kind(p)})
      PROVE  IndInv'
  <2>1. Typed'
    BY <1>1, <1>5, <1>6 DEF Typed
  <2>2. \A p \in Ops : (Kind(p)' \in Results => Kind(p)' = Kind(p)) /\ (Open(adm, p) => Open(adm', p))
    BY <1>6 DEF Kept, Kind, Open, NoEntry, Results
  <2>3. OwnersOpen'
    <3>1. \A q \in Requests : req[q].pc \in Owning => req[q].op \in Ops /\ Open(adm, req[q].op)
      BY <1>1, OwnerShape, OwnerFields DEF OwnersOpen, Typed
    <3> QED BY <1>1, <1>6, <2>2, <3>1, SameOwners
  <2>4. CarriedTrue' /\ \A p \in Ops : OperationTrue(p)'
    BY <1>5, <1>6, <2>2, QuietStep
  <2> QED BY <2>1, <2>3, <2>4 DEF IndInv
<1>7. CASE TurnedAway(r, o, a, t)
  <2>1. adm' \in {adm, m, c, Touch(m, a)} /\ req' = req /\ told' = told
    BY <1>7 DEF TurnedAway
  <2> HIDE DEF m, c
  <2>2. adm' \in Admissions /\ \A p \in Ops : Kept(adm.entry[p], adm'.entry[p])
    BY <1>1, <1>2, <1>3, <2>1 DEF Kept
  <2> QED BY <1>1, <1>6, <2>1, <2>2 DEF Typed
<1>8. CASE Retried(r, o, a, t)
  <2>1. adm' = c /\ Replays(c, o, a, t)
    BY <1>8 DEF Retried
  <2>2. CASE Open(c, o)
    <3>1. req' = [req EXCEPT ![r] = Waiting(o)] /\ told' = told
      BY <1>8, <2>2 DEF Retried
    <3> HIDE DEF m, c
    <3>2. Waiting(o) \in RequestStates /\ Waiting(o).pc = "waiting" /\ "waiting" \notin Owning
      BY OwnerShape DEF Owning
    <3>3. Typed'
      BY <1>1, <1>3, <1>5, <2>1, <3>1, <3>2 DEF Typed
    <3>4. \A q \in Requests : req'[q].pc \in Owning => req'[q] = req[q]
      BY <1>1, <3>1, <3>2 DEF Typed
    <3>5. \A p \in Ops : (Kind(p)' \in Results => Kind(p)' = Kind(p)) /\ (Open(adm, p) => Open(adm', p))
      BY <1>2, <1>3, <2>1 DEF Kept, Kind, Open, NoEntry, Results
    <3>6. OwnersOpen'
      <4>1. \A q \in Requests : req[q].pc \in Owning => req[q].op \in Ops /\ Open(adm, req[q].op)
        BY <1>1, OwnerShape, OwnerFields DEF OwnersOpen, Typed
      <4> QED BY <1>1, <3>4, <3>5, <4>1, SameOwners
    <3>7. CarriedTrue' /\ \A p \in Ops : OperationTrue(p)'
      <4>1. \A q \in Requests : Carried(q)' => req'[q] = req[q]
        BY <3>4 DEF Carried, Owning
      <4> QED BY <1>5, <3>1, <3>5, <4>1, QuietStep
    <3> QED BY <3>3, <3>6, <3>7 DEF IndInv
  <2>3. CASE ~Open(c, o)
    <3>1. req' = req /\ told' = [told EXCEPT ![o] = @ \cup ({c.entry[o].status} \cap Results)]
      BY <1>8, <2>3 DEF Retried, Told
    <3>2. c.entry[o].status \in Results => c.entry[o].status = Kind(o)
      BY <1>2, <1>3 DEF Kept, Kind, NoEntry, Results
    <3> HIDE DEF m, c
    <3>3. told' \in [Ops -> SUBSET Results]
      BY <1>1, <3>1 DEF Typed
    <3>4. \A p \in Ops : told'[p] = told[p] \/ (Kind(p) \in Results /\ told'[p] = told[p] \cup {Kind(p)})
      <4>1. \A p \in Ops \ {o} : told'[p] = told[p]
        BY <1>1, <3>1 DEF Typed
      <4>2. told'[o] = told[o] \cup ({c.entry[o].status} \cap Results)
        BY <1>1, <3>1 DEF Typed
      <4> QED BY <4>1, <4>2, <3>2
    <3> QED BY <1>2, <1>3, <1>6, <2>1, <3>1, <3>3, <3>4
  <2> QED BY <2>2, <2>3
<1>9. CASE Claimed(r, o, a, t)
  <2>1. told' = told /\ Admits(c, o, a)
    BY <1>9 DEF Claimed
  <2>2. c.entry[o].status = "absent"
    BY <2>1 DEF Admits, Tracked
  <2>3. CASE locked
    <3>1. adm' = Abandon(owned, o) /\ req' = req
      BY <1>9, <2>3 DEF Claimed
    <3>2. /\ Abandon(owned, o) \in Admissions /\ Abandon(owned, o).entry[o] = NoEntry
          /\ \A p \in Ops \ {o} : Abandon(owned, o).entry[p] = owned.entry[p]
      BY <1>4, AbandonForgets DEF Open
    <3> HIDE DEF m, c, owned
    <3>3. Kept(adm.entry[o], NoEntry)
      BY <1>2, <1>3, <2>2 DEF Kept, NoEntry
    <3>4. \A p \in Ops : Kept(adm.entry[p], adm'.entry[p])
      BY <1>2, <1>3, <1>4, <3>1, <3>2, <3>3
    <3> QED BY <1>1, <1>6, <2>1, <3>1, <3>2, <3>4 DEF Typed
  <2>4. CASE ~locked
    <3> DEFINE x == Owner(o, a)
    <3>1. adm' = owned /\ req' = [req EXCEPT ![r] = x]
      BY <1>9, <2>4 DEF Claimed
    <3>2. x \in OwnerStates /\ x.pc = "resolving" /\ x.op = o
      BY <1>1 DEF Owner, OwnerStates, Typed, Owning, Results
    <3> HIDE DEF m, c, owned, x
    <3>3. Typed'
      BY <1>1, <1>4, <1>5, <2>1, <3>1, <3>2, OwnerShape DEF Typed
    <3>4. req'[r] = x /\ \A q \in Requests \ {r} : req'[q] = req[q]
      BY <1>1, <3>1 DEF Typed
    <3>5. \A p \in Ops : Kind(p)' \in Results => Kind(p)' = Kind(p)
      BY <1>2, <1>3, <1>4, <3>1 DEF Kept, Kind, NoEntry, Results
    <3>6. ~Open(adm, o) /\ \A p \in Ops : Open(adm, p) => Open(adm', p)
      BY <1>2, <1>3, <1>4, <2>2, <3>1 DEF Kept, Open, NoEntry
    <3>7. OwnersOpen'
      <4>1. \A q \in Requests : req[q].pc \in Owning => req[q].op \in Ops /\ Open(adm, req[q].op)
        BY <1>1, OwnerShape, OwnerFields DEF OwnersOpen, Typed
      <4>2. \A q \in Requests \ {r} : req'[q].pc \in Owning => req'[q].op # o /\ Open(adm', req'[q].op)
        BY <3>4, <3>6, <4>1
      <4>3. Open(adm', o)
        BY <1>4, <3>1 DEF Open
      <4>4. \A p, q \in Requests \ {r} :
              req'[q].pc \in Owning /\ req'[p].pc \in Owning /\ req'[q].op = req'[p].op => q = p
        BY <1>1, <3>4 DEF OwnersOpen
      <4> QED BY <3>2, <3>4, <4>2, <4>3, <4>4 DEF OwnersOpen
    <3>8. CarriedTrue' /\ \A p \in Ops : OperationTrue(p)'
      <4>1. \A q \in Requests : Carried(q)' => req'[q] = req[q]
        BY <3>2, <3>4 DEF Carried
      <4> QED BY <1>5, <2>1, <3>5, <4>1, QuietStep
    <3> QED BY <3>3, <3>7, <3>8 DEF IndInv
  <2> QED BY <2>3, <2>4
<1> QED BY <1>7, <1>8, <1>9

(* A step of one owner disturbs nothing but its own operation: what remains to
   be shown of it is about that operation. *)
LEMMA OwnerStep ==
  ASSUME IndInv, NEW r \in Requests, NEW o \in Ops, req[r].pc \in Owning, req[r].op = o,
         Typed', dropped' = dropped,
         \A q \in Requests \ {r} : req'[q].pc \in Owning => req'[q] = req[q],
         req'[r].pc \in Owning => req'[r].op = req[r].op /\ Open(adm', o),
         \A p \in Ops \ {o} :
           /\ trail'[p] = trail[p] /\ sent'[p] = sent[p] /\ told'[p] = told[p]
           /\ p \in effect' <=> p \in effect
           /\ adm'.entry[p].status = adm.entry[p].status,
         OperationTrue(o)',
         Carried(r)' => KnowsOutcome(r)'
  PROVE  IndInv'
<1>1. Typed /\ OwnersOpen /\ CarriedTrue /\ \A p \in Ops : OperationTrue(p)
  BY DEF IndInv
<1>2. \A q \in Requests : req[q].pc \in Owning => req[q].op \in Ops /\ Open(adm, req[q].op)
  BY <1>1, OwnerShape, OwnerFields DEF OwnersOpen, Typed
<1>3. \A q \in Requests \ {r} : req'[q].pc \in Owning => req[q].op \in Ops \ {o}
  BY <1>1, <1>2 DEF OwnersOpen
<1>4. OwnersOpen'
  <2>1. \A q \in Requests \ {r} : req'[q].pc \in Owning => Open(adm', req[q].op)
    BY <1>2, <1>3 DEF Open
  <2> QED BY <1>1, <2>1, SameOwners
<1>5. ASSUME NEW q \in Requests, Carried(q)' PROVE KnowsOutcome(q)'
  <2>1. CASE q # r
    <3>1. req'[q] = req[q] /\ req[q].op \in Ops \ {o}
      BY <1>3, <1>5, <2>1 DEF Carried, Owning
    <3>2. KnowsOutcome(q)
      BY <1>1, <1>5, <3>1 DEF CarriedTrue, Carried
    <3> QED BY <3>1, <3>2 DEF KnowsOutcome
  <2> QED BY <1>5, <2>1
<1>6. ASSUME NEW p \in Ops PROVE OperationTrue(p)'
  <2>1. CASE p # o
    BY <1>1, <2>1 DEF OperationTrue, Unused, Kind
  <2> QED BY <2>1
<1> QED BY <1>4, <1>5, <1>6 DEF IndInv, CarriedTrue

(* What the invariant says of one owner. *)
LEMMA OwnerFacts ==
  ASSUME IndInv, NEW r \in Requests, req[r].pc \in Owning
  PROVE  /\ adm \in Admissions /\ req[r] \in OwnerStates /\ req[r].op \in Ops
         /\ Open(adm, req[r].op) /\ OperationTrue(req[r].op)
         /\ Carried(r) => KnowsOutcome(r)
         /\ Typed
  BY OwnerShape, OwnerFields DEF IndInv, Typed, OwnersOpen, CarriedTrue

(* An owner may end with an error, or with its operation forgotten, without a
   word about the outcome. *)
LEMMA AnsweredQuietly ==
  ASSUME IndInv, NEW r \in Requests, NEW o \in Ops, req[r].pc \in Owning, req[r].op = o,
         req' = Answered(r),
         adm' \in Admissions, adm'.entry[o].status \notin Results,
         \A p \in Ops \ {o} : adm'.entry[p].status = adm.entry[p].status,
         UNCHANGED <<trail, sent, effect, dropped, told, gen>>
  PROVE  IndInv'
<1>1. Typed /\ OperationTrue(o)
  BY OwnerFacts
<1>2. req' \in [Requests -> RequestStates] /\ \A q \in Requests : req'[q].pc \in Owning => q # r /\ req'[q] = req[q]
  BY <1>1, AnsweredOwners
<1>3. Typed'
  BY <1>1, <1>2 DEF Typed
<1>4. OperationTrue(o)'
  BY <1>1 DEF OperationTrue, Kind, Unused, Results
<1>5. ~Carried(r)'
  BY <1>2 DEF Carried, Owning
<1> QED BY <1>2, <1>3, <1>4, <1>5, OwnerStep

(* bindTarget followed by abandon, or by a settlement. *)
LEMMA BoundAdmission ==
  ASSUME NEW m \in Admissions, NEW o \in Ops, Open(m, o)
  PROVE  /\ \A result \in Settled :
              LET n == Retain(BindTarget(m, o), o, result) IN
              /\ n \in Admissions /\ n.entry[o].status = result
              /\ \A p \in Ops \ {o} : n.entry[p].status = m.entry[p].status
         /\ LET n == Abandon(BindTarget(m, o), o) IN
              /\ n \in Admissions /\ n.entry[o].status = "absent"
              /\ \A p \in Ops \ {o} : n.entry[p].status = m.entry[p].status
<1>1. /\ BindTarget(m, o) \in Admissions
      /\ \A p \in Ops : BindTarget(m, o).entry[p].status = m.entry[p].status
  BY BindKeeps
<1>2. Open(BindTarget(m, o), o)
  BY <1>1 DEF Open
<1>3. NoEntry.status = "absent"
  BY DEF NoEntry
<1> QED BY <1>1, <1>2, <1>3, RetainSettles, AbandonForgets

(* The ends of an owner that write no trail preserve the invariant. *)
LEMMA NothingSent ==
  ASSUME IndInv, NEW r \in Requests,
         NotStarted(r) \/ Conflicts(r) \/ AuditRefused(r) \/ SettlesUnrecorded(r)
  PROVE  IndInv'
<1>1. req[r].pc \in Owning /\ req' = Answered(r) /\ UNCHANGED <<trail, sent, effect, dropped, told, gen>>
  BY DEF NotStarted, Conflicts, AuditRefused, SettlesUnrecorded, Bound, Resolving, Owning, durable
<1>2. PICK o \in Ops : req[r].op = o
  BY <1>1, OwnerFacts
<1>3. adm \in Admissions /\ Open(adm, o)
  BY <1>1, <1>2, OwnerFacts
<1>4. "absent" \notin Results /\ "error" \notin Results /\ "error" \in Settled /\ NoEntry.status = "absent"
  BY DEF Results, Settled, NoEntry
<1>5. adm' \in {Abandon(adm, o), Retain(BindTarget(adm, o), o, "error"),
                Abandon(BindTarget(adm, o), o), Retain(adm, o, "error")}
  BY <1>2 DEF NotStarted, Conflicts, AuditRefused, SettlesUnrecorded
<1>6. /\ adm' \in Admissions /\ adm'.entry[o].status \notin Results
      /\ \A p \in Ops \ {o} : adm'.entry[p].status = adm.entry[p].status
  BY <1>3, <1>4, <1>5, BoundAdmission, RetainSettles, AbandonForgets
<1> QED BY <1>1, <1>2, <1>6, AnsweredQuietly

(* So does a refused accepted record that may be there all the same. *)
LEMMA UnprovenKeeps ==
  ASSUME IndInv, NEW r \in Requests, AuditUnproven(r)
  PROVE  IndInv'
<1>1. req[r].pc \in Owning /\ req' = Answered(r) /\ UNCHANGED <<sent, effect, dropped, told, gen>>
  BY DEF AuditUnproven, Bound, Resolving, Owning
<1>2. PICK o \in Ops : req[r].op = o
  BY <1>1, OwnerFacts
<1>3. adm \in Admissions /\ Open(adm, o) /\ OperationTrue(o) /\ Typed
  BY <1>1, <1>2, OwnerFacts
<1>4. /\ trail[o] = "absent" /\ trail' \in {trail, [trail EXCEPT ![o] = "pending"]}
      /\ adm' = Retain(BindTarget(adm, o), o, "error")
  BY <1>2 DEF AuditUnproven
<1>5. /\ adm' \in Admissions /\ adm'.entry[o].status = "error"
      /\ \A p \in Ops \ {o} : adm'.entry[p].status = adm.entry[p].status
  BY <1>3, <1>4, BoundAdmission DEF Settled
<1>6. /\ req' \in [Requests -> RequestStates]
      /\ \A q \in Requests : req'[q].pc \in Owning => q # r /\ req'[q] = req[q]
  BY <1>1, <1>3, AnsweredOwners
<1>7. trail' \in [Ops -> Trails] /\ \A p \in Ops \ {o} : trail'[p] = trail[p]
  BY <1>3, <1>4 DEF Typed, Trails
<1>8. Typed'
  BY <1>1, <1>3, <1>5, <1>6, <1>7 DEF Typed
<1>9. OperationTrue(o)'
  <2>1. trail'[o] \in {"absent", "pending"}
    BY <1>3, <1>4 DEF Typed
  <2> QED BY <1>1, <1>3, <1>4, <1>5, <2>1 DEF OperationTrue, Kind, Unused, Results
<1>10. ~Carried(r)'
  BY <1>6 DEF Carried, Owning
<1> QED BY <1>1, <1>2, <1>5, <1>6, <1>7, <1>8, <1>9, <1>10, OwnerStep

(* The accepted record is the first of its operation unless retention dropped
   an earlier one, so the dispatch after it is the first too. *)
LEMMA AcceptedKeeps ==
  ASSUME IndInv, NEW r \in Requests, AcceptedThenStopped(r) \/ AcceptedThenSent(r)
  PROVE  IndInv'
<1>1. Accepted(r) /\ req[r].pc = "resolving" /\ req[r].pc \in Owning
  BY DEF AcceptedThenStopped, AcceptedThenSent, Accepted, Bound, Resolving, Owning
<1>2. PICK o \in Ops : req[r].op = o
  BY <1>1, OwnerFacts
<1>3. adm \in Admissions /\ Open(adm, o) /\ OperationTrue(o) /\ Typed /\ req[r] \in OwnerStates
  BY <1>1, <1>2, OwnerFacts
<1>x. PICK x \in OwnerStates : req[r] = x
  BY <1>3
<1>4. /\ trail[o] = "absent" /\ trail' = [trail EXCEPT ![o] = "pending"]
      /\ adm' = BindTarget(adm, o) /\ UNCHANGED <<effect, dropped, told, gen>>
  BY <1>1, <1>2 DEF Accepted
<1>5. adm' \in Admissions /\ \A p \in Ops : adm'.entry[p].status = adm.entry[p].status
  BY <1>3, <1>4, BindKeeps
<1>6. /\ trail' \in [Ops -> Trails] /\ trail'[o] = "pending"
      /\ \A p \in Ops \ {o} : trail'[p] = trail[p]
  BY <1>3, <1>4 DEF Typed, Trails
<1>7. Unused(o) \/ o \in dropped
  BY <1>3, <1>4 DEF OperationTrue
<1>8. Open(adm', o)
  BY <1>3, <1>5 DEF Open
<1>9. adm'.entry[o].status \notin Results
  BY <1>8 DEF Open, Results
<1>10. CASE AcceptedThenStopped(r)
  <2>1. PICK c \in {"failed", "incomplete"}, b \in BOOLEAN :
          req' = [req EXCEPT ![r].pc = "settling", ![r].outcome = c, ![r].broken = b]
    <3>1. PICK stop \in {[outcome |-> "failed", broken |-> FALSE], [outcome |-> "incomplete", broken |-> TRUE]} :
            req' = [req EXCEPT ![r].pc = "settling", ![r].outcome = stop.outcome, ![r].broken = stop.broken]
      BY <1>10 DEF AcceptedThenStopped
    <3>2. stop.outcome \in {"failed", "incomplete"} /\ stop.broken \in BOOLEAN
      <4>1. /\ [outcome |-> "failed", broken |-> FALSE].outcome = "failed"
            /\ [outcome |-> "failed", broken |-> FALSE].broken = FALSE
            /\ [outcome |-> "incomplete", broken |-> TRUE].outcome = "incomplete"
            /\ [outcome |-> "incomplete", broken |-> TRUE].broken = TRUE
        OBVIOUS
      <4>2. stop = [outcome |-> "failed", broken |-> FALSE] \/ stop = [outcome |-> "incomplete", broken |-> TRUE]
        OBVIOUS
      <4> QED BY <4>1, <4>2, Zenon
    <3> QED BY <3>1, <3>2
  <2> DEFINE y == [x EXCEPT !.pc = "settling", !.outcome = c, !.broken = b]
  <2>2. y \in OwnerStates /\ y.pc = "settling" /\ y.op = o /\ y.outcome = c
    BY <1>2, <1>x DEF OwnerStates, Owning, Results
  <2>3. req' = [req EXCEPT ![r] = y]
    BY <1>3, <1>x, <2>1 DEF Typed
  <2> HIDE DEF y
  <2>4. req' \in [Requests -> RequestStates] /\ req'[r] = y /\ \A q \in Requests \ {r} : req'[q] = req[q]
    BY <1>3, <2>2, <2>3, OwnerShape DEF Typed
  <2>5. sent' = sent
    BY <1>10 DEF AcceptedThenStopped
  <2>6. Typed'
    BY <1>3, <1>4, <1>5, <1>6, <2>4, <2>5 DEF Typed
  <2>7. OperationTrue(o)'
    BY <1>3, <1>4, <1>6, <1>7, <1>9, <2>5 DEF OperationTrue, Kind, Unused, Results
  <2>8. KnowsOutcome(r)'
    BY <1>4, <1>6, <1>7, <2>2, <2>4 DEF KnowsOutcome, Unused
  <2> QED BY <1>1, <1>2, <1>4, <1>5, <1>6, <1>8, <2>2, <2>4, <2>5, <2>6, <2>7, <2>8, OwnerStep
<1>11. CASE AcceptedThenSent(r)
  <2> DEFINE y == [x EXCEPT !.pc = "dispatching"]
  <2>2. y \in OwnerStates /\ y.pc = "dispatching" /\ y.op = o
    BY <1>2, <1>x DEF OwnerStates, Owning, Results
  <2>3. req' = [req EXCEPT ![r] = y]
    BY <1>3, <1>x, <1>11 DEF AcceptedThenSent, Typed
  <2> HIDE DEF y
  <2>4. req' \in [Requests -> RequestStates] /\ req'[r] = y /\ \A q \in Requests \ {r} : req'[q] = req[q]
    BY <1>3, <2>2, <2>3, OwnerShape DEF Typed
  <2>5. /\ sent' \in [Ops -> Nat] /\ sent'[o] = sent[o] + 1
        /\ \A p \in Ops \ {o} : sent'[p] = sent[p]
    BY <1>2, <1>3, <1>11 DEF AcceptedThenSent, Typed
  <2>6. Typed'
    BY <1>3, <1>4, <1>5, <1>6, <2>4, <2>5 DEF Typed
  <2>7. OperationTrue(o)'
    <3>1. sent'[o] <= 1 \/ o \in dropped
      BY <1>7, <2>5 DEF Unused
    <3> QED BY <1>3, <1>4, <1>6, <1>7, <1>9, <3>1 DEF OperationTrue, Kind, Unused, Results
  <2>8. KnowsOutcome(r)'
    BY <1>4, <1>6, <1>7, <2>2, <2>4 DEF KnowsOutcome, Unused
  <2> QED BY <1>1, <1>2, <1>4, <1>5, <1>6, <1>8, <2>2, <2>4, <2>5, <2>6, <2>7, <2>8, OwnerStep
<1> QED BY <1>10, <1>11

(* The answer of a service is consistent with what happened. *)
LEMMA DispatchedKeeps ==
  ASSUME IndInv, NEW r \in Requests, Dispatched(r)
  PROVE  IndInv'
<1>1. req[r].pc = "dispatching" /\ req[r].pc \in Owning
  BY DEF Dispatched, Owning
<1>2. PICK o \in Ops : req[r].op = o
  BY <1>1, OwnerFacts
<1>3. Open(adm, o) /\ OperationTrue(o) /\ Typed /\ req[r] \in OwnerStates /\ KnowsOutcome(r)
  BY <1>1, <1>2, OwnerFacts DEF Carried
<1>x. PICK x \in OwnerStates : req[r] = x
  BY <1>3
<1>4. UNCHANGED <<adm, gen, trail, sent, dropped, told>>
  BY DEF Dispatched, durable
<1>0. PICK happened \in BOOLEAN : \E answer \in Answers(happened) :
        /\ effect' = IF happened THEN effect \cup {req[r].op} ELSE effect
        /\ req' = [req EXCEPT
             ![r].pc = IF answer = "succeeded" THEN "preparing" ELSE "settling",
             ![r].outcome = Outcome(answer),
             ![r].broken = (answer = "thrown")]
  BY DEF Dispatched
<1>5. PICK answer \in Answers(happened) :
        /\ effect' = IF happened THEN effect \cup {req[r].op} ELSE effect
        /\ req' = [req EXCEPT
             ![r].pc = IF answer = "succeeded" THEN "preparing" ELSE "settling",
             ![r].outcome = Outcome(answer),
             ![r].broken = (answer = "thrown")]
  BY <1>0
<1> DEFINE p == IF answer = "succeeded" THEN "preparing" ELSE "settling"
           c == Outcome(answer)
           b == (answer = "thrown")
           y == [x EXCEPT !.pc = p, !.outcome = c, !.broken = b]
<1>6. answer \in {"succeeded", "failed", "incomplete", "thrown"} /\ (answer = "succeeded" => happened)
      /\ (answer = "failed" => ~happened)
  BY DEF Answers
<1>7. /\ p \in Owning /\ p \in {"preparing", "settling"} /\ c \in Results /\ b \in BOOLEAN
      /\ (c = "succeeded" => happened) /\ (c = "failed" => ~happened)
  BY <1>6 DEF Outcome, Owning, Results
<1>8. req' = [req EXCEPT ![r] = y]
  BY <1>3, <1>x, <1>5 DEF Typed
<1> HIDE DEF p, c, b
<1>9. y \in OwnerStates /\ y.pc = p /\ y.op = o /\ y.outcome = c
  BY <1>2, <1>x, <1>7 DEF OwnerStates
<1> HIDE DEF y
<1>10. req' \in [Requests -> RequestStates] /\ req'[r] = y /\ \A q \in Requests \ {r} : req'[q] = req[q]
  BY <1>3, <1>8, <1>9, OwnerShape DEF Typed
<1>11. effect' = IF happened THEN effect \cup {o} ELSE effect
  BY <1>2, <1>5
<1>12. Typed'
  BY <1>3, <1>4, <1>10, <1>11 DEF Typed
<1>13. trail[o] \in {"pending", "incomplete"} \/ o \in dropped
  BY <1>2, <1>3 DEF KnowsOutcome
<1>14. o \notin effect \/ o \in dropped
  BY <1>1, <1>2, <1>3 DEF KnowsOutcome
<1>15. KnowsOutcome(r)'
  BY <1>4, <1>7, <1>9, <1>10, <1>11, <1>13, <1>14 DEF KnowsOutcome
<1>16. OperationTrue(o)'
  BY <1>3, <1>4, <1>11, <1>13 DEF OperationTrue, Kind, Unused
<1> QED BY <1>1, <1>2, <1>3, <1>4, <1>9, <1>10, <1>11, <1>12, <1>15, <1>16, OwnerStep

(* Preparing the response changes no outcome. *)
LEMMA PreparedKeeps ==
  ASSUME IndInv, NEW r \in Requests, Prepared(r)
  PROVE  IndInv'
<1>1. req[r].pc = "preparing" /\ req[r].pc \in Owning
  BY DEF Prepared, Owning
<1>2. PICK o \in Ops : req[r].op = o
  BY <1>1, OwnerFacts
<1>3. Open(adm, o) /\ OperationTrue(o) /\ Typed /\ req[r] \in OwnerStates /\ KnowsOutcome(r)
  BY <1>1, <1>2, OwnerFacts DEF Carried
<1>x. PICK x \in OwnerStates : req[r] = x
  BY <1>3
<1>4. UNCHANGED <<adm, gen, trail, sent, effect, dropped, told>>
  BY DEF Prepared, durable, history
<1>5. PICK b \in BOOLEAN : req' = [req EXCEPT ![r].pc = "settling", ![r].broken = b]
  BY DEF Prepared
<1> DEFINE y == [x EXCEPT !.pc = "settling", !.broken = b]
<1>6. y \in OwnerStates /\ y.pc = "settling" /\ y.op = o /\ y.outcome = req[r].outcome
  BY <1>2, <1>x DEF OwnerStates, Owning, Results
<1>7. req' = [req EXCEPT ![r] = y]
  BY <1>3, <1>x, <1>5 DEF Typed
<1> HIDE DEF y
<1>8. req' \in [Requests -> RequestStates] /\ req'[r] = y /\ \A q \in Requests \ {r} : req'[q] = req[q]
  BY <1>3, <1>6, <1>7, OwnerShape DEF Typed
<1>9. Typed'
  BY <1>3, <1>4, <1>8 DEF Typed
<1>10. KnowsOutcome(r)'
  BY <1>1, <1>2, <1>3, <1>4, <1>6, <1>8 DEF KnowsOutcome
<1>11. OperationTrue(o)'
  BY <1>3, <1>4 DEF OperationTrue, Kind, Unused
<1> QED BY <1>1, <1>2, <1>3, <1>4, <1>6, <1>8, <1>9, <1>10, <1>11, OwnerStep

(* The terminal record and the settlement state the outcome of the dispatch. *)
LEMMA SettlesKeeps ==
  ASSUME IndInv, NEW r \in Requests, Settles(r)
  PROVE  IndInv'
<1> DEFINE c == req[r].outcome
           result == IF req[r].broken THEN "error" ELSE req[r].outcome
<1>1. req[r].pc = "settling" /\ req[r].pc \in Owning /\ req' = Answered(r)
  BY DEF Settles, Owning
<1>2. PICK o \in Ops : req[r].op = o
  BY <1>1, OwnerFacts
<1>3. /\ adm \in Admissions /\ Open(adm, o) /\ OperationTrue(o) /\ Typed
      /\ req[r] \in OwnerStates /\ KnowsOutcome(r)
  BY <1>1, <1>2, OwnerFacts DEF Carried
<1>4. UNCHANGED <<gen, sent, effect, dropped>>
  BY DEF Settles
<1>5. c \in Results /\ result \in Settled /\ (result \in Results => result = c)
  BY <1>3, OwnerFields DEF Settled, Results
<1>6. /\ trail[o] = "pending" /\ trail' = [trail EXCEPT ![o] = c]
      /\ adm' = Retain(adm, o, result)
      /\ told' = [told EXCEPT ![o] = @ \cup ({result} \cap Results)]
  BY <1>2 DEF Settles, Told
<1>7. /\ c = "succeeded" => o \in effect
      /\ c = "failed" => o \notin effect \/ o \in dropped
  BY <1>1, <1>2, <1>3 DEF KnowsOutcome
<1> HIDE DEF c, result
<1>8. /\ adm' \in Admissions /\ adm'.entry[o].status = result
      /\ \A p \in Ops \ {o} : adm'.entry[p] = adm.entry[p]
  BY <1>3, <1>5, <1>6, RetainSettles
<1>9. /\ req' \in [Requests -> RequestStates]
      /\ \A q \in Requests : req'[q].pc \in Owning => q # r /\ req'[q] = req[q]
  BY <1>1, <1>3, AnsweredOwners
<1>10. trail' \in [Ops -> Trails] /\ trail'[o] = c /\ \A p \in Ops \ {o} : trail'[p] = trail[p]
  BY <1>3, <1>5, <1>6 DEF Typed, Trails
<1>11. /\ told' \in [Ops -> SUBSET Results] /\ told'[o] = told[o] \cup ({result} \cap Results)
       /\ \A p \in Ops \ {o} : told'[p] = told[p]
  BY <1>3, <1>6 DEF Typed
<1>12. Typed'
  BY <1>3, <1>4, <1>8, <1>9, <1>10, <1>11 DEF Typed
<1>13. told[o] = {} \/ o \in dropped
  <2>1. told[o] \subseteq {"pending"} \/ o \in dropped
    BY <1>3, <1>6 DEF OperationTrue
  <2>2. told[o] \subseteq Results /\ "pending" \notin Results
    BY <1>3 DEF Typed, Results
  <2> QED BY <2>1, <2>2
<1>14. OperationTrue(o)'
  <2>1. (told[o] \subseteq {trail[o]} \/ o \in dropped)'
    BY <1>4, <1>5, <1>10, <1>11, <1>13
  <2>2. ("succeeded" \in told[o] => o \in effect)'
    BY <1>3, <1>4, <1>5, <1>7, <1>11 DEF OperationTrue
  <2>3. /\ (Kind(o) \in Results => trail[o] = Kind(o) \/ o \in dropped)'
        /\ (Kind(o) = "succeeded" => o \in effect)'
    BY <1>4, <1>5, <1>7, <1>8, <1>10 DEF Kind, Results
  <2>4. trail'[o] # "absent"
    BY <1>5, <1>10 DEF Results
  <2> QED BY <1>3, <1>4, <1>7, <1>10, <2>1, <2>2, <2>3, <2>4 DEF OperationTrue
<1>15. ~Carried(r)'
  BY <1>9 DEF Carried, Owning
<1> QED BY <1>1, <1>2, <1>4, <1>8, <1>9, <1>10, <1>11, <1>12, <1>14, <1>15, OwnerStep

(* A pass that closes pending trails as incomplete and deletes terminal ones
   preserves the invariant, also while their owners are still at work. *)
LEMMA PassKeeps ==
  ASSUME IndInv, NEW S \in SUBSET Ops, NEW D \in SUBSET Ops, S \subseteq Pending,
         D \subseteq {o \in Ops : trail[o] \in Results},
         trail' = [o \in Ops |-> IF o \in D THEN "absent" ELSE Closed(S)[o]],
         dropped' = dropped \cup D, gen' \in Nat,
         UNCHANGED <<adm, req, sent, effect, told>>
  PROVE  IndInv'
<1>1. Typed /\ OwnersOpen /\ CarriedTrue /\ \A o \in Ops : OperationTrue(o)
  BY DEF IndInv
<1>2. \A o \in Ops : trail'[o] = IF o \in D THEN "absent" ELSE IF o \in S THEN "incomplete" ELSE trail[o]
  BY DEF Closed, Orphaned
<1>3. \A o \in S : trail[o] = "pending"
  BY DEF Pending
<1>4. trail' \in [Ops -> Trails]
  BY <1>1, <1>2 DEF Typed, Trails, Results
<1>5. Typed' /\ OwnersOpen'
  BY <1>1, <1>4 DEF Typed, OwnersOpen, Open
<1>6. ASSUME NEW r \in Requests, Carried(r)' PROVE KnowsOutcome(r)'
  <2>1. req[r].pc \in Owning
    BY <1>6 DEF Carried, Owning
  <2>2. KnowsOutcome(r) /\ req[r].op \in Ops
    BY <1>1, <1>6, <2>1, OwnerShape, OwnerFields DEF CarriedTrue, Carried, Typed
  <2> QED BY <1>2, <2>2 DEF KnowsOutcome
<1>7. ASSUME NEW o \in Ops PROVE OperationTrue(o)'
  <2>1. OperationTrue(o) /\ told[o] \subseteq Results
    BY <1>1 DEF Typed
  <2>2. CASE o \in D
    BY <1>2, <2>1, <2>2 DEF OperationTrue, Kind, Unused
  <2>3. CASE o \notin D /\ o \in S
    <3>1. trail[o] = "pending" /\ trail'[o] = "incomplete"
      BY <1>2, <1>3, <2>3
    <3>2. told[o] = {} \/ o \in dropped
      BY <2>1, <3>1 DEF OperationTrue, Results
    <3> QED BY <2>1, <3>1, <3>2 DEF OperationTrue, Kind, Unused, Results
  <2>4. CASE o \notin D /\ o \notin S
    BY <1>2, <2>1, <2>4 DEF OperationTrue, Kind, Unused
  <2> QED BY <2>2, <2>3, <2>4
<1> QED BY <1>5, <1>6, <1>7 DEF IndInv, CarriedTrue

(* The three places that run such a pass. *)
LEMMA PassesKeep ==
  ASSUME IndInv, NEW S \in SUBSET Ops, NEW D \in SUBSET Ops,
         PreparesGap(S) \/ Barrier(S) \/ Maintains(S, D)
  PROVE  IndInv'
<1>1. gen \in Nat /\ trail \in [Ops -> Trails]
  BY DEF IndInv, Typed
<1>2. CASE PreparesGap(S) \/ Barrier(S)
  <2>1. /\ S \subseteq Pending /\ trail' = Closed(S) /\ dropped' = dropped \cup {} /\ gen' \in Nat
        /\ UNCHANGED <<adm, req, sent, effect, told>>
    BY <1>1, <1>2 DEF PreparesGap, Barrier, memory
  <2>2. trail' = [o \in Ops |-> IF o \in {} THEN "absent" ELSE Closed(S)[o]]
    BY <2>1 DEF Closed
  <2>3. {} \in SUBSET Ops /\ {} \subseteq {o \in Ops : trail[o] \in Results}
    OBVIOUS
  <2> HIDE DEF Closed
  <2> QED BY <2>1, <2>2, <2>3, PassKeeps
<1>3. CASE Maintains(S, D)
  <2>1. /\ S \subseteq Pending /\ D \subseteq {o \in Ops : trail[o] \in Results}
        /\ trail' = [o \in Ops |-> IF o \in D THEN "absent" ELSE Closed(S)[o]]
        /\ dropped' = dropped \cup D
        /\ UNCHANGED <<adm, req, sent, effect, told>>
    BY <1>3 DEF Maintains, memory
  <2>2. gen' \in Nat
    BY <1>1, <1>3 DEF Maintains
  <2> QED BY <2>1, <2>2, PassKeeps
<1> QED BY <1>2, <1>3

(* The end of the process, with any of the dispatched writes taking effect. *)
LEMMA EndsKeeps ==
  ASSUME IndInv, NEW S \in SUBSET Ops, Ends(S)
  PROVE  IndInv'
<1>1. Typed /\ CarriedTrue /\ \A o \in Ops : OperationTrue(o)
  BY DEF IndInv
<1>2. /\ effect' = effect \cup S /\ adm' = EmptyAdmission /\ req' = [r \in Requests |-> Idle] /\ gen' = 0
      /\ UNCHANGED <<trail, sent, dropped, told>>
  BY DEF Ends, durable
<1>3. NoEntry \in Entries /\ NoEntry.status = "absent" /\ NoBucket \in Rates
  BY DEF Entries, NoEntry, NoBucket, Rates
<1>4. EmptyAdmission \in Admissions /\ \A o \in Ops : EmptyAdmission.entry[o] = NoEntry
  BY <1>3 DEF EmptyAdmission, Admissions
<1>5. Typed'
  BY <1>1, <1>2, <1>4, OwnerShape DEF Typed
<1>6. OwnersOpen' /\ CarriedTrue'
  BY <1>2, OwnerShape DEF OwnersOpen, CarriedTrue, Carried, Owning
<1>7. \A o \in S : trail[o] \in {"pending", "incomplete"} \/ o \in dropped
  BY <1>1 DEF Ends, CarriedTrue, Carried, KnowsOutcome
<1>8. ASSUME NEW o \in Ops PROVE OperationTrue(o)'
  <2>1. OperationTrue(o) /\ Kind(o)' = "absent"
    BY <1>1, <1>2, <1>3, <1>4 DEF Kind
  <2> QED BY <1>2, <1>7, <2>1 DEF OperationTrue, Unused, Results
<1> QED BY <1>5, <1>6, <1>8 DEF IndInv

(* Drains and time. *)
LEMMA AdmissionKeeps ==
  ASSUME IndInv, Drains \/ TimePasses
  PROVE  IndInv'
<1>1. adm \in Admissions /\ Typed /\ OwnersOpen
  BY DEF IndInv, Typed
<1>2. /\ adm' \in {BeginDrain(adm), WindowEnds(adm), Expire(adm)}
      /\ UNCHANGED <<req, gen, trail, sent, effect, dropped, told>>
  BY DEF Drains, TimePasses, durable, history
<1>3. adm' \in Admissions /\ \A o \in Ops : adm'.entry[o].status = adm.entry[o].status
  BY <1>1, <1>2, TimeKeeps
<1>4. Typed'
  BY <1>1, <1>2, <1>3 DEF Typed
<1>5. OwnersOpen'
  <2>1. \A r \in Requests : req[r].pc \in Owning => req[r].op \in Ops /\ Open(adm, req[r].op)
    BY <1>1, OwnerShape, OwnerFields DEF Typed, OwnersOpen
  <2> QED BY <1>1, <1>2, <1>3, <2>1, SameOwners DEF Open
<1>6. CarriedTrue' /\ \A o \in Ops : OperationTrue(o)'
  BY <1>2, <1>3, QuietStep DEF Kind
<1> QED BY <1>4, <1>5, <1>6 DEF IndInv

(* Steps that change neither the writes nor their trails. *)
LEMMA HostKeeps ==
  ASSUME IndInv, gen' \in Nat, UNCHANGED <<adm, req, trail, sent, effect, dropped, told>>
  PROVE  IndInv'
<1>1. Typed' /\ OwnersOpen'
  BY DEF IndInv, Typed, OwnersOpen, Open
<1>2. CarriedTrue' /\ \A o \in Ops : OperationTrue(o)'
  BY QuietStep DEF Kind
<1> QED BY <1>1, <1>2 DEF IndInv

(* The end of a wait. *)
LEMMA WaitEndsKeeps ==
  ASSUME IndInv, NEW r \in Requests, WaitEnds(r)
  PROVE  IndInv'
<1>1. Typed /\ OwnersOpen /\ UNCHANGED <<adm, gen, trail, sent, effect, dropped, told>>
  BY DEF IndInv, WaitEnds, durable, history
<1>2. req' = [req EXCEPT ![r] = Idle]
  BY DEF WaitEnds
<1>3. Typed'
  BY <1>1, <1>2, OwnerShape DEF Typed
<1>4. \A q \in Requests : req'[q].pc \in Owning => req'[q] = req[q]
  BY <1>1, <1>2, OwnerShape DEF Typed
<1>5. OwnersOpen'
  BY <1>1, <1>4, SameOwners DEF OwnersOpen
<1>6. CarriedTrue' /\ \A o \in Ops : OperationTrue(o)'
  <2>1. \A q \in Requests : Carried(q)' => req'[q] = req[q]
    BY <1>4 DEF Carried, Owning
  <2> QED BY <1>1, <2>1, QuietStep DEF Kind
<1> QED BY <1>3, <1>5, <1>6 DEF IndInv

(* Every step preserves the invariant. *)
LEMMA NextInv == IndInv /\ [Next]_vars => IndInv'
<1> SUFFICES ASSUME IndInv, [Next]_vars PROVE IndInv'
  OBVIOUS
<1>0. gen \in Nat
  BY DEF IndInv, Typed
<1>1. CASE \E r \in Requests, o \in Ops, a \in Actors, t \in Targets :
        TurnedAway(r, o, a, t) \/ Retried(r, o, a, t) \/ Claimed(r, o, a, t)
  BY <1>1, FirstTurn
<1>2. ASSUME NEW r \in Requests, WaitEnds(r) \/ Resolves(r) \/ Dispatched(r) \/ Prepared(r) \/ Ended(r)
      PROVE  IndInv'
  BY <1>2, WaitEndsKeeps, NothingSent, UnprovenKeeps, AcceptedKeeps, DispatchedKeeps, PreparedKeeps, SettlesKeeps
     DEF Resolves, Ended
<1>3. ASSUME NEW S \in SUBSET Ops, PreparesGap(S) \/ Barrier(S) \/ Ends(S) PROVE IndInv'
  <2>1. {} \in SUBSET Ops
    OBVIOUS
  <2> QED BY <1>3, <2>1, PassesKeep, EndsKeeps
<1>4. CASE \E S, D \in SUBSET Ops : Maintains(S, D)
  BY <1>4, PassesKeep
<1>5. CASE Start \/ RuntimeReturns \/ RuntimeLost \/ LockChanges \/ \E a \in Actors : Revokes(a)
  <2>1. gen' \in Nat /\ UNCHANGED <<adm, req, trail, sent, effect, dropped, told>>
    BY <1>0, <1>5 DEF Start, RuntimeReturns, RuntimeLost, LockChanges, Revokes, memory, durable, history
  <2> QED BY <2>1, HostKeeps
<1>6. CASE Drains \/ TimePasses
  BY <1>6, AdmissionKeeps
<1>7. CASE UNCHANGED vars
  <2>1. gen' \in Nat /\ UNCHANGED <<adm, req, trail, sent, effect, dropped, told>>
    BY <1>0, <1>7 DEF vars
  <2> QED BY <2>1, HostKeeps
<1> QED BY <1>1, <1>2, <1>3, <1>4, <1>5, <1>6, <1>7 DEF Next

(* The invariant holds in every reachable state. *)
LEMMA IndInvAlways == Spec => []IndInv
  BY InitInv, NextInv, PTL DEF Spec

(* Whatever the budgets, the retries, the crashes and the passes: a client
   operation id reaches a dispatch at most once while retention keeps its
   trail (the gate's recordAccepted before its dispatch). *)
THEOREM OperationsDispatchedOnce == Spec => []AtMostOnce
<1>1. IndInv => AtMostOnce
  BY DEF IndInv, OperationTrue, AtMostOnce
<1> QED BY <1>1, IndInvAlways, PTL

(* A terminal record that states an outcome is right, whoever wrote it, and no
   mutation takes effect without an accepted record. *)
THEOREM AuditTellsTruth == Spec => [](TrailTrue /\ EffectAudited)
<1>1. IndInv => TrailTrue /\ EffectAudited
  BY DEF IndInv, Typed, OperationTrue, Unused, TrailTrue, EffectAudited
<1> QED BY <1>1, IndInvAlways, PTL

(* What clients are told of an operation is what happened to it, and all of them
   are told the same, whether they owned it, waited, or came back later. *)
THEOREM RepliesTellTruth == Spec => [](RepliesTrue /\ RepliesAgree)
<1>1. IndInv => RepliesTrue
  <2> SUFFICES ASSUME IndInv, NEW o \in Ops
               PROVE  /\ "succeeded" \in told[o] => o \in effect
                      /\ "failed" \in told[o] => o \notin effect \/ o \in dropped
    BY DEF RepliesTrue
  <2>1. OperationTrue(o)
    BY DEF IndInv
  <2> QED BY <2>1 DEF OperationTrue
<1>2. IndInv => RepliesAgree
  <2> SUFFICES ASSUME IndInv, NEW o \in Ops \ dropped, NEW x \in told[o], NEW y \in told[o] PROVE x = y
    BY DEF RepliesAgree
  <2>1. told[o] \subseteq {trail[o]}
    BY DEF IndInv, OperationTrue
  <2> QED BY <2>1
<1> QED BY <1>1, <1>2, IndInvAlways, PTL

(* The health proof of an owner is not from the future, and that of a shaken
   owner is too old, unless the host will not be ready again. *)
Steady ==
  /\ \A r \in Requests : req[r].pc \in Owning => req[r].proof <= gen
  /\ shaken \subseteq Requests
  /\ \A r \in shaken : req[r].pc \in Owning /\ (req[r].proof < gen \/ host = "stopping")

(* The step property, for one request. *)
StillAuthorised(r) == BeginsDispatch(r) => req[r].actor \notin revoked /\ host = "ready" /\ r \notin shaken

(* Nothing shakes an owner when host, generation and proofs stay. *)
LEMMA OwnersKeepProof ==
  ASSUME Steady, UNCHANGED <<gen, host>>, shaken' \subseteq shaken,
         \A q \in Requests : req'[q].pc \in Owning => req[q].pc \in Owning /\ req'[q].proof = req[q].proof,
         \A q \in shaken' : req'[q].pc \in Owning
  PROVE  Steady'
  BY DEF Steady

(* A move of one owner keeps its proof. *)
LEMMA MovesKeepSteady ==
  ASSUME Typed, Steady, NEW r \in Requests, NEW y \in OwnerStates, req[r].pc \in Owning,
         y.proof = req[r].proof, req' = [req EXCEPT ![r] = y], UNCHANGED <<gen, host, shaken>>
  PROVE  Steady' /\ req'[r] = y /\ \A q \in Requests \ {r} : req'[q] = req[q]
<1>1. req'[r] = y /\ (\A q \in Requests \ {r} : req'[q] = req[q]) /\ y.pc \in Owning
  BY OwnerFields DEF Typed
<1>2. \A q \in Requests : req'[q].pc \in Owning => req[q].pc \in Owning /\ req'[q].proof = req[q].proof
  BY <1>1
<1>3. \A q \in shaken' : req'[q].pc \in Owning
  BY <1>1 DEF Steady
<1> QED BY <1>1, <1>2, <1>3, OwnersKeepProof

(* Answering an owner sends nothing. *)
LEMMA AnswersKeepSteady ==
  ASSUME Typed, Steady, NEW r \in Requests, req[r].pc \in Owning, req' = Answered(r),
         shaken' = shaken \ {r}, UNCHANGED <<gen, host>>
  PROVE  Steady' /\ \A q \in Requests : StillAuthorised(q)
<1>1. \A q \in Requests : req'[q].pc \in Owning => q # r /\ req'[q] = req[q]
  BY AnsweredOwners
<1>2. \A q \in Requests \ {r} : req[q].pc \in Owning => req'[q] = req[q]
  BY OwnerShape, OwnerFacts DEF Answered, Waiting, Owning
<1>3. \A q \in shaken' : req'[q].pc \in Owning
  BY <1>2 DEF Steady
<1>4. Steady'
  BY <1>1, <1>3, OwnersKeepProof
<1>5. \A q \in Requests : StillAuthorised(q)
  BY <1>1 DEF StillAuthorised, BeginsDispatch, Owning
<1> QED BY <1>4, <1>5

(* Neither does the host, whose generation only grows while the process lives. *)
LEMMA QuietHost ==
  ASSUME Steady, UNCHANGED req, shaken' = shaken, gen' \in Nat, gen \in Nat, gen <= gen',
         Typed, host = "stopping" => host' = "stopping"
  PROVE  Steady' /\ \A q \in Requests : StillAuthorised(q)
<1>1. \A r \in Requests : req[r].pc \in Owning => req[r].proof \in Nat
  BY OwnerShape DEF OwnerStates, Typed
<1>2. Steady'
  BY <1>1 DEF Steady
<1> QED BY <1>2 DEF StillAuthorised, BeginsDispatch

(* When the host stops being ready its generation grows, or it never is again. *)
LEMMA Shakes ==
  ASSUME Steady, UNCHANGED req, shaken' = shaken \cup Owners, gen' \in Nat, gen \in Nat,
         gen < gen' \/ (gen' = gen /\ host' = "stopping"), host = "stopping" => host' = "stopping", Typed
  PROVE  Steady' /\ \A q \in Requests : StillAuthorised(q)
<1>1. \A r \in Requests : req[r].pc \in Owning => req[r].proof \in Nat
  BY OwnerShape DEF OwnerStates, Typed
<1>2. Steady'
  BY <1>1 DEF Steady, Owners
<1> QED BY <1>2 DEF StillAuthorised, BeginsDispatch

(* Every step keeps the proofs honest, and begins a dispatch only with one that
   is current. *)
LEMMA SteadyStep ==
  ASSUME IndInv, Steady, [Next]_vars
  PROVE  Steady' /\ \A q \in Requests : StillAuthorised(q)
<1>0. Typed /\ gen \in Nat /\ gen <= gen
  BY DEF IndInv, Typed
<1>1. ASSUME NEW r \in Requests, NEW o \in Ops, NEW a \in Actors, NEW t \in Targets,
             TurnedAway(r, o, a, t) \/ Retried(r, o, a, t) \/ Claimed(r, o, a, t)
      PROVE  Steady' /\ \A q \in Requests : StillAuthorised(q)
  <2>1. req[r] = Idle /\ UNCHANGED <<gen, host, shaken>>
    BY <1>1 DEF TurnedAway, Retried, Claimed, Arrives
  <2>2. CASE req' = req
    BY <1>0, <2>1, <2>2, QuietHost
  <2>3. CASE req' # req
    <3> DEFINE y == IF Retried(r, o, a, t) THEN Waiting(o) ELSE Owner(o, a)
    <3>1. req' = [req EXCEPT ![r] = y]
      BY <1>1, <2>3 DEF TurnedAway, Retried, Claimed
    <3>2. y.pc \in {"waiting", "resolving"} /\ (y.pc \in Owning => y.proof = gen)
      BY OwnerShape DEF Owner, Owning, Waiting
    <3> HIDE DEF y
    <3>3. req'[r] = y /\ \A q \in Requests \ {r} : req'[q] = req[q]
      BY <1>0, <3>1 DEF Typed
    <3>4. r \notin shaken
      BY <2>1, OwnerShape DEF Steady
    <3>5. Steady'
      BY <1>0, <2>1, <3>2, <3>3, <3>4 DEF Steady
    <3>6. \A q \in Requests : StillAuthorised(q)
      BY <3>2, <3>3 DEF StillAuthorised, BeginsDispatch
    <3> QED BY <3>5, <3>6
  <2> QED BY <2>2, <2>3
<1>2. ASSUME NEW r \in Requests, WaitEnds(r)
      PROVE  Steady' /\ \A q \in Requests : StillAuthorised(q)
  <2>1. req' = [req EXCEPT ![r] = Idle] /\ req[r].pc = "waiting" /\ UNCHANGED <<gen, host, shaken>>
    BY <1>2 DEF WaitEnds, history
  <2>2. req'[r] = Idle /\ \A q \in Requests \ {r} : req'[q] = req[q]
    BY <1>0, <2>1 DEF Typed
  <2>3. r \notin shaken /\ Idle.pc = "idle"
    BY <2>1, OwnerShape DEF Steady, Owning
  <2>4. Steady'
    BY <2>1, <2>2, <2>3, OwnerShape DEF Steady
  <2> QED BY <2>2, <2>3, <2>4 DEF StillAuthorised, BeginsDispatch
<1>3. ASSUME NEW r \in Requests,
             NotStarted(r) \/ Conflicts(r) \/ AuditRefused(r) \/ AuditUnproven(r) \/ Ended(r)
      PROVE  Steady' /\ \A q \in Requests : StillAuthorised(q)
  <2>1. req[r].pc \in Owning /\ req' = Answered(r) /\ shaken' = shaken \ {r} /\ UNCHANGED <<gen, host>>
    BY <1>3 DEF NotStarted, Conflicts, AuditRefused, AuditUnproven, Ended, Settles, SettlesUnrecorded,
                Bound, Resolving, Owning, Unshaken
  <2> QED BY <1>0, <2>1, AnswersKeepSteady
<1>4. ASSUME NEW r \in Requests,
             AcceptedThenStopped(r) \/ AcceptedThenSent(r) \/ Dispatched(r) \/ Prepared(r)
      PROVE  Steady' /\ \A q \in Requests : StillAuthorised(q)
  <2>1. /\ req[r].pc \in Owning /\ UNCHANGED <<gen, host, shaken>>
        /\ req[r].pc = "resolving" \/ Dispatched(r) \/ Prepared(r)
    BY <1>4 DEF AcceptedThenStopped, AcceptedThenSent, Accepted, Bound, Resolving, Dispatched, Prepared,
                Owning, history
  <2>2. PICK x \in OwnerStates : req[r] = x
    BY <1>0, <2>1, OwnerShape DEF Typed
  <2>3. CASE AcceptedThenSent(r)
    <3> DEFINE y == [x EXCEPT !.pc = "dispatching"]
    <3>1. y \in OwnerStates /\ y.proof = x.proof
      BY <2>2 DEF OwnerStates, Owning
    <3>2. req' = [req EXCEPT ![r] = y]
      BY <1>0, <2>2, <2>3 DEF AcceptedThenSent, Typed
    <3> HIDE DEF y
    <3>3. Steady' /\ \A q \in Requests \ {r} : req'[q] = req[q]
      BY <1>0, <2>1, <2>2, <3>1, <3>2, MovesKeepSteady
    <3>4. req[r].actor \notin revoked /\ host = "ready" /\ gen = req[r].proof
      BY <2>3 DEF AcceptedThenSent, Authorized, MutationReady
    <3>5. r \notin shaken
      BY <1>0, <3>4 DEF Steady
    <3> QED BY <3>3, <3>4, <3>5 DEF StillAuthorised, BeginsDispatch
  <2>4. ASSUME NEW y \in OwnerStates, y.proof = x.proof, y.pc # "dispatching", req' = [req EXCEPT ![r] = y]
        PROVE  Steady' /\ \A q \in Requests : StillAuthorised(q)
    <3>1. Steady' /\ req'[r] = y /\ \A q \in Requests \ {r} : req'[q] = req[q]
      BY <1>0, <2>1, <2>2, <2>4, MovesKeepSteady
    <3> QED BY <2>4, <3>1 DEF StillAuthorised, BeginsDispatch
  <2>5. CASE AcceptedThenStopped(r)
    <3>1. PICK stop \in {[outcome |-> "failed", broken |-> FALSE], [outcome |-> "incomplete", broken |-> TRUE]} :
            req' = [req EXCEPT ![r].pc = "settling", ![r].outcome = stop.outcome, ![r].broken = stop.broken]
      BY <2>5 DEF AcceptedThenStopped
    <3>2. stop.outcome \in Results /\ stop.broken \in BOOLEAN
      <4>1. /\ [outcome |-> "failed", broken |-> FALSE].outcome = "failed"
            /\ [outcome |-> "failed", broken |-> FALSE].broken = FALSE
            /\ [outcome |-> "incomplete", broken |-> TRUE].outcome = "incomplete"
            /\ [outcome |-> "incomplete", broken |-> TRUE].broken = TRUE
        OBVIOUS
      <4>2. stop = [outcome |-> "failed", broken |-> FALSE] \/ stop = [outcome |-> "incomplete", broken |-> TRUE]
        OBVIOUS
      <4>3. "failed" \in Results /\ "incomplete" \in Results
        BY DEF Results
      <4> QED BY <4>1, <4>2, <4>3, Zenon
    <3> DEFINE c == stop.outcome
               b == stop.broken
               y == [x EXCEPT !.pc = "settling", !.outcome = c, !.broken = b]
    <3>3. req' = [req EXCEPT ![r] = y]
      BY <1>0, <2>2, <3>1 DEF Typed
    <3> HIDE DEF c, b
    <3>4. y \in OwnerStates /\ y.proof = x.proof /\ y.pc = "settling"
      BY <2>2, <3>2 DEF OwnerStates, Owning, c, b
    <3> HIDE DEF y
    <3> QED BY <2>4, <3>3, <3>4
  <2>6. CASE Dispatched(r)
    <3>1. PICK answer \in {"succeeded", "failed", "incomplete", "thrown"} :
            req' = [req EXCEPT
               ![r].pc = IF answer = "succeeded" THEN "preparing" ELSE "settling",
               ![r].outcome = Outcome(answer),
               ![r].broken = (answer = "thrown")]
      BY <2>6 DEF Dispatched, Answers
    <3> DEFINE p == IF answer = "succeeded" THEN "preparing" ELSE "settling"
               c == Outcome(answer)
               b == (answer = "thrown")
               y == [x EXCEPT !.pc = p, !.outcome = c, !.broken = b]
    <3>2. p \in Owning /\ p # "dispatching" /\ c \in Results /\ b \in BOOLEAN
      BY DEF Outcome, Owning, Results
    <3>3. req' = [req EXCEPT ![r] = y]
      BY <1>0, <2>2, <3>1 DEF Typed
    <3> HIDE DEF p, c, b
    <3>4. y \in OwnerStates /\ y.proof = x.proof /\ y.pc # "dispatching"
      BY <2>2, <3>2 DEF OwnerStates
    <3> HIDE DEF y
    <3> QED BY <2>4, <3>3, <3>4
  <2>7. CASE Prepared(r)
    <3>1. PICK b \in BOOLEAN : req' = [req EXCEPT ![r].pc = "settling", ![r].broken = b]
      BY <2>7 DEF Prepared
    <3> DEFINE y == [x EXCEPT !.pc = "settling", !.broken = b]
    <3>2. y \in OwnerStates /\ y.proof = x.proof /\ y.pc = "settling"
      BY <2>2 DEF OwnerStates, Owning
    <3>3. req' = [req EXCEPT ![r] = y]
      BY <1>0, <2>2, <3>1 DEF Typed
    <3> HIDE DEF y
    <3> QED BY <2>4, <3>2, <3>3
  <2> QED BY <1>4, <2>3, <2>5, <2>6, <2>7
<1>5. ASSUME NEW S \in SUBSET Ops, Ends(S) PROVE Steady' /\ \A q \in Requests : StillAuthorised(q)
  <2>1. req' = [q \in Requests |-> Idle] /\ shaken' = {}
    BY <1>5 DEF Ends
  <2> QED BY <2>1, OwnerShape DEF Steady, StillAuthorised, BeginsDispatch
<1>6. ASSUME NEW S \in SUBSET Ops, NEW D \in SUBSET Ops, PreparesGap(S) \/ Maintains(S, D)
      PROVE  Steady' /\ \A q \in Requests : StillAuthorised(q)
  <2>1. UNCHANGED req /\ shaken' = shaken /\ gen' \in Nat /\ gen <= gen' /\ host # "stopping"
    BY <1>0, <1>6 DEF PreparesGap, Maintains, memory
  <2> QED BY <1>0, <2>1, QuietHost
<1>7. ASSUME NEW S \in SUBSET Ops, Barrier(S) PROVE Steady' /\ \A q \in Requests : StillAuthorised(q)
  <2>1. UNCHANGED <<req, gen>> /\ shaken' = shaken \cup Owners /\ host' = "stopping"
    BY <1>7 DEF Barrier, memory
  <2> QED BY <1>0, <2>1, Shakes
<1>8. CASE RuntimeLost
  <2>1. UNCHANGED req /\ shaken' = shaken \cup Owners /\ gen' = gen + 1 /\ host = "ready"
    BY <1>8 DEF RuntimeLost, memory
  <2>2. gen' \in Nat /\ gen < gen' /\ host # "stopping"
    BY <1>0, <2>1
  <2> QED BY <1>0, <2>1, <2>2, Shakes
<1>9. CASE Start \/ RuntimeReturns \/ Drains \/ LockChanges \/ TimePasses \/ UNCHANGED vars \/ \E a \in Actors : Revokes(a)
  <2>1. /\ UNCHANGED req /\ shaken' = shaken /\ gen' \in Nat /\ gen <= gen'
        /\ host = "stopping" => host' = "stopping"
    BY <1>0, <1>9 DEF Start, RuntimeReturns, Drains, LockChanges, TimePasses, Revokes, Listening, memory, history, vars
  <2> QED BY <1>0, <2>1, QuietHost
<1>10. CASE Next
  <2>1. {} \in SUBSET Ops
    OBVIOUS
  <2> QED BY <1>1, <1>2, <1>3, <1>4, <1>5, <1>6, <1>7, <1>8, <1>9, <1>10, <2>1 DEF Next, Resolves
<1> QED BY <1>9, <1>10

(* A dispatch begins only for an actor that is still paired, on a host that has
   been ready without interruption since the admission: that equal generations
   prove this is the argument of assertCurrentMutationReady. *)
THEOREM DispatchesStayAuthorised == Spec => DispatchStillAuthorised
<1>1. Init => Steady
  BY OwnerShape DEF Init, Steady, Idle, Owning
<1>2. IndInv /\ Steady /\ [Next]_vars => Steady'
  BY SteadyStep
<1>3. IndInv /\ Steady /\ [Next]_vars =>
        [\A r \in Requests : BeginsDispatch(r) => req[r].actor \notin revoked /\ host = "ready" /\ r \notin shaken]_vars
  BY SteadyStep DEF StillAuthorised
<1> QED BY <1>1, <1>2, <1>3, IndInvAlways, PTL DEF Spec, DispatchStillAuthorised

--------------------------------------------------------------------------------
(* From the pass that prepared the gap until the runtime is lost again.    *)
Reconnected == {"connected", "prepared", "ready"}

(* Once the gap is prepared, whatever is pending was accepted since: the   *)
(* invariant behind ReadyMeansClosed, which alone says nothing of the host *)
(* before it is ready.                                                     *)
GapPrepared == host \in Reconnected => Pending \subseteq current

(* A step that opens no trail and forgets no acceptance keeps it.          *)
LEMMA ClosingKeepsGap ==
  ASSUME GapPrepared, current' = current, host' \in Reconnected => host \in Reconnected,
         \A o \in Ops : trail'[o] = "pending" => trail[o] = "pending"
  PROVE  GapPrepared'
  BY DEF GapPrepared, Pending

(* A step that opens one trail notes its acceptance.                       *)
LEMMA AcceptanceKeepsGap ==
  ASSUME IndInv, GapPrepared, host' = host, NEW o \in Ops,
         trail' = [trail EXCEPT ![o] = "pending"], current' = current \cup {o}
  PROVE  GapPrepared'
<1>1. \A x \in Ops : trail'[x] = "pending" => x = o \/ trail[x] = "pending"
  BY DEF IndInv, Typed
<1> QED BY <1>1 DEF GapPrepared, Pending

(* A pass that closes every pending trail leaves none, and one that closes *)
(* some opens none.                                                        *)
LEMMA PassClosesTrails ==
  ASSUME NEW S \in SUBSET Ops
  PROVE  /\ \A o \in Ops : Closed(S)[o] = "pending" => trail[o] = "pending" /\ o \notin S
         /\ Complete(S) => \A o \in Ops : Closed(S)[o] # "pending"
  BY DEF Closed, Orphaned, Complete, Pending

(* Every step keeps it.                                                   *)
LEMMA GapStep ==
  ASSUME IndInv, GapPrepared, [Next]_vars
  PROVE  GapPrepared'
<1>1. ASSUME NEW r \in Requests, NEW o \in Ops, NEW a \in Actors, NEW t \in Targets,
             TurnedAway(r, o, a, t) \/ Retried(r, o, a, t) \/ Claimed(r, o, a, t)
      PROVE  GapPrepared'
  BY <1>1, ClosingKeepsGap DEF TurnedAway, Retried, Claimed, Arrives, durable
<1>2. ASSUME NEW r \in Requests,
             \/ WaitEnds(r) \/ NotStarted(r) \/ Conflicts(r) \/ AuditRefused(r)
             \/ Dispatched(r) \/ Prepared(r) \/ SettlesUnrecorded(r)
      PROVE  GapPrepared'
  BY <1>2, ClosingKeepsGap
     DEF WaitEnds, NotStarted, Conflicts, AuditRefused, Dispatched, Prepared,
         SettlesUnrecorded, durable, history
<1>3. ASSUME NEW r \in Requests, req[r].pc \in Owning PROVE req[r].op \in Ops
  BY <1>3, OwnerShape DEF IndInv, Typed, OwnerStates
<1>4. ASSUME NEW r \in Requests, AuditUnproven(r) PROVE GapPrepared'
  <2>1. req[r].op \in Ops /\ host' = host
    BY <1>3, <1>4 DEF AuditUnproven, Bound, Resolving, Owning
  <2>2. CASE trail' = trail
    BY <1>4, <2>1, <2>2, ClosingKeepsGap DEF AuditUnproven
  <2>3. CASE trail' # trail
    BY <1>4, <2>1, <2>3, AcceptanceKeepsGap DEF AuditUnproven
  <2> QED BY <2>2, <2>3
<1>5. ASSUME NEW r \in Requests, AcceptedThenStopped(r) \/ AcceptedThenSent(r)
      PROVE  GapPrepared'
  <2>1. Accepted(r)
    BY <1>5 DEF AcceptedThenStopped, AcceptedThenSent
  <2>2. req[r].op \in Ops
    BY <1>3, <2>1 DEF Accepted, Bound, Resolving, Owning
  <2> QED BY <2>1, <2>2, AcceptanceKeepsGap DEF Accepted
<1>6. ASSUME NEW r \in Requests, Settles(r) PROVE GapPrepared'
  <2>1. req[r].op \in Ops /\ req[r].outcome \in Results
    BY <1>6, OwnerShape DEF Settles, Owning, IndInv, Typed, OwnerStates
  <2>2. \A o \in Ops : trail'[o] = "pending" => trail[o] = "pending"
    BY <1>6, <2>1 DEF Settles, IndInv, Typed
  <2> QED BY <1>6, <2>2, ClosingKeepsGap DEF Settles
<1>7. ASSUME NEW S \in SUBSET Ops, PreparesGap(S) PROVE GapPrepared'
  <2>1. CASE Complete(S)
    BY <1>7, <2>1, PassClosesTrails DEF PreparesGap, GapPrepared, Pending
  <2>2. CASE ~Complete(S)
    BY <1>7, <2>2, PassClosesTrails, ClosingKeepsGap DEF PreparesGap
  <2> QED BY <2>1, <2>2
<1>8. ASSUME NEW S \in SUBSET Ops, Barrier(S) PROVE GapPrepared'
  BY <1>8 DEF Barrier, GapPrepared, Reconnected
<1>9. ASSUME NEW S \in SUBSET Ops, Ends(S) PROVE GapPrepared'
  BY <1>9 DEF Ends, GapPrepared, Reconnected
<1>10. ASSUME NEW S \in SUBSET Ops, NEW D \in SUBSET Ops, Maintains(S, D) PROVE GapPrepared'
  <2>1. \A o \in Ops : trail'[o] = "pending" => trail[o] = "pending"
    BY <1>10, PassClosesTrails DEF Maintains
  <2> QED BY <1>10, <2>1, ClosingKeepsGap DEF Maintains, Reconnected
<1>11. CASE \/ Start \/ RuntimeReturns \/ RuntimeLost \/ Drains \/ LockChanges \/ TimePasses
            \/ UNCHANGED vars \/ \E a \in Actors : Revokes(a)
  BY <1>11, ClosingKeepsGap
     DEF Start, RuntimeReturns, RuntimeLost, Drains, LockChanges, TimePasses, Revokes,
         durable, history, vars, Reconnected
<1> QED
  BY <1>1, <1>2, <1>4, <1>5, <1>6, <1>7, <1>8, <1>9, <1>10, <1>11 DEF Next, Resolves, Ended

(* However often the runtime is lost and the process ends, and whichever   *)
(* passes fail part of the way: the host is ready for mutations only once  *)
(* every trail of an earlier time is closed (prepareGap,                   *)
(* reconcileSelectedAuditOrphansBatch).                                    *)
THEOREM ReadyMeansClosedHolds == Spec => []ReadyMeansClosed
<1>1. Init => GapPrepared
  BY DEF Init, GapPrepared, Reconnected
<1>2. IndInv /\ GapPrepared /\ [Next]_vars => GapPrepared'
  BY GapStep
<1>3. GapPrepared => ReadyMeansClosed
  BY DEF GapPrepared, ReadyMeansClosed, Reconnected
<1> QED BY <1>1, <1>2, <1>3, IndInvAlways, PTL DEF Spec
================================================================================
