--------------------------- MODULE DevicePairing ---------------------------
(***************************************************************************)
(* Pairing codes, the devices made from them, and their credentials.       *)
(*                                                                         *)
(* A local administrator issues a code, a browser claims it and becomes a  *)
(* paired device, a device exchanges its cookie for a fresh CSRF token, and*)
(* an administrator revokes it.  Every mutation is one SQLite transaction  *)
(* between an accepted and a terminal audit record.  A claim's attempt is  *)
(* counted per browser and over all of them, in fixed windows.             *)
(*                                                                         *)
(* The wall clock may be set back, a write may fail, the ingress a request *)
(* came through may be withdrawn, and the process may stop.  A device's id *)
(* is the operation id of the claim that makes it.                         *)
(***************************************************************************)
EXTENDS Naturals, FiniteSets, Sequences

CONSTANTS
  Codes, Browsers,              \* a browser stands for its rate-limit source key
  Claims, Boots,                \* operation ids of pair claims and of CSRF bootstraps
  Window, CodeLife, StateTtl, DeviceLife,   \* the resource budget's times
  MaxPerSource, MaxGlobal,      \* attempts in one window
  MaxTracked,                   \* rows of pairing_claim_rate_sources
  InFlightPerSource, InFlight,  \* claims being executed
  MaxTime,                      \* the last tick of the clock (bound)
  MaxFaults                     \* failures, stops, clock steps and withdrawals (bound)

ASSUME PolicyAssumption ==
  /\ {Window, CodeLife, StateTtl, DeviceLife, MaxPerSource, MaxGlobal, MaxTracked,
      InFlightPerSource, InFlight} \subseteq Nat \ {0}
  /\ Window <= CodeLife /\ CodeLife <= StateTtl /\ CodeLife <= DeviceLife
  /\ MaxPerSource <= MaxGlobal /\ InFlightPerSource <= InFlight
  /\ MaxTime \in Nat /\ MaxFaults \in Nat

VARIABLES
  now,      \* the wall clock
  code,     \* pairing_codes, and whether its raw value was shown to anyone
  device,   \* auth_devices
  source, total,   \* pairing_claim_rate_sources and pairing_claim_rate_global
  trail,    \* the audit trail of an operation
  claim,    \* a claim's request
  boot,     \* a bootstrap's request
  cookie,   \* the devices whose cookie reached its browser
  tries,    \* history: the attempts that compared a guess, in order
  faults    \* faults still allowed

store == <<code, device, source, total>>
vars == <<now, store, trail, claim, boot, cookie, tries, faults>>

Operations == Codes \cup Claims \cup Boots
Wrong == "wrong"

(* An operation id is one operation's; a wrong guess is no code in store.  *)
ASSUME NamesAssumption ==
  /\ Codes \cap Claims = {} /\ Codes \cap Boots = {} /\ Claims \cap Boots = {}
  /\ Wrong \notin Codes
  /\ IsFiniteSet(Codes) /\ IsFiniteSet(Claims) /\ IsFiniteSet(Boots)

NoRow == [start |-> 0, count |-> 0, last |-> 0]
NoDevice == [state |-> "none", code |-> Wrong, created |-> 0, gen |-> 0, used |-> 0, rotated |-> 0]

(* A request that has ended keeps nothing. *)
Over == [at |-> "ended", code |-> Wrong, from |-> "none", fresh |-> TRUE]
Ended(q, how) == [q EXCEPT !.at = how, !.gen = 0, !.since = 0, !.fresh = TRUE, !.lease = FALSE]

CodeRows == [state : {"none", "open", "used"}, created : Nat, shown : BOOLEAN]
DeviceRows == [state : {"none", "active", "revoked"}, code : Codes \cup {Wrong},
               created : Nat, gen : Nat, used : Nat, rotated : Nat]
RateRows == [start : Nat, count : Nat, last : Nat]
Attempts == [by : Browsers, at : 0..MaxTime]
Outcomes == {"none", "accepted", "succeeded", "failed", "incomplete"}
ClaimRequests ==
  [at : {"idle", "arrived", "granted", "failed", "incomplete", "prepared", "ended"},
   code : Codes \cup {Wrong}, from : Browsers \cup {"none"}, fresh : BOOLEAN]
BootRequests ==
  [at : {"idle", "authed", "rotated", "failed", "incomplete", "prepared", "answered", "ended"},
   dev : Claims \cup {"none"}, gen : Nat, since : Nat, fresh : BOOLEAN, lease : BOOLEAN]

(* Type invariant. *)
TypeOK ==
  /\ now \in 0..MaxTime
  /\ code \in [Codes -> CodeRows]
  /\ device \in [Claims -> DeviceRows]
  /\ source \in [Browsers -> RateRows] /\ total \in RateRows
  /\ trail \in [Operations -> Outcomes]
  /\ claim \in [Claims -> ClaimRequests]
  /\ boot \in [Boots -> BootRequests]
  /\ cookie \subseteq Claims
  /\ tries \in Seq(Attempts)
  /\ faults \in 0..MaxFaults

Init ==
  /\ now = 0
  /\ code = [c \in Codes |-> [state |-> "none", created |-> 0, shown |-> FALSE]]
  /\ device = [d \in Claims |-> NoDevice]
  /\ source = [b \in Browsers |-> NoRow] /\ total = NoRow
  /\ trail = [o \in Operations |-> "none"]
  /\ claim = [r \in Claims |-> [at |-> "idle", code |-> Wrong, from |-> "none", fresh |-> TRUE]]
  /\ boot = [r \in Boots |-> [at |-> "idle", dev |-> "none", gen |-> 0, since |-> 0,
                              fresh |-> TRUE, lease |-> FALSE]]
  /\ cookie = {}
  /\ tries = <<>>
  /\ faults = MaxFaults

Fault == faults > 0 /\ faults' = faults - 1

----------------------------------------------------------------------------
(* Issuing a code.                                                         *)

(* When the terminal record cannot be written, the code is stored but its  *)
(* raw value is not shown.                                                 *)
Issue(c) ==
  /\ trail[c] = "none"
  /\ \/ /\ trail' = [trail EXCEPT ![c] = "succeeded"]
        /\ code' = [code EXCEPT ![c] = [state |-> "open", created |-> now, shown |-> TRUE]]
        /\ UNCHANGED faults
     \/ /\ Fault /\ trail' = [trail EXCEPT ![c] = "accepted"]
        /\ code' = [code EXCEPT ![c] = [state |-> "open", created |-> now, shown |-> FALSE]]
     \/ /\ Fault /\ trail' = [trail EXCEPT ![c] = "incomplete"]
        /\ UNCHANGED code
  /\ UNCHANGED <<now, device, source, total, claim, boot, cookie, tries>>

----------------------------------------------------------------------------
(* Claiming a code.                                                        *)

Arrive(r) ==
  /\ claim[r].at = "idle"
  /\ \E b \in Browsers, g \in {c \in Codes : code[c].shown} \cup {Wrong} :
       claim' = [claim EXCEPT ![r] = [at |-> "arrived", code |-> g, from |-> b, fresh |-> TRUE]]
  /\ UNCHANGED <<now, store, trail, boot, cookie, tries, faults>>

Executing == {r \in Claims : claim[r].at \in {"granted", "failed", "incomplete"}}

(* acquirePairClaim: too many claims are being executed. *)
NoSlot(b) ==
  \/ Cardinality({r \in Executing : claim[r].from = b}) >= InFlightPerSource
  \/ Cardinality(Executing) >= InFlight

Overloaded(r) ==
  /\ claim[r].at = "arrived" /\ NoSlot(claim[r].from)
  /\ claim' = [claim EXCEPT ![r] = Over]
  /\ UNCHANGED <<now, store, trail, boot, cookie, tries, faults>>

(* The accepted record is written and the transition begins. *)
Accepted(r) ==
  /\ claim[r].at = "arrived" /\ ~NoSlot(claim[r].from)
  /\ trail' = [trail EXCEPT ![r] = "accepted"]

Outcome(r, how) ==
  /\ claim' = [claim EXCEPT ![r].at = how]
  /\ UNCHANGED <<now, boot, cookie>>

(* pruneExpiredSources *)
Kept ==
  [b \in Browsers |-> IF source[b].last + StateTtl <= now THEN NoRow ELSE source[b]]

Regresses(b) == \E row \in {Kept[b], total} : row.count > 0 /\ now < row.last

SourcesFull(b) ==
  Kept[b].count = 0 /\ Cardinality({s \in Browsers : Kept[s].count > 0}) >= MaxTracked

CurrentWindow(row) ==
  IF row.count = 0 \/ row.start + Window <= now THEN [NoRow EXCEPT !.start = now] ELSE row

Limited(b) ==
  \/ CurrentWindow(Kept[b]).count >= MaxPerSource
  \/ CurrentWindow(total).count >= MaxGlobal

Counted(row) == [CurrentWindow(row) EXCEPT !.count = @ + 1, !.last = now]

(* Mutant: a refused attempt throws, and its count is rolled back. *)
CountAttemptRolledBack(b) ==
  /\ source' = Kept /\ total' = total
  /\ tries' = Append(tries, [by |-> b, at |-> now])

CountAttempt(b) ==
  /\ source' = [Kept EXCEPT ![b] = Counted(@)]
  /\ total' = Counted(total)
  /\ tries' = Append(tries, [by |-> b, at |-> now])

(* The transaction throws and leaves nothing, or is never begun because    *)
(* the ingress was withdrawn.                                              *)
ClaimStale(r) ==
  /\ Accepted(r) /\ ~claim[r].fresh
  /\ Outcome(r, "incomplete")
  /\ UNCHANGED <<store, tries, faults>>

ClaimFails(r) ==
  /\ Accepted(r) /\ claim[r].fresh /\ Fault
  /\ Outcome(r, "incomplete")
  /\ UNCHANGED <<store, tries>>

BeforeCreation(g) == g \in Codes /\ code[g].state = "open" /\ now < code[g].created

ClaimTimeConflict(r) ==
  LET b == claim[r].from IN
  /\ Accepted(r) /\ claim[r].fresh
  /\ \/ Regresses(b)
     \/ ~SourcesFull(b) /\ ~Limited(b) /\ BeforeCreation(claim[r].code)
  /\ Outcome(r, "failed")
  /\ UNCHANGED <<store, tries, faults>>

(* Refused before the code is looked up: only the pruning remains. *)
ClaimLimited(r) ==
  LET b == claim[r].from IN
  /\ Accepted(r) /\ claim[r].fresh /\ ~Regresses(b)
  /\ SourcesFull(b) \/ Limited(b)
  /\ source' = Kept
  /\ Outcome(r, "failed")
  /\ UNCHANGED <<code, device, total, tries, faults>>

Admits(r) ==
  LET b == claim[r].from IN
  claim[r].fresh /\ ~Regresses(b) /\ ~SourcesFull(b) /\ ~Limited(b)

(* Mutant: a used code is not told from an unused one. *)
ClaimableTwice(g) == g \in Codes /\ code[g].created <= now /\ now < code[g].created + CodeLife

Claimable(g) ==
  g \in Codes /\ code[g].state = "open" /\ code[g].created <= now /\ now < code[g].created + CodeLife

(* The refusal is returned, not thrown, so that the attempt's count stays. *)
ClaimRefused(r) ==
  LET g == claim[r].code IN
  /\ Accepted(r) /\ Admits(r) /\ ~Claimable(g) /\ ~BeforeCreation(g)
  /\ CountAttempt(claim[r].from)
  /\ Outcome(r, "failed")
  /\ UNCHANGED <<code, device, faults>>

ClaimGranted(r) ==
  LET g == claim[r].code IN
  /\ Accepted(r) /\ Admits(r) /\ Claimable(g)
  /\ CountAttempt(claim[r].from)
  /\ device' = [device EXCEPT ![r] = [state |-> "active", code |-> g, created |-> now,
                                      gen |-> 1, used |-> now, rotated |-> now]]
  /\ code' = [code EXCEPT ![g].state = "used"]
  /\ Outcome(r, "granted")
  /\ UNCHANGED faults

(* Mutant: a response that cannot be prepared turns the outcome to failed. *)
OutcomeByResponse(r) ==
  CASE claim[r].at = "granted" /\ claim[r].fresh -> "succeeded"
    [] claim[r].at = "granted" /\ ~claim[r].fresh -> "failed"
    [] OTHER -> claim[r].at

(* The terminal record says what the transition did, whether or not the    *)
(* response could be prepared.                                             *)
TerminalOutcome(r) == IF claim[r].at = "granted" THEN "succeeded" ELSE claim[r].at

FinishClaim(r) ==
  /\ r \in Executing
  /\ \/ /\ trail' = [trail EXCEPT ![r] = TerminalOutcome(r)] /\ UNCHANGED faults
        /\ claim' = [claim EXCEPT ![r] =
             IF @.at = "granted" /\ @.fresh THEN [@ EXCEPT !.at = "prepared"] ELSE Over]
     \/ /\ Fault /\ UNCHANGED trail
        /\ claim' = [claim EXCEPT ![r] = Over]
  /\ UNCHANGED <<now, store, boot, cookie, tries>>

(* onSend: the cookie goes out only while the ingress is the one the claim *)
(* came through.  The answer may still be lost.                            *)
SendClaim(r) ==
  /\ claim[r].at = "prepared"
  /\ claim' = [claim EXCEPT ![r] = Over]
  /\ \/ cookie' = (IF claim[r].fresh THEN cookie \cup {r} ELSE cookie) /\ UNCHANGED faults
     \/ Fault /\ UNCHANGED cookie
  /\ UNCHANGED <<now, store, trail, boot, tries>>

----------------------------------------------------------------------------
(* Exchanging the cookie for a CSRF token.                                 *)

Usable(d) == device[d].state = "active" /\ now < device[d].created + DeviceLife

(* The device is authenticated and an authority lease taken. *)
Authenticate(r) ==
  /\ boot[r].at = "idle"
  /\ \E d \in cookie :
       /\ Usable(d) /\ device[d].created <= now /\ device[d].used <= now
       /\ device' = [device EXCEPT ![d].used = now]
       /\ boot' = [boot EXCEPT ![r] = [at |-> "authed", dev |-> d, gen |-> device[d].gen,
                                       since |-> now, fresh |-> TRUE, lease |-> TRUE]]
  /\ UNCHANGED <<now, code, source, total, trail, claim, cookie, tries, faults>>

Current(r) == boot[r].fresh /\ boot[r].lease

MayRotate(r) ==
  LET d == boot[r].dev IN
  Usable(d) /\ device[d].gen = boot[r].gen /\ device[d].rotated <= now

(* rotateBootstrap; a rotation dated before the authentication is made,    *)
(* but its result is not believed.                                         *)
Rotate(r) ==
  /\ boot[r].at = "authed" /\ Current(r) /\ MayRotate(r)
  /\ trail' = [trail EXCEPT ![r] = "accepted"]
  /\ device' = [device EXCEPT ![boot[r].dev].gen = @ + 1, ![boot[r].dev].rotated = now]
  /\ boot' = [boot EXCEPT ![r].at = IF now < boot[r].since THEN "incomplete" ELSE "rotated"]
  /\ UNCHANGED <<now, code, source, total, claim, cookie, tries, faults>>

RotateRefused(r) ==
  /\ boot[r].at = "authed"
  /\ trail' = [trail EXCEPT ![r] = "accepted"]
  /\ \/ /\ boot[r].fresh /\ ~(boot[r].lease /\ MayRotate(r))
        /\ boot' = [boot EXCEPT ![r].at = "failed"] /\ UNCHANGED faults
     \/ /\ ~boot[r].fresh
        /\ boot' = [boot EXCEPT ![r].at = "incomplete"] /\ UNCHANGED faults
     \/ /\ Current(r) /\ MayRotate(r) /\ Fault
        /\ boot' = [boot EXCEPT ![r].at = "incomplete"]
  /\ UNCHANGED <<now, store, claim, cookie, tries>>

FinishBoot(r) ==
  /\ boot[r].at \in {"rotated", "failed", "incomplete"}
  /\ \/ /\ trail' = [trail EXCEPT ![r] = IF boot[r].at = "rotated" THEN "succeeded" ELSE boot[r].at]
        /\ boot' = [boot EXCEPT ![r] =
             IF @.at = "rotated" /\ Current(r) THEN [@ EXCEPT !.at = "prepared"] ELSE Ended(@, "ended")]
        /\ UNCHANGED faults
     \/ /\ Fault /\ UNCHANGED trail
        /\ boot' = [boot EXCEPT ![r] = Ended(@, "ended")]
  /\ UNCHANGED <<now, store, claim, cookie, tries>>

(* The authentication's onSend hook. *)
SendBoot(r) ==
  /\ boot[r].at = "prepared"
  /\ boot' = [boot EXCEPT ![r] = Ended(@, IF Current(r) THEN "answered" ELSE "ended")]
  /\ UNCHANGED <<now, store, trail, claim, cookie, tries, faults>>

----------------------------------------------------------------------------
(* Revoking a device.                                                      *)

(* Mutant: the row is written and the requests under way are forgotten. *)
LeasesKept(d) == UNCHANGED boot

(* invalidate: the leases of the device's requests end with its row. *)
LeasesEnd(d) == boot' = [r \in Boots |-> [boot[r] EXCEPT !.lease = @ /\ boot[r].dev # d]]

Revoke(d) ==
  /\ device[d].state = "active"
  /\ {device[d].created, device[d].used, device[d].rotated} \subseteq 0..now
  /\ device' = [device EXCEPT ![d].state = "revoked"]
  /\ LeasesEnd(d)
  /\ UNCHANGED <<now, code, source, total, trail, claim, cookie, tries, faults>>

----------------------------------------------------------------------------
(* The surroundings.                                                       *)

Tick ==
  /\ now < MaxTime /\ now' = now + 1
  /\ UNCHANGED <<store, trail, claim, boot, cookie, tries, faults>>

ClockSetBack ==
  /\ now > 0 /\ Fault /\ now' \in 0..(now - 1)
  /\ UNCHANGED <<store, trail, claim, boot, cookie, tries>>

IngressWithdrawn ==
  /\ Fault
  /\ claim' = [r \in Claims |-> [claim[r] EXCEPT !.fresh = claim[r].at \in {"idle", "ended"}]]
  /\ boot' = [r \in Boots |-> [boot[r] EXCEPT !.fresh = boot[r].at \in {"idle", "answered", "ended"}]]
  /\ UNCHANGED <<now, store, trail, cookie, tries>>

(* Requests end with the process.  It may stop just after the accepted     *)
(* record of an operation was written (`last').  The next start marks the  *)
(* trails without an end as incomplete; one dated after that start, because*)
(* the clock was set back, is `missed'.                                    *)
Restart ==
  /\ Fault
  /\ \E last \in SUBSET ({r \in Claims : claim[r].at = "arrived"} \cup {r \in Boots : boot[r].at = "authed"}) :
     LET open == last \cup {o \in Operations : trail[o] = "accepted"} IN
     \E missed \in SUBSET open :
       /\ Cardinality(last) <= 1
       /\ trail' = [o \in Operations |->
            CASE o \in missed -> "accepted" [] o \in open \ missed -> "incomplete" [] OTHER -> trail[o]]
  /\ claim' = [r \in Claims |-> IF claim[r].at = "idle" THEN claim[r] ELSE Over]
  /\ boot' = [r \in Boots |->
       IF boot[r].at \in {"idle", "answered"} THEN boot[r] ELSE Ended(boot[r], "ended")]
  /\ UNCHANGED <<now, store, cookie, tries>>

Next ==
  \/ \E c \in Codes : Issue(c)
  \/ \E r \in Claims :
       \/ Arrive(r) \/ Overloaded(r) \/ ClaimStale(r) \/ ClaimFails(r) \/ ClaimTimeConflict(r)
       \/ ClaimLimited(r) \/ ClaimRefused(r) \/ ClaimGranted(r) \/ FinishClaim(r) \/ SendClaim(r)
       \/ Revoke(r)
  \/ \E r \in Boots :
       Authenticate(r) \/ Rotate(r) \/ RotateRefused(r) \/ FinishBoot(r) \/ SendBoot(r)
  \/ Tick \/ ClockSetBack \/ IngressWithdrawn \/ Restart

Spec == Init /\ [][Next]_vars

----------------------------------------------------------------------------
(* Properties.                                                             *)

(* A code makes at most one device, and only while it is valid, whichever  *)
(* claims race for it, however the clock is set, and whatever answer was   *)
(* lost and asked for again (claimTransaction).                            *)
CodeSpentOnce ==
  \A d \in Claims : device[d].state # "none" =>
    LET c == device[d].code IN
    /\ code[c].state = "used"
    /\ code[c].created <= device[d].created /\ device[d].created < code[c].created + CodeLife
    /\ \A e \in Claims \ {d} : device[e].code # c

(* The attempts of q that these browsers made from one tick up to another. *)
Guesses(q, B, from, to) ==
  {i \in 1..Len(q) : q[i].by \in B /\ from <= q[i].at /\ q[i].at < to}

(* However the attempts fall against the fixed windows, the pruning of     *)
(* idle sources and a clock that is set back, no stretch of one window's   *)
(* length sees twice the allowance, from one browser or from all of them   *)
(* (currentWindow, writeRateSource, pruneExpiredSources).                  *)
GuessesBounded ==
  \A t \in 0..MaxTime :
    /\ \A b \in Browsers :
         Cardinality(Guesses(tries, {b}, t, t + Window)) < 2 * MaxPerSource
    /\ Cardinality(Guesses(tries, Browsers, t, t + Window)) < 2 * MaxGlobal

(* The audit trail of a claim or a bootstrap never says failed of one that *)
(* took effect or succeeded of one that did not, and a browser holds a     *)
(* cookie only of a claim on record as succeeded, through lost answers,    *)
(* failed writes and stops (execute, finishUnknownTransition,              *)
(* recordTerminal, reconcileSelectedAuditOrphansBatch).                    *)
TrailsTrue ==
  /\ \A r \in Claims :
       /\ trail[r] = "failed" => device[r].state = "none"
       /\ trail[r] = "succeeded" => device[r].state # "none"
       /\ device[r].state # "none" => trail[r] # "none"
  /\ \A d \in cookie : trail[d] = "succeeded"
  /\ \A d \in Claims : device[d].gen <=
       1 + Cardinality({r \in Boots : boot[r].dev = d /\ trail[r] \notin {"none", "failed"}})

(* A bootstrap that is answered with a token is answered to a device that  *)
(* is still paired, over the ingress it came through, and the token is not *)
(* older than the device's last use of it: a revocation or a withdrawal    *)
(* that lands while the request waits is never overtaken by its answer     *)
(* (requireCurrentAuthority, invalidate, the onSend hook).                 *)
NoStaleAnswer ==
  [][\A r \in Boots : boot[r].at # "answered" /\ boot'[r].at = "answered" =>
       LET d == boot[r].dev IN
       device[d].state = "active" /\ boot[r].fresh /\ boot[r].gen < device[d].gen]_vars

=============================================================================
