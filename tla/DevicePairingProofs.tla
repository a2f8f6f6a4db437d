------------------------- MODULE DevicePairingProofs -------------------------
(***************************************************************************)
(* Proofs about DevicePairing for any number of codes, browsers, claims    *)
(* and bootstraps, any limits and lifetimes and any number of faults: a    *)
(* code is spent once, the audit trails are true, no answer to a bootstrap *)
(* overtakes a revocation or a withdrawn ingress, and the guesses stay     *)
(* within twice the allowance of a window.                                 *)
(***************************************************************************)
EXTENDS DevicePairing, FiniteSetTheorems, TLAPS

(* A code is issued under its own operation (createPairingCode). *)
CodesOnRecord == \A c \in Codes : trail[c] = "none" => code[c].state = "none"

(* A device row carries the code it was made from, and no row none. *)
DevicesFromCodes ==
  \A d \in Claims :
    /\ device[d].state = "none" => device[d].code = Wrong
    /\ device[d].state # "none" => device[d].code \in Codes

(* What is on record of a claim at each point of it: nothing before its    *)
(* acceptance, an open trail while it is executed, a success once an answer*)
(* is prepared, and a device exactly when the transition granted one.      *)
ClaimsOnRecord ==
  \A r \in Claims :
    /\ claim[r].at \in {"idle", "arrived"} => trail[r] = "none" /\ device[r].state = "none"
    /\ claim[r].at = "arrived" => claim[r].from \in Browsers
    /\ claim[r].at \in {"granted", "failed", "incomplete"} =>
         /\ trail[r] = "accepted"
         /\ device[r].state # "none" <=> claim[r].at = "granted"
    /\ claim[r].at = "prepared" => trail[r] = "succeeded"
    /\ trail[r] = "failed" => device[r].state = "none"
    /\ trail[r] = "succeeded" => device[r].state # "none"
    /\ device[r].state # "none" => trail[r] # "none"

(* A bootstrap has no trail before its acceptance, and once authenticated  *)
(* it is one of a device that was made.                                    *)
BootsOnRecord ==
  \A r \in Boots :
    /\ boot[r].at \in {"idle", "authed"} => trail[r] = "none"
    /\ boot[r].at # "idle" => boot[r].dev \in Claims /\ device[boot[r].dev].state # "none"

(* A lease ends with the pairing of its device (invalidate). *)
LeasesPaired ==
  \A r \in Boots : boot[r].lease =>
    boot[r].at # "idle" /\ device[boot[r].dev].state = "active"

(* A rotation moves the device beyond the generation it was asked with.    *)
TokensMove ==
  \A r \in Boots : boot[r].at \in {"rotated", "prepared"} => boot[r].gen < device[boot[r].dev].gen

(* A cookie is sent for a claim on record as succeeded. *)
CookiesOnRecord == \A d \in cookie : trail[d] = "succeeded"

(* The bootstraps that may have rotated a device's token: those whose      *)
(* trail is open, succeeded or incomplete, but not those that were refused *)
(* and still wait for the record of that.                                  *)
MayHaveRotated(d) ==
  {r \in Boots : boot[r].dev = d /\ trail[r] \notin {"none", "failed"} /\ boot[r].at # "failed"}

RotationsOnRecord == \A d \in Claims : device[d].gen <= 1 + Cardinality(MayHaveRotated(d))

IInv ==
  /\ TypeOK
  /\ CodesOnRecord /\ DevicesFromCodes /\ CodeSpentOnce
  /\ ClaimsOnRecord /\ CookiesOnRecord
  /\ BootsOnRecord /\ LeasesPaired /\ TokensMove /\ RotationsOnRecord

----------------------------------------------------------------------------
(* Each part of the invariant speaks of a few variables only: a step that  *)
(* leaves them alone preserves it.                                         *)
LEMMA Untouched ==
  /\ CodesOnRecord /\ UNCHANGED <<code, trail>> => CodesOnRecord'
  /\ DevicesFromCodes /\ UNCHANGED device => DevicesFromCodes'
  /\ CodeSpentOnce /\ UNCHANGED <<code, device>> => CodeSpentOnce'
  /\ ClaimsOnRecord /\ UNCHANGED <<claim, trail, device>> => ClaimsOnRecord'
  /\ CookiesOnRecord /\ UNCHANGED <<cookie, trail>> => CookiesOnRecord'
  /\ BootsOnRecord /\ UNCHANGED <<boot, trail, device>> => BootsOnRecord'
  /\ LeasesPaired /\ UNCHANGED <<boot, device>> => LeasesPaired'
  /\ TokensMove /\ UNCHANGED <<boot, device>> => TokensMove'
  /\ RotationsOnRecord /\ UNCHANGED <<boot, trail, device>> => RotationsOnRecord'
<1>1. CodesOnRecord /\ UNCHANGED <<code, trail>> => CodesOnRecord'
  BY DEF CodesOnRecord
<1>2. DevicesFromCodes /\ UNCHANGED device => DevicesFromCodes'
  BY DEF DevicesFromCodes
<1>3. CodeSpentOnce /\ UNCHANGED <<code, device>> => CodeSpentOnce'
  BY DEF CodeSpentOnce
<1>4. ClaimsOnRecord /\ UNCHANGED <<claim, trail, device>> => ClaimsOnRecord'
  BY DEF ClaimsOnRecord
<1>5. CookiesOnRecord /\ UNCHANGED <<cookie, trail>> => CookiesOnRecord'
  BY DEF CookiesOnRecord
<1>6. BootsOnRecord /\ UNCHANGED <<boot, trail, device>> => BootsOnRecord'
  BY DEF BootsOnRecord
<1>7. LeasesPaired /\ UNCHANGED <<boot, device>> => LeasesPaired'
  BY DEF LeasesPaired
<1>8. TokensMove /\ UNCHANGED <<boot, device>> => TokensMove'
  BY DEF TokensMove
<1>9. RotationsOnRecord /\ UNCHANGED <<boot, trail, device>> => RotationsOnRecord'
  BY DEF RotationsOnRecord, MayHaveRotated
<1> QED BY <1>1, <1>2, <1>3, <1>4, <1>5, <1>6, <1>7, <1>8, <1>9

(* Without a rotation the bootstraps that may have rotated only grow.      *)
LEMMA RotationsGrow ==
  ASSUME TypeOK, RotationsOnRecord,
         \A d \in Claims : device'[d].gen = device[d].gen,
         \A d \in Claims : MayHaveRotated(d) \subseteq MayHaveRotated(d)'
  PROVE  RotationsOnRecord'
<1> SUFFICES ASSUME NEW d \in Claims
             PROVE  device'[d].gen <= 1 + Cardinality(MayHaveRotated(d)')
  BY DEF RotationsOnRecord
<1>1. IsFiniteSet(MayHaveRotated(d)')
  <2>1. MayHaveRotated(d)' \subseteq Boots
    BY DEF MayHaveRotated
  <2> QED BY <2>1, NamesAssumption, FS_Subset
<1>2. /\ IsFiniteSet(MayHaveRotated(d))
      /\ Cardinality(MayHaveRotated(d)) <= Cardinality(MayHaveRotated(d)')
  BY <1>1, FS_Subset
<1>3. Cardinality(MayHaveRotated(d)) \in Nat /\ Cardinality(MayHaveRotated(d)') \in Nat
  BY <1>1, <1>2, FS_CardinalityType
<1>4. device[d].gen \in Nat
  BY DEF TypeOK, DeviceRows
<1> QED BY <1>2, <1>3, <1>4 DEF RotationsOnRecord

(* A step that leaves the requests of bootstraps and their devices alone   *)
(* and writes no trail of a bootstrap keeps what is known of rotations.    *)
LEMMA BootsKept ==
  ASSUME IInv, UNCHANGED <<boot, device>>, \A r \in Boots : trail'[r] = trail[r]
  PROVE  BootsOnRecord' /\ LeasesPaired' /\ TokensMove' /\ RotationsOnRecord'
<1>1. BootsOnRecord'
  BY DEF IInv, BootsOnRecord
<1>2. LeasesPaired' /\ TokensMove'
  BY Untouched DEF IInv
<1>3. RotationsOnRecord'
  BY RotationsGrow DEF IInv, MayHaveRotated
<1> QED BY <1>1, <1>2, <1>3

(* Likewise for the claims and the codes. *)
LEMMA ClaimsKept ==
  ASSUME IInv, UNCHANGED <<claim, code, cookie>>,
         \A d \in Claims : trail'[d] = trail[d] /\ device'[d].state = device[d].state,
         \A c \in Codes : trail'[c] = trail[c]
  PROVE  CodesOnRecord' /\ ClaimsOnRecord' /\ CookiesOnRecord'
<1>1. CodesOnRecord'
  BY DEF IInv, CodesOnRecord
<1>2. ClaimsOnRecord'
  BY DEF IInv, ClaimsOnRecord
<1>3. CookiesOnRecord'
  BY DEF IInv, TypeOK, CookiesOnRecord
<1> QED BY <1>1, <1>2, <1>3

(* A device whose code, times and existence are kept is as good as before. *)
LEMMA DevicesKept ==
  ASSUME IInv, UNCHANGED code,
         \A d \in Claims : /\ device'[d].code = device[d].code
                           /\ device'[d].created = device[d].created
                           /\ device'[d].state = "none" <=> device[d].state = "none"
  PROVE  DevicesFromCodes' /\ CodeSpentOnce'
<1>1. DevicesFromCodes'
  BY DEF IInv, DevicesFromCodes
<1>2. CodeSpentOnce'
  BY DEF IInv, CodeSpentOnce
<1> QED BY <1>1, <1>2

(* A fault leaves fewer of them. *)
LEMMA FaultsTyped ==
  ASSUME TypeOK, Fault \/ UNCHANGED faults
  PROVE  faults' \in 0..MaxFaults
  BY PolicyAssumption DEF TypeOK, Fault

(* The pruned rows and the counted ones are rows of the rate table. *)
LEMMA RatesTyped ==
  ASSUME TypeOK
  PROVE  /\ Kept \in [Browsers -> RateRows]
         /\ \A row \in RateRows : Counted(row) \in RateRows
         /\ \A b \in Browsers : CountAttempt(b) =>
              /\ source' \in [Browsers -> RateRows] /\ total' \in RateRows
              /\ tries' \in Seq(Attempts)
<1>0. now \in Nat /\ now \in 0..MaxTime
  BY PolicyAssumption DEF TypeOK
<1>1. NoRow \in RateRows /\ [NoRow EXCEPT !.start = now] \in RateRows
  BY <1>0 DEF NoRow, RateRows
<1>2. Kept \in [Browsers -> RateRows]
  BY <1>1 DEF Kept, TypeOK
<1>3. ASSUME NEW row \in RateRows PROVE Counted(row) \in RateRows
  <2> DEFINE w == CurrentWindow(row)
             n == w.count + 1
  <2>1. w \in RateRows
    BY <1>1 DEF CurrentWindow
  <2>2. n \in Nat
    BY <2>1 DEF RateRows
  <2>3. Counted(row) = [w EXCEPT !.count = n, !.last = now]
    BY DEF Counted
  <2> HIDE DEF w, n
  <2>4. [w EXCEPT !.count = n, !.last = now] \in RateRows
    BY <1>0, <2>1, <2>2 DEF RateRows
  <2> QED BY <2>3, <2>4
<1>4. ASSUME NEW b \in Browsers, CountAttempt(b)
      PROVE  /\ source' \in [Browsers -> RateRows] /\ total' \in RateRows
             /\ tries' \in Seq(Attempts)
  <2>1. source' \in [Browsers -> RateRows]
    <3>1. source' = [Kept EXCEPT ![b] = Counted(Kept[b])]
      BY <1>4 DEF CountAttempt
    <3> QED BY <1>2, <1>3, <3>1
  <2>2. total' \in RateRows
    BY <1>3, <1>4 DEF CountAttempt, TypeOK
  <2>3. tries' \in Seq(Attempts)
    <3>1. [by |-> b, at |-> now] \in Attempts /\ tries \in Seq(Attempts)
      BY <1>0 DEF Attempts, TypeOK
    <3> QED BY <1>4, <3>1 DEF CountAttempt
  <2> QED BY <2>1, <2>2, <2>3
<1> QED BY <1>2, <1>3, <1>4

----------------------------------------------------------------------------
(* Codes and claims.                                                       *)

(* A code is issued once. *)
LEMMA IssuePreserves ==
  ASSUME IInv, NEW c \in Codes, Issue(c)
  PROVE  IInv'
<1>1. PICK o \in {"succeeded", "accepted", "incomplete"} : trail' = [trail EXCEPT ![c] = o]
  BY DEF Issue
<1>2. \/ UNCHANGED code
      \/ \E s \in BOOLEAN : code' = [code EXCEPT ![c] = [state |-> "open", created |-> now, shown |-> s]]
  BY DEF Issue
<1>3. /\ trail[c] = "none"
      /\ UNCHANGED <<now, device, source, total, claim, boot, cookie, tries>>
      /\ Fault \/ UNCHANGED faults
  BY DEF Issue
<1>4. c \in Operations /\ c \notin Claims /\ c \notin Boots /\ now \in Nat
  BY NamesAssumption, PolicyAssumption DEF IInv, TypeOK, Operations
<1>5. TypeOK'
  <2>1. code' \in [Codes -> CodeRows]
    <3>1. \A s \in BOOLEAN : [state |-> "open", created |-> now, shown |-> s] \in CodeRows
      BY <1>4 DEF CodeRows
    <3>2. code \in [Codes -> CodeRows]
      BY DEF IInv, TypeOK
    <3> QED BY <1>2, <3>1, <3>2
  <2>2. trail' \in [Operations -> Outcomes]
    BY <1>1, <1>4 DEF IInv, TypeOK, Outcomes
  <2>3. faults' \in 0..MaxFaults
    BY <1>3, FaultsTyped DEF IInv
  <2> QED BY <1>3, <2>1, <2>2, <2>3 DEF IInv, TypeOK
<1>6. trail'[c] # "none" /\ \A p \in Operations \ {c} : trail'[p] = trail[p]
  BY <1>1, <1>4 DEF IInv, TypeOK
<1>7. \A k \in Codes \ {c} : code'[k] = code[k]
  BY <1>2 DEF IInv, TypeOK
<1>8. CodesOnRecord'
  BY <1>6, <1>7 DEF IInv, CodesOnRecord, Operations
<1>9. DevicesFromCodes'
  BY <1>3, Untouched DEF IInv
<1>10. CodeSpentOnce'
  <2>1. code[c].state = "none"
    BY <1>3 DEF IInv, CodesOnRecord
  <2>2. \A d \in Claims : device[d].state # "none" => device[d].code \in Codes \ {c}
    BY <2>1 DEF IInv, DevicesFromCodes, CodeSpentOnce
  <2> QED BY <1>3, <1>7, <2>2 DEF IInv, CodeSpentOnce
<1>11. ClaimsOnRecord' /\ CookiesOnRecord'
  BY <1>3, <1>4, <1>6 DEF IInv, TypeOK, ClaimsOnRecord, CookiesOnRecord, Operations
<1>12. \A r \in Boots : trail'[r] = trail[r]
  BY <1>4, <1>6 DEF Operations
<1>13. BootsOnRecord' /\ LeasesPaired' /\ TokensMove' /\ RotationsOnRecord'
  BY <1>3, <1>12, BootsKept
<1> QED BY <1>5, <1>8, <1>9, <1>10, <1>11, <1>13 DEF IInv

(* A step that changes a claim's request only. *)
LEMMA ClaimMovesPreserves ==
  ASSUME IInv, NEW r \in Claims, NEW q \in ClaimRequests,
         claim' = [claim EXCEPT ![r] = q],
         \/ q.at = "ended"
         \/ claim[r].at = "idle" /\ q.at = "arrived" /\ q.from \in Browsers,
         UNCHANGED <<now, store, trail, boot, cookie, tries, faults>>
  PROVE  IInv'
<1>1. TypeOK'
  BY DEF IInv, TypeOK, store
<1>2. CodesOnRecord' /\ DevicesFromCodes' /\ CodeSpentOnce' /\ CookiesOnRecord'
  BY Untouched DEF IInv, store
<1>3. BootsOnRecord' /\ LeasesPaired' /\ TokensMove' /\ RotationsOnRecord'
  BY Untouched DEF IInv, store
<1>4. claim'[r] = q /\ \A s \in Claims \ {r} : claim'[s] = claim[s]
  BY DEF IInv, TypeOK
<1>5. ClaimsOnRecord'
  BY <1>4 DEF IInv, ClaimsOnRecord, store
<1> QED BY <1>1, <1>2, <1>3, <1>5 DEF IInv

(* A request reaches the claim route with the code a browser typed.        *)
LEMMA ArrivePreserves ==
  ASSUME IInv, NEW r \in Claims, Arrive(r)
  PROVE  IInv'
<1>1. PICK b \in Browsers, g \in Codes \cup {Wrong} :
        claim' = [claim EXCEPT ![r] = [at |-> "arrived", code |-> g, from |-> b, fresh |-> TRUE]]
  BY DEF Arrive
<1>2. [at |-> "arrived", code |-> g, from |-> b, fresh |-> TRUE] \in ClaimRequests
  BY DEF ClaimRequests
<1> QED BY <1>1, <1>2, ClaimMovesPreserves DEF Arrive

(* The request that is over keeps no code. *)
LEMMA OverTyped == Over \in ClaimRequests /\ Over.at = "ended"
  BY DEF Over, ClaimRequests

(* A request too many is answered at once and changes nothing else.        *)
LEMMA OverloadedPreserves ==
  ASSUME IInv, NEW r \in Claims, Overloaded(r)
  PROVE  IInv'
  BY OverTyped, ClaimMovesPreserves DEF Overloaded

(* What an executed claim writes besides the code and the device. *)
LEMMA ExecutedKeeps ==
  ASSUME IInv, NEW r \in Claims, NEW how \in {"granted", "failed", "incomplete"},
         Accepted(r), Outcome(r, how)
  PROVE  /\ claim[r].at = "arrived" /\ trail[r] = "none" /\ device[r].state = "none"
         /\ claim' \in [Claims -> ClaimRequests] /\ trail' \in [Operations -> Outcomes]
         /\ claim'[r].at = how /\ trail'[r] = "accepted"
         /\ \A s \in Claims \ {r} : claim'[s] = claim[s] /\ trail'[s] = trail[s]
         /\ \A o \in Codes \cup Boots : trail'[o] = trail[o]
         /\ CookiesOnRecord'
<1>1. claim' = [claim EXCEPT ![r].at = how] /\ trail' = [trail EXCEPT ![r] = "accepted"]
  BY DEF Accepted, Outcome
<1>2. r \in Operations /\ r \notin Codes /\ r \notin Boots
  BY NamesAssumption DEF Operations
<1>3. claim[r].at = "arrived" /\ trail[r] = "none" /\ device[r].state = "none"
  BY DEF Accepted, IInv, ClaimsOnRecord
<1>4. claim' \in [Claims -> ClaimRequests] /\ claim'[r].at = how
      /\ \A s \in Claims \ {r} : claim'[s] = claim[s]
  BY <1>1 DEF IInv, TypeOK, ClaimRequests
<1>5. trail' \in [Operations -> Outcomes] /\ trail'[r] = "accepted"
      /\ \A o \in Operations \ {r} : trail'[o] = trail[o]
  BY <1>1, <1>2 DEF IInv, TypeOK, Outcomes
<1>6. CookiesOnRecord'
  <2>1. \A d \in cookie : d \in Operations \ {r}
    BY <1>3 DEF IInv, TypeOK, CookiesOnRecord, Operations
  <2> QED BY <1>5, <2>1 DEF Outcome, IInv, CookiesOnRecord
<1> QED BY <1>2, <1>3, <1>4, <1>5, <1>6 DEF Operations

(* A claim that is refused, throws or finds its ingress withdrawn makes no *)
(* device.                                                                 *)
LEMMA ClaimWithoutDevicePreserves ==
  ASSUME IInv, NEW r \in Claims, NEW how \in {"failed", "incomplete"},
         Accepted(r), Outcome(r, how), UNCHANGED <<code, device>>,
         source' \in [Browsers -> RateRows], total' \in RateRows,
         tries' \in Seq(Attempts), Fault \/ UNCHANGED faults
  PROVE  IInv'
<1>1. /\ claim[r].at = "arrived" /\ trail[r] = "none" /\ device[r].state = "none"
      /\ claim' \in [Claims -> ClaimRequests] /\ trail' \in [Operations -> Outcomes]
      /\ claim'[r].at = how /\ trail'[r] = "accepted"
      /\ \A s \in Claims \ {r} : claim'[s] = claim[s] /\ trail'[s] = trail[s]
      /\ \A o \in Codes \cup Boots : trail'[o] = trail[o]
      /\ CookiesOnRecord'
  BY ExecutedKeeps
<1>2. UNCHANGED <<now, boot, cookie>>
  BY DEF Outcome
<1>3. TypeOK'
  BY <1>1, <1>2, FaultsTyped DEF IInv, TypeOK
<1>4. CodesOnRecord'
  BY <1>1 DEF IInv, CodesOnRecord
<1>5. DevicesFromCodes' /\ CodeSpentOnce'
  BY Untouched DEF IInv
<1>6. ClaimsOnRecord'
  BY <1>1 DEF IInv, ClaimsOnRecord
<1>7. BootsOnRecord' /\ LeasesPaired' /\ TokensMove' /\ RotationsOnRecord'
  BY <1>1, <1>2, BootsKept
<1> QED BY <1>1, <1>3, <1>4, <1>5, <1>6, <1>7 DEF IInv

(* Three ways in which a claim ends before its code is consulted.          *)
LEMMA ClaimEndsPreserves ==
  ASSUME IInv, NEW r \in Claims,
         ClaimStale(r) \/ ClaimFails(r) \/ ClaimTimeConflict(r)
  PROVE  IInv'
<1>1. source \in [Browsers -> RateRows] /\ total \in RateRows
      /\ tries \in Seq(Attempts)
  BY DEF IInv, TypeOK
<1>2. CASE ClaimStale(r)
  BY <1>1, <1>2, ClaimWithoutDevicePreserves DEF ClaimStale, store
<1>3. CASE ClaimFails(r)
  BY <1>1, <1>3, ClaimWithoutDevicePreserves DEF ClaimFails, store
<1>4. CASE ClaimTimeConflict(r)
  BY <1>1, <1>4, ClaimWithoutDevicePreserves DEF ClaimTimeConflict, store
<1> QED BY <1>2, <1>3, <1>4

(* A limited browser is refused before its guess is compared.              *)
LEMMA ClaimLimitedPreserves ==
  ASSUME IInv, NEW r \in Claims, ClaimLimited(r)
  PROVE  IInv'
<1>1. Kept \in [Browsers -> RateRows]
  BY RatesTyped DEF IInv
<1>2. total \in RateRows /\ tries \in Seq(Attempts)
  BY DEF IInv, TypeOK
<1> QED BY <1>1, <1>2, ClaimWithoutDevicePreserves DEF ClaimLimited

(* A wrong, spent or expired code is refused and counted against its       *)
(* browser.                                                                *)
LEMMA ClaimRefusedPreserves ==
  ASSUME IInv, NEW r \in Claims, ClaimRefused(r)
  PROVE  IInv'
<1>1. claim[r].from \in Browsers
  BY DEF ClaimRefused, Accepted, IInv, ClaimsOnRecord
<1>2. /\ Accepted(r) /\ Outcome(r, "failed") /\ CountAttempt(claim[r].from)
      /\ UNCHANGED <<code, device, faults>>
  BY DEF ClaimRefused
<1>3. /\ source' \in [Browsers -> RateRows] /\ total' \in RateRows
      /\ tries' \in Seq(Attempts)
  BY <1>1, <1>2, RatesTyped DEF IInv
<1> QED BY <1>2, <1>3, ClaimWithoutDevicePreserves

(* A granted claim makes the device of its own id from a code nobody used. *)
LEMMA ClaimGrantedPreserves ==
  ASSUME IInv, NEW r \in Claims, ClaimGranted(r)
  PROVE  IInv'
<1> DEFINE g == claim[r].code
           made == [state |-> "active", code |-> g, created |-> now,
                    gen |-> 1, used |-> now, rotated |-> now]
<1>1. /\ claim[r].at = "arrived" /\ trail[r] = "none" /\ device[r].state = "none"
      /\ claim' \in [Claims -> ClaimRequests] /\ trail' \in [Operations -> Outcomes]
      /\ claim'[r].at = "granted" /\ trail'[r] = "accepted"
      /\ \A s \in Claims \ {r} : claim'[s] = claim[s] /\ trail'[s] = trail[s]
      /\ \A o \in Codes \cup Boots : trail'[o] = trail[o]
      /\ CookiesOnRecord'
  BY ExecutedKeeps DEF ClaimGranted
<1>2. /\ device' = [device EXCEPT ![r] = made] /\ code' = [code EXCEPT ![g].state = "used"]
      /\ UNCHANGED <<now, boot, cookie, faults>>
  BY DEF ClaimGranted, Outcome
<1>3. /\ g \in Codes /\ code[g].state = "open"
      /\ code[g].created <= now /\ now < code[g].created + CodeLife
  BY DEF ClaimGranted, Claimable
<1>4. now \in Nat
  BY PolicyAssumption DEF IInv, TypeOK
<1>5. /\ device'[r] = made /\ \A d \in Claims \ {r} : device'[d] = device[d]
  BY <1>2 DEF IInv, TypeOK
<1>6. /\ code'[g].state = "used" /\ \A c \in Codes : code'[c].created = code[c].created
      /\ \A c \in Codes \ {g} : code'[c] = code[c]
  BY <1>2, <1>3 DEF IInv, TypeOK, CodeRows
<1>7. TypeOK'
  <2>1. claim[r].from \in Browsers
    BY <1>1 DEF IInv, ClaimsOnRecord
  <2>2. /\ source' \in [Browsers -> RateRows] /\ total' \in RateRows
        /\ tries' \in Seq(Attempts)
    BY <2>1, RatesTyped DEF IInv, ClaimGranted
  <2>3. code' \in [Codes -> CodeRows]
    BY <1>2, <1>3 DEF IInv, TypeOK, CodeRows
  <2>4. device' \in [Claims -> DeviceRows]
    <3>1. made \in DeviceRows
      BY <1>3, <1>4 DEF DeviceRows
    <3>2. device \in [Claims -> DeviceRows]
      BY DEF IInv, TypeOK
    <3> HIDE DEF made
    <3> QED BY <1>2, <3>1, <3>2
  <2> QED BY <1>1, <1>2, <2>2, <2>3, <2>4 DEF IInv, TypeOK
<1>8. CodesOnRecord'
  <2>1. trail[g] # "none"
    BY <1>3 DEF IInv, CodesOnRecord
  <2> QED BY <1>1, <1>6, <2>1 DEF IInv, CodesOnRecord
<1>9. DevicesFromCodes'
  BY <1>3, <1>5 DEF IInv, DevicesFromCodes
<1>10. CodeSpentOnce'
  <2>1. \A d \in Claims : device[d].code # g
    BY <1>3, NamesAssumption DEF IInv, DevicesFromCodes, CodeSpentOnce
  <2>2. device'[r].code = g /\ device'[r].created = now
    BY <1>5
  <2>3. \A e \in Claims \ {r} : device'[e].code # g
    BY <1>5, <2>1
  <2> SUFFICES ASSUME NEW d \in Claims, device'[d].state # "none"
               PROVE  /\ code'[device'[d].code].state = "used"
                      /\ code'[device'[d].code].created <= device'[d].created
                      /\ device'[d].created < code'[device'[d].code].created + CodeLife
                      /\ \A e \in Claims \ {d} : device'[e].code # device'[d].code
    BY DEF CodeSpentOnce
  <2>4. CASE d = r
    BY <1>3, <1>6, <2>2, <2>3, <2>4
  <2>5. CASE d # r
    <3>1. device'[d] = device[d] /\ device[d].code \in Codes \ {g}
      BY <1>5, <2>1, <2>5 DEF IInv, DevicesFromCodes
    <3>2. /\ code[device[d].code].state = "used"
          /\ code[device[d].code].created <= device[d].created
          /\ device[d].created < code[device[d].code].created + CodeLife
          /\ \A e \in Claims \ {d} : device[e].code # device[d].code
      BY <3>1 DEF IInv, CodeSpentOnce
    <3>3. \A e \in Claims \ {d} : device'[e].code # device'[d].code
      BY <1>5, <2>2, <3>1, <3>2
    <3> QED BY <1>6, <3>1, <3>2, <3>3
  <2> QED BY <2>4, <2>5
<1>11. ClaimsOnRecord'
  BY <1>1, <1>5 DEF IInv, ClaimsOnRecord
<1>12. BootsOnRecord' /\ LeasesPaired' /\ TokensMove'
  <2>1. \A q \in Boots : boot[q].at # "idle" => boot[q].dev \in Claims \ {r}
    BY <1>1 DEF IInv, BootsOnRecord
  <2>2. BootsOnRecord'
    BY <1>1, <1>2, <1>5, <2>1 DEF IInv, BootsOnRecord
  <2>3. LeasesPaired'
    BY <1>2, <1>5, <2>1 DEF IInv, LeasesPaired
  <2>4. TokensMove'
    BY <1>2, <1>5, <2>1 DEF IInv, TokensMove
  <2> QED BY <2>2, <2>3, <2>4
<1>13. RotationsOnRecord'
  <2> SUFFICES ASSUME NEW d \in Claims
               PROVE  device'[d].gen <= 1 + Cardinality(MayHaveRotated(d)')
    BY DEF RotationsOnRecord
  <2>1. MayHaveRotated(d)' = MayHaveRotated(d)
    BY <1>1, <1>2 DEF MayHaveRotated
  <2>2. IsFiniteSet(MayHaveRotated(d))
    <3>1. MayHaveRotated(d) \subseteq Boots
      BY DEF MayHaveRotated
    <3> QED BY <3>1, NamesAssumption, FS_Subset
  <2>3. Cardinality(MayHaveRotated(d)) \in Nat
    BY <2>2, FS_CardinalityType
  <2>4. device[d].gen <= 1 + Cardinality(MayHaveRotated(d))
    BY DEF IInv, RotationsOnRecord
  <2>5. CASE d = r
    BY <1>5, <2>1, <2>3, <2>5
  <2>6. CASE d # r
    BY <1>5, <2>1, <2>4, <2>6
  <2> QED BY <2>5, <2>6
<1> QED BY <1>1, <1>7, <1>8, <1>9, <1>10, <1>11, <1>12, <1>13 DEF IInv

(* The terminal record says whether there is a device.                     *)
LEMMA FinishClaimPreserves ==
  ASSUME IInv, NEW r \in Claims, FinishClaim(r)
  PROVE  IInv'
<1>1. /\ claim[r].at \in {"granted", "failed", "incomplete"} /\ trail[r] = "accepted"
      /\ device[r].state # "none" <=> claim[r].at = "granted"
  BY DEF FinishClaim, Executing, IInv, ClaimsOnRecord
<1>2. UNCHANGED <<now, code, device, source, total, boot, cookie, tries>>
  BY DEF FinishClaim, store
<1>3. Fault \/ UNCHANGED faults
  BY DEF FinishClaim
<1>4. r \in Operations /\ r \notin Codes /\ r \notin Boots
  BY NamesAssumption DEF Operations
<1>5. TerminalOutcome(r) \in {"succeeded", "failed", "incomplete"}
      /\ (TerminalOutcome(r) = "succeeded" <=> claim[r].at = "granted")
  BY <1>1 DEF TerminalOutcome
<1>6. PICK q \in ClaimRequests :
        /\ claim' = [claim EXCEPT ![r] = q]
        /\ \/ q.at = "ended"
           \/ q.at = "prepared" /\ claim[r].at = "granted"
              /\ trail' = [trail EXCEPT ![r] = TerminalOutcome(r)]
  <2> DEFINE p == [claim[r] EXCEPT !.at = "prepared"]
  <2>1. p \in ClaimRequests /\ p.at = "prepared"
    BY DEF IInv, TypeOK, ClaimRequests
  <2>2. \/ claim' = [claim EXCEPT ![r] = Over]
        \/ /\ claim' = [claim EXCEPT ![r] = p] /\ claim[r].at = "granted"
           /\ trail' = [trail EXCEPT ![r] = TerminalOutcome(r)]
    <3>1. claim \in [Claims -> ClaimRequests]
      BY DEF IInv, TypeOK
    <3> QED BY <3>1 DEF FinishClaim
  <2> HIDE DEF p
  <2> QED BY <2>1, <2>2, OverTyped
<1>7. trail' = [trail EXCEPT ![r] = TerminalOutcome(r)] \/ UNCHANGED trail
  BY DEF FinishClaim
<1>8. TypeOK'
  <2>1. trail' \in [Operations -> Outcomes]
    BY <1>4, <1>5, <1>7 DEF IInv, TypeOK, Outcomes
  <2> QED BY <1>2, <1>3, <1>6, <2>1, FaultsTyped DEF IInv, TypeOK
<1>9. /\ trail'[r] \in {"accepted", TerminalOutcome(r)}
      /\ \A o \in Operations \ {r} : trail'[o] = trail[o]
  BY <1>1, <1>4, <1>7 DEF IInv, TypeOK
<1>10. CodesOnRecord'
  BY <1>2, <1>4, <1>9 DEF IInv, CodesOnRecord, Operations
<1>11. DevicesFromCodes' /\ CodeSpentOnce'
  BY <1>2, Untouched DEF IInv
<1>12. ClaimsOnRecord'
  <2>1. claim'[r] = q /\ \A s \in Claims \ {r} : claim'[s] = claim[s]
    BY <1>6 DEF IInv, TypeOK
  <2>2. q.at = "prepared" => trail'[r] = "succeeded"
    BY <1>4, <1>5, <1>6 DEF IInv, TypeOK
  <2> QED BY <1>1, <1>2, <1>5, <1>6, <1>9, <2>1, <2>2 DEF IInv, ClaimsOnRecord, Operations
<1>13. CookiesOnRecord'
  <2>1. \A d \in cookie : d \in Operations \ {r}
    BY <1>1 DEF IInv, TypeOK, CookiesOnRecord, Operations
  <2> QED BY <1>2, <1>9, <2>1 DEF IInv, CookiesOnRecord
<1>14. BootsOnRecord' /\ LeasesPaired' /\ TokensMove' /\ RotationsOnRecord'
  BY <1>2, <1>4, <1>9, BootsKept DEF Operations
<1> QED BY <1>8, <1>10, <1>11, <1>12, <1>13, <1>14 DEF IInv

(* The answer to a claim that made a device carries the first cookie of    *)
(* that device to its browser.                                             *)
LEMMA SendClaimPreserves ==
  ASSUME IInv, NEW r \in Claims, SendClaim(r)
  PROVE  IInv'
<1>1. /\ claim[r].at = "prepared" /\ trail[r] = "succeeded"
      /\ claim' = [claim EXCEPT ![r] = Over]
      /\ cookie' = cookie \cup {r} \/ UNCHANGED cookie
      /\ Fault \/ UNCHANGED faults
      /\ UNCHANGED <<now, code, device, source, total, trail, boot, tries>>
  BY DEF SendClaim, store, IInv, ClaimsOnRecord
<1>2. TypeOK'
  BY <1>1, OverTyped, FaultsTyped DEF IInv, TypeOK
<1>3. CodesOnRecord' /\ DevicesFromCodes' /\ CodeSpentOnce'
  BY <1>1, Untouched DEF IInv
<1>4. ClaimsOnRecord'
  <2>1. claim'[r].at = "ended" /\ \A s \in Claims \ {r} : claim'[s] = claim[s]
    BY <1>1, OverTyped DEF IInv, TypeOK
  <2> QED BY <1>1, <2>1 DEF IInv, ClaimsOnRecord
<1>5. CookiesOnRecord'
  BY <1>1 DEF IInv, CookiesOnRecord
<1>6. BootsOnRecord' /\ LeasesPaired' /\ TokensMove' /\ RotationsOnRecord'
  BY <1>1, Untouched DEF IInv
<1> QED BY <1>2, <1>3, <1>4, <1>5, <1>6 DEF IInv

----------------------------------------------------------------------------
(* Bootstraps and revocations.                                             *)

(* What a bootstrap's request may be, whatever happened to it. *)
LEMMA RequestsTyped ==
  ASSUME TypeOK, NEW r \in Boots
  PROVE  /\ boot[r] \in BootRequests
         /\ \A how \in {"answered", "ended"} :
              /\ Ended(boot[r], how) \in BootRequests
              /\ Ended(boot[r], how).at = how /\ Ended(boot[r], how).dev = boot[r].dev
              /\ Ended(boot[r], how).lease = FALSE
         /\ \A at \in {"rotated", "failed", "incomplete", "prepared"} :
              [boot[r] EXCEPT !.at = at] \in BootRequests
<1>1. boot[r] \in BootRequests
  BY DEF TypeOK
<1>2. ASSUME NEW how \in {"answered", "ended"}
      PROVE  /\ Ended(boot[r], how) \in BootRequests
             /\ Ended(boot[r], how).at = how /\ Ended(boot[r], how).dev = boot[r].dev
             /\ Ended(boot[r], how).lease = FALSE
  BY <1>1 DEF Ended, BootRequests
<1>3. \A at \in {"rotated", "failed", "incomplete", "prepared"} :
        [boot[r] EXCEPT !.at = at] \in BootRequests
  BY <1>1 DEF BootRequests
<1> QED BY <1>1, <1>2, <1>3

(* The trail of a bootstrap is none of a claim's or a code's. *)
LEMMA BootRecorded ==
  ASSUME IInv, NEW r \in Boots, NEW how \in Outcomes, trail' = [trail EXCEPT ![r] = how]
  PROVE  /\ trail' \in [Operations -> Outcomes] /\ trail'[r] = how
         /\ \A o \in Claims \cup Codes : trail'[o] = trail[o]
         /\ \A s \in Boots \ {r} : trail'[s] = trail[s]
<1>1. r \in Operations /\ r \notin Codes /\ r \notin Claims
  BY NamesAssumption DEF Operations
<1> QED BY <1>1 DEF IInv, TypeOK, Operations

(* A device is authenticated while it is paired; nothing is recorded.      *)
LEMMA AuthenticatePreserves ==
  ASSUME IInv, NEW r \in Boots, Authenticate(r)
  PROVE  IInv'
<1>1. PICK d \in cookie :
        /\ device[d].state = "active"
        /\ device' = [device EXCEPT ![d].used = now]
        /\ boot' = [boot EXCEPT ![r] = [at |-> "authed", dev |-> d, gen |-> device[d].gen,
                                        since |-> now, fresh |-> TRUE, lease |-> TRUE]]
  BY DEF Authenticate, Usable
<1>2. boot[r].at = "idle" /\ trail[r] = "none"
      /\ UNCHANGED <<now, code, source, total, trail, claim, cookie, tries, faults>>
  BY DEF Authenticate, IInv, BootsOnRecord
<1>3. d \in Claims /\ now \in Nat
  BY PolicyAssumption DEF IInv, TypeOK
<1> DEFINE q == [at |-> "authed", dev |-> d, gen |-> device[d].gen,
                 since |-> now, fresh |-> TRUE, lease |-> TRUE]
<1>4. q \in BootRequests /\ q.at = "authed" /\ q.dev = d
  BY <1>3 DEF IInv, TypeOK, BootRequests, DeviceRows
<1>5. boot' = [boot EXCEPT ![r] = q]
  BY <1>1
<1> HIDE DEF q
<1>6. TypeOK'
  <2>1. device' \in [Claims -> DeviceRows]
    BY <1>1, <1>3 DEF IInv, TypeOK, DeviceRows
  <2> QED BY <1>2, <1>4, <1>5, <2>1 DEF IInv, TypeOK
<1>7. \A e \in Claims : /\ device'[e].state = device[e].state /\ device'[e].gen = device[e].gen
                        /\ device'[e].code = device[e].code
                        /\ device'[e].created = device[e].created
  BY <1>1, <1>3 DEF IInv, TypeOK, DeviceRows
<1>8. boot'[r] = q /\ \A s \in Boots \ {r} : boot'[s] = boot[s]
  BY <1>5 DEF IInv, TypeOK
<1>9. CodesOnRecord' /\ ClaimsOnRecord' /\ CookiesOnRecord'
  BY <1>2, <1>7, ClaimsKept
<1>10. DevicesFromCodes' /\ CodeSpentOnce'
  BY <1>2, <1>7, DevicesKept
<1>11. BootsOnRecord'
  BY <1>1, <1>2, <1>3, <1>4, <1>7, <1>8 DEF IInv, BootsOnRecord
<1>12. LeasesPaired'
  <2>1. \A s \in Boots : boot[s].lease => boot[s].dev \in Claims
    BY DEF IInv, LeasesPaired, BootsOnRecord
  <2> QED BY <1>1, <1>3, <1>4, <1>7, <1>8, <2>1 DEF IInv, LeasesPaired
<1>13. TokensMove'
  <2>1. \A s \in Boots : boot[s].at \in {"rotated", "prepared"} => boot[s].dev \in Claims
    BY DEF IInv, BootsOnRecord
  <2> QED BY <1>4, <1>7, <1>8, <2>1 DEF IInv, TokensMove
<1>14. RotationsOnRecord'
  <2>1. \A e \in Claims : MayHaveRotated(e) \subseteq MayHaveRotated(e)'
    BY <1>2, <1>8 DEF MayHaveRotated
  <2> QED BY <1>7, <2>1, RotationsGrow DEF IInv
<1> QED BY <1>6, <1>9, <1>10, <1>11, <1>12, <1>13, <1>14 DEF IInv

(* A rotation adds one generation and one open trail. *)
LEMMA RotatePreserves ==
  ASSUME IInv, NEW r \in Boots, Rotate(r)
  PROVE  IInv'
<1>1. PICK d \in Claims :
        /\ d = boot[r].dev /\ boot[r].at = "authed" /\ trail[r] = "none"
        /\ device[d].state = "active" /\ device[d].gen = boot[r].gen
  BY DEF Rotate, MayRotate, Usable, IInv, BootsOnRecord
<1>2. PICK at \in {"incomplete", "rotated"} : boot' = [boot EXCEPT ![r].at = at]
  BY DEF Rotate
<1>3. /\ trail' = [trail EXCEPT ![r] = "accepted"]
      /\ device' = [device EXCEPT ![d].gen = @ + 1, ![d].rotated = now]
      /\ UNCHANGED <<now, code, source, total, claim, cookie, tries, faults>>
  BY <1>1 DEF Rotate
<1>4. now \in Nat /\ device[d] \in DeviceRows /\ device[d].gen + 1 \in Nat
  <2>1. device[d] \in DeviceRows
    BY <1>1 DEF IInv, TypeOK
  <2>2. now \in Nat
    BY PolicyAssumption DEF IInv, TypeOK
  <2>3. device[d].gen \in Nat
    BY <2>1 DEF DeviceRows
  <2> QED BY <2>1, <2>2, <2>3
<1>5. /\ trail' \in [Operations -> Outcomes] /\ trail'[r] = "accepted"
      /\ \A o \in Claims \cup Codes : trail'[o] = trail[o]
      /\ \A s \in Boots \ {r} : trail'[s] = trail[s]
  BY <1>3, BootRecorded DEF Outcomes
<1>6. boot'[r] = [boot[r] EXCEPT !.at = at] /\ \A s \in Boots \ {r} : boot'[s] = boot[s]
  BY <1>2 DEF IInv, TypeOK
<1>7. boot'[r].at = at /\ boot'[r].dev = d /\ boot'[r].gen = boot[r].gen
      /\ boot'[r].lease = boot[r].lease
  BY <1>1, <1>6 DEF IInv, TypeOK, BootRequests
<1>8. device' \in [Claims -> DeviceRows]
  <2> DEFINE g == device[d].gen + 1
             row == [device[d] EXCEPT !.gen = g, !.rotated = now]
  <2>1. device' = [device EXCEPT ![d] = row]
    BY <1>1, <1>3 DEF IInv, TypeOK
  <2> HIDE DEF g
  <2>2. g \in Nat
    BY <1>4 DEF g
  <2>3. row \in DeviceRows
    BY <1>4, <2>2 DEF DeviceRows
  <2> QED BY <2>1, <2>3 DEF IInv, TypeOK
<1>9. /\ device'[d].gen = device[d].gen + 1 /\ device'[d].state = device[d].state
      /\ device'[d].code = device[d].code /\ device'[d].created = device[d].created
      /\ \A e \in Claims \ {d} : device'[e] = device[e]
      /\ \A e \in Claims : device'[e].state = device[e].state
  BY <1>1, <1>3 DEF IInv, TypeOK, DeviceRows
<1>10. TypeOK'
  BY <1>3, <1>5, <1>6, <1>8, RequestsTyped, <1>2 DEF IInv, TypeOK
<1>11. CodesOnRecord' /\ ClaimsOnRecord' /\ CookiesOnRecord'
  BY <1>3, <1>5, <1>9, ClaimsKept
<1>12. DevicesFromCodes' /\ CodeSpentOnce'
  BY <1>3, <1>9, DevicesKept
<1>13. BootsOnRecord'
  <2>1. \A s \in Boots : boot[s].at # "idle" =>
          boot[s].dev \in Claims /\ device'[boot[s].dev].state # "none"
    BY <1>9 DEF IInv, BootsOnRecord
  <2>2. \A s \in Boots \ {r} : boot'[s].at \in {"idle", "authed"} => trail'[s] = "none"
    BY <1>5, <1>6 DEF IInv, BootsOnRecord
  <2> QED BY <1>1, <1>2, <1>6, <1>7, <2>1, <2>2 DEF BootsOnRecord
<1>14. LeasesPaired'
  <2>1. \A s \in Boots : boot[s].lease => boot[s].dev \in Claims
    BY DEF IInv, LeasesPaired, BootsOnRecord
  <2>2. \A s \in Boots : boot[s].lease => device'[boot[s].dev].state = "active"
    BY <1>9, <2>1 DEF IInv, LeasesPaired
  <2> QED BY <1>1, <1>2, <1>6, <1>7, <2>2 DEF IInv, LeasesPaired
<1>15. TokensMove'
  <2>1. \A s \in Boots : boot[s].at \in {"rotated", "prepared"} =>
           boot[s].dev \in Claims /\ boot[s].gen \in Nat /\ device[boot[s].dev].gen \in Nat
    BY DEF IInv, TypeOK, BootRequests, DeviceRows, BootsOnRecord
  <2>2. ASSUME NEW s \in Boots, boot'[s].at \in {"rotated", "prepared"}
        PROVE  boot'[s].gen < device'[boot'[s].dev].gen
    <3>1. CASE s = r
      BY <1>1, <1>4, <1>7, <1>9, <3>1 DEF DeviceRows
    <3>2. CASE s # r
      <4>1. boot'[s] = boot[s] /\ boot[s].gen < device[boot[s].dev].gen
        BY <1>6, <2>2, <3>2 DEF IInv, TokensMove
      <4> QED BY <1>6, <1>9, <2>1, <2>2, <3>2, <4>1
    <3> QED BY <3>1, <3>2
  <2> QED BY <2>2 DEF TokensMove
<1>16. RotationsOnRecord'
  <2> SUFFICES ASSUME NEW e \in Claims
               PROVE  device'[e].gen <= 1 + Cardinality(MayHaveRotated(e)')
    BY DEF RotationsOnRecord
  <2>1. IsFiniteSet(MayHaveRotated(e))
    <3>1. MayHaveRotated(e) \subseteq Boots
      BY DEF MayHaveRotated
    <3> QED BY <3>1, NamesAssumption, FS_Subset
  <2>2. Cardinality(MayHaveRotated(e)) \in Nat
        /\ device[e].gen <= 1 + Cardinality(MayHaveRotated(e)) /\ device[e].gen \in Nat
    BY <2>1, FS_CardinalityType DEF IInv, TypeOK, DeviceRows, RotationsOnRecord
  <2>3. CASE e = d
    <3>1. r \notin MayHaveRotated(d) /\ MayHaveRotated(d)' = MayHaveRotated(d) \cup {r}
      BY <1>1, <1>2, <1>5, <1>6, <1>7 DEF MayHaveRotated
    <3>2. Cardinality(MayHaveRotated(d)') = Cardinality(MayHaveRotated(d)) + 1
      BY <2>1, <2>3, <3>1, FS_AddElement
    <3>3. device'[e].gen = device[e].gen + 1
      BY <1>9, <2>3
    <3> QED BY <2>2, <2>3, <3>2, <3>3
  <2>4. CASE e # d
    <3>1. MayHaveRotated(e)' = MayHaveRotated(e)
      <4>1. r \notin MayHaveRotated(e) /\ r \notin MayHaveRotated(e)'
        BY <1>1, <1>7, <2>4 DEF MayHaveRotated
      <4>2. \A s \in Boots \ {r} : s \in MayHaveRotated(e)' <=> s \in MayHaveRotated(e)
        BY <1>5, <1>6 DEF MayHaveRotated
      <4>3. MayHaveRotated(e) \subseteq Boots /\ MayHaveRotated(e)' \subseteq Boots
        BY DEF MayHaveRotated
      <4> QED BY <4>1, <4>2, <4>3
    <3> QED BY <1>9, <2>2, <2>4, <3>1
  <2> QED BY <2>3, <2>4
<1> QED BY <1>10, <1>11, <1>12, <1>13, <1>14, <1>15, <1>16 DEF IInv

(* A step that moves one bootstrap on without a rotation and writes at most*)
(* its trail.                                                              *)
LEMMA BootMovesPreserves ==
  ASSUME IInv, NEW r \in Boots, NEW q \in BootRequests, NEW how \in Outcomes,
         boot' = [boot EXCEPT ![r] = q], trail' = [trail EXCEPT ![r] = how],
         boot[r].at # "idle", q.dev = boot[r].dev, q.lease => boot[r].lease,
         q.at \notin {"idle", "authed"},
         q.at \in {"rotated", "prepared"} =>
           boot[r].at \in {"rotated", "prepared"} /\ q.gen = boot[r].gen,
         r \in MayHaveRotated(boot[r].dev) =>
           how \notin {"none", "failed"} /\ q.at # "failed",
         Fault \/ UNCHANGED faults, UNCHANGED <<now, store, claim, cookie, tries>>
  PROVE  IInv'
<1>1. UNCHANGED <<code, device, source, total>>
  BY DEF store
<1>2. /\ trail' \in [Operations -> Outcomes] /\ trail'[r] = how
      /\ \A o \in Claims \cup Codes : trail'[o] = trail[o]
      /\ \A s \in Boots \ {r} : trail'[s] = trail[s]
  BY BootRecorded
<1>3. boot'[r] = q /\ \A s \in Boots \ {r} : boot'[s] = boot[s]
  BY DEF IInv, TypeOK
<1>4. TypeOK'
  BY <1>1, <1>2, FaultsTyped DEF IInv, TypeOK
<1>5. CodesOnRecord' /\ ClaimsOnRecord' /\ CookiesOnRecord'
  BY <1>1, <1>2, ClaimsKept
<1>6. DevicesFromCodes' /\ CodeSpentOnce'
  BY <1>1, Untouched DEF IInv
<1>7. BootsOnRecord'
  BY <1>1, <1>2, <1>3 DEF IInv, BootsOnRecord
<1>8. LeasesPaired'
  BY <1>1, <1>3 DEF IInv, LeasesPaired
<1>9. TokensMove'
  BY <1>1, <1>3 DEF IInv, TokensMove
<1>10. RotationsOnRecord'
  <2>1. \A e \in Claims : MayHaveRotated(e) \subseteq MayHaveRotated(e)'
    BY <1>2, <1>3 DEF MayHaveRotated
  <2> QED BY <1>1, <2>1, RotationsGrow DEF IInv
<1> QED BY <1>4, <1>5, <1>6, <1>7, <1>8, <1>9, <1>10 DEF IInv

(* No record: the trail is what it was. *)
LEMMA TrailKept ==
  ASSUME TypeOK, NEW r \in Boots
  PROVE  trail[r] \in Outcomes /\ trail = [trail EXCEPT ![r] = trail[r]]
  BY DEF TypeOK, Operations

(* A bootstrap the store refuses to rotate leaves the tokens as they were. *)
LEMMA RotateRefusedPreserves ==
  ASSUME IInv, NEW r \in Boots, RotateRefused(r)
  PROVE  IInv'
<1>1. PICK at \in {"failed", "incomplete"} : boot' = [boot EXCEPT ![r].at = at]
  BY DEF RotateRefused
<1>2. /\ boot[r].at = "authed" /\ trail[r] = "none"
      /\ trail' = [trail EXCEPT ![r] = "accepted"]
      /\ Fault \/ UNCHANGED faults
      /\ UNCHANGED <<now, store, claim, cookie, tries>>
  BY DEF RotateRefused, IInv, BootsOnRecord
<1> DEFINE q == [boot[r] EXCEPT !.at = at]
<1>3. q \in BootRequests
  BY RequestsTyped DEF IInv
<1>4. q.at = at /\ q.dev = boot[r].dev /\ q.lease = boot[r].lease
  BY DEF IInv, TypeOK, BootRequests
<1>5. boot' = [boot EXCEPT ![r] = q]
  BY <1>1
<1>6. r \notin MayHaveRotated(boot[r].dev) /\ "accepted" \in Outcomes
  BY <1>2 DEF MayHaveRotated, Outcomes
<1> HIDE DEF q
<1> QED BY <1>1, <1>2, <1>3, <1>4, <1>5, <1>6, BootMovesPreserves

(* The trail of a bootstrap is closed with what its rotation did.          *)
LEMMA FinishBootPreserves ==
  ASSUME IInv, NEW r \in Boots, FinishBoot(r)
  PROVE  IInv'
<1> DEFINE done == IF boot[r].at = "rotated" THEN "succeeded" ELSE boot[r].at
           p == [boot[r] EXCEPT !.at = "prepared"]
           z == Ended(boot[r], "ended")
<1>1. /\ boot[r].at \in {"rotated", "failed", "incomplete"}
      /\ Fault \/ UNCHANGED faults
      /\ UNCHANGED <<now, store, claim, cookie, tries>>
  BY DEF FinishBoot
<1>2. /\ p \in BootRequests /\ z \in BootRequests
      /\ z.at = "ended" /\ z.dev = boot[r].dev /\ z.lease = FALSE
  BY RequestsTyped DEF IInv
<1>3. /\ p.at = "prepared" /\ p.dev = boot[r].dev /\ p.lease = boot[r].lease
      /\ p.gen = boot[r].gen
  BY DEF IInv, TypeOK, BootRequests
<1>4. PICK q \in {p, z} : /\ boot' = [boot EXCEPT ![r] = q]
                          /\ q = p => boot[r].at = "rotated" \/ q = z
  BY DEF FinishBoot, IInv, TypeOK
<1>5. PICK how \in {done, trail[r]} : trail' = [trail EXCEPT ![r] = how]
  BY TrailKept DEF FinishBoot, IInv
<1>6. how \in Outcomes
  BY <1>1, <1>5, TrailKept DEF IInv, Outcomes
<1>7. r \in MayHaveRotated(boot[r].dev) => how \notin {"none", "failed"}
  BY <1>1, <1>5 DEF MayHaveRotated
<1> HIDE DEF done, p, z
<1> QED BY <1>1, <1>2, <1>3, <1>4, <1>5, <1>6, <1>7, BootMovesPreserves

(* The answer to a bootstrap carries the rotated token, or gets lost on its*)
(* way.                                                                    *)
LEMMA SendBootPreserves ==
  ASSUME IInv, NEW r \in Boots, SendBoot(r)
  PROVE  IInv'
<1>1. PICK how \in {"answered", "ended"} : boot' = [boot EXCEPT ![r] = Ended(boot[r], how)]
  BY DEF SendBoot
<1>2. /\ boot[r].at = "prepared" /\ trail' = [trail EXCEPT ![r] = trail[r]]
      /\ UNCHANGED <<now, store, claim, cookie, tries, faults>>
  BY TrailKept DEF SendBoot, IInv
<1>3. /\ Ended(boot[r], how) \in BootRequests /\ Ended(boot[r], how).at = how
      /\ Ended(boot[r], how).dev = boot[r].dev /\ Ended(boot[r], how).lease = FALSE
  BY RequestsTyped DEF IInv
<1>4. /\ trail[r] \in Outcomes
      /\ r \in MayHaveRotated(boot[r].dev) => trail[r] \notin {"none", "failed"}
  BY TrailKept DEF IInv, MayHaveRotated
<1> QED BY <1>1, <1>2, <1>3, <1>4, BootMovesPreserves

(* A revocation ends a device and takes back the leases of its bootstraps,*)
(* which stay where they are.                                              *)
LEMMA RevokePreserves ==
  ASSUME IInv, NEW d \in Claims, Revoke(d)
  PROVE  IInv'
<1>1. /\ device[d].state = "active" /\ device' = [device EXCEPT ![d].state = "revoked"]
      /\ UNCHANGED <<now, code, source, total, trail, claim, cookie, tries, faults>>
  BY DEF Revoke
<1>2. boot' = [r \in Boots |-> [boot[r] EXCEPT !.lease = boot[r].lease /\ boot[r].dev # d]]
  BY DEF Revoke, LeasesEnd
<1>3. /\ device' \in [Claims -> DeviceRows]
      /\ device'[d].state = "revoked" /\ \A e \in Claims \ {d} : device'[e] = device[e]
      /\ \A e \in Claims : /\ device'[e].state = "none" <=> device[e].state = "none"
                           /\ device'[e].gen = device[e].gen
                           /\ device'[e].code = device[e].code
                           /\ device'[e].created = device[e].created
  BY <1>1 DEF IInv, TypeOK, DeviceRows
<1>4. \A r \in Boots : /\ boot'[r] \in BootRequests
                       /\ boot'[r].at = boot[r].at /\ boot'[r].dev = boot[r].dev
                       /\ boot'[r].gen = boot[r].gen
                       /\ boot'[r].lease = (boot[r].lease /\ boot[r].dev # d)
  <2> TAKE r \in Boots
  <2>1. boot[r] \in BootRequests
    BY DEF IInv, TypeOK
  <2> DEFINE l == boot[r].lease /\ boot[r].dev # d
  <2>2. boot'[r] = [boot[r] EXCEPT !.lease = l]
    BY <1>2
  <2>3. l \in BOOLEAN
    OBVIOUS
  <2>4. boot'[r].lease = l
    BY <2>1, <2>2 DEF BootRequests
  <2> HIDE DEF l
  <2>5. /\ boot'[r] \in BootRequests /\ boot'[r].at = boot[r].at
        /\ boot'[r].dev = boot[r].dev /\ boot'[r].gen = boot[r].gen
    BY <2>1, <2>2, <2>3 DEF BootRequests
  <2> QED BY <2>4, <2>5 DEF l
<1>5. TypeOK'
  BY <1>1, <1>2, <1>3, <1>4 DEF IInv, TypeOK
<1>6. CodesOnRecord' /\ CookiesOnRecord'
  BY <1>1, Untouched DEF IInv
<1>7. ClaimsOnRecord'
  BY <1>1, <1>3 DEF IInv, ClaimsOnRecord
<1>8. DevicesFromCodes' /\ CodeSpentOnce'
  BY <1>1, <1>3, DevicesKept
<1>9. BootsOnRecord'
  BY <1>1, <1>3, <1>4 DEF IInv, BootsOnRecord
<1>10. LeasesPaired'
  <2>1. \A r \in Boots : boot[r].lease => boot[r].dev \in Claims
    BY DEF IInv, LeasesPaired, BootsOnRecord
  <2>2. ASSUME NEW r \in Boots, boot'[r].lease
        PROVE  boot'[r].at # "idle" /\ device'[boot'[r].dev].state = "active"
    <3>1. boot[r].lease /\ boot[r].dev # d
      BY <1>4, <2>2
    <3>2. device'[boot[r].dev] = device[boot[r].dev]
      BY <1>3, <2>1, <3>1
    <3> QED BY <1>4, <3>1, <3>2 DEF IInv, LeasesPaired
  <2> QED BY <2>2 DEF LeasesPaired
<1>11. TokensMove'
  <2>1. \A r \in Boots : boot[r].at \in {"rotated", "prepared"} => boot[r].dev \in Claims
    BY DEF IInv, BootsOnRecord
  <2> QED BY <1>3, <1>4, <2>1 DEF IInv, TokensMove
<1>12. RotationsOnRecord'
  <2>1. \A e \in Claims : MayHaveRotated(e) \subseteq MayHaveRotated(e)'
    BY <1>1, <1>4 DEF MayHaveRotated
  <2> QED BY <1>3, <2>1, RotationsGrow DEF IInv
<1> QED BY <1>5, <1>6, <1>7, <1>8, <1>9, <1>10, <1>11, <1>12 DEF IInv

----------------------------------------------------------------------------
(* The surroundings.                                                       *)

LEMMA ClockPreserves ==
  ASSUME IInv, Tick \/ ClockSetBack
  PROVE  IInv'
<1>1. /\ now' \in 0..MaxTime
      /\ Fault \/ UNCHANGED faults
      /\ UNCHANGED <<code, device, source, total, trail, claim, boot, cookie, tries>>
  <2>1. now \in 0..MaxTime /\ MaxTime \in Nat
    BY PolicyAssumption DEF IInv, TypeOK
  <2>2. CASE Tick
    BY <2>1, <2>2 DEF Tick, store
  <2>3. CASE ClockSetBack
    BY <2>1, <2>3 DEF ClockSetBack, store
  <2> QED BY <2>2, <2>3
<1>2. faults' \in 0..MaxFaults
  BY <1>1, FaultsTyped DEF IInv
<1>3. UNCHANGED <<code, device, source, total, trail, claim, boot, cookie, tries>>
  BY <1>1
<1>4. TypeOK'
  <2>1. now' \in 0..MaxTime
    BY <1>1
  <2> QED BY <1>2, <1>3, <2>1 DEF IInv, TypeOK
<1> QED BY <1>3, <1>4, Untouched DEF IInv

(* The ingress is withdrawn under the requests that are on their way.      *)
LEMMA IngressWithdrawnPreserves ==
  ASSUME IInv, IngressWithdrawn
  PROVE  IInv'
<1>1. /\ claim' = [r \in Claims |-> [claim[r] EXCEPT !.fresh = claim[r].at \in {"idle", "ended"}]]
      /\ boot' = [r \in Boots |->
           [boot[r] EXCEPT !.fresh = boot[r].at \in {"idle", "answered", "ended"}]]
      /\ UNCHANGED <<now, code, device, source, total, trail, cookie, tries>>
      /\ Fault
  BY DEF IngressWithdrawn, store
<1>2. \A r \in Claims : /\ claim'[r] \in ClaimRequests /\ claim'[r].at = claim[r].at
                        /\ claim'[r].from = claim[r].from
  <2> TAKE r \in Claims
  <2> DEFINE f == claim[r].at \in {"idle", "ended"}
  <2>1. claim'[r] = [claim[r] EXCEPT !.fresh = f] /\ f \in BOOLEAN /\ claim[r] \in ClaimRequests
    BY <1>1 DEF IInv, TypeOK
  <2> HIDE DEF f
  <2> QED BY <2>1 DEF ClaimRequests
<1>3. \A r \in Boots : /\ boot'[r] \in BootRequests /\ boot'[r].at = boot[r].at
                       /\ boot'[r].dev = boot[r].dev /\ boot'[r].gen = boot[r].gen
                       /\ boot'[r].lease = boot[r].lease
  <2> TAKE r \in Boots
  <2> DEFINE f == boot[r].at \in {"idle", "answered", "ended"}
  <2>1. boot'[r] = [boot[r] EXCEPT !.fresh = f] /\ f \in BOOLEAN /\ boot[r] \in BootRequests
    BY <1>1 DEF IInv, TypeOK
  <2> HIDE DEF f
  <2> QED BY <2>1 DEF BootRequests
<1>4. TypeOK'
  BY <1>1, <1>2, <1>3, FaultsTyped DEF IInv, TypeOK
<1>5. CodesOnRecord' /\ DevicesFromCodes' /\ CodeSpentOnce' /\ CookiesOnRecord'
  BY <1>1, Untouched DEF IInv
<1>6. ClaimsOnRecord'
  BY <1>1, <1>2 DEF IInv, ClaimsOnRecord
<1>7. BootsOnRecord' /\ LeasesPaired' /\ TokensMove'
  BY <1>1, <1>3 DEF IInv, BootsOnRecord, LeasesPaired, TokensMove
<1>8. RotationsOnRecord'
  <2>1. \A e \in Claims : MayHaveRotated(e) \subseteq MayHaveRotated(e)'
    BY <1>1, <1>3 DEF MayHaveRotated
  <2> QED BY <1>1, <2>1, RotationsGrow DEF IInv
<1> QED BY <1>4, <1>5, <1>6, <1>7, <1>8 DEF IInv

(* The stop ends every request, and what the next start writes makes no    *)
(* trail a failure or a success.                                           *)
LEMMA RestartPreserves ==
  ASSUME IInv, Restart
  PROVE  IInv'
<1>1. PICK last \in SUBSET ({r \in Claims : claim[r].at = "arrived"}
                            \cup {r \in Boots : boot[r].at = "authed"}) :
      \E missed \in SUBSET (last \cup {o \in Operations : trail[o] = "accepted"}) :
         trail' = [o \in Operations |->
           CASE o \in missed -> "accepted"
             [] o \in (last \cup {p \in Operations : trail[p] = "accepted"}) \ missed -> "incomplete"
             [] OTHER -> trail[o]]
  BY DEF Restart
<1>2. /\ claim' = [r \in Claims |-> IF claim[r].at = "idle" THEN claim[r] ELSE Over]
      /\ boot' = [r \in Boots |->
           IF boot[r].at \in {"idle", "answered"} THEN boot[r] ELSE Ended(boot[r], "ended")]
      /\ Fault /\ UNCHANGED <<now, code, device, source, total, cookie, tries>>
  BY DEF Restart, store
<1>3. PICK missed \in SUBSET (last \cup {o \in Operations : trail[o] = "accepted"}) :
         trail' = [o \in Operations |->
           CASE o \in missed -> "accepted"
             [] o \in (last \cup {p \in Operations : trail[p] = "accepted"}) \ missed -> "incomplete"
             [] OTHER -> trail[o]]
  BY <1>1
<1>4. \A o \in Operations :
        /\ o \in last \/ trail[o] = "accepted" => trail'[o] \in {"accepted", "incomplete"}
        /\ o \notin last /\ trail[o] # "accepted" => trail'[o] = trail[o]
  BY <1>3
<1>5. \A r \in Claims : /\ claim'[r] \in ClaimRequests
                        /\ claim'[r].at \in {"idle", "ended"}
                        /\ claim'[r].at = "idle" => claim[r].at = "idle"
  BY <1>2, OverTyped DEF IInv, TypeOK
<1>6. \A r \in Boots :
        /\ boot'[r] \in BootRequests
        /\ boot'[r].at \in {"idle", "answered", "ended"} /\ boot'[r].dev = boot[r].dev
        /\ boot'[r].at = "idle" <=> boot[r].at = "idle"
        /\ boot'[r].lease => boot[r].lease
  <2> TAKE r \in Boots
  <2>1. boot[r] \in BootRequests /\ Ended(boot[r], "ended") \in BootRequests
        /\ Ended(boot[r], "ended").at = "ended" /\ Ended(boot[r], "ended").dev = boot[r].dev
        /\ Ended(boot[r], "ended").lease = FALSE
    BY RequestsTyped DEF IInv
  <2>2. CASE boot[r].at \in {"idle", "answered"}
    BY <1>2, <2>1, <2>2
  <2>3. CASE boot[r].at \notin {"idle", "answered"}
    BY <1>2, <2>1, <2>3
  <2> QED BY <2>2, <2>3
<1>7. \A r \in Claims : r \in last => claim[r].at = "arrived"
  BY <1>1, NamesAssumption
<1>8. \A r \in Boots : r \in last => boot[r].at = "authed"
  BY <1>1, NamesAssumption
<1>9. \A c \in Codes : c \notin last
  BY <1>1, NamesAssumption
<1>10. TypeOK'
  <2>1. trail' \in [Operations -> Outcomes]
    <3>1. \A o \in Operations : trail'[o] \in Outcomes
      BY <1>4 DEF IInv, TypeOK, Outcomes
    <3> QED BY <1>3, <3>1
  <2>2. claim' \in [Claims -> ClaimRequests] /\ boot' \in [Boots -> BootRequests]
    BY <1>2, <1>5, <1>6
  <2> QED BY <1>2, <2>1, <2>2, FaultsTyped DEF IInv, TypeOK
<1>11. CodesOnRecord'
  BY <1>2, <1>4, <1>9 DEF IInv, CodesOnRecord, Operations
<1>12. DevicesFromCodes' /\ CodeSpentOnce'
  BY <1>2, Untouched DEF IInv
<1>13. ClaimsOnRecord'
  <2> SUFFICES ASSUME NEW r \in Claims
               PROVE  /\ claim'[r].at = "idle" => trail'[r] = "none" /\ device'[r].state = "none"
                      /\ trail'[r] = "failed" => device'[r].state = "none"
                      /\ trail'[r] = "succeeded" => device'[r].state # "none"
                      /\ device'[r].state # "none" => trail'[r] # "none"
    BY <1>5 DEF ClaimsOnRecord
  <2>1. r \in Operations /\ device'[r] = device[r]
    BY <1>2 DEF Operations
  <2>2. r \in last => claim[r].at = "arrived" /\ device[r].state = "none"
    BY <1>7 DEF IInv, ClaimsOnRecord
  <2> QED BY <1>4, <1>5, <2>1, <2>2 DEF IInv, ClaimsOnRecord
<1>14. CookiesOnRecord'
  <2>1. \A d \in cookie : d \in Operations /\ trail[d] = "succeeded" /\ d \notin last
    BY <1>7 DEF IInv, TypeOK, CookiesOnRecord, ClaimsOnRecord, Operations
  <2> QED BY <1>2, <1>4, <2>1 DEF CookiesOnRecord
<1>15. BootsOnRecord'
  <2> SUFFICES ASSUME NEW r \in Boots
               PROVE  /\ boot'[r].at = "idle" => trail'[r] = "none"
                      /\ boot'[r].at # "idle" =>
                           boot'[r].dev \in Claims /\ device'[boot'[r].dev].state # "none"
    BY <1>6 DEF BootsOnRecord
  <2>1. boot'[r].at = "idle" => trail'[r] = "none"
    BY <1>4, <1>6, <1>8 DEF IInv, BootsOnRecord, Operations
  <2> QED BY <1>2, <1>6, <2>1 DEF IInv, BootsOnRecord
<1>16. LeasesPaired' /\ TokensMove'
  BY <1>2, <1>6 DEF IInv, LeasesPaired, TokensMove
<1>17. RotationsOnRecord'
  <2>1. \A e \in Claims : MayHaveRotated(e) \subseteq MayHaveRotated(e)'
    BY <1>4, <1>6 DEF MayHaveRotated, Operations
  <2> QED BY <1>2, <2>1, RotationsGrow DEF IInv
<1> QED BY <1>10, <1>11, <1>12, <1>13, <1>14, <1>15, <1>16, <1>17 DEF IInv

(* Every step preserves the invariant.                                     *)
LEMMA StepPreserves == IInv /\ [Next]_vars => IInv'
<1> SUFFICES ASSUME IInv, [Next]_vars PROVE IInv'
  OBVIOUS
<1>1. ASSUME NEW c \in Codes, Issue(c) PROVE IInv'
  BY <1>1, IssuePreserves
<1>2. ASSUME NEW r \in Claims,
             \/ Arrive(r) \/ Overloaded(r) \/ ClaimStale(r) \/ ClaimFails(r)
             \/ ClaimTimeConflict(r) \/ ClaimLimited(r) \/ ClaimRefused(r) \/ ClaimGranted(r)
             \/ FinishClaim(r) \/ SendClaim(r) \/ Revoke(r)
      PROVE  IInv'
  BY <1>2, ArrivePreserves, OverloadedPreserves, ClaimEndsPreserves, ClaimLimitedPreserves,
     ClaimRefusedPreserves, ClaimGrantedPreserves, FinishClaimPreserves, SendClaimPreserves,
     RevokePreserves
<1>3. ASSUME NEW r \in Boots,
             Authenticate(r) \/ Rotate(r) \/ RotateRefused(r) \/ FinishBoot(r) \/ SendBoot(r)
      PROVE  IInv'
  BY <1>3, AuthenticatePreserves, RotatePreserves, RotateRefusedPreserves, FinishBootPreserves,
     SendBootPreserves
<1>4. CASE Tick \/ ClockSetBack \/ IngressWithdrawn \/ Restart
  BY <1>4, ClockPreserves, IngressWithdrawnPreserves, RestartPreserves
<1>5. CASE UNCHANGED vars
  <2>1. UNCHANGED <<now, code, device, source, total, trail, claim, boot, cookie, tries, faults>>
    BY <1>5 DEF vars, store
  <2>2. TypeOK'
    BY <2>1 DEF IInv, TypeOK
  <2> QED BY <2>1, <2>2, Untouched DEF IInv
<1> QED BY <1>1, <1>2, <1>3, <1>4, <1>5 DEF Next

(* At first there is no code, no device and no request. *)
LEMMA InitEstablishes == Init => IInv
<1> SUFFICES ASSUME Init PROVE IInv
  OBVIOUS
<1>1. TypeOK
  <2>1. NoRow \in RateRows /\ NoDevice \in DeviceRows
    BY DEF NoRow, RateRows, NoDevice, DeviceRows
  <2>2. code \in [Codes -> CodeRows] /\ trail \in [Operations -> Outcomes]
    BY DEF Init, CodeRows, Outcomes
  <2>3. claim \in [Claims -> ClaimRequests] /\ boot \in [Boots -> BootRequests]
    BY DEF Init, ClaimRequests, BootRequests
  <2>4. tries \in Seq(Attempts)
    BY DEF Init
  <2>5. now \in 0..MaxTime /\ faults \in 0..MaxFaults
    BY PolicyAssumption DEF Init
  <2> QED BY <2>1, <2>2, <2>3, <2>4, <2>5 DEF Init, TypeOK
<1>2. CodesOnRecord /\ DevicesFromCodes /\ CodeSpentOnce /\ ClaimsOnRecord /\ CookiesOnRecord
  BY DEF Init, NoDevice, Operations, CodesOnRecord, DevicesFromCodes, CodeSpentOnce,
         ClaimsOnRecord, CookiesOnRecord
<1>3. BootsOnRecord /\ LeasesPaired /\ TokensMove
  BY DEF Init, Operations, BootsOnRecord, LeasesPaired, TokensMove
<1>4. RotationsOnRecord
  <2>1. \A d \in Claims : device[d].gen = 0 /\ MayHaveRotated(d) = {}
    BY DEF Init, NoDevice, Operations, MayHaveRotated
  <2> QED BY <2>1, FS_EmptySet DEF RotationsOnRecord
<1> QED BY <1>1, <1>2, <1>3, <1>4 DEF IInv

(* The invariant of the pairing, for any number of codes, claims, browsers *)
(* and bootstraps and any limits and lifetimes.                            *)
THEOREM InvariantHolds == Spec => []IInv
  BY InitEstablishes, StepPreserves, PTL DEF Spec

(* The rows, the requests and the windows have the types the code gives    *)
(* them.                                                                   *)
THEOREM TypeCorrect == Spec => []TypeOK
<1>1. IInv => TypeOK
  BY DEF IInv
<1> QED BY <1>1, InvariantHolds, PTL

(* A code makes at most one device, and only while it is valid             *)
(* (claimTransaction).                                                     *)
THEOREM CodeSpentOnceHolds == Spec => []CodeSpentOnce
<1>1. IInv => CodeSpentOnce
  BY DEF IInv
<1> QED BY <1>1, InvariantHolds, PTL

(* No trail says failed of what took effect or succeeded of what did not,  *)
(* and a browser holds a cookie only of a claim on record as succeeded     *)
(* (execute, recordTerminal, reconcileSelectedAuditOrphansBatch).          *)
THEOREM TrailsTrueHolds == Spec => []TrailsTrue
<1>1. ASSUME IInv PROVE TrailsTrue
  <2>1. ASSUME NEW d \in Claims
        PROVE  device[d].gen <=
          1 + Cardinality({r \in Boots : boot[r].dev = d /\ trail[r] \notin {"none", "failed"}})
    <3> DEFINE R == {r \in Boots : boot[r].dev = d /\ trail[r] \notin {"none", "failed"}}
    <3>1. IsFiniteSet(R)
      <4>1. R \subseteq Boots
        OBVIOUS
      <4> QED BY <4>1, NamesAssumption, FS_Subset
    <3>2. MayHaveRotated(d) \subseteq R
      BY DEF MayHaveRotated
    <3> HIDE DEF R
    <3>3. IsFiniteSet(MayHaveRotated(d)) /\ Cardinality(MayHaveRotated(d)) <= Cardinality(R)
      BY <3>1, <3>2, FS_Subset
    <3>4. Cardinality(MayHaveRotated(d)) \in Nat /\ Cardinality(R) \in Nat
      BY <3>1, <3>3, FS_CardinalityType
    <3>5. device[d].gen \in Nat /\ device[d].gen <= 1 + Cardinality(MayHaveRotated(d))
      BY <1>1 DEF IInv, TypeOK, DeviceRows, RotationsOnRecord
    <3>6. device[d].gen <= 1 + Cardinality(R)
      BY <3>3, <3>4, <3>5
    <3> QED BY <3>6 DEF R
  <2>2. \A r \in Claims : /\ trail[r] = "failed" => device[r].state = "none"
                          /\ trail[r] = "succeeded" => device[r].state # "none"
                          /\ device[r].state # "none" => trail[r] # "none"
    BY <1>1 DEF IInv, ClaimsOnRecord
  <2>3. \A d \in cookie : trail[d] = "succeeded"
    BY <1>1 DEF IInv, CookiesOnRecord
  <2> QED BY <2>1, <2>2, <2>3 DEF TrailsTrue
<1> QED BY <1>1, InvariantHolds, PTL

(* A bootstrap is answered with a token only to a device that is still     *)
(* paired, over the ingress it came through, and with a generation the     *)
(* device has moved beyond (requireCurrentAuthority, the onSend hook).     *)
THEOREM NoStaleAnswerHolds == Spec => NoStaleAnswer
<1> DEFINE Fresh ==
      \A r \in Boots : boot[r].at # "answered" /\ boot'[r].at = "answered" =>
        LET d == boot[r].dev IN
        device[d].state = "active" /\ boot[r].fresh /\ boot[r].gen < device[d].gen
<1>1. ASSUME IInv, Next PROVE Fresh
  <2> SUFFICES ASSUME NEW r \in Boots, boot[r].at # "answered", boot'[r].at = "answered"
               PROVE  /\ device[boot[r].dev].state = "active" /\ boot[r].fresh
                      /\ boot[r].gen < device[boot[r].dev].gen
    OBVIOUS
  <2>1. boot[r] \in BootRequests /\ boot \in [Boots -> BootRequests]
    BY <1>1 DEF IInv, TypeOK
  <2>2. CASE SendBoot(r)
    <3>1. Current(r)
      BY <2>1, <2>2 DEF SendBoot, Ended, BootRequests
    <3> QED BY <1>1, <2>2, <3>1 DEF SendBoot, Current, IInv, LeasesPaired, TokensMove
  <2>3. ASSUME NEW s \in Boots \ {r},
               Authenticate(s) \/ Rotate(s) \/ RotateRefused(s) \/ FinishBoot(s) \/ SendBoot(s)
        PROVE  FALSE
    <3>1. boot'[r] = boot[r]
      BY <2>1, <2>3 DEF Authenticate, Rotate, RotateRefused, FinishBoot, SendBoot
    <3> QED BY <3>1
  <2>4. CASE Authenticate(r) \/ Rotate(r) \/ RotateRefused(r) \/ FinishBoot(r)
    <3>1. CASE Authenticate(r) \/ Rotate(r)
      BY <2>1, <3>1 DEF Authenticate, Rotate, BootRequests
    <3>2. CASE RotateRefused(r)
      BY <2>1, <3>2 DEF RotateRefused, BootRequests
    <3>3. CASE FinishBoot(r)
      <4>1. boot' \in {[boot EXCEPT ![r] = q] :
                        q \in {[boot[r] EXCEPT !.at = "prepared"], Ended(boot[r], "ended")}}
        BY <3>3 DEF FinishBoot
      <4>2. boot'[r] \in {[boot[r] EXCEPT !.at = "prepared"], Ended(boot[r], "ended")}
        BY <2>1, <4>1
      <4>3. boot'[r].at \in {"prepared", "ended"}
        BY <2>1, <4>2 DEF Ended, BootRequests
      <4> QED BY <4>3
    <3> QED BY <2>4, <3>1, <3>2, <3>3
  <2>5. ASSUME NEW d \in Claims, Revoke(d) PROVE FALSE
    BY <2>1, <2>5 DEF Revoke, LeasesEnd, BootRequests
  <2>6. CASE IngressWithdrawn
    BY <2>1, <2>6 DEF IngressWithdrawn, BootRequests
  <2>7. CASE Restart
    BY <2>1, <2>7, RequestsTyped, <1>1 DEF Restart, IInv
  <2>8. CASE UNCHANGED boot
    BY <2>8
  <2> QED BY <1>1, <2>2, <2>3, <2>4, <2>5, <2>6, <2>7, <2>8
          DEF Next, Issue, Arrive, Overloaded, ClaimStale, ClaimFails, ClaimTimeConflict,
              ClaimLimited, ClaimRefused, ClaimGranted, Outcome, FinishClaim, SendClaim, Tick,
              ClockSetBack
<1>2. IInv /\ [Next]_vars => [Fresh]_vars
  BY <1>1 DEF vars
<1>3. Spec => [][Fresh]_vars
  BY <1>2, InvariantHolds, PTL DEF Spec
<1> QED BY <1>3 DEF NoStaleAnswer

----------------------------------------------------------------------------
(* The attempts against the fixed windows.                                *)

(* A row of the rate tables tells the truth about the attempts q of the    *)
(* browsers B it counts: none came later than its last one, those since    *)
(* its window began are counted, the window began with one of them, and    *)
(* the window before it left less than the allowance within reach.         *)
Reachable(q, B, t) == {i \in Guesses(q, B, 0, t) : t < q[i].at + Window}
RowTrue(q, latest, row, B, max) ==
  /\ row.count <= max /\ row.start <= row.last
  /\ row.last < row.start + Window /\ row.last <= latest
  /\ \A i \in 1..Len(q) : q[i].by \in B => q[i].at <= row.last
  /\ Cardinality(Guesses(q, B, row.start, row.last + 1)) <= row.count
  /\ Cardinality(Guesses(q, B, row.start + 1, row.last + 1)) < row.count
  /\ Cardinality(Reachable(q, B, row.start)) < max

(* Without a row, the last attempt is a whole window old.                  *)
Idle(q, latest, B) == \A i \in 1..Len(q) : q[i].by \in B => q[i].at + Window <= latest

(* The sources that have a row.                                            *)
Tracked == {b \in Browsers : source[b].count > 0}

(* All the rows tell the truth, those that are gone counted none of late,  *)
(* and there is a row for all browsers before there is one of any.         *)
RatesTrue ==
  /\ total.count = 0 => tries = <<>> /\ Tracked = {}
  /\ total.count > 0 => RowTrue(tries, total.last, total, Browsers, MaxGlobal)
  /\ \A b \in Browsers :
       IF source[b].count > 0 THEN RowTrue(tries, total.last, source[b], {b}, MaxPerSource)
       ELSE Idle(tries, total.last, {b})
(* The table of sources is never over its limit (readTrackedSourceCount).  *)
SourcesTracked == IsFiniteSet(Tracked) /\ Cardinality(Tracked) <= MaxTracked

(* An attempt is one of a browser, at a tick.                              *)
LEMMA AttemptTyped ==
  ASSUME NEW q \in Seq(Attempts), NEW i \in 1..Len(q)
  PROVE  q[i] \in Attempts /\ q[i].by \in Browsers /\ q[i].at \in Nat
<1>1. q[i] \in Attempts
  OBVIOUS
<1> QED BY <1>1, PolicyAssumption DEF Attempts

(* A set of attempts is finite.                                            *)
LEMMA SomeAttempts ==
  ASSUME NEW q \in Seq(Attempts), NEW S \in SUBSET (1..Len(q)), NEW T \in SUBSET S
  PROVE  /\ IsFiniteSet(S) /\ Cardinality(S) \in Nat
         /\ Cardinality(T) \in Nat /\ Cardinality(T) <= Cardinality(S)
<1>1. Len(q) \in Nat
  OBVIOUS
<1>2. IsFiniteSet(1..Len(q))
  BY <1>1, FS_Interval
<1>3. IsFiniteSet(S)
  BY <1>2, FS_Subset
<1>4. IsFiniteSet(T) /\ Cardinality(T) <= Cardinality(S)
  BY <1>3, FS_Subset
<1> QED BY <1>3, <1>4, FS_CardinalityType

(* Two sets of attempts are together no more than one after the other.     *)
LEMMA AttemptsTogether ==
  ASSUME NEW q \in Seq(Attempts), NEW S \in SUBSET (1..Len(q)), NEW T \in SUBSET (1..Len(q)),
         NEW U \in SUBSET (S \cup T)
  PROVE  Cardinality(U) \in Nat /\ Cardinality(U) <= Cardinality(S) + Cardinality(T)
<1>1. /\ IsFiniteSet(S) /\ IsFiniteSet(T)
      /\ Cardinality(S) \in Nat /\ Cardinality(T) \in Nat
  BY SomeAttempts
<1>2. /\ IsFiniteSet(S \cup T)
      /\ Cardinality(S \cup T) = Cardinality(S) + Cardinality(T) - Cardinality(S \cap T)
  BY <1>1, FS_Union
<1>3. Cardinality(S \cap T) \in Nat
  BY <1>1, FS_Intersection, FS_CardinalityType
<1>4. Cardinality(U) <= Cardinality(S \cup T) /\ Cardinality(U) \in Nat
  BY <1>2, FS_Subset, FS_CardinalityType
<1>5. Cardinality(S \cup T) \in Nat
  BY <1>2, FS_CardinalityType
<1> QED BY <1>1, <1>2, <1>3, <1>4, <1>5

(* The attempts of a stretch that reaches beyond the last one.             *)
LEMMA StretchBounded ==
  ASSUME NEW q \in Seq(Attempts), NEW B, NEW row \in RateRows, NEW max \in Nat \ {0}, NEW latest,
         RowTrue(q, latest, row, B, max), NEW t \in Nat, row.last < t + Window
  PROVE  Cardinality(Guesses(q, B, t, t + Window)) < 2 * max
<1> DEFINE G == Guesses(q, B, t, t + Window)
           C == Guesses(q, B, row.start, row.last + 1)
           R == Reachable(q, B, row.start)
<1>1. /\ row.start \in Nat /\ row.last \in Nat /\ row.count \in Nat /\ Window \in Nat
      /\ row.count <= max /\ row.start <= row.last
      /\ \A i \in 1..Len(q) : q[i].by \in B => q[i].at <= row.last
      /\ Cardinality(C) <= row.count /\ Cardinality(R) < max
  BY PolicyAssumption DEF RateRows, RowTrue
<1>2. \A i \in 1..Len(q) : q[i].at \in Nat
  BY AttemptTyped
<1>3. C \in SUBSET (1..Len(q)) /\ R \in SUBSET (1..Len(q))
  BY DEF Guesses, Reachable
<1>4. G \in SUBSET (C \cup R)
  <2> SUFFICES ASSUME NEW i \in G PROVE i \in C \cup R
    OBVIOUS
  <2>1. /\ i \in 1..Len(q) /\ q[i].by \in B /\ q[i].at \in Nat
        /\ t <= q[i].at /\ q[i].at < t + Window /\ q[i].at <= row.last
    BY <1>1, <1>2 DEF Guesses
  <2>2. CASE row.start <= q[i].at
    BY <1>1, <2>1, <2>2 DEF Guesses
  <2>3. CASE q[i].at < row.start
    <3>1. row.start < q[i].at + Window
      BY <1>1, <2>1
    <3> QED BY <2>1, <2>3, <3>1 DEF Guesses, Reachable
  <2> QED BY <1>1, <2>1, <2>2, <2>3
<1> HIDE DEF G, C, R
<1>5. Cardinality(G) \in Nat /\ Cardinality(G) <= Cardinality(C) + Cardinality(R)
  BY <1>3, <1>4, AttemptsTogether
<1>6. Cardinality(C) \in Nat /\ Cardinality(R) \in Nat
  BY <1>3, SomeAttempts
<1>7. Cardinality(G) < 2 * max
  BY <1>1, <1>5, <1>6
<1> QED BY <1>7 DEF G

(* One more attempt, at a tick that none lies behind.                      *)
LEMMA OneMore ==
  ASSUME NEW q \in Seq(Attempts), NEW e \in Attempts, NEW B
  PROVE  /\ Append(q, e) \in Seq(Attempts) /\ Len(Append(q, e)) = Len(q) + 1
         /\ Append(q, e)[Len(q) + 1] = e
         /\ \A i \in 1..Len(q) : Append(q, e)[i] = q[i]
         /\ \A f, t : Guesses(Append(q, e), B, f, t) =
              Guesses(q, B, f, t) \cup
                {i \in {Len(q) + 1} : e.by \in B /\ f <= e.at /\ e.at < t}
<1>1. Len(q) \in Nat /\ 1..Len(Append(q, e)) = 1..Len(q) \cup {Len(q) + 1}
  OBVIOUS
<1>2. Append(q, e)[Len(q) + 1] = e /\ \A i \in 1..Len(q) : Append(q, e)[i] = q[i]
  OBVIOUS
<1>3. ASSUME NEW f, NEW t
      PROVE  Guesses(Append(q, e), B, f, t) =
              Guesses(q, B, f, t) \cup
                {i \in {Len(q) + 1} : e.by \in B /\ f <= e.at /\ e.at < t}
  BY <1>1, <1>2 DEF Guesses
<1> QED BY <1>2, <1>3

(* Counting adds one to the window and dates it now (writeRateSource).      *)
LEMMA CountedRow ==
  ASSUME NEW row \in RateRows, now \in Nat
  PROVE  /\ CurrentWindow(row) \in RateRows
         /\ Counted(row) \in RateRows /\ Counted(row).start = CurrentWindow(row).start
         /\ Counted(row).count = CurrentWindow(row).count + 1 /\ Counted(row).last = now
<1>1. CurrentWindow(row) \in RateRows
  BY DEF RateRows, CurrentWindow, NoRow
<1>2. ASSUME NEW w \in RateRows
      PROVE  /\ [w EXCEPT !.count = @ + 1, !.last = now] \in RateRows
             /\ [w EXCEPT !.count = @ + 1, !.last = now].start = w.start
             /\ [w EXCEPT !.count = @ + 1, !.last = now].count = w.count + 1
             /\ [w EXCEPT !.count = @ + 1, !.last = now].last = now
  <2>1. w.start \in Nat /\ w.count \in Nat /\ w.count + 1 \in Nat
    BY DEF RateRows
  <2>2. [w EXCEPT !.count = @ + 1, !.last = now] \in RateRows
    BY <2>1 DEF RateRows
  <2>3. [w EXCEPT !.count = @ + 1, !.last = now].start = w.start
    BY DEF RateRows
  <2>4. [w EXCEPT !.count = @ + 1, !.last = now].count = w.count + 1
    BY DEF RateRows
  <2>5. [w EXCEPT !.count = @ + 1, !.last = now].last = now
    BY DEF RateRows
  <2> QED BY <2>2, <2>3, <2>4, <2>5
<1>3. Counted(row) = [CurrentWindow(row) EXCEPT !.count = @ + 1, !.last = now]
  BY DEF Counted
<1> HIDE DEF CurrentWindow
<1> QED BY <1>1, <1>2, <1>3

(* The row of the browsers that made an attempt still tells the truth once *)
(* it is counted (currentWindow, writeRateSource).                         *)
LEMMA CountedTrue ==
  ASSUME NEW q \in Seq(Attempts), NEW b \in Browsers, NEW B, b \in B, now \in 0..MaxTime,
         NEW row \in RateRows, NEW max \in Nat \ {0}, NEW latest,
         CurrentWindow(row).count < max,
         row.count = 0 => Idle(q, now, B),
         row.count > 0 => RowTrue(q, latest, row, B, max) /\ row.last <= now
  PROVE  /\ Counted(row) \in RateRows /\ Counted(row).count > 0 /\ Counted(row).last = now
         /\ RowTrue(Append(q, [by |-> b, at |-> now]), now, Counted(row), B, max)
<1> DEFINE e == [by |-> b, at |-> now]
           p == Append(q, e)
           next == Counted(row)
<1>1. /\ now \in Nat /\ Window \in Nat /\ Window > 0
      /\ row.start \in Nat /\ row.count \in Nat /\ row.last \in Nat
  BY PolicyAssumption DEF RateRows
<1>2. /\ e \in Attempts /\ e.by = b /\ e.at = now
      /\ p \in Seq(Attempts) /\ Len(p) = Len(q) + 1 /\ p[Len(q) + 1] = e
      /\ \A i \in 1..Len(q) : p[i] = q[i]
  BY OneMore DEF Attempts
<1>3. \A f, t : Guesses(p, B, f, t) =
                 Guesses(q, B, f, t) \cup {i \in {Len(q) + 1} : f <= now /\ now < t}
  BY <1>2, OneMore
<1>4. \A i \in 1..Len(q) : q[i].at \in Nat
  BY AttemptTyped
<1>5. Len(q) \in Nat /\ 1..Len(p) = 1..Len(q) \cup {Len(q) + 1}
  BY <1>2
<1> HIDE DEF e, p
<1>6. CASE row.count = 0 \/ row.start + Window <= now
  <2>0. CurrentWindow(row) = [start |-> now, count |-> 0, last |-> 0]
    BY <1>6 DEF CurrentWindow, NoRow
  <2>1. next.start = now /\ next.count = 1 /\ next.last = now
    <3>1. CurrentWindow(row).start = now /\ CurrentWindow(row).count = 0
      BY <2>0
    <3> QED BY <1>1, <3>1, CountedRow
  <2>2. \A i \in 1..Len(q) : q[i].by \in B => q[i].at < now
    <3>1. CASE row.count = 0
      BY <1>1, <1>4, <3>1 DEF Idle
    <3>2. CASE row.count > 0
      <4>1. RowTrue(q, latest, row, B, max) /\ row.start + Window <= now
        BY <1>1, <1>6, <3>2
      <4>2. row.last < now /\ \A i \in 1..Len(q) : q[i].by \in B => q[i].at <= row.last
        BY <1>1, <4>1 DEF RowTrue
      <4> QED BY <1>1, <1>4, <4>2
    <3> QED BY <1>1, <3>1, <3>2
  <2>3. Guesses(p, B, now, now + 1) \subseteq {Len(q) + 1}
    <3>1. Guesses(q, B, now, now + 1) = {}
      BY <1>1, <1>4, <2>2 DEF Guesses
    <3> QED BY <1>3, <3>1
  <2>4. Guesses(p, B, now + 1, now + 1) = {}
    <3>1. Guesses(q, B, now + 1, now + 1) = {}
      BY <1>1, <1>4 DEF Guesses
    <3>2. {i \in {Len(q) + 1} : now + 1 <= now /\ now < now + 1} = {}
      BY <1>1
    <3> QED BY <1>3, <3>1, <3>2
  <2>5. Cardinality(Guesses(p, B, now, now + 1)) <= 1
    <3>1. IsFiniteSet({Len(q) + 1}) /\ Cardinality({Len(q) + 1}) = 1
      BY FS_Singleton
    <3> QED BY <2>3, <3>1, FS_Subset
  <2>6. Cardinality(Guesses(p, B, now + 1, now + 1)) < 1
    <3>1. Cardinality({}) = 0
      BY FS_EmptySet
    <3>2. Cardinality(Guesses(p, B, now + 1, now + 1)) = 0
      BY <2>4, <3>1
    <3> QED BY <3>2
  <2>7. Cardinality(Reachable(p, B, now)) < max
    <3>1. CASE row.count = 0
      <4>1. Reachable(p, B, now) = {}
        <5> SUFFICES ASSUME NEW i \in Reachable(p, B, now) PROVE FALSE
          OBVIOUS
        <5>1. i \in Guesses(p, B, 0, now) /\ now < p[i].at + Window
          BY DEF Reachable
        <5>2. i \in Guesses(q, B, 0, now)
          BY <1>1, <1>3, <5>1
        <5>3. i \in 1..Len(q) /\ q[i].by \in B
          BY <5>2 DEF Guesses
        <5> QED BY <1>1, <1>2, <1>4, <3>1, <5>1, <5>3 DEF Idle
      <4>2. Cardinality({}) = 0
        BY FS_EmptySet
      <4> QED BY <4>1, <4>2
    <3>2. CASE row.count > 0
      <4>1. Reachable(p, B, now) \subseteq Guesses(q, B, row.start + 1, row.last + 1)
        <5> SUFFICES ASSUME NEW i \in Reachable(p, B, now)
                     PROVE  i \in Guesses(q, B, row.start + 1, row.last + 1)
          OBVIOUS
        <5>1. i \in Guesses(p, B, 0, now) /\ now < p[i].at + Window
          BY DEF Reachable
        <5>2. i \in Guesses(q, B, 0, now)
          BY <1>1, <1>3, <5>1
        <5>3. i \in 1..Len(q) /\ q[i].by \in B
          BY <5>2 DEF Guesses
        <5>4. q[i].at \in Nat /\ now < q[i].at + Window /\ q[i].at <= row.last
          BY <1>2, <1>4, <3>2, <5>1, <5>3 DEF RowTrue
        <5>5. row.start + Window <= now
          BY <1>6, <3>2, <1>1
        <5>6. row.start + 1 <= q[i].at /\ q[i].at < row.last + 1
          BY <1>1, <5>4, <5>5
        <5> QED BY <5>3, <5>6 DEF Guesses
      <4>2. Guesses(q, B, row.start + 1, row.last + 1) \subseteq 1..Len(q)
        BY DEF Guesses
      <4>3. /\ Cardinality(Reachable(p, B, now)) \in Nat
            /\ Cardinality(Guesses(q, B, row.start + 1, row.last + 1)) \in Nat
            /\ Cardinality(Reachable(p, B, now)) <=
                 Cardinality(Guesses(q, B, row.start + 1, row.last + 1))
        BY <4>1, <4>2, SomeAttempts
      <4> QED BY <1>1, <3>2, <4>3 DEF RowTrue
    <3> QED BY <1>1, <3>1, <3>2
  <2>8. \A i \in 1..Len(p) : p[i].by \in B => p[i].at <= now
    BY <1>1, <1>2, <1>4, <1>5, <2>2
  <2>9. RowTrue(p, now, next, B, max)
    <3> HIDE DEF next
    <3> QED BY <1>1, <2>1, <2>5, <2>6, <2>7, <2>8 DEF RowTrue
  <2>10. Counted(row) \in RateRows /\ Counted(row).count > 0 /\ Counted(row).last = now
    BY <1>1, <2>1, CountedRow
  <2> QED BY <2>9, <2>10 DEF p, e
<1>7. CASE row.count > 0 /\ now < row.start + Window
  <2>0. RowTrue(q, latest, row, B, max) /\ row.last <= now
    BY <1>7
  <2>1. /\ next.start = row.start /\ next.count = row.count + 1 /\ next.last = now
        /\ row.count < max
    <3>1. CurrentWindow(row) = row
      BY <1>1, <1>7 DEF CurrentWindow
    <3> QED BY <1>1, <3>1, CountedRow
  <2>2. \A i \in 1..Len(q) : q[i].by \in B => q[i].at <= row.last
    BY <2>0 DEF RowTrue
  <2>3. Guesses(p, B, row.start, now + 1) \subseteq
          Guesses(q, B, row.start, row.last + 1) \cup {Len(q) + 1}
    <3>1. Guesses(q, B, row.start, now + 1) \subseteq Guesses(q, B, row.start, row.last + 1)
      BY <1>1, <1>4, <2>2 DEF Guesses
    <3> QED BY <1>3, <3>1
  <2>4. Guesses(p, B, row.start + 1, now + 1) \subseteq
          Guesses(q, B, row.start + 1, row.last + 1) \cup {Len(q) + 1}
    <3>1. Guesses(q, B, row.start + 1, now + 1) \subseteq Guesses(q, B, row.start + 1, row.last + 1)
      BY <1>1, <1>4, <2>2 DEF Guesses
    <3> QED BY <1>3, <3>1
  <2>5. Reachable(p, B, row.start) = Reachable(q, B, row.start)
    <3>1. {i \in {Len(q) + 1} : 0 <= now /\ now < row.start} = {}
      BY <1>1, <2>0 DEF RowTrue
    <3>2. Guesses(p, B, 0, row.start) = Guesses(q, B, 0, row.start)
      BY <1>3, <3>1
    <3>3. \A i \in Guesses(q, B, 0, row.start) : p[i] = q[i]
      BY <1>2 DEF Guesses
    <3> QED BY <3>2, <3>3 DEF Reachable
  <2>6. Cardinality({Len(q) + 1}) = 1
    BY FS_Singleton
  <2>7. ASSUME NEW f,
               Guesses(p, B, f, now + 1) \subseteq
                 Guesses(q, B, f, row.last + 1) \cup {Len(q) + 1}
        PROVE  /\ Cardinality(Guesses(p, B, f, now + 1)) \in Nat
               /\ Cardinality(Guesses(q, B, f, row.last + 1)) \in Nat
               /\ Cardinality(Guesses(p, B, f, now + 1)) <=
                    Cardinality(Guesses(q, B, f, row.last + 1)) + 1
    <3> DEFINE U == Guesses(p, B, f, now + 1)
               S == Guesses(q, B, f, row.last + 1)
               T == {Len(q) + 1}
    <3>1. S \in SUBSET (1..Len(p)) /\ T \in SUBSET (1..Len(p)) /\ U \in SUBSET (S \cup T)
      BY <1>5, <2>7 DEF Guesses
    <3> HIDE DEF U, S, T
    <3>2. Cardinality(U) \in Nat /\ Cardinality(U) <= Cardinality(S) + Cardinality(T)
      BY <1>2, <3>1, AttemptsTogether
    <3>3. Cardinality(S) \in Nat
      BY <1>2, <3>1, SomeAttempts
    <3> QED BY <2>6, <3>2, <3>3 DEF U, S, T
  <2>8. Cardinality(Guesses(p, B, row.start, now + 1)) <= row.count + 1
    <3>1. Cardinality(Guesses(q, B, row.start, row.last + 1)) <= row.count
      BY <2>0 DEF RowTrue
    <3> QED BY <1>1, <2>3, <2>7, <3>1
  <2>9. Cardinality(Guesses(p, B, row.start + 1, now + 1)) < row.count + 1
    <3>1. Cardinality(Guesses(q, B, row.start + 1, row.last + 1)) < row.count
      BY <2>0 DEF RowTrue
    <3> QED BY <1>1, <2>4, <2>7, <3>1
  <2>10. \A i \in 1..Len(p) : p[i].by \in B => p[i].at <= now
    BY <1>1, <1>2, <1>4, <1>5, <2>0, <2>2
  <2>11. RowTrue(p, now, next, B, max)
    <3> HIDE DEF next
    <3> QED BY <1>1, <1>7, <2>0, <2>1, <2>5, <2>8, <2>9, <2>10 DEF RowTrue
  <2>12. Counted(row) \in RateRows /\ Counted(row).count > 0 /\ Counted(row).last = now
    BY <1>1, <2>1, CountedRow
  <2> QED BY <2>11, <2>12 DEF p, e
<1> QED BY <1>1, <1>6, <1>7

(* An attempt of another browser leaves what is known of these as it was.  *)
LEMMA OthersUnmoved ==
  ASSUME NEW q \in Seq(Attempts), NEW e \in Attempts, NEW B, e.by \notin B,
         NEW latest, NEW row, NEW max
  PROVE  /\ \A f, t : Guesses(Append(q, e), B, f, t) = Guesses(q, B, f, t)
         /\ Idle(q, latest, B) => Idle(Append(q, e), latest, B)
         /\ RowTrue(q, latest, row, B, max) => RowTrue(Append(q, e), latest, row, B, max)
<1> DEFINE p == Append(q, e)
<1>1. /\ Len(p) = Len(q) + 1 /\ p[Len(q) + 1] = e /\ \A i \in 1..Len(q) : p[i] = q[i]
      /\ \A f, t : Guesses(p, B, f, t) =
           Guesses(q, B, f, t) \cup {i \in {Len(q) + 1} : e.by \in B /\ f <= e.at /\ e.at < t}
  BY OneMore
<1> HIDE DEF p
<1>2. \A f, t : Guesses(p, B, f, t) = Guesses(q, B, f, t)
  BY <1>1
<1>3. \A i \in 1..Len(p) : p[i].by \in B => i \in 1..Len(q) /\ p[i] = q[i]
  BY <1>1
<1>4. Idle(q, latest, B) => Idle(p, latest, B)
  BY <1>3 DEF Idle
<1>5. \A t : Reachable(p, B, t) = Reachable(q, B, t)
  BY <1>1, <1>2 DEF Reachable, Guesses
<1>6. RowTrue(q, latest, row, B, max) => RowTrue(p, latest, row, B, max)
  BY <1>2, <1>3, <1>5 DEF RowTrue
<1> QED BY <1>2, <1>4, <1>6 DEF p

(* A pruned row is of a source whose last attempt is a window old, a row   *)
(* that is kept is as true as it was (pruneExpiredSources).                *)
LEMMA KeptTrue ==
  ASSUME TypeOK, RatesTrue, NEW s \in Browsers, NEW latest \in Nat,
         total.count > 0 => total.last <= latest,
         source[s].count > 0 /\ Kept[s].count = 0 => now + Window <= latest + StateTtl
  PROVE  /\ Kept[s] \in RateRows
         /\ Kept[s].count = 0 => Idle(tries, latest, {s})
         /\ Kept[s].count > 0 =>
              Kept[s] = source[s] /\ RowTrue(tries, latest, Kept[s], {s}, MaxPerSource)
<1>1. /\ now \in Nat /\ Window \in Nat /\ StateTtl \in Nat /\ tries \in Seq(Attempts)
      /\ source[s] \in RateRows /\ total \in RateRows
  BY PolicyAssumption DEF TypeOK
<1>2. /\ source[s].count \in Nat /\ source[s].last \in Nat
      /\ total.count \in Nat /\ total.last \in Nat
  BY <1>1 DEF RateRows
<1>3. Kept[s] = IF source[s].last + StateTtl <= now THEN NoRow ELSE source[s]
  BY DEF Kept
<1>4. Kept[s] \in RateRows
  BY RatesTyped
<1>5. NoRow.count = 0
  BY DEF NoRow
<1>6. \A i \in 1..Len(tries) : tries[i].at \in Nat
  BY <1>1, AttemptTyped
<1>7. total.count = 0 => Len(tries) = 0
  BY DEF RatesTrue
<1>8. CASE source[s].count = 0
  <2>1. Idle(tries, total.last, {s})
    <3>1. ~(source[s].count > 0)
      BY <1>8
    <3> QED BY <3>1 DEF RatesTrue
  <2>2. Idle(tries, latest, {s})
    BY <1>1, <1>2, <1>6, <1>7, <2>1 DEF Idle
  <2> QED BY <1>3, <1>4, <1>5, <1>8, <2>2
<1>9. CASE source[s].count > 0
  <2>1. RowTrue(tries, total.last, source[s], {s}, MaxPerSource)
    BY <1>9 DEF RatesTrue
  <2>2. total.count > 0
    <3>1. s \in Tracked
      BY <1>9 DEF Tracked
    <3>2. total.count # 0
      BY <3>1 DEF RatesTrue
    <3> QED BY <1>2, <3>2
  <2>3. RowTrue(tries, latest, source[s], {s}, MaxPerSource)
    BY <1>2, <2>1, <2>2 DEF RowTrue
  <2>4. CASE source[s].last + StateTtl <= now
    <3>1. Kept[s].count = 0 /\ now + Window <= latest + StateTtl
      BY <1>3, <1>5, <1>9, <2>4
    <3>2. Idle(tries, latest, {s})
      BY <1>1, <1>2, <1>6, <2>1, <2>4, <3>1 DEF Idle, RowTrue
    <3> QED BY <1>4, <3>1, <3>2
  <2>5. CASE ~(source[s].last + StateTtl <= now)
    BY <1>3, <1>4, <1>9, <2>3, <2>5
  <2> QED BY <2>4, <2>5
<1> QED BY <1>2, <1>8, <1>9

(* Pruning lets go of sources only, and of finitely many.                  *)
LEMMA KeptTracked ==
  ASSUME TypeOK, SourcesTracked
  PROVE  LET K == {s \in Browsers : Kept[s].count > 0} IN
         /\ K \subseteq Tracked /\ IsFiniteSet(K) /\ Cardinality(K) \in Nat
         /\ Cardinality(K) <= MaxTracked /\ (Cardinality(K) >= MaxTracked => K = Tracked)
<1> DEFINE K == {s \in Browsers : Kept[s].count > 0}
<1>1. K \subseteq Tracked
  BY DEF Kept, NoRow, Tracked
<1> HIDE DEF K
<1>2. /\ IsFiniteSet(K) /\ Cardinality(K) <= Cardinality(Tracked)
      /\ (Cardinality(K) = Cardinality(Tracked) => K = Tracked)
  BY <1>1, FS_Subset DEF SourcesTracked
<1>3. Cardinality(K) \in Nat /\ Cardinality(Tracked) \in Nat /\ MaxTracked \in Nat
  BY <1>2, FS_CardinalityType, PolicyAssumption DEF SourcesTracked
<1>4. /\ K \subseteq Tracked /\ IsFiniteSet(K) /\ Cardinality(K) \in Nat
      /\ Cardinality(K) <= MaxTracked /\ (Cardinality(K) >= MaxTracked => K = Tracked)
  BY <1>1, <1>2, <1>3 DEF SourcesTracked
<1> QED BY <1>4 DEF K

(* An attempt that is counted keeps the rates true and the guesses within  *)
(* bounds (claimTransaction, writeRateSource).                             *)
LEMMA CountingKeepsRates ==
  ASSUME TypeOK, RatesTrue, SourcesTracked, GuessesBounded, NEW b \in Browsers,
         ~Regresses(b), ~SourcesFull(b), ~Limited(b), CountAttempt(b), UNCHANGED now
  PROVE  RatesTrue' /\ SourcesTracked' /\ GuessesBounded'
<1> DEFINE e == [by |-> b, at |-> now]
           K == {s \in Browsers : Kept[s].count > 0}
<1>1. /\ now \in 0..MaxTime /\ now \in Nat /\ Window \in Nat /\ Window > 0 /\ StateTtl \in Nat
      /\ Window <= StateTtl /\ MaxPerSource \in Nat \ {0} /\ MaxGlobal \in Nat \ {0}
      /\ MaxTracked \in Nat /\ tries \in Seq(Attempts) /\ e \in Attempts /\ e.by = b /\ e.at = now
      /\ source \in [Browsers -> RateRows] /\ total \in RateRows /\ Kept \in [Browsers -> RateRows]
  BY PolicyAssumption, RatesTyped DEF TypeOK, Attempts
<1>2. /\ source' = [Kept EXCEPT ![b] = Counted(Kept[b])] /\ total' = Counted(total)
      /\ tries' = Append(tries, e)
  BY DEF CountAttempt
<1> HIDE DEF e
<1>3. /\ total.count > 0 => total.last <= now
      /\ Kept[b].count > 0 => Kept[b].last <= now
  <2>1. \A row \in {Kept[b], total} : ~(row.count > 0 /\ now < row.last)
    BY DEF Regresses
  <2>2. Kept[b].last \in Nat /\ total.last \in Nat
    BY <1>1 DEF RateRows
  <2> QED BY <1>1, <2>1, <2>2
<1>4. ASSUME NEW s \in Browsers
      PROVE  /\ Kept[s] \in RateRows
             /\ Kept[s].count = 0 => Idle(tries, now, {s})
             /\ Kept[s].count > 0 =>
                  Kept[s] = source[s] /\ RowTrue(tries, now, Kept[s], {s}, MaxPerSource)
  <2>1. now + Window <= now + StateTtl
    BY <1>1
  <2>2. total.count > 0 => total.last <= now
    BY <1>3
  <2>3. now \in Nat
    BY <1>1
  <2> QED BY <2>1, <2>2, <2>3, KeptTrue
<1>5. /\ CurrentWindow(Kept[b]).count < MaxPerSource
      /\ CurrentWindow(total).count < MaxGlobal
  <2>1. ASSUME NEW row \in RateRows PROVE CurrentWindow(row).count \in Nat
    BY <1>1, <2>1, CountedRow DEF RateRows
  <2> QED BY <1>1, <2>1 DEF Limited
<1>6. /\ total' \in RateRows /\ total'.count > 0 /\ total'.last = now
      /\ RowTrue(tries', now, total', Browsers, MaxGlobal)
  <2>1. total.count = 0 => Idle(tries, now, Browsers)
    BY DEF RatesTrue, Idle
  <2>2. total.count > 0 => RowTrue(tries, total.last, total, Browsers, MaxGlobal)
    BY DEF RatesTrue
  <2> QED BY <1>1, <1>2, <1>3, <1>5, <2>1, <2>2, CountedTrue DEF e
<1>7. /\ source'[b] \in RateRows /\ source'[b].count > 0 /\ source'[b].last = now
      /\ RowTrue(tries', now, source'[b], {b}, MaxPerSource)
  <2> DEFINE row == Kept[b]
  <2>1. source'[b] = Counted(row)
    BY <1>1, <1>2
  <2>2. /\ row \in RateRows /\ b \in {b} /\ CurrentWindow(row).count < MaxPerSource
        /\ row.count = 0 => Idle(tries, now, {b})
        /\ row.count > 0 => RowTrue(tries, now, row, {b}, MaxPerSource) /\ row.last <= now
    BY <1>3, <1>4, <1>5
  <2> HIDE DEF row
  <2>3. /\ Counted(row) \in RateRows /\ Counted(row).count > 0 /\ Counted(row).last = now
        /\ RowTrue(Append(tries, e), now, Counted(row), {b}, MaxPerSource)
    BY <1>1, <2>2, CountedTrue DEF e
  <2> QED BY <1>2, <2>1, <2>3
<1>8. ASSUME NEW s \in Browsers \ {b}
      PROVE  /\ source'[s] = Kept[s]
             /\ source'[s].count = 0 => Idle(tries', now, {s})
             /\ source'[s].count > 0 => RowTrue(tries', now, source'[s], {s}, MaxPerSource)
             /\ \A f, t : Guesses(tries', {s}, f, t) = Guesses(tries, {s}, f, t)
  <2>1. source'[s] = Kept[s]
    BY <1>1, <1>2
  <2>2. e.by \notin {s}
    BY <1>1
  <2>3. /\ \A f, t : Guesses(tries', {s}, f, t) = Guesses(tries, {s}, f, t)
        /\ Idle(tries, now, {s}) => Idle(tries', now, {s})
        /\ RowTrue(tries, now, Kept[s], {s}, MaxPerSource) =>
             RowTrue(tries', now, Kept[s], {s}, MaxPerSource)
    <3>1. tries \in Seq(Attempts) /\ e \in Attempts
      BY <1>1
    <3>2. /\ \A f, t : Guesses(Append(tries, e), {s}, f, t) = Guesses(tries, {s}, f, t)
          /\ Idle(tries, now, {s}) => Idle(Append(tries, e), now, {s})
          /\ RowTrue(tries, now, Kept[s], {s}, MaxPerSource) =>
               RowTrue(Append(tries, e), now, Kept[s], {s}, MaxPerSource)
      BY <2>2, <3>1, OthersUnmoved
    <3> QED BY <1>2, <3>2
  <2> QED BY <1>4, <2>1, <2>3
<1>9. RatesTrue'
  <2>1. ASSUME NEW s \in Browsers
        PROVE  IF source'[s].count > 0 THEN RowTrue(tries', now, source'[s], {s}, MaxPerSource)
               ELSE Idle(tries', now, {s})
    <3>1. CASE s = b
      BY <1>7, <3>1
    <3>2. CASE s # b
      <4>1. source'[s].count \in Nat
        BY <1>4, <1>8, <3>2 DEF RateRows
      <4> QED BY <1>8, <3>2, <4>1
    <3> QED BY <3>1, <3>2
  <2>2. total'.count # 0
    BY <1>6
  <2> QED BY <1>6, <2>1, <2>2 DEF RatesTrue
<1>10. SourcesTracked'
  <2>1. /\ IsFiniteSet(K) /\ Cardinality(K) \in Nat /\ Cardinality(K) <= MaxTracked
    BY KeptTracked
  <2>2. \A s \in Browsers : s # b => (source'[s].count > 0 <=> Kept[s].count > 0)
    BY <1>8
  <2>3. Tracked' = K \cup {b}
    BY <1>7, <2>2 DEF Tracked
  <2>4. CASE b \in K
    <3>1. Tracked' = K
      BY <2>3, <2>4
    <3> QED BY <2>1, <3>1 DEF SourcesTracked
  <2>5. CASE b \notin K
    <3>0. Kept[b].count \in Nat /\ ~(Kept[b].count > 0)
      BY <1>1, <2>5 DEF RateRows
    <3>1. Kept[b].count = 0
      BY <3>0
    <3>2. Cardinality(K) < MaxTracked
      BY <1>1, <2>1, <3>1 DEF SourcesFull
    <3>3. /\ IsFiniteSet(K \cup {b}) /\ Cardinality(K \cup {b}) = Cardinality(K) + 1
      BY <2>1, <2>5, FS_AddElement
    <3> QED BY <1>1, <2>1, <2>3, <3>2, <3>3 DEF SourcesTracked
  <2> QED BY <2>4, <2>5
<1>11. GuessesBounded'
  <2>1. tries' \in Seq(Attempts)
    BY <1>1, <1>2, OneMore
  <2>2. ASSUME NEW t \in 0..MaxTime, NEW B, NEW row \in RateRows, NEW max \in Nat \ {0},
               RowTrue(tries', now, row, B, max), row.last = now,
               Cardinality(Guesses(tries, B, t, t + Window)) < 2 * max
        PROVE  Cardinality(Guesses(tries', B, t, t + Window)) < 2 * max
    <3>1. t \in Nat
      BY PolicyAssumption
    <3>2. CASE now < t + Window
      BY <2>1, <2>2, <3>1, <3>2, StretchBounded
    <3>3. CASE ~(now < t + Window)
      <4>1. Guesses(tries', B, t, t + Window) =
              Guesses(tries, B, t, t + Window) \cup
                {i \in {Len(tries) + 1} : e.by \in B /\ t <= e.at /\ e.at < t + Window}
        <5>1. tries \in Seq(Attempts) /\ e \in Attempts
          BY <1>1
        <5>2. \A f, u : Guesses(Append(tries, e), B, f, u) =
                Guesses(tries, B, f, u) \cup
                  {i \in {Len(tries) + 1} : e.by \in B /\ f <= e.at /\ e.at < u}
          BY <5>1, OneMore
        <5> QED BY <1>2, <5>2
      <4>2. Guesses(tries', B, t, t + Window) = Guesses(tries, B, t, t + Window)
        BY <1>1, <3>3, <4>1
      <4> QED BY <2>2, <4>2
    <3> QED BY <3>2, <3>3
  <2>3. ASSUME NEW t \in 0..MaxTime, NEW s \in Browsers
        PROVE  Cardinality(Guesses(tries', {s}, t, t + Window)) < 2 * MaxPerSource
    <3>1. Cardinality(Guesses(tries, {s}, t, t + Window)) < 2 * MaxPerSource
      BY DEF GuessesBounded
    <3>2. CASE s = b
      BY <1>1, <1>7, <2>2, <3>1, <3>2
    <3>3. CASE s # b
      BY <1>8, <3>1, <3>3
    <3> QED BY <3>2, <3>3
  <2>4. ASSUME NEW t \in 0..MaxTime
        PROVE  Cardinality(Guesses(tries', Browsers, t, t + Window)) < 2 * MaxGlobal
    <3>1. Cardinality(Guesses(tries, Browsers, t, t + Window)) < 2 * MaxGlobal
      BY DEF GuessesBounded
    <3> QED BY <1>1, <1>6, <2>2, <3>1
  <2> QED BY <2>3, <2>4 DEF GuessesBounded
<1> QED BY <1>9, <1>10, <1>11

(* The state of a source is kept for nearly two windows.  A claim is       *)
(* refused under the limit within one window of the last counted attempt,  *)
(* and what it prunes then must not be in reach of a window that starts    *)
(* with that attempt, were the clock set back to it (pair_claim_window_ms, *)
(* admission_state_ttl_ms).                                                *)
StateOutlivesWindows == 2 * Window <= StateTtl + 1

(* A claim that is refused before its guess is compared only prunes, and   *)
(* no browser gains by it.                                                 *)
LEMMA RefusingKeepsRates ==
  ASSUME TypeOK, RatesTrue, SourcesTracked, StateOutlivesWindows, NEW b \in Browsers,
         SourcesFull(b) \/ Limited(b), source' = Kept, UNCHANGED <<now, total, tries>>
  PROVE  RatesTrue' /\ SourcesTracked'
<1> DEFINE K == {s \in Browsers : Kept[s].count > 0}
<1>1. /\ now \in Nat /\ Window \in Nat /\ Window > 0 /\ StateTtl \in Nat
      /\ MaxPerSource \in Nat \ {0} /\ MaxGlobal \in Nat \ {0}
      /\ 2 * Window <= StateTtl + 1
      /\ source \in [Browsers -> RateRows] /\ total \in RateRows /\ Kept \in [Browsers -> RateRows]
  BY PolicyAssumption, RatesTyped DEF TypeOK, StateOutlivesWindows
<1>2. /\ K \subseteq Tracked /\ IsFiniteSet(K) /\ Cardinality(K) \in Nat
      /\ Cardinality(K) <= MaxTracked /\ (Cardinality(K) >= MaxTracked => K = Tracked)
  BY KeptTracked
<1>3. Tracked' = K
  BY DEF Tracked
<1>4. SourcesTracked'
  BY <1>2, <1>3 DEF SourcesTracked
<1>5. ASSUME NEW row \in RateRows, NEW max \in Nat \ {0}, CurrentWindow(row).count >= max
      PROVE  row.count > 0 /\ now < row.start + Window
  <2>1. row.count \in Nat /\ row.start \in Nat
    BY DEF RateRows
  <2>2. [NoRow EXCEPT !.start = now].count = 0
    BY DEF NoRow
  <2>3. ~(row.count = 0 \/ row.start + Window <= now)
    BY <1>5, <2>2 DEF CurrentWindow
  <2> QED BY <1>1, <2>1, <2>3
<1>6. ASSUME NEW s \in Browsers, source[s].count > 0, Kept[s].count = 0
      PROVE  now + Window <= total.last + StateTtl
  <2>1. total.count > 0
    <3>1. s \in Tracked
      BY <1>6 DEF Tracked
    <3>2. total.count # 0 /\ total.count \in Nat
      BY <1>1, <3>1 DEF RatesTrue, RateRows
    <3> QED BY <3>2
  <2>2. RowTrue(tries, total.last, total, Browsers, MaxGlobal)
    BY <2>1 DEF RatesTrue
  <2>3. total.start \in Nat /\ total.last \in Nat /\ total.start <= total.last
    BY <1>1, <2>2 DEF RateRows, RowTrue
  <2>4. CASE SourcesFull(b)
    <3>1. Cardinality(K) >= MaxTracked
      BY <2>4 DEF SourcesFull
    <3>2. s \in K
      BY <1>2, <1>6, <3>1 DEF Tracked
    <3> QED BY <1>6, <3>2
  <2>5. CASE CurrentWindow(total).count >= MaxGlobal
    <3>1. now < total.start + Window
      BY <1>1, <1>5, <2>5
    <3> QED BY <1>1, <2>3, <3>1
  <2>6. CASE CurrentWindow(Kept[b]).count >= MaxPerSource
    <3>1. Kept[b].count > 0 /\ now < Kept[b].start + Window
      BY <1>1, <1>5, <2>6
    <3>2. Kept[b] = source[b]
      BY <3>1 DEF Kept, NoRow
    <3>3. RowTrue(tries, total.last, source[b], {b}, MaxPerSource)
      BY <3>1, <3>2 DEF RatesTrue
    <3>4. /\ source[b].start \in Nat /\ source[b].last \in Nat
          /\ source[b].start <= source[b].last /\ source[b].last <= total.last
      BY <1>1, <3>3 DEF RateRows, RowTrue
    <3> QED BY <1>1, <2>3, <3>1, <3>2, <3>4
  <2> QED BY <2>4, <2>5, <2>6 DEF Limited
<1>7. total.last \in Nat /\ total.last <= total.last
  BY <1>1 DEF RateRows
<1>8. ASSUME NEW s \in Browsers
      PROVE  IF Kept[s].count > 0 THEN RowTrue(tries, total.last, Kept[s], {s}, MaxPerSource)
             ELSE Idle(tries, total.last, {s})
  <2>1. /\ Kept[s].count = 0 => Idle(tries, total.last, {s})
        /\ Kept[s].count > 0 => RowTrue(tries, total.last, Kept[s], {s}, MaxPerSource)
    BY <1>6, <1>7, KeptTrue
  <2>2. Kept[s].count \in Nat
    BY <1>1 DEF RateRows
  <2> QED BY <2>1, <2>2
<1>9. RatesTrue'
  <2>1. total.count = 0 => tries = <<>> /\ Tracked' = {}
    BY <1>2, <1>3 DEF RatesTrue
  <2>2. total.count > 0 => RowTrue(tries, total.last, total, Browsers, MaxGlobal)
    BY DEF RatesTrue
  <2> QED BY <1>8, <2>1, <2>2 DEF RatesTrue
<1> QED BY <1>4, <1>9

RatesInv == RatesTrue /\ SourcesTracked /\ GuessesBounded

(* A step that counts no attempt and prunes no source keeps the rates.     *)
LEMMA RatesUntouched ==
  RatesInv /\ UNCHANGED <<source, total, tries>> => RatesInv'
<1> SUFFICES ASSUME RatesInv, UNCHANGED <<source, total, tries>> PROVE RatesInv'
  OBVIOUS
<1>1. Tracked' = Tracked
  BY DEF Tracked
<1>2. RatesTrue' /\ SourcesTracked'
  BY <1>1 DEF RatesInv, RatesTrue, SourcesTracked
<1>3. GuessesBounded'
  BY DEF RatesInv, GuessesBounded
<1> QED BY <1>2, <1>3 DEF RatesInv

(* Every step keeps the rates true.                                        *)
LEMMA RatesStep ==
  ASSUME StateOutlivesWindows
  PROVE  IInv /\ RatesInv /\ [Next]_vars => RatesInv'
<1> SUFFICES ASSUME IInv, RatesInv, [Next]_vars PROVE RatesInv'
  OBVIOUS
<1>1. TypeOK /\ RatesTrue /\ SourcesTracked /\ GuessesBounded
  BY DEF IInv, RatesInv
<1>2. ASSUME NEW r \in Claims, ClaimRefused(r) \/ ClaimGranted(r) PROVE RatesInv'
  <2>1. Accepted(r) /\ Admits(r) /\ CountAttempt(claim[r].from) /\ UNCHANGED now
    BY <1>2 DEF ClaimRefused, ClaimGranted, Outcome
  <2>2. claim[r].from \in Browsers
    BY <2>1 DEF Accepted, IInv, ClaimsOnRecord
  <2> QED BY <1>1, <2>1, <2>2, CountingKeepsRates DEF Admits, RatesInv
<1>3. ASSUME NEW r \in Claims, ClaimLimited(r) PROVE RatesInv'
  <2>1. /\ Accepted(r) /\ (SourcesFull(claim[r].from) \/ Limited(claim[r].from))
        /\ source' = Kept /\ UNCHANGED <<now, total, tries>>
    BY <1>3 DEF ClaimLimited, Outcome
  <2>2. claim[r].from \in Browsers
    BY <1>3 DEF ClaimLimited, Accepted, IInv, ClaimsOnRecord
  <2>3. RatesTrue' /\ SourcesTracked'
    BY <1>1, <2>1, <2>2, RefusingKeepsRates
  <2>4. GuessesBounded'
    BY <1>1, <2>1 DEF GuessesBounded
  <2> QED BY <2>3, <2>4 DEF RatesInv
<1>4. ASSUME NEW r \in Claims,
             \/ Arrive(r) \/ Overloaded(r) \/ ClaimStale(r) \/ ClaimFails(r)
             \/ ClaimTimeConflict(r) \/ FinishClaim(r) \/ SendClaim(r) \/ Revoke(r)
      PROVE  RatesInv'
  BY <1>4, RatesUntouched DEF Arrive, Overloaded, ClaimStale, ClaimFails, ClaimTimeConflict,
     FinishClaim, SendClaim, Revoke, store
<1>5. ASSUME NEW r \in Boots,
             Authenticate(r) \/ Rotate(r) \/ RotateRefused(r) \/ FinishBoot(r) \/ SendBoot(r)
      PROVE  RatesInv'
  BY <1>5, RatesUntouched DEF Authenticate, Rotate, RotateRefused, FinishBoot, SendBoot, store
<1>6. ASSUME NEW c \in Codes, Issue(c) PROVE RatesInv'
  BY <1>6, RatesUntouched DEF Issue
<1>7. CASE Tick \/ ClockSetBack \/ IngressWithdrawn \/ Restart
  BY <1>7, RatesUntouched DEF Tick, ClockSetBack, IngressWithdrawn, Restart, store
<1>8. CASE UNCHANGED vars
  BY <1>8, RatesUntouched DEF vars, store
<1> QED BY <1>2, <1>3, <1>4, <1>5, <1>6, <1>7, <1>8 DEF Next

(* No window of attempts sees twice the allowance, from one browser or     *)
(* from all of them, however the clock is set (currentWindow,              *)
(* writeRateSource, pruneExpiredSources), provided that the state of a     *)
(* source is kept for nearly two windows: the default budget keeps it ten. *)
THEOREM GuessesBoundedHolds ==
  ASSUME StateOutlivesWindows
  PROVE  Spec => []GuessesBounded
<1>1. Init => RatesInv
  <2> SUFFICES ASSUME Init PROVE RatesInv
    OBVIOUS
  <2>1. NoRow.count = 0 /\ source = [b \in Browsers |-> NoRow] /\ total = NoRow /\ tries = <<>>
    BY DEF Init, NoRow
  <2>2. Tracked = {}
    BY <2>1 DEF Tracked
  <2>3. RatesTrue
    BY <2>1, <2>2 DEF RatesTrue, Idle
  <2>4. IsFiniteSet({}) /\ Cardinality({}) = 0
    BY FS_EmptySet
  <2>5. SourcesTracked
    BY <2>2, <2>4, PolicyAssumption DEF SourcesTracked
  <2>6. \A B, f, t : Guesses(tries, B, f, t) = {}
    BY <2>1 DEF Guesses
  <2>7. 0 < 2 * MaxPerSource /\ 0 < 2 * MaxGlobal
    BY PolicyAssumption
  <2>8. GuessesBounded
    BY <2>4, <2>6, <2>7 DEF GuessesBounded
  <2> QED BY <2>3, <2>5, <2>8 DEF RatesInv
<1>2. IInv /\ RatesInv /\ [Next]_vars => RatesInv'
  BY RatesStep
<1>3. RatesInv => GuessesBounded
  BY DEF RatesInv
<1> QED BY <1>1, <1>2, <1>3, InvariantHolds, PTL DEF Spec

==============================================================================
