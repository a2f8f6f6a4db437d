----------------------------- MODULE GapFreeFeed -----------------------------
(***************************************************************************)
(* What HostDeck promises to whoever follows a session (requirement        *)
(* FR-013): every event once, in cursor order, and where events are no     *)
(* longer available an explicit boundary in their place.  There is no hub, *)
(* no queue and no connection here: only a growing log and, for each       *)
(* reader, how far it has got and what boundaries told it it missed.  A    *)
(* reader that gets past a cursor has had its event or been told that it   *)
(* will not.                                                               *)
(***************************************************************************)
EXTENDS Integers

CONSTANT Readers

VARIABLES
  last,   \* cursor of the newest committed event
  at,     \* where each reader is; -1 before it starts
  lost    \* cursors a boundary told the reader it will not see

feedVars == <<last, at, lost>>

Init == last \in Nat /\ at = [r \in Readers |-> -1] /\ lost = [r \in Readers |-> {}]

Grow == last' = last + 1 /\ UNCHANGED <<at, lost>>

\* A reader starts anywhere in the log.
Begin(r) ==
  /\ at[r] = -1 /\ \E n \in 0..last : at' = [at EXCEPT ![r] = n]
  /\ UNCHANGED <<last, lost>>

\* The next event, and no other.
Deliver(r) ==
  /\ at[r] # -1 /\ at[r] < last /\ at' = [at EXCEPT ![r] = at[r] + 1]
  /\ UNCHANGED <<last, lost>>

\* A boundary further on: the reader skips to it and is told what it skipped.
Skip(r) ==
  /\ at[r] # -1
  /\ \E b \in (at[r] + 2)..last :
       /\ at' = [at EXCEPT ![r] = b]
       /\ lost' = [lost EXCEPT ![r] = lost[r] \cup ((at[r] + 1)..(b - 1))]
  /\ UNCHANGED last

Next == Grow \/ \E r \in Readers : Begin(r) \/ Deliver(r) \/ Skip(r)

Spec == Init /\ [][Next]_feedVars
=============================================================================
