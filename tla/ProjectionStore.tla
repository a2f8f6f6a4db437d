--------------------------- MODULE ProjectionStore ---------------------------
(***************************************************************************)
(* The durable state of one managed session and every transaction that     *)
(* changes it: selected-state-repository.ts and projection-append-port.ts  *)
(* of packages/storage, with the startup retention pass.                   *)
(*                                                                         *)
(* Writers are the tasks that read a session, await something, and write   *)
(* it back: the event pipeline, the reconciliation lifecycle, the archive  *)
(* and control services.  SQLite runs each transaction alone, so a         *)
(* transaction is one step; between a writer's read and its write anything *)
(* may happen, and the revision it read is compared again in the write.    *)
(***************************************************************************)
EXTENDS ProjectionTable

CONSTANTS
  Writers,       \* tasks that read a session and later write it back
  AppendLimit,   \* output_event_limit of the append port
  StartupLimit,  \* output_event_limit of the startup pass (from settings)
  BatchSize,     \* max_pruned_events of one startup batch
  ByteChoices,   \* whether the byte limit may be exceeded: a subset of BOOLEAN
  MaxImport,     \* events a native adoption may import (bound)
  MaxCursor,     \* events a session may accumulate (bound)
  MaxTime        \* distinct timestamps (bound)

\* parseRetention and parseSelectedProjectionRetentionPolicy refuse a limit
\* below two; parseRetentionBatchSize refuses an empty batch.
ASSUME BoundsAssumption ==
  /\ AppendLimit \in Nat /\ AppendLimit >= 2
  /\ StartupLimit \in Nat /\ StartupLimit >= 2
  /\ BatchSize \in Nat \ {0} /\ ByteChoices \subseteq BOOLEAN
  /\ MaxImport \in Nat /\ MaxCursor \in Nat /\ MaxTime \in Nat \ {0}

VARIABLES
  phase,    \* "startup" until the bounded retention pass ends, then "serving"
  life,     \* "absent", "created", "adopted" or "removed"
  tbl,      \* event rows and counters (ProjectionTable)
  stamp,    \* updated_at of the mapping and of the projection
  quiet,    \* active, idle, current and without attention: may be unmanaged
  writes,   \* ghost: how many transactions have changed this session
  held,     \* what each writer read and has not yet written back
  result    \* outcome of the last transaction

vars == <<phase, life, tbl, stamp, quiet, writes, held, result>>

Times == 1..MaxTime
Exists == life \in {"created", "adopted"}
RevisionByTime == [mapping |-> stamp.mapping, projection |-> stamp.projection, last |-> None] \* mutant
Revision == [mapping |-> stamp.mapping, projection |-> stamp.projection, last |-> tbl.last]
NotHeld == [revision |-> [mapping |-> 0, projection |-> 0, last |-> None], writes |-> 0]

Results == {"none", "created", "adopted", "appended", "bounded", "replaced", "unmanaged",
            "conflict", "invalid_projection", "batch_done", "batch_remaining", "batch_oversize"}

Init ==
  /\ phase = "startup" /\ life = "absent" /\ tbl = EmptyTable
  /\ stamp = [mapping |-> 0, projection |-> 0] /\ quiet = FALSE
  /\ writes = 0 /\ held = [w \in Writers |-> NotHeld] /\ result = "none"

-----------------------------------------------------------------------------
Create(t) ==
  /\ phase = "serving" /\ life = "absent"
  /\ life' = "created" /\ tbl' = EmptyTable
  /\ stamp' = [mapping |-> t, projection |-> t] /\ quiet' = TRUE
  /\ writes' = writes + 1 /\ result' = "created"
  /\ UNCHANGED <<phase, held>>

Adopt(t, imported) ==
  /\ phase = "serving" /\ life = "absent" /\ imported + 1 <= MaxCursor
  /\ life' = "adopted" /\ tbl' = Adopted(imported)
  /\ stamp' = [mapping |-> t, projection |-> t] /\ quiet' = TRUE
  /\ writes' = writes + 1 /\ result' = "adopted"
  /\ UNCHANGED <<phase, held>>

\* repository.require: the revision a writer will present again.
Read(w) ==
  /\ phase = "serving" /\ Exists
  /\ held' = [held EXCEPT ![w] = [revision |-> Revision, writes |-> writes]]
  /\ UNCHANGED <<phase, life, tbl, stamp, quiet, writes, result>>

Holds(w) == phase = "serving" /\ Exists /\ held[w] # NotHeld
Refuse(w, why) ==
  /\ result' = why /\ held' = [held EXCEPT ![w] = NotHeld]
  /\ UNCHANGED <<phase, life, tbl, stamp, quiet, writes>>

\* A transaction refused because the rows contradict the counters, or because
\* the session changed after it was read.
StaleWrite(w) ==
  /\ Holds(w)
  /\ \/ ~PersistedAgrees(tbl) /\ Refuse(w, "invalid_projection")
     \/ PersistedAgrees(tbl) /\ Revision # held[w].revision /\ Refuse(w, "conflict")

MayWrite(w) == Holds(w) /\ PersistedAgrees(tbl) /\ Revision = held[w].revision
Commit(w, what) ==
  /\ writes' = writes + 1 /\ result' = what /\ held' = [held EXCEPT ![w] = NotHeld]

\* An append whose retention check throws rolls the whole transaction back.
PruneNeeded(next, overBytes) == next.count > AppendLimit \/ overBytes
AppendRefused(w, overBytes) ==
  /\ MayWrite(w) /\ NextCursor(tbl) <= MaxCursor
  /\ LET next == Appended(tbl) IN
       PruneNeeded(next, overBytes) /\ ~RetentionLayoutAccepted(next)
  /\ Refuse(w, "invalid_projection")

AppendEvent(w, t, idle, overBytes) ==
  /\ MayWrite(w) /\ NextCursor(tbl) <= MaxCursor /\ t >= stamp.projection
  /\ LET next == Appended(tbl) IN
       \/ ~PruneNeeded(next, overBytes) /\ tbl' = next
       \/ /\ PruneNeeded(next, overBytes) /\ RetentionLayoutAccepted(next)
          /\ \/ AppendCuts(next, AppendLimit) = {} /\ tbl' = next
             \/ \E b \in AppendCuts(next, AppendLimit) : tbl' = Pruned(next, b)
  /\ stamp' = [stamp EXCEPT !.projection = t] /\ quiet' = idle
  /\ Commit(w, "appended") /\ UNCHANGED <<phase, life>>

\* replaceEventsWithBoundary, used when continuity cannot be proved.
ReplaceWithBoundary(w, t, reason, idle) ==
  /\ MayWrite(w) /\ NextCursor(tbl) <= MaxCursor /\ t >= stamp.projection
  /\ tbl' = BoundaryReplaced(tbl, reason)
  /\ stamp' = [stamp EXCEPT !.projection = t] /\ quiet' = idle
  /\ Commit(w, "bounded") /\ UNCHANGED <<phase, life>>

\* replace: anything but the events; both timestamps must move forward.
Replace(w, m, p, idle) ==
  /\ MayWrite(w) /\ m > stamp.mapping /\ p > stamp.projection
  /\ stamp' = [mapping |-> m, projection |-> p] /\ quiet' = idle
  /\ Commit(w, "replaced") /\ UNCHANGED <<phase, life, tbl>>

Unmanage(w) ==
  /\ MayWrite(w) /\ life = "adopted" /\ quiet
  /\ life' = "removed" /\ tbl' = EmptyTable
  /\ Commit(w, "unmanaged") /\ UNCHANGED <<phase, stamp, quiet>>

-----------------------------------------------------------------------------
\* A crash or stop forgets what every writer held and starts a new pass.
Restart ==
  /\ phase = "serving" /\ phase' = "startup"
  /\ held' = [w \in Writers |-> NotHeld] /\ result' = "none"
  /\ UNCHANGED <<life, tbl, stamp, quiet, writes>>

RemainingAfter(t, stillOver) == (t.count > StartupLimit \/ stillOver) /\ t.count > 2

MaintainBatch(overBytes) ==
  /\ phase = "startup" /\ Exists /\ PersistedAgrees(tbl)
  /\ tbl.count > StartupLimit \/ overBytes
  /\ \/ /\ BatchCuts(tbl, StartupLimit, BatchSize) = {}
        /\ result' = "batch_oversize" /\ UNCHANGED tbl
     \/ \E b \in BatchCuts(tbl, StartupLimit, BatchSize), stillOver \in ByteChoices :
          /\ tbl' = Pruned(tbl, b)
          /\ stillOver => BatchExhausted(tbl, b, BatchSize)
          /\ result' = IF RemainingAfter(tbl', stillOver)
                         THEN "batch_remaining" ELSE "batch_done"
  /\ UNCHANGED <<phase, life, stamp, quiet, writes, held>>

\* The pass is bounded in batches and in time: it may end before its work does.
FinishStartup ==
  /\ phase = "startup" /\ phase' = "serving"
  /\ UNCHANGED <<life, tbl, stamp, quiet, writes, held, result>>

Write(w) ==
  \/ Read(w) \/ StaleWrite(w) \/ Unmanage(w)
  \/ \E overBytes \in ByteChoices : AppendRefused(w, overBytes)
  \/ \E t \in Times, idle \in BOOLEAN :
       \/ \E overBytes \in ByteChoices : AppendEvent(w, t, idle, overBytes)
       \/ \E reason \in ContinuityReasons : ReplaceWithBoundary(w, t, reason, idle)
       \/ \E p \in Times : Replace(w, t, p, idle)

Next ==
  \/ \E t \in Times : Create(t) \/ \E imported \in 0..MaxImport : Adopt(t, imported)
  \/ \E w \in Writers : Write(w)
  \/ \E overBytes \in ByteChoices : MaintainBatch(overBytes)
  \/ Restart \/ FinishStartup

Spec == Init /\ [][Next]_vars

-----------------------------------------------------------------------------
TypeOK ==
  /\ phase \in {"startup", "serving"}
  /\ life \in {"absent", "created", "adopted", "removed"}
  /\ Cursors(tbl) \subseteq 1..MaxCursor /\ \A c \in Cursors(tbl) : tbl.rows[c] \in Rows
  /\ tbl.last \in Int /\ tbl.earliest \in Int /\ tbl.boundary \in Int /\ tbl.count \in Nat
  /\ stamp \in [mapping : 0..MaxTime, projection : 0..MaxTime]
  /\ quiet \in BOOLEAN /\ writes \in Nat
  /\ held \in [Writers -> [revision : [mapping : 0..MaxTime, projection : 0..MaxTime, last : Int],
                           writes : Nat]]
  /\ result \in Results

\* The rows always agree with the counters, so the check at the head of every
\* transaction (assertPersistedEventProjection) never stops a session that only
\* this code has written, whatever the order of appends, prunings, continuity
\* boundaries, adoptions, restarts and startup batches.
LayoutInv == PersistedAgrees(tbl)

\* Compare-and-swap by (mapping time, projection time, last cursor) is sound: a
\* revision a writer still holds matches the session only if nothing has been
\* written since it was read.  Times repeat and go unchanged across appends, so
\* no single component would do.
RevisionNamesOneState ==
  \A w \in Writers :
    Holds(w) /\ Revision = held[w].revision => writes = held[w].writes

\* The inductive form of RevisionNamesOneState: each write moves the last cursor
\* or the mapping time forward, and nothing moves either back.
RevisionAdvances ==
  \A w \in Writers :
    /\ phase = "startup" \/ life = "absent" => held[w] = NotHeld
    /\ Holds(w) =>
         /\ held[w].writes <= writes
         /\ held[w].revision.mapping <= stamp.mapping
         /\ OrZero(held[w].revision.last) <= OrZero(tbl.last)
         /\ writes # held[w].writes =>
              \/ held[w].revision.mapping < stamp.mapping
              \/ OrZero(held[w].revision.last) < OrZero(tbl.last)

\* A committed cursor never carries a second event, and the cursor of a session
\* never moves back: not across a continuity boundary, a pruning or a restart.
CursorNeverReused ==
  [][Exists /\ life' = life =>
       /\ OrZero(tbl'.last) >= OrZero(tbl.last)
       /\ \A c \in RealCursors(tbl)' : c <= OrZero(tbl.last) => c \in RealCursors(tbl)]_vars

\* History only disappears behind a mark: whoever has read less than a dropped
\* event finds a boundary at the head of the next page (requirement DR-004).
DroppedHistoryIsMarked ==
  [][Exists /\ life' = life =>
       \A c \in RealCursors(tbl) \ RealCursors(tbl)' :
         \A after \in (0..(c - 1)) \cup {None} :
           CrossesBoundary(tbl', after) /\ ReadAccepted(tbl', after, 1)]_vars

\* Requirement DR-004: retention prunes, it does not refuse the event.  A session
\* whose first row is a boundary without a floor (an adoption, or a disconnect
\* before the first event) refuses its append instead.
AppendNeverRefused == result # "invalid_projection"
=============================================================================
