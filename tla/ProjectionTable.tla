--------------------------- MODULE ProjectionTable ---------------------------
(***************************************************************************)
(* The event rows and counters that HostDeck keeps in SQLite for one       *)
(* managed session, and the pure part of the transactions of               *)
(* packages/storage/src/selected-state-repository.ts on them: append, the  *)
(* pruning of an append, a continuity boundary, an adoption, and the       *)
(* paged read of listEvents.                                               *)
(*                                                                         *)
(* A table is a record: rows maps each retained cursor to its row; last,   *)
(* earliest, boundary and count are the columns of                         *)
(* selected_session_projections.  SQL NULL is None.  Payloads are left     *)
(* out.  Bytes are left out too: wherever the code compares bytes with the *)
(* byte limit, the choice it makes is left open.                           *)
(***************************************************************************)
EXTENDS Integers, FiniteSets

None == -1

OrZero(c) == IF c = None THEN 0 ELSE c

Reasons == {"retention", "disconnect", "restart", "schema_change", "adoption"}
ContinuityReasons == {"disconnect", "restart", "schema_change"}

\* A row holds a real event or a replay boundary: the mark "after this cursor
\* history was dropped".
Real == [kind |-> "real", after |-> None, reason |-> "none"]
Boundary(after, reason) == [kind |-> "boundary", after |-> after, reason |-> reason]
Rows == [kind : {"real", "boundary"}, after : Int, reason : Reasons \cup {"none"}]

EmptyTable ==
  [rows |-> [c \in {} |-> Real], last |-> None, earliest |-> None,
   boundary |-> None, count |-> 0]

Cursors(t) == DOMAIN t.rows
RealCursors(t) == {c \in Cursors(t) : t.rows[c].kind = "real"}

\* assignNextCursor: storage, not the caller, numbers events.
FloorByCount(t) == t.count                  \* mutant: number by retained rows
Floor(t) == IF OrZero(t.last) >= OrZero(t.boundary) THEN OrZero(t.last) ELSE OrZero(t.boundary)
NextCursor(t) == Floor(t) + 1

-----------------------------------------------------------------------------
\* The table after one more real event.
Appended(t) ==
  LET n == NextCursor(t) IN
  [rows |-> [c \in Cursors(t) \cup {n} |-> IF c = n THEN Real ELSE t.rows[c]],
   last |-> n, earliest |-> IF t.earliest = None THEN n ELSE t.earliest,
   boundary |-> t.boundary, count |-> t.count + 1]

\* The table once everything up to cursor b is replaced by one retention
\* boundary, which takes cursor b itself.
Pruned(t, b) ==
  LET kept == {c \in Cursors(t) : c > b} IN
  [rows |-> [c \in kept \cup {b} |->
               IF c = b THEN Boundary(b - 1, "retention") ELSE t.rows[c]],
   last |-> t.last, earliest |-> b, boundary |-> b - 1, count |-> Cardinality(kept) + 1]

BoundaryWithoutFloor(t, reason) ==          \* mutant: the mark names no floor
  LET n == NextCursor(t) IN
  [rows |-> [c \in {n} |-> Boundary(None, reason)], last |-> n, earliest |-> n,
   boundary |-> None, count |-> 1]

\* A continuity boundary discards all retained history.
BoundaryReplaced(t, reason) ==
  LET n == NextCursor(t)
      after == IF Floor(t) = 0 THEN None ELSE Floor(t) IN
  [rows |-> [c \in {n} |-> Boundary(after, reason)], last |-> n, earliest |-> n,
   boundary |-> after, count |-> 1]

\* An adopted thread starts with an adoption boundary and imported history.
Adopted(imported) ==
  [rows |-> [c \in 1..(imported + 1) |-> IF c = 1 THEN Boundary(None, "adoption") ELSE Real],
   last |-> imported + 1, earliest |-> 1, boundary |-> None, count |-> imported + 1]

-----------------------------------------------------------------------------
\* assertPersistedEventProjection: what every transaction re-checks against
\* the rows before it writes.
PersistedAgrees(t) ==
  /\ t.count = Cardinality(Cursors(t))
  /\ IF Cursors(t) = {}
       THEN t.last = None /\ t.earliest = None /\ t.boundary = None
       ELSE /\ t.earliest \in Cursors(t) /\ \A c \in Cursors(t) : t.earliest <= c
            /\ t.last \in Cursors(t) /\ \A c \in Cursors(t) : c <= t.last
            /\ t.last - t.earliest + 1 = t.count
            /\ IF t.rows[t.earliest].kind = "boundary"
                 THEN t.boundary = t.rows[t.earliest].after
                 ELSE t.boundary = None /\ t.earliest = 1

\* The shape every table has: an unbroken range of cursors, of which only the
\* first may hold a boundary, and that one names the cursor before it or nothing.
Shaped(t) ==
  \/ t = EmptyTable
  \/ /\ t.earliest \in Nat \ {0} /\ t.last \in Nat /\ t.earliest <= t.last
     /\ Cursors(t) = t.earliest .. t.last
     /\ t.count = t.last - t.earliest + 1
     /\ \A c \in Cursors(t) : c # t.earliest => t.rows[c] = Real
     /\ \/ t.rows[t.earliest] = Real /\ t.boundary = None /\ t.earliest = 1
        \/ /\ t.boundary = t.earliest - 1 \/ (t.boundary = None /\ t.earliest = 1)
           /\ \E reason \in Reasons : t.rows[t.earliest] = Boundary(t.boundary, reason)

\* assertSelectedRetentionLayout: what an append checks before it prunes.
RetentionLayoutAccepted(t) ==
  /\ \A c \in Cursors(t) : t.rows[c].kind = "boundary" => c = t.earliest
  /\ RealCursors(t) # {}
  /\ \A c \in Cursors(t) : c = t.earliest \/ c - 1 \in Cursors(t)
  /\ IF t.boundary = None
       THEN t.rows[t.earliest].kind = "real" /\ t.earliest = 1
       ELSE /\ t.rows[t.earliest].kind = "boundary"
            /\ t.rows[t.earliest].after = t.boundary
            /\ t.earliest = t.boundary + 1

\* planSelectedProjectionRetention: the cursors at which an append may cut.
\* At most limit - 1 of the newest real events stay, at least one stays, and
\* at least one goes.
AppendCuts(t, limit) ==
  {b \in RealCursors(t) : b + 1 \in RealCursors(t) /\ t.last - b <= limit - 1}

\* maintainSelectedProjectionRetentionBatch: a startup batch walks from the
\* oldest real event, removes at most batch of them and never the newest.
RemovedUpTo(t, b) == Cardinality({c \in RealCursors(t) : c <= b})
BatchExhausted(t, b, batch) == RemovedUpTo(t, b) = batch \/ b + 1 = t.last
BatchCuts(t, limit, batch) ==
  {b \in RealCursors(t) :
     /\ b + 1 \in RealCursors(t)
     /\ RemovedUpTo(t, b) <= batch
     /\ BatchExhausted(t, b, batch) \/ Pruned(t, b).count <= limit}

-----------------------------------------------------------------------------
\* listEvents: the cursors of the page after a cursor, and whether the page
\* breaks a rule the read enforces.
PageCursors(t, after, size) ==
  LET beyond == {c \in Cursors(t) : after = None \/ c > after} IN
  {c \in beyond : Cardinality({d \in beyond : d <= c}) <= size}

FirstOf(S) == CHOOSE c \in S : \A d \in S : c <= d

CrossesBoundary(t, after) == t.boundary # None /\ (after = None \/ after <= t.boundary)

ReadAccepted(t, after, size) ==
  LET page == PageCursors(t, after, size) IN
  /\ after = None \/ after <= OrZero(t.last)
  /\ (t.last # None /\ (after = None \/ after < t.last)) => page # {}
  /\ CrossesBoundary(t, after) =>
       page # {} /\ t.rows[FirstOf(page)].kind = "boundary"
=============================================================================
