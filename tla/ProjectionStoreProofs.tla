------------------------ MODULE ProjectionStoreProofs ------------------------
(***************************************************************************)
(* Proofs about the stored projection and the two components that read it: *)
(* ProjectionStore, EventPages and EventDelivery, for every number of      *)
(* writers and browsers, every limit and every bound.  The shape of a      *)
(* table (Shaped) is what makes the counters agree with the rows: each     *)
(* transaction takes a shaped table to a shaped table, so the check at the *)
(* head of the next one holds, every read of it is answered, and a replay  *)
(* reads an unbroken run.                                                  *)
(***************************************************************************)
EXTENDS EventPages, EventDelivery, FiniteSetTheorems, TLAPS

-----------------------------------------------------------------------------
(* The transactions as operators on tables. *)

\* A shaped table passes assertPersistedEventProjection: counting the rows of an
\* unbroken range gives the stored counter.
LEMMA ShapedAgrees ==
  ASSUME NEW t, Shaped(t)
  PROVE  PersistedAgrees(t)
<1>1. CASE t = EmptyTable
  BY <1>1, FS_EmptySet DEF EmptyTable, PersistedAgrees, Cursors
<1>2. CASE t # EmptyTable
  <2>1. /\ t.earliest \in Nat \ {0} /\ t.last \in Nat /\ t.earliest <= t.last
        /\ Cursors(t) = t.earliest .. t.last
        /\ t.count = t.last - t.earliest + 1
    BY <1>2 DEF Shaped
  <2>2. Cardinality(Cursors(t)) = t.count
    BY <2>1, FS_Interval
  <2>3. IF t.rows[t.earliest].kind = "boundary"
          THEN t.boundary = t.rows[t.earliest].after
          ELSE t.boundary = None /\ t.earliest = 1
    <3>1. CASE t.rows[t.earliest] = Real /\ t.boundary = None /\ t.earliest = 1
      BY <3>1 DEF Real
    <3>2. CASE \E reason \in Reasons : t.rows[t.earliest] = Boundary(t.boundary, reason)
      BY <3>2 DEF Boundary
    <3> QED
      BY <1>2, <3>1, <3>2 DEF Shaped
  <2> QED
    BY <2>1, <2>2, <2>3 DEF PersistedAgrees
<1> QED
  BY <1>1, <1>2

\* The next cursor is one past the last one: a boundary never runs ahead of it.
LEMMA ShapedNextCursor ==
  ASSUME NEW t, Shaped(t)
  PROVE  /\ OrZero(t.last) \in Nat
         /\ NextCursor(t) = OrZero(t.last) + 1
         /\ Floor(t) = OrZero(t.last)
         /\ Cursors(t) \subseteq 1..OrZero(t.last)
<1>1. CASE t = EmptyTable
  BY <1>1 DEF EmptyTable, NextCursor, Floor, OrZero, None, Cursors
<1>2. CASE t # EmptyTable
  <2>1. /\ t.earliest \in Nat \ {0} /\ t.last \in Nat /\ t.earliest <= t.last
        /\ Cursors(t) = t.earliest .. t.last
        /\ t.boundary = None \/ t.boundary = t.earliest - 1
    BY <1>2 DEF Shaped
  <2> QED
    BY <2>1 DEF NextCursor, Floor, OrZero, None
<1> QED
  BY <1>1, <1>2

\* Appending one event keeps the range unbroken.
LEMMA AppendedShaped ==
  ASSUME NEW t, Shaped(t)
  PROVE  /\ Shaped(Appended(t))
         /\ Cursors(Appended(t)) = Cursors(t) \cup {NextCursor(t)}
         /\ Appended(t).last = NextCursor(t)
<1> DEFINE n == NextCursor(t)
           u == Appended(t)
<1>1. /\ u.rows = [c \in Cursors(t) \cup {n} |-> IF c = n THEN Real ELSE t.rows[c]]
      /\ u.last = n /\ u.boundary = t.boundary /\ u.count = t.count + 1
      /\ u.earliest = IF t.earliest = None THEN n ELSE t.earliest
      /\ Cursors(u) = Cursors(t) \cup {n}
  BY DEF Appended, Cursors
<1>2. n = OrZero(t.last) + 1
  BY ShapedNextCursor
<1>3. CASE t = EmptyTable
  <2>1. n = 1 /\ Cursors(u) = {1} /\ u.earliest = 1 /\ u.last = 1 /\ u.count = 1
        /\ u.boundary = None /\ u.rows[1] = Real
    BY <1>1, <1>2, <1>3 DEF EmptyTable, OrZero, None, Cursors
  <2> QED
    BY <1>1, <2>1 DEF Shaped
<1>4. CASE t # EmptyTable
  <2>1. /\ t.earliest \in Nat \ {0} /\ t.last \in Nat /\ t.earliest <= t.last
        /\ Cursors(t) = t.earliest .. t.last
        /\ t.count = t.last - t.earliest + 1
        /\ \A c \in Cursors(t) : c # t.earliest => t.rows[c] = Real
    BY <1>4 DEF Shaped
  <2>2. n = t.last + 1 /\ u.earliest = t.earliest
    BY <1>1, <1>2, <2>1 DEF OrZero, None
  <2>3. Cursors(u) = u.earliest .. u.last
    BY <1>1, <2>1, <2>2
  <2>4. \A c \in Cursors(u) : c # u.earliest => u.rows[c] = Real
    BY <1>1, <2>1, <2>2
  <2>5. u.rows[u.earliest] = t.rows[t.earliest]
    BY <1>1, <2>1, <2>2
  <2>6. \/ u.rows[u.earliest] = Real /\ u.boundary = None /\ u.earliest = 1
        \/ /\ u.boundary = u.earliest - 1 \/ (u.boundary = None /\ u.earliest = 1)
           /\ \E reason \in Reasons : u.rows[u.earliest] = Boundary(u.boundary, reason)
    BY <1>1, <1>4, <2>2, <2>5 DEF Shaped
  <2>7. u.earliest \in Nat \ {0} /\ u.last \in Nat /\ u.earliest <= u.last
        /\ u.count = u.last - u.earliest + 1
    BY <1>1, <2>1, <2>2
  <2> QED
    BY <1>1, <2>3, <2>4, <2>6, <2>7 DEF Shaped
<1> QED
  BY <1>1, <1>3, <1>4

\* Pruning at a real event that another real event follows keeps the range
\* unbroken and puts a boundary at its head.
LEMMA PrunedShaped ==
  ASSUME NEW t, Shaped(t), NEW b, b \in RealCursors(t), b + 1 \in RealCursors(t)
  PROVE  /\ Shaped(Pruned(t, b))
         /\ Cursors(Pruned(t, b)) = b .. t.last
         /\ Pruned(t, b).last = t.last
         /\ Pruned(t, b).count = t.last - b + 1
         /\ Pruned(t, b).boundary = b - 1
         /\ t.last \in Nat /\ b \in 1..(t.last - 1)
         /\ RealCursors(Pruned(t, b)) = (b + 1) .. t.last
<1> DEFINE u == Pruned(t, b)
           kept == {c \in Cursors(t) : c > b}
<1>1. t # EmptyTable
  BY DEF EmptyTable, RealCursors, Cursors
<1>2. /\ t.earliest \in Nat \ {0} /\ t.last \in Nat /\ t.earliest <= t.last
      /\ Cursors(t) = t.earliest .. t.last
      /\ \A c \in Cursors(t) : c # t.earliest => t.rows[c] = Real
  BY <1>1 DEF Shaped
<1>3. b \in t.earliest .. t.last /\ b + 1 \in t.earliest .. t.last
  BY <1>2 DEF RealCursors
<1>4. kept = (b + 1) .. t.last
  BY <1>2, <1>3
<1>5. Cardinality(kept) = t.last - b
  <2>1. b + 1 \in Int /\ t.last \in Int /\ ~(b + 1 > t.last)
    BY <1>2, <1>3
  <2>2. Cardinality((b + 1) .. t.last) = t.last - (b + 1) + 1
    BY <2>1, FS_Interval
  <2>3. Cardinality(kept) = Cardinality((b + 1) .. t.last)
    BY <1>4
  <2>4. t.last - (b + 1) + 1 = t.last - b
    BY <2>1, <1>3
  <2> HIDE DEF kept
  <2> QED
    BY <2>2, <2>3, <2>4
<1>6. /\ u.rows = [c \in kept \cup {b} |->
                     IF c = b THEN Boundary(b - 1, "retention") ELSE t.rows[c]]
      /\ u.last = t.last /\ u.earliest = b /\ u.boundary = b - 1
      /\ u.count = Cardinality(kept) + 1
      /\ Cursors(u) = kept \cup {b}
  BY DEF Pruned, Cursors
<1>7. Cursors(u) = b .. t.last
  BY <1>2, <1>3, <1>4, <1>6
<1>8. \A c \in Cursors(u) : c # b => u.rows[c] = Real
  BY <1>2, <1>3, <1>4, <1>6
<1>9. u.rows[b] = Boundary(u.boundary, "retention")
  BY <1>6
<1>10. Shaped(u)
  BY <1>2, <1>3, <1>5, <1>6, <1>7, <1>8, <1>9 DEF Shaped, Reasons
<1>11. RealCursors(u) = (b + 1) .. t.last
  BY <1>2, <1>3, <1>7, <1>8, <1>9 DEF RealCursors, Real, Boundary
<1> QED
  BY <1>2, <1>3, <1>5, <1>6, <1>7, <1>10, <1>11

\* A continuity boundary leaves one row, just past everything there was.
LEMMA BoundaryReplacedShaped ==
  ASSUME NEW t, Shaped(t), NEW reason \in ContinuityReasons
  PROVE  /\ Shaped(BoundaryReplaced(t, reason))
         /\ Cursors(BoundaryReplaced(t, reason)) = {NextCursor(t)}
         /\ BoundaryReplaced(t, reason).last = NextCursor(t)
         /\ RealCursors(BoundaryReplaced(t, reason)) = {}
<1> DEFINE u == BoundaryReplaced(t, reason)
           n == NextCursor(t)
<1>1. n \in Nat \ {0} /\ Floor(t) = n - 1
  BY ShapedNextCursor
<1>2. /\ u.last = n /\ u.earliest = n /\ u.count = 1
      /\ u.boundary = IF Floor(t) = 0 THEN None ELSE Floor(t)
      /\ u.rows[n] = Boundary(u.boundary, reason)
      /\ Cursors(u) = {n}
  BY DEF BoundaryReplaced, Cursors
<1>3. u.boundary = u.earliest - 1 \/ (u.boundary = None /\ u.earliest = 1)
  BY <1>1, <1>2
<1>4. Shaped(u)
  BY <1>1, <1>2, <1>3 DEF Shaped, Reasons, ContinuityReasons
<1> QED
  BY <1>2, <1>4 DEF RealCursors, Boundary

\* An adopted session starts shaped.
LEMMA AdoptedShaped ==
  ASSUME NEW imported \in Nat
  PROVE  /\ Shaped(Adopted(imported))
         /\ Cursors(Adopted(imported)) = 1..(imported + 1)
<1> DEFINE u == Adopted(imported)
<1>1. /\ u.last = imported + 1 /\ u.earliest = 1 /\ u.boundary = None
      /\ u.count = imported + 1 /\ Cursors(u) = 1..(imported + 1)
      /\ u.rows = [c \in 1..(imported + 1) |-> IF c = 1 THEN Boundary(None, "adoption") ELSE Real]
  BY DEF Adopted, Cursors
<1>2. u.rows[1] = Boundary(None, "adoption") /\ \A c \in Cursors(u) : c # 1 => u.rows[c] = Real
  BY <1>1
<1> QED
  BY <1>1, <1>2 DEF Shaped, Reasons

(* An empty table is well shaped.                                          *)
LEMMA EmptyShaped == Shaped(EmptyTable)
  BY DEF Shaped

\* What the rows of a shaped table hold.
LEMMA ShapedRows ==
  ASSUME NEW t, Shaped(t), NEW c \in Cursors(t)
  PROVE  t.rows[c] \in Rows /\ (c # t.earliest => t.rows[c] = Real) /\ t.earliest \in Nat \ {0}
<1>1. Real \in Rows
  BY DEF Real, Rows, None
<1>2. t # EmptyTable
  BY DEF EmptyTable, Cursors
<1>3. /\ t.earliest \in Nat \ {0} /\ t.last \in Nat
      /\ \A d \in Cursors(t) : d # t.earliest => t.rows[d] = Real
  BY <1>2 DEF Shaped
<1>4. CASE c = t.earliest
  <2>1. CASE t.rows[t.earliest] = Real
    BY <1>1, <1>3, <1>4, <2>1
  <2>2. CASE \E reason \in Reasons : t.rows[t.earliest] = Boundary(t.boundary, reason)
    <3>1. t.boundary \in Int
      BY <1>2, <1>3 DEF Shaped, None
    <3> QED
      BY <1>3, <1>4, <2>2, <3>1 DEF Boundary, Rows
  <2> QED
    BY <1>2, <2>1, <2>2 DEF Shaped
<1> QED
  BY <1>1, <1>3, <1>4

-----------------------------------------------------------------------------
(* The transactions of the specification. *)

TableOK == Shaped(tbl) /\ OrZero(tbl.last) <= MaxCursor

\* What a step may do to the table, whoever takes it.
TableChange ==
  \/ UNCHANGED tbl
  \/ life' # life /\ tbl' = EmptyTable
  \/ life' # life /\ \E imported \in 0..MaxImport :
                        imported + 1 <= MaxCursor /\ tbl' = Adopted(imported)
  \/ NextCursor(tbl) <= MaxCursor /\ tbl' = Appended(tbl)
  \/ /\ NextCursor(tbl) <= MaxCursor
     /\ \E b \in AppendCuts(Appended(tbl), AppendLimit) : tbl' = Pruned(Appended(tbl), b)
  \/ /\ NextCursor(tbl) <= MaxCursor
     /\ \E reason \in ContinuityReasons : tbl' = BoundaryReplaced(tbl, reason)
  \/ \E b \in BatchCuts(tbl, StartupLimit, BatchSize) : tbl' = Pruned(tbl, b)

(* Every step changes the table in one of the ways listed above, or leaves *)
(* it.                                                                     *)
LEMMA StepsChangeTable ==
  ASSUME [Next]_vars
  PROVE  TableChange
<1>1. CASE UNCHANGED vars
  BY <1>1 DEF vars, TableChange
<1>2. ASSUME NEW t \in Times, Create(t) PROVE TableChange
  BY <1>2 DEF Create, TableChange
<1>3. ASSUME NEW t \in Times, NEW imported \in 0..MaxImport, Adopt(t, imported) PROVE TableChange
  BY <1>3 DEF Adopt, TableChange
<1>4. ASSUME NEW w \in Writers, Write(w) PROVE TableChange
  <2>1. CASE Read(w) BY <2>1 DEF Read, TableChange
  <2>2. CASE StaleWrite(w) BY <2>2 DEF StaleWrite, Refuse, TableChange
  <2>3. CASE Unmanage(w) BY <2>3 DEF Unmanage, TableChange
  <2>4. CASE \E overBytes \in ByteChoices : AppendRefused(w, overBytes)
    BY <2>4 DEF AppendRefused, Refuse, TableChange
  <2>5. ASSUME NEW t \in Times, NEW idle \in BOOLEAN, NEW overBytes \in ByteChoices,
               AppendEvent(w, t, idle, overBytes)
        PROVE  TableChange
    BY <2>5 DEF AppendEvent, TableChange
  <2>6. ASSUME NEW t \in Times, NEW idle \in BOOLEAN, NEW reason \in ContinuityReasons,
               ReplaceWithBoundary(w, t, reason, idle)
        PROVE  TableChange
    BY <2>6 DEF ReplaceWithBoundary, TableChange
  <2>7. ASSUME NEW t \in Times, NEW p \in Times, NEW idle \in BOOLEAN, Replace(w, t, p, idle)
        PROVE  TableChange
    BY <2>7 DEF Replace, TableChange
  <2> QED
    BY <1>4, <2>1, <2>2, <2>3, <2>4, <2>5, <2>6, <2>7 DEF Write
<1>5. ASSUME NEW overBytes \in ByteChoices, MaintainBatch(overBytes) PROVE TableChange
  BY <1>5 DEF MaintainBatch, TableChange
<1>6. CASE Restart BY <1>6 DEF Restart, TableChange
<1>7. CASE FinishStartup BY <1>7 DEF FinishStartup, TableChange
<1> QED
  BY <1>1, <1>2, <1>3, <1>4, <1>5, <1>6, <1>7 DEF Next

(* A store begins with an empty table.                                     *)
LEMMA TableInit == Init => TableOK
  BY EmptyShaped, BoundsAssumption DEF Init, TableOK, EmptyTable, OrZero, None

(* Whatever changes the table keeps it shaped and its cursors within       *)
(* bounds.                                                                 *)
LEMMA TableStep ==
  ASSUME TableOK, TableChange
  PROVE  TableOK'
<1>0. MaxCursor \in Nat /\ MaxImport \in Nat
  BY BoundsAssumption
<1>1. CASE UNCHANGED tbl
  BY <1>1 DEF TableOK, Shaped, Cursors
<1>2. CASE tbl' = EmptyTable
  BY <1>0, <1>2, EmptyShaped DEF TableOK, EmptyTable, OrZero, None
<1>3. ASSUME NEW imported \in 0..MaxImport, imported + 1 <= MaxCursor, tbl' = Adopted(imported)
      PROVE  TableOK'
  <2>1. imported \in Nat BY <1>0
  <2>2. Shaped(tbl') BY <1>3, <2>1, AdoptedShaped
  <2>3. tbl'.last = imported + 1 BY <1>3 DEF Adopted
  <2> QED BY <1>3, <2>1, <2>2, <2>3 DEF TableOK, OrZero, None
<1>4. ASSUME NextCursor(tbl) <= MaxCursor PROVE /\ Shaped(Appended(tbl))
                                                /\ OrZero(Appended(tbl).last) <= MaxCursor
  <2>1. NextCursor(tbl) \in Nat BY ShapedNextCursor DEF TableOK
  <2> QED BY <1>4, <2>1, AppendedShaped DEF TableOK, OrZero, None
<1>5. CASE NextCursor(tbl) <= MaxCursor /\ tbl' = Appended(tbl)
  BY <1>4, <1>5 DEF TableOK
<1>6. ASSUME NextCursor(tbl) <= MaxCursor,
             NEW b \in AppendCuts(Appended(tbl), AppendLimit), tbl' = Pruned(Appended(tbl), b)
      PROVE  TableOK'
  <2>1. b \in RealCursors(Appended(tbl)) /\ b + 1 \in RealCursors(Appended(tbl))
    BY <1>6 DEF AppendCuts
  <2> QED BY <1>4, <1>6, <2>1, PrunedShaped DEF TableOK
<1>7. ASSUME NextCursor(tbl) <= MaxCursor,
             NEW reason \in ContinuityReasons, tbl' = BoundaryReplaced(tbl, reason)
      PROVE  TableOK'
  <2>1. NextCursor(tbl) \in Nat BY ShapedNextCursor DEF TableOK
  <2> QED BY <1>7, <2>1, BoundaryReplacedShaped DEF TableOK, OrZero, None
<1>8. ASSUME NEW b \in BatchCuts(tbl, StartupLimit, BatchSize), tbl' = Pruned(tbl, b)
      PROVE  TableOK'
  <2>1. b \in RealCursors(tbl) /\ b + 1 \in RealCursors(tbl)
    BY <1>8 DEF BatchCuts
  <2> QED BY <1>8, <2>1, PrunedShaped DEF TableOK
<1> QED
  BY <1>1, <1>2, <1>3, <1>5, <1>6, <1>7, <1>8 DEF TableChange

\* Every reachable table is shaped and within the bound.
THEOREM TablesStayShaped == Spec => []TableOK
<1>1. TableOK /\ [Next]_vars => TableOK'
  BY StepsChangeTable, TableStep
<1> QED
  BY <1>1, TableInit, PTL DEF Spec

\* The counters always agree with the rows: the check at the head of every
\* transaction of the selected-state repository never stops a session.
THEOREM LayoutAlways == Spec => []LayoutInv
<1>1. TableOK => LayoutInv
  BY ShapedAgrees DEF TableOK, LayoutInv
<1> QED
  BY <1>1, TablesStayShaped, PTL

\* Events are numbered once: within one life of a session no cursor is given to
\* a second event and the last cursor never moves back.
THEOREM CursorsNeverReused == Spec => CursorNeverReused
<1> DEFINE Good == Exists /\ life' = life =>
       /\ OrZero(tbl'.last) >= OrZero(tbl.last)
       /\ \A c \in RealCursors(tbl)' : c <= OrZero(tbl.last) => c \in RealCursors(tbl)
<1>1. ASSUME TableOK, TableChange PROVE Good
  <2>0. /\ OrZero(tbl.last) \in Nat /\ NextCursor(tbl) = OrZero(tbl.last) + 1
        /\ \A c \in RealCursors(tbl) : c \in Nat
    BY <1>1, ShapedNextCursor DEF TableOK, RealCursors
  <2>1. CASE UNCHANGED tbl
    BY <2>0, <2>1 DEF RealCursors, Cursors
  <2>2. CASE life' # life
    BY <2>2
  <2>3. /\ Shaped(Appended(tbl)) /\ OrZero(Appended(tbl).last) = OrZero(tbl.last) + 1
        /\ Appended(tbl).last = OrZero(tbl.last) + 1
        /\ \A c \in RealCursors(Appended(tbl)) :
              c = OrZero(tbl.last) + 1 \/ c \in RealCursors(tbl)
    BY <1>1, <2>0, AppendedShaped DEF TableOK, Appended, RealCursors, Cursors, OrZero, None
  <2>4. CASE tbl' = Appended(tbl)
    BY <2>0, <2>3, <2>4 DEF RealCursors, Cursors
  <2>5. ASSUME NEW b \in AppendCuts(Appended(tbl), AppendLimit), tbl' = Pruned(Appended(tbl), b)
        PROVE  Good
    <3>1. b \in RealCursors(Appended(tbl)) /\ b + 1 \in RealCursors(Appended(tbl))
      BY DEF AppendCuts
    <3>2. /\ tbl'.last = OrZero(tbl.last) + 1
          /\ RealCursors(tbl') \subseteq RealCursors(Appended(tbl))
      BY <2>3, <2>5, <3>1, PrunedShaped DEF Pruned, RealCursors, Cursors, Boundary
    <3> QED BY <2>0, <2>3, <3>2 DEF RealCursors, Cursors, OrZero, None
  <2>6. ASSUME NEW reason \in ContinuityReasons, tbl' = BoundaryReplaced(tbl, reason)
        PROVE  Good
    <3>1. tbl'.last = OrZero(tbl.last) + 1 /\ RealCursors(tbl') = {}
      BY <1>1, <2>0, <2>6, BoundaryReplacedShaped DEF TableOK
    <3> QED BY <2>0, <3>1 DEF RealCursors, Cursors, OrZero, None
  <2>7. ASSUME NEW b \in BatchCuts(tbl, StartupLimit, BatchSize), tbl' = Pruned(tbl, b)
        PROVE  Good
    <3>1. b \in RealCursors(tbl) /\ b + 1 \in RealCursors(tbl)
      BY DEF BatchCuts
    <3>2. tbl'.last = tbl.last /\ RealCursors(tbl') \subseteq RealCursors(tbl)
      BY <1>1, <2>7, <3>1, PrunedShaped DEF TableOK, Pruned, RealCursors, Cursors, Boundary
    <3> QED BY <2>0, <3>2 DEF RealCursors, Cursors
  <2> QED
    BY <1>1, <2>1, <2>2, <2>4, <2>5, <2>6, <2>7 DEF TableChange
<1>2. TableOK /\ [Next]_vars => [Good]_vars
  BY <1>1, StepsChangeTable
<1> QED
  BY <1>2, TablesStayShaped, PTL DEF Spec, CursorNeverReused

-----------------------------------------------------------------------------
(* Type correctness. *)

TableTyped(t) ==
  /\ Cursors(t) \subseteq 1..MaxCursor /\ \A c \in Cursors(t) : t.rows[c] \in Rows
  /\ t.last \in Int /\ t.earliest \in Int /\ t.boundary \in Int /\ t.count \in Nat

ControlTyped ==
  /\ phase \in {"startup", "serving"}
  /\ life \in {"absent", "created", "adopted", "removed"}
  /\ stamp \in [mapping : 0..MaxTime, projection : 0..MaxTime]
  /\ quiet \in BOOLEAN /\ writes \in Nat
  /\ held \in [Writers -> [revision : [mapping : 0..MaxTime, projection : 0..MaxTime, last : Int],
                           writes : Nat]]
  /\ result \in Results

\* A shaped table within the bound is well typed.
LEMMA ShapedTyped ==
  ASSUME NEW t, Shaped(t), OrZero(t.last) <= MaxCursor
  PROVE  TableTyped(t)
<1>0. MaxCursor \in Nat /\ Real \in Rows
  BY BoundsAssumption DEF Real, Rows, None
<1>1. CASE t = EmptyTable
  BY <1>0, <1>1 DEF TableTyped, EmptyTable, Cursors, None
<1>2. CASE t # EmptyTable
  <2>1. /\ t.earliest \in Nat \ {0} /\ t.last \in Nat /\ t.earliest <= t.last
        /\ Cursors(t) = t.earliest .. t.last
        /\ t.count = t.last - t.earliest + 1
        /\ \A c \in Cursors(t) : c # t.earliest => t.rows[c] = Real
        /\ t.boundary \in Int
    BY <1>2 DEF Shaped, None
  <2>2. t.rows[t.earliest] \in Rows
    <3>1. CASE t.rows[t.earliest] = Real
      BY <1>0, <3>1
    <3>2. ASSUME NEW reason \in Reasons, t.rows[t.earliest] = Boundary(t.boundary, reason)
          PROVE  t.rows[t.earliest] \in Rows
      BY <2>1, <3>2 DEF Boundary, Rows
    <3> QED BY <1>2, <3>1, <3>2 DEF Shaped
  <2>3. \A c \in Cursors(t) : t.rows[c] \in Rows
    BY <1>0, <2>1, <2>2
  <2>4. Cursors(t) \subseteq 1..MaxCursor
    BY <1>0, <2>1, t.last <= MaxCursor DEF OrZero, None
  <2> QED BY <2>1, <2>3, <2>4 DEF TableTyped
<1> QED BY <1>1, <1>2

(* The revision of a writer that holds none.                               *)
LEMMA NotHeldTyped ==
  NotHeld \in [revision : [mapping : 0..MaxTime, projection : 0..MaxTime, last : Int],
              writes : Nat]
  BY BoundsAssumption DEF NotHeld, None

(* Writers, stamps and results have their types at first.                  *)
LEMMA ControlInit == Init => ControlTyped
<1> SUFFICES ASSUME Init PROVE ControlTyped
  OBVIOUS
<1>1. stamp \in [mapping : 0..MaxTime, projection : 0..MaxTime]
  BY BoundsAssumption DEF Init
<1>2. held \in [Writers -> [revision : [mapping : 0..MaxTime, projection : 0..MaxTime, last : Int],
                           writes : Nat]]
  BY NotHeldTyped DEF Init
<1> QED
  BY <1>1, <1>2 DEF Init, ControlTyped, Results

(* Every step keeps the types of writers, stamps and results.              *)
LEMMA ControlStep ==
  ASSUME ControlTyped, tbl.last \in Int, [Next]_vars
  PROVE  ControlTyped'
<1>0. Times \subseteq 0..MaxTime /\ MaxTime \in Nat
  BY BoundsAssumption DEF Times
<1>1. NotHeld \in [revision : [mapping : 0..MaxTime, projection : 0..MaxTime, last : Int],
                   writes : Nat]
  BY NotHeldTyped
<1>2. CASE UNCHANGED vars
  BY <1>2 DEF vars, ControlTyped
<1>3. ASSUME NEW t \in Times, Create(t) PROVE ControlTyped'
  BY <1>0, <1>3 DEF Create, ControlTyped, Results
<1>4. ASSUME NEW t \in Times, NEW imported \in 0..MaxImport, Adopt(t, imported)
      PROVE  ControlTyped'
  BY <1>0, <1>4 DEF Adopt, ControlTyped, Results
<1>5. ASSUME NEW w \in Writers, Write(w) PROVE ControlTyped'
  <2>1. CASE Read(w) BY <2>1 DEF Read, ControlTyped, Revision
  <2>2. CASE StaleWrite(w) BY <1>1, <2>2 DEF StaleWrite, Refuse, ControlTyped, Results
  <2>3. CASE Unmanage(w) BY <1>1, <2>3 DEF Unmanage, Commit, ControlTyped, Results
  <2>4. CASE \E overBytes \in ByteChoices : AppendRefused(w, overBytes)
    BY <1>1, <2>4 DEF AppendRefused, Refuse, ControlTyped, Results
  <2>5. ASSUME NEW t \in Times, NEW idle \in BOOLEAN, NEW overBytes \in ByteChoices,
               AppendEvent(w, t, idle, overBytes)
        PROVE  ControlTyped'
    BY <1>0, <1>1, <2>5 DEF AppendEvent, Commit, ControlTyped, Results
  <2>6. ASSUME NEW t \in Times, NEW idle \in BOOLEAN, NEW reason \in ContinuityReasons,
               ReplaceWithBoundary(w, t, reason, idle)
        PROVE  ControlTyped'
    BY <1>0, <1>1, <2>6 DEF ReplaceWithBoundary, Commit, ControlTyped, Results
  <2>7. ASSUME NEW t \in Times, NEW p \in Times, NEW idle \in BOOLEAN, Replace(w, t, p, idle)
        PROVE  ControlTyped'
    BY <1>0, <1>1, <2>7 DEF Replace, Commit, ControlTyped, Results
  <2> QED
    BY <1>5, <2>1, <2>2, <2>3, <2>4, <2>5, <2>6, <2>7 DEF Write
<1>6. ASSUME NEW overBytes \in ByteChoices, MaintainBatch(overBytes) PROVE ControlTyped'
  BY <1>6 DEF MaintainBatch, ControlTyped, Results
<1>7. CASE Restart BY <1>1, <1>7 DEF Restart, ControlTyped, Results
<1>8. CASE FinishStartup BY <1>8 DEF FinishStartup, ControlTyped
<1> QED
  BY <1>2, <1>3, <1>4, <1>5, <1>6, <1>7, <1>8 DEF Next

\* The variables keep their types under every transaction, restart and batch.
THEOREM TypeCorrect == Spec => []TypeOK
<1>1. TableOK => TableTyped(tbl)
  BY ShapedTyped DEF TableOK
<1>2. ControlTyped /\ TableOK /\ [Next]_vars => ControlTyped'
  BY <1>1, ControlStep DEF TableTyped
<1>3. ControlTyped /\ TableOK => TypeOK
  BY <1>1 DEF ControlTyped, TableTyped, TypeOK
<1> QED
  BY <1>2, <1>3, ControlInit, TablesStayShaped, PTL DEF Spec

-----------------------------------------------------------------------------
(* The compare-and-swap of a writer. *)

LEMMA RevisionInit == Init => RevisionAdvances
  BY DEF Init, RevisionAdvances, Holds, Exists

(* Every step that changes the rows moves the revision past those held.    *)
LEMMA RevisionStep ==
  ASSUME ControlTyped, TableOK, RevisionAdvances, [Next]_vars
  PROVE  RevisionAdvances'
<1>0. /\ OrZero(tbl.last) \in Nat /\ NextCursor(tbl) = OrZero(tbl.last) + 1
      /\ tbl.last \in Int
  BY ShapedNextCursor, ShapedTyped DEF TableOK, TableTyped
<1>1. /\ stamp.mapping \in Nat /\ stamp.projection \in Nat /\ writes \in Nat
      /\ \A w \in Writers : held[w].writes \in Nat /\ held[w].revision.mapping \in Nat
                             /\ OrZero(held[w].revision.last) \in Int
  BY BoundsAssumption DEF ControlTyped, OrZero
<1>2. CASE UNCHANGED vars
  BY <1>2 DEF vars, RevisionAdvances, Holds, Exists
<1>3. ASSUME NEW t \in Times, Create(t) PROVE RevisionAdvances'
  BY <1>3 DEF Create, RevisionAdvances, Holds
<1>4. ASSUME NEW t \in Times, NEW imported \in 0..MaxImport, Adopt(t, imported)
      PROVE  RevisionAdvances'
  BY <1>4 DEF Adopt, RevisionAdvances, Holds
<1>5. ASSUME NEW w \in Writers, Write(w) PROVE RevisionAdvances'
  <2>1. CASE Read(w)
    <3>1. phase = "serving" /\ Exists /\ UNCHANGED <<phase, life, tbl, stamp, writes>>
      BY <2>1 DEF Read
    <3>2. held' = [held EXCEPT ![w] = [revision |-> Revision, writes |-> writes]]
      BY <2>1 DEF Read
    <3>3. ASSUME NEW v \in Writers, v # w PROVE held'[v] = held[v]
      BY <3>2, <3>3 DEF ControlTyped
    <3>4. held'[w] = [revision |-> Revision, writes |-> writes]
      BY <3>2 DEF ControlTyped
    <3> QED
      BY <1>0, <1>1, <3>1, <3>3, <3>4 DEF RevisionAdvances, Holds, Exists, Revision
  <2>2. CASE \E why \in Results : Refuse(w, why) /\ Holds(w)
    BY <2>2 DEF Refuse, RevisionAdvances, Holds, Exists, ControlTyped
  <2>3. ASSUME \/ \E overBytes \in ByteChoices : AppendRefused(w, overBytes)
               \/ StaleWrite(w)
        PROVE  \E why \in Results : Refuse(w, why) /\ Holds(w)
    BY <2>3 DEF AppendRefused, StaleWrite, MayWrite, Results
  <2>4. CASE Unmanage(w)
    BY <2>4 DEF Unmanage, RevisionAdvances, Holds, MayWrite, Exists
  <2>5. ASSUME Holds(w), held' = [held EXCEPT ![w] = NotHeld], writes' = writes + 1,
               UNCHANGED <<phase, life>>,
               \/ stamp'.mapping = stamp.mapping /\ OrZero(tbl.last) < OrZero(tbl'.last)
               \/ stamp.mapping < stamp'.mapping /\ UNCHANGED tbl,
               stamp'.mapping \in Nat, OrZero(tbl'.last) \in Nat
        PROVE  RevisionAdvances'
    <3>1. held'[w] = NotHeld /\ \A v \in Writers : v # w => held'[v] = held[v]
      BY <2>5 DEF ControlTyped
    <3> QED
      BY <1>0, <1>1, <2>5, <3>1 DEF RevisionAdvances, Holds, Exists
  <2>6. ASSUME NEW t \in Times, NEW idle \in BOOLEAN, NEW overBytes \in ByteChoices,
               AppendEvent(w, t, idle, overBytes)
        PROVE  RevisionAdvances'
    <3>1. /\ Holds(w) /\ held' = [held EXCEPT ![w] = NotHeld] /\ writes' = writes + 1
          /\ UNCHANGED <<phase, life>> /\ stamp'.mapping = stamp.mapping
      BY <2>6 DEF AppendEvent, MayWrite, Commit, ControlTyped
    <3>2. Appended(tbl).last = OrZero(tbl.last) + 1
      BY <1>0, AppendedShaped DEF TableOK
    <3>3. \A b : Pruned(Appended(tbl), b).last = Appended(tbl).last
      BY DEF Pruned
    <3>4. tbl' = Appended(tbl) \/ \E b : tbl' = Pruned(Appended(tbl), b)
      BY <2>6 DEF AppendEvent
    <3>5. tbl'.last = OrZero(tbl.last) + 1
      BY <3>2, <3>3, <3>4
    <3> QED
      BY <1>0, <1>1, <2>5, <3>1, <3>5 DEF OrZero, None
  <2>7. ASSUME NEW t \in Times, NEW idle \in BOOLEAN, NEW reason \in ContinuityReasons,
               ReplaceWithBoundary(w, t, reason, idle)
        PROVE  RevisionAdvances'
    <3>1. /\ Holds(w) /\ held' = [held EXCEPT ![w] = NotHeld] /\ writes' = writes + 1
          /\ UNCHANGED <<phase, life>> /\ stamp'.mapping = stamp.mapping
      BY <2>7 DEF ReplaceWithBoundary, MayWrite, Commit, ControlTyped
    <3>2. tbl'.last = OrZero(tbl.last) + 1
      BY <1>0, <2>7 DEF ReplaceWithBoundary, BoundaryReplaced
    <3> QED
      BY <1>0, <1>1, <2>5, <3>1, <3>2 DEF OrZero, None
  <2>8. ASSUME NEW t \in Times, NEW p \in Times, NEW idle \in BOOLEAN, Replace(w, t, p, idle)
        PROVE  RevisionAdvances'
    <3>1. /\ Holds(w) /\ held' = [held EXCEPT ![w] = NotHeld] /\ writes' = writes + 1
          /\ UNCHANGED <<phase, life, tbl>> /\ stamp'.mapping = t /\ stamp.mapping < t
          /\ t \in Nat
      BY <1>1, <2>8, BoundsAssumption DEF Replace, MayWrite, Commit, Times
    <3> QED
      BY <1>0, <1>1, <2>5, <3>1
  <2> QED
    BY <1>5, <2>1, <2>2, <2>3, <2>4, <2>6, <2>7, <2>8 DEF Write
<1>6. ASSUME NEW overBytes \in ByteChoices, MaintainBatch(overBytes) PROVE RevisionAdvances'
  BY <1>6 DEF MaintainBatch, RevisionAdvances, Holds
<1>7. CASE Restart
  BY <1>7 DEF Restart, RevisionAdvances, Holds
<1>8. CASE FinishStartup
  BY <1>8 DEF FinishStartup, RevisionAdvances, Holds
<1> QED
  BY <1>2, <1>3, <1>4, <1>5, <1>6, <1>7, <1>8 DEF Next

\* A writer whose revision still matches has seen every write: the compare and
\* swap of append, replace, continuity boundary and unmanage loses no update.
THEOREM CompareAndSwapSound == Spec => []RevisionNamesOneState
<1>1. ControlTyped /\ TableOK /\ RevisionAdvances /\ [Next]_vars =>
        RevisionAdvances' /\ ControlTyped'
  BY RevisionStep, ControlStep, ShapedTyped DEF TableOK, TableTyped
<1>2. ControlTyped /\ TableOK /\ RevisionAdvances => RevisionNamesOneState
  <2> SUFFICES ASSUME ControlTyped, TableOK, RevisionAdvances, NEW w \in Writers,
                      Holds(w), Revision = held[w].revision
               PROVE  writes = held[w].writes
    BY DEF RevisionNamesOneState
  <2>1. stamp.mapping = held[w].revision.mapping /\ tbl.last = held[w].revision.last
    BY DEF Revision
  <2>2. stamp.mapping \in Int /\ OrZero(tbl.last) \in Int
    BY BoundsAssumption, ShapedNextCursor DEF ControlTyped, TableOK
  <2> QED
    BY <2>1, <2>2 DEF RevisionAdvances
<1> QED
  BY <1>1, <1>2, ControlInit, RevisionInit, TablesStayShaped, PTL DEF Spec

-----------------------------------------------------------------------------
(* Reading a page. *)

\* The first cursor of a range.
LEMMA FirstOfRange ==
  ASSUME NEW m \in Int, NEW n \in Int, m <= n
  PROVE  FirstOf(m .. n) = m
<1>1. m \in m .. n /\ \A d \in m .. n : m <= d
  OBVIOUS
<1>2. \A c \in m .. n : (\A d \in m .. n : c <= d) => c = m
  OBVIOUS
<1> QED BY <1>1, <1>2 DEF FirstOf

\* Where a page begins, and where it ends: a page of a shaped table is the range
\* of cursors from the first one past the request.
Low(t, after) == IF after # None /\ after >= t.earliest THEN after + 1 ELSE t.earliest
High(t, after, size) ==
  IF Low(t, after) + size - 1 <= t.last THEN Low(t, after) + size - 1 ELSE t.last

LEMMA PageIsRange ==
  ASSUME NEW t, Shaped(t), t # EmptyTable, NEW after \in Nat \cup {None}, NEW size \in Nat \ {0}
  PROVE  /\ Low(t, after) \in Nat \ {0} /\ High(t, after, size) \in Int
         /\ PageCursors(t, after, size) = Low(t, after) .. High(t, after, size)
<1> DEFINE lo == Low(t, after)
           hi == High(t, after, size)
           beyond == {c \in Cursors(t) : after = None \/ c > after}
<1>1. /\ t.earliest \in Nat \ {0} /\ t.last \in Nat /\ t.earliest <= t.last
      /\ Cursors(t) = t.earliest .. t.last
  BY DEF Shaped
<1>2. lo \in Nat \ {0}
  BY <1>1 DEF Low, None
<1>3. hi \in Int /\ hi <= t.last /\ hi <= lo + size - 1
      /\ (hi = t.last \/ hi = lo + size - 1)
  BY <1>1, <1>2 DEF High
<1>4. beyond = lo .. t.last
  BY <1>1 DEF Low, None
<1> HIDE DEF lo, hi, beyond
<1>5. ASSUME NEW c \in beyond
      PROVE  Cardinality({d \in beyond : d <= c}) <= size <=> c <= hi
  <2>1. c \in Int /\ lo <= c /\ c <= t.last
    BY <1>1, <1>2, <1>4
  <2>2. {d \in beyond : d <= c} = lo .. c
    BY <1>1, <1>2, <1>4, <2>1
  <2>3. Cardinality(lo .. c) = c - lo + 1
    BY <1>2, <2>1, FS_Interval
  <2>4. Cardinality({d \in beyond : d <= c}) = c - lo + 1
    BY <2>2, <2>3
  <2>5. c - lo + 1 <= size <=> c <= hi
    BY <1>1, <1>2, <1>3, <2>1
  <2> QED BY <2>4, <2>5
<1>6. PageCursors(t, after, size) = {c \in beyond : c <= hi}
  BY <1>5 DEF PageCursors, beyond
<1> QED BY <1>1, <1>2, <1>3, <1>4, <1>6 DEF lo, hi

\* What listEvents checks holds of every page of a shaped table, whatever cursor
\* and size are asked for.
LEMMA ShapedReads ==
  ASSUME NEW t, Shaped(t), NEW after \in Nat \cup {None}, after <= OrZero(t.last),
         NEW size \in Nat \ {0}
  PROVE  ReadAccepted(t, after, size)
<1>1. CASE t = EmptyTable
  <2>1. t.last = None /\ t.boundary = None
    BY <1>1 DEF EmptyTable
  <2> QED BY <2>1 DEF ReadAccepted, CrossesBoundary
<1>2. CASE t # EmptyTable
  <2> DEFINE lo == Low(t, after)
             hi == High(t, after, size)
  <2>1. /\ t.earliest \in Nat \ {0} /\ t.last \in Nat /\ t.earliest <= t.last
        /\ t.boundary # None =>
             t.boundary = t.earliest - 1 /\ t.rows[t.earliest].kind = "boundary"
    <3>1. \A reason : Boundary(t.boundary, reason).kind = "boundary"
      BY DEF Boundary
    <3> QED BY <1>2, <3>1 DEF Shaped
  <2>2. /\ lo \in Nat \ {0} /\ hi \in Int /\ PageCursors(t, after, size) = lo .. hi
    BY <1>2, PageIsRange
  <2>3. after = None \/ after < t.last => lo <= hi
    BY <2>1 DEF Low, High, None
  <2>4. CrossesBoundary(t, after) => lo = t.earliest /\ (after = None \/ after < t.last)
    BY <2>1 DEF Low, None, CrossesBoundary
  <2> HIDE DEF lo, hi
  <2>5. CrossesBoundary(t, after) => FirstOf(lo .. hi) = t.earliest
    BY <2>2, <2>3, <2>4, FirstOfRange
  <2>6. lo <= hi => lo .. hi # {}
    <3>1. lo <= hi => lo \in lo .. hi
      BY <2>2
    <3> QED BY <3>1
  <2>7. CrossesBoundary(t, after) => t.boundary # None
    BY DEF CrossesBoundary
  <2> QED BY <2>1, <2>2, <2>3, <2>4, <2>5, <2>6, <2>7 DEF ReadAccepted
<1> QED BY <1>1, <1>2

\* A boundary put in place of dropped rows is found by whoever reads from before
\* it: its page of one event is the boundary.
LEMMA MarkIsFound ==
  ASSUME NEW t, Shaped(t), t # EmptyTable, t.boundary # None, NEW after \in Nat \cup {None},
         after <= t.boundary
  PROVE  CrossesBoundary(t, after) /\ ReadAccepted(t, after, 1)
<1>1. /\ t.boundary = t.earliest - 1 /\ t.earliest \in Nat \ {0} /\ t.last \in Nat
      /\ t.earliest <= t.last
  BY DEF Shaped
<1>2. after <= OrZero(t.last)
  BY <1>1 DEF OrZero, None
<1> QED BY <1>2, ShapedReads DEF CrossesBoundary

\* No transaction and no startup batch drops an event without a mark for those
\* who have not read it (planSelectedProjectionRetention,
\* replaceEventsWithBoundary).
THEOREM DroppedHistoryMarked == Spec => DroppedHistoryIsMarked
<1> DEFINE Marks == Exists /\ life' = life =>
             \A c \in RealCursors(tbl) \ RealCursors(tbl)' :
               \A after \in (0..(c - 1)) \cup {None} :
                 CrossesBoundary(tbl', after) /\ ReadAccepted(tbl', after, 1)
<1>1. ASSUME TableOK, TableChange PROVE Marks
  <2>1. CASE UNCHANGED tbl \/ life' # life
    BY <2>1 DEF RealCursors, Cursors
  <2>2. RealCursors(tbl) \subseteq RealCursors(Appended(tbl)) /\ Shaped(Appended(tbl))
    <3>1. NextCursor(tbl) \notin Cursors(tbl)
      BY <1>1, ShapedNextCursor DEF TableOK
    <3> QED BY <1>1, <3>1, AppendedShaped DEF TableOK, Appended, RealCursors, Cursors
  <2>3. CASE tbl' = Appended(tbl)
    BY <2>2, <2>3 DEF RealCursors, Cursors
  <2>4. ASSUME NEW t, Shaped(t), RealCursors(tbl) \subseteq RealCursors(t),
               NEW b \in RealCursors(t), b + 1 \in RealCursors(t), tbl' = Pruned(t, b)
        PROVE  Marks
    <3>1. /\ Shaped(tbl') /\ tbl'.boundary = b - 1 /\ t.last \in Nat /\ b \in 1..(t.last - 1)
          /\ RealCursors(tbl') = (b + 1) .. t.last
      BY <2>4, PrunedShaped
    <3>2. tbl' # EmptyTable /\ tbl'.boundary # None
      BY <3>1 DEF EmptyTable, None
    <3>3. ASSUME NEW c \in RealCursors(tbl) \ RealCursors(tbl)',
                 NEW after \in (0..(c - 1)) \cup {None}
          PROVE  CrossesBoundary(tbl', after) /\ ReadAccepted(tbl', after, 1)
      <4>1. c \in Nat /\ c <= t.last
        <5>1. c \in Cursors(t) /\ Cursors(t) \subseteq 1..OrZero(t.last)
          BY <2>4, <3>3, ShapedNextCursor DEF RealCursors
        <5> QED BY <3>1, <5>1 DEF OrZero, None
      <4>2. c \notin (b + 1) .. t.last
        BY <3>1, <3>3 DEF RealCursors, Cursors
      <4>3. after \in Nat \cup {None} /\ after <= b - 1
        BY <3>1, <3>3, <4>1, <4>2 DEF None
      <4> QED BY <3>1, <3>2, <4>3, MarkIsFound
    <3> QED BY <3>3
  <2>5. ASSUME NEW b \in AppendCuts(Appended(tbl), AppendLimit), tbl' = Pruned(Appended(tbl), b)
        PROVE  Marks
    BY <2>2, <2>4, <2>5 DEF AppendCuts
  <2>6. ASSUME NEW b \in BatchCuts(tbl, StartupLimit, BatchSize), tbl' = Pruned(tbl, b)
        PROVE  Marks
    BY <1>1, <2>4, <2>6 DEF BatchCuts, TableOK
  <2>7. ASSUME NEW reason \in ContinuityReasons, tbl' = BoundaryReplaced(tbl, reason)
        PROVE  Marks
    <3>1. /\ Shaped(tbl') /\ tbl' # EmptyTable
          /\ tbl'.boundary = IF Floor(tbl) = 0 THEN None ELSE Floor(tbl)
      BY <1>1, <2>7, BoundaryReplacedShaped DEF TableOK, BoundaryReplaced, EmptyTable, None
    <3>2. /\ Floor(tbl) \in Nat /\ Cursors(tbl) \subseteq 1..Floor(tbl)
      BY <1>1, ShapedNextCursor DEF TableOK
    <3>3. ASSUME NEW c \in RealCursors(tbl), NEW after \in (0..(c - 1)) \cup {None}
          PROVE  CrossesBoundary(tbl', after) /\ ReadAccepted(tbl', after, 1)
      <4>1. c \in 1..Floor(tbl)
        BY <3>2, <3>3 DEF RealCursors
      <4>2. /\ tbl'.boundary = Floor(tbl) /\ tbl'.boundary # None
            /\ after \in Nat \cup {None} /\ after <= tbl'.boundary
        BY <3>1, <3>2, <3>3, <4>1 DEF None
      <4> QED BY <3>1, <4>2, MarkIsFound
    <3> QED BY <3>3
  <2> QED BY <1>1, <2>1, <2>3, <2>5, <2>6, <2>7 DEF TableChange
<1>2. TableOK /\ [Next]_vars => [Marks]_vars
  BY <1>1, StepsChangeTable
<1> QED
  BY <1>2, TablesStayShaped, PTL DEF Spec, DroppedHistoryIsMarked

-----------------------------------------------------------------------------
(* The checks of the page route and of the detail view. *)

\* An adoption boundary names no cursor: it drops nothing.
Marked(t) == \A c \in Cursors(t) : t.rows[c].reason = "adoption" => t.boundary = None

\* A table has no mark of a lost connection.
Undisturbed(t) == \A c \in Cursors(t) : t.rows[c].reason \notin ContinuityReasons

\* No transaction gives another boundary the reason of an adoption.
LEMMA MarkedStep ==
  ASSUME TableOK, Marked(tbl), TableChange
  PROVE  Marked(tbl')
<1>1. CASE UNCHANGED tbl
  BY <1>1
<1>2. CASE tbl' = EmptyTable
  BY <1>2 DEF EmptyTable, Marked, Cursors
<1>3. ASSUME NEW imported \in 0..MaxImport, tbl' = Adopted(imported) PROVE Marked(tbl')
  BY <1>3 DEF Adopted, Marked
<1>4. Marked(Appended(tbl)) /\ Shaped(Appended(tbl))
  BY AppendedShaped DEF TableOK, Marked, Appended, Cursors, Real
<1>5. ASSUME NEW t, Shaped(t), NEW b \in RealCursors(t), b + 1 \in RealCursors(t),
             tbl' = Pruned(t, b)
      PROVE  Marked(tbl')
  <2>1. /\ t.earliest \in Nat \ {0} /\ t.last \in Nat /\ Cursors(t) = t.earliest .. t.last
        /\ \A c \in Cursors(t) : c # t.earliest => t.rows[c] = Real
    BY <1>5 DEF Shaped, EmptyTable, RealCursors, Cursors
  <2>2. \A c \in Cursors(t) : c > b => t.rows[c] = Real
    BY <1>5, <2>1 DEF RealCursors
  <2> QED BY <1>5, <2>2 DEF Marked, Pruned, Cursors, Boundary, Real
<1>6. ASSUME NEW b \in AppendCuts(Appended(tbl), AppendLimit), tbl' = Pruned(Appended(tbl), b)
      PROVE  Marked(tbl')
  BY <1>4, <1>5, <1>6 DEF AppendCuts
<1>7. ASSUME NEW b \in BatchCuts(tbl, StartupLimit, BatchSize), tbl' = Pruned(tbl, b)
      PROVE  Marked(tbl')
  BY <1>5, <1>7 DEF BatchCuts, TableOK
<1>8. ASSUME NEW reason \in ContinuityReasons, tbl' = BoundaryReplaced(tbl, reason)
      PROVE  Marked(tbl')
  BY <1>8 DEF BoundaryReplaced, Marked, Cursors, Boundary, ContinuityReasons
<1> QED
  BY <1>1, <1>2, <1>3, <1>4, <1>6, <1>7, <1>8 DEF TableChange

\* The stored counters pass the first check of the page route.
LEMMA LayoutAccepted ==
  ASSUME NEW t, Shaped(t)
  PROVE  EventLayoutAccepted(t)
<1>1. CASE t = EmptyTable
  BY <1>1 DEF EmptyTable, EventLayoutAccepted
<1>2. CASE t # EmptyTable
  <2>1. /\ t.earliest \in Nat \ {0} /\ t.last \in Nat /\ t.earliest <= t.last
        /\ t.count = t.last - t.earliest + 1
        /\ t.boundary = None \/ t.boundary = t.earliest - 1
    BY <1>2 DEF Shaped
  <2> QED BY <2>1 DEF EventLayoutAccepted, None
<1> QED BY <1>1, <1>2

\* The detail view finds the stored counters in the rows of a shaped table.
LEMMA ShapedDetail ==
  ASSUME NEW t, Shaped(t)
  PROVE  DetailAccepted(t)
<1>1. t.count = Cardinality(Cursors(t))
  BY ShapedAgrees DEF PersistedAgrees
<1>2. CASE t = EmptyTable
  BY <1>1, <1>2 DEF EmptyTable, DetailAccepted, Cursors
<1>3. CASE t # EmptyTable
  <2>1. /\ t.earliest \in Nat \ {0} /\ t.last \in Nat /\ t.earliest <= t.last
        /\ Cursors(t) = t.earliest .. t.last
        /\ t.count = t.last - t.earliest + 1
        /\ \A c \in Cursors(t) : c # t.earliest => t.rows[c] = Real
    BY <1>3 DEF Shaped
  <2>2. FirstOf(Cursors(t)) = t.earliest
    BY <2>1, FirstOfRange
  <2>3. Cursors(t) \ RealCursors(t) \subseteq {t.earliest}
    BY <2>1 DEF RealCursors, Real
  <2>4. IF t.boundary = None
          THEN t.earliest = 1
          ELSE t.boundary + 1 = t.earliest /\ Cursors(t) \ RealCursors(t) # {}
    <3>1. \/ t.boundary = None /\ t.earliest = 1
          \/ t.boundary = t.earliest - 1 /\ t.rows[t.earliest].kind = "boundary"
      <4>1. \A reason : Boundary(t.boundary, reason).kind = "boundary"
        BY DEF Boundary
      <4>2. CASE t.boundary = None
        BY <1>3, <2>1, <4>2 DEF Shaped, None
      <4>3. CASE t.boundary # None
        <5>1. t.boundary = t.earliest - 1
          BY <1>3, <4>3 DEF Shaped
        <5>2. PICK reason \in Reasons : t.rows[t.earliest] = Boundary(t.boundary, reason)
          BY <1>3, <4>3 DEF Shaped
        <5> QED BY <4>1, <5>1, <5>2
      <4> QED BY <4>2, <4>3
    <3>2. t.earliest \in Cursors(t)
      BY <2>1
    <3>3. t.rows[t.earliest].kind = "boundary" => t.earliest \in Cursors(t) \ RealCursors(t)
      BY <3>2 DEF RealCursors
    <3> QED BY <2>1, <3>1, <3>3 DEF None
  <2> QED BY <1>1, <2>1, <2>2, <2>3, <2>4 DEF DetailAccepted
<1> QED BY <1>2, <1>3

\* A page of a table that no lost connection has marked passes the second check
\* of the route: it begins with the mark of what was dropped, or goes on where
\* the request ends, and is short only at the end.
LEMMA UndisturbedPage ==
  ASSUME NEW t, Shaped(t), Marked(t), Undisturbed(t),
         NEW after \in Nat \cup {None}, after <= OrZero(t.last), NEW size \in Nat \ {0}
  PROVE  PageAccepted(t, after, size)
<1>1. CASE t = EmptyTable
  <2>1. PageCursors(t, after, size) = {} /\ OrZero(t.last) = 0 /\ OrZero(after) \in Nat
    BY <1>1 DEF EmptyTable, PageCursors, Cursors, OrZero, None
  <2> QED BY <2>1 DEF PageAccepted
<1>2. CASE t # EmptyTable
  <2> DEFINE lo == Low(t, after)
             hi == High(t, after, size)
             base == OrZero(after)
             head == t.rows[lo]
  <2>1. /\ t.earliest \in Nat \ {0} /\ t.last \in Nat /\ t.earliest <= t.last
        /\ Cursors(t) = t.earliest .. t.last
        /\ \A c \in Cursors(t) : c # t.earliest => t.rows[c].kind = "real"
        /\ t.boundary = None => t.earliest = 1
        /\ t.boundary # None => t.boundary = t.earliest - 1
    <3>1. Real.kind = "real"
      BY DEF Real
    <3>2. t.boundary = None => t.earliest = 1
      BY <1>2 DEF Shaped, None
    <3> QED BY <1>2, <3>1, <3>2 DEF Shaped
  <2>2. /\ t.rows[t.earliest].kind = "boundary" => t.rows[t.earliest].after = t.boundary
        /\ t.boundary # None =>
             t.rows[t.earliest].kind = "boundary" /\ t.rows[t.earliest].reason = "retention"
    <3>1. t.earliest \in Cursors(t)
      BY <2>1
    <3>2. CASE t.rows[t.earliest] = Real /\ t.boundary = None
      BY <3>2 DEF Real
    <3>3. ASSUME NEW reason \in Reasons, t.rows[t.earliest] = Boundary(t.boundary, reason)
          PROVE  <2>2!1 /\ <2>2!2
      <4>1. /\ t.rows[t.earliest].kind = "boundary" /\ t.rows[t.earliest].after = t.boundary
            /\ t.rows[t.earliest].reason = reason
        BY <3>3 DEF Boundary
      <4>2. reason \notin ContinuityReasons /\ (reason = "adoption" => t.boundary = None)
        BY <3>1, <4>1 DEF Marked, Undisturbed
      <4> QED BY <4>1, <4>2 DEF Reasons, ContinuityReasons
    <3> QED BY <1>2, <3>2, <3>3 DEF Shaped
  <2>3. /\ lo \in Nat \ {0} /\ hi \in Int /\ PageCursors(t, after, size) = lo .. hi
    BY <1>2, PageIsRange
  <2>4. base \in Nat /\ OrZero(t.last) = t.last /\ base <= t.last
    BY <2>1 DEF OrZero, None
  <2>5. /\ lo = IF base >= t.earliest THEN base + 1 ELSE t.earliest
        /\ after = None => base = 0
        /\ after # None => base = after
    BY <2>1 DEF Low, OrZero, None
  <2>6. /\ hi <= t.last /\ (hi = t.last \/ hi = lo + size - 1)
        /\ base < t.last => lo <= hi
    BY <2>1, <2>3, <2>5 DEF High
  <2> HIDE DEF lo, hi, base
  <2>7. \A c \in lo .. hi : base < c /\ c <= t.last
    BY <2>1, <2>3, <2>4, <2>5, <2>6
  <2>8. CASE lo .. hi = {}
    <3>1. ~(lo <= hi)
      BY <2>3, <2>8, lo <= hi => lo \in lo .. hi
    <3> QED BY <2>1, <2>3, <2>4, <2>6, <2>8, <3>1 DEF PageAccepted, base
  <2>9. CASE lo .. hi # {}
    <3>1. lo <= hi /\ FirstOf(lo .. hi) = lo
      BY <2>3, <2>9, FirstOfRange
    <3>2. Cardinality(lo .. hi) < size => t.last \in lo .. hi
      <4>1. Cardinality(lo .. hi) = hi - lo + 1
        BY <2>3, <3>1, FS_Interval
      <4> QED BY <2>1, <2>3, <2>6, <3>1, <4>1
    <3>3. t.boundary # None /\ base <= t.boundary =>
            /\ head.kind = "boundary" /\ head.reason = "retention"
            /\ head.after = t.boundary /\ lo = t.boundary + 1
      BY <2>1, <2>2, <2>4, <2>5 DEF None
    <3>4. ~(t.boundary # None /\ base <= t.boundary) =>
            /\ lo = base + 1
            /\ head.kind = "boundary" => head.after = after \/ (base = 0 /\ head.after = None)
      <4>1. CASE t.boundary = None
        <5>1. t.earliest = 1 /\ lo = base + 1
          BY <2>1, <2>4, <2>5, <4>1
        <5>2. lo \in Cursors(t)
          BY <2>1, <2>3, <2>6, <3>1, <5>1
        <5>3. head.kind = "boundary" => lo = 1
          BY <2>1, <5>1, <5>2
        <5> QED BY <2>2, <2>4, <4>1, <5>1, <5>3
      <4>2. CASE t.boundary # None /\ base > t.boundary
        <5>1. base >= t.earliest /\ lo = base + 1
          BY <2>1, <2>4, <2>5, <4>2
        <5>2. lo \in Cursors(t) /\ lo # t.earliest
          BY <2>1, <2>3, <2>4, <2>6, <3>1, <5>1
        <5> QED BY <2>1, <5>1, <5>2
      <4> QED BY <2>1, <2>4, <4>1, <4>2 DEF None
    <3> QED BY <2>3, <2>4, <2>7, <2>9, <3>1, <3>2, <3>3, <3>4 DEF PageAccepted, base
  <2> QED BY <2>8, <2>9
<1> QED BY <1>1, <1>2

\* Every read of a session that no lost connection has marked is answered: the
\* second checks of the page route and of the detail view are never stricter
\* than what the writers keep (parseAndValidatePage, assertEventAggregate).
THEOREM PagesStayReadable == PagesSpec => []PagesReadableWithoutDisconnect
<1> DEFINE Readable == TableOK /\ Marked(tbl) /\ PagesReadableWithoutDisconnect
<1>1. PagesInit => Readable
  <2>1. Init => Marked(tbl)
    BY DEF Init, EmptyTable, Marked, Cursors
  <2> QED BY <2>1, TableInit DEF PagesInit, PagesReadableWithoutDisconnect
<1>2. ASSUME Readable, [PagesNext]_pageVars PROVE Readable'
  <2>1. [Next]_vars
    BY <1>2 DEF PagesNext, pageVars, ReadDetail, ReadPage
  <2>2. TableOK' /\ Marked(tbl')
    BY <1>2, <2>1, StepsChangeTable, TableStep, MarkedStep
  <2>3. ASSUME UNCHANGED pageVars PROVE PagesReadableWithoutDisconnect'
    <3>1. UNCHANGED <<tbl, reply>>
      BY <2>3 DEF pageVars, vars
    <3> QED BY <1>2, <3>1 DEF PagesReadableWithoutDisconnect, Cursors
  <2>4. reply' # "storage_error" => PagesReadableWithoutDisconnect'
    BY DEF PagesReadableWithoutDisconnect
  <2>5. ReadDetail => reply' # "storage_error"
    BY <1>2, ShapedDetail DEF TableOK, ReadDetail
  <2>6. ASSUME NEW after \in {None} \cup 0..MaxCursor, NEW size \in PageSizes,
               ReadPage(after, size)
        PROVE  PagesReadableWithoutDisconnect'
    <3>1. /\ UNCHANGED tbl /\ Shaped(tbl) /\ Marked(tbl)
          /\ after \in Nat \cup {None} /\ size \in Nat \ {0}
      BY <1>2, <2>6, BoundsAssumption, PageSizesAssumption DEF ReadPage, TableOK, vars
    <3>2. OrZero(tbl.last) \in Nat
      BY <3>1, ShapedNextCursor
    <3>3. EventLayoutAccepted(tbl) /\ PersistedAgrees(tbl)
      BY <3>1, LayoutAccepted, ShapedAgrees
    <3>4. Undisturbed(tbl) /\ ~(after > OrZero(tbl.last)) =>
            ReadAccepted(tbl, after, size) /\ PageAccepted(tbl, after, size)
      <4>1. ~(after > OrZero(tbl.last)) => after <= OrZero(tbl.last)
        BY <3>1, <3>2 DEF None
      <4> QED BY <3>1, <4>1, ShapedReads, UndisturbedPage
    <3>5. Undisturbed(tbl) => reply' # "storage_error"
      BY <2>6, <3>3, <3>4 DEF ReadPage
    <3> QED BY <3>1, <3>5 DEF PagesReadableWithoutDisconnect, Undisturbed, Cursors
  <2>7. PagesReadableWithoutDisconnect'
    <3>1. reply' = "none" => reply' # "storage_error"
      OBVIOUS
    <3> QED BY <1>2, <2>3, <2>4, <2>5, <2>6, <3>1 DEF PagesNext
  <2> QED BY <2>2, <2>7
<1>3. Readable => PagesReadableWithoutDisconnect
  OBVIOUS
<1> QED BY <1>1, <1>2, <1>3, PTL DEF PagesSpec

-----------------------------------------------------------------------------
(* EventDelivery.  Its invariant relates every stream to the newest event:  *)
(* what is on the wire, in the replay and in the queue leads, one after the *)
(* other and without a gap, from the cursor of the browser to the newest    *)
(* committed event.                                                         *)

\* An event on its way, and everything a stream can be made of.
Items == [cursor : Nat \ {0}, row : Rows]
Streams ==
  [st : {"none", "broken"} \cup Registered, after : Int, observed : Int, hw : Int, floor : Int,
   tries : Nat, seen : Int, paused : Seq(Items), replay : Seq(Items), queue : Seq(Items),
   wire : Seq(Items), waiting : BOOLEAN]

\* The newest committed event.
Reached == OrZero(stored.last)

\* What waits in a queue is an unbroken run that ends at the newest event.
Held(q, n) == \A i \in 1..Len(q) : q[i].cursor = n - Len(q) + i

\* What is still to be sent is an unbroken run that follows a cursor, or starts
\* with a boundary beyond it.
Run(prev, q) ==
  /\ \A i \in 1..Len(q) : q[i].cursor = q[1].cursor + i - 1
  /\ q # <<>> => \/ IsNext(prev, q[1].cursor)
                 \/ q[1].row.kind = "boundary" /\ q[1].cursor > OrZero(prev)

Bounded(k) ==
  /\ k.tries < MaxAttempts /\ Len(k.wire) <= 1
  /\ Len(k.paused) <= QueueMax /\ Len(k.queue) <= QueueMax /\ Len(k.replay) <= ReplayMax

\* A stream that opens: nothing is on the wire, the replay follows the cursor of
\* the browser, and every event committed since is in the paused queue.
AtOpen(k, b, n) ==
  k.st \in Opening \cup {"paused"} =>
    /\ b.phase = "connecting" /\ k.after = b.cursor
    /\ k.wire = <<>> /\ k.queue = <<>> /\ ~k.waiting
    /\ Held(k.paused, n) /\ Run(k.after, k.replay)

\* How far its replay has got: the paused queue reaches down to the high-water
\* cursor, and a replay that is read ends there.
AtRead(k, n) ==
  /\ k.st = "subscribed" => k.replay = <<>> /\ k.hw = None
  /\ k.st = "reading" => k.hw # None
  /\ k.st \in Opening => k.seen = IF k.paused = <<>> THEN None ELSE n
  /\ k.st \in {"reading", "checking", "paused"} =>
       OrZero(k.hw) <= n /\ n - OrZero(k.hw) <= Len(k.paused)
  /\ k.st \in {"checking", "paused"} => OrZero(LastOf(k.replay, k.after)) = OrZero(k.hw)
  /\ k.st = "paused" => OrZero(k.hw) = n - Len(k.paused) /\ OrZero(k.seen) = n

\* A live stream: wire, replay and queue, one after the other, lead without a gap
\* from the cursor of the browser to the newest event.
AtLive(k, b, n) ==
  k.st = "live" =>
    /\ b.phase = "connected" /\ OrZero(k.hw) <= n /\ OrZero(k.seen) = n
    /\ Run(b.cursor, k.wire) /\ Run(LastOf(k.wire, b.cursor), k.replay) /\ Held(k.queue, n)
    /\ OrZero(LastOf(k.replay, LastOf(k.wire, b.cursor))) = n - Len(k.queue)
    /\ k.waiting => k.wire = <<>> /\ k.replay = <<>> /\ k.queue = <<>>

StreamOK(k, b, n) ==
  /\ k \in Streams /\ Bounded(k)
  /\ k.st = "broken" => b.phase = "connecting"
  /\ AtOpen(k, b, n) /\ AtRead(k, n) /\ AtLive(k, b, n)

Reasonable == {"none", "invalid_event", "handoff_failed", "replay_inconsistent", "replay_limit",
               "unavailable", "reconnect_exhausted"}
Browsers ==
  [phase : {"idle", "connecting", "connected", "failed"}, cursor : Int, started : BOOLEAN,
   marked : BOOLEAN, retries : 0..MaxRetries, lost : SUBSET Int, why : Reasonable]
BrowserOK(b, n) ==
  /\ b \in Browsers /\ b.cursor \in {None} \cup 0..n /\ b.lost \subseteq 1..n
  /\ b.phase = "idle" => b.cursor = None

\* The hub has seen every commit since its session got a subscriber.
HubInStep == ~hub.failed /\ (hub.last # None => hub.last = Reached /\ subs # {})

DeliveryInv ==
  /\ Shaped(stored) /\ Reached <= MaxEvents
  /\ hub \in [failed : BOOLEAN, last : {None} \cup 1..MaxEvents]
  /\ subs \subseteq Clients /\ admitted \subseteq Clients /\ faults \in 0..MaxFaults
  /\ stream \in [Clients -> Streams] /\ browser \in [Clients -> Browsers]
  /\ \A c \in Clients : StreamOK(stream[c], browser[c], Reached) /\ BrowserOK(browser[c], Reached)
  /\ HubInStep /\ PlacesMatchStreams

\* Elements, head and tail of a queue.
LEMMA SeqBasics ==
  ASSUME NEW S, NEW q \in Seq(S)
  PROVE  /\ Len(q) \in Nat /\ (q = <<>> <=> Len(q) = 0)
         /\ \A i \in 1..Len(q) : q[i] \in S
         /\ q # <<>> => Tail(q) \in Seq(S) /\ Len(Tail(q)) = Len(q) - 1
                        /\ Head(q) = q[1] /\ q[1] \in S
                        /\ \A i \in 1..Len(Tail(q)) : Tail(q)[i] = q[i + 1]
<1>1. Len(q) \in Nat /\ (q = <<>> <=> Len(q) = 0) /\ \A i \in 1..Len(q) : q[i] \in S
  OBVIOUS
<1>2. CASE q # <<>>
  <2>1. Tail(q) \in Seq(S) /\ Len(Tail(q)) = Len(q) - 1 /\ Head(q) = q[1]
    BY <1>2
  <2>2. q[1] \in S
    BY <1>1, <1>2
  <2>3. \A i \in 1..Len(Tail(q)) : Tail(q)[i] = q[i + 1]
    BY <1>2
  <2> QED BY <1>1, <2>1, <2>2, <2>3
<1> QED BY <1>1, <1>2

\* A queue with one more event.
LEMMA AppendBasics ==
  ASSUME NEW S, NEW q \in Seq(S), NEW e \in S
  PROVE  /\ Append(q, e) \in Seq(S) /\ Len(Append(q, e)) = Len(q) + 1 /\ Append(q, e) # <<>>
         /\ Append(q, e)[Len(q) + 1] = e
         /\ \A i \in 1..Len(q) : Append(q, e)[i] = q[i]
  OBVIOUS

\* A queue of one event.
LEMMA OneBasics ==
  ASSUME NEW S, NEW e \in S
  PROVE  <<e>> \in Seq(S) /\ Len(<<e>>) = 1 /\ <<e>>[1] = e /\ <<e>> # <<>>
  OBVIOUS

\* The last cursor of a queue, or what is given for an empty one.
LEMMA LastOfTyped ==
  ASSUME NEW q \in Seq(Items), NEW d \in Int
  PROVE  LastOf(q, d) \in Int /\ (q # <<>> => LastOf(q, d) \in Nat \ {0})
         /\ (q = <<>> => LastOf(q, d) = d)
<1>1. CASE q = <<>>
  BY <1>1 DEF LastOf
<1>2. CASE q # <<>>
  <2>1. Len(q) \in 1..Len(q) /\ q[Len(q)] \in Items
    BY <1>2, SeqBasics
  <2> QED BY <1>2, <2>1 DEF LastOf, Items
<1> QED BY <1>1, <1>2

\* The same from a cursor a browser may hold.
LEMMA LastOfStart ==
  ASSUME NEW q \in Seq(Items), NEW d \in Nat \cup {None}
  PROVE  LastOf(q, d) \in Nat \cup {None}
<1>1. d \in Int
  BY DEF None
<1>2. q = <<>> => LastOf(q, d) = d
  BY DEF LastOf
<1>3. q # <<>> => LastOf(q, d) \in Nat \ {0}
  BY <1>1, LastOfTyped
<1> QED BY <1>2, <1>3

\* The last cursor of a run.
LEMMA RunLast ==
  ASSUME NEW q \in Seq(Items), NEW prev \in Int, Run(prev, q), prev >= -1
  PROVE  /\ q # <<>> => LastOf(q, prev) = q[1].cursor + Len(q) - 1
         /\ q # <<>> => q[1].cursor > OrZero(prev)
         /\ OrZero(LastOf(q, prev)) >= OrZero(prev)
<1>1. CASE q = <<>>
  BY <1>1 DEF LastOf, OrZero, None
<1>2. CASE q # <<>>
  <2>1. Len(q) \in 1..Len(q) /\ 1 \in 1..Len(q) /\ q[Len(q)] \in Items /\ q[1] \in Items
    BY <1>2, SeqBasics
  <2>2. q[Len(q)].cursor = q[1].cursor + Len(q) - 1
    BY <2>1 DEF Run
  <2>3. q[1].cursor > OrZero(prev)
    BY <1>2, <2>1 DEF Run, IsNext, OrZero, None, Items
  <2>4. q[1].cursor \in Nat \ {0} /\ Len(q) \in Nat \ {0}
    BY <2>1 DEF Items
  <2> QED BY <1>2, <2>2, <2>3, <2>4 DEF LastOf, OrZero, None
<1> QED BY <1>1, <1>2

\* What is left of a run once its head is taken follows the head.
LEMMA RunTaken ==
  ASSUME NEW q \in Seq(Items), NEW prev \in Int, Run(prev, q), q # <<>>
  PROVE  Run(prev, <<Head(q)>>) /\ Run(Head(q).cursor, Tail(q))
         /\ OrZero(LastOf(Tail(q), Head(q).cursor)) = OrZero(LastOf(q, prev))
<1> DEFINE r == Tail(q)
           m == Len(r)
<1>1. /\ Len(q) = m + 1 /\ Head(q) = q[1] /\ q[1] \in Items /\ r \in Seq(Items)
      /\ \A i \in 1..m : r[i] = q[i + 1]
  BY SeqBasics
<1>2. m \in Nat /\ (r = <<>> <=> m = 0)
  BY <1>1, SeqBasics
<1> HIDE DEF r
<1>3. q[1].cursor \in Nat \ {0}
  BY <1>1 DEF Items
<1>4. \A i \in 1..Len(q) : q[i].cursor = q[1].cursor + i - 1
  BY DEF Run
<1>5. Run(prev, <<Head(q)>>)
  BY <1>1, <1>3, OneBasics DEF Run
<1> HIDE DEF m
<1>6. CASE r = <<>>
  <2>1. Len(q) = 1
    BY <1>1, <1>2, <1>6
  <2>2. Run(Head(q).cursor, r)
    BY <1>6 DEF Run
  <2>3. LastOf(r, Head(q).cursor) = q[1].cursor /\ LastOf(q, prev) = q[1].cursor
    BY <1>1, <1>6, <2>1 DEF LastOf
  <2> QED BY <1>5, <2>2, <2>3 DEF r
<1>7. CASE r # <<>>
  <2>1. m \in 1..m /\ 1 \in 1..m
    BY <1>2, <1>7
  <2>2. \A i \in 1..m : r[i].cursor = q[1].cursor + i
    <3> TAKE i \in 1..m
    <3>1. i + 1 \in 1..Len(q) /\ i \in Int
      BY <1>1, <1>2
    <3>2. q[i + 1].cursor = q[1].cursor + (i + 1) - 1
      BY <1>4, <3>1
    <3> QED BY <1>1, <1>3, <3>1, <3>2
  <2>3. r[1].cursor = q[1].cursor + 1
    BY <2>1, <2>2
  <2>4. Run(Head(q).cursor, r)
    BY <1>1, <1>3, <2>1, <2>2, <2>3 DEF Run, IsNext, OrZero, None, m
  <2>5. LastOf(r, Head(q).cursor) = LastOf(q, prev)
    <3>1. r[m] = q[Len(q)]
      BY <1>1, <2>1
    <3> QED BY <1>7, <3>1 DEF LastOf, m
  <2> QED BY <1>5, <2>4, <2>5 DEF r
<1> QED BY <1>6, <1>7

\* The next committed event keeps a queue that waits unbroken up to the newest.
LEMMA HeldGrows ==
  ASSUME NEW q \in Seq(Items), NEW n \in Nat, Held(q, n), NEW e \in Items, e.cursor = n + 1
  PROVE  Held(Append(q, e), n + 1)
<1>1. \A i \in 1..Len(Append(q, e)) : i \in 1..Len(q) \/ i = Len(q) + 1
  BY AppendBasics, SeqBasics
<1>2. \A i \in 1..Len(q) : Append(q, e)[i].cursor = (n + 1) - (Len(q) + 1) + i
  BY AppendBasics, SeqBasics DEF Held
<1>3. Append(q, e)[Len(q) + 1].cursor = (n + 1) - (Len(q) + 1) + (Len(q) + 1)
  BY AppendBasics, SeqBasics
<1> QED BY <1>1, <1>2, <1>3, AppendBasics DEF Held

\* What is left of such a queue once its head is taken still reaches the newest event.
LEMMA HeldTaken ==
  ASSUME NEW q \in Seq(Items), NEW n \in Nat, Held(q, n), q # <<>>
  PROVE  Head(q).cursor = n - Len(q) + 1 /\ Held(Tail(q), n)
<1>1. /\ Len(q) \in Nat /\ Head(q) = q[1] /\ Len(q) # 0 /\ Len(Tail(q)) = Len(q) - 1
      /\ \A i \in 1..Len(Tail(q)) : Tail(q)[i] = q[i + 1]
  BY SeqBasics
<1>2. \A i \in 1..Len(Tail(q)) : Tail(q)[i].cursor = n - Len(Tail(q)) + i
  <2> TAKE i \in 1..Len(Tail(q))
  <2>1. i + 1 \in 1..Len(q) /\ Tail(q)[i] = q[i + 1]
    BY <1>1
  <2>2. q[i + 1].cursor = n - Len(q) + (i + 1)
    BY <2>1 DEF Held
  <2> QED BY <1>1, <2>1, <2>2
<1>3. 1 \in 1..Len(q)
  BY <1>1
<1> QED BY <1>1, <1>2, <1>3 DEF Held

\* Counting through a range.
LEMMA NthOfRange ==
  ASSUME NEW a \in Int, NEW b \in Int, NEW i \in 1..Cardinality(a .. b)
  PROVE  Nth(a .. b, i) = a + i - 1 /\ a + i - 1 \in a .. b
<1>1. a <= b /\ Cardinality(a .. b) = b - a + 1
  BY FS_Interval
<1>2. \A m \in a .. b : Cardinality({l \in a .. b : l <= m}) = m - a + 1
  <2> TAKE m \in a .. b
  <2>1. {l \in a .. b : l <= m} = a .. m
    OBVIOUS
  <2>2. Cardinality(a .. m) = m - a + 1
    BY FS_Interval
  <2> QED BY <2>1, <2>2
<1>3. a + i - 1 \in a .. b
  BY <1>1
<1>4. i \in Int
  BY <1>1
<1>5. ASSUME NEW m \in a .. b PROVE Cardinality({l \in a .. b : l <= m}) = i <=> m = a + i - 1
  <2>1. Cardinality({l \in a .. b : l <= m}) = m - a + 1 /\ m \in Int
    BY <1>2
  <2> QED BY <1>4, <2>1
<1> QED BY <1>3, <1>5 DEF Nth

\* A page that goes on where a run ended makes a longer run.
LEMMA RunJoined ==
  ASSUME NEW q \in Seq(Items), NEW p \in Seq(Items), NEW prev \in Int, prev >= -1,
         Run(prev, q), p # <<>>, IsNext(LastOf(q, prev), p[1].cursor),
         \A i \in 1..Len(p) : p[i].cursor = p[1].cursor + i - 1
  PROVE  q \o p \in Seq(Items) /\ q \o p # <<>> /\ Run(prev, q \o p)
<1> DEFINE r == q \o p
<1>1. /\ r \in Seq(Items) /\ Len(r) = Len(q) + Len(p)
      /\ \A i \in 1..Len(q) : r[i] = q[i]
      /\ \A i \in 1..Len(p) : r[Len(q) + i] = p[i]
  OBVIOUS
<1>2. /\ Len(q) \in Nat /\ Len(p) \in Nat \ {0} /\ r # <<>>
      /\ (q = <<>> <=> Len(q) = 0) /\ p[1] \in Items
  <2>1. Len(q) \in Nat /\ Len(p) \in Nat /\ (q = <<>> <=> Len(q) = 0) /\ (p = <<>> <=> Len(p) = 0)
    BY SeqBasics
  <2>2. r = <<>> <=> Len(r) = 0
    BY <1>1, SeqBasics
  <2>3. 1 \in 1..Len(p)
    BY <2>1
  <2> QED BY <1>1, <2>1, <2>2, <2>3
<1> HIDE DEF r
<1>3. CASE q = <<>>
  <2>1. Len(q) = 0 /\ LastOf(q, prev) = prev
    BY <1>2, <1>3 DEF LastOf
  <2>2. Len(r) = Len(p) /\ \A i \in 1..Len(p) : r[i] = p[i]
    <3>1. \A i \in 1..Len(p) : r[0 + i] = p[i]
      BY <1>1, <2>1
    <3> QED BY <1>1, <1>2, <2>1, <3>1
  <2>3. r[1] = p[1]
    BY <1>2, <2>2
  <2> QED BY <1>1, <1>2, <2>1, <2>2, <2>3 DEF Run, r
<1>4. CASE q # <<>>
  <2>1. /\ Len(q) \in Nat \ {0} /\ 1 \in 1..Len(q) /\ q[1] \in Items
        /\ LastOf(q, prev) = q[1].cursor + Len(q) - 1
    BY <1>2, <1>4, RunLast, SeqBasics
  <2>2. q[1].cursor \in Nat \ {0} /\ p[1].cursor \in Nat \ {0}
    BY <1>2, <2>1 DEF Items
  <2>3. p[1].cursor = q[1].cursor + Len(q)
    BY <2>1, <2>2 DEF IsNext, OrZero, None
  <2>4. r[1] = q[1]
    BY <1>1, <2>1
  <2>5. ASSUME NEW i \in 1..Len(r) PROVE r[i].cursor = r[1].cursor + i - 1
    <3>1. CASE i \in 1..Len(q)
      <4>1. r[i] = q[i] /\ q[i].cursor = q[1].cursor + i - 1
        BY <1>1, <3>1 DEF Run
      <4> QED BY <2>4, <4>1
    <3>2. CASE i \notin 1..Len(q)
      <4>1. i - Len(q) \in 1..Len(p) /\ Len(q) + (i - Len(q)) = i /\ i \in Int
        BY <1>1, <1>2, <3>2
      <4>2. r[i] = p[i - Len(q)]
        BY <1>1, <4>1
      <4>3. p[i - Len(q)].cursor = p[1].cursor + (i - Len(q)) - 1
        BY <4>1
      <4>4. r[i].cursor = (q[1].cursor + Len(q)) + (i - Len(q)) - 1
        BY <2>3, <4>2, <4>3
      <4>5. \A x, y, z \in Int : (x + y) + (z - y) - 1 = x + z - 1
        OBVIOUS
      <4>6. q[1].cursor \in Int /\ Len(q) \in Int /\ i \in Int
        BY <2>1, <2>2, <4>1
      <4> QED BY <2>4, <4>4, <4>5, <4>6
    <3> QED BY <3>1, <3>2
  <2> QED BY <1>1, <1>2, <1>4, <2>4, <2>5 DEF Run, r
<1> QED BY <1>3, <1>4

\* The part of a queue beyond the high-water cursor is its end.
LEMMA AboveHeld ==
  ASSUME NEW k, k.hw \in Int, NEW q \in Seq(Items), NEW n \in Nat, Held(q, n),
         OrZero(k.hw) \in Nat, OrZero(k.hw) <= n, n - OrZero(k.hw) <= Len(q)
  PROVE  /\ Above(k, q) \in Seq(Items) /\ Held(Above(k, q), n)
         /\ Len(Above(k, q)) = n - OrZero(k.hw)
         /\ OrZero(LastOf(Above(k, q), k.hw)) = n
<1> DEFINE h == OrZero(k.hw)
           m == n - h
           kept == {i \in 1..Len(q) : q[i].cursor > h}
           a == Above(k, q)
<1>1. Len(q) \in Nat /\ m \in Nat /\ m <= Len(q) /\ h \in Nat
  BY SeqBasics
<1>2. kept = (Len(q) - m + 1) .. Len(q)
  <2>1. \A i \in 1..Len(q) : q[i].cursor = n - Len(q) + i
    BY DEF Held
  <2>2. \A i \in 1..Len(q) : q[i].cursor > h <=> i >= Len(q) - m + 1
    BY <1>1, <2>1
  <2> QED BY <1>1, <2>2
<1>3. Cardinality(kept) = m
  <2> HIDE DEF m
  <2>1. Cardinality((Len(q) - m + 1) .. Len(q)) = m
    <3>1. Len(q) - m + 1 \in Int /\ Len(q) \in Int
      BY <1>1
    <3>2. CASE m = 0
      <4>1. (Len(q) - m + 1) .. Len(q) = {}
        BY <1>1, <3>2
      <4> QED BY <3>2, <4>1, FS_EmptySet
    <3>3. CASE m # 0
      <4>1. Cardinality((Len(q) - m + 1) .. Len(q)) = Len(q) - (Len(q) - m + 1) + 1
        BY <1>1, <3>1, <3>3, FS_Interval
      <4> QED BY <1>1, <4>1
    <3> QED BY <3>2, <3>3
  <2> QED BY <1>2, <2>1
<1>4. a = [j \in 1..m |-> q[Nth(kept, j)]]
  BY <1>3 DEF Above
<1> HIDE DEF h, kept, a, m
<1>0. m = n - h
  BY DEF m
<1>5. ASSUME NEW j \in 1..m
      PROVE  /\ Nth(kept, j) = Len(q) - m + j /\ Len(q) - m + j \in 1..Len(q)
             /\ q[Nth(kept, j)] \in Items /\ q[Nth(kept, j)].cursor = n - m + j
  <2>1. Len(q) - m + 1 \in Int /\ Len(q) \in Int /\ j \in Int
    BY <1>1
  <2>2. j \in 1..Cardinality((Len(q) - m + 1) .. Len(q))
    BY <1>2, <1>3
  <2>3. Nth(kept, j) = (Len(q) - m + 1) + j - 1
    BY <1>2, <2>1, <2>2, NthOfRange
  <2>4. Nth(kept, j) = Len(q) - m + j /\ Len(q) - m + j \in 1..Len(q)
    BY <1>1, <2>1, <2>3
  <2>5. q[Len(q) - m + j].cursor = n - Len(q) + (Len(q) - m + j)
    BY <2>4 DEF Held
  <2>6. q[Len(q) - m + j] \in Items
    BY <2>4
  <2> QED BY <1>1, <2>1, <2>4, <2>5, <2>6
<1>6. a \in Seq(Items) /\ Len(a) = m
  BY <1>1, <1>4, <1>5
<1>7. \A j \in 1..m : a[j].cursor = n - m + j
  BY <1>4, <1>5
<1>8. Held(a, n)
  BY <1>6, <1>7 DEF Held
<1>9. OrZero(LastOf(a, k.hw)) = n
  <2>1. CASE m = 0
    <3>1. a = <<>>
      BY <1>6, <2>1, SeqBasics
    <3> QED BY <1>0, <1>1, <2>1, <3>1 DEF LastOf, h
  <2>2. CASE m # 0
    <3>1. a # <<>> /\ m \in 1..m
      BY <1>1, <1>6, <2>2, SeqBasics
    <3>2. LastOf(a, k.hw) = a[m].cursor
      BY <1>6, <3>1 DEF LastOf
    <3>3. a[m].cursor = n
      BY <1>0, <1>1, <1>7, <3>1
    <3> QED BY <3>2, <3>3 DEF OrZero, None
  <2> QED BY <2>1, <2>2
<1> QED BY <1>0, <1>1, <1>6, <1>8, <1>9 DEF a, h

\* A function on an initial segment is a sequence.
LEMMA SeqOf ==
  ASSUME NEW S, NEW m \in Nat, NEW f \in [1..m -> S]
  PROVE  f \in Seq(S) /\ Len(f) = m /\ \A i \in 1..m : f[i] \in S
  OBVIOUS

\* An unbroken set of stored cursors read in order.
LEMMA ItemsOfRange ==
  ASSUME Shaped(stored), NEW a \in Int, NEW b \in Int, a .. b \subseteq Cursors(stored),
         NEW page, page = [i \in 1..Cardinality(a .. b) |-> Item(stored, Nth(a .. b, i))]
  PROVE  /\ page \in Seq(Items)
         /\ \A i \in 1..Len(page) : page[i].cursor = a + i - 1
<1> DEFINE m == Cardinality(a .. b)
<1>1. m \in Nat
  BY FS_Interval, FS_CardinalityType
<1>2. ASSUME NEW i \in 1..m
      PROVE  Item(stored, Nth(a .. b, i)) \in Items /\ Nth(a .. b, i) = a + i - 1
  <2>1. Nth(a .. b, i) = a + i - 1 /\ Nth(a .. b, i) \in a .. b
    BY NthOfRange
  <2>2. Nth(a .. b, i) \in Cursors(stored) /\ Nth(a .. b, i) \in Nat \ {0}
    <3>1. Cursors(stored) \subseteq Nat \ {0}
      BY ShapedNextCursor
    <3> QED BY <2>1, <3>1
  <2>3. stored.rows[Nth(a .. b, i)] \in Rows
    BY <2>2, ShapedRows
  <2> QED BY <2>1, <2>2, <2>3 DEF Item, Items
<1> HIDE DEF m
<1>3. page = [i \in 1..m |-> Item(stored, Nth(a .. b, i))]
  BY DEF m
<1>4. page \in Seq(Items) /\ Len(page) = m
  <2>1. page \in [1..m -> Items]
    BY <1>2, <1>3 DEF m
  <2> QED BY <1>1, <2>1, SeqOf
<1>5. ASSUME NEW i \in 1..m PROVE page[i].cursor = Nth(a .. b, i)
  <2>1. page[i] = Item(stored, Nth(a .. b, i))
    BY <1>3
  <2> QED BY <2>1 DEF Item
<1> QED BY <1>2, <1>4, <1>5

\* The page that goes on from a replay is an unbroken run beyond it.
LEMMA PageShape ==
  ASSUME Shaped(stored), NEW k, k.hw \in Int, LastOf(k.replay, k.after) \in Nat \cup {None}
  PROVE  /\ Page(k) \in Seq(Items)
         /\ \A i \in 1..Len(Page(k)) : Page(k)[i].cursor = Page(k)[1].cursor + i - 1
         /\ Page(k) # <<>> => Page(k)[1].cursor > OrZero(LastOf(k.replay, k.after))
<1> DEFINE from == LastOf(k.replay, k.after)
           lo == Low(stored, from)
           hi == High(stored, from, PageSize)
           top == IF hi <= k.hw THEN hi ELSE k.hw
           cursors == {c \in PageCursors(stored, from, PageSize) : c <= k.hw}
           page == Page(k)
<1>1. page = [i \in 1..Cardinality(cursors) |-> Item(stored, Nth(cursors, i))]
  BY DEF Page
<1>2. PageSize \in Nat \ {0}
  BY DeliveryAssumption
<1> HIDE DEF from, page
<1>3. CASE stored = EmptyTable
  <2>1. cursors = {}
    BY <1>3 DEF PageCursors, EmptyTable, Cursors
  <2>2. Cardinality(cursors) = 0
    BY <2>1, FS_EmptySet
  <2>3. page = <<>>
    <3>1. page = [i \in 1..0 |-> Item(stored, Nth(cursors, i))]
      BY <1>1, <2>2
    <3>2. page \in [1..0 -> Items]
      BY <3>1
    <3>3. page \in Seq(Items) /\ Len(page) = 0
      BY <3>2, SeqOf
    <3> QED BY <3>3, SeqBasics
  <2> QED BY <2>3 DEF page
<1>4. CASE stored # EmptyTable
  <2>1. /\ lo \in Nat \ {0} /\ hi \in Int
        /\ PageCursors(stored, from, PageSize) = lo .. hi
    BY <1>2, <1>4, PageIsRange DEF from
  <2>2. lo > OrZero(from)
    <3>1. stored.earliest \in Nat \ {0}
      BY <1>4 DEF Shaped
    <3> QED BY <3>1 DEF Low, OrZero, None, from
  <2> HIDE DEF lo, hi
  <2>3. top \in Int /\ cursors = lo .. top
    BY <2>1
  <2>4. lo .. top \subseteq Cursors(stored)
    BY <2>3 DEF PageCursors
  <2> HIDE DEF cursors, top
  <2>5. lo \in Int
    BY <2>1
  <2>6. /\ page \in Seq(Items) /\ \A i \in 1..Len(page) : page[i].cursor = lo + i - 1
    <3>1. page = [i \in 1..Cardinality(lo .. top) |-> Item(stored, Nth(lo .. top, i))]
      BY <1>1, <2>3
    <3>2. top \in Int
      BY <2>3
    <3> QED BY ONLY Shaped(stored), <2>4, <2>5, <3>1, <3>2, ItemsOfRange
  <2>7. page # <<>> => 1 \in 1..Len(page) /\ page[1].cursor = lo
    <3>1. page # <<>> => 1 \in 1..Len(page)
      BY <2>6, SeqBasics
    <3>2. 1 \in 1..Len(page) => page[1].cursor = lo + 1 - 1
      BY <2>6
    <3> QED BY <2>1, <3>1, <3>2
  <2>8. \A i \in 1..Len(page) : page[i].cursor = page[1].cursor + i - 1
    <3> TAKE i \in 1..Len(page)
    <3>1. page # <<>>
      BY <2>6, SeqBasics
    <3> QED BY <2>6, <2>7, <3>1
  <2> QED BY <2>2, <2>6, <2>7, <2>8 DEF page, from
<1> QED BY <1>3, <1>4

\* The types of a stream's fields.
LEMMA StreamFields ==
  ASSUME NEW k \in Streams
  PROVE  /\ k.st \in {"none", "broken"} \cup Registered /\ k.after \in Int /\ k.hw \in Int
         /\ k.seen \in Int /\ k.paused \in Seq(Items) /\ k.replay \in Seq(Items)
         /\ k.queue \in Seq(Items) /\ k.wire \in Seq(Items) /\ k.waiting \in BOOLEAN
         /\ k.tries \in Nat
         /\ Len(k.paused) \in Nat /\ Len(k.queue) \in Nat
  BY DEF Streams

\* What a publication changes in a stream leaves it a stream.
LEMMA StreamsClosed ==
  ASSUME NEW k \in Streams, NEW q \in Seq(Items), NEW m \in Int
  PROVE  /\ [k EXCEPT !.paused = q, !.seen = m] \in Streams
         /\ [k EXCEPT !.queue = q, !.seen = m] \in Streams
         /\ [k EXCEPT !.wire = q, !.waiting = FALSE, !.seen = m] \in Streams
         /\ [k EXCEPT !.st = "paused", !.paused = q, !.seen = m] \in Streams
<1>1. [k EXCEPT !.paused = q, !.seen = m] \in Streams
  BY DEF Streams
<1>2. [k EXCEPT !.queue = q, !.seen = m] \in Streams
  BY DEF Streams
<1>3. [k EXCEPT !.wire = q, !.waiting = FALSE, !.seen = m] \in Streams
  BY DEF Streams
<1>4. [k EXCEPT !.st = "paused", !.paused = q, !.seen = m] \in Streams
  BY DEF Streams, Registered, Opening
<1> QED BY <1>1, <1>2, <1>3, <1>4

\* What the iterator and the activation change in a stream leaves it a stream.
LEMMA StreamsMoved ==
  ASSUME NEW k \in Streams, NEW q \in Seq(Items), NEW p \in Seq(Items)
  PROVE  /\ [k EXCEPT !.wire = q, !.queue = p] \in Streams
         /\ [k EXCEPT !.wire = q, !.replay = p] \in Streams
         /\ [k EXCEPT !.wire = q] \in Streams
         /\ [k EXCEPT !.waiting = TRUE] \in Streams
         /\ [k EXCEPT !.st = "live", !.queue = q, !.paused = p] \in Streams
<1>1. [k EXCEPT !.wire = q, !.queue = p] \in Streams
  BY DEF Streams
<1>2. [k EXCEPT !.wire = q, !.replay = p] \in Streams
  BY DEF Streams
<1>3. [k EXCEPT !.wire = q] \in Streams
  BY DEF Streams
<1>4. [k EXCEPT !.waiting = TRUE] \in Streams
  BY DEF Streams
<1>5. [k EXCEPT !.st = "live", !.queue = q, !.paused = p] \in Streams
  BY DEF Streams, Registered, Opening
<1> QED BY <1>1, <1>2, <1>3, <1>4, <1>5

\* A replay that starts again leaves a stream a stream.
LEMMA StreamsRestarted ==
  ASSUME NEW k \in Streams, NEW m \in Int
  PROVE  [k EXCEPT !.st = "reading", !.tries = @ + 1, !.replay = <<>>, !.floor = m] \in Streams
<1>1. <<>> \in Seq(Items) /\ k.tries + 1 \in Nat
  BY StreamFields
<1> QED BY <1>1 DEF Streams, Registered, Opening

\* The empty stream is a stream.
LEMMA NoStreamTyped == NoStream \in Streams
  BY DEF NoStream, Streams, Registered, Opening, None

\* A stream that has ended is in order, whatever its browser does.
LEMMA NoStreamOK == \A b, n : StreamOK(NoStream, b, n)
<1>1. NoStream \in Streams
  BY NoStreamTyped
<1>2. Bounded(NoStream)
  BY DeliveryAssumption DEF NoStream, Bounded
<1> QED
  BY <1>1, <1>2 DEF StreamOK, AtOpen, AtRead, AtLive, NoStream, Opening

\* A handoff that failed is in order while its browser still connects.
LEMMA BrokenOK ==
  ASSUME NEW k, NEW b, NEW n, b.phase = "connecting"
  PROVE  StreamOK(Broken(k), b, n) /\ Broken(k).st = "broken"
<1>1. Broken(k) \in Streams
  BY NoStreamTyped DEF Broken, Streams
<1>2. Bounded(Broken(k))
  BY DeliveryAssumption DEF Broken, NoStream, Bounded
<1> QED
  BY <1>1, <1>2 DEF StreamOK, AtOpen, AtRead, AtLive, Broken, NoStream, Opening

\* An event held for an opening or a paused stream.
LEMMA HoldOK ==
  ASSUME NEW k, NEW b, NEW n \in Nat, StreamOK(k, b, n), NEW e \in Items, e.cursor = n + 1,
         k.st \in Opening \cup {"paused"}
  PROVE  /\ StreamOK(Hold(k, e), b, n + 1)
         /\ Hold(k, e).st = k.st \/ Hold(k, e).st = "broken"
<1>1. /\ k \in Streams /\ b.phase = "connecting" /\ k.paused \in Seq(Items)
      /\ k.st \in Opening \cup {"paused"} /\ Len(k.paused) \in Nat /\ k.hw \in Int
  BY StreamFields DEF StreamOK, AtOpen
<1>2. CASE Len(k.paused) >= QueueMax
  BY <1>1, <1>2, BrokenOK DEF Hold
<1>3. CASE ~(Len(k.paused) >= QueueMax)
  <2> DEFINE h == [k EXCEPT !.paused = Append(@, e), !.seen = e.cursor]
             p == Append(k.paused, e)
  <2>1. Hold(k, e) = h
    BY <1>3 DEF Hold
  <2>2. /\ p \in Seq(Items) /\ Len(p) = Len(k.paused) + 1 /\ p # <<>> /\ Held(p, n + 1)
    BY <1>1, AppendBasics, HeldGrows DEF StreamOK, AtOpen
  <2>3. /\ h.paused = p /\ h.seen = n + 1 /\ h.st = k.st /\ h.after = k.after /\ h.hw = k.hw
        /\ h.replay = k.replay /\ h.queue = k.queue /\ h.wire = k.wire
        /\ h.waiting = k.waiting /\ h.tries = k.tries /\ h \in Streams
    <3>1. e.cursor \in Int
      BY DEF Items
    <3> QED BY <1>1, <2>2, <3>1 DEF Streams
  <2> HIDE DEF h, p
  <2>4. Bounded(h)
    <3>1. QueueMax \in Nat
      BY DeliveryAssumption
    <3> QED BY <1>1, <1>3, <2>2, <2>3, <3>1 DEF StreamOK, Bounded
  <2>5. AtOpen(h, b, n + 1)
    BY <1>1, <2>2, <2>3 DEF StreamOK, AtOpen
  <2>6. AtRead(h, n + 1)
    <3>1. AtRead(k, n) /\ OrZero(k.hw) \in Int
      BY <1>1 DEF StreamOK, OrZero
    <3>2. k.st \in {"reading", "checking", "paused"} =>
            OrZero(k.hw) <= n + 1 /\ (n + 1) - OrZero(k.hw) <= Len(p)
      BY <1>1, <2>2, <3>1 DEF AtRead
    <3>3. k.st = "paused" => OrZero(k.hw) = (n + 1) - Len(p)
      <4>1. k.st = "paused" => OrZero(k.hw) = n - Len(k.paused)
        BY <3>1 DEF AtRead
      <4>2. Len(p) = Len(k.paused) + 1 /\ Len(k.paused) \in Int
        BY <1>1, <2>2
      <4>3. \A x, y \in Int : (x + 1) - (y + 1) = x - y
        OBVIOUS
      <4>4. (n + 1) - Len(p) = n - Len(k.paused)
        BY <4>2, <4>3
      <4> QED BY <4>1, <4>4
    <3>4. OrZero(n + 1) = n + 1
      BY DEF OrZero, None
    <3> QED BY <2>2, <2>3, <3>1, <3>2, <3>3, <3>4 DEF AtRead
  <2>7. AtLive(h, b, n + 1) /\ h.st # "broken"
    BY <1>1, <2>3 DEF AtLive, Opening
  <2> QED BY <2>1, <2>3, <2>4, <2>5, <2>6, <2>7 DEF StreamOK
<1> QED BY <1>2, <1>3

\* An event handed to a live stream.
LEMMA AcceptOK ==
  ASSUME NEW k, NEW b, NEW n \in Nat, StreamOK(k, b, n), NEW e \in Items, e.cursor = n + 1,
         k.st = "live", b.cursor \in Nat \cup {None}
  PROVE  /\ StreamOK(Accept(k, e), b, n + 1)
         /\ Accept(k, e).st = k.st \/ Accept(k, e).st = "none"
<1>1. /\ k \in Streams /\ AtLive(k, b, n) /\ k.queue \in Seq(Items) /\ Len(k.queue) \in Nat
      /\ k.wire \in Seq(Items) /\ k.replay \in Seq(Items) /\ k.hw \in Int
      /\ e.cursor \in Nat \ {0} /\ OrZero(k.hw) \in Int /\ QueueMax \in Nat \ {0}
      /\ Bounded(k)
  <2>1. k \in Streams /\ AtLive(k, b, n) /\ Bounded(k)
    BY DEF StreamOK
  <2>2. e.cursor \in Nat \ {0} /\ QueueMax \in Nat \ {0}
    BY DeliveryAssumption DEF Items
  <2>3. k.hw \in Int
    BY <2>1, StreamFields
  <2>4. OrZero(k.hw) \in Int
    BY <2>3 DEF OrZero
  <2> QED BY <2>1, <2>2, <2>3, <2>4, StreamFields
<1>2. /\ b.phase = "connected" /\ OrZero(k.hw) <= n + 1 /\ OrZero(n + 1) = n + 1
  BY <1>1 DEF AtLive, OrZero, None
<1>3. CASE k.waiting
  <2> DEFINE h == [k EXCEPT !.wire = <<e>>, !.waiting = FALSE, !.seen = e.cursor]
  <2>1. Accept(k, e) = h
    BY <1>3 DEF Accept
  <2>2. k.wire = <<>> /\ k.replay = <<>> /\ k.queue = <<>>
    BY <1>1, <1>3 DEF AtLive
  <2>3. <<e>> \in Seq(Items) /\ Len(<<e>>) = 1 /\ <<e>>[1] = e /\ <<e>> # <<>>
    BY OneBasics
  <2>4. /\ h.wire = <<e>> /\ h.waiting = FALSE /\ h.seen = n + 1 /\ h.st = "live" /\ h.hw = k.hw
        /\ h.replay = <<>> /\ h.queue = <<>> /\ h.paused = k.paused
        /\ h.tries = k.tries
    BY <1>1, <2>2 DEF Streams
  <2>a. h \in Streams
    <3> DEFINE w == <<e>>
    <3>1. k \in Streams /\ w \in Seq(Items) /\ e.cursor \in Int
      BY <1>1, <2>3
    <3> HIDE DEF w
    <3>2. [k EXCEPT !.wire = w, !.waiting = FALSE, !.seen = e.cursor] \in Streams
      BY <3>1, StreamsClosed
    <3> QED BY <3>2 DEF w
  <2> HIDE DEF h
  <2>5. OrZero(b.cursor) = n
    BY <1>1, <2>2 DEF AtLive, LastOf
  <2>6. Run(b.cursor, <<e>>)
    BY <1>1, <2>3, <2>5 DEF Run, IsNext
  <2>7. LastOf(<<e>>, b.cursor) = n + 1
    BY <2>3 DEF LastOf
  <2>8. Run(n + 1, <<>>) /\ Held(<<>>, n + 1) /\ LastOf(<<>>, n + 1) = n + 1
    BY DEF Run, Held, LastOf
  <2>9. AtLive(h, b, n + 1)
    BY <1>2, <2>4, <2>6, <2>7, <2>8 DEF AtLive
  <2>10. Bounded(h)
    BY <1>1, <2>2, <2>3, <2>4 DEF Bounded
  <2> QED BY <2>1, <2>4, <2>a, <2>9, <2>10 DEF StreamOK, AtOpen, AtRead, Opening
<1>4. CASE ~k.waiting /\ Len(k.queue) >= QueueMax
  <2>1. Accept(k, e) = NoStream
    BY <1>4 DEF Accept
  <2>2. NoStream.st = "none"
    BY DEF NoStream
  <2> QED BY <2>1, <2>2, NoStreamOK
<1>5. CASE ~k.waiting /\ ~(Len(k.queue) >= QueueMax)
  <2> DEFINE h == [k EXCEPT !.queue = Append(@, e), !.seen = e.cursor]
             p == Append(k.queue, e)
  <2>1. Accept(k, e) = h
    BY <1>5 DEF Accept
  <2>2. p \in Seq(Items) /\ Len(p) = Len(k.queue) + 1 /\ Held(p, n + 1)
    BY <1>1, AppendBasics, HeldGrows DEF AtLive
  <2>3. /\ h.wire = k.wire /\ ~h.waiting /\ h.seen = n + 1 /\ h.st = "live" /\ h.hw = k.hw
        /\ h.replay = k.replay /\ h.queue = p /\ h.paused = k.paused
        /\ h.tries = k.tries
    BY <1>1, <1>5 DEF Streams
  <2>a. h \in Streams
    <3>1. k \in Streams /\ p \in Seq(Items) /\ e.cursor \in Int
      BY <1>1, <2>2
    <3> HIDE DEF p
    <3>2. [k EXCEPT !.queue = p, !.seen = e.cursor] \in Streams
      BY <3>1, StreamsClosed
    <3> QED BY <3>2 DEF p
  <2> HIDE DEF h, p
  <2>4. OrZero(LastOf(k.replay, LastOf(k.wire, b.cursor))) = (n + 1) - Len(p)
    <3>1. OrZero(LastOf(k.replay, LastOf(k.wire, b.cursor))) = n - Len(k.queue)
      BY <1>1 DEF AtLive
    <3>2. Len(k.queue) \in Nat /\ Len(p) = Len(k.queue) + 1
      BY <1>1, <2>2
    <3>3. \A x, y \in Int : y = x + 1 => n - x = (n + 1) - y
      OBVIOUS
    <3> QED BY <3>1, <3>2, <3>3
  <2>5. AtLive(h, b, n + 1)
    BY <1>1, <1>2, <2>2, <2>3, <2>4 DEF AtLive
  <2>6. Bounded(h)
    BY <1>1, <1>5, <2>2, <2>3 DEF Bounded
  <2> QED BY <2>1, <2>3, <2>a, <2>5, <2>6 DEF StreamOK, AtOpen, AtRead, Opening
<1> QED BY <1>3, <1>4, <1>5

\* What the next committed event does to a stream that has seen the ones before:
\* it is never out of step, and a stream ends only because a queue is full.
LEMMA CommittedOK ==
  ASSUME NEW k, NEW b, NEW n \in Nat, StreamOK(k, b, n), NEW e \in Items, e.cursor = n + 1,
         b.cursor \in Nat \cup {None}
  PROVE  /\ StreamOK(OnCommitted(k, e), b, n + 1)
         /\ k.st \in Opening => OnCommitted(k, e).st \in {k.st, "broken"}
         /\ k.st = "paused" => OnCommitted(k, e).st \in {k.st, "broken"}
         /\ k.st = "live" => OnCommitted(k, e).st \in {k.st, "none"}
<1>1. k \in Streams /\ k.st \in {"none", "broken"} \cup Registered /\ k.hw \in Int /\ k.seen \in Int
  BY StreamFields DEF StreamOK
<1>2. CASE k.st \in Opening
  <2>1. k.seen = None \/ IsNext(k.seen, e.cursor)
    BY <1>1, <1>2 DEF StreamOK, AtRead, IsNext, OrZero, None
  <2>2. OnCommitted(k, e) = Hold(k, e)
    BY <1>2, <2>1 DEF OnCommitted
  <2> QED BY <1>2, <2>2, HoldOK DEF Opening
<1>3. CASE k.st = "paused"
  <2>1. ~(e.cursor <= OrZero(k.hw)) /\ IsNext(k.seen, e.cursor)
    BY <1>1, <1>3 DEF StreamOK, AtRead, IsNext, OrZero
  <2>2. OnCommitted(k, e) = Hold(k, e)
    BY <1>3, <2>1 DEF OnCommitted, Opening
  <2> QED BY <1>3, <2>2, HoldOK DEF Opening
<1>4. CASE k.st = "live"
  <2>1. e.cursor > OrZero(k.hw) /\ IsNext(k.seen, e.cursor)
    BY <1>1, <1>4 DEF StreamOK, AtLive, IsNext, OrZero
  <2>2. OnCommitted(k, e) = Accept(k, e)
    BY <1>4, <2>1 DEF OnCommitted, Opening
  <2> QED BY <1>4, <2>2, AcceptOK DEF Opening
<1>5. CASE k.st \in {"none", "broken"}
  <2>1. OnCommitted(k, e) = k
    BY <1>5 DEF OnCommitted, Opening
  <2>2. StreamOK(k, b, n + 1)
    BY <1>5 DEF StreamOK, AtOpen, AtRead, AtLive, Opening
  <2> QED BY <1>5, <2>1, <2>2 DEF Opening
<1> QED BY <1>1, <1>2, <1>3, <1>4, <1>5 DEF Registered

-----------------------------------------------------------------------------
\* The newest cursor of a shaped table is a number.
LEMMA ReachedTyped ==
  ASSUME Shaped(stored)
  PROVE  Reached \in Nat /\ (stored.last = None \/ stored.last = Reached) /\ stored.last \in Int
<1>1. OrZero(stored.last) \in Nat
  BY ShapedNextCursor
<1> QED BY <1>1 DEF Reached, OrZero, None

\* A browser that is in order stays so as the log grows.
LEMMA BrowserGrows ==
  ASSUME NEW b, NEW n \in Nat, NEW m \in Nat, n <= m, BrowserOK(b, n)
  PROVE  BrowserOK(b, m) /\ b.cursor \in Nat \cup {None}
  BY DEF BrowserOK, None

\* One client's stream or browser takes a step that leaves its registration alone.
LEMMA OneMoves ==
  ASSUME DeliveryInv, NEW c \in Clients, NEW k, NEW b,
         stream' = [stream EXCEPT ![c] = k], browser' = [browser EXCEPT ![c] = b],
         UNCHANGED <<stored, hub, subs, admitted, faults>>,
         StreamOK(k, b, Reached), BrowserOK(b, Reached),
         k.st \in Registered <=> stream[c].st \in Registered,
         k.st = "none" => stream[c].st = "none"
  PROVE  DeliveryInv'
<1>0. k \in Streams /\ b \in Browsers
  BY DEF StreamOK, BrowserOK
<1>1. /\ Reached' = Reached
      /\ stream' \in [Clients -> Streams] /\ browser' \in [Clients -> Browsers]
  BY <1>0 DEF DeliveryInv, Reached
<1>2. \A d \in Clients : stream'[d] = IF d = c THEN k ELSE stream[d]
  BY DEF DeliveryInv
<1>3. \A d \in Clients : browser'[d] = IF d = c THEN b ELSE browser[d]
  BY DEF DeliveryInv
<1>4. \A d \in Clients : StreamOK(stream'[d], browser'[d], Reached) /\ BrowserOK(browser'[d], Reached)
  BY <1>2, <1>3 DEF DeliveryInv
<1>5. PlacesMatchStreams'
  BY <1>2 DEF DeliveryInv, PlacesMatchStreams
<1>6. HubInStep'
  BY <1>1 DEF DeliveryInv, HubInStep
<1> QED BY <1>1, <1>4, <1>5, <1>6 DEF DeliveryInv

\* One client's stream ends.
LEMMA OneEnds ==
  ASSUME DeliveryInv, NEW c \in Clients, NEW b, Terminate(c),
         browser' = [browser EXCEPT ![c] = b], BrowserOK(b, Reached),
         UNCHANGED stored, faults' \in 0..MaxFaults
  PROVE  DeliveryInv'
<1>0. NoStream \in Streams /\ b \in Browsers
  BY NoStreamTyped DEF BrowserOK
<1>1. /\ Reached' = Reached
      /\ stream' \in [Clients -> Streams] /\ browser' \in [Clients -> Browsers]
  BY <1>0 DEF DeliveryInv, Reached, Terminate
<1>2. \A d \in Clients : stream'[d] = IF d = c THEN NoStream ELSE stream[d]
  BY DEF DeliveryInv, Terminate
<1>3. \A d \in Clients : browser'[d] = IF d = c THEN b ELSE browser[d]
  BY DEF DeliveryInv
<1>4. \A d \in Clients : StreamOK(stream'[d], browser'[d], Reached) /\ BrowserOK(browser'[d], Reached)
  BY <1>2, <1>3, NoStreamOK DEF DeliveryInv
<1>5. subs' = subs \ {c} /\ admitted' = admitted \ {c}
      /\ hub' = [hub EXCEPT !.last = IF subs' = {} THEN None ELSE hub.last]
  BY DEF Terminate, Unsubscribed, HubWithout
<1>6. NoStream.st \notin Registered
  BY DEF NoStream, Registered, Opening
<1>7. PlacesMatchStreams'
  BY <1>2, <1>5, <1>6 DEF DeliveryInv, PlacesMatchStreams
<1>8. HubInStep' /\ hub' \in [failed : BOOLEAN, last : {None} \cup 1..MaxEvents]
  BY <1>1, <1>5 DEF DeliveryInv, HubInStep
<1> QED BY <1>1, <1>4, <1>5, <1>7, <1>8 DEF DeliveryInv

\* One commit and its publication.
LEMMA OneCommit ==
  ASSUME DeliveryInv, NEW e \in Items, e.cursor = Reached + 1, Publish(e), UNCHANGED browser,
         Shaped(stored)', stored'.last = Reached + 1, stored.last < MaxEvents,
         faults' \in 0..MaxFaults
  PROVE  DeliveryInv' /\ Reached' = Reached + 1
<1> DEFINE n == Reached
           gone == {c \in subs : stream'[c].st \in {"none", "broken"}}
<1>1. n \in Nat /\ Reached' = n + 1 /\ n + 1 <= MaxEvents
  <2>1. n \in Nat /\ (stored.last = None \/ stored.last = n)
    BY ReachedTyped DEF DeliveryInv
  <2>2. MaxEvents \in Nat \ {0}
    BY DeliveryAssumption
  <2>3. Reached' = n + 1
    BY <2>1 DEF Reached, OrZero, None
  <2>4. stored.last = None => n = 0
    BY DEF Reached, OrZero
  <2> HIDE DEF n
  <2>5. n + 1 <= MaxEvents
    BY <2>1, <2>2, <2>4 DEF None
  <2> QED BY <2>1, <2>3, <2>5
<1>2. HubFollows(e.cursor)
  BY DEF DeliveryInv, HubInStep, HubFollows
<1>3. /\ stream' = [c \in Clients |-> IF c \notin subs THEN stream[c] ELSE OnCommitted(stream[c], e)]
      /\ subs' = subs \ gone
      /\ admitted' = admitted \ {c \in gone : stream[c].st \in {"paused", "live"}}
      /\ hub' = IF subs = {} THEN hub
                ELSE [hub EXCEPT !.last = IF subs' = {} THEN None ELSE n + 1]
  BY <1>2, Zenon DEF Publish, Unsubscribed, HubWithout
<1> HIDE DEF n
<1>4. \A c \in Clients : StreamOK(stream[c], browser[c], n) /\ BrowserOK(browser[c], n)
                         /\ stream[c].st \in {"none", "broken"} \cup Registered
                         /\ (c \in subs <=> stream[c].st \in Registered)
                         /\ (c \in admitted => stream[c].st # "none")
  BY StreamFields DEF DeliveryInv, StreamOK, n, PlacesMatchStreams
<1>5. ASSUME NEW c \in Clients
      PROVE  /\ StreamOK(stream'[c], browser'[c], n + 1) /\ BrowserOK(browser'[c], n + 1)
             /\ c \notin subs => stream'[c] = stream[c]
             /\ c \in subs => \/ stream'[c].st = stream[c].st
                              \/ stream'[c].st = "broken"
                              \/ stream[c].st = "live" /\ stream'[c].st = "none"
  <2>1. BrowserOK(browser[c], n + 1) /\ browser[c].cursor \in Nat \cup {None}
    BY <1>1, <1>4, BrowserGrows
  <2>2. CASE c \in subs
    <3>1. stream'[c] = OnCommitted(stream[c], e)
      BY <1>3, <2>2
    <3>2. /\ StreamOK(OnCommitted(stream[c], e), browser[c], n + 1)
          /\ stream[c].st \in Opening => OnCommitted(stream[c], e).st \in {stream[c].st, "broken"}
          /\ stream[c].st = "paused" => OnCommitted(stream[c], e).st \in {stream[c].st, "broken"}
          /\ stream[c].st = "live" => OnCommitted(stream[c], e).st \in {stream[c].st, "none"}
      BY <1>1, <1>4, <2>1, CommittedOK DEF n
    <3>3. stream[c].st \in Opening \cup {"paused", "live"}
      BY <1>4, <2>2 DEF Registered
    <3> QED BY <2>1, <2>2, <3>1, <3>2, <3>3
  <2>3. CASE c \notin subs
    <3>1. stream'[c] = stream[c]
      BY <1>3, <2>3
    <3>2. stream[c].st \in {"none", "broken"}
      BY <1>4, <2>3
    <3>3. StreamOK(stream[c], browser[c], n + 1)
      BY <1>4, <3>2 DEF StreamOK, AtOpen, AtRead, AtLive, Opening
    <3> QED BY <2>1, <2>3, <3>1, <3>3
  <2> QED BY <2>2, <2>3
<1>6. /\ subs \subseteq Clients /\ admitted \subseteq Clients /\ subs \subseteq admitted
  BY DEF DeliveryInv, PlacesMatchStreams
<1>7. subs' = {c \in Clients : stream'[c].st \in Registered}
  BY <1>3, <1>4, <1>5, <1>6 DEF Registered, Opening
<1>8. subs' \subseteq admitted' /\ \A c \in admitted' : stream'[c].st # "none"
  <2>1. subs' \subseteq admitted'
    BY <1>3, <1>6
  <2>2. ASSUME NEW c \in admitted' PROVE stream'[c].st # "none"
    <3>1. c \in admitted /\ c \in Clients
      BY <1>3, <1>6
    <3>2. CASE c \in subs
      BY <1>3, <1>4, <1>5, <3>1, <3>2
    <3>3. CASE c \notin subs
      BY <1>4, <1>5, <3>1, <3>3
    <3> QED BY <3>2, <3>3
  <2> QED BY <2>1, <2>2
<1>9. /\ HubInStep' /\ hub' \in [failed : BOOLEAN, last : {None} \cup 1..MaxEvents]
  <2>1. n + 1 \in 1..MaxEvents
    BY <1>1, DeliveryAssumption
  <2>2. hub \in [failed : BOOLEAN, last : {None} \cup 1..MaxEvents] /\ HubInStep
    BY DEF DeliveryInv
  <2>3. CASE subs = {}
    BY <1>3, <2>2, <2>3 DEF HubInStep
  <2>4. CASE subs # {}
    BY <1>1, <1>3, <2>1, <2>2, <2>4 DEF HubInStep
  <2> QED BY <2>3, <2>4
<1>10. stream' \in [Clients -> Streams] /\ browser' \in [Clients -> Browsers]
  <2>1. \A c \in Clients : stream'[c] \in Streams
    BY <1>5 DEF StreamOK
  <2>2. DOMAIN stream' = Clients /\ stream' = [c \in Clients |-> stream'[c]]
    BY <1>3
  <2> QED BY <2>1, <2>2 DEF DeliveryInv
<1>11. DeliveryInv'
  <2>1. \A c \in Clients : StreamOK(stream'[c], browser'[c], Reached')
                          /\ BrowserOK(browser'[c], Reached')
    BY <1>1, <1>5
  <2>2. PlacesMatchStreams'
    BY <1>7, <1>8 DEF PlacesMatchStreams
  <2>3. subs' \subseteq Clients /\ admitted' \subseteq Clients
    BY <1>3, <1>6
  <2> QED BY <1>1, <1>9, <1>10, <2>1, <2>2, <2>3 DEF DeliveryInv
<1> QED BY <1>1, <1>11 DEF n

\* A browser that gives up or retries is in order.
LEMMA GoesOn ==
  ASSUME NEW b, NEW n \in Nat, BrowserOK(b, n)
  PROVE  /\ \A why \in Reasonable : BrowserOK(GaveUp(b, why), n)
         /\ BrowserOK(Retrying(b), n)
         /\ Retrying(b).phase \in {"failed", "connecting"}
<1>1. \A why \in Reasonable : BrowserOK(GaveUp(b, why), n)
  BY DEF BrowserOK, Browsers, GaveUp
<1>2. CASE b.retries + 1 > MaxRetries
  <2>1. Retrying(b) = GaveUp(b, "reconnect_exhausted")
    BY <1>2 DEF Retrying
  <2> QED BY <1>1, <2>1 DEF Reasonable, GaveUp, BrowserOK, Browsers
<1>3. CASE ~(b.retries + 1 > MaxRetries)
  <2>1. Retrying(b) = [b EXCEPT !.phase = "connecting", !.retries = @ + 1]
    BY <1>3 DEF Retrying
  <2>2. b.retries + 1 \in 0..MaxRetries
    BY <1>3, DeliveryAssumption DEF BrowserOK, Browsers
  <2> QED BY <1>1, <2>1, <2>2 DEF BrowserOK, Browsers
<1> QED BY <1>1, <1>2, <1>3

\* What the invariant says of one client.
LEMMA ClientFacts ==
  ASSUME DeliveryInv, NEW c \in Clients
  PROVE  /\ Reached \in Nat /\ (stored.last = None \/ stored.last = Reached) /\ stored.last \in Int
         /\ StreamOK(stream[c], browser[c], Reached) /\ BrowserOK(browser[c], Reached)
         /\ browser[c].cursor \in Nat \cup {None} /\ stream[c] \in Streams
         /\ (c \in subs <=> stream[c].st \in Registered)
  BY ReachedTyped, BrowserGrows DEF DeliveryInv, StreamOK, PlacesMatchStreams

\* A refused open gives everything back.
LEMMA RefusedStep ==
  ASSUME DeliveryInv, NEW c \in Clients, NEW why \in Reasonable, Refused(c, why)
  PROVE  DeliveryInv'
<1>1. BrowserOK(GaveUp(browser[c], why), Reached)
  BY ClientFacts, GoesOn
<1>2. /\ Terminate(c) /\ browser' = [browser EXCEPT ![c] = GaveUp(browser[c], why)]
      /\ UNCHANGED stored /\ faults' \in 0..MaxFaults
  BY DEF Refused, DeliveryInv
<1> QED BY <1>1, <1>2, OneEnds

\* The item that is published for a new row.
LEMMA NewestItem ==
  ASSUME Shaped(stored)', NEW n \in Nat, n + 1 \in Cursors(stored)'
  PROVE  Item(stored', n + 1) \in Items /\ Item(stored', n + 1).cursor = n + 1
<1>1. stored'.rows[n + 1] \in Rows
  BY ShapedRows
<1> QED BY <1>1 DEF Item, Items

\* An append, pruned or not, keeps the invariant and tells every stream the next cursor.
LEMMA EventStep ==
  ASSUME DeliveryInv, Event
  PROVE  DeliveryInv' /\ Reached' = Reached + 1 /\ UNCHANGED browser
<1> DEFINE next == Appended(stored)
           n == Reached
<1>1. Shaped(stored) /\ n \in Nat /\ NextCursor(stored) = n + 1
  BY ShapedNextCursor, ReachedTyped DEF DeliveryInv, Reached
<1>2. Shaped(next) /\ next.last = n + 1 /\ n + 1 \in Cursors(next)
  BY <1>1, AppendedShaped
<1> HIDE DEF next
<1>3. \/ stored' = next
      \/ \E b \in AppendCuts(next, EventLimit) : stored' = Pruned(next, b)
  BY DEF Event, next
<1>4. Shaped(stored)' /\ stored'.last = n + 1 /\ n + 1 \in Cursors(stored)'
  <2>1. CASE stored' = next
    <3>1. Shaped(stored)' <=> Shaped(stored')
      BY DEF Shaped, EmptyTable, Cursors, Boundary
    <3>2. Cursors(stored)' = Cursors(stored')
      BY DEF Cursors
    <3> QED BY <1>2, <2>1, <3>1, <3>2
  <2>2. CASE \E b \in AppendCuts(next, EventLimit) : stored' = Pruned(next, b)
    <3>1. PICK b \in AppendCuts(next, EventLimit) : stored' = Pruned(next, b)
      BY <2>2
    <3>2. b \in RealCursors(next) /\ b + 1 \in RealCursors(next)
      BY DEF AppendCuts
    <3>3. /\ Shaped(stored') /\ Cursors(stored') = b .. next.last
          /\ stored'.last = next.last /\ next.last \in Nat /\ b \in 1..(next.last - 1)
      BY <1>2, <3>1, <3>2, PrunedShaped
    <3>4. n + 1 \in Cursors(stored')
      BY <1>1, <1>2, <3>3
    <3> QED BY <1>2, <3>3, <3>4 DEF Cursors
  <2> QED BY <1>3, <2>1, <2>2
<1>5. Item(stored', n + 1) \in Items /\ Item(stored', n + 1).cursor = n + 1
  BY <1>1, <1>4, NewestItem
<1>6. Publish(Item(stored', n + 1)) /\ UNCHANGED browser /\ faults' \in 0..MaxFaults
      /\ stored.last < MaxEvents
  BY <1>4 DEF Event, DeliveryInv
<1> QED BY <1>4, <1>5, <1>6, OneCommit

\* A continuity boundary does the same.
LEMMA RuntimeLostStep ==
  ASSUME DeliveryInv, RuntimeLost
  PROVE  DeliveryInv' /\ Reached' = Reached + 1 /\ UNCHANGED browser
<1> DEFINE n == Reached
<1>1. Shaped(stored) /\ n \in Nat /\ NextCursor(stored) = n + 1
  BY ShapedNextCursor, ReachedTyped DEF DeliveryInv, Reached
<1>2. stored' = BoundaryReplaced(stored, "disconnect") /\ "disconnect" \in ContinuityReasons
  BY DEF RuntimeLost, ContinuityReasons
<1>3. Shaped(stored') /\ stored'.last = n + 1 /\ Cursors(stored') = {n + 1}
  BY <1>1, <1>2, BoundaryReplacedShaped
<1>4. Shaped(stored)' /\ n + 1 \in Cursors(stored)'
  BY <1>3 DEF Cursors
<1>5. Item(stored', n + 1) \in Items /\ Item(stored', n + 1).cursor = n + 1
  BY <1>1, <1>4, NewestItem
<1>6. faults' \in 0..MaxFaults
  BY DeliveryAssumption DEF RuntimeLost, DeliveryInv
<1>7. Publish(Item(stored', n + 1)) /\ UNCHANGED browser /\ stored.last < MaxEvents
  BY <1>3 DEF RuntimeLost
<1> QED BY <1>3, <1>4, <1>5, <1>6, <1>7, OneCommit

\* A browser that has not started, or has given up, has no stream.
LEMMA IdleHasNoStream ==
  ASSUME DeliveryInv, NEW c \in Clients, browser[c].phase \in {"idle", "failed"}
  PROVE  stream[c].st = "none"
  BY ClientFacts, StreamFields
     DEF StreamOK, AtOpen, AtLive, Registered, Opening

\* A page that asks for a stream keeps the invariant.
LEMMA ConnectStep ==
  ASSUME DeliveryInv, NEW c \in Clients, Connect(c)
  PROVE  DeliveryInv'
<1> DEFINE n == Reached
           k == stream[c]
<1>1. PICK after \in {stored.last, IF stored.last = None THEN None
                      ELSE IF stored.last > Window THEN stored.last - Window ELSE 0} :
        browser' = [browser EXCEPT ![c].phase = "connecting", ![c].cursor = after]
  BY DEF Connect
<1> DEFINE b == [browser[c] EXCEPT !.phase = "connecting", !.cursor = after]
<1>2. n \in Nat /\ (stored.last = None \/ stored.last = n) /\ BrowserOK(browser[c], n)
      /\ StreamOK(k, browser[c], n)
  BY ClientFacts
<1>3. Window \in Nat
  BY DeliveryAssumption
<1> HIDE DEF n
<1>4. after \in {None} \cup 0..n /\ after \in Int
  BY <1>2, <1>3 DEF None
<1>5. BrowserOK(b, n)
  BY <1>2, <1>4 DEF BrowserOK, Browsers
<1>6. k.st = "none"
  BY IdleHasNoStream DEF Connect
<1>7. StreamOK(k, b, n)
  BY <1>2, <1>6 DEF StreamOK, AtOpen, AtRead, AtLive, Opening
<1>8. browser' = [browser EXCEPT ![c] = b] /\ stream' = [stream EXCEPT ![c] = k]
      /\ UNCHANGED <<stored, hub, subs, admitted, faults>>
  BY <1>1 DEF Connect, DeliveryInv
<1> QED BY <1>5, <1>7, <1>8, OneMoves DEF n

\* Admission and the paused subscription keep the invariant.
LEMMA OpenStep ==
  ASSUME DeliveryInv, NEW c \in Clients, Open(c)
  PROVE  DeliveryInv'
<1> DEFINE n == Reached
           b == browser[c]
           k == [NoStream EXCEPT !.st = "subscribed", !.after = b.cursor, !.observed = hub.last]
<1>1. CASE Refused(c, "unavailable")
  BY <1>1, RefusedStep DEF Reasonable
<1>2. CASE /\ admitted' = admitted \cup {c} /\ subs' = subs \cup {c}
           /\ stream' = [stream EXCEPT ![c] = k] /\ UNCHANGED <<stored, hub, browser, faults>>
  <2>1. n \in Nat /\ BrowserOK(b, n) /\ hub.last \in Int
    BY ClientFacts DEF DeliveryInv, None
  <2>2. k.st = "subscribed" /\ k.after = b.cursor /\ k.hw = None /\ k.seen = None
        /\ k.paused = <<>> /\ k.replay = <<>> /\ k.queue = <<>> /\ k.wire = <<>>
        /\ k.waiting = FALSE /\ k.tries = 0
    BY DEF NoStream
  <2>3. k \in Streams
    BY <2>1, NoStreamTyped DEF Streams, Registered, Opening, BrowserOK, Browsers
  <2> HIDE DEF k, n
  <2>4. StreamOK(k, b, n)
    <3>1. Bounded(k)
      BY <2>2, DeliveryAssumption DEF Bounded
    <3>2. b.phase = "connecting"
      BY DEF Open
    <3>3. Held(<<>>, n) /\ Run(b.cursor, <<>>)
      BY DEF Held, Run
    <3> QED BY <2>2, <2>3, <3>1, <3>2, <3>3 DEF StreamOK, AtOpen, AtRead, AtLive
  <2>5. Reached' = n /\ stream' \in [Clients -> Streams] /\ subs' \subseteq Clients
        /\ admitted' \subseteq Clients
    BY <1>2, <2>3 DEF DeliveryInv, Reached, n
  <2>6. \A d \in Clients : stream'[d] = IF d = c THEN k ELSE stream[d]
    BY <1>2 DEF DeliveryInv
  <2>7. \A d \in Clients : StreamOK(stream'[d], browser'[d], n) /\ BrowserOK(browser'[d], n)
    BY <1>2, <2>4, <2>6 DEF DeliveryInv, n
  <2>8. PlacesMatchStreams'
    BY <1>2, <2>2, <2>6 DEF DeliveryInv, PlacesMatchStreams, Registered, Opening
  <2>9. HubInStep'
    BY <1>2, <2>5 DEF DeliveryInv, HubInStep, n
  <2>10. \A d \in Clients : StreamOK(stream'[d], browser'[d], Reached')
                           /\ BrowserOK(browser'[d], Reached')
    BY <2>5, <2>7
  <2>11. Shaped(stored)' /\ Reached' <= MaxEvents
    BY <1>2 DEF DeliveryInv, Reached
  <2>12. hub' = hub /\ faults' = faults /\ browser' = browser
    BY <1>2
  <2> QED BY <2>5, <2>8, <2>9, <2>10, <2>11, <2>12 DEF DeliveryInv
<1> QED BY <1>1, <1>2 DEF Open

\* Reading the high-water cursor keeps the invariant: the browser's cursor is never
\* ahead of the storage.
LEMMA CaptureStep ==
  ASSUME DeliveryInv, NEW c \in Clients, Capture(c)
  PROVE  DeliveryInv'
<1> DEFINE n == Reached
           k == stream[c]
           b == browser[c]
           h == [k EXCEPT !.hw = stored.last,
                   !.st = IF stored.last = None \/ k.after = stored.last
                            THEN "checking" ELSE "reading"]
<1>1. /\ n \in Nat /\ (stored.last = None \/ stored.last = n) /\ stored.last \in Int
      /\ StreamOK(k, b, n) /\ BrowserOK(b, n) /\ k \in Streams /\ k.st = "subscribed"
  BY ClientFacts DEF Capture
<1>2. CASE Refused(c, "replay_inconsistent")
  BY <1>2, RefusedStep DEF Reasonable
<1>3. OrZero(stored.last) = n /\ (stored.last = None => n = 0)
  BY DEF Reached, OrZero
<1>4. ~(k.after # None /\ k.after > OrZero(stored.last))
  BY <1>1, <1>3 DEF StreamOK, AtOpen, BrowserOK, Opening, None
<1>5. CASE /\ stream' = [stream EXCEPT ![c].hw = stored.last,
               ![c].st = IF stored.last = None \/ k.after = stored.last THEN "checking" ELSE "reading"]
           /\ UNCHANGED <<stored, hub, subs, admitted, browser, faults>>
  <2>1. stream' = [stream EXCEPT ![c] = h] /\ browser' = [browser EXCEPT ![c] = b]
    BY <1>5 DEF DeliveryInv
  <2>2. /\ h.hw = stored.last /\ h.after = k.after /\ h.seen = k.seen /\ h.paused = k.paused
        /\ h.replay = <<>> /\ h.queue = k.queue /\ h.wire = k.wire /\ h.waiting = k.waiting
        /\ h.tries = k.tries
        /\ h.st = IF stored.last = None \/ k.after = stored.last THEN "checking" ELSE "reading"
    BY <1>1 DEF Streams, StreamOK, AtRead
  <2>3. h \in Streams
    BY <1>1 DEF Streams, Registered, Opening
  <2>4. k.after = b.cursor /\ Len(k.paused) \in Nat /\ k.replay = <<>>
    BY <1>1, StreamFields DEF StreamOK, AtOpen, AtRead, Opening
  <2> HIDE DEF h, n
  <2>5. AtOpen(h, b, n)
    BY <1>1, <2>2, <2>4 DEF StreamOK, AtOpen, Opening
  <2>6. AtRead(h, n)
    <3>1. stored.last = None => OrZero(k.after) = 0
      BY <1>1, <1>3, <2>4 DEF BrowserOK, OrZero
    <3>2. h.st = "checking" => OrZero(LastOf(<<>>, h.after)) = OrZero(h.hw)
      BY <1>1, <2>2, <3>1 DEF LastOf, OrZero, None
    <3> QED BY <1>1, <1>3, <2>2, <2>4, <3>2 DEF StreamOK, AtRead, Opening
  <2>7. Bounded(h)
    BY <1>1, <2>2, <2>4 DEF StreamOK, Bounded
  <2>8. AtLive(h, b, n) /\ h.st \in Opening
    BY <2>2 DEF AtLive, Opening
  <2>9. StreamOK(h, b, n)
    BY <2>3, <2>5, <2>6, <2>7, <2>8 DEF StreamOK, Opening
  <2> QED BY <1>1, <1>5, <2>1, <2>8, <2>9, OneMoves DEF n, Registered, Opening
<1> QED BY <1>2, <1>4, <1>5 DEF Capture

\* One page of the replay keeps the invariant, whatever was committed or pruned
\* since the last one.
LEMMA ReplayStep ==
  ASSUME DeliveryInv, NEW c \in Clients, ReplayPage(c)
  PROVE  DeliveryInv'
<1> DEFINE n == Reached
           k == stream[c]
           b == browser[c]
           from == LastOf(k.replay, k.after)
           page == Page(k)
           replay == ReplayWith(k, page)
           st == IF LastOf(replay, None) = k.hw THEN "checking" ELSE "reading"
           h == [k EXCEPT !.replay = replay, !.st = st]
<1>1. /\ n \in Nat /\ StreamOK(k, b, n) /\ BrowserOK(b, n) /\ k \in Streams /\ k.st = "reading"
      /\ b.cursor \in Nat \cup {None} /\ Shaped(stored)
  BY ClientFacts DEF ReplayPage, DeliveryInv
<1>2. /\ k.replay \in Seq(Items) /\ k.hw \in Int /\ k.hw # None /\ k.after = b.cursor
      /\ Run(k.after, k.replay) /\ k.after \in Nat \cup {None}
  BY <1>1, StreamFields DEF StreamOK, AtOpen, AtRead, Opening
<1>3. from \in Nat \cup {None}
  BY <1>2, LastOfStart
<1>4. /\ page \in Seq(Items)
      /\ \A i \in 1..Len(page) : page[i].cursor = page[1].cursor + i - 1
      /\ page # <<>> => page[1].cursor > OrZero(from)
  BY <1>1, <1>2, <1>3, PageShape
<1>5. CASE Refused(c, "replay_inconsistent") \/ Refused(c, "replay_limit")
  BY <1>5, RefusedStep DEF Reasonable
<1>6. CASE /\ ~(page = <<>> \/ ~ReadAccepted(stored, from, PageSize)
                  \/ (page[1].row.kind # "boundary" /\ ~IsNext(from, page[1].cursor))
                  \/ ~Contiguous(page[1].cursor, Tail(page)))
           /\ ~(Len(replay) > ReplayMax)
           /\ stream' = [stream EXCEPT ![c].replay = replay, ![c].st = st]
           /\ UNCHANGED <<stored, hub, subs, admitted, browser, faults>>
  <2>1. page # <<>> /\ (page[1].row.kind = "boundary" \/ IsNext(from, page[1].cursor))
    BY <1>6
  <2>2. replay = IF page[1].row.kind = "boundary" THEN page ELSE k.replay \o page
    BY DEF ReplayWith
  <2>3. replay \in Seq(Items) /\ replay # <<>> /\ Run(k.after, replay)
    <3> HIDE DEF page, replay
    <3>1. CASE page[1].row.kind = "boundary"
      <4>1. k.after \in Int /\ k.after >= -1
        BY <1>2 DEF None
      <4>2. OrZero(from) >= OrZero(k.after)
        BY <1>2, <4>1, RunLast
      <4>3. page[1] \in Items
        BY <1>4, <2>1, SeqBasics
      <4>4. page[1].cursor > OrZero(k.after)
        <5>1. OrZero(from) \in Int /\ OrZero(k.after) \in Int /\ page[1].cursor \in Int
          BY <1>2, <1>3, <4>3 DEF OrZero, None, Items
        <5> HIDE DEF from
        <5> QED BY <1>4, <2>1, <4>2, <5>1
      <4>5. Run(k.after, page)
        BY <1>4, <3>1, <4>4 DEF Run
      <4> QED BY <1>4, <2>1, <2>2, <3>1, <4>5
    <3>2. CASE page[1].row.kind # "boundary"
      <4>1. k.after \in Int /\ k.after >= -1 /\ IsNext(LastOf(k.replay, k.after), page[1].cursor)
        BY <1>2, <2>1, <3>2 DEF None
      <4>2. k.replay \o page \in Seq(Items) /\ k.replay \o page # <<>>
            /\ Run(k.after, k.replay \o page)
        BY <1>2, <1>4, <2>1, <4>1, RunJoined
      <4> QED BY <2>2, <3>2, <4>2
    <3> QED BY <3>1, <3>2
  <2>4. stream' = [stream EXCEPT ![c] = h] /\ browser' = [browser EXCEPT ![c] = b]
    BY <1>6 DEF DeliveryInv
  <2>5. Len(replay) <= ReplayMax
    <3>1. Len(replay) \in Nat /\ ReplayMax \in Nat
      BY <2>3, SeqBasics, DeliveryAssumption
    <3> QED BY <1>6, <3>1
  <2>6. LastOf(replay, None) = LastOf(replay, k.after)
    BY <2>3 DEF LastOf
  <2> HIDE DEF page, replay, from, n
  <2>7. h.replay = replay /\ h.st = st /\ h.paused = k.paused /\ h.queue = k.queue
        /\ h.wire = k.wire /\ h.waiting = k.waiting /\ h.tries = k.tries /\ h.hw = k.hw
        /\ h.seen = k.seen /\ h.after = k.after /\ h \in Streams
    BY <1>1, <2>3 DEF Streams, Registered, Opening
  <2> HIDE DEF h
  <2>8. Bounded(h)
    BY <1>1, <2>5, <2>7 DEF StreamOK, Bounded
  <2>9. st \in {"reading", "checking"} /\ (st = "checking" => LastOf(replay, k.after) = k.hw)
    BY <2>6
  <2> HIDE DEF st
  <2>10. AtOpen(h, b, n)
    BY <1>1, <2>3, <2>7, <2>9 DEF StreamOK, AtOpen, Opening
  <2>11. AtRead(h, n)
    BY <1>1, <1>2, <2>7, <2>9 DEF StreamOK, AtRead, Opening
  <2>12. StreamOK(h, b, n)
    BY <2>7, <2>8, <2>9, <2>10, <2>11 DEF StreamOK, AtLive
  <2> QED BY <1>1, <1>6, <2>4, <2>7, <2>9, <2>12, OneMoves DEF n, Registered, Opening
<1> QED BY <1>5, <1>6, Zenon DEF ReplayPage

\* The end of a replay leaves exactly the paused events beyond it.
LEMMA SettleStep ==
  ASSUME DeliveryInv, NEW c \in Clients, stream[c].st = "checking", Settle(c)
  PROVE  DeliveryInv'
<1> DEFINE n == Reached
           k == stream[c]
           b == browser[c]
           live == Above(k, k.paused)
           last == LastOf(live, k.hw)
           h == [k EXCEPT !.st = "paused", !.paused = live, !.seen = last]
<1>1. /\ n \in Nat /\ StreamOK(k, b, n) /\ BrowserOK(b, n) /\ k \in Streams
  BY ClientFacts
<1>2. /\ k.paused \in Seq(Items) /\ k.hw \in Int /\ Held(k.paused, n) /\ Len(k.paused) \in Nat
      /\ OrZero(k.hw) <= n /\ n - OrZero(k.hw) <= Len(k.paused)
      /\ OrZero(LastOf(k.replay, k.after)) = OrZero(k.hw) /\ k.replay \in Seq(Items)
      /\ k.after \in Nat \cup {None}
  BY <1>1, StreamFields, ClientFacts DEF StreamOK, AtOpen, AtRead, Opening
<1>3. OrZero(k.hw) \in Nat
  <2>1. LastOf(k.replay, k.after) \in Nat \cup {None}
    BY <1>2, LastOfStart
  <2>2. OrZero(LastOf(k.replay, k.after)) \in Nat
    BY <2>1 DEF OrZero, None
  <2> QED BY <1>2, <2>2
<1>4. CASE Refused(c, "replay_inconsistent")
  BY <1>4, RefusedStep DEF Reasonable
<1>5. CASE /\ stream' = [stream EXCEPT ![c].st = "paused", ![c].paused = live, ![c].seen = last]
           /\ UNCHANGED <<stored, hub, subs, admitted, browser, faults>>
  <2>1. live \in Seq(Items) /\ Held(live, n) /\ Len(live) = n - OrZero(k.hw) /\ OrZero(last) = n
    BY <1>1, <1>2, <1>3, AboveHeld
  <2>2. last \in Int
    BY <1>2, <2>1, LastOfTyped
  <2>3. stream' = [stream EXCEPT ![c] = h] /\ browser' = [browser EXCEPT ![c] = b]
    BY <1>5 DEF DeliveryInv
  <2> HIDE DEF live, last, n
  <2>4. h \in Streams
    BY <1>1, <2>1, <2>2, StreamsClosed
  <2>5. h.replay = k.replay /\ h.st = "paused" /\ h.paused = live /\ h.queue = k.queue
        /\ h.wire = k.wire /\ h.waiting = k.waiting /\ h.tries = k.tries /\ h.hw = k.hw
        /\ h.seen = last /\ h.after = k.after
    BY <1>1 DEF Streams
  <2> HIDE DEF h
  <2>6. n - OrZero(k.hw) <= n - OrZero(k.hw) /\ OrZero(k.hw) = n - (n - OrZero(k.hw))
    BY <1>1, <1>3
  <2>7. Bounded(h)
    <3>1. QueueMax \in Nat /\ Len(live) \in Nat
      BY <2>1, SeqBasics, DeliveryAssumption
    <3>2. Len(live) <= QueueMax
      BY <1>1, <1>2, <2>1, <3>1 DEF StreamOK, Bounded
    <3> QED BY <1>1, <2>5, <3>2 DEF StreamOK, Bounded
  <2>8. AtOpen(h, b, n)
    BY <1>1, <2>1, <2>5 DEF StreamOK, AtOpen, Opening
  <2>9. AtRead(h, n)
    BY <1>2, <2>1, <2>5, <2>6 DEF AtRead, Opening
  <2>10. StreamOK(h, b, n)
    BY <2>4, <2>5, <2>7, <2>8, <2>9 DEF StreamOK, AtLive
  <2> QED BY <1>1, <1>5, <2>3, <2>5, <2>10, OneMoves DEF n, Registered, Opening
<1> QED BY <1>4, <1>5, Zenon DEF Settle

\* The check of a finished replay keeps the invariant.
LEMMA CheckStep ==
  ASSUME DeliveryInv, NEW c \in Clients, Check(c)
  PROVE  DeliveryInv'
<1> DEFINE n == Reached
           k == stream[c]
           b == browser[c]
           h == [k EXCEPT !.st = "reading", !.tries = @ + 1, !.replay = <<>>,
                          !.floor = stored.boundary]
<1>1. /\ n \in Nat /\ StreamOK(k, b, n) /\ BrowserOK(b, n) /\ k \in Streams /\ k.st = "checking"
  BY ClientFacts DEF Check
<1>2. CASE Settle(c)
  BY <1>1, <1>2, SettleStep
<1>3. CASE Refused(c, "replay_inconsistent") \/ Refused(c, "replay_limit")
  BY <1>3, RefusedStep DEF Reasonable
<1>4. CASE /\ k.replay # <<>> /\ ~(k.tries + 1 >= MaxAttempts)
           /\ stream' = [stream EXCEPT ![c].st = "reading", ![c].tries = @ + 1,
                                 ![c].replay = <<>>, ![c].floor = stored.boundary]
           /\ UNCHANGED <<stored, hub, subs, admitted, browser, faults>>
  <2>1. stored.boundary \in Int
    BY DEF DeliveryInv, Shaped, EmptyTable, None
  <2>2. stream' = [stream EXCEPT ![c] = h] /\ browser' = [browser EXCEPT ![c] = b]
    BY <1>4 DEF DeliveryInv
  <2>3. h \in Streams
    BY <1>1, <2>1, StreamsRestarted
  <2>4. h.replay = <<>> /\ h.st = "reading" /\ h.paused = k.paused /\ h.queue = k.queue
        /\ h.wire = k.wire /\ h.waiting = k.waiting /\ h.tries = k.tries + 1 /\ h.hw = k.hw
        /\ h.seen = k.seen /\ h.after = k.after
    BY <1>1 DEF Streams
  <2>5. k.hw # None
    <3>1. OrZero(LastOf(k.replay, k.after)) = OrZero(k.hw)
      BY <1>1 DEF StreamOK, AtRead
    <3>2. LastOf(k.replay, k.after) \in Nat \ {0}
      BY <1>1, <1>4, StreamFields, LastOfTyped
    <3> QED BY <3>1, <3>2 DEF OrZero, None
  <2> HIDE DEF h, n
  <2>6. Bounded(h)
    <3>1. MaxAttempts \in Nat /\ ReplayMax \in Nat /\ k.tries \in Nat
      BY <1>1, StreamFields, DeliveryAssumption
    <3>2. k.tries + 1 < MaxAttempts
      BY <1>4, <3>1
    <3> QED BY <1>1, <2>4, <3>1, <3>2 DEF StreamOK, Bounded
  <2>7. AtOpen(h, b, n)
    <3>1. Run(k.after, <<>>)
      BY DEF Run
    <3> QED BY <1>1, <2>4, <3>1 DEF StreamOK, AtOpen, Opening
  <2>8. AtRead(h, n)
    BY <1>1, <2>4, <2>5 DEF StreamOK, AtRead, Opening
  <2>9. StreamOK(h, b, n)
    BY <2>3, <2>4, <2>6, <2>7, <2>8 DEF StreamOK, AtLive
  <2> QED BY <1>1, <1>4, <2>2, <2>4, <2>9, OneMoves DEF n, Registered, Opening
<1> QED BY <1>2, <1>3, <1>4, Zenon DEF Check

\* A paused stream that goes live keeps the invariant: replay and queue join.
LEMMA ActivateStep ==
  ASSUME DeliveryInv, NEW c \in Clients, Activate(c)
  PROVE  DeliveryInv'
<1> DEFINE n == Reached
           k == stream[c]
           b == [browser[c] EXCEPT !.phase = "connected", !.started = FALSE]
           h == [k EXCEPT !.st = "live", !.queue = k.paused, !.paused = <<>>]
<1>1. /\ n \in Nat /\ StreamOK(k, browser[c], n) /\ BrowserOK(browser[c], n) /\ k \in Streams
      /\ k.st = "paused"
  BY ClientFacts DEF Activate
<1>2. /\ stream' = [stream EXCEPT ![c] = h] /\ browser' = [browser EXCEPT ![c] = b]
      /\ UNCHANGED <<stored, hub, subs, admitted, faults>>
  BY DEF DeliveryInv, Activate
<1>3. BrowserOK(b, n) /\ b.phase = "connected" /\ b.cursor = browser[c].cursor
  BY <1>1 DEF BrowserOK, Browsers
<1>4. /\ k.paused \in Seq(Items) /\ Held(k.paused, n) /\ Run(k.after, k.replay)
      /\ k.wire = <<>> /\ k.waiting = FALSE /\ k.after = browser[c].cursor
      /\ OrZero(k.hw) <= n /\ OrZero(k.seen) = n
      /\ OrZero(LastOf(k.replay, k.after)) = n - Len(k.paused)
  <2>1. AtOpen(k, browser[c], n) /\ AtRead(k, n) /\ k.waiting \in BOOLEAN
    BY <1>1, StreamFields DEF StreamOK
  <2> QED BY <1>1, <2>1, StreamFields DEF AtOpen, AtRead, Opening
<1>5. h \in Streams
  <2> DEFINE none == <<>>
             waited == k.paused
  <2>1. none \in Seq(Items) /\ waited \in Seq(Items)
    BY <1>4
  <2> HIDE DEF none, waited
  <2>2. [k EXCEPT !.st = "live", !.queue = waited, !.paused = none] \in Streams
    BY <1>1, <2>1, StreamsMoved
  <2> QED BY <2>2 DEF none, waited
<1>6. h.replay = k.replay /\ h.st = "live" /\ h.paused = <<>> /\ h.queue = k.paused
      /\ h.wire = k.wire /\ h.waiting = k.waiting /\ h.tries = k.tries /\ h.hw = k.hw
      /\ h.seen = k.seen /\ h.after = k.after
  BY <1>1 DEF Streams
<1> HIDE DEF h, b, n
<1>7. Run(b.cursor, <<>>) /\ LastOf(<<>>, b.cursor) = b.cursor
  BY DEF Run, LastOf
<1>8. AtLive(h, b, n)
  BY <1>3, <1>4, <1>6, <1>7 DEF AtLive
<1>9. Bounded(h)
  BY <1>1, <1>6, DeliveryAssumption DEF StreamOK, Bounded
<1>10. StreamOK(h, b, n)
  BY <1>5, <1>6, <1>8, <1>9 DEF StreamOK, AtOpen, AtRead, Opening
<1> QED BY <1>1, <1>2, <1>3, <1>6, <1>10, OneMoves DEF n, Registered, Opening

\* Taking the next event for the socket keeps the invariant.
LEMMA PullStep ==
  ASSUME DeliveryInv, NEW c \in Clients, Pull(c)
  PROVE  DeliveryInv'
<1> DEFINE n == Reached
           k == stream[c]
           b == browser[c]
           h == Taken(k)
<1>1. /\ n \in Nat /\ StreamOK(k, b, n) /\ BrowserOK(b, n) /\ k \in Streams /\ k.st = "live"
      /\ k.wire = <<>> /\ k.waiting = FALSE /\ b.cursor \in Nat \cup {None}
  BY ClientFacts, StreamFields DEF Pull
<1>2. /\ stream' = [stream EXCEPT ![c] = h] /\ browser' = [browser EXCEPT ![c] = b]
      /\ UNCHANGED <<stored, hub, subs, admitted, faults>>
  BY DEF DeliveryInv, Pull
<1>3. /\ k.replay \in Seq(Items) /\ k.queue \in Seq(Items) /\ Len(k.queue) \in Nat
      /\ LastOf(k.wire, b.cursor) = b.cursor /\ b.cursor \in Int
      /\ b.phase = "connected" /\ OrZero(k.hw) <= n /\ OrZero(k.seen) = n
      /\ Run(b.cursor, k.replay) /\ Held(k.queue, n)
      /\ OrZero(LastOf(k.replay, b.cursor)) = n - Len(k.queue)
  <2>1. LastOf(k.wire, b.cursor) = b.cursor
    BY <1>1 DEF LastOf
  <2> QED BY <1>1, <2>1, StreamFields DEF StreamOK, AtLive, None
<1> SUFFICES StreamOK(h, b, n) /\ h.st = "live"
  BY <1>1, <1>2, OneMoves DEF Registered, Opening
<1> HIDE DEF n, b, k
<1>4. CASE k.replay # <<>>
  <2> DEFINE w == <<Head(k.replay)>>
             r == Tail(k.replay)
  <2>1. h = [k EXCEPT !.wire = w, !.replay = r]
    BY <1>4 DEF Taken
  <2>2. /\ Run(b.cursor, w) /\ Run(Head(k.replay).cursor, r)
        /\ OrZero(LastOf(r, Head(k.replay).cursor)) = OrZero(LastOf(k.replay, b.cursor))
    BY <1>3, <1>4, RunTaken
  <2>3. /\ r \in Seq(Items) /\ w \in Seq(Items) /\ Len(w) = 1 /\ Len(r) = Len(k.replay) - 1
        /\ Len(k.replay) \in Nat /\ LastOf(w, b.cursor) = Head(k.replay).cursor
    <3>1. Head(k.replay) \in Items
      BY <1>3, <1>4, SeqBasics
    <3>2. LastOf(w, b.cursor) = Head(k.replay).cursor
      BY <3>1, OneBasics DEF LastOf
    <3> QED BY <1>3, <1>4, <3>1, <3>2, OneBasics, SeqBasics
  <2> HIDE DEF h, w, r
  <2>4. h \in Streams
    BY <1>1, <2>1, <2>3, StreamsMoved
  <2>5. h.st = "live" /\ h.wire = w /\ h.replay = r /\ h.queue = k.queue /\ h.paused = k.paused
        /\ h.waiting = FALSE /\ h.tries = k.tries /\ h.hw = k.hw /\ h.seen = k.seen
    BY <1>1, <2>1 DEF Streams
  <2>6. AtLive(h, b, n)
    BY <1>3, <2>2, <2>3, <2>5 DEF AtLive
  <2>7. Bounded(h)
    <3>1. Len(k.replay) <= ReplayMax /\ ReplayMax \in Nat
      BY <1>1, DeliveryAssumption DEF StreamOK, Bounded
    <3>2. Len(r) <= ReplayMax
      BY <2>3, <3>1
    <3>3. k.tries < MaxAttempts /\ Len(k.paused) <= QueueMax /\ Len(k.queue) <= QueueMax
      BY <1>1 DEF StreamOK, Bounded
    <3>4. Len(w) <= 1
      BY <2>3
    <3> QED BY <2>5, <3>2, <3>3, <3>4 DEF Bounded
  <2> QED BY <2>4, <2>5, <2>6, <2>7 DEF StreamOK, AtOpen, AtRead, Opening
<1>5. CASE k.replay = <<>> /\ k.queue # <<>>
  <2> DEFINE w == <<Head(k.queue)>>
             r == Tail(k.queue)
             e == Head(k.queue)
  <2>1. h = [k EXCEPT !.wire = w, !.queue = r]
    BY <1>5 DEF Taken
  <2>2. e.cursor = n - Len(k.queue) + 1 /\ Held(r, n)
    BY <1>1, <1>3, <1>5, HeldTaken
  <2>3. /\ r \in Seq(Items) /\ w \in Seq(Items) /\ Len(w) = 1 /\ Len(r) = Len(k.queue) - 1
        /\ w[1] = e /\ LastOf(w, b.cursor) = e.cursor /\ e.cursor \in Nat \ {0} /\ w # <<>>
    <3>1. e \in Items
      BY <1>3, <1>5, SeqBasics
    <3>2. LastOf(w, b.cursor) = e.cursor
      BY <3>1, OneBasics DEF LastOf
    <3>3. e.cursor \in Nat \ {0}
      BY <3>1 DEF Items
    <3> QED BY <1>3, <1>5, <3>1, <3>2, <3>3, OneBasics, SeqBasics
  <2> HIDE DEF h, w, r, e
  <2>4. h \in Streams
    BY <1>1, <2>1, <2>3, StreamsMoved
  <2>5. h.st = "live" /\ h.wire = w /\ h.replay = <<>> /\ h.queue = r /\ h.paused = k.paused
        /\ h.waiting = FALSE /\ h.tries = k.tries /\ h.hw = k.hw /\ h.seen = k.seen
    BY <1>1, <1>5, <2>1 DEF Streams
  <2>6. OrZero(b.cursor) = n - Len(k.queue)
    BY <1>3, <1>5 DEF LastOf
  <2>7. Run(b.cursor, w)
    BY <2>2, <2>3, <2>6 DEF Run, IsNext
  <2>8. Run(e.cursor, <<>>) /\ LastOf(<<>>, e.cursor) = e.cursor
    BY DEF Run, LastOf
  <2>9. OrZero(e.cursor) = n - Len(r)
    <3>1. OrZero(e.cursor) = e.cursor
      BY <2>3 DEF OrZero, None
    <3> QED BY <1>1, <1>3, <2>2, <2>3, <3>1
  <2>10. AtLive(h, b, n)
    BY <1>3, <2>2, <2>3, <2>5, <2>7, <2>8, <2>9 DEF AtLive
  <2>11. Bounded(h)
    <3>1. Len(k.queue) <= QueueMax /\ QueueMax \in Nat /\ Len(<<>>) = 0 /\ ReplayMax \in Nat
      BY <1>1, DeliveryAssumption DEF StreamOK, Bounded
    <3>2. Len(r) <= QueueMax
      BY <1>3, <2>3, <3>1
    <3>3. k.tries < MaxAttempts /\ Len(k.paused) <= QueueMax
      BY <1>1 DEF StreamOK, Bounded
    <3>4. Len(<<>>) <= ReplayMax
      BY <3>1
    <3>5. Len(w) <= 1
      BY <2>3
    <3> QED BY <2>5, <3>2, <3>3, <3>4, <3>5 DEF Bounded
  <2> QED BY <2>4, <2>5, <2>10, <2>11 DEF StreamOK, AtOpen, AtRead, Opening
<1>6. CASE k.replay = <<>> /\ k.queue = <<>>
  <2>1. h = [k EXCEPT !.waiting = TRUE]
    BY <1>6 DEF Taken
  <2> HIDE DEF h
  <2>2. h \in Streams
    BY <1>1, <1>3, <2>1, StreamsMoved
  <2>3. h.st = "live" /\ h.wire = <<>> /\ h.replay = <<>> /\ h.queue = <<>> /\ h.paused = k.paused
        /\ h.waiting = TRUE /\ h.tries = k.tries /\ h.hw = k.hw /\ h.seen = k.seen
    BY <1>1, <1>6, <2>1 DEF Streams
  <2>4. AtLive(h, b, n)
    BY <1>1, <1>6, <2>3 DEF StreamOK, AtLive
  <2>5. Bounded(h)
    BY <1>1, <1>6, <2>3 DEF StreamOK, Bounded
  <2> QED BY <2>2, <2>3, <2>4, <2>5 DEF StreamOK, AtOpen, AtRead, Opening
<1> QED BY <1>4, <1>5, <1>6

\* The event on the wire of a live stream is the next one the browser waits for,
\* or a boundary beyond it.
LEMMA OnTheWire ==
  ASSUME DeliveryInv, NEW c \in Clients, stream[c].st = "live", stream[c].wire # <<>>
  PROVE  LET k == stream[c]
             b == browser[c]
             e == Head(k.wire) IN
         /\ k.wire = <<e>> /\ e \in Items /\ e.cursor > OrZero(b.cursor)
         /\ b.cursor \in Nat \cup {None}
         /\ e.row.kind = "boundary" \/ IsNext(b.cursor, e.cursor)
         /\ LastOf(k.wire, b.cursor) = e.cursor
         /\ e.cursor \in Nat \ {0} /\ e.cursor <= Reached
<1> DEFINE n == Reached
           k == stream[c]
           b == browser[c]
           e == Head(k.wire)
<1>1. /\ n \in Nat /\ StreamOK(k, b, n) /\ k \in Streams /\ b.cursor \in Nat \cup {None}
  BY ClientFacts
<1>2. AtLive(k, b, n) /\ Len(k.wire) <= 1
  BY <1>1 DEF StreamOK, Bounded
<1>3. k.wire \in Seq(Items) /\ k.replay \in Seq(Items) /\ Len(k.queue) \in Nat
  BY <1>1, StreamFields
<1>4. Len(k.wire) = 1 /\ e = k.wire[1] /\ e \in Items
  <2>1. k.wire # <<>>
    OBVIOUS
  <2>2. Len(k.wire) \in Nat /\ Len(k.wire) # 0 /\ e = k.wire[1] /\ k.wire[1] \in Items
    BY <1>3, <2>1, SeqBasics
  <2>3. \A m \in Nat : m # 0 /\ m <= 1 => m = 1
    OBVIOUS
  <2>4. Len(k.wire) = 1
    BY <1>2, <2>2, <2>3
  <2> QED BY <2>2, <2>4
<1>5. k.wire = <<e>>
  BY <1>3, <1>4
<1>6. e.cursor \in Nat \ {0}
  BY <1>4 DEF Items
<1>7. LastOf(k.wire, b.cursor) = e.cursor
  BY <1>4 DEF LastOf
<1>8. Run(b.cursor, k.wire) /\ Run(e.cursor, k.replay)
      /\ OrZero(LastOf(k.replay, e.cursor)) = n - Len(k.queue)
  BY <1>2, <1>7 DEF AtLive
<1>9. e.row.kind = "boundary" \/ IsNext(b.cursor, e.cursor)
  BY <1>4, <1>8 DEF Run
<1>10. e.cursor > OrZero(b.cursor)
  BY <1>1, <1>4, <1>6, <1>8 DEF Run, IsNext, OrZero, None
<1>11. e.cursor <= n
  <2>1. e.cursor \in Int /\ e.cursor >= -1 /\ OrZero(e.cursor) = e.cursor
    BY <1>6 DEF OrZero, None
  <2> HIDE DEF e, n
  <2>2. n - Len(k.queue) >= e.cursor
    BY <1>3, <1>8, <2>1, RunLast
  <2> QED BY <1>1, <1>3, <2>1, <2>2
<1> QED BY <1>1, <1>4, <1>5, <1>6, <1>7, <1>9, <1>10, <1>11

\* A browser never sees a duplicate, a reordering or a gap.
LEMMA ObjectionReasonable ==
  ASSUME DeliveryInv, NEW c \in Clients, stream[c].st = "live", stream[c].wire # <<>>
  PROVE  Objection(browser[c], Head(stream[c].wire)) \in {"none", "invalid_event"}
<1> DEFINE b == browser[c]
           e == Head(stream[c].wire)
<1>1. /\ e.cursor > OrZero(b.cursor) /\ b.cursor \in Nat \cup {None} /\ e.cursor \in Nat \ {0}
      /\ e.row.kind = "boundary" \/ IsNext(b.cursor, e.cursor)
  BY OnTheWire
<1> HIDE DEF b, e
<1>2. ~(b.cursor # None /\ e.cursor = b.cursor) /\ ~(b.cursor # None /\ e.cursor < b.cursor)
  BY <1>1 DEF OrZero, None
<1>3. Objection(b, e) \in {"none", "invalid_event"}
  BY <1>1, <1>2 DEF Objection
<1> QED BY <1>3 DEF b, e

\* A received event keeps the invariant.
LEMMA ReceiveStep ==
  ASSUME DeliveryInv, NEW c \in Clients, Receive(c)
  PROVE  DeliveryInv'
<1> DEFINE n == Reached
           k == stream[c]
           b == browser[c]
           e == Head(k.wire)
           why == Objection(b, e)
           h == [k EXCEPT !.wire = <<>>]
           t == Took(b, e)
<1>1. k.st = "live" /\ k.wire # <<>> /\ b.phase = "connected"
  BY DEF Receive
<1>2. /\ n \in Nat /\ StreamOK(k, b, n) /\ BrowserOK(b, n) /\ k \in Streams
      /\ b.cursor \in Nat \cup {None}
  BY ClientFacts
<1>3. /\ e.cursor \in Nat \ {0} /\ e.cursor <= n /\ LastOf(k.wire, b.cursor) = e.cursor
  BY <1>1, OnTheWire
<1>4. why \in {"none", "invalid_event"}
  BY <1>1, ObjectionReasonable
<1>5. CASE why = "none"
  <2>1. /\ stream' = [stream EXCEPT ![c] = h] /\ browser' = [browser EXCEPT ![c] = t]
        /\ UNCHANGED <<stored, hub, subs, admitted, faults>>
    BY <1>5, Zenon DEF Receive, DeliveryInv
  <2> HIDE DEF e, n, k, b
  <2>2. t.cursor = e.cursor /\ t.phase = "connected"
    BY <1>1, <1>2 DEF Took, BrowserOK, Browsers
  <2>3. BrowserOK(t, n)
    <3> DEFINE missed == (OrZero(b.cursor) + 1)..(e.cursor - 1)
    <3>1. OrZero(b.cursor) \in Nat
      BY <1>2 DEF OrZero, None
    <3>2. missed \subseteq 1..n /\ missed \subseteq Int
      BY <1>2, <1>3, <3>1
    <3>3. /\ b.lost \cup missed \subseteq 1..n /\ b.lost \cup missed \in SUBSET Int
          /\ b.lost \subseteq 1..n /\ b.lost \in SUBSET Int
      BY <1>2, <3>2 DEF BrowserOK, Browsers
    <3> DEFINE told == IF e.row.kind = "boundary" THEN b.lost \cup missed ELSE b.lost
               mark == b.marked \/ e.row.kind = "boundary"
    <3>4. t = [b EXCEPT !.cursor = e.cursor, !.started = TRUE, !.retries = 0,
                 !.marked = mark, !.lost = told]
      BY DEF Took
    <3>5. mark \in BOOLEAN /\ told \in SUBSET Int /\ b \in Browsers /\ e.cursor \in Int
      BY <1>2, <1>3, <3>3 DEF BrowserOK
    <3>6. 0 \in 0..MaxRetries
      BY DeliveryAssumption
    <3> HIDE DEF missed, told, mark, t
    <3>7. t \in Browsers
      BY <3>4, <3>5, <3>6 DEF Browsers
    <3>8. t.lost = told /\ t.phase = b.phase
      BY <3>4, <3>5 DEF Browsers
    <3>9. told \subseteq 1..n
      BY <3>3 DEF told
    <3> QED BY <1>1, <1>2, <1>3, <2>2, <3>7, <3>8, <3>9 DEF BrowserOK
  <2>4. h \in Streams
    <3> DEFINE none == <<>>
    <3>1. none \in Seq(Items)
      OBVIOUS
    <3> HIDE DEF none
    <3>2. [k EXCEPT !.wire = none] \in Streams
      BY <1>2, <3>1, StreamsMoved
    <3> QED BY <3>2 DEF none
  <2>5. h.st = "live" /\ h.wire = <<>> /\ h.replay = k.replay /\ h.queue = k.queue
        /\ h.paused = k.paused /\ h.waiting = k.waiting /\ h.tries = k.tries /\ h.hw = k.hw
        /\ h.seen = k.seen
    BY <1>1, <1>2 DEF Streams
  <2> HIDE DEF h, t
  <2>6. Run(e.cursor, <<>>) /\ LastOf(<<>>, e.cursor) = e.cursor /\ Len(<<>>) = 0
    BY DEF Run, LastOf
  <2>7. AtLive(h, t, n)
    BY <1>1, <1>2, <1>3, <2>2, <2>5, <2>6 DEF StreamOK, AtLive
  <2>8. Bounded(h)
    BY <1>2, <2>5, <2>6 DEF StreamOK, Bounded
  <2>9. StreamOK(h, t, n)
    BY <2>4, <2>5, <2>7, <2>8 DEF StreamOK, AtOpen, AtRead, Opening
  <2> QED BY <1>1, <2>1, <2>3, <2>5, <2>9, OneMoves DEF n, k, b, e, Registered, Opening
<1>6. CASE why = "invalid_event"
  <2>1. /\ Terminate(c) /\ browser' = [browser EXCEPT ![c] = GaveUp(b, "invalid_event")]
        /\ UNCHANGED <<stored, faults>>
    BY <1>6, Zenon DEF Receive
  <2>2. BrowserOK(GaveUp(b, "invalid_event"), n)
    BY <1>2, GoesOn DEF Reasonable
  <2>3. faults' \in 0..MaxFaults
    BY <2>1 DEF DeliveryInv
  <2> QED BY <2>1, <2>2, <2>3, OneEnds
<1> QED BY <1>4, <1>5, <1>6

\* The stream of a browser does not notice what else the browser changes.
LEMMA SameForStream ==
  ASSUME NEW k, NEW n, NEW b, NEW d, StreamOK(k, b, n), d.phase = b.phase, d.cursor = b.cursor
  PROVE  StreamOK(k, d, n)
  BY DEF StreamOK, AtOpen, AtRead, AtLive

\* A heartbeat keeps the invariant.
LEMMA HeartbeatStep ==
  ASSUME DeliveryInv, NEW c \in Clients, Heartbeat(c)
  PROVE  DeliveryInv'
<1> DEFINE n == Reached
           k == stream[c]
           b == [browser[c] EXCEPT !.retries = 0]
<1>1. StreamOK(k, browser[c], n) /\ BrowserOK(browser[c], n)
  BY ClientFacts
<1>2. stream' = [stream EXCEPT ![c] = k] /\ browser' = [browser EXCEPT ![c] = b]
      /\ UNCHANGED <<stored, hub, subs, admitted, faults>>
  BY DEF Heartbeat, DeliveryInv
<1>3. BrowserOK(b, n) /\ b.phase = browser[c].phase /\ b.cursor = browser[c].cursor
  <2>1. 0 \in 0..MaxRetries
    BY DeliveryAssumption
  <2> QED BY <1>1, <2>1 DEF BrowserOK, Browsers
<1> HIDE DEF b, n
<1>4. StreamOK(k, b, n)
  BY <1>1, <1>3, SameForStream
<1> QED BY <1>2, <1>3, <1>4, OneMoves DEF n

\* A browser that notices the end of its stream keeps the invariant.
LEMMA NoticeEndStep ==
  ASSUME DeliveryInv, NEW c \in Clients, NoticeEnd(c)
  PROVE  DeliveryInv'
<1> DEFINE n == Reached
           k == stream[c]
           b == Retrying(browser[c])
<1>1. n \in Nat /\ StreamOK(k, browser[c], n) /\ BrowserOK(browser[c], n) /\ k.st = "none"
  BY ClientFacts DEF NoticeEnd
<1>2. stream' = [stream EXCEPT ![c] = k] /\ browser' = [browser EXCEPT ![c] = b]
      /\ UNCHANGED <<stored, hub, subs, admitted, faults>>
  BY DEF NoticeEnd, DeliveryInv
<1>3. BrowserOK(b, n)
  BY <1>1, GoesOn
<1>4. StreamOK(k, b, n)
  BY <1>1 DEF StreamOK, AtOpen, AtRead, AtLive, Opening
<1> QED BY <1>2, <1>3, <1>4, OneMoves

\* A dropped connection keeps the invariant.
LEMMA DropStep ==
  ASSUME DeliveryInv, NEW c \in Clients, Drop(c)
  PROVE  DeliveryInv'
<1>1. BrowserOK(Retrying(browser[c]), Reached)
  BY ClientFacts, GoesOn
<1>2. Terminate(c) /\ browser' = [browser EXCEPT ![c] = Retrying(browser[c])] /\ UNCHANGED stored
  BY DEF Drop
<1>3. faults' \in 0..MaxFaults
  BY DeliveryAssumption DEF Drop, DeliveryInv
<1> QED BY <1>1, <1>2, <1>3, OneEnds

\* A restart of HostDeck keeps the invariant.
LEMMA CrashStep ==
  ASSUME DeliveryInv, Crash
  PROVE  DeliveryInv'
<1> DEFINE n == Reached
<1>1. /\ stream' = [c \in Clients |-> NoStream]
      /\ browser' = [c \in Clients |->
           IF stream[c].st = "none" THEN browser[c] ELSE Retrying(browser[c])]
      /\ hub' = [failed |-> FALSE, last |-> None] /\ subs' = {} /\ admitted' = {}
      /\ stored' = stored
  BY DEF Crash
<1>2. faults' \in 0..MaxFaults
  BY DeliveryAssumption DEF Crash, DeliveryInv
<1>3. ASSUME NEW c \in Clients
      PROVE  BrowserOK(browser'[c], n) /\ StreamOK(stream'[c], browser'[c], n)
  BY <1>1, ClientFacts, GoesOn, NoStreamOK
<1>4. Reached' = n
  BY <1>1 DEF Reached
<1>5. stream' \in [Clients -> Streams] /\ browser' \in [Clients -> Browsers]
  BY <1>1, <1>3, NoStreamTyped DEF BrowserOK
<1>6. PlacesMatchStreams' /\ HubInStep'
  BY <1>1 DEF PlacesMatchStreams, HubInStep, NoStream, Registered, Opening
<1>7. Shaped(stored)' /\ Reached' <= MaxEvents
  BY <1>1 DEF DeliveryInv, Reached
<1>8. hub' \in [failed : BOOLEAN, last : {None} \cup 1..MaxEvents] /\ subs' \subseteq Clients
      /\ admitted' \subseteq Clients
  BY <1>1
<1> QED BY <1>2, <1>3, <1>4, <1>5, <1>6, <1>7, <1>8 DEF DeliveryInv

\* The invariant holds at the start.
LEMMA DeliveryBegins == DeliveryInit => DeliveryInv
<1> SUFFICES ASSUME DeliveryInit PROVE DeliveryInv
  OBVIOUS
<1>1. stored = EmptyTable /\ hub = [failed |-> FALSE, last |-> None] /\ subs = {} /\ admitted = {}
      /\ stream = [c \in Clients |-> NoStream] /\ browser = [c \in Clients |-> NewBrowser]
      /\ faults = 0
  BY DEF DeliveryInit
<1>2. Shaped(stored) /\ Reached = 0
  BY <1>1, EmptyShaped DEF Reached, OrZero, EmptyTable, None
<1>3. NewBrowser \in Browsers /\ BrowserOK(NewBrowser, 0)
  BY DeliveryAssumption DEF BrowserOK, Browsers, NewBrowser, None, Reasonable
<1>4. PlacesMatchStreams /\ HubInStep
  BY <1>1 DEF PlacesMatchStreams, HubInStep, NoStream, Registered, Opening
<1>5. \A c \in Clients : StreamOK(stream[c], browser[c], Reached) /\ BrowserOK(browser[c], Reached)
  BY <1>1, <1>2, <1>3, NoStreamOK
<1>6. stream \in [Clients -> Streams] /\ browser \in [Clients -> Browsers]
  BY <1>1, <1>3, NoStreamTyped
<1>7. Reached <= MaxEvents /\ faults \in 0..MaxFaults
  BY <1>1, <1>2, DeliveryAssumption
<1>8. hub \in [failed : BOOLEAN, last : {None} \cup 1..MaxEvents]
  BY <1>1
<1> QED BY <1>1, <1>2, <1>4, <1>5, <1>6, <1>7, <1>8 DEF DeliveryInv

\* Every step keeps the invariant.
LEMMA DeliveryGoesOn == DeliveryInv /\ [DeliveryNext]_deliveryVars => DeliveryInv'
<1> SUFFICES ASSUME DeliveryInv, [DeliveryNext]_deliveryVars PROVE DeliveryInv'
  OBVIOUS
<1>1. CASE Event
  BY <1>1, EventStep
<1>2. CASE RuntimeLost
  BY <1>2, RuntimeLostStep
<1>3. CASE Crash
  BY <1>3, CrashStep
<1>4. ASSUME NEW c \in Clients, Server(c) PROVE DeliveryInv'
  <2>1. CASE Capture(c)
    BY <2>1, CaptureStep
  <2>2. CASE ReplayPage(c)
    BY <2>2, ReplayStep
  <2>3. CASE Check(c)
    BY <2>3, CheckStep
  <2>4. CASE Activate(c)
    BY <2>4, ActivateStep
  <2>5. CASE OpenBroken(c)
    BY <2>5, RefusedStep DEF OpenBroken, Reasonable
  <2>6. CASE Pull(c)
    BY <2>6, PullStep
  <2> QED BY <1>4, <2>1, <2>2, <2>3, <2>4, <2>5, <2>6 DEF Server
<1>5. ASSUME NEW c \in Clients, Browser(c) PROVE DeliveryInv'
  <2>1. CASE Connect(c)
    BY <2>1, ConnectStep
  <2>2. CASE Open(c)
    BY <2>2, OpenStep
  <2>3. CASE Receive(c)
    BY <2>3, ReceiveStep
  <2>4. CASE NoticeEnd(c)
    BY <2>4, NoticeEndStep
  <2> QED BY <1>5, <2>1, <2>2, <2>3, <2>4 DEF Browser
<1>6. ASSUME NEW c \in Clients, Heartbeat(c) PROVE DeliveryInv'
  BY <1>6, HeartbeatStep
<1>7. ASSUME NEW c \in Clients, Drop(c) PROVE DeliveryInv'
  BY <1>7, DropStep
<1>8. CASE UNCHANGED deliveryVars
  <2>1. Reached' = Reached
    BY <1>8 DEF deliveryVars, Reached
  <2> QED BY <1>8, <2>1 DEF deliveryVars, DeliveryInv, HubInStep, PlacesMatchStreams, Shaped,
                            Cursors
<1> QED BY <1>1, <1>2, <1>3, <1>4, <1>5, <1>6, <1>7, <1>8, Zenon DEF DeliveryNext

\* The invariant always holds.
LEMMA DeliveryAlways == DeliverySpec => []DeliveryInv
  BY DeliveryBegins, DeliveryGoesOn, PTL DEF DeliverySpec

\* Every place and every registration belongs to one stream, whatever ends it.
THEOREM PlacesAlwaysMatch == DeliverySpec => []PlacesMatchStreams
<1>1. DeliveryInv => PlacesMatchStreams
  BY DEF DeliveryInv
<1> QED BY <1>1, DeliveryAlways, PTL

\* However commits, prunings and reconnections fall between the steps of an open,
\* no browser gives up over a duplicate, a reordering or a gap.
THEOREM NeverOutOfOrder == DeliverySpec => []NothingOutOfOrder
<1>1. DeliveryInv => NothingOutOfOrder
  <2> SUFFICES ASSUME DeliveryInv, NEW c \in Clients PROVE browser[c].why \notin Inconsistent
    BY DEF NothingOutOfOrder
  <2>1. browser[c].why \in Reasonable
    BY DEF DeliveryInv, Browsers
  <2> QED BY <2>1 DEF Reasonable, Inconsistent
<1> QED BY <1>1, DeliveryAlways, PTL

\* Every queue stays within its limit and every cursor within the log.
THEOREM DeliveryTypeCorrect == DeliverySpec => []DeliveryTypeOK
<1>1. DeliveryInv => DeliveryTypeOK
  <2> SUFFICES ASSUME DeliveryInv PROVE DeliveryTypeOK
    OBVIOUS
  <2>1. ASSUME NEW c \in Clients
        PROVE /\ stream[c].st \in {"none", "broken"} \cup Registered
              /\ stream[c].tries \in 0..(MaxAttempts - 1)
              /\ Len(stream[c].paused) <= QueueMax /\ Len(stream[c].queue) <= QueueMax
              /\ Len(stream[c].replay) <= ReplayMax /\ Len(stream[c].wire) <= 1
    <3>1. /\ stream[c].st \in {"none", "broken"} \cup Registered /\ stream[c].tries \in Nat
          /\ Bounded(stream[c])
      BY ClientFacts, StreamFields DEF StreamOK
    <3>2. MaxAttempts \in Nat
      BY DeliveryAssumption
    <3> QED BY <3>1, <3>2 DEF Bounded
  <2>2. ASSUME NEW c \in Clients
        PROVE /\ browser[c].phase \in {"idle", "connecting", "connected", "failed"}
              /\ browser[c].retries \in 0..MaxRetries
              /\ browser[c].cursor \in {None} \cup 0..MaxEvents
              /\ browser[c].lost \subseteq 1..MaxEvents
    <3>1. BrowserOK(browser[c], Reached) /\ Reached \in Nat /\ Reached <= MaxEvents
          /\ MaxEvents \in Nat
      BY ClientFacts, DeliveryAssumption DEF DeliveryInv
    <3> QED BY <3>1 DEF BrowserOK, Browsers, None
  <2> QED BY <2>1, <2>2 DEF DeliveryTypeOK, DeliveryInv, Reached
<1> QED BY <1>1, DeliveryAlways, PTL

-----------------------------------------------------------------------------
\* The refinement mapping: no browser objects to the order of what it is sent, so
\* each is at its cursor.
At == [c \in Clients |-> IF browser[c].phase = "idle" THEN -1 ELSE OrZero(browser[c].cursor)]
Lost == [c \in Clients |-> browser[c].lost]

\* A browser that objects to nothing has its place in the feed.
LEMMA PlaceOfBrowser ==
  ASSUME NEW bs \in [Clients -> Browsers]
  PROVE  [c \in Clients |-> Place(bs[c])]
           = [c \in Clients |-> IF bs[c].phase = "idle" THEN -1 ELSE OrZero(bs[c].cursor)]
<1>1. ASSUME NEW c \in Clients
      PROVE  Place(bs[c]) = IF bs[c].phase = "idle" THEN -1 ELSE OrZero(bs[c].cursor)
  <2>1. bs[c].why \in Reasonable
    BY DEF Browsers
  <2>2. bs[c].why \notin Inconsistent
    BY <2>1 DEF Reasonable, Inconsistent
  <2> QED BY <2>2 DEF Place
<1> QED BY <1>1

\* What the abstract feed sees of a browser.
Still(d, b) == d.cursor = b.cursor /\ d.lost = b.lost /\ (d.phase = "idle" <=> b.phase = "idle")

\* A step the feed does not see.
LEMMA StillSame ==
  ASSUME \A c \in Clients : Still(browser'[c], browser[c])
  PROVE  At' = At /\ Lost' = Lost
  BY DEF Still, At, Lost

\* A browser that retries or gives up keeps its place in the feed.
LEMMA GoingOnIsStill ==
  ASSUME NEW b \in Browsers, b.phase # "idle"
  PROVE  Still(Retrying(b), b) /\ \A why \in Reasonable : Still(GaveUp(b, why), b)
  BY DEF Retrying, GaveUp, Still, Browsers, Reasonable

\* So does one whose open is refused.
LEMMA RefusedIsStill ==
  ASSUME DeliveryInv, NEW c \in Clients, NEW why, Refused(c, why), browser[c].phase # "idle"
  PROVE  stored' = stored /\ \A d \in Clients : Still(browser'[d], browser[d])
<1>1. browser' = [browser EXCEPT ![c] = GaveUp(browser[c], why)] /\ stored' = stored
  BY DEF Refused
<1>2. Still(GaveUp(browser[c], why), browser[c])
  BY DEF GaveUp, Still, DeliveryInv, Browsers
<1>3. \A d \in Clients : d # c => browser'[d] = browser[d]
  BY <1>1 DEF DeliveryInv
<1>4. browser'[c] = GaveUp(browser[c], why)
  BY <1>1 DEF DeliveryInv
<1> QED BY <1>1, <1>2, <1>3, <1>4 DEF Still

\* Only a browser that has started has a stream.
LEMMA RegisteredIsNotIdle ==
  ASSUME DeliveryInv, NEW c \in Clients, stream[c].st # "none"
  PROVE  browser[c].phase # "idle"
  BY IdleHasNoStream

\* What the server does while a stream opens is not seen by the feed.
LEMMA ServerIsStill ==
  ASSUME DeliveryInv, NEW c \in Clients, Server(c)
  PROVE  stored' = stored /\ \A d \in Clients : Still(browser'[d], browser[d])
<1>1. stream[c].st # "none"
  BY DEF Server, Capture, ReplayPage, Check, Activate, OpenBroken, Pull
<1>2. browser[c].phase # "idle"
  BY <1>1, RegisteredIsNotIdle
<1>3. CASE \E why : Refused(c, why)
  BY <1>2, <1>3, RefusedIsStill
<1>4. CASE UNCHANGED <<stored, browser>>
  BY <1>4 DEF Still
<1>5. CASE Activate(c)
  <2>1. browser' = [browser EXCEPT ![c].phase = "connected", ![c].started = FALSE]
        /\ stored' = stored
    BY <1>5 DEF Activate
  <2>2. \A d \in Clients : Still(browser'[d], browser[d])
    BY <1>2, <2>1 DEF Still, DeliveryInv, Browsers
  <2> QED BY <2>1, <2>2
<1>6. Capture(c) => (\E why : Refused(c, why)) \/ UNCHANGED <<stored, browser>>
  BY Zenon DEF Capture
<1>7. ReplayPage(c) => (\E why : Refused(c, why)) \/ UNCHANGED <<stored, browser>>
  BY Zenon DEF ReplayPage
<1>8. Settle(c) => (\E why : Refused(c, why)) \/ UNCHANGED <<stored, browser>>
  BY Zenon DEF Settle
<1>9. Check(c) => (\E why : Refused(c, why)) \/ UNCHANGED <<stored, browser>>
  BY <1>8, Zenon DEF Check
<1>10. OpenBroken(c) => \E why : Refused(c, why)
  BY DEF OpenBroken
<1>11. Pull(c) => UNCHANGED <<stored, browser>>
  BY DEF Pull
<1> QED BY <1>3, <1>4, <1>5, <1>6, <1>7, <1>9, <1>10, <1>11, Zenon DEF Server

\* A browser takes the next event, or a boundary that tells it what it skips.
Delivered(c) ==
  /\ At[c] # -1 /\ At[c] < Reached /\ At' = [At EXCEPT ![c] = At[c] + 1]
  /\ Reached' = Reached /\ Lost' = Lost
Skipped(c) ==
  /\ At[c] # -1 /\ Reached' = Reached
  /\ \E b \in (At[c] + 2)..Reached :
       /\ At' = [At EXCEPT ![c] = b]
       /\ Lost' = [Lost EXCEPT ![c] = Lost[c] \cup ((At[c] + 1)..(b - 1))]

\* Every step is a step of the abstract feed, or is not seen by it.
LEMMA StepIsFeedStep ==
  ASSUME DeliveryInv, DeliveryNext
  PROVE  \/ Reached' = Reached + 1 /\ At' = At /\ Lost' = Lost
         \/ \E c \in Clients : At[c] = -1 /\ (\E n \in 0..Reached : At' = [At EXCEPT ![c] = n])
                               /\ Lost' = Lost /\ Reached' = Reached
         \/ \E c \in Clients : Delivered(c) \/ Skipped(c)
         \/ Reached' = Reached /\ At' = At /\ Lost' = Lost
<1> DEFINE Unseen == stored' = stored /\ \A c \in Clients : Still(browser'[c], browser[c])
<1>0. Unseen => Reached' = Reached /\ At' = At /\ Lost' = Lost
  BY StillSame DEF Reached
<1>1. CASE Event
  BY <1>1, EventStep DEF At, Lost
<1>2. CASE RuntimeLost
  BY <1>2, RuntimeLostStep DEF At, Lost
<1>3. CASE Crash
  <2>1. stored' = stored /\ browser' = [c \in Clients |->
           IF stream[c].st = "none" THEN browser[c] ELSE Retrying(browser[c])]
    BY <1>3 DEF Crash
  <2>2. ASSUME NEW c \in Clients PROVE Still(browser'[c], browser[c])
    <3>1. CASE stream[c].st = "none"
      BY <2>1, <3>1 DEF Still
    <3>2. CASE stream[c].st # "none"
      <4>1. browser[c].phase # "idle" /\ browser[c] \in Browsers
        BY <3>2, RegisteredIsNotIdle DEF DeliveryInv
      <4> QED BY <2>1, <3>2, <4>1, GoingOnIsStill
    <3> QED BY <3>1, <3>2
  <2> QED BY <1>0, <2>1, <2>2
<1>4. ASSUME NEW c \in Clients, Server(c) PROVE Unseen
  BY <1>4, ServerIsStill
<1>5. ASSUME NEW c \in Clients, Drop(c) \/ NoticeEnd(c) PROVE Unseen
  <2>1. browser' = [browser EXCEPT ![c] = Retrying(browser[c])] /\ stored' = stored
    BY <1>5 DEF Drop, NoticeEnd
  <2>2. browser[c].phase # "idle" /\ browser[c] \in Browsers
    BY <1>5, RegisteredIsNotIdle DEF Drop, NoticeEnd, DeliveryInv
  <2>3. Still(Retrying(browser[c]), browser[c])
    BY <2>2, GoingOnIsStill
  <2>4. \A d \in Clients : browser'[d] = IF d = c THEN Retrying(browser[c]) ELSE browser[d]
    BY <2>1 DEF DeliveryInv
  <2> QED BY <2>1, <2>3, <2>4 DEF Still
<1>6. ASSUME NEW c \in Clients, Heartbeat(c) PROVE Unseen
  <2>1. browser' = [browser EXCEPT ![c].retries = 0] /\ stored' = stored
    BY <1>6 DEF Heartbeat
  <2> QED BY <2>1 DEF Still, DeliveryInv, Browsers
<1>7. ASSUME NEW c \in Clients, Open(c) PROVE Unseen
  <2>1. browser[c].phase # "idle"
    BY <1>7 DEF Open
  <2>2. CASE Refused(c, "unavailable")
    BY <2>1, <2>2, RefusedIsStill
  <2>3. CASE UNCHANGED <<stored, browser>>
    BY <2>3 DEF Still
  <2> QED BY <1>7, <2>2, <2>3 DEF Open
<1>8. ASSUME NEW c \in Clients, Connect(c)
      PROVE  /\ At[c] = -1 /\ Lost' = Lost /\ Reached' = Reached
             /\ \E n \in 0..Reached : At' = [At EXCEPT ![c] = n]
  <2>1. PICK after \in {stored.last, IF stored.last = None THEN None
                        ELSE IF stored.last > Window THEN stored.last - Window ELSE 0} :
          browser' = [browser EXCEPT ![c].phase = "connecting", ![c].cursor = after]
    BY <1>8 DEF Connect
  <2>2. Reached \in Nat /\ (stored.last = None \/ stored.last = Reached) /\ Window \in Nat
    BY ClientFacts, DeliveryAssumption
  <2>3. OrZero(after) \in 0..Reached
    <3>1. stored.last = None => Reached = 0
      BY DEF Reached, OrZero
    <3> DEFINE n == Reached
    <3> HIDE DEF n
    <3>2. OrZero(after) \in 0..n
      BY <2>2, <3>1 DEF OrZero, None, n
    <3> QED BY <3>2 DEF n
  <2>4. browser[c].phase = "idle" /\ stored' = stored
    BY <1>8 DEF Connect
  <2>5. \A d \in Clients : browser'[d] =
          IF d = c THEN [browser[c] EXCEPT !.phase = "connecting", !.cursor = after] ELSE browser[d]
    BY <2>1 DEF DeliveryInv
  <2>6. browser'[c].phase = "connecting" /\ browser'[c].cursor = after
        /\ browser'[c].lost = browser[c].lost
    BY <2>5 DEF DeliveryInv, Browsers
  <2>7. At' = [At EXCEPT ![c] = OrZero(after)]
    BY <2>5, <2>6 DEF At
  <2>8. Lost' = Lost
    BY <2>5, <2>6 DEF Lost
  <2>9. At[c] = -1 /\ Reached' = Reached
    BY <2>4 DEF At, Reached
  <2> QED BY <2>3, <2>7, <2>8, <2>9
<1>9. ASSUME NEW c \in Clients, Receive(c)
      PROVE  Unseen \/ Delivered(c) \/ Skipped(c)
  <2> DEFINE b == browser[c]
             e == Head(stream[c].wire)
  <2>1. stream[c].st = "live" /\ stream[c].wire # <<>> /\ b.phase = "connected" /\ stored' = stored
    BY <1>9 DEF Receive
  <2>2. CASE browser' = [browser EXCEPT ![c] = GaveUp(b, Objection(b, e))]
    <3>1. \A d \in Clients : browser'[d] = IF d = c THEN GaveUp(b, Objection(b, e)) ELSE browser[d]
      BY <2>2 DEF DeliveryInv
    <3>2. Still(GaveUp(b, Objection(b, e)), b)
      <4>1. b \in Browsers
        BY DEF DeliveryInv
      <4> HIDE DEF b
      <4> QED BY <2>1, <4>1 DEF GaveUp, Still, Browsers
    <3> QED BY <2>1, <3>1, <3>2 DEF Still
  <2>3. CASE browser' = [browser EXCEPT ![c] = Took(b, e)]
    <3>1. /\ e.cursor > OrZero(b.cursor) /\ b.cursor \in Nat \cup {None}
          /\ e.cursor \in Nat \ {0} /\ e.cursor <= Reached /\ Reached \in Nat
      BY <2>1, OnTheWire, ClientFacts
    <3>2. \A d \in Clients : browser'[d] = IF d = c THEN Took(b, e) ELSE browser[d]
      BY <2>3 DEF DeliveryInv
    <3>3. b \in Browsers
      BY DEF DeliveryInv
    <3>4. At[c] = OrZero(b.cursor) /\ Lost[c] = b.lost /\ OrZero(b.cursor) \in Nat
      BY <2>1, <3>1 DEF At, Lost, OrZero, None
    <3> HIDE DEF b, e
    <3> DEFINE told == IF e.row.kind = "boundary"
                         THEN b.lost \cup ((OrZero(b.cursor) + 1)..(e.cursor - 1)) ELSE b.lost
    <3>5. Took(b, e).cursor = e.cursor /\ Took(b, e).phase = b.phase /\ Took(b, e).lost = told
      BY <3>3 DEF Took, Browsers
    <3>6. OrZero(e.cursor) = e.cursor
      BY <3>1 DEF OrZero, None
    <3>7. At' = [At EXCEPT ![c] = e.cursor]
      BY <2>1, <3>2, <3>5, <3>6 DEF At
    <3>8. Lost' = [Lost EXCEPT ![c] = told]
      BY <3>2, <3>5 DEF Lost
    <3>9. At[c] # -1 /\ At[c] \in Nat /\ Reached' = Reached /\ At[c] < e.cursor
      <4>1. Reached' = Reached
        BY <2>1 DEF Reached
      <4> QED BY <3>1, <3>4, <4>1
    <3>10. CASE e.cursor = At[c] + 1
      <4>1. (OrZero(b.cursor) + 1)..(e.cursor - 1) = {}
        BY <3>1, <3>4, <3>10
      <4>2. told = Lost[c]
        BY <3>4, <4>1
      <4>3. Lost' = Lost
        BY <3>8, <4>2 DEF Lost
      <4> QED BY <3>1, <3>7, <3>9, <3>10, <4>3 DEF Delivered
    <3>11. CASE e.cursor # At[c] + 1
      <4>1. e.row.kind = "boundary"
        BY <2>1, <3>4, <3>11, OnTheWire DEF IsNext, b, e
      <4>2. Lost' = [Lost EXCEPT ![c] = Lost[c] \cup ((At[c] + 1)..(e.cursor - 1))]
        BY <3>4, <3>8, <4>1
      <4>3. e.cursor \in (At[c] + 2)..Reached
        BY <3>1, <3>9, <3>11
      <4> QED BY <3>7, <3>9, <4>2, <4>3 DEF Skipped
    <3> QED BY <3>10, <3>11
  <2> QED BY <1>9, <2>2, <2>3, Zenon DEF Receive
<1> HIDE DEF Unseen
<1> QED BY <1>0, <1>1, <1>2, <1>3, <1>4, <1>5, <1>6, <1>7, <1>8, <1>9, Zenon
        DEF DeliveryNext, Browser

\* Requirement FR-013: hub, handoff, queues, retries and restarts together give each
\* browser a gap-free feed: what it is sent takes it to the next cursor, or is a
\* boundary that tells it what it will not see.
THEOREM DeliveryImplementsFeed == DeliverySpec => ImplementsFeed
<1> DEFINE Placed == [c \in Clients |-> Place(browser[c])]
<1>1. DeliveryInit => Feed!Init
  <2> SUFFICES ASSUME DeliveryInit PROVE Feed!Init
    OBVIOUS
  <2>1. stored = EmptyTable /\ browser = [c \in Clients |-> NewBrowser]
    BY DEF DeliveryInit
  <2>2. OrZero(stored.last) = 0
    BY <2>1 DEF EmptyTable, OrZero
  <2>3. Place(NewBrowser) = -1 /\ NewBrowser.lost = {}
    BY DEF NewBrowser, Place
  <2> QED BY <2>1, <2>2, <2>3 DEF Feed!Init
<1>2. DeliveryInv /\ DeliveryInv' /\ [DeliveryNext]_deliveryVars => [Feed!Next]_Feed!feedVars
  <2> SUFFICES ASSUME DeliveryInv, DeliveryInv', [DeliveryNext]_deliveryVars
               PROVE  [Feed!Next]_Feed!feedVars
    OBVIOUS
  <2>1. CASE UNCHANGED deliveryVars
    BY <2>1 DEF deliveryVars, Feed!feedVars
  <2>2. CASE DeliveryNext
    <3>1. Placed = At
      <4>1. browser \in [Clients -> Browsers]
        BY DEF DeliveryInv
      <4> QED BY <4>1, PlaceOfBrowser DEF At
    <3>2. Placed' = At'
      <4>1. browser' \in [Clients -> Browsers]
        BY DEF DeliveryInv
      <4> QED BY <4>1, PlaceOfBrowser DEF At
    <3> HIDE DEF Placed
    <3>3. CASE Reached' = Reached + 1 /\ At' = At /\ Lost' = Lost
      BY <3>1, <3>2, <3>3 DEF Reached, Lost, Placed, Feed!Next, Feed!Grow
    <3>4. CASE \E c \in Clients : At[c] = -1 /\ (\E n \in 0..Reached : At' = [At EXCEPT ![c] = n])
                               /\ Lost' = Lost /\ Reached' = Reached
      BY <3>1, <3>2, <3>4, Zenon DEF Reached, Lost, Placed, Feed!Next, Feed!Begin
    <3>5. ASSUME NEW c \in Clients, Delivered(c) PROVE Feed!Deliver(c)
      BY <3>1, <3>2, <3>5, Zenon DEF Reached, Lost, Placed, Delivered, Feed!Deliver
    <3>6. ASSUME NEW c \in Clients, Skipped(c) PROVE Feed!Skip(c)
      BY <3>1, <3>2, <3>6, Zenon DEF Reached, Lost, Placed, Skipped, Feed!Skip
    <3>7. CASE Reached' = Reached /\ At' = At /\ Lost' = Lost
      BY <3>1, <3>2, <3>7 DEF Reached, Lost, Placed, Feed!feedVars
    <3> QED BY <2>2, <3>3, <3>4, <3>5, <3>6, <3>7, StepIsFeedStep, Zenon DEF Feed!Next
  <2> QED BY <2>1, <2>2
<1> QED BY <1>1, <1>2, DeliveryAlways, PTL DEF DeliverySpec, ImplementsFeed, Feed!Spec

\* The hub never sees a commit out of step, so it never fails.
THEOREM HubNeverFails == DeliverySpec => []HubInStep
<1>1. DeliveryInv => HubInStep
  BY DEF DeliveryInv
<1> QED BY <1>1, DeliveryAlways, PTL
=============================================================================
