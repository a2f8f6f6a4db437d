----------------------------- MODULE EventPages -----------------------------
(***************************************************************************)
(* The two read paths that check the stored projection a second time, over *)
(* the sessions ProjectionStore produces: the paged event diagnostics of   *)
(* GET /sessions/:id/events (packages/server/src/projected-event-routes)   *)
(* and the session detail (packages/storage/src/                           *)
(* selected-session-read-repository).  Both refuse what they take for      *)
(* corruption, so a rule stricter than what the writers keep turns a       *)
(* healthy session into a storage error.                                   *)
(***************************************************************************)
EXTENDS ProjectionStore

CONSTANT PageSizes   \* limits a request may ask for

ASSUME PageSizesAssumption == PageSizes \subseteq Nat \ {0}

VARIABLE reply       \* what the last read answered

pageVars == <<vars, reply>>

Answers == {"none", "page", "detail", "future_cursor", "session_not_found", "storage_error"}

\* assertEventLayout: the counters on their own.
EventLayoutAccepted(t) ==
  IF t.count = 0
    THEN t.earliest = None /\ t.last = None /\ t.boundary = None
    ELSE /\ t.earliest # None /\ t.last # None /\ t.earliest <= t.last
         /\ t.count = t.last - t.earliest + 1
         /\ t.boundary # None => t.boundary + 1 = t.earliest

\* Mutant: the first boundary is expected to repeat the requested cursor.
PageAcceptedExact(t, after, size) ==
  LET page == PageCursors(t, after, size)
      head == t.rows[FirstOf(page)] IN
  \/ page = {} /\ OrZero(after) >= OrZero(t.last)
  \/ /\ page # {}
     /\ IF t.boundary # None /\ OrZero(after) <= t.boundary
          THEN head.kind = "boundary" /\ head.reason = "retention"
          ELSE head.kind = "boundary" => head.after = after

\* parseAndValidatePage: the page against the counters and the request.
PageAccepted(t, after, size) ==
  LET page == PageCursors(t, after, size)
      base == OrZero(after)
      high == OrZero(t.last)
      first == FirstOf(page)
      head == t.rows[first] IN
  /\ \A c \in page : base < c /\ c <= high
  /\ IF page = {}
       THEN base >= high
       ELSE /\ IF t.boundary # None /\ base <= t.boundary
                 THEN /\ head.kind = "boundary" /\ head.reason = "retention"
                      /\ head.after = t.boundary /\ first = t.boundary + 1
                 ELSE /\ first = base + 1
                      /\ head.kind = "boundary" =>
                           head.after = after \/ (base = 0 /\ head.after = None)
            /\ Cardinality(page) < size => high \in page

\* assertEventAggregate: the detail view re-derives the counters from the rows.
DetailAccepted(t) ==
  LET boundaries == Cursors(t) \ RealCursors(t) IN
  /\ t.count = Cardinality(Cursors(t))
  /\ IF Cursors(t) = {}
       THEN t.earliest = None /\ t.last = None /\ t.boundary = None
       ELSE /\ t.earliest = FirstOf(Cursors(t)) /\ t.last \in Cursors(t)
            /\ t.last - t.earliest + 1 = t.count
            /\ boundaries \subseteq {t.earliest}
            /\ IF t.boundary = None
                 THEN t.earliest = 1
                 ELSE t.boundary + 1 = t.earliest /\ boundaries # {}

ReadPage(after, size) ==
  /\ phase = "serving"
  /\ reply' = IF ~Exists THEN "session_not_found"
              ELSE IF ~EventLayoutAccepted(tbl) THEN "storage_error"
              ELSE IF after > OrZero(tbl.last) THEN "future_cursor"
              ELSE IF PersistedAgrees(tbl) /\ ReadAccepted(tbl, after, size)
                      /\ PageAccepted(tbl, after, size) THEN "page"
              ELSE "storage_error"
  /\ UNCHANGED vars

ReadDetail ==
  /\ phase = "serving"
  /\ reply' = IF ~Exists THEN "session_not_found"
              ELSE IF DetailAccepted(tbl) THEN "detail" ELSE "storage_error"
  /\ UNCHANGED vars

PagesInit == Init /\ reply = "none"
PagesNext ==
  \/ Next /\ reply' = "none"
  \/ ReadDetail
  \/ \E after \in {None} \cup 0..MaxCursor, size \in PageSizes : ReadPage(after, size)
PagesSpec == PagesInit /\ [][PagesNext]_pageVars

-----------------------------------------------------------------------------
\* As long as no connection has been lost, the diagnostics page is readable from
\* every cursor with every page size: retention boundaries, adoption boundaries
\* and plain history all pass the route's second check.
PagesReadableWithoutDisconnect ==
  (\A c \in Cursors(tbl) : tbl.rows[c].reason \notin ContinuityReasons) =>
     reply # "storage_error"

=============================================================================
