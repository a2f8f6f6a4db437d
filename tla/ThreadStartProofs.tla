--------------------------- MODULE ThreadStartProofs ---------------------------
(***************************************************************************)
(* Proofs about ThreadStart for any number of starts, faults and stops:    *)
(* Codex makes at most one thread for a start, no thread is lost, the      *)
(* alias has one owner and an archived session is archived in Codex.       *)
(***************************************************************************)
EXTENDS ThreadStart, FiniteSetTheorems, TLAPS

(* A start in progress knows what its row says: it is the only one to     *)
(* write it, and nobody waits without a row (managed-thread-service).      *)
StepMatchesRow ==
  \A o \in Starts :
    /\ req[o] \in {"sent", "find"} => row[o] = "reserved"
    /\ req[o] \in Materializing => row[o] = "thread_created"

(* A row is marked persisted only behind its session (persistThreadCreated). *)
PersistedHasSession ==
  \A o \in Starts : row[o] = "persisted" => sess[o] # "none"

(* Codex knows a thread once it has made one. *)
MadeIsKnown ==
  \A o \in Starts : thread[o].made = 0 <=> thread[o].at = "none"

(* A request on its way to Codex is for a start that has no thread. *)
SentOnce ==
  \A o \in Starts :
    thread[o].made \in 0..1 /\ (<<o, "start">> \in wire => thread[o].made = 0)

(* The alias without counting: two starts that own it are the same, and an *)
(* adopted thread leaves no room for one.                                  *)
Started(o) == sess[o] # "none" \/ row[o] # "none"
OneOwner ==
  /\ \A o, p \in Starts : Started(o) /\ Started(p) => o = p
  /\ native \in {"managed", "recovery"} => \A o \in Starts : ~Started(o)

(* An archive that still holds the revision it read holds an active        *)
(* session (the compare-and-set of the archive's writes).                  *)
ArchiveIsFresh ==
  \A o \in Starts : arch[o].at # "idle" /\ arch[o].same => sess[o] = "active"

(* While the connection lasts, a request to archive is on its way or was   *)
(* carried out; a new connection finds no archive waiting.                 *)
ArchiveIsUnderWay ==
  \A o \in Starts :
    arch[o].at = "sent" =>
      \/ <<o, "archive">> \in wire
      \/ thread[o].at = "archived"
      \/ link # "ready"

IInv ==
  /\ TypeOK
  /\ StepMatchesRow /\ PersistedHasSession /\ MadeIsKnown
  /\ SentOnce /\ ThreadIsTraceable
  /\ OneOwner
  /\ ArchiveIsFresh /\ ArchiveIsUnderWay /\ ArchivedIsArchived

(* What the threads and the archives in progress look like. *)
Threads ==
  [made : 0..2, at : {"none", "loaded", "stored", "archived", "gone"}, goal : BOOLEAN]
ArchiveStates == [at : {"idle", "verify", "sent"}, same : BOOLEAN]

----------------------------------------------------------------------------
(* Each part of the invariant speaks of a few variables only: a step that  *)
(* leaves them alone preserves it.                                         *)
LEMMA Untouched ==
  /\ StepMatchesRow /\ UNCHANGED <<row, req>> => StepMatchesRow'
  /\ PersistedHasSession /\ UNCHANGED <<row, sess>> => PersistedHasSession'
  /\ MadeIsKnown /\ UNCHANGED thread => MadeIsKnown'
  /\ SentOnce /\ UNCHANGED <<thread, wire>> => SentOnce'
  /\ ThreadIsTraceable /\ UNCHANGED <<thread, wire, row, sess>> => ThreadIsTraceable'
  /\ OneOwner /\ UNCHANGED <<row, sess, native>> => OneOwner'
  /\ ArchiveIsFresh /\ UNCHANGED <<arch, sess>> => ArchiveIsFresh'
  /\ ArchiveIsUnderWay /\ UNCHANGED <<arch, wire, thread, link>> => ArchiveIsUnderWay'
  /\ ArchivedIsArchived /\ UNCHANGED <<sess, thread>> => ArchivedIsArchived'
<1>1. StepMatchesRow /\ UNCHANGED <<row, req>> => StepMatchesRow'
  BY DEF StepMatchesRow
<1>2. PersistedHasSession /\ UNCHANGED <<row, sess>> => PersistedHasSession'
  BY DEF PersistedHasSession
<1>3. MadeIsKnown /\ UNCHANGED thread => MadeIsKnown'
  BY DEF MadeIsKnown
<1>4. SentOnce /\ UNCHANGED <<thread, wire>> => SentOnce'
  BY DEF SentOnce
<1>5. ThreadIsTraceable /\ UNCHANGED <<thread, wire, row, sess>> => ThreadIsTraceable'
  BY DEF ThreadIsTraceable
<1>6. OneOwner /\ UNCHANGED <<row, sess, native>> => OneOwner'
  BY DEF OneOwner, Started
<1>7. ArchiveIsFresh /\ UNCHANGED <<arch, sess>> => ArchiveIsFresh'
  BY DEF ArchiveIsFresh
<1>8. ArchiveIsUnderWay /\ UNCHANGED <<arch, wire, thread, link>> => ArchiveIsUnderWay'
  BY DEF ArchiveIsUnderWay
<1>9. ArchivedIsArchived /\ UNCHANGED <<sess, thread>> => ArchivedIsArchived'
  BY DEF ArchivedIsArchived
<1> QED BY <1>1, <1>2, <1>3, <1>4, <1>5, <1>6, <1>7, <1>8, <1>9

(* The budgets bound the faults and stay natural numbers. *)
LEMMA BudgetTyped ==
  ASSUME TypeOK
  PROVE  /\ \A what \in {"faults", "crashes"} :
              Spend(what) => budget' \in [faults : Nat, crashes : Nat]
         /\ Unanswered => budget' \in [faults : Nat, crashes : Nat]
         /\ UNCHANGED budget => budget' \in [faults : Nat, crashes : Nat]
<1>1. budget \in [faults : Nat, crashes : Nat]
  BY DEF TypeOK
<1>2. ASSUME NEW what \in {"faults", "crashes"}, Spend(what)
      PROVE  budget' \in [faults : Nat, crashes : Nat]
  <2>1. CASE what = "faults"
    BY <1>1, <1>2, <2>1 DEF Spend
  <2>2. CASE what = "crashes"
    BY <1>1, <1>2, <2>2 DEF Spend
  <2> QED BY <2>1, <2>2
<1>3. Unanswered => budget' \in [faults : Nat, crashes : Nat]
  BY <1>1, <1>2 DEF Unanswered
<1> QED BY <1>1, <1>2, <1>3

(* Where a request goes and how it ends. *)
RequestTyped ==
  /\ req' \in [Starts -> {"idle", "cwd", "sent", "find", "read", "goal", "clear", "verify"}]
  /\ reply' \in [Starts -> {"none", "succeeded", "failed", "incomplete", "held"}]
  /\ audit' \in [Starts -> {"none", "open", "closed"}]

(* An answer or the next place of a request changes no other request. *)
LEMMA RequestMoves ==
  ASSUME TypeOK, NEW o \in Starts
  PROVE  /\ \A how \in {"succeeded", "failed", "incomplete", "held"} :
              Answered(o, how) => RequestTyped /\ req' = [req EXCEPT ![o] = "idle"]
         /\ \A place \in {"sent", "find", "read", "goal", "clear", "verify"} :
              Goes(o, place) => RequestTyped /\ req' = [req EXCEPT ![o] = place]
         /\ UNCHANGED <<req, reply, audit>> => RequestTyped
<1>1. \A how \in {"succeeded", "failed", "incomplete", "held"} :
        Answered(o, how) => RequestTyped /\ req' = [req EXCEPT ![o] = "idle"]
  BY DEF Answered, RequestTyped, TypeOK
<1>2. \A place \in {"sent", "find", "read", "goal", "clear", "verify"} :
        Goes(o, place) => RequestTyped /\ req' = [req EXCEPT ![o] = place]
  BY DEF Goes, RequestTyped, TypeOK
<1>3. UNCHANGED <<req, reply, audit>> => RequestTyped
  BY DEF RequestTyped, TypeOK
<1> QED BY <1>1, <1>2, <1>3

(* Requests that enter or leave the wire are found there by their start. *)
LEMMA WireHolds ==
  ASSUME NEW o, NEW what \in {"start", "archive"}
  PROVE  \A p, kind :
           /\ <<p, kind>> \in wire \cup {<<o, what>>} <=> <<p, kind>> \in wire \/ (p = o /\ kind = what)
           /\ <<p, kind>> \in wire \ {<<o, what>>} <=> <<p, kind>> \in wire /\ ~(p = o /\ kind = what)
  OBVIOUS

(* The archives in progress after one of them has moved. *)
LEMMA ArchiveMoves ==
  ASSUME TypeOK, NEW o \in Starts
  PROVE  /\ arch \in [Starts -> ArchiveStates]
         /\ \A at \in {"idle", "verify", "sent"} :
              /\ [arch EXCEPT ![o].at = at] \in [Starts -> ArchiveStates]
              /\ [arch EXCEPT ![o].at = at][o] = [at |-> at, same |-> arch[o].same]
              /\ \A p \in Starts \ {o} : [arch EXCEPT ![o].at = at][p] = arch[p]
         /\ Touched(o) \in [Starts -> ArchiveStates]
         /\ Touched(o)[o] = [at |-> arch[o].at, same |-> FALSE]
         /\ \A p \in Starts \ {o} : Touched(o)[p] = arch[p]
<1>1. arch \in [Starts -> ArchiveStates]
  BY DEF TypeOK, ArchiveStates
<1>2. ASSUME NEW at \in {"idle", "verify", "sent"}
      PROVE  /\ [arch EXCEPT ![o].at = at] \in [Starts -> ArchiveStates]
             /\ [arch EXCEPT ![o].at = at][o] = [at |-> at, same |-> arch[o].same]
             /\ \A p \in Starts \ {o} : [arch EXCEPT ![o].at = at][p] = arch[p]
  BY <1>1 DEF ArchiveStates
<1>3. /\ Touched(o) \in [Starts -> ArchiveStates]
      /\ Touched(o)[o] = [at |-> arch[o].at, same |-> FALSE]
      /\ \A p \in Starts \ {o} : Touched(o)[p] = arch[p]
  BY <1>1 DEF ArchiveStates, Touched
<1> QED BY <1>1, <1>2, <1>3

(* The paused goal and its removal write a thread to disk and make none. *)
LEMMA GoalKeeps ==
  ASSUME TypeOK, NEW o \in Starts, thread[o].at \in {"loaded", "stored"},
         SetGoal(o) \/ ClearGoal(o)
  PROVE  /\ thread' \in [Starts -> Threads]
         /\ thread'[o].made = thread[o].made /\ thread'[o].at = "stored"
         /\ \A p \in Starts \ {o} : thread'[p] = thread[p]
<1>1. thread \in [Starts -> Threads]
  BY DEF TypeOK, Threads
<1>2. thread' \in [Starts -> Threads]
  BY <1>1 DEF SetGoal, ClearGoal, Threads
<1>3. /\ thread'[o].made = thread[o].made /\ thread'[o].at = "stored"
      /\ \A p \in Starts \ {o} : thread'[p] = thread[p]
  BY <1>1 DEF SetGoal, ClearGoal, Threads
<1> QED BY <1>2, <1>3

----------------------------------------------------------------------------
(* A request begins behind its audit trail. *)
LEMMA ArrivePreserves ==
  ASSUME IInv, NEW o \in Starts, Arrive(o)
  PROVE  IInv'
<1>1. TypeOK'
  BY DEF Arrive, IInv, TypeOK, Codex, Archives
<1>2. StepMatchesRow'
  BY DEF Arrive, IInv, TypeOK, StepMatchesRow, Materializing, Codex, Archives
<1> QED BY <1>1, <1>2, Untouched DEF Arrive, IInv, Codex, Archives

(* Retention may forget an answered request. *)
LEMMA TrailDroppedPreserves ==
  ASSUME IInv, NEW o \in Starts, TrailDropped(o)
  PROVE  IInv'
<1>1. TypeOK'
  BY BudgetTyped DEF TrailDropped, IInv, TypeOK, Codex, Archives
<1> QED BY <1>1, Untouched DEF TrailDropped, IInv, Codex, Archives

(* A request refused early has touched no row. *)
LEMMA RefuseEarlyPreserves ==
  ASSUME IInv, NEW o \in Starts, RefuseEarly(o)
  PROVE  IInv'
<1>1. TypeOK'
  BY RequestMoves, BudgetTyped DEF RefuseEarly, IInv, TypeOK, Codex, Archives, RequestTyped
<1>2. StepMatchesRow'
  BY RequestMoves DEF RefuseEarly, IInv, TypeOK, StepMatchesRow, Materializing, Codex,
      Archives
<1> QED BY <1>1, <1>2, Untouched DEF RefuseEarly, IInv, Codex, Archives

(* A start refused for its alias has touched no row. *)
LEMMA RefuseNamePreserves ==
  ASSUME IInv, NEW o \in Starts, RefuseName(o)
  PROVE  IInv'
<1>1. TypeOK'
  BY RequestMoves DEF RefuseName, IInv, TypeOK, Codex, Archives, RequestTyped
<1>2. StepMatchesRow'
  BY RequestMoves DEF RefuseName, IInv, TypeOK, StepMatchesRow, Materializing, Codex,
      Archives
<1> QED BY <1>1, <1>2, Untouched DEF RefuseName, IInv, Codex, Archives

(* A reservation finds the alias free and no thread made for it. *)
LEMMA ReservePreserves ==
  ASSUME IInv, NEW o \in Starts, Reserve(o)
  PROVE  IInv'
<1>1. TypeOK'
  BY RequestMoves DEF Reserve, IInv, TypeOK, Codex, Archives, RequestTyped, SetRow
<1>2. StepMatchesRow'
  BY RequestMoves DEF Reserve, Owned, OtherRow, SetRow, IInv, TypeOK, StepMatchesRow,
      Materializing, Codex, Archives
<1>3. PersistedHasSession'
  BY DEF Reserve, Owned, OtherRow, SetRow, IInv, TypeOK, PersistedHasSession, Codex,
      Archives
<1>4. SentOnce'
  <2>1. thread[o].made = 0
    <3>1. sess[o] = "none" /\ row[o] = "none"
      BY DEF Reserve, Owned
    <3>2. ~(thread[o].made > 0)
      BY <3>1 DEF IInv, ThreadIsTraceable
    <3>3. thread[o].made \in 0..1
      BY DEF IInv, SentOnce
    <3> QED BY <3>2, <3>3
  <2>2. thread' = thread /\ wire' = wire \cup {<<o, "start">>}
    BY DEF Reserve
  <2> QED BY <2>1, <2>2, WireHolds DEF SentOnce, IInv
<1>5. ThreadIsTraceable'
  BY DEF Reserve, Owned, OtherRow, SetRow, IInv, TypeOK, ThreadIsTraceable, Codex, Archives
<1>6. OneOwner'
  BY DEF Reserve, Owned, OtherRow, SetRow, IInv, TypeOK, OneOwner, Started, Codex, Archives
<1>7. ArchiveIsUnderWay'
  BY DEF Reserve, Owned, OtherRow, SetRow, IInv, TypeOK, ArchiveIsUnderWay, Codex, Archives
<1> QED BY <1>1, <1>2, <1>3, <1>4, <1>5, <1>6, <1>7, Untouched DEF Reserve, IInv, Codex,
    Archives

(* A reservation that was never sent made no thread. *)
LEMMA ReserveOnlyPreserves ==
  ASSUME IInv, NEW o \in Starts, ReserveOnly(o)
  PROVE  IInv'
<1>1. TypeOK'
  BY RequestMoves, BudgetTyped DEF ReserveOnly, IInv, TypeOK, Codex, Archives,
      RequestTyped, SetRow
<1>2. StepMatchesRow'
  BY RequestMoves DEF ReserveOnly, Owned, OtherRow, SetRow, IInv, TypeOK, StepMatchesRow,
      Materializing, Codex, Archives
<1>3. PersistedHasSession'
  BY DEF ReserveOnly, Owned, OtherRow, SetRow, IInv, TypeOK, PersistedHasSession, Codex,
      Archives
<1>4. ThreadIsTraceable'
  BY DEF ReserveOnly, Owned, OtherRow, SetRow, IInv, TypeOK, ThreadIsTraceable, Codex,
      Archives
<1>5. OneOwner'
  BY DEF ReserveOnly, Owned, OtherRow, SetRow, IInv, TypeOK, OneOwner, Started, Codex,
      Archives
<1> QED BY <1>1, <1>2, <1>3, <1>4, <1>5, Untouched DEF ReserveOnly, IInv, Codex, Archives

(* A rejected request made no thread. *)
LEMMA RejectedPreserves ==
  ASSUME IInv, NEW o \in Starts, Rejected(o)
  PROVE  IInv'
<1>1. TypeOK'
  BY RequestMoves, BudgetTyped DEF Rejected, IInv, TypeOK, Codex, Archives, RequestTyped,
      SetRow
<1>2. StepMatchesRow'
  BY RequestMoves DEF Rejected, SetRow, IInv, TypeOK, StepMatchesRow, Materializing, Codex,
      Archives
<1>3. PersistedHasSession'
  BY DEF Rejected, SetRow, IInv, TypeOK, PersistedHasSession, Codex, Archives
<1>4. SentOnce'
  BY DEF Rejected, SetRow, IInv, TypeOK, SentOnce, Codex, Archives
<1>5. ThreadIsTraceable'
  BY DEF Rejected, SetRow, IInv, TypeOK, ThreadIsTraceable, SentOnce, Codex, Archives
<1>6. OneOwner'
  BY DEF Rejected, SetRow, IInv, TypeOK, OneOwner, Started, StepMatchesRow, Materializing,
      Codex, Archives
<1>7. ArchiveIsUnderWay'
  BY DEF Rejected, SetRow, IInv, TypeOK, ArchiveIsUnderWay, Codex, Archives
<1> QED BY <1>1, <1>2, <1>3, <1>4, <1>5, <1>6, <1>7, Untouched DEF Rejected, IInv, Codex,
    Archives

(* A start without an answer leaves its reservation. *)
LEMMA GivesUpPreserves ==
  ASSUME IInv, NEW o \in Starts, GivesUp(o)
  PROVE  IInv'
<1>1. TypeOK'
  BY RequestMoves, BudgetTyped DEF GivesUp, IInv, TypeOK, Codex, Archives, RequestTyped
<1>2. StepMatchesRow'
  BY RequestMoves DEF GivesUp, IInv, TypeOK, StepMatchesRow, Materializing, Codex, Archives
<1> QED BY <1>1, <1>2, Untouched DEF GivesUp, IInv, Codex, Archives

(* A start with an unreadable answer leaves its reservation. *)
LEMMA UnreadablePreserves ==
  ASSUME IInv, NEW o \in Starts, Unreadable(o)
  PROVE  IInv'
<1>1. TypeOK'
  BY RequestMoves, BudgetTyped DEF Unreadable, IInv, TypeOK, Codex, Archives, RequestTyped
<1>2. StepMatchesRow'
  BY RequestMoves DEF Unreadable, IInv, TypeOK, StepMatchesRow, Materializing, Codex,
      Archives
<1> QED BY <1>1, <1>2, Untouched DEF Unreadable, IInv, Codex, Archives

(* The answer turns the reservation into a created thread. *)
LEMMA ThreadReturnedPreserves ==
  ASSUME IInv, NEW o \in Starts, ThreadReturned(o)
  PROVE  IInv'
<1>1. TypeOK'
  BY RequestMoves, BudgetTyped DEF ThreadReturned, IInv, TypeOK, Codex, Archives,
      RequestTyped, SetRow
<1>2. StepMatchesRow'
  BY RequestMoves DEF ThreadReturned, SetRow, IInv, TypeOK, StepMatchesRow, Materializing,
      Codex, Archives
<1>3. PersistedHasSession'
  BY DEF ThreadReturned, SetRow, IInv, TypeOK, PersistedHasSession, Codex, Archives
<1>4. ThreadIsTraceable'
  BY DEF ThreadReturned, SetRow, IInv, TypeOK, ThreadIsTraceable, Codex, Archives
<1>5. OneOwner'
  BY DEF ThreadReturned, SetRow, IInv, TypeOK, OneOwner, Started, StepMatchesRow,
      Materializing, Codex, Archives
<1> QED BY <1>1, <1>2, <1>3, <1>4, <1>5, Untouched DEF ThreadReturned, IInv, Codex, Archives

(* A retry finds its row and sends nothing. *)
LEMMA ResumePreserves ==
  ASSUME IInv, NEW o \in Starts, Resume(o)
  PROVE  IInv'
<1>1. TypeOK'
  BY RequestMoves, BudgetTyped DEF Resume, IInv, TypeOK, Codex, Archives, RequestTyped,
      SetRow
<1>2. StepMatchesRow'
  BY RequestMoves DEF Resume, SetRow, IInv, TypeOK, StepMatchesRow, Materializing, Codex,
      Archives
<1>3. PersistedHasSession'
  BY DEF Resume, SetRow, IInv, TypeOK, PersistedHasSession, Codex, Archives
<1>4. ThreadIsTraceable'
  BY DEF Resume, SetRow, IInv, TypeOK, ThreadIsTraceable, PersistedHasSession, Codex,
      Archives
<1>5. OneOwner'
  BY DEF Resume, SetRow, IInv, TypeOK, OneOwner, Started, Codex, Archives
<1> QED BY <1>1, <1>2, <1>3, <1>4, <1>5, Untouched DEF Resume, IInv, Codex, Archives

(* A retry that finds the thread records it. *)
LEMMA FindPreserves ==
  ASSUME IInv, NEW o \in Starts, Find(o)
  PROVE  IInv'
<1>1. TypeOK'
  BY RequestMoves DEF Find, IInv, TypeOK, Codex, Archives, RequestTyped, SetRow
<1>2. StepMatchesRow'
  BY RequestMoves DEF Find, SetRow, IInv, TypeOK, StepMatchesRow, Materializing, Codex,
      Archives
<1>3. PersistedHasSession'
  BY DEF Find, SetRow, IInv, TypeOK, PersistedHasSession, Codex, Archives
<1>4. ThreadIsTraceable'
  BY DEF Find, SetRow, IInv, TypeOK, ThreadIsTraceable, Codex, Archives
<1>5. OneOwner'
  BY DEF Find, SetRow, IInv, TypeOK, OneOwner, Started, StepMatchesRow, Materializing,
      Codex, Archives
<1> QED BY <1>1, <1>2, <1>3, <1>4, <1>5, Untouched DEF Find, IInv, Codex, Archives

(* Reading the thread changes nothing but the step. *)
LEMMA ReadThreadPreserves ==
  ASSUME IInv, NEW o \in Starts, ReadThread(o)
  PROVE  IInv'
<1>1. TypeOK'
  BY RequestMoves DEF ReadThread, IInv, TypeOK, Codex, Archives, RequestTyped
<1>2. StepMatchesRow'
  BY RequestMoves DEF ReadThread, IInv, TypeOK, StepMatchesRow, Materializing, Codex,
      Archives
<1> QED BY <1>1, <1>2, Untouched DEF ReadThread, IInv, Codex, Archives

(* So a goal makes no thread known or unknown, and takes none out of the archive. *)
LEMMA GoalTouchesNothing ==
  ASSUME IInv, NEW o \in Starts, thread[o].at \in {"loaded", "stored"},
         SetGoal(o) \/ ClearGoal(o), UNCHANGED sess
  PROVE  MadeIsKnown' /\ ArchivedIsArchived'
<1>1. /\ thread'[o].made = thread[o].made /\ thread'[o].at = "stored"
      /\ \A p \in Starts \ {o} : thread'[p] = thread[p]
  BY GoalKeeps DEF IInv
<1>2. MadeIsKnown /\ ArchivedIsArchived
  BY DEF IInv
<1>3. MadeIsKnown'
  <2>1. thread[o].made # 0
    BY <1>2 DEF MadeIsKnown
  <2> QED BY <1>1, <1>2, <2>1 DEF MadeIsKnown
<1>4. ArchivedIsArchived'
  <2>1. sess[o] # "archived"
    BY <1>2 DEF ArchivedIsArchived
  <2> QED BY <1>1, <1>2, <2>1 DEF ArchivedIsArchived
<1> QED BY <1>3, <1>4

(* Writing the thread to disk makes no thread and archives none. *)
LEMMA MaterializePreserves ==
  ASSUME IInv, NEW o \in Starts, Materialize(o)
  PROVE  IInv'
<1>1. TypeOK'
  BY RequestMoves, GoalKeeps DEF Materialize, IInv, TypeOK, Codex, Archives, RequestTyped,
      Threads
<1>2. StepMatchesRow'
  BY RequestMoves DEF Materialize, IInv, TypeOK, StepMatchesRow, Materializing, Codex,
      Archives
<1>3. MadeIsKnown'
  BY GoalTouchesNothing DEF Materialize
<1>4. SentOnce' /\ ThreadIsTraceable'
  <2>1. \A p \in Starts : thread'[p].made = thread[p].made
    BY GoalKeeps DEF Materialize, IInv
  <2>2. UNCHANGED <<wire, row, sess>>
    BY DEF Materialize
  <2> QED BY <2>1, <2>2 DEF IInv, SentOnce, ThreadIsTraceable
<1>5. ArchiveIsUnderWay'
  BY GoalKeeps DEF Materialize, IInv, TypeOK, ArchiveIsUnderWay, Materializing, Codex,
      Archives
<1>6. ArchivedIsArchived'
  BY GoalTouchesNothing DEF Materialize
<1> QED BY <1>1, <1>2, <1>3, <1>4, <1>5, <1>6, Untouched DEF Materialize, IInv,
    Codex, Archives

(* A request whose answer is lost may have been carried out. *)
LEMMA MaterializeFailsPreserves ==
  ASSUME IInv, NEW o \in Starts, MaterializeFails(o)
  PROVE  IInv'
<1>1. TypeOK'
  BY RequestMoves, BudgetTyped, GoalKeeps DEF MaterializeFails, IInv, TypeOK, Codex,
      Archives, RequestTyped, Threads
<1>2. StepMatchesRow'
  BY RequestMoves DEF MaterializeFails, IInv, TypeOK, StepMatchesRow, Materializing, Codex,
      Archives
<1>3. MadeIsKnown'
  BY GoalTouchesNothing, Untouched DEF MaterializeFails, IInv
<1>4. SentOnce' /\ ThreadIsTraceable'
  <2>1. \A p \in Starts : thread'[p].made = thread[p].made
    BY GoalKeeps DEF MaterializeFails, IInv
  <2>2. UNCHANGED <<wire, row, sess>>
    BY DEF MaterializeFails
  <2> QED BY <2>1, <2>2 DEF IInv, SentOnce, ThreadIsTraceable
<1>5. ArchiveIsUnderWay'
  BY GoalKeeps DEF MaterializeFails, IInv, TypeOK, ArchiveIsUnderWay, Materializing, Codex,
      Archives
<1>6. ArchivedIsArchived'
  BY GoalTouchesNothing, Untouched DEF MaterializeFails, IInv
<1> QED BY <1>1, <1>2, <1>3, <1>4, <1>5, <1>6, Untouched DEF MaterializeFails, IInv,
    Codex, Archives

(* The session is stored before its row goes. *)
LEMMA PersistPreserves ==
  ASSUME IInv, NEW o \in Starts, Persist(o)
  PROVE  IInv'
<1> DEFINE Stored == IF sess[o] = "none" THEN "active" ELSE sess[o]
<1>1. /\ \/ row' = [row EXCEPT ![o] = "none"] /\ sess' = [sess EXCEPT ![o] = Stored]
         \/ row' = [row EXCEPT ![o] = "persisted"] /\ sess' = [sess EXCEPT ![o] = Stored]
         \/ row' = row /\ sess' = [sess EXCEPT ![o] = Stored]
         \/ row' = row /\ sess' = sess
      /\ \E how \in {"succeeded", "incomplete"} : Answered(o, how)
      /\ UNCHANGED budget \/ Spend("faults")
  BY DEF Persist, SetRow, IInv, TypeOK
<1>2. RequestTyped /\ req' = [req EXCEPT ![o] = "idle"]
  BY <1>1, RequestMoves DEF IInv
<1>3. Stored \in {"active", "stale", "recovery", "archived"} /\ (sess[o] # "none" => Stored = sess[o])
  BY DEF IInv, TypeOK
<1>4. row[o] = "thread_created"
  BY DEF Persist, Verified, IInv, StepMatchesRow, Materializing
<1> HIDE DEF Stored
<1>5. TypeOK'
  <2>1. row' \in [Starts -> {"none", "reserved", "thread_created", "persisted", "failed"}]
    BY <1>1 DEF IInv, TypeOK
  <2>2. sess' \in [Starts -> {"none", "active", "stale", "recovery", "archived"}]
    BY <1>1, <1>3 DEF IInv, TypeOK
  <2>3. budget' \in [faults : Nat, crashes : Nat]
    BY <1>1, BudgetTyped DEF IInv
  <2> QED BY <1>2, <2>1, <2>2, <2>3 DEF Persist, IInv, TypeOK, Codex, Archives, RequestTyped
<1>6. StepMatchesRow'
  BY <1>1, <1>2 DEF IInv, TypeOK, StepMatchesRow, Materializing
<1>7. PersistedHasSession'
  BY <1>1, <1>3 DEF IInv, TypeOK, PersistedHasSession
<1>8. ThreadIsTraceable'
  BY <1>1, <1>3 DEF Persist, IInv, TypeOK, ThreadIsTraceable, Codex
<1>9. OneOwner'
  <2>1. Started(o) /\ (\A p \in Starts \ {o} : ~Started(p)) /\ native \notin {"managed", "recovery"}
    BY <1>4 DEF IInv, OneOwner, Started
  <2>2. \A p \in Starts \ {o} : row'[p] = row[p] /\ sess'[p] = sess[p]
    BY <1>1 DEF IInv, TypeOK
  <2>3. UNCHANGED native
    BY DEF Persist
  <2> QED BY <2>1, <2>2, <2>3 DEF OneOwner, Started
<1>10. ArchiveIsFresh'
  BY <1>1, <1>3 DEF Persist, IInv, TypeOK, ArchiveIsFresh, Archives
<1>11. ArchivedIsArchived'
  BY <1>1, <1>3 DEF Persist, IInv, TypeOK, ArchivedIsArchived, Codex
<1> QED BY <1>5, <1>6, <1>7, <1>8, <1>9, <1>10, <1>11, Untouched DEF Persist, IInv, Codex, Archives

(* An archive begins from an active session. *)
LEMMA ArchiveBeginPreserves ==
  ASSUME IInv, NEW o \in Starts, ArchiveBegin(o)
  PROVE  IInv'
<1>1. TypeOK'
  BY DEF ArchiveBegin, IInv, TypeOK, Codex, Archives
<1>2. ArchiveIsFresh'
  BY DEF ArchiveBegin, IInv, TypeOK, ArchiveIsFresh, Codex, Archives
<1>3. ArchiveIsUnderWay'
  BY DEF ArchiveBegin, IInv, TypeOK, ArchiveIsUnderWay, Codex, Archives
<1> QED BY <1>1, <1>2, <1>3, Untouched DEF ArchiveBegin, IInv, Codex, Archives

(* An archive is sent over a connection. *)
LEMMA ArchiveSendPreserves ==
  ASSUME IInv, NEW o \in Starts, ArchiveSend(o)
  PROVE  IInv'
<1>1. TypeOK'
  BY DEF ArchiveSend, IInv, TypeOK, Codex, Archives
<1>2. SentOnce'
  <2>1. thread' = thread /\ \A p : <<p, "start">> \in wire' <=> <<p, "start">> \in wire
    BY DEF ArchiveSend
  <2> QED BY <2>1 DEF IInv, SentOnce
<1>3. ThreadIsTraceable'
  BY DEF ArchiveSend, IInv, TypeOK, ThreadIsTraceable, Codex, Archives
<1>4. ArchiveIsFresh'
  BY DEF ArchiveSend, IInv, TypeOK, ArchiveIsFresh, Codex, Archives
<1>5. ArchiveIsUnderWay'
  <2>1. \A p \in Starts \ {o} : arch'[p] = arch[p]
    <3>1. PICK at \in {"sent", "idle"} : arch' = [arch EXCEPT ![o].at = at]
      BY DEF ArchiveSend
    <3>2. \A p \in Starts \ {o} : [arch EXCEPT ![o].at = at][p] = arch[p]
      BY ArchiveMoves DEF IInv
    <3> QED BY <3>1, <3>2
  <2>2. arch'[o].at = "sent" => <<o, "archive">> \in wire'
    <3>1. CASE wire' = wire \cup {<<o, "archive">>}
      BY <3>1
    <3>2. CASE arch' = [arch EXCEPT ![o].at = "idle"]
      BY <3>2 DEF IInv, TypeOK
    <3> QED BY <3>1, <3>2 DEF ArchiveSend
  <2>3. UNCHANGED <<thread, link>> /\ wire \subseteq wire'
    BY DEF ArchiveSend
  <2> QED BY <2>1, <2>2, <2>3 DEF IInv, ArchiveIsUnderWay
<1> QED BY <1>1, <1>2, <1>3, <1>4, <1>5, Untouched DEF ArchiveSend, IInv, Codex, Archives

(* An answered archive was carried out. *)
LEMMA ArchiveDonePreserves ==
  ASSUME IInv, NEW o \in Starts, ArchiveDone(o)
  PROVE  IInv'
<1>1. TypeOK'
  <2>1. arch' \in [Starts -> ArchiveStates]
    BY ArchiveMoves DEF ArchiveDone, IInv
  <2>2. sess' \in [Starts -> {"none", "active", "stale", "recovery", "archived"}] /\ uncertain' \subseteq Starts
    BY DEF ArchiveDone, IInv, TypeOK
  <2> QED BY <2>1, <2>2 DEF ArchiveDone, IInv, TypeOK, Codex, ArchiveStates
<1>2. PersistedHasSession'
  BY DEF ArchiveDone, IInv, TypeOK, PersistedHasSession, Codex, Archives
<1>3. ThreadIsTraceable'
  BY DEF ArchiveDone, IInv, TypeOK, ThreadIsTraceable, Codex, Archives
<1>4. OneOwner'
  BY DEF ArchiveDone, IInv, TypeOK, OneOwner, Started, ArchiveIsFresh, Codex, Archives
<1>5. ArchiveIsFresh'
  BY DEF ArchiveDone, IInv, TypeOK, ArchiveIsFresh, Codex, Archives
<1>6. ArchiveIsUnderWay'
  BY DEF ArchiveDone, IInv, TypeOK, ArchiveIsUnderWay, Codex, Archives
<1>7. ArchivedIsArchived'
  BY DEF ArchiveDone, IInv, TypeOK, ArchivedIsArchived, ArchiveIsUnderWay, Codex, Archives
<1> QED BY <1>1, <1>2, <1>3, <1>4, <1>5, <1>6, <1>7, Untouched DEF ArchiveDone, IInv,
    Codex, Archives

(* An archive without an answer is not shown as archived. *)
LEMMA ArchiveUnknownPreserves ==
  ASSUME IInv, NEW o \in Starts, ArchiveUnknown(o)
  PROVE  IInv'
<1>1. TypeOK'
  BY BudgetTyped DEF ArchiveUnknown, IInv, TypeOK, Codex, Archives
<1>2. PersistedHasSession'
  BY DEF ArchiveUnknown, IInv, TypeOK, PersistedHasSession, Codex, Archives
<1>3. ThreadIsTraceable'
  BY DEF ArchiveUnknown, IInv, TypeOK, ThreadIsTraceable, Codex, Archives
<1>4. OneOwner'
  BY DEF ArchiveUnknown, IInv, TypeOK, OneOwner, Started, ArchiveIsFresh, Codex, Archives
<1>5. ArchiveIsFresh'
  BY DEF ArchiveUnknown, IInv, TypeOK, ArchiveIsFresh, Codex, Archives
<1>6. ArchiveIsUnderWay'
  BY DEF ArchiveUnknown, IInv, TypeOK, ArchiveIsUnderWay, Codex, Archives
<1>7. ArchivedIsArchived'
  BY DEF ArchiveUnknown, IInv, TypeOK, ArchivedIsArchived, Codex, Archives
<1> QED BY <1>1, <1>2, <1>3, <1>4, <1>5, <1>6, <1>7, Untouched DEF ArchiveUnknown, IInv,
    Codex, Archives

(* A rejected archive changes no session. *)
LEMMA ArchiveRejectedPreserves ==
  ASSUME IInv, NEW o \in Starts, ArchiveRejected(o)
  PROVE  IInv'
<1>1. TypeOK'
  BY BudgetTyped DEF ArchiveRejected, IInv, TypeOK, Codex, Archives
<1>2. SentOnce'
  BY DEF ArchiveRejected, IInv, TypeOK, SentOnce, Codex, Archives
<1>3. ThreadIsTraceable'
  BY DEF ArchiveRejected, IInv, TypeOK, ThreadIsTraceable, Codex, Archives
<1>4. ArchiveIsFresh'
  BY DEF ArchiveRejected, IInv, TypeOK, ArchiveIsFresh, Codex, Archives
<1>5. ArchiveIsUnderWay'
  BY DEF ArchiveRejected, IInv, TypeOK, ArchiveIsUnderWay, Codex, Archives
<1> QED BY <1>1, <1>2, <1>3, <1>4, <1>5, Untouched DEF ArchiveRejected, IInv, Codex,
    Archives

(* A notification spoils the archive that read the session before it. *)
LEMMA NoticePreserves ==
  ASSUME IInv, NEW o \in Starts, Notice(o)
  PROVE  IInv'
<1>1. arch' = Touched(o) \/ arch' = arch
  BY DEF Notice
<1>2. TypeOK'
  <2>1. arch' \in [Starts -> ArchiveStates]
    <3>1. TypeOK
      BY DEF IInv
    <3>2. arch \in [Starts -> ArchiveStates] /\ Touched(o) \in [Starts -> ArchiveStates]
      BY <3>1, ArchiveMoves
    <3> QED BY <1>1, <3>2
  <2>2. sess' \in [Starts -> {"none", "active", "stale", "recovery", "archived"}] /\ notice' \subseteq Starts
    BY DEF Notice, IInv, TypeOK
  <2> QED BY <2>1, <2>2 DEF Notice, IInv, TypeOK, ArchiveStates
<1>3. PersistedHasSession'
  BY DEF Notice, Touched, IInv, TypeOK, PersistedHasSession, Codex, Archives
<1>4. ThreadIsTraceable'
  BY DEF Notice, Touched, IInv, TypeOK, ThreadIsTraceable, Codex, Archives
<1>5. OneOwner'
  BY DEF Notice, Touched, IInv, TypeOK, OneOwner, Started, Codex, Archives
<1>6. ArchiveIsFresh'
  BY DEF Notice, Touched, IInv, TypeOK, ArchiveIsFresh, Codex, Archives
<1>7. ArchiveIsUnderWay'
  <2>1. \A p \in Starts : arch'[p].at = arch[p].at
    <3>1. \A p \in Starts : Touched(o)[p].at = arch[p].at
      BY DEF Touched, IInv, TypeOK
    <3> QED BY <1>1, <3>1
  <2>2. UNCHANGED <<wire, thread, link>>
    BY DEF Notice
  <2> QED BY <2>1, <2>2 DEF IInv, ArchiveIsUnderWay
<1>8. ArchivedIsArchived'
  BY DEF Notice, Touched, IInv, TypeOK, ArchivedIsArchived, Codex, Archives
<1> QED BY <1>2, <1>3, <1>4, <1>5, <1>6, <1>7, <1>8, Untouched DEF Notice, IInv, Codex,
    Archives

(* Codex makes the one thread of a start. *)
LEMMA CodexStartsPreserves ==
  ASSUME IInv, NEW o \in Starts, CodexStarts(o)
  PROVE  IInv'
<1>1. TypeOK'
  BY DEF CodexStarts, IInv, TypeOK, Codex, Archives, SentOnce
<1>2. MadeIsKnown'
  BY DEF CodexStarts, IInv, TypeOK, MadeIsKnown, Codex, Archives
<1>3. SentOnce'
  <2>1. thread'[o].made = 1 /\ <<o, "start">> \notin wire'
    BY DEF CodexStarts, IInv, TypeOK, SentOnce
  <2>2. \A p \in Starts \ {o} : thread'[p] = thread[p] /\ (<<p, "start">> \in wire' => <<p, "start">> \in wire)
    BY DEF CodexStarts, IInv, TypeOK
  <2>3. \A p \in Starts : thread[p].made \in 0..1 /\ (<<p, "start">> \in wire => thread[p].made = 0)
    BY DEF IInv, SentOnce
  <2>4. \A p \in Starts : thread'[p].made \in 0..1 /\ (<<p, "start">> \in wire' => thread'[p].made = 0)
    <3> TAKE p \in Starts
    <3>1. CASE p = o
      BY <2>1, <3>1
    <3>2. CASE p # o
      BY <2>2, <2>3, <3>2
    <3> QED BY <3>1, <3>2
  <2> QED BY <2>4 DEF SentOnce
<1>4. ThreadIsTraceable'
  BY DEF CodexStarts, IInv, TypeOK, ThreadIsTraceable, Codex, Archives
<1>5. ArchiveIsUnderWay'
  BY DEF CodexStarts, IInv, TypeOK, ArchiveIsUnderWay, SentOnce, MadeIsKnown, Codex,
      Archives
<1>6. ArchivedIsArchived'
  BY DEF CodexStarts, IInv, TypeOK, ArchivedIsArchived, SentOnce, MadeIsKnown, Codex,
      Archives
<1> QED BY <1>1, <1>2, <1>3, <1>4, <1>5, <1>6, Untouched DEF CodexStarts, IInv, Codex,
    Archives

(* Codex archives a stored thread. *)
LEMMA CodexArchivesPreserves ==
  ASSUME IInv, NEW o \in Starts, CodexArchives(o)
  PROVE  IInv'
<1>1. TypeOK'
  <2>1. thread' \in [Starts -> Threads]
    <3>1. thread \in [Starts -> Threads]
      BY DEF IInv, TypeOK, Threads
    <3>2. [thread[o] EXCEPT !.at = "archived"] \in Threads
      BY <3>1 DEF Threads
    <3>3. thread' = [thread EXCEPT ![o] = [thread[o] EXCEPT !.at = "archived"]]
      BY DEF CodexArchives
    <3> QED BY <3>1, <3>2, <3>3
  <2>2. wire' \subseteq Starts \X {"start", "archive"} /\ notice' \subseteq Starts
    BY DEF CodexArchives, IInv, TypeOK
  <2>3. budget' \in [faults : Nat, crashes : Nat]
    BY BudgetTyped DEF CodexArchives, IInv
  <2> QED BY <2>1, <2>2, <2>3 DEF CodexArchives, IInv, TypeOK, Archives, Threads
<1>2. MadeIsKnown'
  BY DEF CodexArchives, IInv, TypeOK, MadeIsKnown, Codex, Archives
<1>3. SentOnce'
  <2>1. \A p \in Starts : thread'[p].made = thread[p].made
    BY DEF CodexArchives, IInv, TypeOK
  <2>2. wire' \subseteq wire
    BY DEF CodexArchives
  <2> QED BY <2>1, <2>2 DEF IInv, SentOnce
<1>4. ThreadIsTraceable'
  BY DEF CodexArchives, IInv, TypeOK, ThreadIsTraceable, Codex, Archives
<1>5. ArchiveIsUnderWay'
  BY DEF CodexArchives, IInv, TypeOK, ArchiveIsUnderWay, Codex, Archives
<1>6. ArchivedIsArchived'
  BY DEF CodexArchives, IInv, TypeOK, ArchivedIsArchived, Codex, Archives
<1> QED BY <1>1, <1>2, <1>3, <1>4, <1>5, <1>6, Untouched DEF CodexArchives, IInv, Codex,
    Archives

(* Reading the native thread takes no alias. *)
LEMMA AdoptPreserves ==
  ASSUME IInv, Adopt
  PROVE  IInv'
<1>1. TypeOK'
  BY DEF Adopt, IInv, TypeOK, Codex, Archives
<1>2. OneOwner'
  BY DEF Adopt, IInv, TypeOK, OneOwner, Started, Codex, Archives
<1> QED BY <1>1, <1>2, Untouched DEF Adopt, IInv, Codex, Archives

(* A queued adoption has no alias yet. *)
LEMMA AdoptReadPreserves ==
  ASSUME IInv, AdoptRead
  PROVE  IInv'
<1>1. TypeOK'
  BY DEF AdoptRead, IInv, TypeOK, Codex, Archives
<1>2. OneOwner'
  BY DEF AdoptRead, IInv, TypeOK, OneOwner, Started, Codex, Archives
<1> QED BY <1>1, <1>2, Untouched DEF AdoptRead, IInv, Codex, Archives

(* An adoption commits only while no session and no row has the alias. *)
LEMMA AdoptCommitPreserves ==
  ASSUME IInv, AdoptCommit
  PROVE  IInv'
<1>1. TypeOK'
  BY BudgetTyped DEF AdoptCommit, IInv, TypeOK, Codex, Archives
<1>2. OneOwner'
  BY DEF AdoptCommit, Owned, IInv, TypeOK, OneOwner, Started, Codex, Archives
<1> QED BY <1>1, <1>2, Untouched DEF AdoptCommit, IInv, Codex, Archives

(* The end of an adoption frees the alias. *)
LEMMA UnmanagePreserves ==
  ASSUME IInv, Unmanage
  PROVE  IInv'
<1>1. TypeOK'
  BY DEF Unmanage, IInv, TypeOK, Codex, Archives
<1>2. OneOwner'
  BY DEF Unmanage, IInv, TypeOK, OneOwner, Started, Codex, Archives
<1> QED BY <1>1, <1>2, Untouched DEF Unmanage, IInv, Codex, Archives

(* A restart of Codex forgets requests and makes no thread. *)
LEMMA CodexRestartsPreserves ==
  ASSUME IInv, CodexRestarts
  PROVE  IInv'
<1>1. \A p \in Starts :
        /\ thread'[p] \in Threads /\ thread'[p].made = thread[p].made
        /\ thread'[p].at = IF thread[p].at = "loaded" THEN "gone" ELSE thread[p].at
  <2>1. \A p \in Starts : thread[p] \in Threads
    BY DEF IInv, TypeOK, Threads
  <2>2. ASSUME NEW t \in Threads, NEW at \in {"gone", t.at}
        PROVE  /\ [t EXCEPT !.at = at] \in Threads
               /\ [t EXCEPT !.at = at].made = t.made /\ [t EXCEPT !.at = at].at = at
    BY <2>2 DEF Threads
  <2>3. \A p \in Starts :
          thread'[p] = [thread[p] EXCEPT !.at = IF thread[p].at = "loaded" THEN "gone" ELSE thread[p].at]
    BY DEF CodexRestarts
  <2>4. SUFFICES ASSUME NEW p \in Starts
                 PROVE  /\ thread'[p] \in Threads /\ thread'[p].made = thread[p].made
                        /\ thread'[p].at = IF thread[p].at = "loaded" THEN "gone" ELSE thread[p].at
    OBVIOUS
  <2>5. CASE thread[p].at = "loaded"
    BY <2>1, <2>2, <2>3, <2>5
  <2>6. CASE thread[p].at # "loaded"
    BY <2>1, <2>2, <2>3, <2>6
  <2> QED BY <2>5, <2>6
<1>2. TypeOK'
  <2>1. thread' \in [Starts -> Threads]
    BY <1>1 DEF CodexRestarts
  <2> QED BY <2>1, BudgetTyped DEF CodexRestarts, IInv, TypeOK, Archives, Threads
<1>3. MadeIsKnown'
  BY <1>1 DEF IInv, MadeIsKnown
<1>4. SentOnce'
  <2>1. wire' = {}
    BY DEF CodexRestarts
  <2> QED BY <1>1, <2>1 DEF IInv, SentOnce
<1>5. ThreadIsTraceable'
  <2>1. wire' = {} /\ UNCHANGED <<row, sess>>
    BY DEF CodexRestarts
  <2> QED BY <1>1, <2>1 DEF IInv, ThreadIsTraceable
<1>6. ArchiveIsUnderWay'
  BY DEF CodexRestarts, IInv, TypeOK, ArchiveIsUnderWay, Codex, Archives
<1>7. ArchivedIsArchived'
  BY DEF CodexRestarts, IInv, TypeOK, ArchivedIsArchived, Codex, Archives
<1> QED BY <1>1, <1>2, <1>3, <1>4, <1>5, <1>6, <1>7, Untouched DEF CodexRestarts, IInv, Codex,
    Archives

(* A lost connection changes no table. *)
LEMMA DisconnectedPreserves ==
  ASSUME IInv, Disconnected
  PROVE  IInv'
<1>1. TypeOK'
  BY BudgetTyped DEF Disconnected, IInv, TypeOK, Codex, Archives
<1>2. ArchiveIsUnderWay'
  BY DEF Disconnected, IInv, TypeOK, ArchiveIsUnderWay, Codex, Archives
<1> QED BY <1>1, <1>2, Untouched DEF Disconnected, IInv, Codex, Archives

(* A stop of HostDeck forgets what was in progress. *)
LEMMA StoppedPreserves ==
  ASSUME IInv, Stopped
  PROVE  IInv'
<1>1. TypeOK'
  BY BudgetTyped DEF Stopped, IInv, TypeOK, Codex, Archives
<1>2. StepMatchesRow'
  BY DEF Stopped, IInv, TypeOK, StepMatchesRow, Materializing, Codex, Archives
<1>3. OneOwner'
  BY DEF Stopped, IInv, TypeOK, OneOwner, Started, Codex, Archives
<1>4. ArchiveIsFresh'
  BY DEF Stopped, IInv, TypeOK, ArchiveIsFresh, Codex, Archives
<1>5. ArchiveIsUnderWay'
  BY DEF Stopped, IInv, TypeOK, ArchiveIsUnderWay, Codex, Archives
<1> QED BY <1>1, <1>2, <1>3, <1>4, <1>5, Untouched DEF Stopped, IInv, Codex, Archives

(* A start of HostDeck closes the open trails. *)
LEMMA RestartedPreserves ==
  ASSUME IInv, Restarted
  PROVE  IInv'
<1>1. TypeOK'
  BY DEF Restarted, IInv, TypeOK, Codex, Archives
<1>2. ArchiveIsUnderWay'
  BY DEF Restarted, IInv, TypeOK, ArchiveIsUnderWay, Codex, Archives
<1> QED BY <1>1, <1>2, Untouched DEF Restarted, IInv, Codex, Archives

(* The reconciliation writes what Codex says. *)
LEMMA ReconnectedPreserves ==
  ASSUME IInv, Reconnected
  PROVE  IInv'
<1>1. \A p \in Starts :
        /\ sess'[p] \in {"none", "active", "stale", "recovery", "archived"}
        /\ sess'[p] = "none" <=> sess[p] = "none"
        /\ sess[p] \in {"archived", "recovery"} => sess'[p] = sess[p]
        /\ sess'[p] = "archived" => sess[p] = "archived" \/ thread[p].at = "archived"
  <2> TAKE p \in Starts
  <2>1. sess'[p] = ReconciledAs(p)
    BY DEF Reconnected
  <2>2. sess[p] \in {"none", "active", "stale", "recovery", "archived"}
    BY DEF IInv, TypeOK
  <2> QED BY <2>1, <2>2 DEF ReconciledAs
<1>2. \A p \in Starts :
        /\ arch'[p] \in ArchiveStates /\ arch'[p].at = arch[p].at
        /\ arch'[p].same => arch[p].same /\ sess[p] \in {"none", "archived"}
  <2> TAKE p \in Starts
  <2>1. arch'[p] = [arch[p] EXCEPT !.same = @ /\ sess[p] \in {"none", "archived"}]
    BY DEF Reconnected
  <2>2. arch[p] \in ArchiveStates
    BY DEF IInv, TypeOK, ArchiveStates
  <2> QED BY <2>1, <2>2 DEF ArchiveStates
<1>3. TypeOK'
  <2>1. arch' \in [Starts -> ArchiveStates]
    BY <1>2 DEF Reconnected
  <2>2. sess' \in [Starts -> {"none", "active", "stale", "recovery", "archived"}]
    BY <1>1 DEF Reconnected
  <2> QED BY <2>1, <2>2 DEF Reconnected, IInv, TypeOK, Codex, ArchiveStates
<1>4. PersistedHasSession'
  BY <1>1 DEF Reconnected, IInv, PersistedHasSession
<1>5. ThreadIsTraceable'
  BY <1>1 DEF Reconnected, IInv, ThreadIsTraceable, Codex
<1>6. OneOwner'
  <2>1. \A p \in Starts : Started(p)' <=> Started(p)
    BY <1>1 DEF Reconnected, Started
  <2>2. UNCHANGED native
    BY DEF Reconnected
  <2> QED BY <2>1, <2>2 DEF IInv, OneOwner
<1>7. ArchiveIsFresh'
  BY <1>2 DEF IInv, ArchiveIsFresh
<1>8. ArchiveIsUnderWay'
  BY DEF Reconnected, ReconciledAs, IInv, TypeOK, ArchiveIsUnderWay, Codex, Archives
<1>9. ArchivedIsArchived'
  BY DEF Reconnected, ReconciledAs, IInv, TypeOK, ArchivedIsArchived, Codex, Archives
<1> QED BY <1>3, <1>4, <1>5, <1>6, <1>7, <1>8, <1>9, Untouched DEF Reconnected, IInv,
    Codex, Archives

----------------------------------------------------------------------------
(* Every step of the system preserves the invariant. *)
LEMMA StepPreserves == IInv /\ [Next]_vars => IInv'
<1> SUFFICES ASSUME IInv, [Next]_vars PROVE IInv'
  OBVIOUS
<1>1. ASSUME NEW o \in Starts, Start(o)
      PROVE  IInv'
  BY <1>1, ArrivePreserves, TrailDroppedPreserves, RefuseEarlyPreserves, RefuseNamePreserves,
     ReservePreserves, ReserveOnlyPreserves, RejectedPreserves, GivesUpPreserves,
     UnreadablePreserves, ThreadReturnedPreserves, ResumePreserves, FindPreserves,
     ReadThreadPreserves, MaterializePreserves, MaterializeFailsPreserves, PersistPreserves
     DEF Start
<1>2. CASE Adoption
  BY <1>2, AdoptPreserves, AdoptReadPreserves, AdoptCommitPreserves, UnmanagePreserves
     DEF Adoption
<1>3. ASSUME NEW o \in Starts, Archive(o)
      PROVE  IInv'
  BY <1>3, ArchiveBeginPreserves, ArchiveSendPreserves, ArchiveDonePreserves,
     ArchiveUnknownPreserves, ArchiveRejectedPreserves, NoticePreserves
     DEF Archive
<1>4. CASE Surroundings
  BY <1>4, CodexRestartsPreserves, DisconnectedPreserves, StoppedPreserves,
     RestartedPreserves, ReconnectedPreserves, CodexStartsPreserves, CodexArchivesPreserves
     DEF Surroundings
<1>5. CASE UNCHANGED vars
  BY <1>5, Untouched DEF IInv, TypeOK, vars
<1> QED BY <1>1, <1>2, <1>3, <1>4, <1>5 DEF Next

(* At first nothing is started, nothing is on its way. *)
LEMMA InitEstablishes == Init => IInv
<1> SUFFICES ASSUME Init PROVE IInv
  OBVIOUS
<1>1. TypeOK
  BY ThreadAssumption DEF Init, TypeOK, NoThread
<1>2. /\ StepMatchesRow /\ PersistedHasSession /\ MadeIsKnown /\ SentOnce
      /\ ThreadIsTraceable /\ OneOwner /\ ArchivedIsArchived
  BY DEF Init, NoThread, StepMatchesRow, Materializing, PersistedHasSession, MadeIsKnown, SentOnce,
         ThreadIsTraceable, OneOwner, Started, ArchivedIsArchived
<1>3. ArchiveIsFresh /\ ArchiveIsUnderWay
  BY DEF Init, ArchiveIsFresh, ArchiveIsUnderWay
<1> QED BY <1>1, <1>2, <1>3 DEF IInv

(* The invariant of the managed sessions, for any number of starts and any *)
(* number of faults and stops (managed-thread-service, adoption, archive). *)
THEOREM InvariantHolds == Spec => []IInv
  BY InitEstablishes, StepPreserves, PTL DEF Spec

(* The tables, the requests and Codex's threads have the states the code   *)
(* gives them.                                                             *)
THEOREM TypeCorrect == Spec => []TypeOK
<1>1. IInv => TypeOK
  BY DEF IInv
<1> QED BY <1>1, InvariantHolds, PTL

(* However often a start is retried, Codex makes at most one thread for it *)
(* (resumeRecovery never sends a reserved start again).                    *)
THEOREM OneThreadPerStartHolds == Spec => []OneThreadPerStart
<1>1. IInv => OneThreadPerStart
  <2> SUFFICES ASSUME IInv, NEW o \in Starts
               PROVE  thread[o].made + (IF <<o, "start">> \in wire THEN 1 ELSE 0) <= 1
    BY DEF OneThreadPerStart
  <2>1. thread[o].made \in 0..1 /\ (<<o, "start">> \in wire => thread[o].made = 0)
    BY DEF IInv, SentOnce
  <2>2. CASE <<o, "start">> \in wire
    BY <2>1, <2>2
  <2>3. CASE <<o, "start">> \notin wire
    BY <2>1, <2>3
  <2> QED BY <2>2, <2>3
<1> QED BY <1>1, InvariantHolds, PTL

(* A thread made for a start, or still on its way, is never forgotten      *)
(* (recordFailedStart, deleteRecovery).                                    *)
THEOREM ThreadIsTraceableHolds == Spec => []ThreadIsTraceable
<1>1. IInv => ThreadIsTraceable
  BY DEF IInv
<1> QED BY <1>1, InvariantHolds, PTL

(* Sessions, unfinished starts and the adoption never share the alias      *)
(* (assertRecoveryReservationAvailable,                                    *)
(* assertNativeAdoptionRecoveryAvailable).                                 *)
THEOREM AliasHasOneOwnerHolds == Spec => []AliasHasOneOwner
<1>1. IInv => AliasHasOneOwner
  <2> SUFFICES ASSUME IInv PROVE AliasHasOneOwner
    OBVIOUS
  <2> DEFINE started == {o \in Starts : sess[o] # "none" \/ row[o] # "none"}
  <2>1. \A o, p \in started : o = p
    BY DEF IInv, OneOwner, Started
  <2>2. native \in {"managed", "recovery"} => started = {}
    BY DEF IInv, OneOwner, Started
  <2>3. CASE started = {}
    <3>1. Cardinality(started) = 0
      BY <2>3, FS_EmptySet
    <3> HIDE DEF started
    <3>2. Cardinality(started) + (IF native \in {"managed", "recovery"} THEN 1 ELSE 0) <= 1
      BY <3>1
    <3> QED BY <3>2 DEF AliasHasOneOwner, started
  <2>4. CASE started # {}
    <3>1. PICK o \in started : TRUE
      BY <2>4
    <3>2. started = {o}
      BY <2>1, <3>1
    <3> HIDE DEF started
    <3>3. Cardinality(started) = 1
      BY <3>2, FS_Singleton
    <3>4. Cardinality(started) + (IF native \in {"managed", "recovery"} THEN 1 ELSE 0) <= 1
      BY <2>2, <2>4, <3>3
    <3> QED BY <3>4 DEF AliasHasOneOwner, started
  <2> QED BY <2>3, <2>4
<1> QED BY <1>1, InvariantHolds, PTL

(* A session shown as archived is archived in Codex, whatever became of    *)
(* the answers (archive, thread/archived, reconcile).                      *)
THEOREM ArchivedIsArchivedHolds == Spec => []ArchivedIsArchived
<1>1. IInv => ArchivedIsArchived
  BY DEF IInv
<1> QED BY <1>1, InvariantHolds, PTL

=============================================================================
