----------------------------- MODULE ThreadStart -----------------------------
(***************************************************************************)
(* Managed sessions: their start, their archive and their adoption.        *)
(*                                                                         *)
(* A start reserves its alias in a recovery row, asks Codex for a thread,  *)
(* records the thread's id, materialises the thread (a paused goal set and *)
(* cleared writes it to disk), stores the session and drops the row.  Any  *)
(* of the requests may be rejected, time out or be lost with the           *)
(* connection, before or after Codex has carried it out, and either        *)
(* process may stop between two writes.                                    *)
(*                                                                         *)
(* All starts and the adoption of the one native thread ask for the same   *)
(* alias.  A start's operation id stands for its session id too.           *)
(***************************************************************************)
EXTENDS Naturals, FiniteSets

CONSTANTS
  Starts,      \* the operation ids of the requested starts
  MaxFaults,   \* requests and writes that fail (bound)
  MaxCrashes   \* stops of HostDeck and of Codex (bound)

ASSUME ThreadAssumption ==
  IsFiniteSet(Starts) /\ MaxFaults \in Nat /\ MaxCrashes \in Nat

VARIABLES
  row,      \* selected_session_start_recovery: the state of a start's row
  sess,     \* selected_sessions
  native,   \* the adoption of the native thread
  audit,    \* the operation's audit trail, kept by the write gate
  req,      \* where the start in progress is
  reply,    \* its last answer
  arch,     \* the archive in progress: where it is, and whether the session is as it was read
  uncertain,\* uncertainArchives
  thread,   \* Codex: the threads made for a start
  wire,     \* Codex: thread/start and thread/archive requests still to be carried out
  notice,   \* Codex: thread/archived notifications not yet projected
  link,     \* the connection: "off" (HostDeck stopped), "down", "ready"
  budget    \* faults and crashes still allowed

vars == <<row, sess, native, audit, req, reply, arch, uncertain, thread, wire, notice, link, budget>>

NoThread == [made |-> 0, at |-> "none", goal |-> FALSE]

TypeOK ==
  /\ row \in [Starts -> {"none", "reserved", "thread_created", "persisted", "failed"}]
  /\ sess \in [Starts -> {"none", "active", "stale", "recovery", "archived"}]
  /\ native \in {"free", "reading", "queued", "managed", "recovery"}
  /\ audit \in [Starts -> {"none", "open", "closed"}]
  /\ req \in [Starts -> {"idle", "cwd", "sent", "find", "read", "goal", "clear", "verify"}]
  /\ reply \in [Starts -> {"none", "succeeded", "failed", "incomplete", "held"}]
  /\ arch \in [Starts -> [at : {"idle", "verify", "sent"}, same : BOOLEAN]]
  /\ uncertain \subseteq Starts
  /\ thread \in [Starts -> [made : 0..2, at : {"none", "loaded", "stored", "archived", "gone"},
                            goal : BOOLEAN]]
  /\ wire \subseteq Starts \X {"start", "archive"} /\ notice \subseteq Starts
  /\ link \in {"off", "down", "ready"}
  /\ budget \in [faults : Nat, crashes : Nat]

Init ==
  /\ row = [o \in Starts |-> "none"] /\ sess = [o \in Starts |-> "none"]
  /\ native = "free"
  /\ audit = [o \in Starts |-> "none"]
  /\ req = [o \in Starts |-> "idle"] /\ reply = [o \in Starts |-> "none"]
  /\ arch = [o \in Starts |-> [at |-> "idle", same |-> TRUE]] /\ uncertain = {}
  /\ thread = [o \in Starts |-> NoThread] /\ wire = {} /\ notice = {}
  /\ link = "ready"
  /\ budget = [faults |-> MaxFaults, crashes |-> MaxCrashes]

Spend(what) == budget[what] > 0 /\ budget' = [budget EXCEPT ![what] = @ - 1]

(* A request ends without an answer: the connection is gone, or the time.  *)
Unanswered ==
  \/ link = "down" /\ UNCHANGED budget
  \/ link = "ready" /\ Spend("faults")

Codex == <<thread, wire, notice>>
Archives == <<arch, uncertain>>

----------------------------------------------------------------------------
(* The alias.                                                              *)

Owned == native \in {"managed", "recovery"} \/ \E o \in Starts : sess[o] # "none"
OtherRow(o) == {p \in Starts \ {o} : row[p] # "none"}

(* An answer ends the request and its audit trail. *)
Answered(o, how) ==
  /\ reply' = [reply EXCEPT ![o] = how]
  /\ req' = [req EXCEPT ![o] = "idle"]
  /\ audit' = [audit EXCEPT ![o] = "closed"]

Goes(o, place) ==
  /\ req' = [req EXCEPT ![o] = place]
  /\ UNCHANGED <<reply, audit>>

SetRow(o, state) == row' = [row EXCEPT ![o] = state]

----------------------------------------------------------------------------
(* start                                                                   *)

(* The write gate lets an operation id through once: a retry finds the     *)
(* trail, until retention has removed it.                                  *)
Arrive(o) ==
  /\ link = "ready" /\ audit[o] = "none" /\ req[o] = "idle"
  /\ audit' = [audit EXCEPT ![o] = "open"]
  /\ req' = [req EXCEPT ![o] = "cwd"]
  /\ UNCHANGED <<row, sess, native, reply, Archives, Codex, link, budget>>

TrailDropped(o) ==
  /\ audit[o] = "closed" /\ link # "off" /\ Spend("faults")
  /\ audit' = [audit EXCEPT ![o] = "none"]
  /\ UNCHANGED <<row, sess, native, req, reply, Archives, Codex, link>>

(* The directory is gone or the deadline has passed. *)
RefuseEarly(o) ==
  /\ req[o] = "cwd" /\ Spend("faults")
  /\ Answered(o, "failed")
  /\ UNCHANGED <<row, sess, native, Archives, Codex, link>>

(* The alias is a session's already, or another start's row holds it.      *)
RefuseName(o) ==
  /\ req[o] = "cwd" /\ row[o] = "none"
  /\ \/ Owned /\ Answered(o, "failed")
     \/ /\ ~Owned /\ OtherRow(o) # {}
        /\ Answered(o, IF \A p \in OtherRow(o) : row[p] = "failed" THEN "held" ELSE "failed")
  /\ UNCHANGED <<row, sess, native, Archives, Codex, link, budget>>

Reserve(o) ==
  /\ link = "ready"
  /\ req[o] = "cwd" /\ row[o] = "none" /\ ~Owned /\ OtherRow(o) = {}
  /\ SetRow(o, "reserved")
  /\ wire' = wire \cup {<<o, "start">>}
  /\ Goes(o, "sent")
  /\ UNCHANGED <<sess, native, Archives, thread, notice, link, budget>>

(* Nothing was sent: the deadline passed behind the reservation, or the    *)
(* broker had no open connection or no place.                              *)
ReserveOnly(o) ==
  /\ req[o] = "cwd" /\ row[o] = "none" /\ ~Owned /\ OtherRow(o) = {}
  /\ Unanswered
  /\ SetRow(o, "failed")
  /\ Answered(o, "failed")
  /\ UNCHANGED <<sess, native, Archives, Codex, link>>

Rejected(o) ==
  /\ req[o] = "sent" /\ <<o, "start">> \in wire /\ link = "ready" /\ Spend("faults")
  /\ wire' = wire \ {<<o, "start">>}
  /\ SetRow(o, "failed")
  /\ Answered(o, "failed")
  /\ UNCHANGED <<sess, native, Archives, thread, notice, link>>

(* Mutant: a start without an answer is recorded as failed. *)
GivesUpFailed(o) ==
  /\ req[o] = "sent"
  /\ Unanswered
  /\ SetRow(o, "failed")
  /\ Answered(o, "incomplete")
  /\ UNCHANGED <<sess, native, Archives, Codex, link>>

(* No answer in time, or the connection is gone: the reservation stays.    *)
GivesUp(o) ==
  /\ req[o] = "sent"
  /\ Unanswered
  /\ Answered(o, "incomplete")
  /\ UNCHANGED <<row, sess, native, Archives, Codex, link>>

(* An answer that cannot be read counts as not sent towards the user, but  *)
(* not for the row.                                                        *)
Unreadable(o) ==
  /\ req[o] = "sent" /\ <<o, "start">> \notin wire /\ link = "ready" /\ Spend("faults")
  /\ Answered(o, "failed")
  /\ UNCHANGED <<row, sess, native, Archives, Codex, link>>

ThreadReturned(o) ==
  /\ req[o] = "sent" /\ <<o, "start">> \notin wire /\ link = "ready"
  /\ \/ SetRow(o, "thread_created") /\ Goes(o, "read") /\ UNCHANGED budget
     \/ Spend("faults") /\ Answered(o, "incomplete") /\ UNCHANGED row
  /\ UNCHANGED <<sess, native, Archives, Codex, link>>

----------------------------------------------------------------------------
(* resumeRecovery: a start that finds its own row.                         *)

Resume(o) ==
  /\ req[o] = "cwd" /\ row[o] # "none"
  /\ \/ row[o] = "failed" /\ Answered(o, "failed") /\ UNCHANGED <<row, budget>>
     \/ row[o] = "persisted" /\ SetRow(o, "none") /\ Answered(o, "succeeded") /\ UNCHANGED budget
     \/ row[o] = "persisted" /\ Spend("faults") /\ Answered(o, "incomplete") /\ UNCHANGED row
     \/ row[o] = "thread_created" /\ Goes(o, "read") /\ UNCHANGED <<row, budget>>
     \/ row[o] = "reserved" /\ Goes(o, "find") /\ UNCHANGED <<row, budget>>
  /\ UNCHANGED <<sess, native, Archives, Codex, link>>

(* findByOperationId: the stored threads and the loaded ones are searched  *)
(* for the operation's marker.                                             *)
Marked(o) == thread[o].at \in {"loaded", "stored", "archived"}

(* Mutant: no thread found means that none was ever made. *)
FindAndStart(o) ==
  /\ req[o] = "find" /\ link = "ready"
  /\ \/ Marked(o) /\ SetRow(o, "thread_created") /\ Goes(o, "read") /\ UNCHANGED wire
     \/ ~Marked(o) /\ wire' = wire \cup {<<o, "start">>} /\ Goes(o, "sent") /\ UNCHANGED row
  /\ UNCHANGED <<sess, native, Archives, thread, notice, link, budget>>

Find(o) ==
  /\ req[o] = "find" /\ link = "ready"
  /\ \/ Marked(o) /\ SetRow(o, "thread_created") /\ Goes(o, "read")
     \/ ~Marked(o) /\ Answered(o, "incomplete") /\ UNCHANGED row
  /\ UNCHANGED <<sess, native, Archives, Codex, link, budget>>

----------------------------------------------------------------------------
(* ensureMaterialized and persistThreadCreated                             *)

(* A stored thread without the internal goal needs nothing more. *)
ReadThread(o) ==
  /\ req[o] = "read" /\ link = "ready" /\ thread[o].at \in {"loaded", "stored"}
  /\ Goes(o, IF thread[o].goal THEN "clear"
             ELSE IF thread[o].at = "loaded" THEN "goal" ELSE "verify")
  /\ UNCHANGED <<row, sess, native, Archives, Codex, link, budget>>

SetGoal(o) == thread' = [thread EXCEPT ![o].at = "stored", ![o].goal = TRUE]
ClearGoal(o) == thread' = [thread EXCEPT ![o].at = "stored", ![o].goal = FALSE]

(* The request is carried out; whether its answer arrives is another       *)
(* matter (MaterializeFails).                                              *)
Materialize(o) ==
  /\ link = "ready" /\ thread[o].at \in {"loaded", "stored"}
  /\ \/ req[o] = "goal" /\ SetGoal(o) /\ Goes(o, "clear")
     \/ req[o] = "clear" /\ ClearGoal(o) /\ Goes(o, "verify")
  /\ UNCHANGED <<row, sess, native, Archives, wire, notice, link, budget>>

Materializing == {"read", "goal", "clear", "verify"}

MaterializeFails(o) ==
  /\ req[o] \in Materializing \cup {"find"}
  /\ \/ (link = "down" \/ (req[o] # "find" /\ thread[o].at \in {"archived", "gone"})) /\ UNCHANGED budget
     \/ Spend("faults")
  /\ \/ UNCHANGED thread
     \/ req[o] = "goal" /\ thread[o].at = "loaded" /\ SetGoal(o)
     \/ req[o] = "clear" /\ thread[o].at \in {"loaded", "stored"} /\ ClearGoal(o)
  /\ Answered(o, "incomplete")
  /\ UNCHANGED <<row, sess, native, Archives, wire, notice, link>>

Verified(o) ==
  req[o] = "verify" /\ link = "ready" /\ thread[o].at = "stored" /\ ~thread[o].goal

(* The session, the row's last state and its removal are three writes in   *)
(* one go; the first one that fails ends the request.                      *)
Persist(o) ==
  /\ Verified(o)
  /\ \/ /\ SetRow(o, "none") /\ Answered(o, "succeeded") /\ UNCHANGED budget
        /\ sess' = [sess EXCEPT ![o] = IF @ = "none" THEN "active" ELSE @]
     \/ /\ Spend("faults") /\ Answered(o, "incomplete")
        /\ \E written \in 0..2 :
             /\ sess' = [sess EXCEPT ![o] = IF written > 0 /\ @ = "none" THEN "active" ELSE @]
             /\ row' = [row EXCEPT ![o] = IF written = 2 THEN "persisted" ELSE @]
  /\ UNCHANGED <<native, Archives, Codex, link>>

----------------------------------------------------------------------------
(* Adoption and its end, one at a time.                                    *)

Adopt ==
  /\ native = "free" /\ link = "ready" /\ ~Owned
  /\ native' = "reading"
  /\ UNCHANGED <<row, sess, audit, req, reply, Archives, Codex, link, budget>>

AdoptRead ==
  /\ native = "reading"
  /\ native' = IF link = "ready" /\ ~Owned THEN "queued" ELSE "free"
  /\ UNCHANGED <<row, sess, audit, req, reply, Archives, Codex, link, budget>>

(* Mutant: only the sessions are looked at again, not the recovery rows. *)
AdoptCommitBlind ==
  /\ native = "queued"
  /\ \/ native' = (IF Owned THEN "free" ELSE "managed") /\ UNCHANGED budget
     \/ ~Owned /\ native' = "recovery" /\ Spend("faults")
  /\ UNCHANGED <<row, sess, audit, req, reply, Archives, Codex, link>>

(* transitionMembership: the membership in one transaction, then the       *)
(* thread's resume, whose failure leaves the session to be recovered.      *)
AdoptCommit ==
  /\ native = "queued"
  /\ LET taken == Owned \/ \E o \in Starts : row[o] # "none"
     IN  \/ native' = (IF taken THEN "free" ELSE "managed") /\ UNCHANGED budget
         \/ ~taken /\ native' = "recovery" /\ Spend("faults")
  /\ UNCHANGED <<row, sess, audit, req, reply, Archives, Codex, link>>

Unmanage ==
  /\ native \in {"managed", "recovery"} /\ link = "ready"
  /\ native' = "free"
  /\ UNCHANGED <<row, sess, audit, req, reply, Archives, Codex, link, budget>>

----------------------------------------------------------------------------
(* archive                                                                 *)

(* Every write of a session changes its revision. *)
Touched(o) == [arch EXCEPT ![o].same = FALSE]

ArchiveBegin(o) ==
  /\ link = "ready" /\ arch[o].at = "idle" /\ o \notin uncertain /\ sess[o] = "active"
  /\ arch' = [arch EXCEPT ![o] = [at |-> "verify", same |-> TRUE]]
  /\ UNCHANGED <<row, sess, native, audit, req, reply, uncertain, Codex, link, budget>>

(* The thread was read and the session is unchanged: the request goes out. *)
ArchiveSend(o) ==
  /\ arch[o].at = "verify"
  /\ IF link = "ready" /\ arch[o].same /\ thread[o].at = "stored"
     THEN /\ arch' = [arch EXCEPT ![o].at = "sent"]
          /\ wire' = wire \cup {<<o, "archive">>}
     ELSE /\ arch' = [arch EXCEPT ![o].at = "idle"]
          /\ UNCHANGED wire
  /\ UNCHANGED <<row, sess, native, audit, req, reply, uncertain, thread, notice, link, budget>>

(* Codex has archived the thread; a session that changed meanwhile is not  *)
(* overwritten.                                                            *)
ArchiveDone(o) ==
  /\ arch[o].at = "sent" /\ <<o, "archive">> \notin wire /\ link = "ready"
  /\ arch' = [arch EXCEPT ![o].at = "idle"]
  /\ IF arch[o].same
     THEN sess' = [sess EXCEPT ![o] = "archived"] /\ UNCHANGED uncertain
     ELSE uncertain' = uncertain \cup {o} /\ UNCHANGED sess
  /\ UNCHANGED <<row, native, audit, req, reply, Codex, link, budget>>

(* Mutant: an archive without an answer is taken for done. *)
ArchiveAssumed(o) ==
  /\ arch[o].at = "sent"
  /\ Unanswered
  /\ arch' = [arch EXCEPT ![o].at = "idle"]
  /\ sess' = [sess EXCEPT ![o] = IF arch[o].same THEN "archived" ELSE @]
  /\ uncertain' = uncertain \cup {o}
  /\ UNCHANGED <<row, native, audit, req, reply, Codex, link>>

(* The outcome is unknown: remembered, and the session marked if it is     *)
(* still the one that was read.                                            *)
ArchiveUnknown(o) ==
  /\ arch[o].at = "sent"
  /\ Unanswered
  /\ arch' = [arch EXCEPT ![o].at = "idle"]
  /\ sess' = [sess EXCEPT ![o] = IF arch[o].same THEN "recovery" ELSE @]
  /\ uncertain' = uncertain \cup {o}
  /\ UNCHANGED <<row, native, audit, req, reply, Codex, link>>

ArchiveRejected(o) ==
  /\ arch[o].at = "sent" /\ <<o, "archive">> \in wire /\ link = "ready" /\ Spend("faults")
  /\ wire' = wire \ {<<o, "archive">>}
  /\ arch' = [arch EXCEPT ![o].at = "idle"]
  /\ UNCHANGED <<row, sess, native, audit, req, reply, uncertain, thread, notice, link>>

(* The projection of thread/archived: the session awaits reconciliation. *)
Notice(o) ==
  /\ link = "ready" /\ o \in notice
  /\ notice' = notice \ {o}
  /\ IF sess[o] = "active"
     THEN sess' = [sess EXCEPT ![o] = "stale"] /\ arch' = Touched(o)
     ELSE UNCHANGED <<sess, arch>>
  /\ UNCHANGED <<row, native, audit, req, reply, uncertain, thread, wire, link, budget>>

----------------------------------------------------------------------------
(* Codex carries out what it was sent, in its own time.                    *)

CodexStarts(o) ==
  /\ <<o, "start">> \in wire
  /\ wire' = wire \ {<<o, "start">>}
  /\ thread' = [thread EXCEPT ![o] = [made |-> @.made + 1, at |-> "loaded", goal |-> FALSE]]
  /\ UNCHANGED <<row, sess, native, audit, req, reply, Archives, notice, link, budget>>

(* On request, or because another client asked for it. *)
CodexArchives(o) ==
  /\ thread[o].at = "stored"
  /\ (<<o, "archive">> \in wire /\ UNCHANGED budget) \/ Spend("faults")
  /\ wire' = wire \ {<<o, "archive">>}
  /\ thread' = [thread EXCEPT ![o].at = "archived"]
  /\ notice' = IF link = "ready" THEN notice \cup {o} ELSE notice
  /\ UNCHANGED <<row, sess, native, audit, req, reply, Archives, link>>

(* What is only in memory is gone, and so are the requests. *)
CodexRestarts ==
  /\ Spend("crashes")
  /\ thread' = [o \in Starts |->
                 [thread[o] EXCEPT !.at = IF @ = "loaded" THEN "gone" ELSE @]]
  /\ wire' = {} /\ notice' = {}
  /\ link' = IF link = "ready" THEN "down" ELSE link
  /\ UNCHANGED <<row, sess, native, audit, req, reply, Archives>>

----------------------------------------------------------------------------
(* The connection and the process.                                         *)

Disconnected ==
  /\ link = "ready" /\ Spend("crashes")
  /\ link' = "down" /\ notice' = {}
  /\ UNCHANGED <<row, sess, native, audit, req, reply, Archives, thread, wire>>

Stopped ==
  /\ link # "off" /\ Spend("crashes")
  /\ link' = "off" /\ notice' = {}
  /\ req' = [o \in Starts |-> "idle"]
  /\ arch' = [o \in Starts |-> [at |-> "idle", same |-> TRUE]] /\ uncertain' = {}
  /\ native' = IF native \in {"reading", "queued"} THEN "free" ELSE native
  /\ UNCHANGED <<row, sess, audit, reply, thread, wire>>

(* Startup closes the trails the old process left open. *)
Restarted ==
  /\ link = "off" /\ link' = "down"
  /\ audit' = [o \in Starts |-> IF audit[o] = "open" THEN "closed" ELSE audit[o]]
  /\ UNCHANGED <<row, sess, native, req, reply, Archives, Codex, budget>>

(* The gap and the reconciliation of the next connection write every       *)
(* session that is not archived.                                           *)
ReconciledAs(o) ==
  IF sess[o] \in {"none", "archived", "recovery"} THEN sess[o]
  ELSE CASE thread[o].at = "archived" -> "archived"
         [] thread[o].at = "stored" -> "active"
         [] OTHER -> "recovery"

Reconnected ==
  /\ link = "down" /\ \A o \in Starts : req[o] \in {"idle", "cwd"} /\ arch[o].at # "sent"
  /\ link' = "ready"
  /\ sess' = [o \in Starts |-> ReconciledAs(o)]
  /\ arch' = [o \in Starts |-> [arch[o] EXCEPT !.same = @ /\ sess[o] \in {"none", "archived"}]]
  /\ UNCHANGED <<row, native, audit, req, reply, uncertain, Codex, budget>>

----------------------------------------------------------------------------
Start(o) ==
  \/ Arrive(o) \/ TrailDropped(o) \/ RefuseEarly(o) \/ RefuseName(o)
  \/ Reserve(o) \/ ReserveOnly(o)
  \/ Rejected(o) \/ GivesUp(o) \/ Unreadable(o) \/ ThreadReturned(o)
  \/ Resume(o) \/ Find(o) \/ ReadThread(o) \/ Materialize(o) \/ MaterializeFails(o) \/ Persist(o)
Adoption == Adopt \/ AdoptRead \/ AdoptCommit \/ Unmanage
Archive(o) ==
  \/ ArchiveBegin(o) \/ ArchiveSend(o) \/ ArchiveDone(o) \/ ArchiveUnknown(o)
  \/ ArchiveRejected(o) \/ Notice(o)
Surroundings ==
  \/ CodexRestarts \/ Disconnected \/ Stopped \/ Restarted \/ Reconnected
  \/ \E o \in Starts : CodexStarts(o) \/ CodexArchives(o)

Next == Adoption \/ Surroundings \/ \E o \in Starts : Start(o) \/ Archive(o)

Spec == Init /\ [][Next]_vars

----------------------------------------------------------------------------
(* However often a start is retried, over timeouts, lost answers and       *)
(* restarts, Codex makes at most one thread for it (resumeRecovery never   *)
(* sends a reserved start again).                                          *)
OneThreadPerStart ==
  \A o \in Starts :
    thread[o].made + (IF <<o, "start">> \in wire THEN 1 ELSE 0) <= 1

(* A thread that was made for a start, or may still be, is not forgotten:  *)
(* the start's row or its session leads to it, and a row that says failed  *)
(* is right (isKnownNoThreadOutcome, recordFailedStart, deleteRecovery).   *)
ThreadIsTraceable ==
  \A o \in Starts :
    thread[o].made > 0 \/ <<o, "start">> \in wire =>
      \/ row[o] \in {"reserved", "thread_created"}
      \/ sess[o] # "none"

(* The alias belongs to one session or one unfinished start, although two  *)
(* tables keep them and both operations wait between their check and their *)
(* write (assertRecoveryReservationAvailable,                              *)
(* assertSelectedCreateRecoveryCompatibility,                              *)
(* assertNativeAdoptionRecoveryAvailable).                                 *)
AliasHasOneOwner ==
  LET started == {o \in Starts : sess[o] # "none" \/ row[o] # "none"}
  IN  Cardinality(started) + (IF native \in {"managed", "recovery"} THEN 1 ELSE 0) <= 1

(* A session shown as archived is archived in Codex, whatever became of    *)
(* the answers (archive, thread/archived, reconcile).                      *)
ArchivedIsArchived ==
  \A o \in Starts : sess[o] = "archived" => thread[o].at = "archived"

=============================================================================
