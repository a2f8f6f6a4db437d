-------------------------- MODULE ServiceLifecycle --------------------------
(***************************************************************************)
(* The service commands of packages/cli: install, upgrade, start, stop,    *)
(* restart and uninstall, over the files HostDeck owns and the systemd     *)
(* user manager.                                                           *)
(*                                                                         *)
(* A command holds the lifecycle lock from its first step to its reply, so *)
(* one command runs at a time; a command that finds the lock held changes  *)
(* nothing.  Between two steps the command may be killed (the kernel frees *)
(* the lock), the machine may restart, a call may fail, and systemd may    *)
(* restart a service that exits.  What a killed command leaves is found by *)
(* the next one, through the journal.  Release n is newer than release m   *)
(* when n > m.                                                             *)
(***************************************************************************)
EXTENDS Integers, FiniteSets

CONSTANTS
  MaxRelease,  \* the packages a command may be run from are 1..MaxRelease (bound)
  MaxKills,    \* commands killed between or inside their steps (bound)
  MaxFailures, \* calls that fail (bound)
  MaxReboots   \* restarts of the machine (bound)

ASSUME LifecycleAssumption ==
  MaxRelease \in Nat \ {0} /\ MaxKills \in Nat /\ MaxFailures \in Nat /\ MaxReboots \in Nat

VARIABLES
  journal,   \* lifecycle-transaction.json
  disk,      \* the files the lifecycle owns
  manager,   \* the systemd user manager's view of the two units
  run,       \* the command in progress: its step and its local variables
  said,      \* what the last command replied
  budget,    \* kills, faults and reboots still allowed
  slips      \* what failed calls have put out of an undoing's reach (history)

serviceVars == <<journal, disk, manager, run, said, budget, slips>>

Releases == 1..MaxRelease
NoRelease == 0
UninstallPhases ==
  <<"prepared", "stopped", "disabled", "anchors_removed", "releases_removed", "manager_reloaded">>

NoJournal == [op |-> "none"]
TornJournal == [op |-> "torn"]     \* created, killed before its content was written
NoCommand == [at |-> "idle"]

(* What the files say.                                                     *)
Whole == {r \in Releases : disk.releases[r] = "whole"}
Owned ==                           \* inspectPublishedReleases accepts what it finds
  /\ \A r \in Releases : disk.releases[r] # "torn"
  /\ ~disk.staging
NoArtifacts ==
  disk.selector = NoRelease /\ disk.anchors = "none" /\ disk.environment = "absent"
AllArtifacts ==
  /\ disk.selector \in Whole /\ disk.anchors = "all" /\ disk.environment = "whole"
InstallState ==                    \* inspectInstallation
  IF journal # NoJournal THEN "recovery_required"
  ELSE IF NoArtifacts THEN IF disk.enabled = "no" THEN "not_installed" ELSE "partial"
  ELSE IF ~AllArtifacts THEN "partial"
  ELSE IF disk.enabled = "no" THEN "disabled"
  ELSE IF disk.enabled = "exact" THEN "coherent" ELSE "corrupt"

(* What the manager says.  A unit is loaded from the selected release      *)
(* through the stable links; until the next daemon-reload the manager      *)
(* keeps what it loaded, and says that it should reload.                   *)
OnDisk == IF disk.anchors = "all" /\ disk.selector \in Whole THEN disk.selector ELSE NoRelease
InstalledIdentity(r) ==
  manager.loaded = r /\ OnDisk = r /\ disk.enabled = "exact"
DisabledIdentity(r) ==
  /\ manager.loaded = r /\ OnDisk = r /\ disk.enabled = "no"
  /\ manager.host = NoRelease /\ ~manager.codex
PhaseIndex(p) == CHOOSE i \in 1..6 : UninstallPhases[i] = p
NotFound == manager = [loaded |-> NoRelease, host |-> NoRelease, codex |-> FALSE]
UninstallIdentity(p) ==            \* p is 0 before the journal is written
  \/ NotFound
  \/ /\ manager.loaded # NoRelease
     /\ p >= 2 \/ OnDisk = manager.loaded
     /\ p >= 4 \/ disk.anchors = "all"

Reload == manager' = [manager EXCEPT !.loaded = OnDisk]
RestartHost == manager' = [manager EXCEPT !.host = manager.loaded, !.codex = TRUE]

-----------------------------------------------------------------------------
(* Steps of the running command.                                           *)
At(l) == run.at = l
Goto(l) == run' = [run EXCEPT !.at = l] /\ said' = said
Reply(s) == run' = NoCommand /\ said' = s
Quiet == UNCHANGED <<journal, disk, manager, budget, slips>>
Pass(l) == Goto(l) /\ Quiet
Answer(s) == Reply(s) /\ Quiet
Files(d) == disk' = d /\ UNCHANGED <<journal, manager, budget, slips>>
Units == UNCHANGED <<journal, disk, budget, slips>>
SetJournal(j) == journal' = j /\ UNCHANGED <<disk, manager, budget, slips>>

ServiceInit ==
  /\ journal = NoJournal
  /\ disk = [releases |-> [r \in Releases |-> "absent"], staging |-> FALSE, selector |-> NoRelease,
             anchors |-> "none", environment |-> "absent", enabled |-> "no", temp |-> FALSE]
  /\ manager = [loaded |-> NoRelease, host |-> NoRelease, codex |-> FALSE]
  /\ run = NoCommand /\ said = "none"
  /\ budget = [kills |-> MaxKills, faults |-> MaxFailures, reboots |-> MaxReboots]
  /\ slips = {}

(* A command takes the lock and first deals with a pending journal; r is   *)
(* the package that install and upgrade are run from.                      *)
BeginCommand(c, r) ==
  /\ At("idle")
  /\ run' = [at |-> IF c = "uninstall" /\ journal.op = "uninstall" THEN "x_own"
                    ELSE IF journal # NoJournal THEN "recover" ELSE "inspect",
             cmd |-> c, src |-> r, active |-> FALSE, prev |-> NoRelease,
             clean |-> TRUE, created |-> FALSE, published |-> FALSE]
  /\ said' = "none" /\ Quiet

-----------------------------------------------------------------------------
(* recoverPendingTransaction: an install or an upgrade that did not end is *)
(* undone; an uninstall is only ever continued by uninstall.               *)
RecoverUpgradeAllowed ==
  /\ journal.prev \in Whole
  /\ disk.anchors = "all" /\ disk.enabled = "exact" /\ disk.environment = "whole"
  /\ disk.selector \in {journal.prev, journal.next}
RecoverInstallAllowed ==
  disk.selector \in {NoRelease, journal.next} /\ disk.environment # "torn"
(* Mutant: the manager is taken to know the next release only once told so. *)
ManagerObservedWhenReloaded == journal.phase = "manager_reloaded"

ManagerMayHaveObservedNext == journal.phase \in {"selected", "manager_reloaded"}

RecoverUnpublished ==
  /\ journal.phase = "preparing"
  /\ IF journal.prev = NoRelease
       THEN NoArtifacts /\ disk.enabled = "no"
       ELSE RecoverUpgradeAllowed /\ disk.selector = journal.prev

RecoverNext ==
  IF journal.op \notin {"install", "upgrade"} THEN "recovery_required"
  ELSE IF disk.releases[journal.next] = "absent"
    THEN IF RecoverUnpublished THEN "rec_close" ELSE "recovery_required"
  ELSE IF disk.releases[journal.next] = "torn" \/ disk.staging THEN "recovery_required"
  ELSE IF journal.prev = NoRelease
    THEN IF ~RecoverInstallAllowed THEN "recovery_required"
         ELSE IF disk.enabled # "no" THEN "rec_disable" ELSE "rec_remove"
  ELSE IF ~RecoverUpgradeAllowed THEN "recovery_required"
  ELSE IF disk.selector = journal.next THEN "rec_select"
  ELSE IF ManagerMayHaveObservedNext THEN "rec_reload" ELSE "rec_close"

Recover ==
  /\ At("recover")
  /\ IF RecoverNext = "recovery_required" THEN Answer(RecoverNext) ELSE Pass(RecoverNext)

RecoverDisable ==
  /\ At("rec_disable") /\ Goto("rec_remove")
  /\ Files([disk EXCEPT !.enabled = "no"])

RecoverRemove ==
  /\ At("rec_remove") /\ Goto("rec_reload")
  /\ Files([disk EXCEPT !.selector = NoRelease, !.anchors = "none", !.environment = "absent"])

RecoverSelect ==
  /\ At("rec_select") /\ Goto("rec_reload")
  /\ Files([disk EXCEPT !.selector = journal.prev])

RecoverReload ==
  /\ At("rec_reload") /\ Reload /\ Units
  /\ Goto(IF journal.prev = NoRelease THEN "rec_close"
          ELSE IF journal.active THEN "rec_restart" ELSE "rec_inactive")

RecoverRestart ==
  /\ At("rec_restart") /\ RestartHost /\ Units /\ Goto("rec_ready")

RecoverReady ==
  /\ At("rec_ready")
  /\ IF InstalledIdentity(journal.prev) /\ manager.host # NoRelease /\ manager.codex
       THEN Pass("rec_close") ELSE Answer("recovery_required")

(* Mutant: recovery of an inactive upgrade wants Codex stopped as well. *)
RecoverInactiveBoth ==
  /\ At("rec_inactive")
  /\ IF InstalledIdentity(journal.prev) /\ manager.host = NoRelease /\ ~manager.codex
       THEN Pass("rec_close") ELSE Answer("recovery_required")

RecoverInactive ==                 \* requireRecoveredInactiveState
  /\ At("rec_inactive")
  /\ IF InstalledIdentity(journal.prev) /\ manager.host = NoRelease
       THEN Pass("rec_close") ELSE Answer("recovery_required")

RecoverClose ==
  /\ At("rec_close") /\ Goto("inspect")
  /\ disk' = [disk EXCEPT !.staging = FALSE]
  /\ journal' = NoJournal /\ UNCHANGED <<manager, budget, slips>>

-----------------------------------------------------------------------------
(* What a command does once nothing is pending.                            *)
InspectInstall ==
  CASE InstallState = "coherent" ->
         IF disk.selector = run.src /\ InstalledIdentity(run.src) THEN "ok" ELSE "refused"
    [] InstallState = "disabled" ->
         IF disk.selector = run.src /\ DisabledIdentity(run.src) THEN "again_reload" ELSE "refused"
    [] InstallState = "not_installed" ->
         IF Owned /\ NotFound THEN "journal" ELSE "refused"
    [] OTHER -> "refused"

InspectUpgrade ==
  IF InstallState # "coherent" \/ ~Owned \/ ~InstalledIdentity(disk.selector) THEN "refused"
  ELSE IF run.src = disk.selector THEN "ok"
  ELSE IF run.src < disk.selector \/ (manager.host # NoRelease /\ ~manager.codex) THEN "refused"
  ELSE "journal"

InspectUninstall ==                \* prepareUninstallTransaction
  IF disk.temp \/ ~Owned \/ ~UninstallIdentity(0) \/ disk.environment = "torn"
     \/ (disk.selector # NoRelease /\ disk.selector \notin Whole)
     \/ (disk.environment # "absent" /\ Whole = {})
    THEN "refused"
  ELSE IF Whole = {} /\ NoArtifacts /\ disk.enabled = "no" /\ NotFound THEN "ok"
  ELSE "x_journal"

InspectUnits ==                    \* start, stop and restart
  IF InstallState # "coherent" \/ ~InstalledIdentity(disk.selector) THEN "refused"
  ELSE CASE run.cmd = "start" ->
              IF manager.host = NoRelease \/ ~manager.codex THEN "restart" ELSE "ready"
         [] run.cmd = "stop" -> "stop"
         [] run.cmd = "restart" -> "restart"

Inspected ==
  IF run.cmd = "install" THEN InspectInstall
  ELSE IF run.cmd = "upgrade" THEN InspectUpgrade
  ELSE IF run.cmd = "uninstall" THEN InspectUninstall ELSE InspectUnits

Inspect ==
  /\ At("inspect")
  /\ IF Inspected \in {"ok", "refused"}
       THEN Answer(Inspected)
       ELSE /\ run' = [run EXCEPT !.at = Inspected, !.active = manager.host # NoRelease,
                                  !.prev = IF run.cmd = "upgrade" THEN disk.selector ELSE NoRelease]
            /\ said' = said /\ Quiet

(* start, stop and restart                                                 *)
UnitRestart == At("restart") /\ RestartHost /\ Units /\ Goto("ready")
UnitReady ==                       \* requireReady
  /\ At("ready")
  /\ Answer(IF InstalledIdentity(disk.selector) /\ manager.host # NoRelease /\ manager.codex
              THEN "ok" ELSE "failed")
UnitStop ==
  /\ At("stop") /\ manager' = [manager EXCEPT !.host = NoRelease, !.codex = FALSE] /\ Units
  /\ Goto("stopped")
UnitStopped ==                     \* requireStopped
  /\ At("stopped")
  /\ Answer(IF manager.host = NoRelease /\ ~manager.codex THEN "ok" ELSE "failed")

(* install of a release that is installed and only not enabled             *)
AgainReload == At("again_reload") /\ Reload /\ Units /\ Goto("again_enable")
AgainEnable ==
  At("again_enable") /\ Files([disk EXCEPT !.enabled = "manager"]) /\ Goto("again_canon")
AgainCanonical ==
  /\ At("again_canon") /\ Files([disk EXCEPT !.enabled = "exact"]) /\ Goto("again_check")
AgainCheck ==
  /\ At("again_check")
  /\ Answer(IF InstalledIdentity(run.src) /\ manager.host = NoRelease /\ ~manager.codex
              THEN "ok" ELSE "failed")

-----------------------------------------------------------------------------
(* install and upgrade: stage and publish the release, select it, have the *)
(* manager load it, and only then drop the releases no longer kept.        *)
Transaction ==
  [op |-> run.cmd, phase |-> "preparing", next |-> run.src, prev |-> run.prev,
   active |-> run.active]
SetPhase(p) == SetJournal([journal EXCEPT !.phase = p])

WriteJournal ==
  At("journal") /\ SetJournal(Transaction) /\ Goto("stage")

Stage ==                           \* prepareRelease, up to the rename
  /\ At("stage")
  /\ IF run.src \in Whole
       THEN Pass("prepared")
       ELSE Files([disk EXCEPT !.staging = TRUE]) /\ Goto("publish")

Publish ==
  /\ At("publish") /\ Goto("prepared")
  /\ Files([disk EXCEPT !.staging = FALSE, !.releases[run.src] = "whole"])

Prepared ==
  /\ At("prepared") /\ SetPhase("prepared")
  /\ Goto(IF run.cmd = "install" THEN "environment" ELSE "select")

PublishEnvironment ==
  /\ At("environment") /\ Files([disk EXCEPT !.environment = "whole"]) /\ said' = said
  /\ run' = [run EXCEPT !.at = "anchors", !.created = disk.environment = "absent"]

PublishAnchors ==
  At("anchors") /\ Files([disk EXCEPT !.anchors = "all"]) /\ Goto("select")

Select ==                          \* publishSelector, replaceExactSelector
  /\ At("select") /\ Files([disk EXCEPT !.selector = run.src]) /\ said' = said
  /\ run' = [run EXCEPT !.at = "selected", !.published = TRUE]

Selected == At("selected") /\ SetPhase("selected") /\ Goto("reload")

ReloadNext == At("reload") /\ Reload /\ Units /\ Goto("reloaded")

ManagerReloaded ==
  /\ At("reloaded") /\ SetPhase("manager_reloaded")
  /\ Goto(IF run.cmd = "install" THEN "enable"
          ELSE IF run.active THEN "next_restart" ELSE "next_inactive")

Enable ==                          \* systemd links the unit file of the release
  At("enable") /\ Files([disk EXCEPT !.enabled = "manager"]) /\ Goto("canonical")

Canonicalize ==                    \* canonicalizeManagerEnablement
  At("canonical") /\ Files([disk EXCEPT !.enabled = "exact"]) /\ Goto("next_inactive")

NextRestart == At("next_restart") /\ RestartHost /\ Units /\ Goto("next_ready")

(* What ends a failed install or upgrade: before its release is prepared   *)
(* the journal and the staging go; after that what was published is undone.*)
Compensate ==
  IF At("stage") \/ At("publish") \/ At("prepared") THEN "discard"
  ELSE IF run.cmd = "install" THEN "undo_enable" ELSE "back_select"

CheckNext(ok) == IF ok THEN Pass("prune") ELSE Pass(Compensate)

NextReady ==
  /\ At("next_ready")
  /\ CheckNext(InstalledIdentity(run.src) /\ manager.host # NoRelease /\ manager.codex)

NextInactive ==                    \* requireInstalledStopped, requireInactiveUpgradeState
  /\ At("next_inactive")
  /\ CheckNext(/\ InstalledIdentity(run.src) /\ manager.host = NoRelease
               /\ run.cmd = "install" => ~manager.codex)

Retained == {run.prev, run.src}
Prune ==                           \* prunePublishedReleases
  /\ At("prune")
  /\ IF Whole \subseteq Retained
       THEN Pass("close")
       ELSE \E r \in Whole \ Retained :
              Files([disk EXCEPT !.releases[r] = "absent"]) /\ Goto("prune")

Close == At("close") /\ SetJournal(NoJournal) /\ Goto("result")

ReadResult == At("result") /\ Answer("ok")    \* readLifecycleResult asks the manager

Discard ==
  /\ At("discard") /\ Reply("failed")
  /\ disk' = [disk EXCEPT !.staging = FALSE]
  /\ journal' = NoJournal /\ UNCHANGED <<manager, budget, slips>>

(* The undoing of an install goes on after a step of it that fails; its    *)
(* journal, if there still is one, is removed only if none did.  It takes  *)
(* back the environment and the selector only if their publication said    *)
(* that it had made them.                                                  *)
UndoEnable ==
  /\ At("undo_enable") /\ Files([disk EXCEPT !.enabled = "no"]) /\ Goto("undo_selector")
UndoSelector ==
  /\ At("undo_selector") /\ Goto("undo_anchors")
  /\ Files([disk EXCEPT !.selector = IF run.published THEN NoRelease ELSE @])
UndoAnchors ==
  /\ At("undo_anchors") /\ Files([disk EXCEPT !.anchors = "none"]) /\ Goto("undo_environment")
UndoEnvironment ==
  /\ At("undo_environment") /\ Goto("undo_reload")
  /\ Files([disk EXCEPT !.environment = IF run.created THEN "absent" ELSE @])
UndoReload == At("undo_reload") /\ Reload /\ Units /\ Goto("undo_close")
(* Mutant: the journal goes although a step of the undoing failed. *)
UndoCloseAlways == At("undo_close") /\ SetJournal(NoJournal) /\ Reply("failed")

UndoClose ==
  /\ At("undo_close")
  /\ IF run.clean /\ NotFound
       THEN SetJournal(NoJournal) /\ Reply("rolled_back")
       ELSE Answer("rollback_failed")

(* The undoing of an upgrade stops at its first failure.                   *)
BackSelect ==
  At("back_select") /\ Files([disk EXCEPT !.selector = run.prev]) /\ Goto("back_reload")
(* Mutant: the release gone back to is loaded and not restarted. *)
BackReloadOnly == At("back_reload") /\ Reload /\ Units /\ Goto("back_check")

BackReload ==
  /\ At("back_reload") /\ Reload /\ Units
  /\ Goto(IF run.active THEN "back_restart" ELSE "back_check")
BackRestart == At("back_restart") /\ RestartHost /\ Units /\ Goto("back_check")
BackCheck ==
  /\ At("back_check")
  /\ IF /\ InstalledIdentity(run.prev)
        /\ IF run.active THEN manager.host # NoRelease /\ manager.codex
                         ELSE manager.host = NoRelease
       THEN Pass("back_close") ELSE Answer("rollback_failed")
BackClose == At("back_close") /\ SetJournal(NoJournal) /\ Reply("rolled_back")

-----------------------------------------------------------------------------
(* uninstall: forward only.  A resumed uninstall takes every step again    *)
(* and leaves the phase it finds where that is later.                      *)
WriteUninstall ==
  /\ At("x_journal") /\ Goto("x_own")
  /\ SetJournal([op |-> "uninstall", phase |-> "prepared", active |-> disk.selector,
                 sels |-> Whole])

Phase == PhaseIndex(journal.phase)
Ownership ==                       \* assertUninstallTransactionOwnership
  /\ ~disk.temp /\ Owned /\ Whole \subseteq journal.sels
  /\ disk.selector \in {NoRelease, journal.active} /\ disk.environment # "torn"

UninstallOwned ==
  /\ At("x_own")
  /\ CASE ~Ownership -> Answer("recovery_required")
       [] Ownership /\ ~UninstallIdentity(Phase) -> Answer("refused")
       [] OTHER -> Pass("x_stop")

Advance(p, l) ==
  /\ Goto(l)
  /\ SetJournal(IF Phase < PhaseIndex(p) THEN [journal EXCEPT !.phase = p] ELSE journal)

UninstallStop ==
  /\ At("x_stop") /\ manager' = [manager EXCEPT !.host = NoRelease, !.codex = FALSE] /\ Units
  /\ Goto("x_stopped")
UninstallStopped ==                \* requireUninstallStopped
  /\ At("x_stopped")
  /\ IF manager.host = NoRelease /\ ~manager.codex /\ UninstallIdentity(Phase)
       THEN Advance("stopped", "x_disable") ELSE Answer("failed")
UninstallDisable ==
  /\ At("x_disable") /\ Files([disk EXCEPT !.enabled = "no"]) /\ Goto("x_disabled")
UninstallDisabled ==
  /\ At("x_disabled")
  /\ IF UninstallIdentity(Phase) THEN Advance("disabled", "x_anchors") ELSE Answer("refused")
UninstallAnchors ==
  /\ At("x_anchors") /\ Goto("x_anchored")
  /\ Files([disk EXCEPT !.anchors = "none", !.selector = NoRelease, !.environment = "absent"])
UninstallAnchored == At("x_anchored") /\ Advance("anchors_removed", "x_releases")
UninstallReleases ==
  /\ At("x_releases")
  /\ IF Whole \cap journal.sels = {}
       THEN Advance("releases_removed", "x_reload")
       ELSE \E r \in Whole \cap journal.sels :
              Files([disk EXCEPT !.releases[r] = "absent"]) /\ Goto("x_releases")
UninstallReload == At("x_reload") /\ Reload /\ Units /\ Goto("x_reloaded")
UninstallReloaded ==
  /\ At("x_reloaded")
  /\ IF NotFound
       THEN Advance("manager_reloaded", "x_close") ELSE Answer("failed")
UninstallClose ==
  /\ At("x_close")
  /\ IF disk.temp THEN Answer("refused") ELSE SetJournal(NoJournal) /\ Reply("ok")

-----------------------------------------------------------------------------
(* What is left inside a step that is cut short: a file is created and     *)
(* then written, a file is replaced by renaming a temporary, a tree and a  *)
(* group of links are removed piece by piece.                              *)
Links(sel, how) == [disk EXCEPT !.selector = sel, !.anchors = how]
TempLinks ==                       \* the selector is replaced through a temporary link
  IF run.at \in {"select", "rec_select", "back_select"} THEN {[disk EXCEPT !.temp = TRUE]} ELSE {}
Tears ==
  (IF At("environment") THEN {[disk EXCEPT !.environment = "torn"]} ELSE {})
  \cup (IF run.at \in {"anchors", "undo_anchors"} THEN {Links(disk.selector, "some")} ELSE {})
  \cup (IF At("rec_remove") THEN {Links(NoRelease, how) : how \in {disk.anchors, "some", "none"}} ELSE {})
  \cup (IF At("x_anchors")
          THEN {Links(disk.selector, how) : how \in {"some", "none"}} \cup {Links(NoRelease, "none")} ELSE {})
  \cup (IF run.at \in {"prepared", "selected", "reloaded", "x_stopped", "x_disabled", "x_anchored", "x_reloaded"}
          THEN {[disk EXCEPT !.temp = TRUE]} ELSE {})
  \cup (IF run.at \in {"discard", "rec_close"} THEN {[disk EXCEPT !.staging = FALSE]} ELSE {})
  \cup (IF At("prune") THEN {[disk EXCEPT !.releases[r] = "torn"] : r \in Whole \ Retained} ELSE {})
  \cup (IF At("x_releases") THEN {[disk EXCEPT !.releases[r] = "torn"] : r \in Whole} ELSE {})

(* Calls that fail.  A call to the manager that is reported as failed (a   *)
(* timeout) may have had its effect; a file operation may fail after part  *)
(* of its effect, or after all of it, in the flush of the directory.  An   *)
(* effect that leaves the command where a failure of its next step without *)
(* effect would leave it needs no case of its own.                         *)
Reloads == {"rec_reload", "again_reload", "reload", "undo_reload", "back_reload", "x_reload"}
Restarts == {"rec_restart", "restart", "next_restart", "back_restart"}
Stops == {"stop", "x_stop"}
Enables == {"enable", "again_enable"}
Disables == {"rec_disable", "x_disable"}
Closings == {"rec_close", "discard", "close", "back_close", "undo_close", "x_close"}

Removes ==                         \* whether the step gets as far as removing the journal
  /\ At("undo_close") => run.clean /\ NotFound
  /\ At("x_close") => ~disk.temp
LateUnits ==                       \* a manager that did what it was asked
  \/ run.at \in Reloads /\ Reload /\ disk' = disk
  \/ run.at \in Restarts /\ RestartHost /\ disk' = disk
  \/ run.at \in Stops /\ manager' = [manager EXCEPT !.host = NoRelease] /\ disk' = disk
  \/ run.at \in Enables /\ disk' = [disk EXCEPT !.enabled = "manager"] /\ manager' = manager
  \/ run.at \in Disables /\ disk' = [disk EXCEPT !.enabled = "no"] /\ manager' = manager
LateFiles ==                       \* a file written or removed, and then an error
  /\ manager' = manager
  /\ \/ disk' \in Tears
     \/ At("environment") /\ disk' = [disk EXCEPT !.environment = "whole"]
     \/ At("select") /\ disk' = [disk EXCEPT !.selector = run.src]
     \/ At("publish") /\ disk' = [disk EXCEPT !.staging = FALSE, !.releases[run.src] = "whole"]
LateJournal ==                     \* the journal written, torn or removed, and then an error
  /\ manager' = manager
  /\ \/ At("journal") /\ journal' \in {TornJournal, Transaction} /\ disk' = disk
     \/ At("x_journal") /\ journal' = TornJournal /\ disk' = disk
     \/ At("prepared") /\ journal' = [journal EXCEPT !.phase = "prepared"] /\ disk' = disk
     \/ /\ run.at \in Closings /\ Removes
        /\ journal' = NoJournal /\ disk' = [disk EXCEPT !.staging = FALSE]

Recovering == {"recover", "rec_disable", "rec_remove", "rec_select", "rec_reload", "rec_restart",
               "rec_ready", "rec_inactive", "rec_close"}
Forward == {"stage", "publish", "prepared", "environment", "anchors", "select", "selected", "reload",
            "reloaded", "enable", "canonical", "next_restart", "next_ready", "next_inactive",
            "prune", "close", "result"}
Undoing == {"undo_enable", "undo_selector", "undo_anchors", "undo_environment", "undo_reload"}
GoingBack == {"discard", "back_select", "back_reload", "back_restart", "back_check", "back_close"}

UndoNext ==                        \* an undoing goes on after a step that fails
  CASE At("undo_enable") -> "undo_selector"
    [] At("undo_selector") -> "undo_anchors"
    [] At("undo_anchors") -> "undo_environment"
    [] At("undo_environment") -> "undo_reload"
    [] At("undo_reload") -> "undo_close"
Calls ==                           \* the steps of an undoing that have something to do
  {"undo_anchors", "undo_reload"}
  \cup (IF disk.enabled # "no" THEN {"undo_enable"} ELSE {})
  \cup (IF run.published THEN {"undo_selector"} ELSE {})
  \cup (IF run.created THEN {"undo_environment"} ELSE {})

LateEffect ==
  \/ UNCHANGED <<journal, disk, manager>>
  \/ journal' = journal /\ (LateUnits \/ LateFiles)
  \/ LateJournal

(* A failed publication of the environment or the selector that leaves it  *)
(* there is not known to the undoing; after the journal is removed, what a *)
(* failure leaves undone is on no record.                                  *)
Slipped ==
  IF run.at \in {"environment", "select"} /\ run.cmd = "install" /\ disk' # disk THEN {"kept"}
  ELSE IF run.at \in {"close", "result"} /\ journal' = NoJournal THEN {"unjournalled"} ELSE {}

CallFails ==
  /\ ~At("idle") /\ budget.faults > 0
  /\ budget' = [budget EXCEPT !.faults = @ - 1]
  /\ LateEffect /\ slips' = slips \cup Slipped
  /\ \/ run.at \in Recovering /\ Reply("recovery_required")
     \/ run.at \in Forward /\ IF At("publish") /\ disk' # disk
                                THEN Reply("recovery_required") ELSE Goto(Compensate)
     \/ /\ run.at \in Undoing \cap Calls /\ said' = said
        /\ run' = [run EXCEPT !.clean = FALSE, !.at = UndoNext]
     \/ run.at \in GoingBack /\ Reply("rollback_failed")
     \/ At("undo_close") /\ journal' = journal /\ Reply("rollback_failed")
     \/ At("undo_close") /\ Removes /\ Reply("failed")
     \/ At("x_own") /\ Reply("recovery_required")
     \/ /\ run.at \notin Recovering \cup Forward \cup Undoing \cup GoingBack \cup {"undo_close"}
        /\ Reply("failed")

(* A command that is killed, between two steps or inside one.              *)
Kill ==
  /\ ~At("idle") /\ budget.kills > 0
  /\ budget' = [budget EXCEPT !.kills = @ - 1]
  /\ run' = NoCommand /\ said' = "none" /\ UNCHANGED <<manager, slips>>
  /\ \/ UNCHANGED <<journal, disk>>
     \/ disk' \in Tears \cup TempLinks /\ journal' = journal
     \/ run.at \in {"journal", "x_journal"} /\ journal' = TornJournal /\ disk' = disk

(* The world outside the lock: the machine restarts, somebody else reloads *)
(* the manager, systemd restarts a service that exits, the operator stops  *)
(* or disables the service by hand and reloads the manager.                *)
Reboot ==
  /\ budget.reboots > 0
  /\ budget' = [budget EXCEPT !.reboots = @ - 1]
  /\ run' = NoCommand /\ said' = "none" /\ UNCHANGED <<journal, disk, slips>>
  /\ LET up == IF disk.enabled = "no" THEN NoRelease ELSE OnDisk
     IN  manager' = [loaded |-> OnDisk, host |-> up, codex |-> up # NoRelease]
ForeignReload ==
  /\ budget.reboots > 0 /\ manager.loaded # OnDisk
  /\ budget' = [budget EXCEPT !.reboots = @ - 1]
  /\ Reload /\ UNCHANGED <<journal, disk, run, said, slips>>
ServiceRestarts ==
  /\ manager.host # NoRelease /\ manager.loaded # NoRelease /\ manager.host # manager.loaded
  /\ manager' = [manager EXCEPT !.host = manager.loaded]
  /\ UNCHANGED <<journal, disk, run, said, budget, slips>>
OperatorDisables ==
  /\ At("idle") /\ InstallState = "coherent" /\ manager.host = NoRelease
  /\ disk' = [disk EXCEPT !.enabled = "no"]
  /\ UNCHANGED <<journal, manager, run, said, budget, slips>>
OperatorStops ==
  /\ At("idle") /\ said = "recovery_required" /\ manager.host # NoRelease
  /\ manager' = [manager EXCEPT !.host = NoRelease]
  /\ UNCHANGED <<journal, disk, run, said, budget, slips>>
OperatorReloads ==
  /\ At("idle") /\ journal.op = "uninstall" /\ manager.loaded # OnDisk
  /\ Reload /\ UNCHANGED <<journal, disk, run, said, budget, slips>>

-----------------------------------------------------------------------------
Step ==
  \/ Recover \/ RecoverDisable \/ RecoverRemove \/ RecoverSelect \/ RecoverReload
  \/ RecoverRestart \/ RecoverReady \/ RecoverInactive \/ RecoverClose
  \/ Inspect \/ UnitRestart \/ UnitReady \/ UnitStop \/ UnitStopped
  \/ AgainReload \/ AgainEnable \/ AgainCanonical \/ AgainCheck
  \/ WriteJournal \/ Stage \/ Publish \/ Prepared \/ PublishEnvironment \/ PublishAnchors
  \/ Select \/ Selected \/ ReloadNext \/ ManagerReloaded \/ Enable \/ Canonicalize
  \/ NextRestart \/ NextReady \/ NextInactive \/ Prune \/ Close \/ ReadResult \/ Discard
  \/ UndoEnable \/ UndoSelector \/ UndoAnchors \/ UndoEnvironment \/ UndoReload \/ UndoClose
  \/ BackSelect \/ BackReload \/ BackRestart \/ BackCheck \/ BackClose
  \/ WriteUninstall \/ UninstallOwned \/ UninstallStop \/ UninstallStopped
  \/ UninstallDisable \/ UninstallDisabled \/ UninstallAnchors \/ UninstallAnchored
  \/ UninstallReleases \/ UninstallReload \/ UninstallReloaded \/ UninstallClose

ServiceNext ==
  \/ Step
  \/ \E c \in {"install", "upgrade"}, r \in Releases : BeginCommand(c, r)
  \/ \E c \in {"start", "stop", "restart", "uninstall"} : BeginCommand(c, NoRelease)
  \/ CallFails \/ Kill \/ Reboot \/ ForeignReload \/ ServiceRestarts
  \/ OperatorDisables \/ OperatorStops \/ OperatorReloads

ServiceSpec == ServiceInit /\ [][ServiceNext]_serviceVars

(* A command that is not killed goes on; the operator of a host with a     *)
(* pending journal keeps trying: uninstall when an uninstall is pending,   *)
(* another command otherwise, and what recovery_required asks for by hand. *)
Retry ==
  \/ journal.op = "uninstall" /\ BeginCommand("uninstall", NoRelease)
  \/ journal.op \in {"install", "upgrade"} /\ BeginCommand("start", NoRelease)
FairSpec ==
  /\ ServiceSpec /\ WF_serviceVars(Step) /\ SF_serviceVars(Retry)
  /\ SF_serviceVars(OperatorStops) /\ SF_serviceVars(OperatorReloads)

-----------------------------------------------------------------------------
(* Whenever no command runs and no journal is left, the installation is    *)
(* there as a whole or not at all, up to the enablement link: a killed or  *)
(* failed command leaves either a journal or nothing half done, unless a   *)
(* call failed in one of the two places Slipped names.                     *)
WholeOrNothing ==
  At("idle") /\ journal = NoJournal =>
    AllArtifacts \/ (NoArtifacts /\ disk.enabled = "no")
AllOrNothing == slips = {} => WholeOrNothing

(* With nothing pending, what runs is what is selected: no failure, kill   *)
(* or interrupted recovery of an upgrade leaves the service running the    *)
(* release that was given up, unless the machine was restarted meanwhile   *)
(* or a call failed when the journal was gone already.                     *)
RunsSelected ==
  At("idle") /\ journal = NoJournal => manager.host \in {NoRelease, disk.selector}
SameRelease == budget.reboots = MaxReboots /\ "unjournalled" \notin slips => RunsSelected

(* A command that reports a rollback as succeeded has put everything back: *)
(* no journal, and the selector, the loaded unit and what runs are what    *)
(* they were; of a failed install nothing is left.                         *)
PutsBack ==
  /\ journal' = NoJournal /\ disk'.selector = run.prev /\ manager'.loaded = run.prev
  /\ manager'.host = IF run.active THEN run.prev ELSE NoRelease
  /\ run.prev = NoRelease => NoArtifacts' /\ disk'.enabled = "no"
ReportsRollback == said' = "rolled_back" /\ said # "rolled_back"
RollbackTrue == [][ReportsRollback /\ "kept" \notin slips => PutsBack]_serviceVars

(* What the code's tests and plan say without these exceptions: both are    *)
(* false, by one failed publication and by two failures or a failure and a  *)
(* kill.                                                                    *)
RollbackComplete == [][ReportsRollback => PutsBack]_serviceVars
RunsSelectedOrRecorded == budget.reboots = MaxReboots => RunsSelected

(* A journal does not stay: once commands are no longer killed, retrying   *)
(* ends in an installation without one, unless a kill fell inside a file   *)
(* operation and left something half written, which every later command    *)
(* reports as recovery_required or refuses.                                *)
Damaged ==
  \/ journal = TornJournal \/ disk.environment = "torn" \/ disk.temp
  \/ \E r \in Releases : disk.releases[r] = "torn"
JournalResolves == journal # NoJournal ~> (journal = NoJournal \/ Damaged)

================================================================================
