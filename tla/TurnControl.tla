----------------------------- MODULE TurnControl -----------------------------
(***************************************************************************)
(* The turns of one session: the prompt service, which starts and steers   *)
(* them, the interrupt service, which ends them, and the notifications     *)
(* both learn of a turn from.                                              *)
(*                                                                         *)
(* The pipeline takes one notification at a time: it normalizes it, stores *)
(* its projection, and awaits the interrupt and then the prompt observer.  *)
(* Each service runs one operation of the session at a time, and holds     *)
(* that place while it waits for Codex; an observer notes at once what it  *)
(* hears and applies it when its service is free.  An action is what runs  *)
(* between two awaits.  Codex and its other clients are external: Codex    *)
(* runs one turn at a time, and tells of a turn those connections that     *)
(* have resumed the thread.                                                *)
(*                                                                         *)
(* Turn 0 is no turn.  Projections: "ended" stands for idle and the three  *)
(* terminal states, "waiting" for the two kinds of waiting.  The archive   *)
(* of the thread and pending model and plan settings are left out.         *)
(***************************************************************************)
EXTENDS Naturals, Sequences, FiniteSets

CONSTANTS
  MaxTurns,     \* turns Codex starts (bound)
  MaxPrompts,   \* prompts dispatched (bound)
  MaxInterrupts,\* interrupts asked for (bound)
  MaxLosses,    \* connections lost (bound)
  MaxOthers     \* turns of other clients, and times Codex begins or ceases to wait (bound)

ASSUME TurnAssumption ==
  /\ MaxTurns \in Nat \ {0} /\ MaxPrompts \in Nat /\ MaxInterrupts \in Nat
  /\ MaxLosses \in Nat /\ MaxOthers \in Nat

VARIABLES
  codex,   \* the turn it runs, the turns so far and how each ended, a request it has yet to see
  line,    \* the connection: where its recovery is, what it read, notifications held
  pipe,    \* notifications passed on, how far the first one is, whether it has stopped
  norm,    \* the normalizer: the turns it knows and the one it takes to be active
  proj,    \* the stored projection: its turn state, whether it is current
  prompt,  \* the prompt service
  intr,    \* the interrupt service
  missed,  \* turns whose end no notification told
  budget

vars == <<codex, line, pipe, norm, proj, prompt, intr, missed, budget>>

Turns == 1..MaxTurns
NoCall == [kind |-> "none", at |-> "none", turn |-> 0]
NoRecord == [phase |-> "none", turn |-> 0]
NoInterrupt == [phase |-> "none", turn |-> 0, verdict |-> "none"]

Calls == [kind : {"none", "start", "steer", "interrupt"},
          at : {"none", "sent", "ok", "refused", "gone"}, turn : 0..MaxTurns]
Records == [phase : {"none", "starting", "accepted", "steerable", "steering", "conflict", "unknown"},
            turn : 0..MaxTurns]
Interrupts == [phase : {"none", "sending", "accepted", "unknown", "terminal"}, turn : 0..MaxTurns,
               verdict : {"none", "interrupted", "failed"}]
Events == [kind : {"started", "waiting", "active"}, turn : Turns]
            \cup [kind : {"fence"}, turn : 0..MaxTurns]
            \cup [kind : {"completed"}, turn : Turns, how : {"done", "interrupted"}]

CodexStates == [turn : 0..MaxTurns, count : 0..MaxTurns, late : BOOLEAN, own : SUBSET Turns,
                end : [Turns -> {"none", "done", "interrupted"}]]
Lines == [at : {"up", "lost", "marked", "fence", "commit", "resume", "subscribed", "publish",
                "ended"}, read : 0..MaxTurns, held : Seq(Events)]
Pipes == [queue : Seq(Events), at : {"idle", "projected", "interrupt", "prompt"},
          stopped : BOOLEAN]
PromptStates == [rec : Records, early : 0..MaxTurns, ended : 0..MaxTurns, seen : BOOLEAN,
                 call : Calls]
InterruptStates == [active : 0..MaxTurns, rec : Interrupts, ended : 0..MaxTurns, call : Calls,
                    waiting : 0..MaxTurns]

(* Type invariant. *)
TypeOK ==
  /\ codex \in CodexStates /\ line \in Lines /\ pipe \in Pipes
  /\ norm \in [active : 0..MaxTurns, known : SUBSET Turns]
  /\ proj \in [turn : {"in_progress", "waiting", "unknown", "ended"}, current : BOOLEAN]
  /\ prompt \in PromptStates /\ intr \in InterruptStates
  /\ missed \subseteq Turns
  /\ budget \in [prompts : Nat, interrupts : Nat, losses : Nat, others : Nat]

Init ==
  /\ codex = [turn |-> 0, count |-> 0, end |-> [t \in Turns |-> "none"], late |-> FALSE,
              own |-> {}]
  /\ line = [at |-> "up", read |-> 0, held |-> <<>>]
  /\ pipe = [queue |-> <<>>, at |-> "idle", stopped |-> FALSE]
  /\ norm = [active |-> 0, known |-> {}]
  /\ proj = [turn |-> "ended", current |-> TRUE]
  /\ prompt = [rec |-> NoRecord, early |-> 0, ended |-> 0, seen |-> FALSE, call |-> NoCall]
  /\ intr = [active |-> 0, rec |-> NoInterrupt, ended |-> 0, call |-> NoCall, waiting |-> 0]
  /\ missed = {}
  /\ budget = [prompts |-> MaxPrompts, interrupts |-> MaxInterrupts, losses |-> MaxLosses,
               others |-> MaxOthers]

Spend(what) == budget[what] > 0 /\ budget' = [budget EXCEPT ![what] = @ - 1]

----------------------------------------------------------------------------
(* Codex.                                                                  *)

(* A notification reaches this connection if it resumed the thread; it is  *)
(* held until the resubscription is over.                                  *)
Tell(e) ==
  /\ line' = IF line.at = "subscribed" THEN [line EXCEPT !.held = Append(@, e)] ELSE line
  /\ pipe' = IF line.at \in {"publish", "up"} /\ ~pipe.stopped
             THEN [pipe EXCEPT !.queue = Append(@, e)] ELSE pipe

Hears == line.at \in {"subscribed", "publish", "up"} /\ ~pipe.stopped

Event(kind, t) == [kind |-> kind, turn |-> t]

Free == codex.turn = 0 /\ codex.count < MaxTurns

Begin(late, own) ==
  LET t == codex.count + 1
  IN  /\ Free
      /\ codex' = [codex EXCEPT !.turn = t, !.count = t, !.late = late, !.own = @ \cup own]
      /\ Tell(Event("started", t))

(* Answers to calls.  A start while a turn runs is refused, and so is a    *)
(* steer or an interrupt of a turn that does not run.                      *)
AnswerPrompt ==
  /\ prompt.call.at = "sent"
  /\ \/ /\ prompt.call.kind = "start" /\ Begin(codex.late, {codex.count + 1})
        /\ prompt' = [prompt EXCEPT !.call.at = "ok", !.call.turn = codex.count + 1]
     \/ /\ IF prompt.call.kind = "start" THEN codex.turn # 0
                                         ELSE prompt.call.turn # codex.turn
        /\ prompt' = [prompt EXCEPT !.call.at = "refused"]
        /\ UNCHANGED <<codex, line, pipe>>
     \/ /\ prompt.call.kind = "steer" /\ prompt.call.turn = codex.turn
        /\ prompt' = [prompt EXCEPT !.call.at = "ok"]
        /\ UNCHANGED <<codex, line, pipe>>
  /\ UNCHANGED <<norm, proj, intr, missed, budget>>

AnswerInterrupt ==
  /\ intr.call.at = "sent"
  /\ intr' = [intr EXCEPT !.call.at = IF intr.call.turn = codex.turn THEN "ok" ELSE "refused"]
  /\ UNCHANGED <<codex, line, pipe, norm, proj, prompt, missed, budget>>

(* A start nobody waits for any more. *)
BeginLate ==
  /\ codex.late /\ Begin(FALSE, {})
  /\ UNCHANGED <<norm, proj, prompt, intr, missed, budget>>

BeginForeign ==
  /\ Spend("others") /\ Begin(codex.late, {})
  /\ UNCHANGED <<norm, proj, prompt, intr, missed>>

End(t) ==
  /\ t # 0 /\ codex.turn = t
  /\ \E how \in {"done", "interrupted"} :
       /\ codex' = [codex EXCEPT !.turn = 0, !.end[t] = how]
       /\ Tell([kind |-> "completed", turn |-> t, how |-> how])
  /\ missed' = IF Hears THEN missed ELSE missed \cup {t}
  /\ UNCHANGED <<norm, proj, prompt, intr, budget>>

Wait ==
  /\ codex.turn # 0 /\ Spend("others")
  /\ \E kind \in {"waiting", "active"} : Tell(Event(kind, codex.turn))
  /\ UNCHANGED <<codex, norm, proj, prompt, intr, missed>>

----------------------------------------------------------------------------
(* The prompt service.                                                     *)

Cleared(p) == [p EXCEPT !.rec = NoRecord, !.early = 0, !.ended = 0, !.seen = FALSE]

(* Mutant: an idle projection is enough. *)
ReconciledWhenIdle(p) ==
  IF p.rec.turn # 0 /\ proj.turn = "ended" /\ p.rec.phase \in {"accepted", "steerable", "conflict"}
  THEN Cleared(p) ELSE p

(* reconcileTerminalProjection: a record is dropped when the projection    *)
(* has ended after an operation saw it running.                            *)
Reconciled(p) ==
  IF p.rec.turn = 0 THEN p
  ELSE IF proj.turn # "ended" THEN [p EXCEPT !.seen = TRUE]
  ELSE IF p.seen /\ p.rec.phase \in {"accepted", "steerable", "conflict"} THEN Cleared(p)
  ELSE p

PromptFree == prompt.call = NoCall
CanSend == line.at = "up"
Call(kind, t) == [kind |-> kind, at |-> "sent", turn |-> t]

(* The answer of a steer, or why there is none. *)
SteerSettled(p, phase) ==
  LET q == [p EXCEPT !.call = NoCall, !.ended = 0]
  IN  IF p.ended = p.rec.turn THEN Cleared(q) ELSE [q EXCEPT !.rec.phase = phase]

(* A request that is not sent (its deadline, no connection) is forgotten;  *)
(* a steer leaves a conflict.                                              *)
StartPrompt(p) ==
  /\ proj.turn = "ended" /\ p.rec = NoRecord
  /\ \/ /\ CanSend
        /\ prompt' = [p EXCEPT !.rec = [phase |-> "starting", turn |-> 0], !.seen = FALSE,
                               !.call = Call("start", 0)]
     \/ prompt' = Cleared(p)

SteerPrompt(p) ==
  /\ proj.turn = "in_progress" /\ p.rec.phase = "steerable"
  /\ \/ /\ CanSend
        /\ prompt' = [p EXCEPT !.rec.phase = "steering", !.call = Call("steer", p.rec.turn)]
     \/ prompt' = SteerSettled(p, "conflict")

RefusePrompt(p) ==
  /\ \/ proj.turn \in {"waiting", "unknown"}
     \/ proj.turn = "ended" /\ p.rec # NoRecord
     \/ proj.turn = "in_progress" /\ p.rec.phase # "steerable"
  /\ prompt' = p

Dispatch ==
  /\ PromptFree /\ proj.current /\ Spend("prompts")
  /\ LET p == Reconciled(prompt) IN StartPrompt(p) \/ SteerPrompt(p) \/ RefusePrompt(p)
  /\ UNCHANGED <<codex, line, pipe, norm, proj, intr, missed>>

Snapshot ==
  /\ PromptFree
  /\ prompt' = Reconciled(prompt)
  /\ UNCHANGED <<codex, line, pipe, norm, proj, intr, missed, budget>>

(* The answer of a start, with what was heard while it was awaited. *)
StartAccepted(t) ==
  LET p == [prompt EXCEPT !.call = NoCall, !.early = 0, !.ended = 0]
  IN  IF prompt.early \notin {0, t} THEN [p EXCEPT !.rec = [phase |-> "unknown", turn |-> t]]
      ELSE IF prompt.ended = t THEN Cleared(p)
      ELSE [p EXCEPT !.rec = [phase |-> IF prompt.early = t THEN "steerable" ELSE "accepted",
                              turn |-> t]]

StartFailed(known) ==
  LET p == [prompt EXCEPT !.call = NoCall, !.early = 0, !.ended = 0]
  IN  IF known THEN Cleared(p) ELSE [p EXCEPT !.rec = [phase |-> "unknown", turn |-> 0]]

PromptAnswered ==
  /\ prompt.call.at \in {"ok", "refused"}
  /\ prompt' = LET ok == prompt.call.at = "ok"
               IN  IF prompt.call.kind = "start"
                   THEN IF ok THEN StartAccepted(prompt.call.turn) ELSE StartFailed(TRUE)
                   ELSE SteerSettled(prompt, IF ok THEN "steerable" ELSE "conflict")
  /\ UNCHANGED <<codex, line, pipe, norm, proj, intr, missed, budget>>

(* No answer: the deadline passed or the connection was lost.  Codex may   *)
(* still see a request it has not seen yet.                                *)
PromptUnanswered ==
  /\ ~PromptFree
  /\ prompt' = IF prompt.call.kind = "start" THEN StartFailed(FALSE) ELSE SteerSettled(prompt, "unknown")
  /\ \E late \in {FALSE, prompt.call.kind = "start" /\ prompt.call.at = "sent"} :
       codex' = [codex EXCEPT !.late = @ \/ late]
  /\ UNCHANGED <<line, pipe, norm, proj, intr, missed, budget>>

----------------------------------------------------------------------------
(* The interrupt service.                                                  *)

InterruptFree == intr.call = NoCall
Unresolved == {"accepted", "sending", "unknown"}

(* Mutant: a waiter is not woken by the end of its turn. *)
SettledUnheard(i, t, how) ==
  LET j == [i EXCEPT !.active = IF @ = t THEN 0 ELSE @]
  IN  IF i.rec.turn # t \/ i.rec.verdict # "none" THEN j
      ELSE [j EXCEPT !.rec = [phase |-> "terminal", turn |-> t,
                              verdict |-> IF how = "interrupted" THEN "interrupted" ELSE "failed"]]

(* applyTerminal, and the waiters it answers. *)
Settled(i, t, how) ==
  LET j == [i EXCEPT !.active = IF @ = t THEN 0 ELSE @]
  IN  IF i.rec.turn # t \/ i.rec.verdict # "none" THEN j
      ELSE [j EXCEPT !.rec = [phase |-> "terminal", turn |-> t,
                              verdict |-> IF how = "interrupted" THEN "interrupted" ELSE "failed"],
                     !.waiting = IF @ = t THEN 0 ELSE @]

(* An answer, or none, with the end of the turn if it was heard meanwhile; *)
(* a request that was not sent or was refused is forgotten.                *)
InterruptReturns(j, outcome) ==
  LET t == j.rec.turn
      i == [j EXCEPT !.call = NoCall, !.ended = 0]
      heard == j.ended = t
  IN  CASE outcome = "refused" ->
             [i EXCEPT !.rec = NoInterrupt, !.active = IF heard /\ @ = t THEN 0 ELSE @]
        [] outcome # "refused" /\ heard -> Settled([i EXCEPT !.rec.phase = outcome], t, codex.end[t])
        [] OTHER -> [i EXCEPT !.rec.phase = outcome]

Interruptible ==
  /\ proj.current /\ proj.turn \in {"in_progress", "waiting"}
  /\ intr.active # 0 /\ intr.rec.phase \notin Unresolved /\ intr.rec.turn # intr.active

Interrupt ==
  /\ InterruptFree /\ Interruptible /\ Spend("interrupts")
  /\ LET t == intr.active
         i == [intr EXCEPT !.rec = [phase |-> "sending", turn |-> t, verdict |-> "none"]]
     IN  \/ CanSend /\ intr' = [i EXCEPT !.call = Call("interrupt", t)]
         \/ intr' = InterruptReturns(i, "refused")
  /\ UNCHANGED <<codex, line, pipe, norm, proj, prompt, missed>>

InterruptAnswered ==
  /\ intr.call.at \in {"ok", "refused"}
  /\ intr' = InterruptReturns(intr, IF intr.call.at = "ok" THEN "accepted" ELSE "refused")
  /\ UNCHANGED <<codex, line, pipe, norm, proj, prompt, missed, budget>>

InterruptUnanswered ==
  /\ ~InterruptFree
  /\ intr' = InterruptReturns(intr, "unknown")
  /\ UNCHANGED <<codex, line, pipe, norm, proj, prompt, missed, budget>>

(* waitForTerminal, and its deadline. *)
AwaitTerminal ==
  /\ InterruptFree /\ intr.rec.phase \in Unresolved
  /\ intr' = [intr EXCEPT !.waiting = intr.rec.turn]
  /\ UNCHANGED <<codex, line, pipe, norm, proj, prompt, missed, budget>>

GiveUpWaiting ==
  /\ intr.waiting # 0
  /\ intr' = [intr EXCEPT !.waiting = 0]
  /\ UNCHANGED <<codex, line, pipe, norm, proj, prompt, missed, budget>>

----------------------------------------------------------------------------
(* The pipeline.                                                           *)

First == Head(pipe.queue)
AtStage(stage) == pipe.queue # <<>> /\ ~pipe.stopped /\ pipe.at = stage
Stop == pipe' = [queue |-> <<>>, at |-> "idle", stopped |-> TRUE]

(* The normalizer takes turns one at a time, each once. *)
InOrder(e) ==
  CASE e.kind = "started" -> norm.active = 0 /\ e.turn \notin norm.known
    [] e.kind = "completed" -> norm.active = e.turn
    [] OTHER -> TRUE

Project ==
  /\ AtStage("idle") /\ First.kind # "fence"
  /\ \/ /\ ~InOrder(First) /\ Stop
        /\ UNCHANGED <<norm, proj>>
     \/ /\ InOrder(First)
        /\ norm' = CASE First.kind = "started" -> [active |-> First.turn,
                                                   known |-> norm.known \cup {First.turn}]
                     [] First.kind = "completed" -> [norm EXCEPT !.active = 0]
                     [] OTHER -> norm
        /\ proj' = [proj EXCEPT !.turn = CASE First.kind = "started" -> "in_progress"
                                           [] First.kind = "completed" -> "ended"
                                           [] First.kind = "waiting" -> "waiting"
                                           [] OTHER -> IF @ \in {"in_progress", "waiting"}
                                                       THEN "in_progress" ELSE "unknown"]
        /\ pipe' = [pipe EXCEPT !.at = "projected"]
  /\ UNCHANGED <<codex, line, prompt, intr, missed, budget>>

(* The end of a turn one of the services is concerned with is noted before *)
(* the observer waits for its place.                                       *)
HearInterrupt ==
  /\ AtStage("projected")
  /\ intr' = IF First.kind = "completed" /\ First.turn \in {intr.active, intr.rec.turn}
             THEN [intr EXCEPT !.ended = First.turn] ELSE intr
  /\ pipe' = [pipe EXCEPT !.at = "interrupt"]
  /\ UNCHANGED <<codex, line, norm, proj, prompt, missed, budget>>

HeardByPrompt ==
  LET p == prompt
  IN  CASE First.kind = "started" /\ p.rec.phase = "starting" -> [p EXCEPT !.early = First.turn]
        [] First.kind = "completed" /\ (p.rec.phase = "starting" \/ p.rec.turn = First.turn) ->
             [p EXCEPT !.ended = First.turn]
        [] OTHER -> p

(* A later turn closes an interrupt whose turn's end was not heard; a      *)
(* second active turn is an error of the protocol.                         *)
ActiveFrom(i, t) ==
  LET late == i.rec.phase \in {"accepted", "unknown"} /\ i.rec.turn # t
  IN  [i EXCEPT !.active = t,
                !.rec.phase = IF late THEN "terminal" ELSE @,
                !.waiting = IF late /\ @ = i.rec.turn THEN 0 ELSE @]

ApplyInterrupt ==
  /\ AtStage("interrupt") /\ InterruptFree
  /\ \/ /\ First.kind = "started" /\ intr.active \notin {0, First.turn} /\ Stop
        /\ UNCHANGED <<intr, prompt>>
     \/ /\ First.kind # "started" \/ intr.active \in {0, First.turn}
        /\ intr' = CASE First.kind = "completed" ->
                          Settled([intr EXCEPT !.ended = IF @ = First.turn THEN 0 ELSE @],
                                  First.turn, First.how)
                     [] First.kind = "started" /\ intr.active = 0 -> ActiveFrom(intr, First.turn)
                     [] OTHER -> intr
        /\ prompt' = HeardByPrompt
        /\ pipe' = [pipe EXCEPT !.at = "prompt"]
  /\ UNCHANGED <<codex, line, norm, proj, missed, budget>>

(* Mutant: only a record that is going well is closed by the end of its turn. *)
ApplyPromptGoingWell ==
  /\ AtStage("prompt") /\ PromptFree
  /\ prompt' = CASE First.kind = "started" /\ prompt.rec.turn = First.turn
                      /\ prompt.rec.phase \in {"accepted", "steerable"} ->
                      [prompt EXCEPT !.rec.phase = "steerable"]
                 [] First.kind = "completed" /\ prompt.rec.turn = First.turn
                      /\ prompt.rec.phase \in {"accepted", "steerable"} -> Cleared(prompt)
                 [] OTHER -> prompt
  /\ pipe' = [pipe EXCEPT !.queue = Tail(@), !.at = "idle"]
  /\ UNCHANGED <<codex, line, norm, proj, intr, missed, budget>>

ApplyPrompt ==
  /\ AtStage("prompt") /\ PromptFree
  /\ prompt' = CASE First.kind = "started" /\ prompt.rec.turn = First.turn
                      /\ prompt.rec.phase \in {"accepted", "steerable"} ->
                      [prompt EXCEPT !.rec.phase = "steerable"]
                 [] First.kind = "completed" /\ prompt.rec.turn = First.turn -> Cleared(prompt)
                 [] OTHER -> prompt
  /\ pipe' = [pipe EXCEPT !.queue = Tail(@), !.at = "idle"]
  /\ UNCHANGED <<codex, line, norm, proj, intr, missed, budget>>

----------------------------------------------------------------------------
(* The connection is lost and recovered.  The last notifications and       *)
(* answers sent may not have been received, and a fence still queued, which*)
(* is the last of the queue, does nothing: its signal is aborted.          *)

Received(call) ==
  CASE call.at = "none" -> {call}
    [] call.at = "sent" -> {[call EXCEPT !.at = "gone"]}
    [] OTHER -> {call, [call EXCEPT !.at = "gone"]}

Lose ==
  /\ line.at \notin {"lost", "ended"} /\ Spend("losses")
  /\ line' = [at |-> "lost", read |-> 0, held |-> <<>>]
  /\ \E n \in (IF pipe.at = "idle" THEN 0 ELSE 1)..Len(pipe.queue) :
       /\ n # 0 => pipe.queue[n].kind # "fence"
       /\ pipe' = [pipe EXCEPT !.queue = SubSeq(@, 1, n)]
       /\ LET lost == {pipe.queue[i] : i \in n + 1..Len(pipe.queue)}
                        \cup {line.held[i] : i \in DOMAIN line.held}
          IN  missed' = missed \cup {e.turn : e \in {x \in lost : x.kind = "completed"}}
  /\ \E call \in Received(prompt.call) : prompt' = [prompt EXCEPT !.call = call]
  /\ \E call \in Received(intr.call) : intr' = [intr EXCEPT !.call = call]
  /\ \E late \in {FALSE, prompt.call.kind = "start" /\ prompt.call.at = "sent"} :
       codex' = [codex EXCEPT !.late = @ \/ late]
  /\ UNCHANGED <<norm, proj>>

(* disconnected *)
MarkGap ==
  /\ line.at = "lost"
  /\ line' = [line EXCEPT !.at = "marked"]
  /\ proj' = [proj EXCEPT !.current = FALSE]
  /\ UNCHANGED <<codex, pipe, norm, prompt, intr, missed, budget>>

(* reconcile: the thread is read, the normalizer told in its turn what is  *)
(* active, the outcome stored.  A stopped pipeline ends the recovery.      *)
Read ==
  /\ line.at = "marked" /\ ~pipe.stopped
  /\ line' = [line EXCEPT !.at = "fence", !.read = codex.turn]
  /\ pipe' = [pipe EXCEPT !.queue = Append(@, [kind |-> "fence", turn |-> codex.turn])]
  /\ UNCHANGED <<codex, norm, proj, prompt, intr, missed, budget>>

Fence ==
  /\ AtStage("idle") /\ First.kind = "fence"
  /\ norm' = [active |-> First.turn, known |-> norm.known \cup ({First.turn} \ {0})]
  /\ line' = [line EXCEPT !.at = "commit"]
  /\ pipe' = [pipe EXCEPT !.queue = Tail(@)]
  /\ UNCHANGED <<codex, proj, prompt, intr, missed, budget>>

Commit ==
  /\ line.at = "commit"
  /\ \E state \in IF line.read = 0 THEN {"ended"} ELSE {"in_progress", "waiting"} :
       proj' = [proj EXCEPT !.turn = state]
  /\ line' = [line EXCEPT !.at = "resume"]
  /\ UNCHANGED <<codex, pipe, norm, prompt, intr, missed, budget>>

(* resubscribe *)
Resume ==
  /\ line.at = "resume"
  /\ line' = [line EXCEPT !.at = "subscribed"]
  /\ UNCHANGED <<codex, pipe, norm, proj, prompt, intr, missed, budget>>

Drain ==
  /\ line.at = "subscribed"
  /\ line' = [line EXCEPT !.at = "publish", !.held = <<>>]
  /\ pipe' = [pipe EXCEPT !.queue = IF pipe.stopped THEN @ ELSE @ \o line.held]
  /\ UNCHANGED <<codex, norm, proj, prompt, intr, missed, budget>>

(* ready *)
Publish ==
  /\ line.at = "publish" /\ pipe.queue = <<>> /\ ~pipe.stopped
  /\ line' = [line EXCEPT !.at = "up"]
  /\ proj' = [proj EXCEPT !.current = TRUE]
  /\ UNCHANGED <<codex, pipe, norm, prompt, intr, missed, budget>>

RecoveryEnds ==
  /\ line.at \in {"marked", "fence", "publish"} /\ pipe.stopped
  /\ line' = [line EXCEPT !.at = "ended", !.held = <<>>]
  /\ UNCHANGED <<codex, pipe, norm, proj, prompt, intr, missed, budget>>

----------------------------------------------------------------------------
PipelineStep == Project \/ HearInterrupt \/ ApplyInterrupt \/ ApplyPrompt \/ Fence
PromptReturns == PromptAnswered \/ PromptUnanswered
InterruptEnds == InterruptAnswered \/ InterruptUnanswered
Recovery ==
  MarkGap \/ Read \/ Commit \/ Resume \/ Drain \/ Publish \/ RecoveryEnds
CodexStep ==
  \/ AnswerPrompt \/ AnswerInterrupt \/ BeginLate \/ BeginForeign \/ Wait
  \/ \E t \in Turns : End(t)

Next ==
  \/ PipelineStep \/ PromptReturns \/ InterruptEnds \/ Recovery \/ CodexStep \/ Lose
  \/ Dispatch \/ Snapshot \/ Interrupt \/ AwaitTerminal \/ GiveUpWaiting

Spec == Init /\ [][Next]_vars

(* Promises settle, and every call ends at its deadline.  Nothing is       *)
(* assumed of Codex or of the users.                                       *)
FairSpec ==
  /\ Spec
  /\ WF_vars(PipelineStep) /\ WF_vars(PromptReturns) /\ WF_vars(InterruptEnds)
  /\ WF_vars(Recovery)

----------------------------------------------------------------------------
(* What a verdict on an interrupt says of the turn is how that very turn   *)
(* ended, and whoever waits for one waits for a turn whose verdict is      *)
(* still out: registering a waiter and settling never miss each other      *)
(* (applyTerminal, createTerminalWaiter, interrupt).                       *)
VerdictTrue ==
  /\ intr.rec.verdict # "none" =>
       codex.end[intr.rec.turn] = IF intr.rec.verdict = "interrupted" THEN "interrupted" ELSE "done"
  /\ intr.waiting # 0 =>
       intr.rec.turn = intr.waiting /\ intr.rec.phase \in {"accepted", "unknown"}

(* As long as HostDeck alone drives the thread, the record of a turn it    *)
(* started is given up only when that turn is over, whatever comes late:   *)
(* the answer, the notifications of the turn before, or its own            *)
(* (reconcileTerminalProjection, start, observeEvent).                     *)
OwnTurnKept ==
  [][\A t \in Turns :
       prompt.rec.turn = t /\ prompt'.rec.turn # t /\ 1..t \subseteq codex.own =>
         codex.end[t] # "none"]_vars

(* When a turn has ended and its end was told, both services let go of it, *)
(* whatever was being asked of Codex then and whatever answer came or did  *)
(* not come: the prompt is free, the interrupt has its verdict and nobody  *)
(* waits, unless the pipeline stops.  The observers wait for the services, *)
(* the services for Codex, and none for another (observeEvent, start,      *)
(* steer, interrupt).                                                      *)
Forgotten(t) ==
  /\ prompt.rec.turn # t /\ intr.active # t /\ intr.waiting # t
  /\ intr.rec.turn = t => intr.rec.phase \notin Unresolved

EndOfTurnSettles ==
  \A t \in Turns :
    (codex.end[t] # "none" /\ t \notin missed) ~> (Forgotten(t) \/ t \in missed \/ pipe.stopped)

(* A thread that is reconciled, current and idle takes the next prompt,    *)
(* unless the outcome of the last one is unknown, and the interrupt        *)
(* service takes no turn to be active.  FR-014 of                          *)
(* docs/planning/02-requirements.md asks for it; a turn that ended while   *)
(* the connection was lost leaves both services behind.                    *)
ReconciledThreadFree ==
  /\ line.at = "up" /\ proj = [turn |-> "ended", current |-> TRUE] /\ codex.turn = 0
  /\ pipe.queue = <<>> /\ ~pipe.stopped /\ PromptFree /\ InterruptFree
  => Reconciled(prompt).rec.phase \in {"none", "unknown"} /\ intr.active = 0

=============================================================================
