-------------------------- MODULE TurnControlProofs --------------------------
(***************************************************************************)
(* Proofs about TurnControl for any number of turns, prompts, interrupts,  *)
(* lost connections and turns of other clients: a verdict is that of its   *)
(* turn, nobody waits for a verdict that is already out, and the record of *)
(* a turn that HostDeck started is kept until the turn is over.            *)
(***************************************************************************)
EXTENDS TurnControl, SequenceTheorems, TLAPS

Norms == [active : 0..MaxTurns, known : SUBSET Turns]
Projs == [turn : {"in_progress", "waiting", "unknown", "ended"}, current : BOOLEAN]
Budgets == [prompts : Nat, interrupts : Nat, losses : Nat, others : Nat]
Ends == [Turns -> {"none", "done", "interrupted"}]

(* Codex ends each turn once, and the turns it has not begun or still runs *)
(* not at all.                                                             *)
EndsOnce ==
  /\ codex.turn <= codex.count
  /\ codex.turn # 0 => codex.end[codex.turn] = "none"
  /\ \A t \in Turns : codex.count < t => codex.end[t] = "none"

(* A notification of an end tells how the turn ended, wherever it waits.   *)
TrueEvents == {e \in Events : e.kind = "completed" => e.how = codex.end[e.turn]}

ToldTruly == pipe.queue \in Seq(TrueEvents) /\ line.held \in Seq(TrueEvents)

(* What the interrupt service knows: the interrupt being asked is the one  *)
(* on record, one with a verdict is over and the verdict its turn's, a     *)
(* waiter waits for the one on record, and an end it noted is one          *)
(* (interrupt, applyTerminal, createTerminalWaiter).                       *)
KnowsEnds(i, end) ==
  /\ i.call # NoCall <=> i.rec.phase = "sending"
  /\ i.rec.phase \in Unresolved => i.rec.turn # 0
  /\ i.rec.verdict # "none" =>
       /\ i.rec.phase = "terminal" /\ i.rec.turn # 0
       /\ end[i.rec.turn] = IF i.rec.verdict = "interrupted" THEN "interrupted" ELSE "done"
  /\ i.waiting # 0 => i.rec.turn = i.waiting /\ i.rec.phase \in {"accepted", "unknown"}
  /\ i.ended # 0 => end[i.ended] # "none"

InterruptOnRecord == KnowsEnds(intr, codex.end)

IInv == TypeOK /\ EndsOnce /\ ToldTruly /\ InterruptOnRecord

----------------------------------------------------------------------------
(* Each part of the invariant speaks of a few variables only: a step that  *)
(* leaves them alone preserves it.                                         *)
LEMMA Untouched ==
  /\ EndsOnce /\ UNCHANGED codex => EndsOnce'
  /\ ToldTruly /\ UNCHANGED <<codex, line, pipe>> => ToldTruly'
  /\ InterruptOnRecord /\ UNCHANGED <<codex, intr>> => InterruptOnRecord'
<1>1. EndsOnce /\ UNCHANGED codex => EndsOnce'
  BY DEF EndsOnce
<1>2. ToldTruly /\ UNCHANGED <<codex, line, pipe>> => ToldTruly'
  BY DEF ToldTruly, TrueEvents
<1>3. InterruptOnRecord /\ UNCHANGED <<codex, intr>> => InterruptOnRecord'
  BY DEF InterruptOnRecord, KnowsEnds
<1> QED BY <1>1, <1>2, <1>3

(* The types of the variables, by name. *)
LEMMA Typed ==
  /\ TypeOK <=> /\ codex \in CodexStates /\ line \in Lines /\ pipe \in Pipes
                /\ norm \in Norms /\ proj \in Projs
                /\ prompt \in PromptStates /\ intr \in InterruptStates
                /\ missed \subseteq Turns /\ budget \in Budgets
  /\ TypeOK' <=> /\ codex' \in CodexStates /\ line' \in Lines /\ pipe' \in Pipes
                 /\ norm' \in Norms /\ proj' \in Projs
                 /\ prompt' \in PromptStates /\ intr' \in InterruptStates
                 /\ missed' \subseteq Turns /\ budget' \in Budgets
  BY DEF TypeOK, Norms, Projs, Budgets

(* A budget that is spent stays one. *)
LEMMA BudgetTyped ==
  ASSUME budget \in Budgets, NEW what \in {"prompts", "interrupts", "losses", "others"},
         Spend(what)
  PROVE  budget' \in Budgets
  BY DEF Budgets, Spend

(* An end, once there, is kept, and so is what is known of it. *)
LEMMA EndsGrow ==
  ASSUME NEW end \in Ends, NEW new \in Ends,
         \A t \in Turns : end[t] # "none" => new[t] = end[t],
         NEW i \in InterruptStates, KnowsEnds(i, end)
  PROVE  KnowsEnds(i, new)
<1>1. /\ i.rec.turn \in 0..MaxTurns /\ i.ended \in 0..MaxTurns
      /\ i.rec.turn # 0 => i.rec.turn \in Turns
      /\ i.ended # 0 => i.ended \in Turns
  BY TurnAssumption DEF InterruptStates, Interrupts, Turns
<1> QED BY <1>1 DEF KnowsEnds

(* A message is told to whoever listens and arrives unchanged. *)
LEMMA ToldIs ==
  ASSUME line \in Lines, pipe \in Pipes, NEW T \in SUBSET Events,
         pipe.queue \in Seq(T), line.held \in Seq(T), NEW e \in T, Tell(e)
  PROVE  /\ line' \in Lines /\ pipe' \in Pipes
         /\ pipe'.queue \in Seq(T) /\ line'.held \in Seq(T)
<1>1. Append(pipe.queue, e) \in Seq(T) /\ Append(line.held, e) \in Seq(T)
  OBVIOUS
<1>2. Seq(T) \subseteq Seq(Events)
  BY SeqMonotonic
<1> DEFINE q == Append(pipe.queue, e)
           h == Append(line.held, e)
<1> HIDE DEF q, h
<1>3. line' \in Lines /\ line'.held \in Seq(T)
  <2>1. h \in Seq(T) /\ h \in Seq(Events)
    BY <1>1, <1>2 DEF h
  <2>2. line' = IF line.at = "subscribed" THEN [line EXCEPT !.held = h] ELSE line
    BY DEF Tell, h
  <2> QED BY <2>1, <2>2 DEF Lines
<1>4. pipe' \in Pipes /\ pipe'.queue \in Seq(T)
  <2>1. q \in Seq(T) /\ q \in Seq(Events)
    BY <1>1, <1>2 DEF q
  <2>2. pipe' = IF line.at \in {"publish", "up"} /\ ~pipe.stopped
                THEN [pipe EXCEPT !.queue = q] ELSE pipe
    BY DEF Tell, q
  <2> QED BY <2>1, <2>2 DEF Pipes
<1> QED BY <1>3, <1>4

(* Steps that leave Codex's ends and the interrupt service alone and only  *)
(* move notifications on, or drop some.                                    *)
LEMMA MovesOn ==
  ASSUME IInv, UNCHANGED <<codex, intr>>,
         pipe'.queue \in Seq(TrueEvents), line'.held \in Seq(TrueEvents)
  PROVE  EndsOnce' /\ ToldTruly' /\ InterruptOnRecord'
<1>1. TrueEvents' = TrueEvents
  BY DEF TrueEvents
<1> QED BY <1>1, Untouched DEF IInv, ToldTruly

----------------------------------------------------------------------------
(* The interrupt service.                                                  *)

(* The end of a turn closes the interrupt of it and wakes who waits.       *)
LEMMA SettledKnows ==
  ASSUME NEW i \in InterruptStates, NEW end \in Ends, KnowsEnds(i, end), i.call = NoCall,
         NEW t \in Turns, NEW how \in {"done", "interrupted"}, end[t] = how
  PROVE  Settled(i, t, how) \in InterruptStates /\ KnowsEnds(Settled(i, t, how), end)
<1> DEFINE a == IF i.active = t THEN 0 ELSE i.active
           j == [i EXCEPT !.active = a]
           w == IF i.waiting = t THEN 0 ELSE i.waiting
           v == IF how = "interrupted" THEN "interrupted" ELSE "failed"
           r == [phase |-> "terminal", turn |-> t, verdict |-> v]
           s == [j EXCEPT !.rec = r, !.waiting = w]
<1>1. t \in 0..MaxTurns /\ t # 0
  BY TurnAssumption DEF Turns
<1>2. a \in 0..MaxTurns /\ w \in 0..MaxTurns
  BY TurnAssumption DEF InterruptStates
<1>3. r \in Interrupts
  BY <1>1 DEF Interrupts
<1>4. Settled(i, t, how) = IF i.rec.turn # t \/ i.rec.verdict # "none" THEN j ELSE s
  BY DEF Settled, InterruptStates
<1> HIDE DEF a, w
<1>5. j \in InterruptStates /\ j.rec = i.rec /\ j.waiting = i.waiting /\ j.ended = i.ended
      /\ j.call = i.call
  BY <1>2 DEF InterruptStates
<1>6. KnowsEnds(j, end)
  BY <1>5 DEF KnowsEnds
<1>7. CASE i.rec.turn # t \/ i.rec.verdict # "none"
  BY <1>4, <1>5, <1>6, <1>7
<1>8. CASE i.rec.turn = t /\ i.rec.verdict = "none"
  <2> HIDE DEF j, r
  <2>1. s \in InterruptStates /\ s.rec = r /\ s.waiting = w /\ s.ended = i.ended
        /\ s.call = NoCall
    BY <1>2, <1>3, <1>5 DEF InterruptStates
  <2>2. w = 0
    BY <1>8 DEF w, KnowsEnds
  <2>3. r.phase = "terminal" /\ r.turn = t /\ r.verdict = v
    BY DEF r
  <2> HIDE DEF s
  <2>4. KnowsEnds(s, end)
    BY <1>1, <2>1, <2>2, <2>3 DEF KnowsEnds, Unresolved
  <2> QED BY <1>4, <1>8, <2>1, <2>4
<1> QED BY <1>7, <1>8

(* An answer, or none, closes the call, and the turn's end is not missed   *)
(* if it was heard meanwhile.                                              *)
LEMMA ReturnsKnows ==
  ASSUME NEW j \in InterruptStates, codex.end \in Ends,
         j.rec.phase = "sending", j.rec.turn # 0, j.rec.verdict = "none", j.waiting = 0,
         j.ended # 0 => codex.end[j.ended] # "none",
         NEW outcome \in {"refused", "accepted", "unknown"}
  PROVE  /\ InterruptReturns(j, outcome) \in InterruptStates
         /\ KnowsEnds(InterruptReturns(j, outcome), codex.end)
<1> DEFINE t == j.rec.turn
           i == [j EXCEPT !.call = NoCall, !.ended = 0]
           heard == j.ended = t
           a == IF heard /\ i.active = t THEN 0 ELSE i.active
           forgotten == [i EXCEPT !.rec = NoInterrupt, !.active = a]
           rec == [i.rec EXCEPT !.phase = outcome]
           settled == [i EXCEPT !.rec = rec]
<1>1. /\ NoCall \in Calls /\ NoInterrupt \in Interrupts /\ 0 \in 0..MaxTurns
      /\ t \in Turns /\ j.rec \in Interrupts
  BY TurnAssumption DEF NoCall, Calls, NoInterrupt, Interrupts, InterruptStates, Turns
<1>2. /\ i \in InterruptStates /\ i.rec = j.rec /\ i.waiting = 0 /\ i.ended = 0
      /\ i.call = NoCall
  BY <1>1 DEF InterruptStates
<1>3. InterruptReturns(j, outcome) =
        IF outcome = "refused" THEN forgotten
        ELSE IF heard THEN Settled(settled, t, codex.end[t])
        ELSE settled
  BY <1>2 DEF InterruptReturns, InterruptStates
<1>4. CASE outcome = "refused"
  <2>1. a \in 0..MaxTurns
    BY <1>1, <1>2 DEF InterruptStates
  <2> HIDE DEF i, a, heard
  <2>2. /\ forgotten \in InterruptStates /\ forgotten.rec = NoInterrupt
        /\ forgotten.waiting = 0 /\ forgotten.ended = 0 /\ forgotten.call = NoCall
    BY <1>1, <1>2, <2>1 DEF InterruptStates
  <2> HIDE DEF forgotten
  <2>3. KnowsEnds(forgotten, codex.end)
    BY <2>2 DEF KnowsEnds, NoInterrupt, Unresolved
  <2> QED BY <1>3, <1>4, <2>2, <2>3
<1>5. CASE outcome # "refused"
  <2> HIDE DEF i
  <2>1. rec \in Interrupts /\ rec.phase = outcome /\ rec.turn = t /\ rec.verdict = "none"
    BY <1>1, <1>2, <1>5 DEF Interrupts
  <2> HIDE DEF rec
  <2>2. /\ settled \in InterruptStates /\ settled.rec = rec
        /\ settled.waiting = 0 /\ settled.ended = 0 /\ settled.call = NoCall
    BY <1>2, <2>1 DEF InterruptStates
  <2> HIDE DEF settled
  <2>3. KnowsEnds(settled, codex.end)
    BY <1>5, <2>1, <2>2 DEF KnowsEnds, Unresolved
  <2>4. CASE heard
    <3>1. codex.end[t] \in {"done", "interrupted"}
      BY <1>1, <2>4 DEF Ends
    <3> QED BY <1>1, <1>3, <1>5, <2>2, <2>3, <2>4, <3>1, SettledKnows
  <2> QED BY <1>3, <1>5, <2>2, <2>3, <2>4
<1> QED BY <1>4, <1>5

(* What the interrupt service may do without an event of a turn.           *)
LEMMA InterruptMoves ==
  ASSUME IInv, intr' \in InterruptStates, KnowsEnds(intr', codex.end),
         budget' \in Budgets,
         UNCHANGED <<codex, line, pipe, norm, proj, prompt, missed>>
  PROVE  IInv'
<1>1. TypeOK'
  BY Typed DEF IInv
<1>2. InterruptOnRecord'
  BY DEF InterruptOnRecord
<1> QED BY <1>1, <1>2, Untouched DEF IInv

(* An interrupt is asked of the turn that runs.                            *)
LEMMA InterruptPreserves ==
  ASSUME IInv, Interrupt
  PROVE  IInv'
<1> DEFINE t == intr.active
           rec == [phase |-> "sending", turn |-> t, verdict |-> "none"]
           i == [intr EXCEPT !.rec = rec]
           asking == [i EXCEPT !.call = Call("interrupt", t)]
<1>1. /\ intr.call = NoCall /\ t # 0 /\ intr.rec.phase \notin Unresolved
      /\ intr' = asking \/ intr' = InterruptReturns(i, "refused")
      /\ Spend("interrupts") /\ UNCHANGED <<codex, line, pipe, norm, proj, prompt, missed>>
  BY DEF Interrupt, InterruptFree, Interruptible
<1>2. /\ intr \in InterruptStates /\ codex.end \in Ends /\ KnowsEnds(intr, codex.end)
      /\ budget \in Budgets
  BY Typed DEF IInv, InterruptOnRecord, CodexStates, Ends
<1>3. t \in 0..MaxTurns /\ intr.waiting = 0
  BY <1>1, <1>2 DEF InterruptStates, KnowsEnds, Unresolved
<1>4. rec \in Interrupts /\ Call("interrupt", t) \in Calls /\ Call("interrupt", t) # NoCall
  BY <1>3 DEF Interrupts, Call, Calls, NoCall
<1>5. /\ i \in InterruptStates /\ i.rec = rec /\ i.waiting = 0 /\ i.ended = intr.ended
  BY <1>2, <1>3, <1>4 DEF InterruptStates
<1>6. i.ended # 0 => codex.end[i.ended] # "none"
  BY <1>2, <1>5 DEF KnowsEnds
<1>7. rec.phase = "sending" /\ rec.turn = t /\ rec.verdict = "none"
  OBVIOUS
<1> HIDE DEF i, rec
<1>8. CASE intr' = asking
  <2>1. /\ asking \in InterruptStates /\ asking.rec = rec /\ asking.waiting = 0
        /\ asking.ended = i.ended /\ asking.call = Call("interrupt", t)
    BY <1>4, <1>5 DEF InterruptStates
  <2> HIDE DEF asking
  <2>2. KnowsEnds(asking, codex.end)
    BY <1>1, <1>4, <1>6, <1>7, <2>1 DEF KnowsEnds, Unresolved
  <2> QED BY <1>1, <1>2, <1>8, <2>1, <2>2, BudgetTyped, InterruptMoves
<1>9. CASE intr' = InterruptReturns(i, "refused")
  <2>1. intr' \in InterruptStates /\ KnowsEnds(intr', codex.end)
    BY <1>1, <1>2, <1>5, <1>6, <1>7, <1>9, ReturnsKnows
  <2> QED BY <1>1, <1>2, <2>1, BudgetTyped, InterruptMoves
<1> QED BY <1>1, <1>8, <1>9

(* The call of an interrupt ends as refused, accepted or unknown.          *)
LEMMA InterruptEndsPreserves ==
  ASSUME IInv, InterruptEnds
  PROVE  IInv'
<1>1. PICK outcome \in {"refused", "accepted", "unknown"} :
        intr' = InterruptReturns(intr, outcome)
  BY DEF InterruptEnds, InterruptAnswered, InterruptUnanswered
<1>2. /\ intr.call # NoCall
      /\ UNCHANGED <<codex, line, pipe, norm, proj, prompt, missed, budget>>
  BY DEF InterruptEnds, InterruptAnswered, InterruptUnanswered, InterruptFree, NoCall
<1>3. /\ intr \in InterruptStates /\ codex.end \in Ends /\ KnowsEnds(intr, codex.end)
      /\ budget \in Budgets
  BY Typed DEF IInv, InterruptOnRecord, CodexStates, Ends
<1>4. /\ intr.rec.phase = "sending" /\ intr.rec.turn # 0 /\ intr.rec.verdict = "none"
      /\ intr.waiting = 0
      /\ intr.ended # 0 => codex.end[intr.ended] # "none"
  BY <1>2, <1>3 DEF KnowsEnds, Unresolved
<1>5. intr' \in InterruptStates /\ KnowsEnds(intr', codex.end)
  BY <1>1, <1>3, <1>4, ReturnsKnows
<1> QED BY <1>2, <1>3, <1>5, InterruptMoves

(* A waiter is registered for the turn on record, and given up at its      *)
(* deadline.                                                               *)
LEMMA WaitingPreserves ==
  ASSUME IInv, AwaitTerminal \/ GiveUpWaiting
  PROVE  IInv'
<1>1. PICK w \in {0, intr.rec.turn} :
        /\ intr' = [intr EXCEPT !.waiting = w]
        /\ w # 0 => intr.call = NoCall /\ intr.rec.phase \in Unresolved
        /\ UNCHANGED <<codex, line, pipe, norm, proj, prompt, missed, budget>>
  BY DEF AwaitTerminal, GiveUpWaiting, InterruptFree
<1>2. intr \in InterruptStates /\ KnowsEnds(intr, codex.end) /\ budget \in Budgets
  BY Typed DEF IInv, InterruptOnRecord
<1>3. w \in 0..MaxTurns
  BY <1>2, TurnAssumption DEF InterruptStates, Interrupts
<1>4. /\ intr' \in InterruptStates /\ intr'.rec = intr.rec /\ intr'.waiting = w
      /\ intr'.ended = intr.ended /\ intr'.call = intr.call
  BY <1>1, <1>2, <1>3 DEF InterruptStates
<1>5. KnowsEnds(intr', codex.end)
  BY <1>1, <1>2, <1>4 DEF KnowsEnds, Unresolved
<1> QED BY <1>1, <1>2, <1>4, <1>5, InterruptMoves

(* Codex's answer and a lost connection change how far a call is, not that *)
(* there is one.                                                           *)
LEMMA CallKnows ==
  ASSUME NEW i \in InterruptStates, NEW end \in Ends, KnowsEnds(i, end),
         NEW c \in Calls, c = NoCall <=> i.call = NoCall
  PROVE  [i EXCEPT !.call = c] \in InterruptStates /\ KnowsEnds([i EXCEPT !.call = c], end)
<1> DEFINE j == [i EXCEPT !.call = c]
<1>1. /\ j \in InterruptStates /\ j.rec = i.rec /\ j.waiting = i.waiting
      /\ j.ended = i.ended /\ j.call = c
  BY DEF InterruptStates
<1> HIDE DEF j
<1>2. KnowsEnds(j, end)
  BY <1>1 DEF KnowsEnds
<1> QED BY <1>1, <1>2 DEF j

(* Codex answers an interrupt.                                             *)
LEMMA AnswerInterruptPreserves ==
  ASSUME IInv, AnswerInterrupt
  PROVE  IInv'
<1>1. PICK at \in {"ok", "refused"} : intr' = [intr EXCEPT !.call.at = at]
  BY DEF AnswerInterrupt
<1>2. /\ intr.call.at = "sent"
      /\ UNCHANGED <<codex, line, pipe, norm, proj, prompt, missed, budget>>
  BY DEF AnswerInterrupt
<1>3. /\ intr \in InterruptStates /\ codex.end \in Ends /\ KnowsEnds(intr, codex.end)
      /\ budget \in Budgets
  BY Typed DEF IInv, InterruptOnRecord, CodexStates, Ends
<1> DEFINE c == [intr.call EXCEPT !.at = at]
<1>4. c \in Calls /\ c.at = at /\ intr' = [intr EXCEPT !.call = c]
  BY <1>1, <1>3 DEF InterruptStates, Calls
<1>5. c # NoCall /\ intr.call # NoCall
  BY <1>1, <1>2, <1>4 DEF NoCall
<1> HIDE DEF c
<1>6. intr' \in InterruptStates /\ KnowsEnds(intr', codex.end)
  BY <1>3, <1>4, <1>5, CallKnows
<1> QED BY <1>2, <1>3, <1>6, InterruptMoves

----------------------------------------------------------------------------
(* Codex.                                                                  *)

(* A turn that begins has not ended. *)
LEMMA BeginKeeps ==
  ASSUME IInv, NEW late \in BOOLEAN, NEW own \in SUBSET {codex.count + 1}, Begin(late, own),
         UNCHANGED intr
  PROVE  /\ codex' \in CodexStates /\ line' \in Lines /\ pipe' \in Pipes
         /\ codex.count + 1 \in Turns
         /\ EndsOnce' /\ ToldTruly' /\ InterruptOnRecord'
<1> DEFINE t == codex.count + 1
           o == codex.own \cup own
           next == [codex EXCEPT !.turn = t, !.count = t, !.late = late, !.own = o]
<1>1. codex \in CodexStates /\ line \in Lines /\ pipe \in Pipes
  BY Typed DEF IInv
<1>2. /\ codex.turn = 0 /\ codex.count < MaxTurns /\ Tell(Event("started", t))
      /\ codex' = next
  BY DEF Begin, Free
<1>3. codex.count \in 0..MaxTurns
  BY <1>1 DEF CodexStates
<1>4. t \in Turns /\ t \in 0..MaxTurns /\ t > codex.count
  BY <1>2, <1>3, TurnAssumption DEF Turns
<1>5. codex.own \in SUBSET Turns
  BY <1>1 DEF CodexStates
<1>6. o \in SUBSET Turns
  BY <1>4, <1>5
<1> HIDE DEF t, o
<1>7. /\ codex' \in CodexStates /\ codex'.turn = t /\ codex'.count = t /\ codex'.end = codex.end
  BY <1>1, <1>2, <1>4, <1>6 DEF CodexStates
<1>8. TrueEvents' = TrueEvents
  BY <1>7 DEF TrueEvents
<1>9. Event("started", t) \in TrueEvents
  BY <1>4 DEF Event, Events, TrueEvents
<1>10. TrueEvents \in SUBSET Events
  BY DEF TrueEvents
<1>11. line' \in Lines /\ pipe' \in Pipes /\ ToldTruly'
  BY <1>1, <1>2, <1>8, <1>9, <1>10, ToldIs DEF IInv, ToldTruly
<1>12. EndsOnce'
  <2>1. codex.end[t] = "none"
    BY <1>4 DEF IInv, EndsOnce
  <2>2. \A u \in Turns : t < u => codex.end[u] = "none"
    <3> TAKE u \in Turns
    <3>1. u \in Int
      BY TurnAssumption DEF Turns
    <3> QED BY <1>3, <1>4, <3>1 DEF IInv, EndsOnce, t
  <2>3. t <= t
    BY <1>4, TurnAssumption DEF Turns
  <2> QED BY <1>7, <2>1, <2>2, <2>3 DEF EndsOnce
<1>13. InterruptOnRecord'
  BY <1>7 DEF IInv, InterruptOnRecord
<1> QED BY <1>4, <1>7, <1>11, <1>12, <1>13 DEF t

(* A turn begins whose start was given up, or that another client asked    *)
(* for.                                                                    *)
LEMMA BeginsPreserves ==
  ASSUME IInv, BeginLate \/ BeginForeign
  PROVE  IInv'
<1>1. PICK late \in BOOLEAN : Begin(late, {})
  BY Typed DEF BeginLate, BeginForeign, IInv, CodexStates
<1>2. UNCHANGED <<norm, proj, prompt, intr, missed>>
  BY DEF BeginLate, BeginForeign
<1>3. budget' \in Budgets
  BY BudgetTyped, Typed DEF BeginLate, BeginForeign, IInv
<1>4. /\ codex' \in CodexStates /\ line' \in Lines /\ pipe' \in Pipes
      /\ EndsOnce' /\ ToldTruly' /\ InterruptOnRecord'
  BY <1>1, <1>2, BeginKeeps
<1> QED BY <1>2, <1>3, <1>4, Typed DEF IInv

(* Codex answers a start or a steer, and a turn may begin by it.           *)
LEMMA AnswerPromptPreserves ==
  ASSUME IInv, AnswerPrompt
  PROVE  IInv'
<1>1. /\ prompt \in PromptStates /\ codex \in CodexStates /\ line \in Lines /\ pipe \in Pipes
      /\ norm \in Norms /\ proj \in Projs /\ intr \in InterruptStates
      /\ missed \subseteq Turns /\ budget \in Budgets
  BY Typed DEF IInv
<1>2. UNCHANGED <<norm, proj, intr, missed, budget>>
  BY DEF AnswerPrompt
<1>3. CASE /\ Begin(codex.late, {codex.count + 1})
           /\ prompt' = [prompt EXCEPT !.call.at = "ok", !.call.turn = codex.count + 1]
  <2>1. codex.late \in BOOLEAN
    BY <1>1 DEF CodexStates
  <2>2. /\ codex' \in CodexStates /\ line' \in Lines /\ pipe' \in Pipes
        /\ codex.count + 1 \in Turns
        /\ EndsOnce' /\ ToldTruly' /\ InterruptOnRecord'
    BY <1>2, <1>3, <2>1, BeginKeeps
  <2> DEFINE t == codex.count + 1
             c == [prompt.call EXCEPT !.at = "ok", !.turn = t]
  <2>3. t \in 0..MaxTurns
    BY <2>2 DEF Turns
  <2>4. prompt' = [prompt EXCEPT !.call = c]
    BY <1>1, <1>3 DEF PromptStates
  <2> HIDE DEF t
  <2>5. c \in Calls
    BY <1>1, <2>3 DEF PromptStates, Calls
  <2>6. prompt' \in PromptStates
    BY <1>1, <2>4, <2>5 DEF PromptStates
  <2> QED BY <1>1, <1>2, <2>2, <2>6, Typed DEF IInv
<1>4. CASE /\ UNCHANGED <<codex, line, pipe>>
           /\ \E at \in {"ok", "refused"} : prompt' = [prompt EXCEPT !.call.at = at]
  <2>1. PICK at \in {"ok", "refused"} : prompt' = [prompt EXCEPT !.call.at = at]
    BY <1>4
  <2>2. prompt' \in PromptStates
    BY <1>1, <2>1 DEF PromptStates, Calls
  <2> QED BY <1>1, <1>2, <1>4, <2>2, Typed, Untouched DEF IInv
<1> QED BY <1>3, <1>4 DEF AnswerPrompt

(* A turn that ends does so once, and what is told of it is how it ended.  *)
LEMMA EndPreserves ==
  ASSUME IInv, NEW t \in Turns, End(t)
  PROVE  IInv'
<1>1. /\ codex \in CodexStates /\ line \in Lines /\ pipe \in Pipes
      /\ norm \in Norms /\ proj \in Projs /\ prompt \in PromptStates
      /\ intr \in InterruptStates /\ missed \subseteq Turns /\ budget \in Budgets
  BY Typed DEF IInv
<1>2. PICK how \in {"done", "interrupted"} :
        /\ codex' = [codex EXCEPT !.turn = 0, !.end[t] = how]
        /\ Tell([kind |-> "completed", turn |-> t, how |-> how])
  BY DEF End
<1>3. /\ codex.turn = t /\ UNCHANGED <<norm, proj, prompt, intr, budget>>
      /\ missed' \in {missed, missed \cup {t}}
  BY DEF End
<1> DEFINE new == [codex.end EXCEPT ![t] = how]
           e == [kind |-> "completed", turn |-> t, how |-> how]
<1>4. /\ new \in Ends /\ new[t] = how /\ \A u \in Turns \ {t} : new[u] = codex.end[u]
  BY <1>1 DEF CodexStates, Ends
<1>5. codex' = [codex EXCEPT !.turn = 0, !.end = new]
  BY <1>1, <1>2 DEF CodexStates
<1> HIDE DEF new
<1>6. /\ codex' \in CodexStates /\ codex'.turn = 0 /\ codex'.count = codex.count
      /\ codex'.end = new
  <2>1. 0 \in 0..MaxTurns /\ new \in [Turns -> {"none", "done", "interrupted"}]
    BY <1>4, TurnAssumption DEF Ends
  <2> QED BY <1>1, <1>5, <2>1 DEF CodexStates
<1>7. t # 0 /\ codex.end[t] = "none" /\ t <= codex.count
  BY <1>3, TurnAssumption DEF IInv, EndsOnce, Turns
<1>8. TrueEvents \subseteq TrueEvents' /\ TrueEvents' \in SUBSET Events /\ e \in TrueEvents'
  <2>1. \A x \in TrueEvents : x \in Events /\ (x.kind = "completed" => x.turn # t)
    BY <1>7 DEF TrueEvents, Events
  <2>2. \A x \in TrueEvents : x.kind = "completed" => x.turn \in Turns
    BY DEF TrueEvents, Events
  <2>3. TrueEvents \subseteq TrueEvents'
    BY <1>4, <1>6, <2>1, <2>2 DEF TrueEvents
  <2>4. e \in TrueEvents'
    BY <1>4, <1>6 DEF TrueEvents, Events
  <2> QED BY <2>3, <2>4 DEF TrueEvents
<1>9. pipe.queue \in Seq(TrueEvents') /\ line.held \in Seq(TrueEvents')
  <2>1. Seq(TrueEvents) \subseteq Seq(TrueEvents')
    BY <1>8, SeqMonotonic
  <2> QED BY <2>1 DEF IInv, ToldTruly
<1>10. line' \in Lines /\ pipe' \in Pipes /\ ToldTruly'
  <2> DEFINE T == TrueEvents'
  <2>1. T \in SUBSET Events /\ e \in T /\ pipe.queue \in Seq(T) /\ line.held \in Seq(T)
    BY <1>8, <1>9
  <2>2. Tell(e)
    BY <1>2
  <2> HIDE DEF T, e
  <2>3. /\ line' \in Lines /\ pipe' \in Pipes
        /\ pipe'.queue \in Seq(T) /\ line'.held \in Seq(T)
    BY <1>1, <2>1, <2>2, ToldIs
  <2> QED BY <2>3 DEF ToldTruly, T
<1>11. EndsOnce'
  BY <1>1, <1>4, <1>6, <1>7, TurnAssumption DEF IInv, EndsOnce, CodexStates, Turns
<1>12. InterruptOnRecord'
  <2>1. codex.end \in Ends
    BY <1>1 DEF CodexStates, Ends
  <2>2. \A u \in Turns : codex.end[u] # "none" => new[u] = codex.end[u]
    BY <1>4, <1>7
  <2>3. KnowsEnds(intr, new)
    BY <1>1, <1>4, <2>1, <2>2, EndsGrow DEF IInv, InterruptOnRecord
  <2> QED BY <1>3, <1>6, <2>3 DEF InterruptOnRecord
<1> QED BY <1>1, <1>3, <1>6, <1>10, <1>11, <1>12, Typed DEF IInv

(* A turn waits for an approval, or goes on.                               *)
LEMMA WaitPreserves ==
  ASSUME IInv, Wait
  PROVE  IInv'
<1>1. PICK kind \in {"waiting", "active"} : Tell(Event(kind, codex.turn))
  BY DEF Wait
<1>2. Spend("others") /\ UNCHANGED <<codex, norm, proj, prompt, intr, missed>>
  BY DEF Wait
<1>3. Event(kind, codex.turn) \in TrueEvents /\ TrueEvents \in SUBSET Events
  <2>1. codex.turn \in Turns
    BY Typed, TurnAssumption DEF IInv, CodexStates, Turns, Wait
  <2> QED BY <2>1 DEF Event, Events, TrueEvents
<1>4. /\ line' \in Lines /\ pipe' \in Pipes
      /\ pipe'.queue \in Seq(TrueEvents) /\ line'.held \in Seq(TrueEvents)
  BY <1>1, <1>3, ToldIs, Typed DEF IInv, ToldTruly
<1>5. TypeOK'
  BY <1>2, <1>4, Typed, BudgetTyped DEF IInv
<1> QED BY <1>2, <1>4, <1>5, MovesOn DEF IInv

----------------------------------------------------------------------------
(* The prompt service.                                                     *)

(* What the prompt service makes of its state is a state of it. *)
LEMMA PromptsTyped ==
  ASSUME NEW p \in PromptStates
  PROVE  /\ Cleared(p) \in PromptStates /\ Reconciled(p) \in PromptStates
         /\ \A phase \in {"steerable", "conflict", "unknown"} : SteerSettled(p, phase) \in PromptStates
<1>1. NoRecord \in Records /\ NoCall \in Calls /\ 0 \in 0..MaxTurns
  BY TurnAssumption DEF NoRecord, Records, NoCall, Calls
<1>2. \A q \in PromptStates : Cleared(q) \in PromptStates
  BY <1>1 DEF Cleared, PromptStates
<1>3. Reconciled(p) \in PromptStates
  <2>1. [p EXCEPT !.seen = TRUE] \in PromptStates
    BY DEF PromptStates
  <2> QED BY <1>2, <2>1 DEF Reconciled
<1>4. ASSUME NEW phase \in {"steerable", "conflict", "unknown"}
      PROVE  SteerSettled(p, phase) \in PromptStates
  <2> DEFINE q == [p EXCEPT !.call = NoCall, !.ended = 0]
             r == [q.rec EXCEPT !.phase = phase]
  <2>1. q \in PromptStates
    BY <1>1 DEF PromptStates
  <2>2. SteerSettled(p, phase) =
          IF p.ended = p.rec.turn THEN Cleared(q) ELSE [q EXCEPT !.rec = r]
    BY <2>1 DEF SteerSettled, PromptStates
  <2> HIDE DEF q
  <2>3. r \in Records
    BY <2>1 DEF PromptStates, Records
  <2> HIDE DEF r
  <2>4. [q EXCEPT !.rec = r] \in PromptStates
    BY <2>1, <2>3 DEF PromptStates
  <2> QED BY <1>2, <2>1, <2>2, <2>4
<1> QED BY <1>2, <1>3, <1>4

(* The answer to a start, or none. *)
LEMMA StartsTyped ==
  ASSUME prompt \in PromptStates
  PROVE  /\ StartAccepted(prompt.call.turn) \in PromptStates
         /\ \A known \in BOOLEAN : StartFailed(known) \in PromptStates
<1> DEFINE p == [prompt EXCEPT !.call = NoCall, !.early = 0, !.ended = 0]
           t == prompt.call.turn
<1>1. NoCall \in Calls /\ 0 \in 0..MaxTurns /\ t \in 0..MaxTurns
  BY TurnAssumption DEF PromptStates, NoCall, Calls
<1>2. p \in PromptStates
  BY <1>1 DEF PromptStates
<1>3. /\ \A phase \in {"unknown", "steerable", "accepted"} :
            [p EXCEPT !.rec = [phase |-> phase, turn |-> t]] \in PromptStates
      /\ [p EXCEPT !.rec = [phase |-> "unknown", turn |-> 0]] \in PromptStates
  <2>1. \A phase \in {"unknown", "steerable", "accepted"}, u \in 0..MaxTurns :
           [phase |-> phase, turn |-> u] \in Records
    BY DEF Records
  <2>2. \A r \in Records : [p EXCEPT !.rec = r] \in PromptStates
    BY <1>2 DEF PromptStates
  <2> QED BY <1>1, <2>1, <2>2
<1>4. Cleared(p) \in PromptStates
  BY <1>2, PromptsTyped
<1>5. StartAccepted(t) \in PromptStates
  <2> DEFINE phase == IF prompt.early = t THEN "steerable" ELSE "accepted"
  <2>1. phase \in {"unknown", "steerable", "accepted"}
    OBVIOUS
  <2>2. StartAccepted(t) =
          IF prompt.early \notin {0, t} THEN [p EXCEPT !.rec = [phase |-> "unknown", turn |-> t]]
          ELSE IF prompt.ended = t THEN Cleared(p)
          ELSE [p EXCEPT !.rec = [phase |-> phase, turn |-> t]]
    BY DEF StartAccepted
  <2> HIDE DEF phase, p, t
  <2> QED BY <1>3, <1>4, <2>1, <2>2
<1>6. \A known \in BOOLEAN : StartFailed(known) \in PromptStates
  BY <1>3, <1>4 DEF StartFailed
<1> QED BY <1>5, <1>6

(* A step of the prompt service is not heard by the interrupt service.     *)
LEMMA PromptMoves ==
  ASSUME IInv, prompt' \in PromptStates, budget' \in Budgets,
         UNCHANGED <<codex, line, pipe, norm, proj, intr, missed>>
  PROVE  IInv'
  BY Typed, Untouched DEF IInv

(* A prompt is sent as a start or a steer.                                 *)
LEMMA DispatchPreserves ==
  ASSUME IInv, Dispatch
  PROVE  IInv'
<1> DEFINE p == Reconciled(prompt)
<1>1. p \in PromptStates /\ budget' \in Budgets
  BY PromptsTyped, BudgetTyped, Typed DEF IInv, Dispatch
<1>2. StartPrompt(p) \/ SteerPrompt(p) \/ RefusePrompt(p)
  BY DEF Dispatch
<1> HIDE DEF p
<1>3. prompt' \in PromptStates
  <2>1. CASE StartPrompt(p)
    <3> DEFINE r == [phase |-> "starting", turn |-> 0]
               c == Call("start", 0)
    <3>1. r \in Records /\ c \in Calls
      BY TurnAssumption DEF Records, Call, Calls
    <3>2. prompt' = [p EXCEPT !.rec = r, !.seen = FALSE, !.call = c] \/ prompt' = Cleared(p)
      BY <2>1 DEF StartPrompt
    <3> HIDE DEF r, c
    <3>3. [p EXCEPT !.rec = r, !.seen = FALSE, !.call = c] \in PromptStates
      BY <1>1, <3>1 DEF PromptStates
    <3> QED BY <1>1, <3>2, <3>3, PromptsTyped
  <2>2. CASE SteerPrompt(p)
    <3> DEFINE r == [p.rec EXCEPT !.phase = "steering"]
               c == Call("steer", p.rec.turn)
    <3>1. r \in Records /\ c \in Calls
      BY <1>1 DEF PromptStates, Records, Call, Calls
    <3>2. prompt' = [p EXCEPT !.rec = r, !.call = c] \/ prompt' = SteerSettled(p, "conflict")
      BY <1>1, <2>2 DEF SteerPrompt, PromptStates
    <3> HIDE DEF r, c
    <3>3. [p EXCEPT !.rec = r, !.call = c] \in PromptStates
      BY <1>1, <3>1 DEF PromptStates
    <3> QED BY <1>1, <3>2, <3>3, PromptsTyped
  <2>3. CASE RefusePrompt(p)
    BY <1>1, <2>3 DEF RefusePrompt
  <2> QED BY <1>2, <2>1, <2>2, <2>3
<1> QED BY <1>1, <1>3, PromptMoves DEF Dispatch

(* A prompt reads the projection before it is sent.                        *)
LEMMA SnapshotPreserves ==
  ASSUME IInv, Snapshot
  PROVE  IInv'
  BY PromptsTyped, PromptMoves, Typed DEF IInv, Snapshot

(* The answer to a prompt is taken in.                                     *)
LEMMA PromptReturnsPreserves ==
  ASSUME IInv, PromptReturns
  PROVE  IInv'
<1>1. prompt \in PromptStates /\ codex \in CodexStates /\ budget \in Budgets
  BY Typed DEF IInv
<1>2. CASE PromptAnswered
  <2>1. prompt' \in PromptStates
    BY <1>1, <1>2, StartsTyped, PromptsTyped DEF PromptAnswered
  <2> QED BY <1>1, <1>2, <2>1, PromptMoves DEF PromptAnswered
<1>3. CASE PromptUnanswered
  <2>1. prompt' \in PromptStates
    BY <1>1, <1>3, StartsTyped, PromptsTyped DEF PromptUnanswered
  <2>2. PICK late \in BOOLEAN : codex' = [codex EXCEPT !.late = codex.late \/ late]
    BY <1>3 DEF PromptUnanswered
  <2>3. UNCHANGED <<line, pipe, norm, proj, intr, missed, budget>>
    BY <1>3 DEF PromptUnanswered
  <2> DEFINE l == codex.late \/ late
  <2>4. l \in BOOLEAN
    OBVIOUS
  <2> HIDE DEF l
  <2>5. /\ codex' \in CodexStates /\ codex'.turn = codex.turn /\ codex'.count = codex.count
        /\ codex'.end = codex.end
    BY <1>1, <2>2, <2>4 DEF CodexStates, l
  <2>6. TypeOK'
    BY <2>1, <2>3, <2>5, Typed DEF IInv
  <2>7. EndsOnce' /\ ToldTruly' /\ InterruptOnRecord'
    BY <2>3, <2>5 DEF IInv, EndsOnce, ToldTruly, TrueEvents, InterruptOnRecord
  <2> QED BY <2>6, <2>7 DEF IInv
<1> QED BY <1>2, <1>3 DEF PromptReturns

----------------------------------------------------------------------------
(* The pipeline.                                                           *)

(* The first notification tells the truth, and so do those after it. *)
LEMMA FirstIs ==
  ASSUME IInv, pipe.queue # <<>>
  PROVE  /\ First \in TrueEvents /\ First \in Events
         /\ Tail(pipe.queue) \in Seq(TrueEvents) /\ Tail(pipe.queue) \in Seq(Events)
         /\ First.turn \in 0..MaxTurns
         /\ First.kind = "completed" =>
              /\ First.turn \in Turns /\ First.how \in {"done", "interrupted"}
              /\ codex.end[First.turn] = First.how
         /\ First.kind = "started" => First.turn \in Turns
<1>1. First \in TrueEvents /\ Tail(pipe.queue) \in Seq(TrueEvents)
  BY HeadTailProperties DEF IInv, ToldTruly, First
<1>2. Seq(TrueEvents) \subseteq Seq(Events)
  <2>1. TrueEvents \subseteq Events
    BY DEF TrueEvents
  <2> QED BY <2>1, SeqMonotonic
<1>3. First \in Events /\ (First.kind = "completed" => First.how = codex.end[First.turn])
  BY <1>1 DEF TrueEvents
<1>4. \A e \in Events : /\ e.turn \in 0..MaxTurns
                        /\ e.kind = "started" => e.turn \in Turns
                        /\ e.kind = "completed" =>
                             e.turn \in Turns /\ e.how \in {"done", "interrupted"}
  BY TurnAssumption DEF Events, Turns
<1> QED BY <1>1, <1>2, <1>3, <1>4

(* The pipeline takes the first notification one stage further, drops it,  *)
(* or stops and drops them all.                                            *)
LEMMA PipeMoves ==
  ASSUME IInv
  PROVE  /\ Stop => pipe' \in Pipes /\ pipe'.queue \in Seq(TrueEvents)
         /\ \A at \in {"projected", "interrupt"} :
              pipe' = [pipe EXCEPT !.at = at] =>
                pipe' \in Pipes /\ pipe'.queue \in Seq(TrueEvents)
         /\ pipe' = [pipe EXCEPT !.at = "prompt"] =>
              pipe' \in Pipes /\ pipe'.queue \in Seq(TrueEvents)
         /\ pipe.queue # <<>> =>
              \A at \in {"idle", pipe.at} :
                pipe' = [pipe EXCEPT !.queue = Tail(@), !.at = at] =>
                  pipe' \in Pipes /\ pipe'.queue \in Seq(TrueEvents)
<1>1. pipe \in Pipes /\ pipe.queue \in Seq(TrueEvents)
  BY Typed DEF IInv, ToldTruly
<1>2. Stop => pipe' \in Pipes /\ pipe'.queue \in Seq(TrueEvents)
  <2>1. <<>> \in Seq(Events) /\ <<>> \in Seq(TrueEvents)
    BY EmptySeq
  <2> DEFINE q == <<>>
  <2>2. Stop => pipe' = [queue |-> q, at |-> "idle", stopped |-> TRUE]
    BY DEF Stop
  <2> HIDE DEF q
  <2>3. q \in Seq(Events) /\ q \in Seq(TrueEvents)
    BY <2>1 DEF q
  <2> DEFINE p == [queue |-> q, at |-> "idle", stopped |-> TRUE]
  <2>4. p \in Pipes /\ p.queue = q
    BY <2>3 DEF Pipes
  <2> HIDE DEF p
  <2> QED BY <2>2, <2>3, <2>4 DEF p
<1>3. \A at \in {"projected", "interrupt", "prompt"} :
        pipe' = [pipe EXCEPT !.at = at] => pipe' \in Pipes /\ pipe'.queue \in Seq(TrueEvents)
  BY <1>1 DEF Pipes
<1>4. ASSUME pipe.queue # <<>>, NEW at \in {"idle", pipe.at},
             pipe' = [pipe EXCEPT !.queue = Tail(@), !.at = at]
      PROVE  pipe' \in Pipes /\ pipe'.queue \in Seq(TrueEvents)
  <2> DEFINE q == Tail(pipe.queue)
  <2>1. q \in Seq(Events) /\ q \in Seq(TrueEvents)
    BY <1>4, FirstIs
  <2>2. pipe' = [pipe EXCEPT !.queue = q, !.at = at]
    BY <1>1, <1>4 DEF Pipes
  <2> HIDE DEF q
  <2> QED BY <1>1, <2>1, <2>2 DEF Pipes
<1> QED BY <1>2, <1>3, <1>4

(* The projection takes the first notification, or the pipeline stops.     *)
LEMMA ProjectPreserves ==
  ASSUME IInv, Project
  PROVE  IInv'
<1>1. pipe.queue # <<>> /\ UNCHANGED <<codex, line, prompt, intr, missed, budget>>
  BY DEF Project, AtStage
<1>2. pipe' \in Pipes /\ pipe'.queue \in Seq(TrueEvents)
  BY PipeMoves DEF Project
<1>3. norm \in Norms /\ proj \in Projs /\ First.turn \in 0..MaxTurns
  BY <1>1, FirstIs, Typed DEF IInv
<1>4. CASE UNCHANGED <<norm, proj>>
  BY <1>1, <1>2, <1>3, <1>4, Typed, MovesOn DEF IInv, ToldTruly
<1>5. CASE /\ norm' = CASE First.kind = "started" -> [active |-> First.turn,
                                                      known |-> norm.known \cup {First.turn}]
                        [] First.kind = "completed" -> [norm EXCEPT !.active = 0]
                        [] OTHER -> norm
           /\ proj' = [proj EXCEPT !.turn = CASE First.kind = "started" -> "in_progress"
                                              [] First.kind = "completed" -> "ended"
                                              [] First.kind = "waiting" -> "waiting"
                                              [] OTHER -> IF @ \in {"in_progress", "waiting"}
                                                          THEN "in_progress" ELSE "unknown"]
  <2>1. norm' \in Norms
    <3>1. First.kind = "started" => First.turn \in Turns
      BY <1>1, FirstIs
    <3>2. norm.known \cup {First.turn} \in SUBSET Turns \/ First.kind # "started"
      BY <1>3, <3>1 DEF Norms
    <3>3. 0 \in 0..MaxTurns
      BY TurnAssumption
    <3>4. CASE First.kind = "started"
      BY <1>3, <1>5, <3>2, <3>4 DEF Norms
    <3>5. CASE First.kind = "completed"
      BY <1>3, <1>5, <3>3, <3>5 DEF Norms
    <3>6. CASE First.kind \notin {"started", "completed"}
      BY <1>3, <1>5, <3>6
    <3> QED BY <3>4, <3>5, <3>6
  <2>2. proj' \in Projs
    BY <1>3, <1>5 DEF Projs
  <2> QED BY <1>1, <1>2, <2>1, <2>2, Typed, MovesOn DEF IInv, ToldTruly
<1> QED BY <1>4, <1>5 DEF Project

(* The end of a turn is noted for the operation that waits for Codex. *)
LEMMA HearInterruptPreserves ==
  ASSUME IInv, HearInterrupt
  PROVE  IInv'
<1>1. /\ pipe.queue # <<>>
      /\ UNCHANGED <<codex, line, norm, proj, prompt, missed, budget>>
  BY DEF HearInterrupt, AtStage
<1>2. pipe' \in Pipes /\ pipe'.queue \in Seq(TrueEvents)
  BY PipeMoves DEF HearInterrupt
<1>3. intr \in InterruptStates /\ KnowsEnds(intr, codex.end)
  BY Typed DEF IInv, InterruptOnRecord
<1>4. intr' \in InterruptStates /\ KnowsEnds(intr', codex.end)
  <2>1. CASE First.kind = "completed" /\ intr' = [intr EXCEPT !.ended = First.turn]
    <3>1. First.turn \in 0..MaxTurns /\ codex.end[First.turn] # "none"
      BY <1>1, <2>1, FirstIs
    <3>2. /\ intr' \in InterruptStates /\ intr'.rec = intr.rec /\ intr'.ended = First.turn
          /\ intr'.call = intr.call /\ intr'.waiting = intr.waiting
      BY <1>3, <2>1, <3>1 DEF InterruptStates
    <3> QED BY <1>3, <3>1, <3>2 DEF KnowsEnds
  <2>2. CASE intr' = intr
    BY <1>3, <2>2
  <2> QED BY <2>1, <2>2 DEF HearInterrupt
<1>5. TypeOK'
  BY <1>1, <1>2, <1>4, Typed DEF IInv
<1>6. ToldTruly'
  BY <1>1, <1>2 DEF IInv, ToldTruly, TrueEvents
<1> QED BY <1>1, <1>4, <1>5, <1>6, Untouched DEF IInv, InterruptOnRecord

(* A later turn closes the interrupt of one before and wakes who waits for *)
(* it, without a verdict.                                                  *)
LEMMA ActiveFromKnows ==
  ASSUME NEW i \in InterruptStates, NEW end \in Ends, KnowsEnds(i, end), i.call = NoCall,
         NEW t \in 0..MaxTurns
  PROVE  ActiveFrom(i, t) \in InterruptStates /\ KnowsEnds(ActiveFrom(i, t), end)
<1> DEFINE late == i.rec.phase \in {"accepted", "unknown"} /\ i.rec.turn # t
           ph == IF late THEN "terminal" ELSE i.rec.phase
           w == IF late /\ i.waiting = i.rec.turn THEN 0 ELSE i.waiting
           r == [i.rec EXCEPT !.phase = ph]
           j == [i EXCEPT !.active = t, !.rec = r, !.waiting = w]
<1>1. i.rec \in Interrupts /\ i.waiting \in 0..MaxTurns /\ w \in 0..MaxTurns
  BY TurnAssumption DEF InterruptStates
<1>2. ph \in {"none", "sending", "accepted", "unknown", "terminal"}
  BY <1>1 DEF Interrupts
<1>3. ActiveFrom(i, t) = j
  BY DEF ActiveFrom, InterruptStates
<1> HIDE DEF ph, w
<1>4. r \in Interrupts /\ r.phase = ph /\ r.turn = i.rec.turn /\ r.verdict = i.rec.verdict
  BY <1>1, <1>2 DEF Interrupts
<1> HIDE DEF r
<1>5. /\ j \in InterruptStates /\ j.rec = r /\ j.waiting = w /\ j.ended = i.ended
      /\ j.call = NoCall
  BY <1>1, <1>4 DEF InterruptStates
<1> HIDE DEF j
<1>6. KnowsEnds(j, end)
  <2>1. CASE late
    BY <1>4, <1>5, <2>1 DEF KnowsEnds, Unresolved, ph, w
  <2>2. CASE ~late
    BY <1>4, <1>5, <2>2 DEF KnowsEnds, Unresolved, ph, w
  <2> QED BY <2>1, <2>2
<1> QED BY <1>3, <1>5, <1>6

(* What the prompt service notes of an event it is about to wait for. *)
LEMMA HeardTyped ==
  ASSUME IInv, pipe.queue # <<>>
  PROVE  HeardByPrompt \in PromptStates
<1>1. prompt \in PromptStates /\ First.turn \in 0..MaxTurns
  BY FirstIs, Typed DEF IInv
<1>2. /\ [prompt EXCEPT !.early = First.turn] \in PromptStates
      /\ [prompt EXCEPT !.ended = First.turn] \in PromptStates
  BY <1>1 DEF PromptStates
<1> QED BY <1>1, <1>2 DEF HeardByPrompt

(* The interrupt service hears of the turn: that it began, or how it ended.*)
LEMMA ApplyInterruptPreserves ==
  ASSUME IInv, ApplyInterrupt
  PROVE  IInv'
<1>1. /\ pipe.queue # <<>> /\ intr.call = NoCall
      /\ UNCHANGED <<codex, line, norm, proj, missed, budget>>
  BY DEF ApplyInterrupt, AtStage, InterruptFree
<1>2. pipe' \in Pipes /\ pipe'.queue \in Seq(TrueEvents)
  BY PipeMoves DEF ApplyInterrupt
<1>3. prompt' \in PromptStates
  BY <1>1, HeardTyped, Typed DEF IInv, ApplyInterrupt
<1>4. intr \in InterruptStates /\ KnowsEnds(intr, codex.end) /\ codex.end \in Ends
  BY Typed DEF IInv, InterruptOnRecord, CodexStates, Ends
<1>5. intr' \in InterruptStates /\ KnowsEnds(intr', codex.end)
  <2> DEFINE x == IF intr.ended = First.turn THEN 0 ELSE intr.ended
             i == [intr EXCEPT !.ended = x]
  <2>1. CASE intr' = Settled(i, First.turn, First.how) /\ First.kind = "completed"
    <3>1. x \in 0..MaxTurns /\ x \in {0, intr.ended}
      BY <1>4, TurnAssumption DEF InterruptStates
    <3> HIDE DEF x
    <3>2. /\ i \in InterruptStates /\ i.rec = intr.rec /\ i.ended = x /\ i.call = NoCall
          /\ i.waiting = intr.waiting
      BY <1>1, <1>4, <3>1 DEF InterruptStates
    <3> HIDE DEF i
    <3>3. KnowsEnds(i, codex.end)
      BY <1>1, <1>4, <3>1, <3>2 DEF KnowsEnds
    <3>4. /\ First.turn \in Turns /\ First.how \in {"done", "interrupted"}
          /\ codex.end[First.turn] = First.how
      BY <1>1, <2>1, FirstIs
    <3> QED BY <1>4, <2>1, <3>2, <3>3, <3>4, SettledKnows
  <2>2. CASE intr' = ActiveFrom(intr, First.turn)
    <3>1. First.turn \in 0..MaxTurns
      BY <1>1, FirstIs
    <3> QED BY <1>1, <1>4, <2>2, <3>1, ActiveFromKnows
  <2>3. CASE intr' = intr
    BY <1>4, <2>3
  <2>4. \/ intr' = Settled(i, First.turn, First.how) /\ First.kind = "completed"
        \/ intr' = ActiveFrom(intr, First.turn)
        \/ intr' = intr
    BY <1>4 DEF ApplyInterrupt, InterruptStates
  <2> QED BY <2>1, <2>2, <2>3, <2>4
<1>6. TypeOK'
  BY <1>1, <1>2, <1>3, <1>5, Typed DEF IInv
<1>7. ToldTruly'
  BY <1>1, <1>2 DEF IInv, ToldTruly, TrueEvents
<1> QED BY <1>1, <1>5, <1>6, <1>7, Untouched DEF IInv, InterruptOnRecord

(* The prompt service hears of it next, and the notification is done with. *)
LEMMA ApplyPromptPreserves ==
  ASSUME IInv, ApplyPrompt
  PROVE  IInv'
<1>1. /\ pipe.queue # <<>> /\ pipe' = [pipe EXCEPT !.queue = Tail(@), !.at = "idle"]
      /\ UNCHANGED <<codex, line, norm, proj, intr, missed, budget>>
  BY DEF ApplyPrompt, AtStage
<1>2. pipe' \in Pipes /\ pipe'.queue \in Seq(TrueEvents)
  BY <1>1, PipeMoves
<1>3. prompt' \in PromptStates
  <2> DEFINE r == [prompt.rec EXCEPT !.phase = "steerable"]
  <2>1. prompt \in PromptStates
    BY Typed DEF IInv
  <2>2. \/ prompt' = [prompt EXCEPT !.rec = r]
        \/ prompt' = Cleared(prompt)
        \/ prompt' = prompt
    BY <2>1 DEF ApplyPrompt, PromptStates
  <2>3. r \in Records
    BY <2>1 DEF PromptStates, Records
  <2> HIDE DEF r
  <2>4. [prompt EXCEPT !.rec = r] \in PromptStates
    BY <2>1, <2>3 DEF PromptStates
  <2> QED BY <2>1, <2>2, <2>4, PromptsTyped
<1> QED BY <1>1, <1>2, <1>3, Typed, MovesOn DEF IInv, ToldTruly

----------------------------------------------------------------------------
(* The connection.                                                         *)

LEMMA FencePreserves ==
  ASSUME IInv, Fence
  PROVE  IInv'
<1>1. /\ pipe.queue # <<>> /\ line' = [line EXCEPT !.at = "commit"]
      /\ pipe' = [pipe EXCEPT !.queue = Tail(@)]
      /\ norm' = [active |-> First.turn, known |-> norm.known \cup ({First.turn} \ {0})]
      /\ UNCHANGED <<codex, proj, prompt, intr, missed, budget>>
  BY DEF Fence, AtStage
<1>2. line \in Lines /\ pipe \in Pipes /\ norm \in Norms
  BY Typed DEF IInv
<1>3. pipe' \in Pipes /\ pipe'.queue \in Seq(TrueEvents)
  <2> DEFINE q == Tail(pipe.queue)
  <2>1. q \in Seq(TrueEvents) /\ q \in Seq(Events)
    BY <1>1, FirstIs
  <2>2. pipe' = [pipe EXCEPT !.queue = q]
    BY <1>1
  <2> HIDE DEF q
  <2> QED BY <1>2, <2>1, <2>2 DEF Pipes
<1>4. line' \in Lines /\ line'.held \in Seq(TrueEvents)
  BY <1>1, <1>2 DEF Lines, IInv, ToldTruly
<1>5. norm' \in Norms
  <2>1. First.turn \in 0..MaxTurns
    BY <1>1, FirstIs
  <2>2. {First.turn} \ {0} \subseteq Turns
    BY <2>1, TurnAssumption DEF Turns
  <2> DEFINE k == norm.known \cup ({First.turn} \ {0})
  <2>3. k \in SUBSET Turns
    BY <1>2, <2>2 DEF Norms
  <2>4. norm' = [active |-> First.turn, known |-> k]
    BY <1>1
  <2> HIDE DEF k
  <2> QED BY <2>1, <2>3, <2>4 DEF Norms
<1> QED BY <1>1, <1>3, <1>4, <1>5, Typed, MovesOn DEF IInv

(* The stages of a recovery move no notification but those held, which go  *)
(* to the pipeline in their order.                                         *)
LEMMA RecoveryPreserves ==
  ASSUME IInv, Recovery
  PROVE  IInv'
<1>1. /\ line \in Lines /\ pipe \in Pipes /\ proj \in Projs /\ codex \in CodexStates
      /\ pipe.queue \in Seq(TrueEvents) /\ line.held \in Seq(TrueEvents)
  BY Typed DEF IInv, ToldTruly
<1>2. UNCHANGED <<codex, norm, prompt, intr, missed, budget>>
  BY DEF Recovery, MarkGap, Read, Commit, Resume, Drain, Publish, RecoveryEnds
<1>3. <<>> \in Seq(TrueEvents) /\ <<>> \in Seq(Events) /\ TrueEvents \subseteq Events
  BY EmptySeq DEF TrueEvents
<1>4. Seq(TrueEvents) \subseteq Seq(Events)
  BY <1>3, SeqMonotonic
<1>5. proj' \in Projs
  BY <1>1 DEF Recovery, MarkGap, Read, Commit, Resume, Drain, Publish, RecoveryEnds, Projs
<1>6. line' \in Lines /\ line'.held \in Seq(TrueEvents)
  <2> DEFINE z == <<>>
  <2>1. z \in Seq(TrueEvents) /\ z \in Seq(Events)
    BY <1>3
  <2>2. codex.turn \in 0..MaxTurns
    BY <1>1 DEF CodexStates
  <2>3. \/ \E at \in {"marked", "resume", "subscribed", "up"} : line' = [line EXCEPT !.at = at]
        \/ line' = [line EXCEPT !.at = "fence", !.read = codex.turn]
        \/ \E at \in {"publish", "ended"} : line' = [line EXCEPT !.at = at, !.held = z]
    BY DEF Recovery, MarkGap, Read, Commit, Resume, Drain, Publish, RecoveryEnds
  <2> HIDE DEF z
  <2>4. CASE \E at \in {"marked", "resume", "subscribed", "up"} : line' = [line EXCEPT !.at = at]
    BY <1>1, <2>4 DEF Lines
  <2>5. CASE line' = [line EXCEPT !.at = "fence", !.read = codex.turn]
    BY <1>1, <2>2, <2>5 DEF Lines
  <2>6. CASE \E at \in {"publish", "ended"} : line' = [line EXCEPT !.at = at, !.held = z]
    BY <1>1, <2>1, <2>6 DEF Lines
  <2> QED BY <2>3, <2>4, <2>5, <2>6
<1>7. pipe' \in Pipes /\ pipe'.queue \in Seq(TrueEvents)
  <2>1. CASE UNCHANGED pipe
    BY <1>1, <2>1
  <2>2. CASE Read
    <3> DEFINE e == [kind |-> "fence", turn |-> codex.turn]
               q == Append(pipe.queue, e)
    <3>1. codex.turn \in 0..MaxTurns
      BY <1>1 DEF CodexStates
    <3>2. e \in TrueEvents
      BY <3>1 DEF Events, TrueEvents
    <3> HIDE DEF e
    <3>3. q \in Seq(TrueEvents)
      BY <1>1, <3>2
    <3>4. pipe' = [pipe EXCEPT !.queue = q]
      BY <2>2 DEF Read, e
    <3> HIDE DEF q
    <3> QED BY <1>1, <1>4, <3>3, <3>4 DEF Pipes
  <2>3. CASE Drain
    <3> DEFINE q == IF pipe.stopped THEN pipe.queue ELSE pipe.queue \o line.held
    <3>1. q \in Seq(TrueEvents)
      BY <1>1
    <3>2. pipe' = [pipe EXCEPT !.queue = q]
      BY <2>3 DEF Drain
    <3> HIDE DEF q
    <3> QED BY <1>1, <1>4, <3>1, <3>2 DEF Pipes
  <2> QED BY <2>1, <2>2, <2>3 DEF Recovery, MarkGap, Commit, Resume, Publish, RecoveryEnds
<1>8. TypeOK'
  BY <1>2, <1>5, <1>6, <1>7, Typed DEF IInv
<1> QED BY <1>2, <1>6, <1>7, <1>8, MovesOn DEF IInv

(* A lost connection loses the last notifications and the answers on their *)
(* way, and leaves every call with an outcome to come.                     *)
LEMMA LosePreserves ==
  ASSUME IInv, Lose
  PROVE  IInv'
<1>1. /\ codex \in CodexStates /\ line \in Lines /\ pipe \in Pipes
      /\ norm \in Norms /\ proj \in Projs /\ prompt \in PromptStates
      /\ intr \in InterruptStates /\ missed \subseteq Turns /\ budget \in Budgets
      /\ pipe.queue \in Seq(TrueEvents) /\ line.held \in Seq(TrueEvents)
  BY Typed DEF IInv, ToldTruly
<1>2. /\ line' = [at |-> "lost", read |-> 0, held |-> <<>>]
      /\ Spend("losses") /\ UNCHANGED <<norm, proj>>
  BY DEF Lose
<1>3. PICK n \in (IF pipe.at = "idle" THEN 0 ELSE 1)..Len(pipe.queue) :
        /\ pipe' = [pipe EXCEPT !.queue = SubSeq(@, 1, n)]
        /\ LET lost == {pipe.queue[i] : i \in n + 1..Len(pipe.queue)}
                         \cup {line.held[i] : i \in DOMAIN line.held}
           IN  missed' = missed \cup {e.turn : e \in {x \in lost : x.kind = "completed"}}
  BY DEF Lose
<1>4. TrueEvents \subseteq Events
  BY DEF TrueEvents
<1>5. Seq(TrueEvents) \subseteq Seq(Events)
  BY <1>4, SeqMonotonic
<1>6. pipe' \in Pipes /\ pipe'.queue \in Seq(TrueEvents)
  <2> DEFINE q == SubSeq(pipe.queue, 1, n)
  <2>1. n \in 0..Len(pipe.queue)
    BY <1>1
  <2>2. q \in Seq(TrueEvents)
    BY <1>1, <2>1, SubSeqProperties
  <2>3. pipe' = [pipe EXCEPT !.queue = q]
    BY <1>3
  <2> HIDE DEF q
  <2> QED BY <1>1, <1>5, <2>2, <2>3 DEF Pipes
<1>7. missed' \subseteq Turns
  <2> DEFINE lost == {pipe.queue[i] : i \in n + 1..Len(pipe.queue)}
                       \cup {line.held[i] : i \in DOMAIN line.held}
  <2>1. lost \subseteq Events
    <3>1. n \in 0..Len(pipe.queue)
      BY <1>1
    <3>2. \A i \in n + 1..Len(pipe.queue) : pipe.queue[i] \in TrueEvents
      BY <1>1, <3>1, ElementOfSeq
    <3>3. \A i \in DOMAIN line.held : line.held[i] \in TrueEvents
      BY <1>1, ElementOfSeq
    <3> QED BY <1>4, <3>2, <3>3
  <2>2. missed' = missed \cup {e.turn : e \in {x \in lost : x.kind = "completed"}}
    BY <1>3
  <2> HIDE DEF lost
  <2>3. \A e \in lost : e.kind = "completed" => e.turn \in Turns
    BY <2>1 DEF Events
  <2> QED BY <1>1, <2>2, <2>3
<1>8. line' \in Lines /\ line'.held \in Seq(TrueEvents)
  <2> DEFINE z == <<>>
             l == [at |-> "lost", read |-> 0, held |-> z]
  <2>1. z \in Seq(TrueEvents) /\ z \in Seq(Events) /\ 0 \in 0..MaxTurns
    BY EmptySeq, TurnAssumption
  <2>2. line' = l
    BY <1>2
  <2> HIDE DEF z
  <2>3. l \in Lines /\ l.held = z
    BY <2>1 DEF Lines
  <2> QED BY <2>1, <2>2, <2>3
<1>9. \A c \in Calls : \A d \in Received(c) : d \in Calls /\ (d = NoCall <=> c = NoCall)
  <2> SUFFICES ASSUME NEW c \in Calls, NEW d \in Received(c)
               PROVE  d \in Calls /\ (d = NoCall <=> c = NoCall)
    OBVIOUS
  <2> DEFINE g == [c EXCEPT !.at = "gone"]
  <2>1. g \in Calls /\ g.at = "gone"
    BY DEF Calls
  <2>2. \/ d = c
        \/ d = g /\ c.at # "none"
    BY DEF Received
  <2>3. NoCall.at = "none"
    BY DEF NoCall
  <2> HIDE DEF g
  <2> QED BY <2>1, <2>2, <2>3
<1>10. prompt' \in PromptStates
  <2>1. PICK c \in Received(prompt.call) : prompt' = [prompt EXCEPT !.call = c]
    BY DEF Lose
  <2>2. c \in Calls
    BY <1>1, <1>9 DEF PromptStates
  <2> QED BY <1>1, <2>1, <2>2 DEF PromptStates
<1>11. intr' \in InterruptStates /\ KnowsEnds(intr', codex.end)
  <2>1. PICK c \in Received(intr.call) : intr' = [intr EXCEPT !.call = c]
    BY DEF Lose
  <2>2. c \in Calls /\ (c = NoCall <=> intr.call = NoCall)
    BY <1>1, <1>9 DEF InterruptStates
  <2>3. codex.end \in Ends /\ KnowsEnds(intr, codex.end)
    BY <1>1 DEF CodexStates, Ends, IInv, InterruptOnRecord
  <2> QED BY <1>1, <2>1, <2>2, <2>3, CallKnows
<1>12. /\ codex' \in CodexStates /\ codex'.turn = codex.turn /\ codex'.count = codex.count
       /\ codex'.end = codex.end
  <2>1. PICK late \in BOOLEAN : codex' = [codex EXCEPT !.late = codex.late \/ late]
    BY DEF Lose
  <2> DEFINE l == codex.late \/ late
  <2>2. l \in BOOLEAN
    OBVIOUS
  <2> HIDE DEF l
  <2> QED BY <1>1, <2>1, <2>2 DEF CodexStates, l
<1>13. TypeOK'
  BY <1>1, <1>2, <1>6, <1>7, <1>8, <1>10, <1>11, <1>12, BudgetTyped, Typed
<1>14. EndsOnce' /\ ToldTruly' /\ InterruptOnRecord'
  BY <1>6, <1>8, <1>11, <1>12 DEF IInv, EndsOnce, ToldTruly, TrueEvents, InterruptOnRecord
<1> QED BY <1>13, <1>14 DEF IInv

----------------------------------------------------------------------------
(* Every step preserves the invariant.                                     *)
LEMMA StepPreserves == IInv /\ [Next]_vars => IInv'
<1> SUFFICES ASSUME IInv, [Next]_vars PROVE IInv'
  OBVIOUS
<1>1. CASE PipelineStep
  BY <1>1, ProjectPreserves, HearInterruptPreserves, ApplyInterruptPreserves,
     ApplyPromptPreserves, FencePreserves DEF PipelineStep
<1>2. CASE PromptReturns \/ Dispatch \/ Snapshot
  BY <1>2, PromptReturnsPreserves, DispatchPreserves, SnapshotPreserves
<1>3. CASE InterruptEnds \/ Interrupt \/ AwaitTerminal \/ GiveUpWaiting
  BY <1>3, InterruptEndsPreserves, InterruptPreserves, WaitingPreserves
<1>4. CASE CodexStep
  BY <1>4, AnswerPromptPreserves, AnswerInterruptPreserves, BeginsPreserves, WaitPreserves,
     EndPreserves DEF CodexStep
<1>5. CASE Recovery \/ Lose
  BY <1>5, RecoveryPreserves, LosePreserves
<1>6. CASE UNCHANGED vars
  BY <1>6, Typed, Untouched DEF IInv, vars
<1> QED BY <1>1, <1>2, <1>3, <1>4, <1>5, <1>6 DEF Next

(* At first no turn was begun and nothing is asked. *)
LEMMA InitEstablishes == Init => IInv
<1> SUFFICES ASSUME Init PROVE IInv
  OBVIOUS
<1> DEFINE z == <<>>
<1>1. 0 \in 0..MaxTurns /\ z \in Seq(Events) /\ z \in Seq(TrueEvents)
  BY TurnAssumption, EmptySeq
<1>2. NoCall \in Calls /\ NoRecord \in Records /\ NoInterrupt \in Interrupts
  BY <1>1 DEF NoCall, Calls, NoRecord, Records, NoInterrupt, Interrupts
<1>3. /\ line = [at |-> "up", read |-> 0, held |-> z]
      /\ pipe = [queue |-> z, at |-> "idle", stopped |-> FALSE]
  BY DEF Init
<1> HIDE DEF z
<1>4. line \in Lines /\ line.held = z /\ pipe \in Pipes /\ pipe.queue = z
  BY <1>1, <1>3 DEF Lines, Pipes
<1>5. codex \in CodexStates /\ norm \in Norms /\ proj \in Projs /\ missed \subseteq Turns
  BY <1>1 DEF Init, CodexStates, Norms, Projs
<1>6. budget \in Budgets
  BY TurnAssumption DEF Init, Budgets
<1>7. prompt \in PromptStates /\ intr \in InterruptStates
  BY <1>1, <1>2 DEF Init, PromptStates, InterruptStates
<1>8. EndsOnce
  BY <1>1 DEF Init, EndsOnce
<1>9. InterruptOnRecord
  BY DEF Init, InterruptOnRecord, KnowsEnds, NoInterrupt, Unresolved
<1> QED BY <1>1, <1>4, <1>5, <1>6, <1>7, <1>8, <1>9, Typed DEF IInv, ToldTruly

(* The invariant of the turns, for any number of them, of prompts,         *)
(* interrupts and lost connections.                                        *)
THEOREM InvariantHolds == Spec => []IInv
  BY InitEstablishes, StepPreserves, PTL DEF Spec

(* The services, the pipeline and the projection have the types the code   *)
(* gives them.                                                             *)
THEOREM TypeCorrect == Spec => []TypeOK
<1>1. IInv => TypeOK
  BY DEF IInv
<1> QED BY <1>1, InvariantHolds, PTL

(* A verdict on an interrupt is how that very turn ended, and whoever      *)
(* waits for one waits for a turn whose verdict is still out, whatever     *)
(* answer is late or lost and however the connection fares                 *)
(* (applyTerminal, createTerminalWaiter, interrupt).                       *)
THEOREM VerdictTrueHolds == Spec => []VerdictTrue
<1>1. IInv => VerdictTrue
  BY DEF IInv, InterruptOnRecord, KnowsEnds, VerdictTrue
<1> QED BY <1>1, InvariantHolds, PTL

----------------------------------------------------------------------------
(* The turns of a thread that HostDeck alone drives: what is under way of  *)
(* each, and what the record of the prompt service has to do with it.      *)

(* The notifications that are under way: told, and not yet projected.      *)
Coming == IF line.at = "subscribed" THEN line.held
          ELSE IF pipe.at = "idle" THEN pipe.queue ELSE Tail(pipe.queue)

(* Nothing is under way but a fence. *)
OnlyFences(s) == \A i \in DOMAIN s : s[i].kind = "fence"
Quiet == OnlyFences(Coming)

(* What is under way of the turn that runs, or ran last, seen from the     *)
(* projection: it begins once, from an ended projection, its end is the    *)
(* last of it, and nothing else of it finds the projection ended.          *)
Orderly(s, running, state) ==
  \A i \in DOMAIN s :
    /\ s[i].kind = "started" => i = 1 /\ state = "ended"
    /\ s[i].kind = "completed" =>
         running = 0 /\ \A j \in DOMAIN s : i < j => s[j].kind = "fence"
    /\ i = 1 /\ state = "ended" => s[i].kind \in {"started", "fence"}

(* A fence is the last of what is under way, and only while it is awaited. *)
FenceLast(s, at) == \A i \in DOMAIN s : s[i].kind = "fence" => i = Len(s) /\ at = "fence"

(* Codex runs the last turn it began, or none, and every other has ended;  *)
(* those a start was answered for are among them.                          *)
InLine ==
  /\ codex.own \subseteq 1..codex.count
  /\ codex.turn \in {0, codex.count}
  /\ \A t \in 1..codex.count : t = codex.turn \/ codex.end[t] # "none"

(* Where the notifications may be at each stage of a recovery (reconcile,  *)
(* resubscribe).                                                           *)
QueueInPlace ==
  /\ pipe.at # "idle" => pipe.queue # <<>> /\ First.kind # "fence"
  /\ FenceLast(Coming, line.at)
  /\ line.at \in {"commit", "resume", "subscribed"} => pipe.queue = <<>> /\ ~pipe.stopped
  /\ line.held # <<>> => line.at = "subscribed"
  /\ pipe.stopped => pipe.queue = <<>>

(* What the record and the request of the prompt service have to do with   *)
(* each other, and that what it knows of a turn is so (start, steer).      *)
PromptTrue(p, count, end) ==
  /\ p.call = NoCall \/ p.call.kind \in {"start", "steer"}
  /\ p.call.kind = "start" =>
       /\ p.rec = [phase |-> "starting", turn |-> 0] /\ ~p.seen
       /\ p.call.at = "ok" => p.call.turn # 0
  /\ p.call.kind = "steer" => p.rec.phase = "steering"
  /\ p.rec.phase \notin {"none", "starting", "unknown"} => p.rec.turn # 0
  /\ p.rec.turn <= count /\ p.call.turn <= count
  /\ p.ended # 0 => end[p.ended] # "none"

PromptInPlace == PromptTrue(prompt, codex.count, codex.end)

(* Every turn so far is one HostDeck's start was answered for. *)
Alone == 1..codex.count \subseteq codex.own

(* Then the record is of the last turn; without one, and once an operation *)
(* that saw the turn running finds the projection ended, or its end was    *)
(* noted, nothing of a turn is under way and none runs; and a start that   *)
(* waits for its answer was sent in such a state.                          *)
RecordTrue(p, count, running, state, at, quiet) ==
  /\ p.rec.turn \in {0, count}
  /\ p.call.kind = "start" =>
       /\ p.call.at # "refused"
       /\ p.call.at = "ok" => p.call.turn = count
       /\ p.call.at = "sent" => quiet /\ running = 0 /\ state = "ended" /\ at = "up"
  /\ p.rec = NoRecord /\ p.call = NoCall => quiet /\ running = 0
  /\ p.seen => state # "ended" \/ (quiet /\ running = 0)
  /\ p.ended # 0 /\ p.ended = count => quiet

RecordInPlace == RecordTrue(prompt, codex.count, codex.turn, proj.turn, line.at, Quiet)

(* And the projection follows the turn: what it has not seen of it is      *)
(* under way, or was lost and is read before the connection is used again. *)
AheadInPlace ==
  /\ Orderly(Coming, codex.turn, proj.turn)
  /\ pipe.at # "idle" /\ First.kind = "completed" /\ First.turn = codex.count => Quiet
  /\ codex.turn # 0 =>
       /\ line.at \in {"fence", "commit"} => line.read = codex.turn
       /\ line.at \in {"resume", "subscribed", "publish", "up"} /\ ~pipe.stopped =>
            proj.turn # "ended" \/ ~Quiet

OwnInv ==
  /\ InLine /\ QueueInPlace /\ PromptInPlace
  /\ Alone => RecordInPlace /\ AheadInPlace

----------------------------------------------------------------------------
(* Sequences of notifications. *)

(* One more at the end. *)
LEMMA OrderlyAppend ==
  ASSUME NEW s \in Seq(Events), NEW e \in Events, NEW running, NEW later, NEW state,
         Orderly(s, running, state),
         \A i \in DOMAIN s : s[i].kind = "completed" => later = 0 /\ e.kind = "fence",
         e.kind = "started" => s = <<>> /\ state = "ended",
         e.kind = "completed" => later = 0,
         s = <<>> /\ state = "ended" => e.kind \in {"started", "fence"}
  PROVE  Orderly(Append(s, e), later, state)
<1> DEFINE q == Append(s, e)
<1>1. /\ DOMAIN q = 1..Len(s) + 1 /\ DOMAIN s = 1..Len(s) /\ Len(s) \in Nat
      /\ \A i \in 1..Len(s) : q[i] = s[i]
      /\ q[Len(s) + 1] = e
      /\ Len(s) = 0 => s = <<>>
  OBVIOUS
<1>2. s = <<>> => Len(s) = 0
  OBVIOUS
<1> HIDE DEF q
<1>3. SUFFICES ASSUME NEW i \in DOMAIN q
               PROVE  /\ q[i].kind = "started" => i = 1 /\ state = "ended"
                      /\ q[i].kind = "completed" =>
                           later = 0 /\ \A j \in DOMAIN q : i < j => q[j].kind = "fence"
                      /\ i = 1 /\ state = "ended" => q[i].kind \in {"started", "fence"}
  BY DEF Orderly, q
<1>4. CASE i = Len(s) + 1
  BY <1>1, <1>2, <1>4
<1>5. CASE i \in 1..Len(s)
  <2>1. q[i] = s[i] /\ i \in DOMAIN s
    BY <1>1, <1>5
  <2>2. /\ s[i].kind = "started" => i = 1 /\ state = "ended"
        /\ s[i].kind = "completed" => \A j \in DOMAIN s : i < j => s[j].kind = "fence"
        /\ i = 1 /\ state = "ended" => s[i].kind \in {"started", "fence"}
    BY <2>1 DEF Orderly
  <2>3. ASSUME s[i].kind = "completed", NEW j \in DOMAIN q, i < j PROVE q[j].kind = "fence"
    <3>1. CASE j = Len(s) + 1
      BY <1>1, <2>1, <2>3, <3>1
    <3>2. CASE j \in 1..Len(s)
      BY <1>1, <2>2, <2>3, <3>2
    <3> QED BY <1>1, <3>1, <3>2
  <2> QED BY <2>1, <2>2, <2>3
<1> QED BY <1>1, <1>3, <1>4, <1>5

(* The first one is taken. *)
LEMMA OrderlyTail ==
  ASSUME NEW s \in Seq(Events), s # <<>>, NEW running, NEW state, NEW next,
         Orderly(s, running, state),
         next # "ended" \/ Head(s).kind \in {"completed", "fence"}
  PROVE  /\ Head(s).kind # "fence" => Orderly(Tail(s), running, next)
         /\ Head(s).kind = "completed" => running = 0 /\ OnlyFences(Tail(s))
         /\ Head(s).kind \notin {"started", "fence"} => state # "ended"
<1> DEFINE q == Tail(s)
<1>1. /\ Len(s) \in Nat /\ Len(s) >= 1 /\ DOMAIN s = 1..Len(s)
      /\ DOMAIN q = 1..Len(s) - 1 /\ \A i \in DOMAIN q : q[i] = s[i + 1]
      /\ Head(s) = s[1]
  OBVIOUS
<1> HIDE DEF q
<1>2. /\ s[1].kind = "completed" => running = 0 /\ \A j \in DOMAIN s : 1 < j => s[j].kind = "fence"
      /\ state = "ended" => s[1].kind \in {"started", "fence"}
  BY <1>1 DEF Orderly
<1>3. \A i \in DOMAIN q : i + 1 \in DOMAIN s /\ 1 < i + 1
  BY <1>1
<1>4. s[1].kind = "completed" => running = 0 /\ OnlyFences(q)
  BY <1>1, <1>2, <1>3 DEF OnlyFences
<1>5. ASSUME s[1].kind # "fence" PROVE Orderly(q, running, next)
  <2> SUFFICES ASSUME NEW i \in DOMAIN q
               PROVE  /\ q[i].kind # "started"
                      /\ q[i].kind = "completed" =>
                           running = 0 /\ \A j \in DOMAIN q : i < j => q[j].kind = "fence"
                      /\ i = 1 /\ next = "ended" => q[i].kind = "fence"
    BY DEF Orderly
  <2>1. q[i] = s[i + 1] /\ i + 1 \in DOMAIN s /\ i + 1 # 1
    BY <1>1, <1>3
  <2>2. q[i].kind # "started"
    BY <2>1 DEF Orderly
  <2>3. ASSUME q[i].kind = "completed"
        PROVE  running = 0 /\ \A j \in DOMAIN q : i < j => q[j].kind = "fence"
    <3>1. running = 0 /\ \A j \in DOMAIN s : i + 1 < j => s[j].kind = "fence"
      BY <2>1, <2>3 DEF Orderly
    <3>2. \A j \in DOMAIN q : i < j => i + 1 < j + 1
      BY <1>1
    <3> QED BY <1>1, <1>3, <3>1, <3>2
  <2>4. next = "ended" => q[i].kind = "fence"
    BY <1>1, <1>4, <1>5 DEF OnlyFences
  <2> QED BY <2>2, <2>3, <2>4
<1> QED BY <1>1, <1>2, <1>4, <1>5 DEF q

(* The last ones are lost. *)
LEMMA OrderlyPrefix ==
  ASSUME NEW s \in Seq(Events), NEW n \in 0..Len(s), NEW running, NEW state
  PROVE  /\ Orderly(s, running, state) => Orderly(SubSeq(s, 1, n), running, state)
         /\ OnlyFences(s) => OnlyFences(SubSeq(s, 1, n))
<1> DEFINE q == SubSeq(s, 1, n)
<1>1. /\ DOMAIN q = 1..n /\ DOMAIN s = 1..Len(s) /\ \A i \in 1..n : q[i] = s[i]
  BY SubSeqProperties
<1> HIDE DEF q
<1>2. \A i \in DOMAIN q : i \in DOMAIN s /\ q[i] = s[i]
  BY <1>1
<1>3. OnlyFences(s) => OnlyFences(q)
  BY <1>2 DEF OnlyFences
<1>4. Orderly(s, running, state) => Orderly(q, running, state)
  BY <1>2 DEF Orderly
<1> QED BY <1>3, <1>4 DEF q

(* Nothing, or nothing but fences, is in order for any projection. *)
LEMMA FencesOrderly ==
  ASSUME NEW s, OnlyFences(s), NEW running, NEW state
  PROVE  Orderly(s, running, state)
  BY DEF OnlyFences, Orderly

(* And nothing is both. *)
LEMMA NothingIs ==
  ASSUME NEW at
  PROVE  OnlyFences(<<>>) /\ FenceLast(<<>>, at)
  BY DEF OnlyFences, FenceLast

(* What is appended does not change what comes first. *)
LEMMA AppendKeeps ==
  ASSUME NEW s \in Seq(Events), NEW e \in Events
  PROVE  /\ Append(s, e) # <<>>
         /\ s # <<>> => Head(Append(s, e)) = Head(s) /\ Tail(Append(s, e)) = Append(Tail(s), e)
<1>1. Append(s, e) # <<>>
  <2>1. Len(Append(s, e)) = Len(s) + 1 /\ Len(s) \in Nat
    OBVIOUS
  <2> QED BY <2>1, EmptySeq
<1>2. s # <<>> => Head(Append(s, e)) = Head(s) /\ Tail(Append(s, e)) = Append(Tail(s), e)
  OBVIOUS
<1> QED BY <1>1, <1>2

----------------------------------------------------------------------------
(* What the steps do to what is under way.                                 *)

(* The types once more, of the parts spoken of. *)
LEMMA OwnTypes ==
  ASSUME IInv, QueueInPlace
  PROVE  /\ Coming \in Seq(Events) /\ pipe.queue \in Seq(Events) /\ line.held \in Seq(Events)
         /\ codex \in CodexStates /\ line \in Lines /\ pipe \in Pipes /\ proj \in Projs
         /\ prompt \in PromptStates
         /\ codex.count \in Nat /\ codex.count <= MaxTurns /\ codex.turn \in 0..MaxTurns
         /\ prompt.rec.turn \in 0..MaxTurns /\ prompt.call.turn \in 0..MaxTurns
         /\ prompt.ended \in 0..MaxTurns
<1>1. /\ codex \in CodexStates /\ line \in Lines /\ pipe \in Pipes /\ proj \in Projs
      /\ prompt \in PromptStates
  BY Typed DEF IInv
<1>2. pipe.queue \in Seq(Events) /\ line.held \in Seq(Events)
  BY <1>1 DEF Lines, Pipes
<1>3. pipe.at # "idle" => Tail(pipe.queue) \in Seq(Events)
  BY <1>2, HeadTailProperties DEF QueueInPlace
<1>4. Coming \in Seq(Events)
  BY <1>2, <1>3 DEF Coming
<1>5. /\ codex.count \in Nat /\ codex.count <= MaxTurns /\ codex.turn \in 0..MaxTurns
      /\ prompt.rec.turn \in 0..MaxTurns /\ prompt.call.turn \in 0..MaxTurns
      /\ prompt.ended \in 0..MaxTurns
  BY <1>1, TurnAssumption DEF CodexStates, PromptStates, Records, Calls
<1> QED BY <1>1, <1>2, <1>4, <1>5

(* A notification comes last, or is not heard. *)
LEMMA ToldComing ==
  ASSUME IInv, QueueInPlace, NEW e \in Events, e.kind # "fence", Tell(e)
  PROVE  /\ line'.at = line.at /\ line'.read = line.read
         /\ pipe'.at = pipe.at /\ pipe'.stopped = pipe.stopped
         /\ pipe.at # "idle" => First' = First
         /\ QueueInPlace'
         /\ IF line.at \in {"subscribed", "publish", "up"} /\ ~pipe.stopped
            THEN Coming' = Append(Coming, e) ELSE Coming' = Coming
<1>1. /\ Coming \in Seq(Events) /\ pipe.queue \in Seq(Events) /\ line.held \in Seq(Events)
      /\ line \in Lines /\ pipe \in Pipes
  BY OwnTypes
<1>2. CASE line.at = "subscribed"
  <2> DEFINE h == Append(line.held, e)
  <2>1. line' = [line EXCEPT !.held = h] /\ pipe' = pipe
    BY <1>2 DEF Tell
  <2> HIDE DEF h
  <2>2. line'.at = line.at /\ line'.read = line.read /\ line'.held = h
    BY <1>1, <2>1 DEF Lines
  <2>3. Coming' = Append(Coming, e) /\ First' = First
    BY <1>2, <2>1, <2>2 DEF Coming, First, h
  <2>4. pipe.queue = <<>> /\ ~pipe.stopped /\ FenceLast(Coming, line.at)
    BY <1>2 DEF QueueInPlace
  <2>5. FenceLast(Append(Coming, e), line.at)
    BY <1>1, <1>2, <2>4 DEF FenceLast
  <2>6. QueueInPlace'
    BY <1>2, <2>1, <2>2, <2>3, <2>5 DEF QueueInPlace
  <2> QED BY <1>2, <2>1, <2>2, <2>3, <2>4, <2>6
<1>3. CASE line.at \in {"publish", "up"} /\ ~pipe.stopped
  <2> DEFINE q == Append(pipe.queue, e)
  <2>1. line' = line /\ pipe' = [pipe EXCEPT !.queue = q]
    BY <1>3 DEF Tell
  <2>2. /\ q # <<>>
        /\ pipe.queue # <<>> => Head(q) = Head(pipe.queue) /\ Tail(q) = Append(Tail(pipe.queue), e)
    BY <1>1, AppendKeeps
  <2> HIDE DEF q
  <2>3. pipe'.at = pipe.at /\ pipe'.stopped = pipe.stopped /\ pipe'.queue = q
    BY <1>1, <2>1 DEF Pipes
  <2>4. pipe.at # "idle" => pipe.queue # <<>> /\ First.kind # "fence"
    BY DEF QueueInPlace
  <2>5. Coming' = Append(Coming, e) /\ (pipe.at # "idle" => First' = First)
    BY <1>3, <2>1, <2>2, <2>3, <2>4 DEF Coming, First, q
  <2>6. FenceLast(Append(Coming, e), line.at)
    BY <1>1, <1>3 DEF FenceLast, QueueInPlace
  <2>7. QueueInPlace'
    BY <1>3, <2>1, <2>2, <2>3, <2>4, <2>5, <2>6 DEF QueueInPlace
  <2> QED BY <1>3, <2>1, <2>3, <2>5, <2>7
<1>4. CASE line.at # "subscribed" /\ ~(line.at \in {"publish", "up"} /\ ~pipe.stopped)
  <2>1. line' = line /\ pipe' = pipe
    BY <1>4 DEF Tell
  <2> QED BY <1>4, <2>1 DEF Coming, First, QueueInPlace
<1> QED BY <1>2, <1>3, <1>4

(* Steps that leave the connection and the pipeline alone. *)
LEMMA StillComing ==
  ASSUME UNCHANGED <<line, pipe>>
  PROVE  /\ Coming' = Coming /\ (Quiet' <=> Quiet) /\ First' = First
         /\ QueueInPlace => QueueInPlace'
  BY DEF Coming, Quiet, OnlyFences, First, QueueInPlace, FenceLast

(* Steps after which Codex has the same turns. *)
SameTurns ==
  codex'.turn = codex.turn /\ codex'.count = codex.count /\ codex'.own = codex.own
    /\ codex'.end = codex.end

(* They leave the turns in line. *)
LEMMA StillInLine ==
  ASSUME SameTurns
  PROVE  (InLine => InLine') /\ (Alone' <=> Alone)
  BY DEF SameTurns, InLine, Alone

(* alone, and of what is under way take some away in order.                *)
LEMMA SomeTaken ==
  ASSUME OwnInv, SameTurns, UNCHANGED <<prompt, proj>>
  PROVE  InLine' /\ PromptInPlace' /\ (Alone' <=> Alone)
  BY StillInLine DEF OwnInv, SameTurns, PromptInPlace

(* The stages of the first notification. *)
LEMMA StageComing ==
  ASSUME IInv, QueueInPlace, pipe.queue # <<>>, UNCHANGED line
  PROVE  /\ line.at # "subscribed"
         /\ \A at \in {"projected", "interrupt", "prompt"} :
              pipe.at \in {"projected", "interrupt"} /\ pipe' = [pipe EXCEPT !.at = at] =>
                Coming' = Coming /\ First' = First /\ QueueInPlace'
         /\ pipe.at = "idle" /\ First.kind # "fence" /\ pipe' = [pipe EXCEPT !.at = "projected"] =>
              /\ Coming # <<>> /\ Head(Coming) = First
              /\ Coming' = Tail(Coming) /\ First' = First /\ QueueInPlace'
         /\ pipe.at = "prompt" /\ pipe' = [pipe EXCEPT !.queue = Tail(@), !.at = "idle"] =>
              Coming' = Coming /\ QueueInPlace'
         /\ Stop => Coming' = <<>> /\ QueueInPlace'
<1>1. line.at # "subscribed" /\ line.at \notin {"commit", "resume"} /\ line.held = <<>>
  BY DEF QueueInPlace
<1>2. pipe \in Pipes /\ Coming \in Seq(Events) /\ pipe.queue \in Seq(Events)
  BY OwnTypes
<1>3. ASSUME NEW at \in {"projected", "interrupt", "prompt"},
             pipe.at \in {"projected", "interrupt"}, pipe' = [pipe EXCEPT !.at = at]
      PROVE  Coming' = Coming /\ First' = First /\ QueueInPlace'
  <2>1. pipe'.at = at /\ pipe'.queue = pipe.queue /\ pipe'.stopped = pipe.stopped
    BY <1>2, <1>3 DEF Pipes
  <2>2. Coming' = Coming /\ First' = First
    BY <1>1, <1>3, <2>1 DEF Coming, First
  <2> QED BY <1>1, <1>3, <2>1, <2>2 DEF QueueInPlace
<1>4. ASSUME pipe.at = "idle", First.kind # "fence", pipe' = [pipe EXCEPT !.at = "projected"]
      PROVE  /\ Coming # <<>> /\ Head(Coming) = First
             /\ Coming' = Tail(Coming) /\ First' = First /\ QueueInPlace'
  <2>1. pipe'.at = "projected" /\ pipe'.queue = pipe.queue /\ pipe'.stopped = pipe.stopped
    BY <1>2, <1>4 DEF Pipes
  <2>2. Coming = pipe.queue /\ Coming' = Tail(Coming) /\ First' = First
    BY <1>1, <1>4, <2>1 DEF Coming, First
  <2>3. FenceLast(Tail(Coming), line.at)
    <3>1. Coming # <<>> /\ FenceLast(Coming, line.at)
      BY <2>2 DEF QueueInPlace
    <3> QED BY <1>2, <3>1 DEF FenceLast
  <2> QED BY <1>1, <1>4, <2>1, <2>2, <2>3 DEF QueueInPlace, First
<1>5. ASSUME pipe.at = "prompt", pipe' = [pipe EXCEPT !.queue = Tail(@), !.at = "idle"]
      PROVE  Coming' = Coming /\ QueueInPlace'
  <2>1. pipe'.at = "idle" /\ pipe'.queue = Tail(pipe.queue) /\ pipe'.stopped = pipe.stopped
    BY <1>2, <1>5 DEF Pipes
  <2>2. Coming' = Coming
    BY <1>1, <1>5, <2>1 DEF Coming
  <2> QED BY <1>1, <2>1, <2>2 DEF QueueInPlace
<1>6. ASSUME Stop PROVE Coming' = <<>> /\ QueueInPlace'
  <2>1. pipe'.at = "idle" /\ pipe'.queue = <<>>
    BY <1>6 DEF Stop
  <2>2. Coming' = <<>>
    BY <1>1, <2>1 DEF Coming
  <2> QED BY <1>1, <2>1, <2>2, NothingIs DEF QueueInPlace
<1> QED BY <1>1, <1>3, <1>4, <1>5, <1>6

(* The recovery: a fence comes last, and what was held takes the place of  *)
(* what came before.                                                       *)
LEMMA RecoveryComing ==
  ASSUME IInv, QueueInPlace
  PROVE  /\ Read => Coming' = Append(Coming, [kind |-> "fence", turn |-> codex.turn])
         /\ Fence => Coming' = <<>> /\ line.at = "fence"
         /\ MarkGap \/ Resume \/ Drain \/ Publish \/ RecoveryEnds \/ Commit => Coming' = Coming
         /\ Commit => Coming = <<>>
         /\ Recovery \/ Fence => QueueInPlace'
         /\ Recovery \/ Fence => (pipe.at # "idle" => pipe'.at = pipe.at /\ First' = First)
         /\ Recovery \/ Fence => (pipe'.at # "idle" => pipe.at # "idle")
         /\ Recovery \/ Fence => pipe'.stopped = pipe.stopped
<1>1. /\ pipe \in Pipes /\ line \in Lines
      /\ Coming \in Seq(Events) /\ pipe.queue \in Seq(Events) /\ line.held \in Seq(Events)
  BY OwnTypes
<1>2. ASSUME Read
      PROVE  /\ Coming' = Append(Coming, [kind |-> "fence", turn |-> codex.turn])
             /\ QueueInPlace' /\ pipe'.at = pipe.at /\ pipe'.stopped = pipe.stopped
             /\ pipe.at # "idle" => First' = First
  <2> DEFINE e == [kind |-> "fence", turn |-> codex.turn]
             q == Append(pipe.queue, e)
  <2>1. /\ line.at = "marked" /\ ~pipe.stopped
        /\ line' = [line EXCEPT !.at = "fence", !.read = codex.turn]
        /\ pipe' = [pipe EXCEPT !.queue = q]
    BY <1>2 DEF Read
  <2>2. e.kind = "fence" /\ e \in Events
    BY OwnTypes DEF Events
  <2> HIDE DEF e
  <2>3. /\ q # <<>>
        /\ pipe.queue # <<>> => Head(q) = Head(pipe.queue) /\ Tail(q) = Append(Tail(pipe.queue), e)
    BY <1>1, <2>2, AppendKeeps
  <2> HIDE DEF q
  <2>4. /\ line'.at = "fence" /\ line'.held = line.held
        /\ pipe'.at = pipe.at /\ pipe'.stopped = pipe.stopped /\ pipe'.queue = q
    BY <1>1, <2>1 DEF Lines, Pipes
  <2>5. pipe.at # "idle" => pipe.queue # <<>> /\ First.kind # "fence"
    BY DEF QueueInPlace
  <2>6. Coming' = Append(Coming, e) /\ (pipe.at # "idle" => First' = First)
    BY <2>1, <2>3, <2>4, <2>5 DEF Coming, First, q
  <2>7. FenceLast(Append(Coming, e), "fence")
    <3>1. \A i \in DOMAIN Coming : Coming[i].kind # "fence"
      BY <2>1 DEF QueueInPlace, FenceLast
    <3> QED BY <1>1, <3>1 DEF FenceLast
  <2>8. QueueInPlace'
    BY <2>1, <2>3, <2>4, <2>5, <2>6, <2>7 DEF QueueInPlace
  <2> QED BY <2>4, <2>6, <2>8 DEF e
<1>3. ASSUME Fence
      PROVE  /\ Coming' = <<>> /\ line.at = "fence" /\ QueueInPlace'
             /\ pipe.at = "idle" /\ pipe'.at = "idle" /\ pipe'.stopped = pipe.stopped
  <2>1. /\ pipe.queue # <<>> /\ ~pipe.stopped /\ pipe.at = "idle" /\ First.kind = "fence"
        /\ line' = [line EXCEPT !.at = "commit"] /\ pipe' = [pipe EXCEPT !.queue = Tail(@)]
    BY <1>3 DEF Fence, AtStage
  <2>2. /\ line'.at = "commit" /\ line'.held = line.held /\ pipe'.at = "idle"
        /\ pipe'.stopped = pipe.stopped /\ pipe'.queue = Tail(pipe.queue)
    BY <1>1, <2>1 DEF Lines, Pipes
  <2>3. line.at # "subscribed" /\ FenceLast(Coming, line.at) /\ line.held = <<>>
    BY <2>1 DEF QueueInPlace
  <2>4. Coming = pipe.queue
    BY <2>1, <2>3 DEF Coming
  <2>5. Len(pipe.queue) = 1 /\ line.at = "fence"
    <3>1. 1 \in DOMAIN pipe.queue /\ Head(pipe.queue) = pipe.queue[1]
      BY <1>1, <2>1
    <3> QED BY <2>1, <2>3, <2>4, <3>1 DEF FenceLast, First
  <2>6. pipe'.queue = <<>>
    <3>1. Tail(pipe.queue) \in Seq(Events) /\ Len(Tail(pipe.queue)) = 0
      BY <1>1, <2>1, <2>5, HeadTailProperties
    <3> QED BY <2>2, <3>1, EmptySeq
  <2>7. Coming' = <<>>
    BY <2>2, <2>6 DEF Coming
  <2> QED BY <2>1, <2>2, <2>3, <2>5, <2>6, <2>7, NothingIs DEF QueueInPlace
<1>4. ASSUME MarkGap \/ Resume \/ Publish \/ RecoveryEnds \/ Commit
      PROVE  /\ Coming' = Coming /\ QueueInPlace' /\ UNCHANGED pipe /\ First' = First
             /\ Commit => Coming = <<>>
  <2>1. UNCHANGED pipe /\ First' = First
    BY <1>4 DEF MarkGap, Resume, Publish, RecoveryEnds, Commit, First
  <2>2. /\ line'.at \in {"marked", "resume", "subscribed", "up", "ended"}
        /\ line'.at = "subscribed" <=> line.at = "resume"
        /\ line'.at = "resume" <=> line.at = "commit"
        /\ line.at \in {"marked", "lost", "fence", "publish", "resume", "commit"}
        /\ line'.held \in {line.held, <<>>}
        /\ line.at = "fence" => pipe.stopped
    BY <1>1, <1>4 DEF MarkGap, Resume, Publish, RecoveryEnds, Commit, Lines
  <2>3. line.held = <<>> /\ line'.held = <<>>
    BY <2>2 DEF QueueInPlace
  <2>4. line.at \in {"commit", "resume"} => pipe.queue = <<>> /\ ~pipe.stopped /\ pipe.at = "idle"
    BY DEF QueueInPlace
  <2>5. Coming' = Coming /\ (Commit => Coming = <<>>)
    BY <2>1, <2>2, <2>3, <2>4 DEF Coming, Commit
  <2>6. FenceLast(Coming', line'.at)
    <3>1. FenceLast(Coming, line.at)
      BY DEF QueueInPlace
    <3>2. CASE line.at # "fence"
      BY <2>5, <3>1, <3>2 DEF FenceLast
    <3>3. CASE line.at = "fence"
      <4>1. Coming = <<>>
        BY <2>2, <3>3 DEF Coming, QueueInPlace
      <4> QED BY <2>5, <4>1, NothingIs
    <3> QED BY <3>2, <3>3
  <2>7. pipe'.at # "idle" => pipe'.queue # <<>> /\ First'.kind # "fence"
    BY <2>1 DEF QueueInPlace
  <2> QED BY <2>1, <2>2, <2>3, <2>4, <2>5, <2>6, <2>7 DEF QueueInPlace
<1>5. ASSUME Drain
      PROVE  /\ Coming' = Coming /\ QueueInPlace' /\ pipe.at = "idle"
             /\ pipe'.at = "idle" /\ pipe'.stopped = pipe.stopped
  <2>1. /\ line.at = "subscribed" /\ line' = [line EXCEPT !.at = "publish", !.held = <<>>]
        /\ pipe' = [pipe EXCEPT !.queue = IF pipe.stopped THEN @ ELSE @ \o line.held]
    BY <1>5 DEF Drain
  <2>2. pipe.queue = <<>> /\ ~pipe.stopped /\ pipe.at = "idle" /\ FenceLast(Coming, line.at)
    BY <2>1 DEF QueueInPlace
  <2>3. pipe.queue \o line.held = line.held
    BY <1>1, <2>2
  <2>4. /\ line'.at = "publish" /\ line'.held = <<>> /\ pipe'.at = "idle"
        /\ pipe'.stopped = pipe.stopped /\ pipe'.queue = line.held
    BY <1>1, <2>1, <2>2, <2>3 DEF Lines, Pipes
  <2>5. Coming' = Coming /\ FenceLast(Coming, line'.at)
    BY <2>1, <2>2, <2>4 DEF Coming, FenceLast
  <2> QED BY <2>2, <2>4, <2>5 DEF QueueInPlace
<1> QED BY <1>2, <1>3, <1>4, <1>5 DEF Recovery

----------------------------------------------------------------------------
(* The prompt service alone.                                               *)

(* A record is dropped for the projection only when nothing of its turn is *)
(* under way (reconcileTerminalProjection).                                *)
LEMMA ReconciledTrue ==
  ASSUME NEW p \in PromptStates, NEW count \in Nat, NEW end, p.call = NoCall,
         PromptTrue(p, count, end), NEW running, NEW at, NEW quiet \in BOOLEAN
  PROVE  /\ PromptTrue(Reconciled(p), count, end)
         /\ RecordTrue(p, count, running, proj.turn, at, quiet) =>
              RecordTrue(Reconciled(p), count, running, proj.turn, at, quiet)
         /\ Reconciled(p).call = NoCall
         /\ Reconciled(p).rec \in {p.rec, NoRecord}
<1> DEFINE seen == [p EXCEPT !.seen = TRUE]
<1>1. /\ seen.rec = p.rec /\ seen.call = p.call /\ seen.ended = p.ended /\ seen.seen
      /\ Cleared(p).rec = NoRecord /\ Cleared(p).call = p.call /\ Cleared(p).ended = 0
      /\ ~Cleared(p).seen
  BY DEF PromptStates, Cleared
<1>2. \/ Reconciled(p) = p
      \/ Reconciled(p) = seen /\ proj.turn # "ended"
      \/ Reconciled(p) = Cleared(p) /\ p.seen /\ proj.turn = "ended"
  BY DEF Reconciled
<1>3. NoRecord.phase = "none" /\ NoRecord.turn = 0 /\ NoCall.kind = "none" /\ NoCall.turn = 0
  BY DEF NoRecord, NoCall
<1> HIDE DEF seen
<1>4. CASE Reconciled(p) = p
  BY <1>4
<1>5. CASE Reconciled(p) = seen /\ proj.turn # "ended"
  BY <1>1, <1>3, <1>5 DEF PromptTrue, RecordTrue
<1>6. CASE Reconciled(p) = Cleared(p) /\ p.seen /\ proj.turn = "ended"
  BY <1>1, <1>3, <1>6 DEF PromptTrue, RecordTrue
<1> QED BY <1>2, <1>4, <1>5, <1>6

(* A steer ends: with the turn, if its end was noted, and else the record  *)
(* stays (steer).                                                          *)
LEMMA SteerSettledTrue ==
  ASSUME NEW p \in PromptStates, NEW count \in Nat, NEW end \in Ends, NEW running \in 0..MaxTurns,
         running \in {0, count}, running # 0 => end[running] = "none",
         PromptTrue(p, count, end), p.rec.turn # 0, p.rec.phase # "none",
         NEW state, NEW at, NEW quiet \in BOOLEAN,
         NEW phase \in {"steerable", "conflict", "unknown"}
  PROVE  /\ PromptTrue(SteerSettled(p, phase), count, end)
         /\ RecordTrue(p, count, running, state, at, quiet) =>
              RecordTrue(SteerSettled(p, phase), count, running, state, at, quiet)
         /\ SteerSettled(p, phase).rec.turn # p.rec.turn => end[p.rec.turn] # "none"
<1> DEFINE q == [p EXCEPT !.call = NoCall, !.ended = 0]
           r == [p.rec EXCEPT !.phase = phase]
           k == [q EXCEPT !.rec = r]
<1>1. /\ q.rec = p.rec /\ q.call = NoCall /\ q.ended = 0 /\ q.seen = p.seen
      /\ r.phase = phase /\ r.turn = p.rec.turn
      /\ k.rec = r /\ k.call = NoCall /\ k.ended = 0 /\ k.seen = p.seen
  BY DEF PromptStates, Records
<1>2. /\ Cleared(q).rec = NoRecord /\ Cleared(q).call = NoCall /\ Cleared(q).ended = 0
      /\ ~Cleared(q).seen
  BY DEF PromptStates, Cleared
<1>3. SteerSettled(p, phase) = IF p.ended = p.rec.turn THEN Cleared(q) ELSE k
  BY DEF SteerSettled, PromptStates
<1>4. /\ NoRecord.phase = "none" /\ NoRecord.turn = 0 /\ NoCall.kind = "none" /\ NoCall.turn = 0
      /\ NoCall.at = "none"
  BY DEF NoRecord, NoCall
<1>5. p.rec.turn \in 0..MaxTurns
  BY DEF PromptStates, Records
<1> HIDE DEF q, r, k
<1>6. CASE p.ended = p.rec.turn
  <2>1. end[p.rec.turn] # "none" /\ running # p.rec.turn
    BY <1>6 DEF PromptTrue
  <2> QED BY <1>2, <1>3, <1>4, <1>6, <2>1 DEF PromptTrue, RecordTrue
<1>7. CASE p.ended # p.rec.turn
  <2>1. r # NoRecord
    BY <1>1, <1>4
  <2> QED BY <1>1, <1>3, <1>4, <1>7, <2>1 DEF PromptTrue, RecordTrue
<1> QED BY <1>6, <1>7

(* A start is answered, or is not. *)
LEMMA StartSettledTrue ==
  ASSUME prompt \in PromptStates, NEW count \in Nat, NEW end \in Ends,
         NEW running \in 0..MaxTurns,
         running \in {0, count}, running # 0 => end[running] = "none",
         PromptTrue(prompt, count, end), prompt.call.kind = "start",
         NEW state, NEW at, NEW quiet \in BOOLEAN, NEW known \in BOOLEAN
  PROVE  LET t == prompt.call.turn
             ok == prompt.call.at = "ok"
         IN  /\ ok => PromptTrue(StartAccepted(t), count, end)
             /\ PromptTrue(StartFailed(known), count, end)
             /\ RecordTrue(prompt, count, running, state, at, quiet) =>
                  /\ ok => RecordTrue(StartAccepted(t), count, running, state, at, quiet)
                  /\ RecordTrue(StartFailed(FALSE), count, running, state, at, quiet)
<1> DEFINE p == [prompt EXCEPT !.call = NoCall, !.early = 0, !.ended = 0]
           t == prompt.call.turn
           Set(phase, u) == [p EXCEPT !.rec = [phase |-> phase, turn |-> u]]
<1>1. /\ NoRecord.phase = "none" /\ NoRecord.turn = 0 /\ NoCall.kind = "none" /\ NoCall.turn = 0
      /\ NoCall.at = "none"
  BY DEF NoRecord, NoCall
<1>2. /\ Cleared(p).rec = NoRecord /\ Cleared(p).call = NoCall /\ Cleared(p).ended = 0
      /\ ~Cleared(p).seen
  BY DEF PromptStates, Cleared
<1>3. ASSUME NEW phase, NEW u
      PROVE  /\ Set(phase, u).rec.phase = phase /\ Set(phase, u).rec.turn = u
             /\ Set(phase, u).call = NoCall /\ Set(phase, u).ended = 0
             /\ Set(phase, u).seen = prompt.seen
  BY DEF PromptStates
<1>4. t \in 0..MaxTurns /\ prompt.ended \in 0..MaxTurns
  BY DEF PromptStates, Calls
<1>5. /\ prompt.call # NoCall /\ ~prompt.seen /\ t <= count
      /\ prompt.call.at = "ok" => t # 0
      /\ prompt.ended # 0 => end[prompt.ended] # "none"
  BY <1>1 DEF PromptTrue
<1>6. ASSUME NEW phase \in {"unknown", "steerable", "accepted"}, NEW u \in 0..MaxTurns,
             u <= count, u = 0 => phase = "unknown"
      PROVE  /\ PromptTrue(Set(phase, u), count, end)
             /\ u \in {0, count} => RecordTrue(Set(phase, u), count, running, state, at, quiet)
  <2>1. Set(phase, u).rec # NoRecord
    BY <1>1, <1>3
  <2> HIDE DEF Set
  <2> QED BY <1>1, <1>3, <1>5, <1>6, <2>1 DEF PromptTrue, RecordTrue
<1>7. PromptTrue(Cleared(p), count, end)
  BY <1>1, <1>2 DEF PromptTrue
<1>8. quiet /\ running = 0 => RecordTrue(Cleared(p), count, running, state, at, quiet)
  BY <1>1, <1>2 DEF RecordTrue
<1>9. StartFailed(known) \in {Cleared(p), Set("unknown", 0)} /\ StartFailed(FALSE) = Set("unknown", 0)
  BY DEF StartFailed
<1>10. \/ StartAccepted(t) \in {Set("unknown", t), Set("steerable", t), Set("accepted", t)}
       \/ StartAccepted(t) = Cleared(p) /\ prompt.ended = t
  BY DEF StartAccepted
<1> HIDE DEF p, Set
<1>11. RecordTrue(prompt, count, running, state, at, quiet) /\ prompt.call.at = "ok" => t = count
  BY DEF RecordTrue
<1>12. prompt.ended = t /\ t # 0 /\ RecordTrue(prompt, count, running, state, at, quiet)
         /\ t = count => quiet /\ running = 0
  BY <1>5 DEF RecordTrue
<1>13. 0 \in 0..MaxTurns /\ 0 <= count
  BY TurnAssumption
<1> QED BY <1>4, <1>5, <1>6, <1>7, <1>8, <1>9, <1>10, <1>11, <1>12, <1>13

(* Steps of the prompt service: what it says stays so. *)
LEMMA OwnPromptMoves ==
  ASSUME OwnInv, SameTurns, UNCHANGED <<line, pipe, proj>>,
         PromptTrue(prompt', codex.count, codex.end),
         Alone => RecordTrue(prompt', codex.count, codex.turn, proj.turn, line.at, Quiet)
  PROVE  OwnInv'
<1>1. InLine' /\ (Alone' <=> Alone)
  BY StillInLine DEF OwnInv
<1>2. /\ Coming' = Coming /\ (Quiet' <=> Quiet) /\ First' = First
      /\ QueueInPlace'
  BY StillComing DEF OwnInv
<1>3. PromptInPlace'
  BY DEF PromptInPlace, SameTurns
<1>4. Alone => RecordInPlace'
  BY <1>2 DEF RecordInPlace, SameTurns, RecordTrue
<1>5. Alone => AheadInPlace'
  BY <1>2 DEF OwnInv, AheadInPlace, SameTurns
<1> QED BY <1>1, <1>2, <1>3, <1>4, <1>5 DEF OwnInv

(* Codex's count, and what is known of a turn it runs. *)
LEMMA Running ==
  ASSUME IInv, OwnInv
  PROVE  /\ codex.end \in Ends /\ codex.turn \in {0, codex.count}
         /\ codex.turn # 0 => codex.end[codex.turn] = "none"
         /\ codex.turn # 0 => codex.turn \in Turns
  BY OwnTypes, TurnAssumption DEF OwnInv, InLine, IInv, EndsOnce, CodexStates, Ends, Turns

(* A snapshot looks at the projection. *)
LEMMA OwnSnapshot ==
  ASSUME IInv, OwnInv, Snapshot
  PROVE  OwnInv'
<1>1. /\ prompt.call = NoCall /\ prompt' = Reconciled(prompt) /\ SameTurns
      /\ UNCHANGED <<line, pipe, proj>>
  BY DEF Snapshot, PromptFree, SameTurns
<1>2. prompt \in PromptStates /\ codex.count \in Nat /\ Quiet \in BOOLEAN
  BY OwnTypes DEF OwnInv, Quiet, OnlyFences
<1>3. /\ PromptTrue(prompt', codex.count, codex.end)
      /\ Alone => RecordTrue(prompt', codex.count, codex.turn, proj.turn, line.at, Quiet)
  BY <1>1, <1>2, ReconciledTrue DEF OwnInv, PromptInPlace, RecordInPlace
<1> QED BY <1>1, <1>3, OwnPromptMoves

(* A prompt is sent as a start only when no turn is known, and as a steer  *)
(* of the one that is (dispatch).                                          *)
LEMMA OwnDispatch ==
  ASSUME IInv, OwnInv, Dispatch
  PROVE  OwnInv'
<1> DEFINE p == Reconciled(prompt)
           Fits(q) == /\ PromptTrue(q, codex.count, codex.end)
                      /\ Alone => RecordTrue(q, codex.count, codex.turn, proj.turn, line.at, Quiet)
<1>1. /\ prompt.call = NoCall /\ SameTurns /\ UNCHANGED <<line, pipe, proj>>
      /\ StartPrompt(p) \/ SteerPrompt(p) \/ RefusePrompt(p)
  BY DEF Dispatch, PromptFree, SameTurns
<1>2. prompt \in PromptStates /\ codex.count \in Nat /\ Quiet \in BOOLEAN
  BY OwnTypes DEF OwnInv, Quiet, OnlyFences
<1>3. Fits(p) /\ p.call = NoCall
  BY <1>1, <1>2, ReconciledTrue DEF OwnInv, PromptInPlace, RecordInPlace
<1>4. p \in PromptStates
  BY <1>2, PromptsTyped
<1>5. /\ NoRecord.phase = "none" /\ NoRecord.turn = 0 /\ NoCall.kind = "none" /\ NoCall.turn = 0
      /\ NoCall.at = "none"
  BY DEF NoRecord, NoCall
<1> HIDE DEF p
<1>6. CASE StartPrompt(p)
  <2> DEFINE r == [phase |-> "starting", turn |-> 0]
             q == [p EXCEPT !.rec = r, !.seen = FALSE, !.call = Call("start", 0)]
  <2>1. /\ proj.turn = "ended" /\ p.rec = NoRecord
        /\ (line.at = "up" /\ prompt' = q) \/ prompt' = Cleared(p)
    BY <1>6 DEF StartPrompt, CanSend
  <2>2. Alone => Quiet /\ codex.turn = 0
    BY <1>3, <2>1 DEF RecordTrue
  <2>3. CASE line.at = "up" /\ prompt' = q
    <3>1. /\ q.rec = r /\ ~q.seen /\ q.ended = p.ended /\ q.call.kind = "start"
          /\ q.call.at = "sent" /\ q.call.turn = 0
      BY <1>4 DEF PromptStates, Call
    <3>2. r.phase = "starting" /\ r.turn = 0 /\ r # NoRecord
      BY <1>5
    <3>3. PromptTrue(q, codex.count, codex.end)
      <4> HIDE DEF q
      <4> QED BY <1>2, <1>3, <3>1, <3>2 DEF PromptTrue
    <3>4. Alone => RecordTrue(q, codex.count, codex.turn, proj.turn, line.at, Quiet)
      <4> HIDE DEF q
      <4> QED BY <1>3, <2>1, <2>2, <2>3, <3>1, <3>2 DEF RecordTrue
    <3> QED BY <1>1, <2>3, <3>3, <3>4, OwnPromptMoves
  <2>4. CASE prompt' = Cleared(p)
    <3>1. /\ prompt'.rec = NoRecord /\ prompt'.call = NoCall /\ prompt'.ended = 0
          /\ ~prompt'.seen
      BY <1>3, <1>4, <2>4 DEF PromptStates, Cleared
    <3>2. Fits(prompt')
      BY <1>2, <1>5, <2>2, <3>1 DEF PromptTrue, RecordTrue
    <3> QED BY <1>1, <3>2, OwnPromptMoves
  <2> QED BY <2>1, <2>3, <2>4
<1>7. CASE SteerPrompt(p)
  <2> DEFINE r == [p.rec EXCEPT !.phase = "steering"]
             q == [p EXCEPT !.rec = r, !.call = Call("steer", p.rec.turn)]
  <2>1. /\ p.rec.phase = "steerable" /\ p.rec.turn # 0
        /\ prompt' = q \/ prompt' = SteerSettled(p, "conflict")
    BY <1>3, <1>4, <1>7 DEF SteerPrompt, PromptStates, PromptTrue
  <2>2. CASE prompt' = q
    <3>1. /\ q.rec = r /\ q.seen = p.seen /\ q.ended = p.ended /\ q.call.kind = "steer"
          /\ q.call.turn = p.rec.turn /\ r.phase = "steering" /\ r.turn = p.rec.turn
          /\ r # NoRecord /\ q.call # NoCall
      BY <1>4, <1>5 DEF PromptStates, Records, Call
    <3> HIDE DEF q, r
    <3>2. Fits(q)
      BY <1>2, <1>3, <2>1, <3>1 DEF PromptTrue, RecordTrue
    <3> QED BY <1>1, <2>2, <3>2, OwnPromptMoves
  <2>3. CASE prompt' = SteerSettled(p, "conflict")
    <3>1. codex.turn \in 0..MaxTurns
      BY OwnTypes DEF OwnInv
    <3>2. Fits(prompt')
      BY <1>2, <1>3, <1>4, <2>1, <2>3, <3>1, Running, SteerSettledTrue
    <3> QED BY <1>1, <3>2, OwnPromptMoves
  <2> QED BY <2>1, <2>2, <2>3
<1>8. CASE RefusePrompt(p)
  BY <1>1, <1>3, <1>8, OwnPromptMoves DEF RefusePrompt
<1> QED BY <1>1, <1>6, <1>7, <1>8

(* The answer of a start or steer, or none. *)
LEMMA OwnPromptReturns ==
  ASSUME IInv, OwnInv, PromptReturns
  PROVE  OwnInv'
<1> DEFINE Fits(q) == /\ PromptTrue(q, codex.count, codex.end)
                      /\ Alone => RecordTrue(q, codex.count, codex.turn, proj.turn, line.at, Quiet)
<1>1. /\ prompt \in PromptStates /\ codex.count \in Nat /\ Quiet \in BOOLEAN
      /\ codex.turn \in 0..MaxTurns
  BY OwnTypes DEF OwnInv, Quiet, OnlyFences
<1>2. UNCHANGED <<line, pipe, proj>> /\ SameTurns
  BY OwnTypes DEF PromptReturns, PromptAnswered, PromptUnanswered, SameTurns, CodexStates, OwnInv
<1>3. Fits(prompt)
  BY DEF OwnInv, PromptInPlace, RecordInPlace
<1>4. CASE prompt.call.kind = "start"
  <2>1. \/ prompt' = StartAccepted(prompt.call.turn) /\ prompt.call.at = "ok"
        \/ prompt' = StartFailed(TRUE) /\ prompt.call.at = "refused"
        \/ prompt' = StartFailed(FALSE)
    BY <1>4 DEF PromptReturns, PromptAnswered, PromptUnanswered
  <2>2. Alone => prompt.call.at # "refused"
    BY <1>3, <1>4 DEF RecordTrue
  <2>3. Fits(prompt')
    BY <1>1, <1>3, <1>4, <2>1, <2>2, Running, StartSettledTrue
  <2> QED BY <1>2, <2>3, OwnPromptMoves
<1>5. CASE prompt.call.kind # "start"
  <2>1. PICK phase \in {"steerable", "conflict", "unknown"} : prompt' = SteerSettled(prompt, phase)
    BY <1>5 DEF PromptReturns, PromptAnswered, PromptUnanswered
  <2>2. prompt.rec.phase = "steering" /\ prompt.rec.turn # 0
    BY <1>3, <1>5 DEF PromptReturns, PromptAnswered, PromptUnanswered, PromptFree, PromptTrue, NoCall
  <2>3. Fits(prompt')
    BY <1>1, <1>3, <2>1, <2>2, Running, SteerSettledTrue
  <2> QED BY <1>2, <2>3, OwnPromptMoves
<1> QED BY <1>4, <1>5

----------------------------------------------------------------------------
(* The pipeline, Codex and the connection.                                 *)

(* When the projection takes the end of a turn, nothing of it is left; and *)
(* it never takes anything of a turn it has seen the end of.               *)
LEMMA OwnProject ==
  ASSUME IInv, OwnInv, Project
  PROVE  OwnInv'
<1>1. /\ pipe.queue # <<>> /\ pipe.at = "idle" /\ First.kind # "fence"
      /\ UNCHANGED <<line, prompt>> /\ SameTurns
  BY DEF Project, AtStage, SameTurns
<1>2. InLine' /\ PromptInPlace' /\ (Alone' <=> Alone)
  BY <1>1, StillInLine DEF OwnInv, PromptInPlace, SameTurns
<1>3. CASE Stop /\ UNCHANGED proj
  <2>1. Coming' = <<>> /\ QueueInPlace' /\ pipe'.at = "idle" /\ pipe'.stopped
    BY <1>1, <1>3, StageComing DEF OwnInv, Stop
  <2>2. OnlyFences(Coming') /\ Quiet' /\ Orderly(Coming', codex.turn, proj.turn)
    BY <2>1, NothingIs, FencesOrderly DEF Quiet
  <2>3. Alone => RecordInPlace' /\ AheadInPlace'
    BY <1>1, <1>3, <2>1, <2>2 DEF OwnInv, RecordInPlace, RecordTrue, AheadInPlace, SameTurns
  <2> QED BY <1>2, <2>1, <2>3 DEF OwnInv
<1>4. CASE /\ pipe' = [pipe EXCEPT !.at = "projected"]
           /\ proj' = [proj EXCEPT !.turn = CASE First.kind = "started" -> "in_progress"
                                              [] First.kind = "completed" -> "ended"
                                              [] First.kind = "waiting" -> "waiting"
                                              [] OTHER -> IF @ \in {"in_progress", "waiting"}
                                                          THEN "in_progress" ELSE "unknown"]
  <2>1. /\ Coming # <<>> /\ Head(Coming) = First /\ Coming' = Tail(Coming) /\ First' = First
        /\ QueueInPlace'
    BY <1>1, <1>4, StageComing DEF OwnInv
  <2>2. /\ Coming \in Seq(Events) /\ proj \in Projs /\ pipe \in Pipes
    BY OwnTypes DEF OwnInv
  <2>3. /\ First.kind = "completed" => proj'.turn = "ended"
        /\ First.kind # "completed" => proj'.turn # "ended"
        /\ pipe'.stopped = pipe.stopped
    BY <1>1, <1>4, <2>2 DEF Projs, Pipes
  <2>4. ~Quiet
    <3>1. 1 \in DOMAIN Coming /\ Coming[1] = First
      BY <2>1, <2>2
    <3> QED BY <1>1, <3>1 DEF Quiet, OnlyFences
  <2>5. ASSUME Alone PROVE RecordInPlace' /\ AheadInPlace'
    <3>1. Orderly(Coming, codex.turn, proj.turn)
      BY <2>5 DEF OwnInv, AheadInPlace
    <3>2. /\ Orderly(Coming', codex.turn, proj'.turn)
          /\ First.kind = "completed" => codex.turn = 0 /\ Quiet'
      BY <1>1, <2>1, <2>2, <2>3, <3>1, OrderlyTail DEF Quiet
    <3>3. RecordInPlace'
      BY <1>1, <2>3, <2>4, <2>5, <3>2 DEF OwnInv, RecordInPlace, RecordTrue, SameTurns
    <3>4. AheadInPlace'
      BY <1>1, <2>1, <2>3, <2>4, <2>5, <3>2 DEF OwnInv, AheadInPlace, SameTurns
    <3> QED BY <3>3, <3>4
  <2> QED BY <1>2, <2>1, <2>5 DEF OwnInv
<1> QED BY <1>3, <1>4 DEF Project

(* The interrupt observer notes an end, and the prompt observer what it is *)
(* about to wait for.                                                      *)
LEMMA OwnHear ==
  ASSUME IInv, OwnInv, HearInterrupt \/ ApplyInterrupt
  PROVE  OwnInv'
<1>1. /\ pipe.queue # <<>> /\ pipe.at \in {"projected", "interrupt"}
      /\ UNCHANGED <<line, proj>> /\ SameTurns
  BY DEF HearInterrupt, ApplyInterrupt, AtStage, SameTurns
<1>2. InLine' /\ (Alone' <=> Alone)
  BY <1>1, StillInLine DEF OwnInv
<1>3. CASE Stop /\ UNCHANGED prompt
  <2>1. Coming' = <<>> /\ QueueInPlace' /\ pipe'.at = "idle" /\ pipe'.stopped
    BY <1>1, <1>3, StageComing DEF OwnInv, Stop
  <2>2. OnlyFences(Coming') /\ Quiet' /\ Orderly(Coming', codex.turn, proj.turn)
    BY <2>1, NothingIs, FencesOrderly DEF Quiet
  <2>3. PromptInPlace'
    BY <1>1, <1>3 DEF OwnInv, PromptInPlace, SameTurns
  <2>4. Alone => RecordInPlace' /\ AheadInPlace'
    BY <1>1, <1>3, <2>1, <2>2 DEF OwnInv, RecordInPlace, RecordTrue, AheadInPlace, SameTurns
  <2> QED BY <1>2, <2>1, <2>3, <2>4 DEF OwnInv
<1>4. CASE /\ \E at \in {"interrupt", "prompt"} : pipe' = [pipe EXCEPT !.at = at]
           /\ prompt' \in {prompt, HeardByPrompt}
  <2>1. Coming' = Coming /\ (Quiet' <=> Quiet) /\ First' = First /\ QueueInPlace'
    BY <1>1, <1>4, StageComing DEF OwnInv, Quiet, OnlyFences
  <2>2. pipe'.at \in {"interrupt", "prompt"} /\ pipe'.stopped = pipe.stopped
    BY <1>1, <1>4, OwnTypes DEF OwnInv, Pipes
  <2>3. /\ prompt'.rec = prompt.rec /\ prompt'.call = prompt.call /\ prompt'.seen = prompt.seen
        /\ \/ prompt'.ended = prompt.ended
           \/ prompt'.ended = First.turn /\ First.kind = "completed"
    BY <1>4, OwnTypes DEF OwnInv, HeardByPrompt, PromptStates
  <2>4. First.kind = "completed" => codex.end[First.turn] # "none"
    BY <1>1, FirstIs
  <2>5. PromptInPlace'
    BY <1>1, <2>3, <2>4 DEF OwnInv, PromptInPlace, PromptTrue, SameTurns
  <2>6. ASSUME Alone PROVE RecordInPlace' /\ AheadInPlace'
    <3>1. First.kind = "completed" /\ First.turn = codex.count => Quiet
      BY <1>1, <2>6 DEF OwnInv, AheadInPlace
    <3>2. RecordInPlace'
      BY <1>1, <2>1, <2>3, <2>6, <3>1 DEF OwnInv, RecordInPlace, RecordTrue, SameTurns
    <3>3. AheadInPlace'
      BY <1>1, <2>1, <2>2, <2>6 DEF OwnInv, AheadInPlace, SameTurns
    <3> QED BY <3>2, <3>3
  <2> QED BY <1>2, <2>1, <2>5, <2>6 DEF OwnInv
<1> QED BY <1>3, <1>4 DEF HearInterrupt, ApplyInterrupt

(* The record ends with its turn. *)
LEMMA OwnApplyPrompt ==
  ASSUME IInv, OwnInv, ApplyPrompt
  PROVE  OwnInv'
<1>1. /\ pipe.queue # <<>> /\ pipe.at = "prompt" /\ prompt.call = NoCall
      /\ pipe' = [pipe EXCEPT !.queue = Tail(@), !.at = "idle"]
      /\ UNCHANGED <<line, proj>> /\ SameTurns
  BY DEF ApplyPrompt, AtStage, PromptFree, SameTurns
<1>2. InLine' /\ (Alone' <=> Alone)
  BY <1>1, StillInLine DEF OwnInv
<1>3. Coming' = Coming /\ (Quiet' <=> Quiet) /\ QueueInPlace'
  BY <1>1, StageComing DEF OwnInv, Quiet, OnlyFences
<1>4. pipe'.at = "idle" /\ pipe'.stopped = pipe.stopped
  BY <1>1, OwnTypes DEF OwnInv, Pipes
<1>5. Alone => AheadInPlace'
  BY <1>1, <1>3, <1>4 DEF OwnInv, AheadInPlace, SameTurns
<1>6. /\ NoRecord.phase = "none" /\ NoRecord.turn = 0 /\ NoCall.kind = "none" /\ NoCall.turn = 0
      /\ NoCall.at = "none"
  BY DEF NoRecord, NoCall
<1>7. prompt \in PromptStates /\ codex.count \in Nat
  BY OwnTypes DEF OwnInv
<1>8. CASE UNCHANGED prompt
  <2>1. PromptInPlace'
    BY <1>1, <1>8 DEF OwnInv, PromptInPlace, SameTurns
  <2>2. Alone => RecordInPlace'
    BY <1>1, <1>3, <1>8 DEF OwnInv, RecordInPlace, RecordTrue, SameTurns
  <2> QED BY <1>2, <1>3, <1>5, <2>1, <2>2 DEF OwnInv
<1>9. CASE /\ First.kind = "started" /\ prompt.rec.turn = First.turn
           /\ prompt' = [prompt EXCEPT !.rec.phase = "steerable"]
  <2>1. /\ prompt'.rec.phase = "steerable" /\ prompt'.rec.turn = prompt.rec.turn
        /\ prompt'.call = prompt.call /\ prompt'.seen = prompt.seen
        /\ prompt'.ended = prompt.ended
    BY <1>7, <1>9 DEF PromptStates, Records
  <2>2. prompt.rec.turn # 0
    BY <1>1, <1>9, FirstIs, TurnAssumption DEF Turns
  <2>3. PromptInPlace'
    BY <1>1, <1>6, <2>1, <2>2 DEF OwnInv, PromptInPlace, PromptTrue, SameTurns
  <2>4. Alone => RecordInPlace'
    BY <1>1, <1>3, <1>6, <2>1 DEF OwnInv, RecordInPlace, RecordTrue, SameTurns
  <2> QED BY <1>2, <1>3, <1>5, <2>3, <2>4 DEF OwnInv
<1>10. CASE /\ First.kind = "completed" /\ prompt.rec.turn = First.turn
            /\ prompt' = Cleared(prompt)
  <2>1. /\ prompt'.rec = NoRecord /\ prompt'.call = NoCall /\ ~prompt'.seen /\ prompt'.ended = 0
    BY <1>1, <1>7, <1>10 DEF PromptStates, Cleared
  <2>2. First.turn \in Turns /\ First.turn # 0 /\ codex.end[First.turn] # "none"
    BY <1>1, <1>10, FirstIs, TurnAssumption DEF Turns
  <2>3. PromptInPlace'
    BY <1>1, <1>6, <1>7, <2>1 DEF PromptInPlace, PromptTrue, SameTurns
  <2>4. ASSUME Alone PROVE RecordInPlace'
    <3>1. First.turn = codex.count /\ Quiet
      BY <1>1, <1>10, <2>2, <2>4 DEF OwnInv, RecordInPlace, RecordTrue, AheadInPlace
    <3>2. codex.turn = 0
      BY <2>2, <3>1, Running
    <3> QED BY <1>1, <1>3, <1>6, <2>1, <3>1, <3>2 DEF RecordInPlace, RecordTrue, SameTurns
  <2> QED BY <1>2, <1>3, <1>5, <2>3, <2>4 DEF OwnInv
<1> QED BY <1>8, <1>9, <1>10 DEF ApplyPrompt

(* A turn begins, and is the last. *)
LEMMA OwnBegins ==
  ASSUME IInv, OwnInv, NEW late \in BOOLEAN, NEW own \in SUBSET {codex.count + 1}, Begin(late, own)
  PROVE  /\ InLine' /\ QueueInPlace'
         /\ codex'.count = codex.count + 1 /\ codex'.turn = codex.count + 1
         /\ codex'.end = codex.end
         /\ Alone' => Alone /\ own # {}
         /\ line'.at = line.at /\ line'.read = line.read
         /\ pipe'.at = pipe.at /\ pipe'.stopped = pipe.stopped
         /\ pipe.at # "idle" => First' = First
         /\ LET e == Event("started", codex.count + 1)
            IN  /\ e \in Events /\ e.kind = "started"
                /\ IF line.at \in {"subscribed", "publish", "up"} /\ ~pipe.stopped
                   THEN Coming' = Append(Coming, e) ELSE Coming' = Coming
<1> DEFINE t == codex.count + 1
           e == Event("started", t)
<1>1. /\ codex.turn = 0 /\ codex.count < MaxTurns /\ Tell(e)
      /\ codex' = [codex EXCEPT !.turn = t, !.count = t, !.late = late, !.own = @ \cup own]
  BY DEF Begin, Free
<1>2. codex \in CodexStates /\ codex.count \in Nat /\ codex.count <= MaxTurns
  BY OwnTypes DEF OwnInv
<1>3. t \in Turns /\ t \in Nat
  BY <1>1, <1>2, TurnAssumption DEF Turns
<1>4. e \in Events /\ e.kind = "started"
  BY <1>3 DEF Event, Events
<1>5. /\ codex'.count = t /\ codex'.turn = t /\ codex'.end = codex.end
      /\ codex'.own = codex.own \cup own
  BY <1>1, <1>2 DEF CodexStates
<1>6. /\ line'.at = line.at /\ line'.read = line.read
      /\ pipe'.at = pipe.at /\ pipe'.stopped = pipe.stopped
      /\ pipe.at # "idle" => First' = First
      /\ QueueInPlace'
      /\ IF line.at \in {"subscribed", "publish", "up"} /\ ~pipe.stopped
         THEN Coming' = Append(Coming, e) ELSE Coming' = Coming
  <2> HIDE DEF e
  <2> QED BY <1>1, <1>4, ToldComing DEF OwnInv
<1>7. InLine'
  <2>1. \A u \in 1..codex.count : codex.end[u] # "none"
    BY <1>1 DEF OwnInv, InLine
  <2>2. codex'.own \subseteq 1..t
    <3>1. codex.own \subseteq 1..codex.count
      BY DEF OwnInv, InLine
    <3>2. 1..codex.count \subseteq 1..t /\ t \in 1..t
      BY <1>2
    <3>3. own \subseteq {t}
      OBVIOUS
    <3> HIDE DEF t
    <3> QED BY <1>5, <3>1, <3>2, <3>3
  <2>3. \A u \in 1..t : u = t \/ u \in 1..codex.count
    BY <1>2
  <2> QED BY <1>5, <2>1, <2>2, <2>3 DEF InLine
<1>8. ASSUME Alone' PROVE Alone /\ own # {}
  <2>1. 1..t \subseteq codex.own \cup own
    BY <1>5, <1>8 DEF Alone
  <2>2. codex.own \subseteq Turns
    BY <1>2 DEF CodexStates
  <2>3. \A u \in 1..codex.count : u \in 1..t /\ u # t
    BY <1>2
  <2>4. Alone
    BY <2>1, <2>3 DEF Alone
  <2>5. own # {}
    <3>1. t \in 1..t
      BY <1>3, TurnAssumption DEF Turns
    <3>2. own = {} => t \in codex.own
      BY <2>1, <3>1
    <3>3. t \notin codex.own
      BY <1>2 DEF OwnInv, InLine
    <3> QED BY <3>2, <3>3
  <2> QED BY <2>4, <2>5
<1> QED BY <1>4, <1>5, <1>6, <1>7, <1>8

(* A start of HostDeck finds nothing of a turn under way, and the turn it  *)
(* is answered with is told first.                                         *)
LEMMA OwnAnswerPrompt ==
  ASSUME IInv, OwnInv, AnswerPrompt
  PROVE  OwnInv'
<1>1. /\ prompt.call.at = "sent" /\ UNCHANGED <<norm, proj, intr, missed, budget>>
      /\ prompt \in PromptStates /\ codex \in CodexStates /\ codex.count \in Nat
      /\ codex.count <= MaxTurns /\ pipe.queue \in Seq(Events) /\ Coming \in Seq(Events)
      /\ prompt.ended \in 0..MaxTurns
  BY OwnTypes DEF OwnInv, AnswerPrompt
<1>2. NoRecord.phase = "none" /\ NoRecord.turn = 0 /\ NoCall.kind = "none" /\ NoCall.turn = 0
      /\ NoCall.at = "none"
  BY DEF NoRecord, NoCall
<1>3. CASE /\ prompt.call.kind = "start" /\ Begin(codex.late, {codex.count + 1})
           /\ prompt' = [prompt EXCEPT !.call.at = "ok", !.call.turn = codex.count + 1]
  <2> DEFINE t == codex.count + 1
             e == Event("started", t)
  <2>1. /\ InLine' /\ QueueInPlace' /\ codex'.count = t /\ codex'.turn = t
        /\ codex'.end = codex.end /\ (Alone' => Alone)
        /\ line'.at = line.at /\ line'.read = line.read
        /\ pipe'.at = pipe.at /\ pipe'.stopped = pipe.stopped
        /\ pipe.at # "idle" => First' = First
        /\ e \in Events /\ e.kind = "started"
        /\ IF line.at \in {"subscribed", "publish", "up"} /\ ~pipe.stopped
           THEN Coming' = Append(Coming, e) ELSE Coming' = Coming
    <3>1. codex.late \in BOOLEAN
      BY <1>1 DEF CodexStates
    <3> QED BY <1>3, <3>1, OwnBegins
  <2>2. /\ prompt'.rec = prompt.rec /\ prompt'.seen = prompt.seen /\ prompt'.ended = prompt.ended
        /\ prompt'.call.kind = "start" /\ prompt'.call.at = "ok" /\ prompt'.call.turn = t
    BY <1>1, <1>3 DEF PromptStates, Calls
  <2>3. prompt.rec.turn = 0 /\ prompt.rec # NoRecord /\ ~prompt.seen
    BY <1>2, <1>3 DEF OwnInv, PromptInPlace, PromptTrue
  <2>4. t \in Nat /\ t > codex.count /\ t \in Turns
    BY <1>1, <1>3, TurnAssumption DEF Begin, Free, Turns
  <2> HIDE DEF t, e
  <2>5. PromptInPlace'
    <3>1. /\ prompt.rec = [phase |-> "starting", turn |-> 0]
          /\ prompt.ended # 0 => codex.end[prompt.ended] # "none"
      BY <1>3 DEF OwnInv, PromptInPlace, PromptTrue, NoCall
    <3>2. prompt'.call # NoCall /\ t # 0 /\ 0 <= t /\ t <= t
      BY <1>1, <1>2, <2>2, <2>4
    <3>3. prompt'.rec.turn = 0 /\ prompt'.rec.phase = "starting"
      BY <2>2, <3>1
    <3> QED BY <2>1, <2>2, <2>3, <3>1, <3>2, <3>3 DEF PromptInPlace, PromptTrue
  <2>6. prompt.ended # t
    BY <1>3, <2>4, TurnAssumption DEF OwnInv, PromptInPlace, PromptTrue, IInv, EndsOnce, Turns
  <2>7. pipe.at # "idle" /\ First.kind = "completed" => First.turn # t
    <3>1. codex.end[t] = "none"
      BY <2>4 DEF IInv, EndsOnce
    <3> QED BY <3>1, FirstIs DEF OwnInv, QueueInPlace
  <2>8. ASSUME Alone PROVE RecordInPlace' /\ AheadInPlace'
    <3>1. /\ Quiet /\ codex.turn = 0 /\ proj.turn = "ended" /\ line.at = "up"
          /\ Orderly(Coming, codex.turn, proj.turn)
      BY <1>1, <1>3, <2>8 DEF OwnInv, RecordInPlace, RecordTrue, AheadInPlace
    <3>2. Coming = <<>>
      <4>1. \A i \in DOMAIN Coming : FALSE
        BY <3>1 DEF OwnInv, QueueInPlace, FenceLast, Quiet, OnlyFences
      <4>2. Len(Coming) = 0
        <5>1. DOMAIN Coming = 1..Len(Coming) /\ Len(Coming) \in Nat
          BY <1>1
        <5>2. Len(Coming) # 0 => 1 \in 1..Len(Coming)
          BY <5>1
        <5> QED BY <4>1, <5>1, <5>2
      <4> QED BY <1>1, <4>2, EmptySeq
    <3>3. Orderly(Coming', t, "ended")
      <4>1. Orderly(Append(<<>>, e), t, "ended")
        <5>1. <<>> \in Seq(Events) /\ DOMAIN <<>> = {}
          BY EmptySeq
        <5>2. Orderly(<<>>, 0, "ended") /\ \A i \in DOMAIN <<>> : FALSE
          BY <5>1 DEF Orderly
        <5> QED BY <2>1, <5>1, <5>2, OrderlyAppend
      <4> QED BY <2>1, <3>2, <4>1, NothingIs, FencesOrderly
    <3>4. ~pipe.stopped => ~Quiet'
      <4>1. ~pipe.stopped => 1 \in DOMAIN Coming' /\ Coming'[1] = e
        BY <2>1, <3>1, <3>2
      <4> QED BY <2>1, <4>1 DEF Quiet, OnlyFences
    <3>5. RecordInPlace'
      BY <1>2, <2>1, <2>2, <2>3, <2>4, <2>6 DEF RecordInPlace, RecordTrue
    <3>6. AheadInPlace'
      BY <1>1, <2>1, <2>7, <3>1, <3>3, <3>4 DEF AheadInPlace
    <3> QED BY <3>5, <3>6
  <2> QED BY <2>1, <2>5, <2>8 DEF OwnInv
<1>4. CASE /\ UNCHANGED <<codex, line, pipe>>
           /\ \E at \in {"ok", "refused"} :
                 /\ prompt' = [prompt EXCEPT !.call.at = at]
                 /\ prompt.call.kind = "start" => at = "refused" /\ codex.turn # 0
  <2>1. PICK at \in {"ok", "refused"} :
          /\ prompt' = [prompt EXCEPT !.call.at = at]
          /\ prompt.call.kind = "start" => at = "refused" /\ codex.turn # 0
    BY <1>4
  <2>2. /\ prompt'.rec = prompt.rec /\ prompt'.seen = prompt.seen /\ prompt'.ended = prompt.ended
        /\ prompt'.call.kind = prompt.call.kind /\ prompt'.call.at = at
        /\ prompt'.call.turn = prompt.call.turn
    BY <1>1, <2>1 DEF PromptStates, Calls
  <2>3. prompt'.call # NoCall /\ prompt.call # NoCall
    BY <1>1, <1>2, <2>2
  <2>4. PromptTrue(prompt', codex.count, codex.end)
    BY <2>1, <2>2, <2>3 DEF OwnInv, PromptInPlace, PromptTrue
  <2>5. Alone => RecordTrue(prompt', codex.count, codex.turn, proj.turn, line.at, Quiet)
    BY <1>1, <2>1, <2>2, <2>3 DEF OwnInv, RecordInPlace, RecordTrue
  <2> QED BY <1>1, <1>4, <2>4, <2>5, OwnPromptMoves DEF SameTurns
<1> QED BY <1>3, <1>4 DEF AnswerPrompt

(* A turn that is not HostDeck's, or that nobody waits for any more. *)
LEMMA OwnOthersBegin ==
  ASSUME IInv, OwnInv, BeginLate \/ BeginForeign
  PROVE  OwnInv'
<1>1. PICK late \in BOOLEAN : Begin(late, {})
  BY OwnTypes DEF BeginLate, BeginForeign, OwnInv, CodexStates
<1>2. UNCHANGED prompt
  BY DEF BeginLate, BeginForeign
<1>3. /\ InLine' /\ QueueInPlace' /\ ~Alone'
      /\ codex'.count = codex.count + 1 /\ codex'.end = codex.end
  BY <1>1, OwnBegins
<1>4. PromptInPlace'
  BY <1>2, <1>3, OwnTypes DEF OwnInv, PromptInPlace, PromptTrue
<1> QED BY <1>3, <1>4 DEF OwnInv

(* What a running turn tells comes after whatever is under way of it, and  *)
(* finds its beginning projected or under way.                             *)
LEMMA OwnTold ==
  ASSUME IInv, OwnInv, Alone, codex.turn # 0, NEW e \in Events,
         e.kind \in {"completed", "waiting", "active"}, Tell(e),
         NEW later \in {0, codex.turn}, e.kind = "completed" => later = 0,
         codex'.turn = later, codex'.count = codex.count, UNCHANGED <<prompt, proj>>
  PROVE  RecordInPlace' /\ AheadInPlace'
<1> DEFINE heard == line.at \in {"subscribed", "publish", "up"} /\ ~pipe.stopped
<1>1. /\ line'.at = line.at /\ line'.read = line.read
      /\ pipe'.at = pipe.at /\ pipe'.stopped = pipe.stopped
      /\ pipe.at # "idle" => First' = First /\ pipe.queue # <<>>
      /\ IF heard THEN Coming' = Append(Coming, e) ELSE Coming' = Coming
  BY ToldComing DEF OwnInv, QueueInPlace
<1>2. Coming \in Seq(Events)
  BY OwnTypes DEF OwnInv
<1>3. /\ RecordTrue(prompt, codex.count, codex.turn, proj.turn, line.at, Quiet)
      /\ Orderly(Coming, codex.turn, proj.turn)
      /\ codex.turn = codex.count /\ codex.end[codex.count] = "none"
      /\ prompt.ended # 0 => codex.end[prompt.ended] # "none"
  BY Running DEF OwnInv, RecordInPlace, AheadInPlace, PromptInPlace, PromptTrue
<1>4. heard => proj.turn # "ended" \/ ~Quiet
  BY DEF OwnInv, AheadInPlace
<1>5. ASSUME heard PROVE ~Quiet'
  <2>1. Len(Coming) + 1 \in DOMAIN Coming' /\ Coming'[Len(Coming) + 1] = e
    BY <1>1, <1>2, <1>5
  <2> QED BY <2>1 DEF Quiet, OnlyFences
<1>6. ~heard => (Quiet' <=> Quiet)
  BY <1>1 DEF Quiet, OnlyFences
<1>7. \A i \in DOMAIN Coming : Coming[i].kind # "completed"
  BY <1>3 DEF Orderly
<1>8. Orderly(Coming, later, proj.turn)
  BY <1>3, <1>7 DEF Orderly
<1>9. Orderly(Coming', later, proj.turn)
  <2>1. CASE heard
    <3>1. Coming = <<>> => proj.turn # "ended"
      BY <1>4, <2>1, NothingIs DEF Quiet
    <3>2. Orderly(Append(Coming, e), later, proj.turn)
      BY <1>2, <1>7, <1>8, <3>1, OrderlyAppend
    <3> QED BY <1>1, <2>1, <3>2
  <2> QED BY <1>1, <1>8, <2>1
<1>10. RecordInPlace'
  BY <1>1, <1>3 DEF RecordInPlace, RecordTrue
<1>11. AheadInPlace'
  <2>1. pipe.at # "idle" /\ First.kind = "completed" => First.turn # codex.count
    BY <1>1, <1>3, FirstIs
  <2>2. codex.turn # 0 =>
          /\ line.at \in {"fence", "commit"} => line.read = codex.turn
          /\ line.at \in {"resume", "subscribed", "publish", "up"} /\ ~pipe.stopped =>
               proj.turn # "ended" \/ ~Quiet
    BY DEF OwnInv, AheadInPlace
  <2> QED BY <1>1, <1>5, <1>6, <1>9, <2>1, <2>2 DEF AheadInPlace
<1> QED BY <1>10, <1>11

(* A turn ends. *)
LEMMA OwnEnd ==
  ASSUME IInv, OwnInv, NEW t \in Turns, End(t)
  PROVE  OwnInv'
<1>1. PICK how \in {"done", "interrupted"} :
        /\ codex' = [codex EXCEPT !.turn = 0, !.end[t] = how]
        /\ Tell([kind |-> "completed", turn |-> t, how |-> how])
  BY DEF End
<1> DEFINE e == [kind |-> "completed", turn |-> t, how |-> how]
<1>2. codex.turn = t /\ t # 0 /\ UNCHANGED <<prompt, proj>>
  BY DEF End
<1>3. codex \in CodexStates /\ prompt.ended \in 0..MaxTurns /\ codex.count \in Nat
      /\ codex.count <= MaxTurns
  BY OwnTypes DEF OwnInv
<1>4. /\ codex'.turn = 0 /\ codex'.count = codex.count /\ codex'.own = codex.own
      /\ codex'.end[t] = how /\ \A u \in Turns \ {t} : codex'.end[u] = codex.end[u]
  BY <1>1, <1>3 DEF CodexStates
<1>5. e \in Events /\ e.kind = "completed" /\ Tell(e)
  BY <1>1 DEF Events
<1> HIDE DEF e
<1>6. QueueInPlace'
  BY <1>5, ToldComing DEF OwnInv
<1>7. \A u \in Turns : codex.end[u] # "none" \/ u = t => codex'.end[u] # "none"
  BY <1>4
<1>8. InLine'
  <2>1. \A u \in 1..codex.count : u \in Turns
    BY <1>3, TurnAssumption DEF Turns
  <2>2. \A u \in 1..codex.count : u = t \/ codex.end[u] # "none"
    BY <1>2 DEF OwnInv, InLine
  <2>3. codex.own \subseteq 1..codex.count
    BY DEF OwnInv, InLine
  <2> QED BY <1>4, <1>7, <2>1, <2>2, <2>3 DEF InLine
<1>9. PromptInPlace'
  <2>1. prompt.ended # 0 => prompt.ended \in Turns
    BY <1>3, TurnAssumption DEF Turns
  <2> QED BY <1>2, <1>4, <1>7, <2>1 DEF OwnInv, PromptInPlace, PromptTrue
<1>10. ASSUME Alone PROVE RecordInPlace' /\ AheadInPlace'
  BY <1>2, <1>4, <1>5, <1>10, OwnTold
<1>11. Alone' <=> Alone
  BY <1>4 DEF Alone
<1> QED BY <1>6, <1>8, <1>9, <1>10, <1>11 DEF OwnInv

(* A turn waits, or goes on. *)
LEMMA OwnWait ==
  ASSUME IInv, OwnInv, Wait
  PROVE  OwnInv'
<1>1. PICK kind \in {"waiting", "active"} : Tell(Event(kind, codex.turn))
  BY DEF Wait
<1> DEFINE e == Event(kind, codex.turn)
<1>2. codex.turn # 0 /\ SameTurns /\ UNCHANGED <<prompt, proj>>
  BY DEF Wait, SameTurns
<1>3. e \in Events /\ e.kind \in {"waiting", "active"} /\ Tell(e)
  BY <1>1, <1>2, Running DEF Event, Events
<1> HIDE DEF e
<1>4. QueueInPlace'
  BY <1>3, ToldComing DEF OwnInv
<1>5. InLine' /\ PromptInPlace' /\ (Alone' <=> Alone)
  BY <1>2, StillInLine DEF OwnInv, PromptInPlace, SameTurns
<1>6. ASSUME Alone PROVE RecordInPlace' /\ AheadInPlace'
  BY <1>2, <1>3, <1>6, OwnTold DEF SameTurns
<1> QED BY <1>4, <1>5, <1>6 DEF OwnInv

(* The recovery reads whether a turn runs, and nothing of a turn is under  *)
(* way when the projection takes what was read.                            *)
LEMMA OwnRecovery ==
  ASSUME IInv, OwnInv, Recovery \/ Fence
  PROVE  OwnInv'
<1>1. SameTurns /\ UNCHANGED prompt
  BY DEF Recovery, Fence, MarkGap, Read, Commit, Resume, Drain, Publish, RecoveryEnds, SameTurns
<1>2. InLine' /\ PromptInPlace' /\ (Alone' <=> Alone)
  BY <1>1, StillInLine DEF OwnInv, PromptInPlace, SameTurns
<1>3. /\ QueueInPlace'
      /\ pipe'.at # "idle" => pipe.at # "idle" /\ First' = First
      /\ pipe'.stopped = pipe.stopped
  BY RecoveryComing DEF OwnInv
<1>4. /\ line \in Lines /\ proj \in Projs /\ Coming \in Seq(Events) /\ codex.turn \in 0..MaxTurns
  BY OwnTypes DEF OwnInv
<1>5. line.at # "up"
  BY RecoveryComing
     DEF OwnInv, Recovery, MarkGap, Read, Commit, Resume, Drain, Publish, RecoveryEnds
<1>6. ASSUME Alone PROVE RecordInPlace' /\ AheadInPlace'
  <2>1. /\ RecordTrue(prompt, codex.count, codex.turn, proj.turn, line.at, Quiet)
        /\ Orderly(Coming, codex.turn, proj.turn)
        /\ pipe.at # "idle" /\ First.kind = "completed" /\ First.turn = codex.count => Quiet
        /\ codex.turn # 0 =>
             /\ line.at \in {"fence", "commit"} => line.read = codex.turn
             /\ line.at \in {"resume", "subscribed", "publish", "up"} /\ ~pipe.stopped =>
                  proj.turn # "ended" \/ ~Quiet
    BY <1>6 DEF OwnInv, RecordInPlace, AheadInPlace
  <2> DEFINE Fits == /\ Quiet => Quiet'
                     /\ Orderly(Coming', codex.turn, proj'.turn)
                     /\ proj'.turn = "ended" => proj.turn = "ended" \/ (Quiet' /\ codex.turn = 0)
                     /\ codex.turn # 0 =>
                          /\ line'.at \in {"fence", "commit"} => line'.read = codex.turn
                          /\ line'.at \in {"resume", "subscribed", "publish", "up"} /\ ~pipe.stopped =>
                               proj'.turn # "ended" \/ ~Quiet'
  <2>2. SUFFICES Fits
    <3>1. ASSUME Fits PROVE RecordInPlace' /\ AheadInPlace'
      <4>1. RecordTrue(prompt', codex'.count, codex'.turn, proj'.turn, line'.at, Quiet')
        BY <1>1, <1>5, <2>1, <3>1 DEF RecordTrue, SameTurns
      <4>2. AheadInPlace'
        BY <1>1, <1>3, <2>1, <3>1 DEF AheadInPlace, SameTurns
      <4> QED BY <4>1, <4>2 DEF RecordInPlace
    <3> QED BY <3>1
  <2>3. CASE Read
    <3> DEFINE e == [kind |-> "fence", turn |-> codex.turn]
    <3>1. /\ line.at = "marked" /\ line' = [line EXCEPT !.at = "fence", !.read = codex.turn]
          /\ UNCHANGED proj /\ Coming' = Append(Coming, e)
      BY <2>3, RecoveryComing DEF Read, OwnInv
    <3>2. line'.at = "fence" /\ line'.read = codex.turn
      BY <1>4, <3>1 DEF Lines
    <3>3. e \in Events /\ e.kind = "fence"
      BY <1>4 DEF Events
    <3> HIDE DEF e
    <3>4. \A i \in DOMAIN Coming : Coming[i].kind = "completed" => codex.turn = 0
      BY <2>1 DEF Orderly
    <3>5. Orderly(Append(Coming, e), codex.turn, proj.turn)
      BY <1>4, <2>1, <3>3, <3>4, OrderlyAppend
    <3>6. Quiet => Quiet'
      <4>1. ASSUME OnlyFences(Coming) PROVE OnlyFences(Append(Coming, e))
        BY <1>4, <3>3, <4>1 DEF OnlyFences
      <4> QED BY <3>1, <4>1 DEF Quiet
    <3> QED BY <3>1, <3>2, <3>5, <3>6
  <2>4. CASE Fence
    <3>1. Coming' = <<>> /\ line.at = "fence" /\ line' = [line EXCEPT !.at = "commit"]
          /\ UNCHANGED proj
      BY <2>4, RecoveryComing DEF OwnInv, Fence
    <3>2. line'.at = "commit" /\ line'.read = line.read
      BY <1>4, <3>1 DEF Lines
    <3>3. Quiet' /\ Orderly(Coming', codex.turn, proj'.turn)
      BY <3>1, NothingIs, FencesOrderly DEF Quiet
    <3> QED BY <2>1, <3>1, <3>2, <3>3
  <2>5. CASE Commit
    <3>1. Coming = <<>> /\ Coming' = <<>> /\ line.at = "commit"
          /\ line' = [line EXCEPT !.at = "resume"]
      BY <2>5, RecoveryComing DEF OwnInv, Commit
    <3>2. PICK state \in IF line.read = 0 THEN {"ended"} ELSE {"in_progress", "waiting"} :
            proj' = [proj EXCEPT !.turn = state]
      BY <2>5 DEF Commit
    <3>3. line'.at = "resume" /\ proj'.turn = state
      BY <1>4, <3>1, <3>2 DEF Lines, Projs
    <3>4. Quiet' /\ Orderly(Coming', codex.turn, proj'.turn)
      BY <3>1, NothingIs, FencesOrderly DEF Quiet
    <3>5. codex.turn # 0 => proj'.turn # "ended"
      BY <2>1, <3>1, <3>2, <3>3
    <3> QED BY <3>3, <3>4, <3>5
  <2>6. CASE MarkGap \/ Resume \/ Drain \/ Publish \/ RecoveryEnds
    <3>1. Coming' = Coming /\ (Quiet' <=> Quiet)
      BY <2>6, RecoveryComing DEF OwnInv, Quiet, OnlyFences
    <3>2. proj'.turn = proj.turn
      BY <1>4, <2>6 DEF MarkGap, Resume, Drain, Publish, RecoveryEnds, Projs
    <3>3. \/ line'.at \in {"marked", "ended"}
          \/ /\ line.at \in {"resume", "subscribed", "publish"}
             /\ line'.at \in {"subscribed", "publish", "up"}
      BY <1>4, <2>6 DEF MarkGap, Resume, Drain, Publish, RecoveryEnds, Lines
    <3> QED BY <2>1, <3>1, <3>2, <3>3
  <2> QED BY <2>3, <2>4, <2>5, <2>6 DEF Recovery
<1> QED BY <1>2, <1>3, <1>6 DEF OwnInv

(* A lost connection takes the last of what is under way, a fence with it, *)
(* and the answer of the request.                                          *)
LEMMA OwnLose ==
  ASSUME IInv, OwnInv, Lose
  PROVE  OwnInv'
<1>1. /\ line' = [at |-> "lost", read |-> 0, held |-> <<>>] /\ line.at # "lost" /\ UNCHANGED proj
      /\ line'.at = "lost" /\ line'.held = <<>>
  BY DEF Lose
<1>2. PICK n \in (IF pipe.at = "idle" THEN 0 ELSE 1)..Len(pipe.queue) :
        /\ n # 0 => pipe.queue[n].kind # "fence"
        /\ pipe' = [pipe EXCEPT !.queue = SubSeq(@, 1, n)]
  BY DEF Lose
<1>3. /\ pipe \in Pipes /\ line \in Lines /\ prompt \in PromptStates /\ codex \in CodexStates
      /\ pipe.queue \in Seq(Events) /\ line.held \in Seq(Events) /\ Coming \in Seq(Events)
      /\ Len(pipe.queue) \in Nat /\ Len(Coming) \in Nat
  BY OwnTypes DEF OwnInv
<1>4. /\ pipe.at # "idle" => pipe.queue # <<>> /\ First.kind # "fence"
      /\ FenceLast(Coming, line.at)
      /\ line.at = "subscribed" => pipe.queue = <<>>
      /\ pipe.stopped => pipe.queue = <<>>
  BY DEF OwnInv, QueueInPlace
<1> DEFINE q == SubSeq(pipe.queue, 1, n)
<1>5. /\ n \in 0..Len(pipe.queue) /\ (pipe.at # "idle" => n # 0)
      /\ q \in Seq(Events) /\ Len(q) = n /\ \A i \in 1..n : q[i] = pipe.queue[i]
  BY <1>2, <1>3, SubSeqProperties
<1>6. pipe'.queue = q /\ pipe'.at = pipe.at /\ pipe'.stopped = pipe.stopped
  BY <1>2, <1>3 DEF Pipes
<1> HIDE DEF q
<1>7. q = <<>> <=> n = 0
  BY <1>5, EmptySeq
<1>8. pipe.at # "idle" => pipe'.queue # <<>> /\ First' = First
  <2>1. pipe.at # "idle" => Head(q) = q[1] /\ Head(pipe.queue) = pipe.queue[1] /\ 1 \in 1..n
    BY <1>3, <1>5, <1>7
  <2> QED BY <1>5, <1>6, <1>7, <2>1 DEF First
<1>9. PICK m \in 0..Len(Coming) :
        /\ Coming' = SubSeq(Coming, 1, m)
        /\ m # 0 => Coming[m].kind # "fence" \/ m # Len(Coming)
  <2>1. CASE line.at = "subscribed"
    <3>1. n = 0 /\ pipe.at = "idle" /\ Coming' = <<>>
      BY <1>1, <1>4, <1>5, <1>6, <1>7, <2>1 DEF Coming
    <3>2. SubSeq(Coming, 1, 0) \in Seq(Events) /\ Len(SubSeq(Coming, 1, 0)) = 0
      BY <1>3, SubSeqProperties
    <3>3. SubSeq(Coming, 1, 0) = <<>>
      BY <3>2, EmptySeq
    <3> QED BY <1>3, <3>1, <3>3
  <2>2. CASE line.at # "subscribed" /\ pipe.at = "idle"
    <3>1. Coming = pipe.queue /\ Coming' = SubSeq(Coming, 1, n)
      BY <1>1, <1>6, <2>2 DEF Coming, q
    <3> QED BY <1>2, <1>5, <3>1
  <2>3. CASE line.at # "subscribed" /\ pipe.at # "idle"
    <3>1. Coming = Tail(pipe.queue) /\ Coming' = Tail(q)
      BY <1>1, <1>6, <2>3 DEF Coming
    <3>2. n - 1 \in 0..Len(Coming) /\ Len(Coming) = Len(pipe.queue) - 1 /\ n - 1 \in Nat
      BY <1>3, <1>4, <1>5, <2>3, <3>1
    <3>3. \A i \in 1..Len(Coming) : Coming[i] = pipe.queue[i + 1]
      BY <1>3, <1>4, <2>3, <3>1
    <3>4. Tail(q) = SubSeq(Coming, 1, n - 1)
      <4>1. /\ Tail(q) \in Seq(Events) /\ Len(Tail(q)) = n - 1
            /\ \A i \in 1..n - 1 : Tail(q)[i] = q[i + 1]
        BY <1>5, <1>7, <2>3
      <4>2. /\ SubSeq(Coming, 1, n - 1) \in Seq(Events) /\ Len(SubSeq(Coming, 1, n - 1)) = n - 1
            /\ \A i \in 1..n - 1 : SubSeq(Coming, 1, n - 1)[i] = Coming[i]
        BY <1>3, <3>2, SubSeqProperties
      <4>3. \A i \in 1..n - 1 : i + 1 \in 1..n /\ i \in 1..Len(Coming)
        BY <1>5, <3>2
      <4>4. \A i \in 1..n - 1 : Tail(q)[i] = SubSeq(Coming, 1, n - 1)[i]
        BY <1>5, <3>3, <4>1, <4>2, <4>3
      <4> QED BY <4>1, <4>2, <4>4, SeqEqual
    <3>5. n - 1 # 0 => Coming[n - 1].kind # "fence"
      <4>1. n - 1 # 0 => n - 1 \in 1..Len(Coming) /\ (n - 1) + 1 = n
        BY <1>5, <3>2
      <4> QED BY <1>2, <1>5, <2>3, <3>3, <4>1
    <3> QED BY <3>1, <3>2, <3>4, <3>5
  <2> QED BY <2>1, <2>2, <2>3
<1>10. DOMAIN Coming' = 1..m /\ \A i \in 1..m : Coming'[i] = Coming[i]
  BY <1>3, <1>9, SubSeqProperties
<1>11. FenceLast(Coming', "lost")
  <2> SUFFICES ASSUME NEW i \in 1..m, Coming[i].kind = "fence" PROVE FALSE
    BY <1>10 DEF FenceLast
  <2>1. i \in DOMAIN Coming /\ i = Len(Coming)
    BY <1>3, <1>4, <1>9 DEF FenceLast
  <2>2. m = i /\ m # 0
    BY <1>3, <1>9, <2>1
  <2> QED BY <1>9, <2>1, <2>2
<1>12. QueueInPlace'
  <2>1. pipe'.stopped => pipe'.queue = <<>>
    BY <1>4, <1>5, <1>6, <1>7, EmptySeq
  <2> QED BY <1>1, <1>4, <1>6, <1>8, <1>11, <2>1 DEF QueueInPlace
<1>13. SameTurns
  <2>1. PICK late \in BOOLEAN : codex' = [codex EXCEPT !.late = @ \/ late]
    BY DEF Lose
  <2> QED BY <1>3, <2>1 DEF CodexStates, SameTurns
<1>14. InLine' /\ (Alone' <=> Alone)
  BY <1>13, StillInLine DEF OwnInv
<1>15. PICK c \in Received(prompt.call) : prompt' = [prompt EXCEPT !.call = c]
  BY DEF Lose
<1>16. /\ prompt'.rec = prompt.rec /\ prompt'.seen = prompt.seen /\ prompt'.ended = prompt.ended
       /\ prompt'.call = c
  BY <1>3, <1>15 DEF PromptStates
<1>17. /\ c.kind = prompt.call.kind /\ c.turn = prompt.call.turn
       /\ c.at # "sent" /\ (c.at = prompt.call.at \/ c.at = "gone")
       /\ c = NoCall <=> prompt.call = NoCall
  <2>1. prompt.call \in Calls
    BY <1>3 DEF PromptStates
  <2> DEFINE g == [prompt.call EXCEPT !.at = "gone"]
  <2>2. g.kind = prompt.call.kind /\ g.turn = prompt.call.turn /\ g.at = "gone"
    BY <2>1 DEF Calls
  <2>3. \/ c = prompt.call /\ prompt.call.at # "sent"
        \/ c = g /\ prompt.call.at # "none"
    BY <1>15 DEF Received
  <2>4. NoCall.at = "none"
    BY DEF NoCall
  <2> HIDE DEF g
  <2> QED BY <2>2, <2>3, <2>4
<1>18. PromptInPlace'
  BY <1>13, <1>16, <1>17 DEF OwnInv, PromptInPlace, PromptTrue, SameTurns
<1>19. ASSUME Alone PROVE RecordInPlace' /\ AheadInPlace'
  <2>1. /\ RecordTrue(prompt, codex.count, codex.turn, proj.turn, line.at, Quiet)
        /\ Orderly(Coming, codex.turn, proj.turn)
        /\ pipe.at # "idle" /\ First.kind = "completed" /\ First.turn = codex.count => Quiet
    BY <1>19 DEF OwnInv, RecordInPlace, AheadInPlace
  <2>2. Quiet => Quiet'
    BY <1>3, <1>9, OrderlyPrefix DEF Quiet
  <2>3. Orderly(Coming', codex.turn, proj.turn)
    BY <1>3, <1>9, <2>1, OrderlyPrefix
  <2>4. RecordInPlace'
    BY <1>1, <1>13, <1>16, <1>17, <2>1, <2>2 DEF RecordInPlace, RecordTrue, SameTurns
  <2>5. AheadInPlace'
    BY <1>1, <1>6, <1>8, <1>13, <2>1, <2>2, <2>3 DEF AheadInPlace, SameTurns
  <2> QED BY <2>4, <2>5
<1> QED BY <1>12, <1>14, <1>18, <1>19 DEF OwnInv

(* The interrupt service has no part in it. *)
LEMMA OwnStays ==
  ASSUME OwnInv, UNCHANGED <<codex, line, pipe, proj, prompt>>
  PROVE  OwnInv'
<1>1. SameTurns
  BY DEF SameTurns
<1> QED BY <1>1, OwnPromptMoves DEF OwnInv, PromptInPlace, RecordInPlace

(* Every step keeps what is under way in order. *)
LEMMA OwnStep == IInv /\ OwnInv /\ [Next]_vars => OwnInv'
<1> SUFFICES ASSUME IInv, OwnInv, [Next]_vars PROVE OwnInv'
  OBVIOUS
<1>1. CASE PipelineStep \/ Recovery \/ Lose
  BY <1>1, OwnProject, OwnHear, OwnApplyPrompt, OwnRecovery, OwnLose DEF PipelineStep
<1>2. CASE PromptReturns \/ Dispatch \/ Snapshot
  BY <1>2, OwnPromptReturns, OwnDispatch, OwnSnapshot
<1>3. CASE InterruptEnds \/ Interrupt \/ AwaitTerminal \/ GiveUpWaiting
  BY <1>3, OwnStays
     DEF InterruptEnds, InterruptAnswered, InterruptUnanswered, Interrupt, AwaitTerminal,
         GiveUpWaiting
<1>4. CASE CodexStep
  <2>1. CASE AnswerInterrupt
    BY <2>1, OwnStays DEF AnswerInterrupt
  <2> QED BY <1>4, <2>1, OwnAnswerPrompt, OwnOthersBegin, OwnWait, OwnEnd DEF CodexStep
<1>5. CASE UNCHANGED vars
  BY <1>5, OwnStays DEF vars
<1> QED BY <1>1, <1>2, <1>3, <1>4, <1>5 DEF Next

(* At first there is no turn and nothing is under way. *)
LEMMA OwnInit == Init => OwnInv
<1> SUFFICES ASSUME Init PROVE OwnInv
  OBVIOUS
<1>1. Coming = <<>>
  BY DEF Init, Coming
<1>2. /\ Quiet /\ FenceLast(Coming, line.at) /\ Orderly(Coming, codex.turn, proj.turn)
  BY <1>1, NothingIs, FencesOrderly DEF Quiet
<1>3. QueueInPlace
  BY <1>2 DEF Init, QueueInPlace
<1>4. InLine
  BY DEF Init, InLine
<1>5. PromptInPlace /\ RecordInPlace
  BY <1>2 DEF Init, PromptInPlace, PromptTrue, RecordInPlace, RecordTrue, NoCall, NoRecord
<1>6. AheadInPlace
  BY <1>2 DEF Init, AheadInPlace
<1> QED BY <1>3, <1>4, <1>5, <1>6 DEF OwnInv

(* What is under way of a turn stays in order as long as HostDeck alone    *)
(* drives the thread.                                                      *)
THEOREM OwnInvariantHolds == Spec => []OwnInv
  BY InvariantHolds, OwnInit, OwnStep, PTL DEF Spec

(* The record of a turn HostDeck started is given up only when that turn   *)
(* is over, as long as HostDeck alone drives the thread                    *)
(* (reconcileTerminalProjection, start, observeEvent).                     *)
LEMMA OwnTurnStep ==
  ASSUME IInv, OwnInv, [Next]_vars, NEW t \in Turns,
         prompt.rec.turn = t, prompt'.rec.turn # t, 1..t \subseteq codex.own
  PROVE  codex.end[t] # "none"
<1>1. /\ prompt \in PromptStates /\ codex \in CodexStates /\ codex.count \in Nat
      /\ t \in Nat /\ t # 0 /\ Quiet \in BOOLEAN /\ codex.turn \in 0..MaxTurns
  BY OwnTypes, TurnAssumption DEF OwnInv, Turns, Quiet, OnlyFences
<1>2. t <= codex.count
  BY DEF OwnInv, PromptInPlace, PromptTrue
<1>3. CASE t # codex.turn
  <2>1. t \in 1..codex.count
    BY <1>1, <1>2
  <2> QED BY <1>3, <2>1 DEF OwnInv, InLine
<1>4. CASE t = codex.turn
  <2>1. t = codex.count /\ Alone
    BY <1>1, <1>4 DEF OwnInv, InLine, Alone
  <2>2. /\ RecordTrue(prompt, codex.count, codex.turn, proj.turn, line.at, Quiet)
        /\ PromptTrue(prompt, codex.count, codex.end)
    BY <2>1 DEF OwnInv, RecordInPlace, PromptInPlace
  <2>3. NoRecord.turn = 0 /\ prompt.call.kind # "start"
    BY <1>1, <2>2 DEF NoRecord, PromptTrue
  <2>4. CASE Snapshot \/ Dispatch
    <3> DEFINE p == Reconciled(prompt)
    <3>1. /\ prompt.call = NoCall
          /\ prompt' = p \/ StartPrompt(p) \/ SteerPrompt(p)
      BY <2>4 DEF Snapshot, Dispatch, RefusePrompt, PromptFree
    <3>2. /\ p \in PromptStates /\ p.rec \in {prompt.rec, NoRecord} /\ p.call = NoCall
          /\ PromptTrue(p, codex.count, codex.end)
          /\ RecordTrue(p, codex.count, codex.turn, proj.turn, line.at, Quiet)
      BY <1>1, <2>2, <3>1, PromptsTyped, ReconciledTrue
    <3>3. p.rec = prompt.rec
      BY <1>1, <1>4, <3>2 DEF RecordTrue
    <3> HIDE DEF p
    <3>4. ~StartPrompt(p)
      BY <1>1, <2>3, <3>3 DEF StartPrompt
    <3>5. CASE SteerPrompt(p)
      <4>1. \/ prompt' = [p EXCEPT !.rec.phase = "steering", !.call = Call("steer", p.rec.turn)]
            \/ prompt' = SteerSettled(p, "conflict")
        BY <3>5 DEF SteerPrompt
      <4>2. CASE prompt' = [p EXCEPT !.rec.phase = "steering", !.call = Call("steer", p.rec.turn)]
        BY <3>2, <3>3, <4>2 DEF PromptStates, Records
      <4>3. CASE prompt' = SteerSettled(p, "conflict")
        <5>1. p.rec.turn # 0 /\ p.rec.phase # "none"
          BY <1>1, <3>3, <3>5 DEF SteerPrompt
        <5>2. prompt'.rec.turn # p.rec.turn => codex.end[p.rec.turn] # "none"
          BY <1>1, <3>2, <4>3, <5>1, Running, SteerSettledTrue
        <5> QED BY <3>3, <5>2
      <4> QED BY <4>1, <4>2, <4>3
    <3> QED BY <3>1, <3>3, <3>4, <3>5
  <2>5. CASE PromptReturns
    <3>1. PICK phase \in {"steerable", "conflict", "unknown"} : prompt' = SteerSettled(prompt, phase)
      BY <2>3, <2>5 DEF PromptReturns, PromptAnswered, PromptUnanswered
    <3>2. prompt.rec.phase = "steering"
      BY <2>2, <2>3, <2>5
         DEF PromptReturns, PromptAnswered, PromptUnanswered, PromptFree, PromptTrue, NoCall
    <3>3. prompt'.rec.turn # prompt.rec.turn => codex.end[prompt.rec.turn] # "none"
      BY <1>1, <2>2, <3>1, <3>2, Running, SteerSettledTrue DEF PromptTrue
    <3> QED BY <3>3
  <2>6. CASE ApplyPrompt
    <3>1. pipe.queue # <<>>
      BY <2>6 DEF ApplyPrompt, AtStage
    <3>2. \/ prompt' = [prompt EXCEPT !.rec.phase = "steerable"]
          \/ First.kind = "completed" /\ First.turn = t
          \/ prompt' = prompt
      BY <2>6 DEF ApplyPrompt
    <3>3. prompt' = [prompt EXCEPT !.rec.phase = "steerable"] => prompt'.rec.turn = t
      BY <1>1 DEF PromptStates, Records
    <3> QED BY <3>1, <3>2, <3>3, FirstIs
  <2>7. CASE HearInterrupt \/ ApplyInterrupt \/ AnswerPrompt \/ Lose
    <3>1. HeardByPrompt.rec = prompt.rec
      BY <1>1 DEF HeardByPrompt, PromptStates
    <3>2. prompt'.rec = prompt.rec
      BY <1>1, <2>7, <3>1 DEF HearInterrupt, ApplyInterrupt, AnswerPrompt, Lose, PromptStates
    <3> QED BY <3>2
  <2>8. CASE UNCHANGED prompt
    BY <2>8
  <2>9. Next =>
          \/ Snapshot \/ Dispatch \/ PromptReturns \/ ApplyPrompt
          \/ HearInterrupt \/ ApplyInterrupt \/ AnswerPrompt \/ Lose \/ UNCHANGED prompt
    BY DEF Next, PipelineStep, Recovery, InterruptEnds, CodexStep, Project, Fence, MarkGap, Read,
       Commit, Resume, Drain, Publish, RecoveryEnds, InterruptAnswered, InterruptUnanswered,
       Interrupt, AwaitTerminal, GiveUpWaiting, AnswerInterrupt, BeginLate, BeginForeign, Wait, End
  <2> QED BY <2>4, <2>5, <2>6, <2>7, <2>8, <2>9 DEF vars
<1> QED BY <1>3, <1>4

(* As long as HostDeck alone drives the thread, the record of a turn it    *)
(* started is given up only when that turn is over, whatever comes late:   *)
(* the answer, the notifications of the turn before, or its own            *)
(* (reconcileTerminalProjection, start, observeEvent).                     *)
THEOREM OwnTurnKeptHolds == Spec => OwnTurnKept
<1>1. IInv /\ OwnInv /\ [Next]_vars =>
        [\A t \in Turns :
           prompt.rec.turn = t /\ prompt'.rec.turn # t /\ 1..t \subseteq codex.own =>
             codex.end[t] # "none"]_vars
  BY OwnTurnStep
<1> QED BY <1>1, InvariantHolds, OwnInvariantHolds, PTL DEF Spec, OwnTurnKept

==============================================================================
