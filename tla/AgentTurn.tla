------------------------------- MODULE AgentTurn -------------------------------
(***************************************************************************)
(* pycodex/core/agent.py (run_turn), session.py (history), compaction.py   *)
(* and rollout_replay.py: one session's prompt history, the rollout ledger *)
(* kept beside it, and what a restart rebuilds from that ledger.           *)
(*                                                                         *)
(* One turn runs at a time.  What it does between two awaits that suspend  *)
(* (the model stream, a tool, a summary, a flush) is one step; recording a *)
(* record and emitting an event never suspend.  The recorder is taken at   *)
(* its promise (DurableLog): a crash keeps a prefix of the ledger that     *)
(* contains all that a flush acknowledged.                                 *)
(***************************************************************************)
EXTENDS Integers, Sequences, SequencesExt, FiniteSetsExt

CONSTANTS
  KeepRecent,        \* ThresholdV1Strategy.keep_recent_items
  MinReplace,        \* ThresholdV1Strategy.min_replace_items
  ModelSignalBudget, \* Agent.model_signal_budget
  SplitIds,          \* items whose text holds a character that str.splitlines() takes
                     \* for a line end and JSON leaves as it is (U+0085, U+2028, U+2029)
  MaxItems,          \* bound: history items created in one behaviour
  MaxRestarts        \* bound: crashes of the process

ASSUME TurnAssumption ==
  /\ KeepRecent \in Nat
  /\ MinReplace \in Nat \ {0}
  /\ ModelSignalBudget \in Nat
  /\ SplitIds \subseteq Nat
  /\ MaxItems \in Nat
  /\ MaxRestarts \in Nat

(* A call and its output share an id (the call_id); no other items do.     *)
Kinds == {"context", "user", "skill", "assistant", "call", "output", "missing", "summary"}

Item == [kind : Kinds, id : 0..MaxItems]

(* Ledger records that are not history items.                              *)
Marks == [kind : {"meta", "turn", "closed"}]

Compactions == [kind : {"compaction"}, from : Nat, to : Nat, id : 0..MaxItems]

VARIABLES
  history,     \* Session._history
  ledger,      \* records handed to the rollout recorder and not lost
  flushed,     \* how many of them a flush has acknowledged
  recorder,    \* "up", or "failed": record() raises
  turns,       \* Session._turn_count
  reported,    \* TurnCompleted events emitted, over all restarts
  pc,          \* where run_turn or close_rollout is suspended; "down" or "lost" after a
               \* crash, "lost" when the file is missing or its torn tail cannot be read
  todo,        \* tool calls of the model's answer not yet dispatched
  plan,        \* the range being summarized: indices from+1..to
  budget,      \* run_turn's signal_budget
  metaWritten, \* Session._rollout_meta_written
  contextDone, \* Session._initial_context_injected
  nextId,      \* history items created so far
  restarts     \* crashes so far

turn == <<todo, plan, budget>>
flags == <<metaWritten, contextDone>>
vars == <<history, ledger, flushed, recorder, turns, reported, pc, todo, plan, budget,
          metaWritten, contextDone, nextId, restarts>>

NoPlan == [from |-> 0, to |-> 0]

TypeOK ==
  /\ history \in Seq(Item)
  /\ ledger \in Seq(Item \union Marks \union Compactions)
  /\ flushed \in 0..Len(ledger)
  /\ recorder \in {"up", "failed"}
  /\ turns \in Nat
  /\ reported \in Nat
  /\ pc \in {"idle", "sampling", "compacting", "tool", "flushing", "closing", "closed", "down",
           "lost"}
  /\ todo \in Nat
  /\ plan \in [from : Nat, to : Nat]
  /\ budget \in 0..ModelSignalBudget
  /\ metaWritten \in BOOLEAN
  /\ contextDone \in BOOLEAN
  /\ nextId \in 0..MaxItems
  /\ restarts \in 0..MaxRestarts

Init ==
  /\ history = <<>>
  /\ ledger = <<>>
  /\ flushed = 0
  /\ recorder = "up"
  /\ turns = 0
  /\ reported = 0
  /\ pc = "idle"
  /\ todo = 0
  /\ plan = NoPlan
  /\ budget = 0
  /\ metaWritten = FALSE
  /\ contextDone = FALSE
  /\ nextId = 0
  /\ restarts = 0

-------------------------------------------------------------------------------
(* History, prompt and replay.                                             *)

Indices(h, k) == {i \in DOMAIN h : h[i].kind = k}

Unanswered(h) ==
  {i \in Indices(h, "call") : ~\E j \in Indices(h, "output") : j > i /\ h[j].id = h[i].id}

(* Session.to_prompt: a placeholder output after every unanswered call.    *)
Prompt(h) ==
  FlattenSeq([i \in DOMAIN h |->
    IF i \in Unanswered(h) THEN <<h[i], [kind |-> "missing", id |-> h[i].id]>> ELSE <<h[i]>>])

(* Faulty variant of Plan: the range starts at the head of the history.    *)
PlanFromHead(prompt) == [from |-> 0, to |-> Len(prompt) - KeepRecent]

(* ThresholdV1Strategy.plan: everything between the last summary block and *)
(* the KeepRecent most recent items.                                       *)
Plan(prompt) ==
  LET to == Len(prompt) - KeepRecent
  IN  [from |-> Max({0} \union {i \in Indices(prompt, "summary") : i <= to}), to |-> to]

Compactable(prompt) ==
  Len(prompt) > KeepRecent /\ Plan(prompt).to - Plan(prompt).from >= MinReplace

(* replace_range_with_system_summary: h[from+1..to] becomes one summary.   *)
Replace(h, from, to, id) ==
  LET end == Min({to, Len(h)})
  IN  IF end <= from THEN h
      ELSE SubSeq(h, 1, from) \o <<[kind |-> "summary", id |-> id]>> \o SubSeq(h, end + 1, Len(h))

(* Faulty variant of Apply: the end of the range is taken as inclusive.    *)
ApplyInclusive(h, r) ==
  IF r.kind = "compaction" THEN Replace(h, r.from, r.to + 1, r.id)
  ELSE IF r.kind \in Kinds THEN Append(h, r) ELSE h

(* The line of a record parses: its text does not split it.  The first     *)
(* piece of a split line is no JSON and never the last line of the file,   *)
(* so replay does not take it for a truncated tail.                        *)
Parses(r) == r.kind \notin {"meta", "turn", "closed"} => r.id \notin SplitIds

(* replay_rollout gets through the file without replay_failure.            *)
Replayable(records) == \A i \in DOMAIN records : Parses(records[i])

(* _apply_rollout_item.                                                    *)
Apply(h, r) ==
  IF r.kind = "compaction" THEN Replace(h, r.from, r.to, r.id)
  ELSE IF r.kind \in Kinds THEN Append(h, r) ELSE h

(* What replay_rollout makes of a replayable ledger.                       *)
Replay(records) == FoldLeft(Apply, <<>>, records)

TurnsIn(records) == Cardinality(Indices(records, "turn"))

-------------------------------------------------------------------------------
(* Items that a step creates, with fresh ids.                              *)
New(kinds) == [i \in DOMAIN kinds |-> [kind |-> kinds[i], id |-> nextId + i]]

Fresh(n) == nextId + n <= MaxItems /\ nextId' = nextId + n

(* Append items to the history and record them, then the marks.            *)
Persist(items, marks) ==
  /\ recorder = "up"
  /\ history' = history \o items
  /\ ledger' = ledger \o items \o [i \in DOMAIN marks |-> [kind |-> marks[i]]]
  /\ UNCHANGED recorder

(* The head of run_turn's loop: compact under token pressure, else sample. *)
LoopTop(h) ==
  \/ pc' = "sampling" /\ plan' = NoPlan
  \/ Compactable(Prompt(h)) /\ pc' = "compacting" /\ plan' = Plan(Prompt(h))

If(condition, s) == IF condition THEN s ELSE <<>>

(* run_turn up to its first suspension: session.meta and the initial       *)
(* context once, the user's message, the skills it mentions.               *)
StartTurn(skill) ==
  LET kinds == If(~contextDone, <<"context">>) \o <<"user">> \o If(skill, <<"skill">>)
  IN  /\ pc = "idle"
      /\ recorder = "up"
      /\ Fresh(Len(kinds))
      /\ history' = history \o New(kinds)
      /\ ledger' = ledger \o If(~metaWritten, <<[kind |-> "meta"]>>) \o New(kinds)
      /\ metaWritten' = TRUE
      /\ contextDone' = TRUE
      /\ budget' = ModelSignalBudget
      /\ LoopTop(history')
      /\ UNCHANGED <<flushed, recorder, turns, reported, todo, restarts>>

(* compact() after the summary arrived: replace the planned range, record  *)
(* compaction.applied, sample.                                             *)
CompactionDone ==
  /\ pc = "compacting"
  /\ recorder = "up"
  /\ Fresh(1)
  /\ history' = Replace(history, plan.from, plan.to, nextId')
  /\ ledger' = Append(ledger, [kind |-> "compaction", from |-> plan.from, to |-> plan.to,
                               id |-> nextId'])
  /\ pc' = "sampling"
  /\ plan' = NoPlan
  /\ UNCHANGED <<flushed, recorder, turns, reported, todo, budget, flags, restarts>>

(* The turn is over: count it, record turn.completed, flush.               *)
EndTurn(items) ==
  /\ Persist(items, <<"turn">>)
  /\ turns' = turns + 1
  /\ pc' = "flushing"

(* Faulty variant of SampleFinal: the end is reported before the flush.    *)
ReportEarly(text) ==
  LET kinds == If(text, <<"assistant">>)
  IN  /\ pc = "sampling"
      /\ Fresh(Len(kinds))
      /\ Persist(New(kinds), <<"turn">>)
      /\ turns' = turns + 1
      /\ reported' = reported + 1
      /\ pc' = "idle"
      /\ UNCHANGED <<flushed, turn, flags, restarts>>

(* The model answers without tool calls, perhaps with no text at all.      *)
SampleFinal(text) ==
  LET kinds == If(text, <<"assistant">>)
  IN  /\ pc = "sampling"
      /\ Fresh(Len(kinds))
      /\ EndTurn(New(kinds))
      /\ UNCHANGED <<flushed, reported, turn, flags, restarts>>

(* Faulty variant of SampleSignals: the budget is not looked at.           *)
SignalsUnbounded(skill) ==
  LET kinds == <<"assistant">> \o If(skill, <<"skill">>)
  IN  /\ pc = "sampling"
      /\ Fresh(Len(kinds))
      /\ Persist(New(kinds), <<>>)
      /\ budget' = budget - 1
      /\ LoopTop(history')
      /\ UNCHANGED <<flushed, turns, reported, todo, flags, restarts>>

(* The answer names skills not seen in this turn: inject those that the    *)
(* history does not already hold for it, go round again.                   *)
SampleSignals(skill) ==
  LET kinds == <<"assistant">> \o If(skill, <<"skill">>)
  IN  /\ pc = "sampling"
      /\ budget > 0
      /\ Fresh(Len(kinds))
      /\ Persist(New(kinds), <<>>)
      /\ budget' = budget - 1
      /\ LoopTop(history')
      /\ UNCHANGED <<flushed, turns, reported, todo, flags, restarts>>

(* The model asks for 1 + more tool calls: the first is dispatched.        *)
SampleTools(text, more) ==
  LET kinds == If(text, <<"assistant">>) \o <<"call">>
  IN  /\ pc = "sampling"
      /\ Fresh(Len(kinds))
      /\ Persist(New(kinds), <<>>)
      /\ pc' = "tool"
      /\ todo' = more
      /\ UNCHANGED <<flushed, turns, reported, plan, budget, flags, restarts>>

(* The model stream raises: the turn fails with nothing recorded.          *)
SampleFails ==
  /\ pc \in {"sampling", "compacting"}
  /\ pc' = "idle"
  /\ plan' = NoPlan
  /\ UNCHANGED <<history, ledger, flushed, recorder, turns, reported, todo, budget,
                 flags, nextId, restarts>>

(* The call in flight is the last item of the history.                     *)
OutputOf(h) == <<[kind |-> "output", id |-> Last(h).id]>>

(* The tool's result is recorded; dispatch the next call or loop.          *)
ToolReturns ==
  /\ pc = "tool"
  /\ \/ /\ todo > 0
        /\ Fresh(1)
        /\ Persist(OutputOf(history) \o New(<<"call">>), <<>>)
        /\ todo' = todo - 1
        /\ UNCHANGED <<pc, plan>>
     \/ /\ todo = 0
        /\ Persist(OutputOf(history), <<>>)
        /\ LoopTop(history')
        /\ UNCHANGED <<todo, nextId>>
  /\ UNCHANGED <<flushed, turns, reported, budget, flags, restarts>>

(* ToolAborted: the call gets a synthetic output, the calls not dispatched *)
(* are dropped, the turn ends as completed.                                *)
ToolAborts ==
  /\ pc = "tool"
  /\ EndTurn(OutputOf(history))
  /\ todo' = 0
  /\ UNCHANGED <<flushed, reported, plan, budget, flags, nextId, restarts>>

FlushDone ==
  /\ pc = "flushing"
  /\ recorder = "up"
  /\ flushed' = Len(ledger)
  /\ reported' = reported + 1
  /\ pc' = "idle"
  /\ UNCHANGED <<history, ledger, recorder, turns, turn, flags, nextId, restarts>>

(* Faulty variant of Interrupt: the synthetic output is not appended.      *)
InterruptBare ==
  /\ pc \in {"sampling", "compacting", "flushing", "tool"}
  /\ pc' = "idle"
  /\ todo' = 0
  /\ plan' = NoPlan
  /\ UNCHANGED <<history, ledger, flushed, recorder, turns, reported, budget,
                 flags, nextId, restarts>>

(* The turn's task is cancelled: a call in flight gets a synthetic output. *)
Interrupt ==
  /\ \/ pc \in {"sampling", "compacting", "flushing"} /\ UNCHANGED <<history, ledger, recorder>>
     \/ pc = "tool" /\ Persist(OutputOf(history), <<>>)
  /\ pc' = "idle"
  /\ todo' = 0
  /\ plan' = NoPlan
  /\ UNCHANGED <<flushed, turns, reported, budget, flags, nextId, restarts>>

-------------------------------------------------------------------------------
(* close_rollout: record session.closed, shut the recorder down.           *)
Close ==
  /\ pc = "idle"
  /\ Persist(<<>>, <<"closed">>)
  /\ pc' = "closing"
  /\ UNCHANGED <<flushed, turns, reported, turn, flags, nextId, restarts>>

CloseDone ==
  /\ pc = "closing"
  /\ recorder = "up"
  /\ flushed' = Len(ledger)
  /\ pc' = "closed"
  /\ UNCHANGED <<history, ledger, recorder, turns, reported, turn, flags, nextId, restarts>>

(* The recorder's worker dies, or a flush times out.                       *)
RecorderFails ==
  /\ pc \notin {"closed", "down", "lost"}
  /\ recorder = "up"
  /\ recorder' = "failed"
  /\ pc' = IF pc \in {"flushing", "closing"} THEN "idle" ELSE pc
  /\ UNCHANGED <<history, ledger, flushed, turns, reported, turn, flags, nextId, restarts>>

(* A step of the turn changes the history in memory, and recording the     *)
(* first record raises: the turn fails, the memory is ahead of the ledger. *)
(* A turn's first record is session.meta until that one is written.        *)
PersistRaises ==
  /\ recorder = "failed"
  /\ \/ /\ pc = "idle"
        /\ \/ ~contextDone /\ Fresh(1) /\ history' = history \o New(<<"context">>)
           \/ contextDone /\ metaWritten /\ Fresh(1) /\ history' = history \o New(<<"user">>)
           \/ contextDone /\ ~metaWritten /\ UNCHANGED <<history, nextId>>
        /\ contextDone' = TRUE
        /\ UNCHANGED turns
     \/ /\ pc = "sampling"
        /\ \/ Fresh(1) /\ history' = history \o New(<<"assistant">>) /\ UNCHANGED turns
           \/ Fresh(1) /\ history' = history \o New(<<"call">>) /\ UNCHANGED turns
           \/ turns' = turns + 1 /\ UNCHANGED <<history, nextId>>
        /\ UNCHANGED contextDone
     \/ /\ pc = "compacting"
        /\ Fresh(1)
        /\ history' = Replace(history, plan.from, plan.to, nextId')
        /\ UNCHANGED <<turns, contextDone>>
     \/ /\ pc = "tool"
        /\ history' = history \o OutputOf(history)
        /\ UNCHANGED <<turns, contextDone, nextId>>
  /\ pc' = "idle"
  /\ todo' = 0
  /\ plan' = NoPlan
  /\ UNCHANGED <<ledger, flushed, recorder, reported, budget, metaWritten, restarts>>

Down == {"down", "lost"}

(* What a crash leaves of the file whose first n records are whole.  It    *)
(* exists once the worker ran, perhaps empty.  A next record torn behind a *)
(* line end in its text leaves a piece that is not the file's last line.   *)
AfterCrash(n) ==
  {p \in Down :
     \/ p = "down" /\ (ledger # <<>> \/ restarts > 0)
     \/ p = "lost" /\ n = 0 /\ restarts = 0
     \/ p = "lost" /\ n < Len(ledger) /\ ~Parses(ledger[n + 1])}

(* The process exits or is killed.                                         *)
Restart ==
  /\ pc \notin Down
  /\ restarts < MaxRestarts
  /\ \E n \in flushed..Len(ledger) : ledger' = SubSeq(ledger, 1, n) /\ pc' \in AfterCrash(n)
  /\ flushed' = Len(ledger')
  /\ history' = <<>>
  /\ turns' = 0
  /\ recorder' = "up"
  /\ todo' = 0
  /\ plan' = NoPlan
  /\ budget' = 0
  /\ metaWritten' = FALSE
  /\ contextDone' = FALSE
  /\ restarts' = restarts + 1
  /\ UNCHANGED <<reported, nextId>>

(* Faulty variant of Resume: the restored session injects its context.     *)
ResumeFresh ==
  /\ pc = "down"
  /\ Replayable(ledger)
  /\ history' = Replay(ledger)
  /\ turns' = TurnsIn(ledger)
  /\ pc' = "idle"
  /\ UNCHANGED <<ledger, flushed, recorder, reported, turn, flags, nextId, restarts>>

(* restore_session_from_rollout.                                           *)
Resume ==
  /\ pc = "down"
  /\ Replayable(ledger)
  /\ history' = Replay(ledger)
  /\ turns' = TurnsIn(ledger)
  /\ contextDone' = TRUE
  /\ pc' = "idle"
  /\ UNCHANGED <<ledger, flushed, recorder, reported, turn, metaWritten, nextId, restarts>>

(* The restore raises rollout_not_found or replay_failure, as it will when *)
(* it is tried again: the session stays on disk.                           *)
ReplayRaises ==
  /\ \/ pc = "lost"
     \/ pc = "down" /\ ~Replayable(ledger)
  /\ UNCHANGED vars

(* The user asks nothing more, or a bound is reached.                      *)
Quiet == pc \in {"idle", "closed"} /\ UNCHANGED vars

Sample ==
  \/ \E text \in BOOLEAN : SampleFinal(text)
  \/ \E skill \in BOOLEAN : SampleSignals(skill)
  \/ \E text \in BOOLEAN, more \in 0..1 : SampleTools(text, more)
  \/ SampleFails

Next ==
  \/ \E skill \in BOOLEAN : StartTurn(skill)
  \/ CompactionDone
  \/ Sample
  \/ ToolReturns
  \/ ToolAborts
  \/ FlushDone
  \/ Interrupt
  \/ Close
  \/ CloseDone
  \/ RecorderFails
  \/ PersistRaises
  \/ Restart
  \/ Resume
  \/ ReplayRaises
  \/ Quiet

Spec == Init /\ [][Next]_vars

-------------------------------------------------------------------------------
Live == pc \notin {"down", "lost", "closed"} /\ recorder = "up"

(* As long as recording works, and no record's text splits its line,       *)
(* replaying the ledger gives exactly the history and the turn count in    *)
(* memory: after tools, aborts, interrupts and compactions, within a life  *)
(* of the process and over restarts.                                       *)
ReplayMatches ==
  Live /\ Replayable(ledger) => Replay(ledger) = history /\ TurnsIn(ledger) = turns

(* Between turns every tool call in the history has its output, however    *)
(* the turn ended, as long as recording works and nothing crashed.         *)
CallsAnswered == pc = "idle" /\ recorder = "up" /\ restarts = 0 => Unanswered(history) = {}

Summaries(h) == {h[i] : i \in Indices(h, "summary")}

(* A later compaction never swallows an earlier summary, wherever calls    *)
(* left without output shift the prompt against the history.               *)
SummariesSurvive == [][pc' \notin Down => Summaries(history) \subseteq Summaries(history')]_vars

(* Every turn reported as completed is on disk and survives any crash.     *)
ReportedTurnsKept == reported <= TurnsIn(SubSeq(ledger, 1, flushed))

(* The initial context is never recorded twice, over any resumes.          *)
ContextOnce == Cardinality(Indices(ledger, "context")) <= 1

(* "Boundary-aware compaction ... only replaces new eligible ranges": what *)
(* leaves the history was part of what the summary was made from.          *)
CompactionEligible ==
  [][pc = "compacting" /\ pc' = "sampling" =>
       ToSet(history) \ ToSet(history')
         \subseteq ToSet(SubSeq(Prompt(history), plan.from + 1, plan.to))]_vars

(* restore_from_rollout's comment: a restored session "had at least one    *)
(* completed turn, so initial context was already applied".  Here of the   *)
(* rollouts that a turn has begun, whose session.meta is on disk.          *)
InitialContextApplied ==
  pc = "idle" /\ restarts > 0 /\ Indices(ledger, "meta") # {}
    => Indices(ledger, "context") # {}
===============================================================================
