------------------------------- MODULE SkillTurn -------------------------------
(***************************************************************************)
(* A turn's conversation with the model: pycodex/core/model_client.py (one *)
(* retry of a stream that broke before it produced anything), the sampling *)
(* and skill injection of pycodex/core/agent.py, over the files of Skills. *)
(*                                                                         *)
(* The registry of skills is read once per process and cached; files may   *)
(* be edited at any time.  Turns may fail or be interrupted while they     *)
(* sample, and the process may be restarted with the history kept.         *)
(* Compaction, which AgentTurn has, is left out.                           *)
(***************************************************************************)
EXTENDS Skills

CONSTANTS
  Layouts,            \* skill roots the process may be started with
  Files,              \* what a SKILL.md may hold
  Installed,          \* skill files there may be at first
  Edited,             \* what an edit may make of one
  Texts,              \* what a user may type
  Answers,            \* pieces of text the model may produce
  ModelSignalBudget,  \* rounds of model-named skills in one turn
  MaxTurns,           \* bound: turns
  MaxSamples,         \* bound: samplings in one turn
  MaxParts,           \* bound: pieces of text in one sampling
  MaxEdits            \* bound: edits of skill files

ASSUME TurnAssumption ==
  /\ Layouts \subseteq Layout
  /\ Files \subseteq File
  /\ Installed \subseteq [Paths -> Files]
  /\ Edited \subseteq Files
  /\ Texts \subseteq Seq(Occurrence)
  /\ Answers \subseteq Seq(Occurrence)
  /\ {ModelSignalBudget, MaxTurns, MaxSamples, MaxParts, MaxEdits} \subseteq Nat

MaxAttempts == 2

NoCache == <<>>

VARIABLES
  layout,    \* the skill roots
  disk,      \* the skill files
  cache,     \* the files SkillsManager's cached registry was read from
  pc,        \* idle or sampling
  history,   \* the session's items, its initial context left out
  named,     \* injected_this_turn
  budget,    \* signal_budget
  asked,     \* names the user mentioned in this turn
  attempt,   \* attempt of ModelClient.stream
  emitted,   \* emitted_any: this attempt has yielded an event
  parts,     \* text_parts, each with the attempt and event it came from
  calling,   \* the sampling has produced a tool call
  turns,
  samples,
  edits

files == <<layout, disk, edits>>
sampling == <<attempt, emitted, parts, calling>>
turn == <<named, budget, asked>>
vars == <<files, cache, pc, history, turn, sampling, turns, samples>>

Item == [kind : {"user", "assistant", "tool"}] \union [kind : {"skill"}, msg : Message]

Part == [attempt : 1..MaxAttempts, via : {"delta", "item"}, text : Answers]

TypeOK ==
  /\ layout \in Layouts
  /\ disk \in [Paths -> Files]
  /\ cache = NoCache \/ cache \in [Paths -> Files]
  /\ pc \in {"idle", "sampling"}
  /\ history \in Seq(Item)
  /\ named \subseteq Names
  /\ budget \in 0..ModelSignalBudget
  /\ asked \subseteq Names
  /\ attempt \in 1..MaxAttempts
  /\ emitted \in BOOLEAN
  /\ parts \in Seq(Part)
  /\ calling \in BOOLEAN

-------------------------------------------------------------------------------
(* Injection.                                                              *)

Other(kind) == <<[kind |-> kind]>>

Skill(m) == [kind |-> "skill", msg |-> m]

(* The injected items at the end of a history.                             *)
SkillRun(h) ==
  LET start == SelectLastInSeq(h, LAMBDA i : i.kind # "skill")
  IN  SubSeq(h, start + 1, Len(h))

(* _existing_injected_keys_for_same_turn: injected items just before the   *)
(* last item.  They are taken to be an earlier attempt's at this turn; the *)
(* scan ends at any other item, so those of an attempt that went on to a   *)
(* tool call, or was itself tried again, are not seen.                     *)
Existing(h) == {i.msg : i \in ToSet(SkillRun(Front(h)))}

NamesIn(messages) == {m.name : m \in messages}

(* _append_injected_messages for a plan: messages not there yet are added, *)
(* and all its names are taken for this turn.                              *)
Injected(h, plan) ==
  LET due == Only(plan, ToSet(plan) \ Existing(h))
  IN  h \o [i \in DOMAIN due |-> Skill(due[i])]

Taken(h, plan) == NamesIn(Existing(h)) \union NamesIn(ToSet(plan))

(* The registry of the turn (None, and never looked at, without a cache):  *)
(* it is not reloaded while it is cached.                                  *)
registry == Registry(layout, cache)

-------------------------------------------------------------------------------
(* One sampling of the model.                                              *)

NewSampling ==
  /\ attempt' = 1
  /\ emitted' = FALSE
  /\ parts' = <<>>
  /\ calling' = FALSE

(* The turn's state at rest; nothing looks at it until the next turn.      *)
EndTurn ==
  /\ pc' = "idle"
  /\ named' = {}
  /\ budget' = 0
  /\ asked' = {}
  /\ samples' = 0
  /\ NewSampling

Init ==
  /\ layout \in Layouts
  /\ disk \in Installed
  /\ cache = NoCache
  /\ pc = "idle"
  /\ history = <<>>
  /\ named = {} /\ asked = {} /\ budget = 0
  /\ attempt = 1 /\ emitted = FALSE /\ parts = <<>> /\ calling = FALSE
  /\ turns = 0 /\ samples = 0 /\ edits = 0

(* get_registry: the cached one, else a new one unless discovery raises.   *)
LoadRegistry ==
  cache' = IF cache = NoCache /\ Discoverable(layout, disk) THEN disk ELSE cache

(* run_turn up to its first sampling.                                      *)
StartTurn(text) ==
  LET h == history \o Other("user")
      names == Mentions(text)
      reg == Registry(layout, cache')
      plan == IF cache' = NoCache THEN <<>> ELSE InjectionPlan(reg, disk, names)
  IN  /\ pc = "idle"
      /\ turns < MaxTurns
      /\ turns' = turns + 1
      /\ LoadRegistry
      /\ IF cache' # NoCache /\ PlanRaises(reg, disk, names)
         THEN history' = h /\ EndTurn
         ELSE /\ history' = Injected(h, plan)
              /\ named' = Taken(h, plan)
              /\ budget' = ModelSignalBudget
              /\ asked' = {text[i].name : i \in {j \in DOMAIN text : ~text[j].code}}
              /\ pc' = "sampling"
              /\ samples' = 1
              /\ NewSampling
      /\ UNCHANGED files

Streaming == UNCHANGED <<files, cache, pc, history, turn, turns, samples>>

(* response.output_text.delta: shown to the client and kept.               *)
Delta(piece) ==
  /\ pc = "sampling"
  /\ Len(parts) < MaxParts
  /\ parts' = Append(parts, [attempt |-> attempt, via |-> "delta", text |-> piece])
  /\ emitted' = TRUE
  /\ UNCHANGED <<attempt, calling>>
  /\ Streaming

(* response.output_item.done with a message: its text counts only if no    *)
(* delta has been seen.                                                    *)
MessageDone(piece) ==
  /\ pc = "sampling"
  /\ Len(parts) < MaxParts
  /\ parts' = IF \E i \in DOMAIN parts : parts[i].via = "delta" THEN parts
              ELSE Append(parts, [attempt |-> attempt, via |-> "item", text |-> piece])
  /\ emitted' = TRUE
  /\ UNCHANGED <<attempt, calling>>
  /\ Streaming

(* response.output_item.done with a function call.                         *)
CallDone ==
  /\ pc = "sampling"
  /\ calling' = TRUE
  /\ emitted' = TRUE
  /\ UNCHANGED <<attempt, parts>>
  /\ Streaming

(* response.completed; events of other types are not passed on.            *)
ResponseCompleted ==
  /\ pc = "sampling"
  /\ emitted' = TRUE
  /\ UNCHANGED <<attempt, parts, calling>>
  /\ Streaming

(* Faulty variant of StreamBreaks: there is no last attempt.               *)
StreamBreaksAlways ==
  /\ pc = "sampling"
  /\ ~emitted
  /\ attempt' = attempt + 1
  /\ UNCHANGED <<emitted, parts, calling>>
  /\ Streaming

(* Faulty variant of StreamBreaks: what was passed on does not matter.     *)
StreamBreaksAgain ==
  /\ pc = "sampling"
  /\ attempt < MaxAttempts
  /\ attempt' = attempt + 1
  /\ emitted' = FALSE
  /\ UNCHANGED <<parts, calling>>
  /\ Streaming

(* A transient error before the first event: wait and try again.           *)
StreamBreaks ==
  /\ pc = "sampling"
  /\ attempt < MaxAttempts
  /\ ~emitted
  /\ attempt' = attempt + 1
  /\ UNCHANGED <<emitted, parts, calling>>
  /\ Streaming

(* Any other error of the client or its stream, or an interrupt: the turn  *)
(* is over and its partial text is dropped.                                *)
SamplingFails ==
  /\ pc = "sampling"
  /\ EndTurn
  /\ UNCHANGED <<files, cache, history, turns>>

(* Faulty variant of Signals: names of this turn are not left out.         *)
SignalsRepeated(text) ==
  IF cache = NoCache THEN <<>>
  ELSE Only(Mentions(text), {n \in Names : ~Disabled(registry, n)})

(* _find_new_skill_signals.                                                *)
Signals(text) ==
  IF cache = NoCache THEN <<>>
  ELSE Only(Mentions(text), {n \in Names \ named : ~Disabled(registry, n)})

Text == FlattenSeq([i \in DOMAIN parts |-> parts[i].text])

(* An assistant message is recorded if there is any text.                  *)
Spoken == IF parts = <<>> THEN <<>> ELSE Other("assistant")

(* The stream is over and there are calls: their results, another round.   *)
CallsRound ==
  /\ pc = "sampling"
  /\ calling
  /\ samples < MaxSamples
  /\ samples' = samples + 1
  /\ history' = history \o Spoken \o Other("tool")
  /\ NewSampling
  /\ UNCHANGED <<files, cache, pc, turn, turns>>

(* The answer names skills, and the budget allows another round.           *)
SignalRound ==
  LET h == history \o Spoken
      names == Signals(Text)
      plan == InjectionPlan(registry, disk, names)
  IN  /\ pc = "sampling"
      /\ ~calling
      /\ budget > 0
      /\ names # <<>>
      /\ samples < MaxSamples
      /\ IF PlanRaises(registry, disk, names)
         THEN history' = h /\ EndTurn
         ELSE /\ history' = Injected(h, plan)
              /\ named' = named \union Taken(h, plan)
              /\ budget' = budget - 1
              /\ samples' = samples + 1
              /\ NewSampling
              /\ UNCHANGED <<pc, asked>>
      /\ UNCHANGED <<files, cache, turns>>

(* The final answer.                                                       *)
Answered ==
  /\ pc = "sampling"
  /\ ~calling
  /\ budget = 0 \/ Signals(Text) = <<>>
  /\ history' = history \o Spoken
  /\ EndTurn
  /\ UNCHANGED <<files, cache, turns>>

(* The process ends and a new one resumes the session: no cache.           *)
Restart ==
  /\ cache # NoCache
  /\ cache' = NoCache
  /\ EndTurn
  /\ UNCHANGED <<files, history, turns>>

(* Somebody edits a skill file.  A stream does not look at them, so an     *)
(* edit beside one is taken to come before its first event.                *)
Edit(p, f) ==
  /\ attempt = 1 /\ ~emitted
  /\ edits < MaxEdits
  /\ edits' = edits + 1
  /\ disk' = [disk EXCEPT ![p] = f]
  /\ UNCHANGED <<layout, cache, pc, history, turn, sampling, turns, samples>>

Stream ==
  \/ \E piece \in Answers : Delta(piece) \/ MessageDone(piece)
  \/ CallDone
  \/ ResponseCompleted
  \/ StreamBreaks

Next ==
  \/ \E text \in Texts : StartTurn(text)
  \/ Stream
  \/ SamplingFails
  \/ CallsRound
  \/ SignalRound
  \/ Answered
  \/ Restart
  \/ \E p \in Paths, f \in Edited : Edit(p, f)

Spec == Init /\ [][Next]_vars

-------------------------------------------------------------------------------
(* Properties.                                                             *)

(* The text of an answer is what one attempt said, once: nothing of a      *)
(* stream that was given up, no message again after its deltas.            *)
TextOnce ==
  \A i, j \in DOMAIN parts :
    /\ parts[i].attempt = attempt
    /\ i < j => ~(parts[i].via = "delta" /\ parts[j].via = "item")

(* Where the turn at hand starts.                                          *)
Start == SelectLastInSeq(history, LAMBDA i : i.kind = "user")

Messages(items) == {i.msg : i \in {k \in ToSet(items) : k.kind = "skill"}}

(* A turn gets at most one message for a name, whoever names it and how    *)
(* often, and none that was the last thing to happen before it: an attempt *)
(* that came no further than its injection is not injected again, by the   *)
(* user's words or later by the model's.  (An attempt that came further is *)
(* injected again.)                                                        *)
InjectedOnce ==
  LET before == Messages(SkillRun(SubSeq(history, 1, Start - 1)))
      mine == {i \in DOMAIN history : i > Start /\ history[i].kind = "skill"}
  IN  pc = "sampling" =>
        /\ \A i, j \in mine : history[i].msg.name = history[j].msg.name => i = j
        /\ \A i \in mine : history[i].msg \notin before

(* A skill that is injected is the one file its name can mean, and was     *)
(* asked for by the user or lets the model ask for it, all on the files    *)
(* the registry was read from.                                             *)
RightSkill ==
  pc = "sampling" =>
    \A m \in Messages(SubSeq(history, Start + 1, Len(history))) :
      m.reason = "none" =>
        /\ Candidates(layout, cache, m.name) = {m.path}
        /\ m.name \in asked \/ ~cache[m.path].off
===============================================================================
