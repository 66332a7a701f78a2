------------------------------- MODULE TuiBridge -------------------------------
(***************************************************************************)
(* pycodex/core/tui_bridge.py, event_adapter.py, session_store.py and the  *)
(* modes of pycodex/__main__.py that use them: one process that reads      *)
(* commands line by line, runs at most one turn as a task beside that      *)
(* loop, and moves between sessions whose rollouts are files.              *)
(*                                                                         *)
(* A command is handled in one step up to its first suspension.  Lines     *)
(* that are already buffered are read without suspending, so the next      *)
(* command may come before the turn's task has run at all.  A rollout is   *)
(* the records handed to its recorder; what a kill does to records not yet *)
(* flushed is the subject of RolloutRecorder, not of this module.          *)
(***************************************************************************)
EXTENDS Integers, Sequences, SequencesExt, FiniteSetsExt, TLC

CONSTANTS
  MaxThreads,   \* bound: threads created, over all restarts
  MaxInputs,    \* bound: prompts accepted, over all restarts
  MaxRequests,  \* bound: approval requests, over all restarts
  MaxRestarts   \* bound: launches of the program after the first

ASSUME BridgeAssumption ==
  /\ MaxThreads \in Nat \ {0}
  /\ MaxInputs \in Nat
  /\ MaxRequests \in Nat
  /\ MaxRestarts \in Nat

Threads == 1..MaxThreads

(* "approved" stands for approved_for_session too: the bridge does not     *)
(* tell them apart.                                                        *)
Decisions == {"approved", "denied", "abort"}

(* A Session object: its thread, the turns it counts, whether it has local *)
(* activity, whether close_rollout() has succeeded, whether its recorder   *)
(* has failed, and (for the properties) the rollout's length at its birth. *)
Session == [thread : Threads, turns : Nat, touched : BOOLEAN, closed : BOOLEAN,
            dead : BOOLEAN, base : Nat]

Record == [kind : {"items", "turn", "closed"}, turns : Nat]

VARIABLES
  loop,      \* where the main coroutine is
  goal,      \* the thread session.resume is resolving or the switch leads to
  session,   \* TuiBridge.session
  first,     \* the session _run_tui_mode was started with
  switched,  \* session and first are different objects
  ledger,    \* rollout of each thread
  made,      \* threads created
  task,      \* the task in _active_turn
  cancelled, \* task.cancel() was called and is not yet delivered
  request,   \* the undecided or unread entry of _pending_approvals, 0 for none
  answer,    \* its decision
  requests,  \* request ids used
  adapter,   \* EventAdapter: thread, turn counter, _current_turn_id (0 for None)
  turnId,    \* TuiBridge._active_turn_id (0 for None)
  inputs,    \* prompts accepted
  restarts,  \* launches after the first
  out,       \* events emitted by the last step
  view,      \* what a client has learnt from the events of this process
  owed       \* an accepted prompt has no turn.completed or turn.failed yet

sessions == <<session, first, switched, made>>
approvals == <<request, answer, requests>>
turnVars == <<task, cancelled, turnId>>
events == <<out, view, owed>>
vars == <<loop, goal, sessions, ledger, turnVars, approvals, adapter, inputs, restarts, events>>

(* The process runs; its turn is active (_turn_is_active).                 *)
Up == loop \notin {"exited", "down"}

Live == task \in {"created", "running", "asking", "flushing"}

TypeOK ==
  /\ loop \in {"reading", "resolving", "closing", "draining", "exiting", "exited", "down",
               "oneshot"}
  /\ goal \in 0..MaxThreads
  /\ session \in Session
  /\ first \in Session
  /\ switched \in BOOLEAN
  /\ ledger \in [Threads -> Seq(Record)]
  /\ made \in 0..MaxThreads
  /\ task \in {"none", "created", "running", "asking", "flushing", "unstarted"}
  /\ cancelled \in BOOLEAN
  /\ request \in 0..MaxRequests
  /\ answer \in Decisions \union {"none"}
  /\ requests \in 0..MaxRequests
  /\ adapter \in [thread : Threads, counter : 0..MaxInputs, current : 0..MaxInputs]
  /\ turnId \in 0..MaxInputs
  /\ inputs \in 0..MaxInputs
  /\ restarts \in 0..MaxRestarts
  /\ \A i \in DOMAIN out : out[i].thread \in Threads /\ out[i].turn \in 0..MaxInputs
  /\ view \in [thread : Threads, open : 0..MaxInputs, last : 0..MaxInputs]
  /\ owed \in BOOLEAN

-------------------------------------------------------------------------------
(* Rollout files and the sessions rebuilt from them.                       *)

TurnsIn(records) == Cardinality({i \in DOMAIN records : records[i].kind = "turn"})

InputsIn(records) == Cardinality({i \in DOMAIN records : records[i].kind = "items"})

(* Faulty variant of Restored: the turn count is not carried over.         *)
RestoredUncounted(t) ==
  [thread |-> t, turns |-> 0, touched |-> FALSE, closed |-> FALSE, dead |-> FALSE,
   base |-> Len(ledger[t])]

(* restore_session_from_rollout, and a new Session where there is no file. *)
Restored(t) ==
  [thread |-> t, turns |-> TurnsIn(ledger[t]), touched |-> FALSE, closed |-> FALSE,
   dead |-> FALSE, base |-> Len(ledger[t])]

(* resolve_resume_rollout_path finds a rollout of the thread.              *)
Found(t) == ledger[t] # <<>>

(* read_session_closed: only the last line counts.                         *)
EndsClosed(records) == Last(records).kind = "closed"

(* What list_sessions says of a rollout: its last line if that is a        *)
(* session.closed, a replay of all lines otherwise.                        *)
Summary(t) ==
  LET records == ledger[t]
  IN  IF EndsClosed(records)
      THEN [thread |-> t, status |-> "closed", turns |-> Last(records).turns]
      ELSE [thread |-> t,
            status |-> IF \E i \in DOMAIN records : records[i].kind = "closed"
                       THEN "closed" ELSE "incomplete",
            turns |-> TurnsIn(records)]

Listing == {Summary(t) : t \in {u \in Threads : Found(u) /\ u # session.thread}}

Recorded(t, kind, n) == [ledger EXCEPT ![t] = Append(@, [kind |-> kind, turns |-> n])]

-------------------------------------------------------------------------------
(* Events, and the client that reads them.                                 *)

Event(type, t) == [type |-> type, thread |-> t, turn |-> 0]

TurnEvent(type, k) == [type |-> type, thread |-> adapter.thread, turn |-> k]

Terminal(e) == e.type \in {"turn.completed", "turn.failed"}

See(v, e) ==
  IF e.type = "thread.started" THEN [thread |-> e.thread, open |-> 0, last |-> 0]
  ELSE IF e.type = "turn.started" THEN [v EXCEPT !.open = e.turn, !.last = e.turn]
  ELSE IF Terminal(e) /\ e.turn = v.open
  THEN [v EXCEPT !.open = 0]
  ELSE v

Emit(es) ==
  /\ out' = es
  /\ view' = FoldLeft(See, view, es)
  /\ owed' = (owed /\ ~\E i \in DOMAIN es : Terminal(es[i]))

Silent == Emit(<<>>)

Status(s) == Event("session.status", s.thread)

(* The command ends with an error event and the loop reads on.             *)
Refuse ==
  /\ Emit(<<Event("session.error", session.thread)>>)
  /\ loop' = "reading"
  /\ goal' = 0

-------------------------------------------------------------------------------
(* Launching.                                                              *)

Idle == task' = "none" /\ turnId' = 0 /\ cancelled' = FALSE

NoRequest == request' = 0 /\ answer' = "none" /\ UNCHANGED requests

NewAdapter(t) == [thread |-> t, counter |-> 0, current |-> 0]

Begin(t) ==
  /\ session' = Restored(t)
  /\ first' = Restored(t)
  /\ switched' = FALSE
  /\ made' = IF t > made THEN t ELSE made
  /\ goal' = 0
  /\ NoRequest
  /\ adapter' = NewAdapter(t)
  /\ out' = <<Event("thread.started", t)>>
  /\ view' = [thread |-> t, open |-> 0, last |-> 0]

(* A new thread, or one whose rollout --resume finds.                      *)
Startable(t) == t = made + 1 \/ Found(t)

Init ==
  /\ loop = "reading"
  /\ goal = 0
  /\ ledger = [t \in Threads |-> <<>>]
  /\ session = Restored(1)
  /\ first = session
  /\ switched = FALSE
  /\ made = 1
  /\ task = "none"
  /\ cancelled = FALSE
  /\ request = 0
  /\ answer = "none"
  /\ requests = 0
  /\ adapter = NewAdapter(1)
  /\ turnId = 0
  /\ inputs = 0
  /\ restarts = 0
  /\ out = <<Event("thread.started", 1)>>
  /\ view = [thread |-> 1, open |-> 0, last |-> 0]
  /\ owed = FALSE

LaunchTui(t) ==
  /\ ~Up
  /\ restarts < MaxRestarts
  /\ restarts' = restarts + 1
  /\ Startable(t)
  /\ Begin(t)
  /\ loop' = "reading"
  /\ owed' = FALSE
  /\ UNCHANGED <<ledger, turnVars, inputs>>

(* _run_prompt_json: one turn, awaited by the main coroutine itself.       *)
LaunchOneShot(t) ==
  /\ ~Up
  /\ restarts < MaxRestarts
  /\ restarts' = restarts + 1
  /\ inputs < MaxInputs
  /\ inputs' = inputs + 1
  /\ Startable(t)
  /\ Begin(t)
  /\ loop' = "oneshot"
  /\ task' = "created"
  /\ owed' = TRUE
  /\ UNCHANGED <<ledger, cancelled, turnId>>

(* The process is killed, and its tasks with it.                           *)
Crash ==
  /\ Up
  /\ loop' = "down"
  /\ goal' = 0
  /\ Idle
  /\ NoRequest
  /\ owed' = FALSE
  /\ out' = <<>>
  /\ UNCHANGED <<sessions, ledger, adapter, inputs, restarts, view>>

(* The recorder's worker fails or a flush times out: record() raises from  *)
(* now on.  There is a worker only once something was recorded.            *)
RecorderFails ==
  /\ Up /\ loop \notin {"closing", "exiting"}
  /\ session.touched
  /\ ~session.dead
  /\ session' = [session EXCEPT !.dead = TRUE]
  /\ Silent
  /\ UNCHANGED <<loop, goal, first, switched, made, ledger, turnVars, approvals, adapter,
                 inputs, restarts>>

-------------------------------------------------------------------------------
(* The turn's task.  Cancellation is delivered at its next step.           *)

TurnOnly == UNCHANGED <<loop, goal, first, switched, made, inputs, restarts>>

Step(from) == task = from /\ ~cancelled

(* Faulty variant of Started: the counter is not advanced.                 *)
StartedAgain ==
  /\ adapter' = [adapter EXCEPT !.current = adapter.counter + 1]
  /\ turnId' = adapter.counter + 1
  /\ Emit(<<TurnEvent("turn.started", adapter.counter + 1)>>)

(* TurnStarted: the adapter numbers the turn.                              *)
Started ==
  LET k == adapter.counter + 1
  IN  /\ adapter' = [adapter EXCEPT !.counter = k, !.current = k]
      /\ turnId' = k
      /\ Emit(<<TurnEvent("turn.started", k)>>)

(* The task first runs: metadata and the prompt are recorded.              *)
StartTurn ==
  /\ Step("created")
  /\ ~session.dead
  /\ session' = [session EXCEPT !.touched = TRUE]
  /\ ledger' = Recorded(session.thread, "items", 0)
  /\ task' = "running"
  /\ Started
  /\ UNCHANGED <<cancelled, approvals>>
  /\ TurnOnly

(* Faulty variant of FailureId: a failure always takes the next number.    *)
FailureIdNext == adapter.counter + 1

(* failure_turn_id: the current turn, else the number the next would get.  *)
FailureId == IF adapter.current # 0 THEN adapter.current ELSE adapter.counter + 1

(* Faulty variant of TurnFails: only turns that have started are reported. *)
TurnFailsQuietly ==
  /\ \/ Step("created") /\ session.dead
     \/ Step("running")
     \/ Step("flushing") /\ session.dead
  /\ IF turnId # 0 THEN Emit(<<TurnEvent("turn.failed", FailureId)>>) ELSE Silent
  /\ Idle
  /\ UNCHANGED <<session, ledger, approvals, adapter>>
  /\ TurnOnly

(* run_turn raises: the model, a dead recorder or (for a turn that had not *)
(* started) the first record.  A turn that gets to its end is counted      *)
(* before its record raises.  _current_turn_id stays set.                  *)
TurnFails ==
  /\ \/ Step("created") /\ session.dead /\ UNCHANGED session
     \/ Step("running") /\ UNCHANGED session
     \/ Step("running") /\ session.dead /\ session' = [session EXCEPT !.turns = @ + 1]
     \/ Step("flushing") /\ session.dead /\ UNCHANGED session
  /\ Emit(<<TurnEvent("turn.failed", FailureId)>>)
  /\ Idle
  /\ UNCHANGED <<ledger, approvals, adapter>>
  /\ TurnOnly

(* A tool call needs approval: request_approval waits for an answer.       *)
Ask ==
  /\ Step("running")
  /\ ~session.dead
  /\ loop # "oneshot"
  /\ requests < MaxRequests
  /\ requests' = requests + 1
  /\ request' = requests'
  /\ answer' = "none"
  /\ task' = "asking"
  /\ Emit(<<TurnEvent("approval.requested", turnId)>>)
  /\ UNCHANGED <<session, ledger, cancelled, turnId, adapter>>
  /\ TurnOnly

(* The turn is counted, recorded and flushed.                              *)
EndTurn ==
  /\ session' = [session EXCEPT !.turns = @ + 1]
  /\ ledger' = Recorded(session.thread, "turn", 0)
  /\ task' = "flushing"

(* The waiting request is popped; ABORT ends the turn at once.             *)
Answered ==
  /\ Step("asking")
  /\ answer # "none"
  /\ NoRequest
  /\ \/ answer = "abort" /\ ~session.dead /\ EndTurn
     \/ (answer # "abort" \/ session.dead) /\ task' = "running" /\ UNCHANGED <<session, ledger>>
  /\ Silent
  /\ UNCHANGED <<cancelled, turnId, adapter>>
  /\ TurnOnly

(* The model answers without tool calls.                                   *)
Finish ==
  /\ Step("running")
  /\ ~session.dead
  /\ EndTurn
  /\ Silent
  /\ UNCHANGED <<cancelled, turnId, approvals, adapter>>
  /\ TurnOnly

(* The flush returns: TurnCompleted, then the status of the session.       *)
Complete ==
  /\ Step("flushing")
  /\ ~session.dead
  /\ Emit(<<TurnEvent("turn.completed", adapter.current)>>
           \o (IF loop = "oneshot" THEN <<>> ELSE <<Status(session)>>))
  /\ adapter' = [adapter EXCEPT !.current = 0]
  /\ Idle
  /\ UNCHANGED <<session, ledger, approvals>>
  /\ TurnOnly

(* Faulty variant of Interrupted: the wait for an answer is shielded.      *)
InterruptedUnlessAsking ==
  /\ task \in {"running", "flushing"}
  /\ cancelled
  /\ NoRequest
  /\ Emit(<<TurnEvent("turn.failed", FailureId)>>)
  /\ Idle
  /\ UNCHANGED <<session, ledger, adapter>>
  /\ TurnOnly

(* CancelledError: in the wait for an answer it also pops the request.     *)
Interrupted ==
  /\ task \in {"running", "asking", "flushing"}
  /\ cancelled
  /\ NoRequest
  /\ Emit(<<TurnEvent("turn.failed", FailureId)>>)
  /\ Idle
  /\ UNCHANGED <<session, ledger, adapter>>
  /\ TurnOnly

(* A task cancelled before its first step never enters _run_turn: nothing  *)
(* is emitted and _active_turn keeps the finished task.                    *)
NeverStarts ==
  /\ task = "created"
  /\ cancelled
  /\ task' = "unstarted"
  /\ cancelled' = FALSE
  /\ Silent
  /\ UNCHANGED <<session, ledger, turnId, approvals, adapter>>
  /\ TurnOnly

-------------------------------------------------------------------------------
(* Commands, one line at a time.                                           *)

Reading == loop = "reading"

QuietCommand ==
  UNCHANGED <<goal, sessions, ledger, turnVars, approvals, adapter, inputs, restarts>>

(* user.input while no turn runs starts one; otherwise it is dropped.      *)
UserInput ==
  /\ Reading
  /\ ~Live
  /\ inputs < MaxInputs
  /\ inputs' = inputs + 1
  /\ task' = "created"
  /\ out' = <<>>
  /\ owed' = TRUE
  /\ UNCHANGED <<loop, goal, sessions, ledger, cancelled, turnId, approvals, adapter, restarts,
                 view>>

(* /status, /resume (blocked during a turn, else the listing), others.     *)
Slash ==
  /\ Reading
  /\ \/ Emit(<<Status(session)>>)
     \/ Live /\ Emit(<<Event("slash.blocked", session.thread)>>)
     \/ ~Live /\ Emit(<<[type |-> "session.listed", thread |-> session.thread, turn |-> 0,
                         sessions |-> Listing]>>)
     \/ Emit(<<Event("slash.unknown", session.thread)>>)
  /\ UNCHANGED loop
  /\ QuietCommand

(* approval.response: the first one for a pending request counts.          *)
Respond(r, d) ==
  /\ Reading
  /\ answer' = IF request = r /\ answer = "none" THEN d ELSE answer
  /\ Silent
  /\ UNCHANGED <<loop, goal, sessions, ledger, turnVars, request, requests, adapter, inputs,
                 restarts>>

(* interrupt, or SIGINT in the one-shot mode.                              *)
Interrupt ==
  /\ \/ Reading /\ Live
     \/ loop = "oneshot" /\ Live /\ task # "created"
  /\ cancelled' = TRUE
  /\ Silent
  /\ UNCHANGED <<loop, goal, sessions, ledger, task, turnId, approvals, adapter, inputs, restarts>>

(* The bridge takes the session of thread t; left is the one it leaves.    *)
Take(t, left) ==
  /\ session' = Restored(t)
  /\ first' = IF switched THEN first ELSE left
  /\ switched' = TRUE
  /\ made' = IF t > made THEN t ELSE made
  /\ NoRequest
  /\ loop' = "reading"
  /\ goal' = 0

(* _activate_session after the old rollout is closed: a fresh adapter      *)
(* announces the thread.                                                   *)
Activate(t, left, hydrate) ==
  /\ Take(t, left)
  /\ adapter' = NewAdapter(t)
  /\ Emit(<<Event("thread.started", t), Event("session.status", t)>> \o hydrate)

(* session.resume also shows the turns of the rollout.                     *)
Hydrate(t) ==
  IF ~Found(t) THEN <<>>
  ELSE <<[type |-> "session.hydrated", thread |-> t, turn |-> InputsIn(ledger[t])]>>

(* close_rollout() up to the wait for the recorder's shutdown.             *)
RecordClosed(s) == ledger' = Recorded(s.thread, "closed", s.turns)

(* Faulty variant of SwitchTo: the old session's rollout is left open.     *)
SwitchUnclosed(t) ==
  /\ Activate(t, session, Hydrate(t))
  /\ UNCHANGED ledger

(* The old session is closed only if it has local activity; a recorder     *)
(* that has failed refuses the record and the switch is given up.          *)
SwitchTo(t) ==
  \/ /\ ~session.touched
     /\ Activate(t, session, Hydrate(t))
     /\ UNCHANGED ledger
  \/ /\ session.touched
     /\ ~session.dead
     /\ RecordClosed(session)
     /\ loop' = "closing"
     /\ goal' = t
     /\ Silent
     /\ UNCHANGED <<sessions, approvals, adapter>>
  \/ /\ session.touched
     /\ session.dead
     /\ Refuse
     /\ UNCHANGED <<sessions, ledger, approvals, adapter>>

(* _create_new_session: a thread and a rollout path of its own.            *)
CreateNew == made < MaxThreads /\ SwitchTo(made + 1)

(* Faulty variant of New: a running turn does not stop it.                 *)
NewAlways ==
  /\ Reading
  /\ CreateNew
  /\ UNCHANGED <<turnVars, inputs, restarts>>

(* session.new is refused during a turn.                                   *)
New ==
  /\ Reading
  /\ \/ Live /\ Refuse /\ UNCHANGED <<sessions, ledger, approvals, adapter>>
     \/ ~Live /\ CreateNew
  /\ UNCHANGED <<turnVars, inputs, restarts>>

(* /new does the same, with a refusal of its own.                          *)
SlashNew ==
  /\ Reading
  /\ \/ /\ Live
        /\ Emit(<<Event("slash.blocked", session.thread)>>)
        /\ UNCHANGED <<loop, goal, sessions, ledger, approvals, adapter>>
     \/ ~Live /\ CreateNew
  /\ UNCHANGED <<turnVars, inputs, restarts>>

(* session.resume: refused during a turn and for the thread already shown, *)
(* otherwise the rollout is looked up in a thread pool.                    *)
Resume(t) ==
  /\ Reading
  /\ \/ (Live \/ t = session.thread) /\ Refuse
     \/ ~Live /\ t # session.thread /\ loop' = "resolving" /\ goal' = t /\ Silent
  /\ UNCHANGED <<sessions, ledger, turnVars, approvals, adapter, inputs, restarts>>

(* The lookup returns: no rollout, or a replay and the switch.             *)
Resolved ==
  /\ loop = "resolving"
  /\ \/ /\ ~Found(goal)
        /\ Refuse
        /\ UNCHANGED <<sessions, ledger, approvals, adapter>>
     \/ Found(goal) /\ SwitchTo(goal)
  /\ UNCHANGED <<turnVars, inputs, restarts>>

(* The recorder has shut down: the old session is closed, move on.         *)
Closed ==
  /\ loop = "closing"
  /\ Activate(goal, [session EXCEPT !.closed = TRUE], Hydrate(goal))
  /\ UNCHANGED <<ledger, turnVars, inputs, restarts>>

(* The shutdown fails: the old session stays, with a recorder that refuses *)
(* every record.                                                           *)
CloseFails ==
  /\ loop = "closing"
  /\ session' = [session EXCEPT !.dead = TRUE]
  /\ Refuse
  /\ UNCHANGED <<first, switched, made, ledger, turnVars, approvals, adapter, inputs, restarts>>

-------------------------------------------------------------------------------
(* End of input and exit.                                                  *)

(* run() cancels a turn that is still active and awaits it.                *)
EndOfInput ==
  /\ Reading
  /\ loop' = "draining"
  /\ cancelled' = Live
  /\ Silent
  /\ UNCHANGED <<goal, sessions, ledger, task, turnId, approvals, adapter, inputs, restarts>>

(* The session that _run_tui_mode and _run_prompt_json close: their own.   *)
Own == IF switched THEN first ELSE session

(* close_rollout() on exit: nothing to do, refused, or recorded.           *)
Leave ==
  /\ \/ loop = "draining" /\ ~Live
     \/ loop = "oneshot" /\ task = "none"
  /\ \/ Own.closed /\ loop' = "exited" /\ UNCHANGED ledger
     \/ ~Own.closed /\ Own.dead /\ loop' = "down" /\ UNCHANGED ledger
     \/ ~Own.closed /\ ~Own.dead /\ loop' = "exiting" /\ RecordClosed(Own)
  /\ Silent
  /\ UNCHANGED <<goal, sessions, turnVars, approvals, adapter, inputs, restarts>>

(* The shutdown returns, or raises out of the program.                     *)
Exit ==
  /\ loop = "exiting"
  /\ loop' \in {"exited", "down"}
  /\ Silent
  /\ QuietCommand

Turn ==
  \/ StartTurn
  \/ TurnFails
  \/ Answered
  \/ Finish
  \/ Complete
  \/ Interrupted
  \/ NeverStarts

(* _handle_line: what a line may ask for; other lines are ignored.         *)
Command ==
  \/ UserInput
  \/ Slash
  \/ SlashNew
  \/ \E r \in 1..MaxRequests, d \in Decisions : Respond(r, d)
  \/ \E t \in Threads : Resume(t)
  \/ New
  \/ Interrupt

Next ==
  \/ \E t \in Threads : LaunchTui(t) \/ LaunchOneShot(t)
  \/ Crash
  \/ RecorderFails
  \/ Turn
  \/ Ask
  \/ Command
  \/ Resolved
  \/ Closed
  \/ CloseFails
  \/ EndOfInput
  \/ Leave
  \/ Exit

Spec == Init /\ [][Next]_vars

(* The event loop runs a task that is ready, and close_rollout returns:    *)
(* its wait is bounded by flush_timeout.  Nothing is assumed of the        *)
(* client, of the model or of a user who is asked.                         *)
Delivered == Interrupted \/ NeverStarts

Fairness == WF_vars(Delivered) /\ WF_vars(Leave) /\ WF_vars(Exit) /\ WF_vars(Closed \/ CloseFails)
            /\ WF_vars(Resolved)

FairSpec == Spec /\ Fairness

-------------------------------------------------------------------------------
(* Properties.                                                             *)

(* A turn that waits for an answer can get one: its request is the pending *)
(* one, and no request is pending without such a turn.                     *)
Answerable == task = "asking" <=> request # 0

(* Replies are attributed to what the client has been told: every event    *)
(* but thread.started names the announced thread, and an approval request  *)
(* the open turn.                                                          *)
Attributed ==
  \A i \in DOMAIN out :
    /\ out[i].type # "thread.started" => out[i].thread = view.thread
    /\ out[i].type = "approval.requested" => out[i].turn = view.open

(* The sequence of events is the protocol the client relies on.            *)
Protocol == INSTANCE TurnProtocol WITH
  alive <- Up,
  thread <- view.thread, open <- view.open, last <- view.last

ProtocolKept == Protocol!Spec

(* A client that sees no open turn is not mistaken, and one that sees a    *)
(* turn has it running: a turn's last event and its end are one step.      *)
OpenMeansRunning ==
  Up =>
    (view.open # 0 <=> task \in {"running", "asking", "flushing"})

(* What the client is told agrees with what the bridge does: whom a reply   *)
(* is about, which turn runs, and which question waits.                    *)
ViewTrue == Answerable /\ Attributed /\ OpenMeansRunning

(* A prompt whose task has ended was reported as completed or failed,      *)
(* unless it was cancelled before the task first ran.                      *)
OutcomeReported == ~Live /\ owed => task = "unstarted"

(* A session that was used is left only with session.closed as the last    *)
(* record of its rollout.                                                  *)
SwitchCloses ==
  [][/\ Up
     /\ session'.thread # session.thread
     /\ Len(ledger[session.thread]) > session.base
     => EndsClosed(ledger'[session.thread])]_vars

(* The count a session keeps in memory, and writes into session.closed, is *)
(* the one a replay of its rollout gives.  Only a session whose recorder   *)
(* has failed, and which therefore takes no session.closed, can be ahead,  *)
(* and by no more than the turn that ran when it failed.                   *)
CountsAgree ==
  Up =>
    \/ session.turns = TurnsIn(ledger[session.thread])
    \/ session.dead /\ session.turns = TurnsIn(ledger[session.thread]) + 1

(* An interrupted turn is reported and ends, whatever it waits for.        *)
InterruptEnds == cancelled ~> (~Live \/ loop = "down")

(* End of input ends the program, whatever the turn waits for.             *)
EofExits == loop = "draining" ~> ~Up

(* Whoever stops something gets it stopped: the user, or the end of input. *)
StopsEnd == InterruptEnds /\ EofExits

(* The documented rule that a clean shutdown persists session.closed: on a *)
(* clean exit every rollout is listed as closed, with its number of turns. *)
ExitListing ==
  loop = "exited" =>
    \A t \in {u \in Threads : Found(u)} :
      Summary(t) = [thread |-> t, status |-> "closed", turns |-> TurnsIn(ledger[t])]
===============================================================================
