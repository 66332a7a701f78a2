------------------------------- MODULE TuiClient -------------------------------
(***************************************************************************)
(* The client of the bridge, tui/src: hooks/useTurns.ts, useApprovalQueue, *)
(* useProtocolEvents, components/InputArea, ApprovalModal, and app.tsx,    *)
(* joined to TuiBridge by two ordered pipes of JSON lines.                 *)
(*                                                                         *)
(* The hooks take events in order, one effect at a time.  Ink puts a new   *)
(* key handler in place after the render that made it, and before the next *)
(* one: a key can meet a handler that is one render old.  Notices, text    *)
(* editing and what a turn looks like are left out.                        *)
(***************************************************************************)
EXTENDS TuiBridge

CONSTANTS
  MaxSends,  \* bound: lines the client writes
  MaxDeltas  \* bound: pieces of text the turns stream

ASSUME ClientAssumption == {MaxSends, MaxDeltas} \subseteq Nat

Prompts == 1..MaxInputs

VARIABLES
  cmds,     \* lines the bridge has not read
  evts,     \* events the client has not processed
  ui,       \* state of the hooks
  shown,    \* what the key handlers in place were made with
  typed,    \* prompts sent
  sends,    \* lines written
  streamed, \* deltas streamed
  running,  \* the prompt of the bridge's task
  early     \* the timer gave up on a prompt whose turn had yet to show

client == <<ui, shown>>
bounds == <<typed, sends, streamed>>
clientVars == <<cmds, evts, client, bounds, running, early>>

(* An entry of TurnState: deltas is the text it shows beyond its result,   *)
(* error (0 for none) is known by the prompt whose task raised it, and     *)
(* prompt (for the properties) is what its turn runs.  Hydrated turns have *)
(* ids of their own, here the negative numbers.                            *)
Entry == [id : -MaxInputs..MaxInputs, state : {"active", "completed", "failed"},
          text : Prompts \union {0}, deltas : 0..MaxDeltas, error : Prompts \union {0},
          prompt : Prompts \union {0}]

ClientTypeOK ==
  /\ ui.thread \in Threads \union {0}
  /\ ui.turns \in Seq(Entry)
  /\ ui.queue \in Seq([request : 1..MaxRequests, turn : Prompts])
  /\ ui.slot \in Prompts \union {0}
  /\ ui.buffer \in Seq(Prompts)
  /\ ui.picking \in BOOLEAN
  /\ ui.offers \subseteq Threads
  /\ shown.disabled \in BOOLEAN /\ shown.busy \in BOOLEAN /\ shown.picking \in BOOLEAN
  /\ shown.request \in 0..MaxRequests
  /\ shown.offers \subseteq Threads
  /\ running \in Prompts \union {0}
  /\ early \in BOOLEAN
  /\ typed \in 0..MaxInputs /\ sends \in 0..MaxSends /\ streamed \in 0..MaxDeltas
  /\ Len(cmds) <= sends

-------------------------------------------------------------------------------
(* What the hooks make of events.                                          *)

Opened == {i \in DOMAIN ui.turns : ui.turns[i].state = "active"}

(* The turn shown as open, 0 for none.                                     *)
ShownTurn == IF Opened = {} THEN 0 ELSE ui.turns[CHOOSE i \in Opened : TRUE].id

(* Faulty variant of Disabled: an open turn does not count.                *)
DisabledUnlessOpen == ui.queue # <<>> \/ ui.slot # 0 \/ ui.picking

(* isInputDisabled, and the session picker.                                *)
Disabled == Opened # {} \/ ui.queue # <<>> \/ ui.slot # 0 \/ ui.picking

(* The props a render hands to the key handlers.                           *)
Rendered ==
  [disabled |-> Disabled, busy |-> Opened # {}, picking |-> ui.picking, offers |-> ui.offers,
   request |-> IF ui.queue = <<>> THEN 0 ELSE Head(ui.queue).request]

Pieces(buffer, k) == Cardinality({j \in DOMAIN buffer : buffer[j] = k})

(* applyItemUpdatedDelta: the deltas buffered for a turn go to its entry.  *)
Extended(turns, buffer) ==
  [i \in DOMAIN turns |-> [turns[i] EXCEPT !.deltas = @ + Pieces(buffer, turns[i].id)]]

(* Faulty variant of Flushed: the buffer is not cleared.                   *)
FlushedKept(u) == [u EXCEPT !.turns = Extended(@, u.buffer)]

(* flushPendingItemUpdates: one batch for all turns.                       *)
Flushed(u) == [u EXCEPT !.turns = Extended(@, u.buffer), !.buffer = <<>>]

(* Faulty variant of ThreadStarted: a new thread keeps the old entries.    *)
ThreadStartedKeeping(u, e) == [u EXCEPT !.thread = e.thread]

(* Another thread than the one shown: its turns go.                        *)
ThreadStarted(u, e) ==
  [u EXCEPT !.thread = e.thread,
            !.turns = IF u.thread \notin {0, e.thread} THEN <<>> ELSE @]

(* updateTurn with the pending prompt, 0 for none, as the turn's text.     *)
Titled(turns, k, p) ==
  [i \in DOMAIN turns |->
    IF p # 0 /\ turns[i].id = k THEN [turns[i] EXCEPT !.text = p] ELSE turns[i]]

(* A turn not seen before gets an entry; the pending prompt is its text.   *)
TurnStarted(u, e) ==
  LET known == \E i \in DOMAIN u.turns : u.turns[i].id = e.turn
      turns == IF known THEN u.turns
               ELSE Append(u.turns, [id |-> e.turn, state |-> "active", text |-> 0,
                                     deltas |-> 0, error |-> 0, prompt |-> e.prompt])
  IN  [u EXCEPT !.turns = Titled(turns, e.turn, u.slot), !.slot = 0]

(* updateTurn with how the turn ended; its result replaces what was        *)
(* streamed.  The event's error is put on the entry whether or not the     *)
(* turn had ended before.                                                  *)
Closing(turns, e) ==
  [i \in DOMAIN turns |->
    IF turns[i].id # e.turn THEN turns[i]
    ELSE IF e.type = "turn.completed" THEN [turns[i] EXCEPT !.state = "completed", !.deltas = 0, !.error = 0]
    ELSE [turns[i] EXCEPT !.state = "failed", !.error = e.prompt]]

(* The requests of other turns than k.                                     *)
Without(queue, k) ==
  FlattenSeq([i \in DOMAIN queue |-> IF queue[i].turn = k THEN <<>> ELSE <<queue[i]>>])

(* Faulty variant of TurnEnded: requests of the turn stay in the queue.    *)
TurnEndedAsking(u, e) == [u EXCEPT !.turns = Closing(@, e)]

(* Faulty variant of TurnEnded: a turn that failed stays open.             *)
TurnEndedCompleted(u, e) ==
  IF e.type = "turn.failed" THEN u
  ELSE [u EXCEPT !.turns = Closing(@, e), !.queue = Without(@, e.turn)]

(* The end of a turn, which also takes its requests out of the queue.      *)
TurnEnded(u, e) == [u EXCEPT !.turns = Closing(@, e), !.queue = Without(@, e.turn)]

(* reduceApprovalQueue; its limit of 100 is out of reach, since the bridge *)
(* asks for one approval at a time.                                        *)
Requested(u, e) ==
  IF \E i \in DOMAIN u.queue : u.queue[i].request = e.request THEN u
  ELSE [u EXCEPT !.queue = Append(@, [request |-> e.request, turn |-> e.turn])]

Hydrated(u, e) ==
  IF u.thread \notin {0, e.thread} THEN u
  ELSE [u EXCEPT !.thread = e.thread,
                 !.turns = [i \in 1..e.turn |->
                   [id |-> -i, state |-> "completed", text |-> 0, deltas |-> 0, error |-> 0,
                    prompt |-> 0]]]

Listed(u, e) ==
  [u EXCEPT !.picking = TRUE, !.offers = {s.thread : s \in e.sessions}]

(* reduceTurns, reduceApprovalQueue and the picker's effect.               *)
Reduced(u, e) ==
  CASE e.type = "thread.started" -> ThreadStarted(u, e)
    [] e.type = "turn.started" -> TurnStarted(u, e)
    [] Terminal(e) -> TurnEnded(u, e)
    [] e.type = "approval.requested" -> Requested(u, e)
    [] e.type = "session.hydrated" -> Hydrated(u, e)
    [] e.type = "session.listed" -> Listed(u, e)

-------------------------------------------------------------------------------
(* Effects and timers.  A render puts the handlers of the last one in      *)
(* place.                                                                  *)

Render == shown' = Rendered

BridgeIdle == UNCHANGED vars

Local == BridgeIdle /\ UNCHANGED <<running, typed, sends, streamed>>

SystemInit ==
  /\ Init
  /\ cmds = <<>>
  /\ evts = out
  /\ ui = [thread |-> 0, turns |-> <<>>, queue |-> <<>>, slot |-> 0, buffer |-> <<>>,
           picking |-> FALSE, offers |-> {}]
  /\ shown = [disabled |-> FALSE, busy |-> FALSE, picking |-> FALSE, offers |-> {}, request |-> 0]
  /\ typed = 0 /\ sends = 0 /\ streamed = 0
  /\ running = 0
  /\ early = FALSE

(* Faulty variant of Receive: buffered deltas wait for their own flush.    *)
ReceiveUnflushed ==
  /\ evts # <<>>
  /\ evts' = Tail(evts)
  /\ ui' = LET e == Head(evts)
           IN  IF e.type = "item.updated" THEN [ui EXCEPT !.buffer = Append(@, e.turn)]
               ELSE Reduced(ui, e)
  /\ Render
  /\ UNCHANGED <<cmds, early>>
  /\ Local

(* The effects for one event: deltas are buffered, and flushed before any  *)
(* other event is taken.                                                   *)
Receive ==
  /\ evts # <<>>
  /\ evts' = Tail(evts)
  /\ ui' = LET e == Head(evts)
           IN  IF e.type = "item.updated" THEN [ui EXCEPT !.buffer = Append(@, e.turn)]
               ELSE Reduced(Flushed(ui), e)
  /\ Render
  /\ UNCHANGED <<cmds, early>>
  /\ Local

(* setImmediate: the buffered deltas.                                      *)
FlushDeltas ==
  /\ ui.buffer # <<>>
  /\ ui' = Flushed(ui)
  /\ Render
  /\ UNCHANGED <<cmds, evts, early>>
  /\ Local

(* Passive effects run: the key handlers catch up with the last render.    *)
Install ==
  /\ shown # Rendered
  /\ Render
  /\ UNCHANGED <<cmds, evts, ui, early>>
  /\ Local

(* The turn of prompt p has yet to start, or its start to be shown.        *)
Awaited(p) ==
  \/ \E i \in DOMAIN cmds : cmds[i].do = "prompt" /\ cmds[i].arg = p
  \/ running = p /\ task = "created"
  \/ \E i \in DOMAIN evts : evts[i].type = "turn.started" /\ evts[i].prompt = p

(* PENDING_USER_INPUT_TIMEOUT_MS: the client stops waiting for the turn.   *)
Expire ==
  /\ ui.slot # 0
  /\ early' = (early \/ Awaited(ui.slot))
  /\ ui' = [ui EXCEPT !.slot = 0]
  /\ Render
  /\ UNCHANGED <<cmds, evts>>
  /\ Local

-------------------------------------------------------------------------------
(* Keys.                                                                   *)

Send(do, arg, how) ==
  /\ sends < MaxSends
  /\ sends' = sends + 1
  /\ cmds' = Append(cmds, [do |-> do, arg |-> arg, how |-> how])
  /\ BridgeIdle
  /\ UNCHANGED <<evts, streamed, running, early>>

(* Faulty variant of Submit: the slot is not asked, only the handler.      *)
SubmitUnqueued ==
  /\ ~shown.disabled
  /\ typed < MaxInputs
  /\ typed' = typed + 1
  /\ ui' = [ui EXCEPT !.slot = typed']
  /\ Render
  /\ Send("prompt", typed', "")

(* handleSubmit with a prompt: it is sent only if it gets the slot that    *)
(* waits for the turn's start.                                             *)
Submit ==
  /\ ~shown.disabled
  /\ ui.slot = 0
  /\ typed < MaxInputs
  /\ typed' = typed + 1
  /\ ui' = [ui EXCEPT !.slot = typed']
  /\ Render
  /\ Send("prompt", typed', "")

(* Threads there are or will be, by what has been sent.                    *)
Coming ==
  made + Cardinality({i \in DOMAIN cmds : cmds[i].do = "new"})
       + (IF loop = "closing" /\ goal > made THEN 1 ELSE 0)

(* handleSubmit with /new or /resume: no slot.                             *)
SubmitSlash(do) ==
  /\ ~shown.disabled
  /\ do = "new" => Coming < MaxThreads
  /\ Render
  /\ Send(do, 0, "")
  /\ UNCHANGED <<ui, typed>>

(* handleCtrlC during a turn.  The line names nothing; the turn and thread *)
(* shown are for the properties.                                           *)
PressInterrupt ==
  /\ shown.busy
  /\ Send("interrupt", ShownTurn, ui.thread)
  /\ UNCHANGED <<client, typed>>

(* respond: the request of the handler is answered, and taken out if it is *)
(* still the head of the queue.                                            *)
Decide(d) ==
  /\ shown.request # 0
  /\ ui' = IF ui.queue # <<>> /\ Head(ui.queue).request = shown.request
           THEN [ui EXCEPT !.queue = Tail(@)] ELSE ui
  /\ Render
  /\ Send("respond", shown.request, d)
  /\ UNCHANGED typed

(* handleSessionSelect and handleSessionDismiss.                           *)
Pick(t) ==
  /\ shown.picking
  /\ t \in shown.offers
  /\ ui' = [ui EXCEPT !.picking = FALSE]
  /\ Render
  /\ Send("resume", t, "")
  /\ UNCHANGED typed

Dismiss ==
  /\ shown.picking
  /\ ui.picking
  /\ ui' = [ui EXCEPT !.picking = FALSE]
  /\ Render
  /\ UNCHANGED <<cmds, evts, early>>
  /\ Local

-------------------------------------------------------------------------------
(* The bridge, reading and writing the pipes.                              *)

(* The line of an event.  A request names itself; a failure's error is     *)
(* that of the task of a prompt.  The prompt that a turn runs is for the   *)
(* properties.  Events that change nothing but notices are *)
(* left out of the pipe.                                                   *)
Lines(e) ==
  IF e.type \in {"session.status", "session.error", "slash.blocked", "slash.unknown"} THEN <<>>
  ELSE IF e.type = "approval.requested"
  THEN <<[type |-> e.type, thread |-> e.thread, turn |-> e.turn, request |-> request']>>
  ELSE IF e.type \in {"turn.started", "turn.failed"}
  THEN <<[type |-> e.type, thread |-> e.thread, turn |-> e.turn, prompt |-> running']>>
  ELSE <<e>>

Carried == FlattenSeq([i \in DOMAIN out' |-> Lines(out'[i])])

Relay ==
  /\ evts' = evts \o Carried
  /\ UNCHANGED <<client, bounds, early>>

(* A line that _handle_line takes up.                                      *)
Obeyed(c) ==
  \/ /\ c.do = "prompt"
     /\ ~Live
     /\ UserInput
     /\ running' = c.arg
  \/ /\ \/ c.do = "new" /\ SlashNew
        \/ c.do = "list" /\ Slash
             /\ Head(out').type = IF Live THEN "slash.blocked" ELSE "session.listed"
        \/ c.do = "resume" /\ Resume(c.arg)
        \/ c.do = "respond" /\ Respond(c.arg, c.how)
        \/ c.do = "interrupt" /\ Interrupt
     /\ UNCHANGED running

(* One that changes nothing: a prompt during a turn, or an interrupt when  *)
(* there is none.                                                          *)
Ignored(c) ==
  \/ c.do = "prompt" /\ Live
  \/ c.do = "interrupt" /\ ~Live

ReadLine ==
  /\ Reading
  /\ cmds # <<>>
  /\ cmds' = Tail(cmds)
  /\ \/ Obeyed(Head(cmds)) /\ Relay
     \/ Ignored(Head(cmds)) /\ BridgeIdle
          /\ UNCHANGED <<evts, client, bounds, running, early>>

Act(A) == A /\ UNCHANGED <<cmds, running>> /\ Relay

(* An item.updated of the running turn.                                    *)
Stream ==
  /\ Step("running")
  /\ streamed < MaxDeltas
  /\ streamed' = streamed + 1
  /\ evts' = Append(evts, TurnEvent("item.updated", turnId))
  /\ BridgeIdle
  /\ UNCHANGED <<cmds, client, typed, sends, running, early>>

BridgeTurn == Act(StartTurn \/ TurnFails \/ Answered \/ Finish \/ Complete)

BridgeCancelled == Act(Delivered)

BridgeSwitch == Act(Resolved) \/ Act(Closed \/ CloseFails)

Keys ==
  \/ Submit
  \/ SubmitSlash("new")
  \/ SubmitSlash("list")
  \/ PressInterrupt
  \/ \E d \in Decisions : Decide(d)
  \/ \E t \in Threads : Pick(t)
  \/ Dismiss

SystemNext ==
  \/ Receive
  \/ FlushDeltas
  \/ Install
  \/ Expire
  \/ Keys
  \/ ReadLine
  \/ Stream
  \/ BridgeTurn
  \/ BridgeCancelled
  \/ BridgeSwitch
  \/ Act(Ask)
  \/ Act(RecorderFails)

SystemSpec == SystemInit /\ [][SystemNext]_<<vars, clientVars>>

(* The client's event loop runs, the pipes deliver, and the bridge does    *)
(* what its own fairness says.                                             *)
FairSystem ==
  /\ SystemSpec
  /\ WF_<<vars, clientVars>>(Receive)
  /\ WF_<<vars, clientVars>>(ReadLine)
  /\ WF_<<vars, clientVars>>(BridgeCancelled)
  /\ WF_<<vars, clientVars>>(BridgeSwitch)

-------------------------------------------------------------------------------
(* Properties.                                                             *)

(* Once the client has read everything it shows the thread and the open    *)
(* turn of the bridge, over every switch and hydration: the view that      *)
(* TuiBridge states its properties on is what the hooks compute.           *)
ClientAgrees ==
  evts = <<>> =>
    /\ ui.thread = view.thread
    /\ {ui.turns[i].id : i \in Opened} = {view.open} \ {0}

(* Nobody waits on everybody: a turn that waits for an answer has its      *)
(* request before the user or the answer on its way, and once all is read  *)
(* the user is asked for nothing else.                                     *)
Askable ==
  evts = <<>> /\ cmds = <<>> =>
    LET queued == {ui.queue[i].request : i \in DOMAIN ui.queue}
    IN  queued = IF request # 0 /\ answer = "none" THEN {request} ELSE {}

(* A turn is shown with the prompt it runs, unless the timer gave up on a  *)
(* prompt that was still to start: then the next one's text lands on it.   *)
PromptShown ==
  ~early =>
    \A i \in DOMAIN ui.turns :
      ui.turns[i].text # 0 => ui.turns[i].text = ui.turns[i].prompt

(* The bridge drops no prompt without a word: one that reaches it finds no *)
(* turn, unless the timer gave up on an earlier one too soon.              *)
PromptsTaken ==
  ~early /\ cmds # <<>> /\ Head(cmds).do = "prompt" => ~Live

(* An interrupt cancels the turn it was pressed for and no later one, up   *)
(* to the same limit.                                                      *)
InterruptAimed ==
  ~early /\ cmds # <<>> /\ Head(cmds).do = "interrupt" /\ Live =>
    /\ Head(cmds).arg # 0
    /\ Head(cmds).arg = view.open
    /\ Head(cmds).how = view.thread

(* What is typed on an old view takes effect where it was meant to.        *)
KeysAimed == PromptsTaken /\ InterruptAimed

(* Entry y is entry x, but for the error of a turn that has failed.        *)
Stays(x, y) ==
  \/ y = x
  \/ x.state = "failed" /\ y = [x EXCEPT !.error = y.error]

(* What is shown of a turn that has ended stays as it is, with one         *)
(* exception: a turn.failed that carries the number of the turn before     *)
(* puts its error in the place of that of a turn that has failed.  None    *)
(* makes a completed turn a failed one, reopens a turn or moves it.        *)
EndedTurnsFixed ==
  [][ui'.thread = ui.thread =>
       \A i \in DOMAIN ui.turns :
         ui.turns[i].state # "active" =>
           i \in DOMAIN ui'.turns /\ Stays(ui.turns[i], ui'.turns[i])]_<<vars, clientVars>>

(* An interrupt frees the client: it comes to show no open turn.           *)
InterruptFrees ==
  (\E i \in DOMAIN cmds : cmds[i].do = "interrupt") ~> Opened = {}
===============================================================================
