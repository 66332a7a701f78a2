----------------------------- MODULE ToolApproval -----------------------------
(***************************************************************************)
(* pycodex/tools/orchestrator.py with pycodex/approval/policy.py: how      *)
(* concurrent tool calls that share one ApprovalStore are admitted.        *)
(*                                                                         *)
(* A call is one coroutine running execute_with_approval on asyncio's      *)
(* single-threaded loop, so what it does between two suspension points is  *)
(* one step.  The bodies under store.prompt_lock never suspend; the lock   *)
(* is therefore never seen held and is not a variable.  The shielded       *)
(* _finalize_pending_prompt is a task of its own: it survives the          *)
(* cancellation of the call that started it.                               *)
(***************************************************************************)
EXTENDS FiniteSets

CONSTANTS
  Calls,    \* coroutines running execute_with_approval
  Keys,     \* normalized approval keys
  KeyOf,    \* the approval key of each call's tool and arguments
  Policies, \* the approval policies the process may be started with
  NoCall    \* "no pending prompt"

ASSUME CallsAssumption ==
  /\ KeyOf \in [Calls -> Keys]
  /\ NoCall \notin Calls
  /\ Policies \subseteq {"never", "on_failure", "on_request", "unless_trusted"}

(* DENIED and ABORT both end the call: they are one decision here.         *)
Decisions == {"approved", "approved_for_session", "refused"}

Approvals == {"approved", "approved_for_session"}

(* What the call asks to run: a tool that does not mutate; one rejected    *)
(* outright (no approval key can be built, or exec policy forbids the      *)
(* command); a shell command that exec policy allows, or leaves to review; *)
(* a mutating tool without sandbox support.                                *)
Kinds == {"read", "rejected", "allow", "shell", "file"}

VARIABLES
  policy,      \* OrchestratorConfig.policy, fixed at startup
  sandbox,     \* _requires_sandbox(OrchestratorConfig.sandbox_policy)
  kind,        \* what each call runs, "unset" before it starts
  pc,          \* where each coroutine is suspended
  verdict,     \* what the prompt of a call produced, "none" before that
  ran,         \* the ways a call's tool has been executed
  cache,       \* ApprovalStore._cache: keys approved for the session
  pending,     \* ApprovalStore._pending_prompts: the owner of each key's event
  finalizing,  \* calls whose _finalize_pending_prompt task has yet to run
  signalled,   \* calls whose prompt event is set
  waitOn       \* the owner of the event a call waits for

config == <<policy, sandbox>>
prompts == <<cache, pending, finalizing, signalled>>
vars == <<policy, sandbox, kind, pc, verdict, ran,
          cache, pending, finalizing, signalled, waitOn>>

TypeOK ==
  /\ policy \in Policies
  /\ sandbox \in BOOLEAN
  /\ kind \in [Calls -> Kinds \union {"unset"}]
  /\ pc \in [Calls -> {"new", "wait", "ask", "settle", "trial", "retry",
                       "direct", "sandboxed", "end"}]
  /\ verdict \in [Calls -> Decisions \union {"none"}]
  /\ ran \in [Calls -> SUBSET {"direct", "sandboxed"}]
  /\ cache \in SUBSET Keys
  /\ pending \in [Keys -> Calls \union {NoCall}]
  /\ finalizing \in SUBSET Calls
  /\ signalled \in SUBSET Calls
  /\ waitOn \in [Calls -> Calls \union {NoCall}]

Init ==
  /\ policy \in Policies
  /\ sandbox \in BOOLEAN
  /\ kind = [c \in Calls |-> "unset"]
  /\ pc = [c \in Calls |-> "new"]
  /\ verdict = [c \in Calls |-> "none"]
  /\ ran = [c \in Calls |-> {}]
  /\ cache = {}
  /\ pending = [k \in Keys |-> NoCall]
  /\ finalizing = {}
  /\ signalled = {}
  /\ waitOn = [c \in Calls |-> NoCall]

-------------------------------------------------------------------------------
(* Only shell commands support sandboxed execution; every other tool runs  *)
(* through handle() whatever the sandbox policy.                           *)
RunMode(k) == IF sandbox /\ k \in {"allow", "shell"} THEN "sandboxed" ELSE "direct"

Run(c, mode) ==
  /\ pc' = [pc EXCEPT ![c] = mode]
  /\ ran' = [ran EXCEPT ![c] = @ \union {mode}]

(* The call returns a ToolResult or ToolError, or raises: what it hands    *)
(* back changes nothing in the store and is left out.                      *)
End(c) == pc' = [pc EXCEPT ![c] = "end"] /\ UNCHANGED ran

(* Faulty variants of Put: the key is cached before normalization; every   *)
(* decision is cached.                                                     *)
PutRawKey(k, decision) ==
  cache' = IF decision = "approved_for_session" THEN cache \union {<<k>>} ELSE cache

PutAnything(k, decision) == cache' = cache \union {k}

(* ApprovalStore.put keeps session approvals only.                         *)
Put(k, decision) ==
  cache' = IF decision = "approved_for_session" THEN cache \union {k} ELSE cache

(* The call becomes the owner of its key's prompt and asks the user.       *)
Own(c) ==
  /\ waitOn' = [waitOn EXCEPT ![c] = NoCall]
  /\ pending' = [pending EXCEPT ![KeyOf[c]] = c]
  /\ pc' = [pc EXCEPT ![c] = "ask"]
  /\ UNCHANGED <<ran, cache, finalizing, signalled>>

(* Faulty variant of WaitFor: the pending prompt is not looked at.         *)
AskAgain(c, owner) == Own(c)

WaitFor(c, owner) ==
  /\ waitOn' = [waitOn EXCEPT ![c] = owner]
  /\ pc' = [pc EXCEPT ![c] = "wait"]
  /\ UNCHANGED <<ran, prompts>>

(* One pass of _execute_with_standard_approval: run on a session grant or  *)
(* a policy that never asks, else own the key's prompt or wait for it.     *)
StandardApproval(c, k) ==
  LET granted == KeyOf[c] \in cache
      asks == policy \notin {"never", "on_failure"}
      owner == pending[KeyOf[c]]
  IN  \/ /\ granted \/ ~asks
         /\ Run(c, RunMode(k))
         /\ waitOn' = [waitOn EXCEPT ![c] = NoCall]
         /\ UNCHANGED prompts
      \/ ~granted /\ asks /\ owner = NoCall /\ Own(c)
      \/ ~granted /\ asks /\ owner # NoCall /\ WaitFor(c, owner)

(* With a restrictive sandbox and ON_FAILURE the command is tried in the   *)
(* sandbox first.                                                          *)
Trial(c, k) ==
  /\ pc' = [pc EXCEPT ![c] = "trial"]
  /\ ran' = [ran EXCEPT ![c] = @ \union {RunMode(k)}]
  /\ UNCHANGED <<prompts, waitOn>>

Review(c, k) ==
  \/ sandbox /\ policy = "never" /\ Run(c, RunMode(k)) /\ UNCHANGED <<prompts, waitOn>>
  \/ sandbox /\ policy = "on_failure" /\ Trial(c, k)
  \/ ~(sandbox /\ policy \in {"never", "on_failure"}) /\ StandardApproval(c, k)

(* execute_with_approval up to its first suspension.                       *)
Start(c, k) ==
  /\ pc[c] = "new"
  /\ kind' = [kind EXCEPT ![c] = k]
  /\ \/ k = "read" /\ Run(c, "direct") /\ UNCHANGED <<prompts, waitOn>>
     \/ k = "rejected" /\ End(c) /\ UNCHANGED <<prompts, waitOn>>
     \/ k = "allow" /\ Run(c, RunMode(k)) /\ UNCHANGED <<prompts, waitOn>>
     \/ k \in {"shell", "file"} /\ Review(c, k)
  /\ UNCHANGED <<config, verdict>>

(* ask_user_fn returns a decision, or raises or is cancelled and there is  *)
(* none: the finally block schedules the shielded finalize task and waits. *)
LeaveAsk(c, outcome) ==
  /\ pc[c] = "ask"
  /\ verdict' = [verdict EXCEPT ![c] = outcome]
  /\ finalizing' = finalizing \union {c}
  /\ pc' = [pc EXCEPT ![c] = "settle"]
  /\ UNCHANGED <<config, kind, ran, cache, pending, signalled, waitOn>>

Answer(c) == \E d \in Decisions : LeaveAsk(c, d)

AskFails(c) == LeaveAsk(c, "none")

(* Faulty variants of Finalize: the event is dropped but never set; the    *)
(* decision is lost when its owner is gone.                                *)
FinalizeSilently(c) ==
  /\ c \in finalizing
  /\ Put(KeyOf[c], verdict[c])
  /\ pending' = [pending EXCEPT ![KeyOf[c]] = NoCall]
  /\ finalizing' = finalizing \ {c}
  /\ UNCHANGED <<config, kind, pc, verdict, ran, signalled, waitOn>>

FinalizeForOwner(c) ==
  /\ c \in finalizing
  /\ Put(KeyOf[c], IF pc[c] = "settle" THEN verdict[c] ELSE "none")
  /\ pending' = [pending EXCEPT ![KeyOf[c]] = NoCall]
  /\ signalled' = signalled \union {pending[KeyOf[c]]}
  /\ finalizing' = finalizing \ {c}
  /\ UNCHANGED <<config, kind, pc, verdict, ran, waitOn>>

(* The finalize task: cache the decision, drop the key's event, set it.    *)
Finalize(c) ==
  LET k == KeyOf[c]
      owner == pending[k]
  IN  /\ c \in finalizing
      /\ Put(k, verdict[c])
      /\ pending' = [pending EXCEPT ![k] = NoCall]
      /\ signalled' = IF owner = NoCall THEN signalled ELSE signalled \union {owner}
      /\ finalizing' = finalizing \ {c}
      /\ UNCHANGED <<config, kind, pc, verdict, ran, waitOn>>

(* Faulty variants of Settle: a refusal is not looked at; the approved     *)
(* command skips the sandbox.                                              *)
SettleUnchecked(c) ==
  /\ pc[c] = "settle"
  /\ c \notin finalizing
  /\ Run(c, RunMode(kind[c]))
  /\ UNCHANGED <<config, kind, verdict, prompts, waitOn>>

SettleUnconfined(c) ==
  /\ pc[c] = "settle"
  /\ c \notin finalizing
  /\ IF verdict[c] \in Approvals THEN Run(c, "direct") ELSE End(c)
  /\ UNCHANGED <<config, kind, verdict, prompts, waitOn>>

(* The owner resumes once its finalize task is done.                       *)
Settle(c) ==
  /\ pc[c] = "settle"
  /\ c \notin finalizing
  /\ \/ verdict[c] \in Approvals /\ Run(c, RunMode(kind[c]))
     \/ verdict[c] \notin Approvals /\ End(c)
  /\ UNCHANGED <<config, kind, verdict, prompts, waitOn>>

(* A waiter whose event is set goes round the loop again.                  *)
Wake(c) ==
  /\ pc[c] = "wait"
  /\ waitOn[c] \in signalled
  /\ StandardApproval(c, kind[c])
  /\ UNCHANGED <<config, kind, verdict>>

(* A sandboxed command can be blocked, exit non-zero, or find no sandbox:  *)
(* each counts as a denial.  Under ON_FAILURE a denial opens a prompt that *)
(* goes through neither the cache nor the pending table.                   *)
TrialEnds(c) ==
  /\ pc[c] = "trial"
  /\ \/ End(c)
     \/ /\ RunMode(kind[c]) = "sandboxed"
        /\ pc' = [pc EXCEPT ![c] = "retry"]
        /\ UNCHANGED ran
  /\ UNCHANGED <<config, kind, verdict, prompts, waitOn>>

RetryAnswer(c) ==
  /\ pc[c] = "retry"
  /\ \E d \in Decisions :
       /\ verdict' = [verdict EXCEPT ![c] = d]
       /\ \/ d \notin Approvals /\ End(c) /\ UNCHANGED cache
          \/ d \in Approvals /\ Put(KeyOf[c], d) /\ Run(c, "direct")
  /\ UNCHANGED <<config, kind, pending, finalizing, signalled, waitOn>>

RetryFails(c) ==
  /\ pc[c] = "retry"
  /\ End(c)
  /\ UNCHANGED <<config, kind, verdict, prompts, waitOn>>

Finish(c) ==
  /\ pc[c] \in {"direct", "sandboxed"}
  /\ End(c)
  /\ UNCHANGED <<config, kind, verdict, prompts, waitOn>>

(* Faulty variant of Cancel: the finalize task is not shielded.            *)
CancelUnshielded(c) ==
  /\ pc[c] \in {"ask", "settle"}
  /\ End(c)
  /\ finalizing' = finalizing \ {c}
  /\ UNCHANGED <<config, kind, verdict, cache, pending, signalled, waitOn>>

(* task.cancel() at any suspension point.  In ask the finally block runs   *)
(* with no decision; awaiting the shield, only the call is cancelled.      *)
Cancel(c) ==
  \/ LeaveAsk(c, "none")
  \/ /\ pc[c] \in {"wait", "settle", "trial", "retry", "direct", "sandboxed"}
     /\ End(c)
     /\ waitOn' = [waitOn EXCEPT ![c] = NoCall]
     /\ UNCHANGED <<config, kind, verdict, prompts>>

(* Every call has ended and no task is left.                               *)
AllDone ==
  /\ \A c \in Calls : pc[c] = "end"
  /\ finalizing = {}
  /\ UNCHANGED vars

Step(c) ==
  \/ \E k \in Kinds : Start(c, k)
  \/ Answer(c)
  \/ AskFails(c)
  \/ Finalize(c)
  \/ Settle(c)
  \/ Wake(c)
  \/ TrialEnds(c)
  \/ RetryAnswer(c)
  \/ RetryFails(c)
  \/ Finish(c)
  \/ Cancel(c)

Next == (\E c \in Calls : Step(c)) \/ AllDone

Spec == Init /\ [][Next]_vars

(* The event loop runs every ready task; it promises nothing about users,  *)
(* tools or cancellations.                                                 *)
Fairness == \A c \in Calls : WF_vars(Finalize(c)) /\ WF_vars(Settle(c)) /\ WF_vars(Wake(c))

FairSpec == Spec /\ Fairness

-------------------------------------------------------------------------------
(* Calls that a review policy sends to the user.                           *)
Reviewed(c) == kind[c] \in {"shell", "file"} /\ policy \in {"on_request", "unless_trusted"}

(* Keys the user has granted for the session, counted from the answer on.  *)
SessionGranted == {KeyOf[c] : c \in {d \in Calls : verdict[d] = "approved_for_session"}}

(* No two reviewed calls hold an open prompt for one approval key, even    *)
(* when the first owner was cancelled or its prompt raised.                *)
OnePromptPerKey ==
  \A c, d \in Calls : pc[c] = "ask" /\ pc[d] = "ask" /\ KeyOf[c] = KeyOf[d] => c = d

(* A waiter can always be woken: its event is set, or the owner is still   *)
(* asking or has a finalize task that will set that very event.            *)
NoLostWakeup ==
  \A c \in Calls : pc[c] = "wait" =>
    LET o == waitOn[c]
    IN  \/ o \in signalled
        \/ pending[KeyOf[c]] = o /\ (pc[o] = "ask" \/ o \in finalizing)

(* A call under review has run only with the user's approval of that call  *)
(* or a session grant of its key.                                          *)
RunsOnlyApproved ==
  \A c \in Calls : Reviewed(c) /\ ran[c] # {} =>
    verdict[c] \in Approvals \/ KeyOf[c] \in cache

(* With a restrictive sandbox no shell command leaves the sandbox, except  *)
(* the ON_FAILURE retry that the user approved.                            *)
SandboxHolds ==
  \A c \in Calls :
    sandbox /\ kind[c] \in {"allow", "shell"} /\ "direct" \in ran[c] =>
      policy = "on_failure" /\ verdict[c] \in Approvals

(* From the moment the user grants a key for the session, reviewed calls   *)
(* never open another prompt for it (the grant is not lost between answer, *)
(* finalize and cache, nor by cancelling the call that got the answer).    *)
GrantEndsPrompts ==
  [][\A c \in Calls : pc'[c] = "ask" /\ pc[c] # "ask" => KeyOf[c] \notin SessionGranted]_vars

(* ApprovalStore.put's docstring: once granted for the session, the        *)
(* orchestrator honours it for the store's lifetime, so no prompt of any   *)
(* kind opens for a cached key.                                            *)
GrantHonoured ==
  [][\A c \in Calls :
       pc'[c] \in {"ask", "retry"} /\ pc[c] # pc'[c] => KeyOf[c] \notin cache]_vars

(* Calls keep no one waiting for an owner that has stopped asking: such    *)
(* waiters always get released.                                            *)
StaleWaiter == \E c \in Calls : pc[c] = "wait" /\ pc[waitOn[c]] # "ask"

WaitersReleased == []<>~StaleWaiter

(* The review path implements PromptGate.                                  *)
Granted == IF policy \in {"on_request", "unless_trusted"} THEN cache ELSE {}

Permits == {c \in Calls : Reviewed(c) /\ verdict[c] \in Approvals /\ c \notin finalizing}

Admitted == {c \in Calls : Reviewed(c) /\ ran[c] # {}}

Gate == INSTANCE PromptGate WITH
  asking <- pending, granted <- Granted, permits <- Permits, admitted <- Admitted

GateSpec == Gate!Spec
===============================================================================
