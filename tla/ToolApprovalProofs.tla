-------------------------- MODULE ToolApprovalProofs --------------------------
(***************************************************************************)
(* The safety of the approval orchestrator, for any set of calls, any      *)
(* assignment of approval keys and any configured policy.                  *)
(***************************************************************************)
EXTENDS ToolApproval, TLAPS

(* The pending table.  Exactly the calls that are asking, or whose         *)
(* finalize task has yet to run, own their key's entry.                    *)
Prompting(c) == pc[c] = "ask" \/ c \in finalizing

Owned ==
  \A k \in Keys : pending[k] # NoCall => KeyOf[pending[k]] = k /\ Prompting(pending[k])

Owners == \A c \in Calls : Prompting(c) => pending[KeyOf[c]] = c

Finalizers == \A c \in finalizing : pc[c] \in {"settle", "end"}

WaitsOnCall == \A c \in Calls : pc[c] = "wait" => waitOn[c] \in Calls

(* A session grant is in the cache, or on its way there.                   *)
GrantKept ==
  \A c \in Calls : verdict[c] = "approved_for_session" => KeyOf[c] \in cache \/ c \in finalizing

PromptInv ==
  /\ Owned
  /\ Owners
  /\ Finalizers
  /\ WaitsOnCall
  /\ GrantKept
  /\ NoLostWakeup

(* What a call has been asked, and has run, by the time it is suspended.   *)
NotYetRun == \A c \in Calls : pc[c] \in {"new", "wait", "ask", "settle"} => ran[c] = {}

NotYetAnswered == \A c \in Calls : pc[c] \in {"new", "wait", "ask"} => verdict[c] = "none"

QueueReviewed == \A c \in Calls : pc[c] = "wait" \/ Prompting(c) => Reviewed(c)

SettlersReviewed == \A c \in Calls : pc[c] = "settle" => Reviewed(c)

TrialsConfined ==
  \A c \in Calls : pc[c] \in {"trial", "retry"} =>
    policy = "on_failure" /\ ran[c] = {RunMode(kind[c])}

RunInv ==
  /\ NotYetRun
  /\ NotYetAnswered
  /\ QueueReviewed
  /\ SettlersReviewed
  /\ TrialsConfined
  /\ RunsOnlyApproved
  /\ SandboxHolds

-------------------------------------------------------------------------------
(* Every action changes the suspension point and the run log of one call   *)
(* and keeps the shape of the state.                                       *)
LEMMA TypeStep == ASSUME TypeOK, [Next]_vars PROVE TypeOK'
<1> USE CallsAssumption
<1>1. CASE UNCHANGED vars
  BY <1>1 DEF vars, TypeOK
<1>2. ASSUME NEW c \in Calls, NEW k \in Kinds, Start(c, k) PROVE TypeOK'
  BY <1>2 DEF TypeOK, Start, Review, Trial, StandardApproval, Own, WaitFor, Run, RunMode, End,
              Kinds, prompts, config
<1>3. ASSUME NEW c \in Calls, NEW d \in Decisions \union {"none"}, LeaveAsk(c, d) PROVE TypeOK'
  BY <1>3 DEF TypeOK, LeaveAsk, config
<1>4. ASSUME NEW c \in Calls, Finalize(c) PROVE TypeOK'
  BY <1>4 DEF TypeOK, Finalize, Put, config
<1>5. ASSUME NEW c \in Calls, Settle(c) PROVE TypeOK'
  BY <1>5 DEF TypeOK, Settle, Run, RunMode, End, prompts, config
<1>6. ASSUME NEW c \in Calls, Wake(c) PROVE TypeOK'
  BY <1>6 DEF TypeOK, Wake, StandardApproval, Own, WaitFor, Run, RunMode, prompts, config
<1>7. ASSUME NEW c \in Calls, TrialEnds(c) \/ RetryFails(c) \/ Finish(c) PROVE TypeOK'
  BY <1>7 DEF TypeOK, TrialEnds, RetryFails, Finish, End, prompts, config
<1>8. ASSUME NEW c \in Calls, RetryAnswer(c) PROVE TypeOK'
  BY <1>8 DEF TypeOK, RetryAnswer, Put, Run, End, config
<1>9. ASSUME NEW c \in Calls, Cancel(c) PROVE TypeOK'
  BY <1>9, <1>3 DEF TypeOK, Cancel, End, prompts, config
<1> QED
  BY <1>1, <1>2, <1>3, <1>4, <1>5, <1>6, <1>7, <1>8, <1>9
     DEF Next, Step, Answer, AskFails, AllDone

(* The state keeps its type, for any calls, keys and policies.             *)
THEOREM TypeCorrect == Spec => []TypeOK
<1>1. Init => TypeOK
  BY CallsAssumption DEF Init, TypeOK, Kinds, Decisions
<1> QED
  BY <1>1, TypeStep, PTL DEF Spec

-------------------------------------------------------------------------------
(* The pending table over one pass of the standard approval loop: the key  *)
(* of a call that becomes an owner was free.                               *)
LEMMA PromptStep == ASSUME TypeOK, PromptInv, [Next]_vars PROVE PromptInv'
<1> USE CallsAssumption DEF PromptInv, Owned, Owners, Finalizers, WaitsOnCall, GrantKept,
                            NoLostWakeup, Prompting
<1>1. CASE UNCHANGED vars
  BY <1>1 DEF vars
<1>2. ASSUME NEW c \in Calls, NEW k \in Kinds, Start(c, k) PROVE PromptInv'
  BY <1>2 DEF TypeOK, Start, Review, Trial, StandardApproval, Own, WaitFor, Run, RunMode, End,
              prompts, config
<1>3. ASSUME NEW c \in Calls, NEW d \in Decisions \union {"none"}, LeaveAsk(c, d) PROVE PromptInv'
  BY <1>3 DEF TypeOK, LeaveAsk, config
<1>4. ASSUME NEW c \in Calls, Finalize(c) PROVE PromptInv'
  BY <1>4 DEF TypeOK, Finalize, Put, config
<1>5. ASSUME NEW c \in Calls, Settle(c) PROVE PromptInv'
  BY <1>5 DEF TypeOK, Settle, Run, RunMode, End, prompts, config
<1>6. ASSUME NEW c \in Calls, Wake(c) PROVE PromptInv'
  BY <1>6 DEF TypeOK, Wake, StandardApproval, Own, WaitFor, Run, RunMode, prompts, config
<1>7. ASSUME NEW c \in Calls, TrialEnds(c) \/ RetryFails(c) \/ Finish(c) PROVE PromptInv'
  BY <1>7 DEF TypeOK, TrialEnds, RetryFails, Finish, End, prompts, config
<1>8. ASSUME NEW c \in Calls, RetryAnswer(c) PROVE PromptInv'
  BY <1>8 DEF TypeOK, RetryAnswer, Put, Run, End, Approvals, config
<1>9. ASSUME NEW c \in Calls, Cancel(c) PROVE PromptInv'
  BY <1>9, <1>3 DEF TypeOK, Cancel, End, prompts, config
<1> QED
  BY <1>1, <1>2, <1>3, <1>4, <1>5, <1>6, <1>7, <1>8, <1>9
     DEF Next, Step, Answer, AskFails, AllDone

(* The pending table, the finalize tasks, the grants and the waiters always *)
(* fit together.                                                            *)
THEOREM PromptTable == Spec => []PromptInv
<1>1. Init => PromptInv
  BY DEF Init, PromptInv, Owned, Owners, Finalizers, WaitsOnCall, GrantKept, NoLostWakeup, Prompting
<1> QED
  BY <1>1, PromptStep, TypeCorrect, PTL DEF Spec

(* At most one reviewed call asks for a key at any time: the owner of the  *)
(* key's entry.                                                            *)
THEOREM OnePrompt == Spec => []OnePromptPerKey
<1>1. PromptInv => OnePromptPerKey
  BY DEF PromptInv, Owners, Prompting, OnePromptPerKey
<1> QED
  BY <1>1, PromptTable, PTL

(* No interleaving of answers, failures and cancellations strands a waiter *)
(* on an event that nobody is left to set.                                 *)
THEOREM WaitersWakeable == Spec => []NoLostWakeup
<1>1. PromptInv => NoLostWakeup
  BY DEF PromptInv
<1> QED
  BY <1>1, PromptTable, PTL

-------------------------------------------------------------------------------
(* A call opens a prompt only when its key has no owner and is not cached; *)
(* a granted key is cached, or owned by the call whose finalize task will  *)
(* cache it.                                                               *)
LEMMA FreshPrompt ==
  ASSUME TypeOK, PromptInv, Next, NEW c \in Calls, pc'[c] = "ask", pc[c] # "ask"
  PROVE  pending[KeyOf[c]] = NoCall /\ KeyOf[c] \notin cache
<1> USE CallsAssumption
<1>1. ASSUME NEW d \in Calls, NEW k \in Kinds, Start(d, k)
      PROVE  pending[KeyOf[c]] = NoCall /\ KeyOf[c] \notin cache
  BY <1>1 DEF TypeOK, Start, Review, Trial, StandardApproval, Own, WaitFor, Run, RunMode, End
<1>2. ASSUME NEW d \in Calls, Wake(d)
      PROVE  pending[KeyOf[c]] = NoCall /\ KeyOf[c] \notin cache
  BY <1>2 DEF TypeOK, Wake, StandardApproval, Own, WaitFor, Run, RunMode
<1>3. (\E d \in Calls : (\E k \in Kinds : Start(d, k)) \/ Wake(d))
  BY DEF TypeOK, Next, Step, AllDone, vars, Answer, AskFails, LeaveAsk, Finalize, Settle, TrialEnds,
         RetryAnswer, RetryFails, Finish, Cancel, Run, RunMode, End
<1> QED
  BY <1>1, <1>2, <1>3

(* The user is never asked again about a key already granted for the       *)
(* session, from the very step of the answer on.                           *)
THEOREM GrantIsFinal == Spec => GrantEndsPrompts
<1> USE CallsAssumption
<1>1. ASSUME TypeOK, PromptInv, [Next]_vars
      PROVE  [\A c \in Calls :
                pc'[c] = "ask" /\ pc[c] # "ask" => KeyOf[c] \notin SessionGranted]_vars
  <2> SUFFICES ASSUME Next, NEW c \in Calls, pc'[c] = "ask", pc[c] # "ask",
                      NEW d \in Calls, verdict[d] = "approved_for_session", KeyOf[d] = KeyOf[c]
               PROVE  FALSE
    BY <1>1 DEF SessionGranted
  <2>1. pending[KeyOf[c]] = NoCall /\ KeyOf[c] \notin cache
    BY <1>1, FreshPrompt
  <2>2. d \in finalizing
    BY <1>1, <2>1 DEF PromptInv, GrantKept
  <2>3. pending[KeyOf[c]] = d
    BY <1>1, <2>2 DEF PromptInv, Owners, Prompting
  <2> QED
    BY <2>1, <2>3
<1> QED
  BY <1>1, TypeCorrect, PromptTable, PTL DEF Spec, GrantEndsPrompts

-------------------------------------------------------------------------------
(* What each action adds to the run log, and under which decision.         *)
LEMMA RunStep == ASSUME TypeOK, PromptInv, RunInv, [Next]_vars PROVE RunInv'
<1> USE CallsAssumption DEF RunInv, NotYetRun, NotYetAnswered, QueueReviewed, SettlersReviewed,
                            TrialsConfined, RunsOnlyApproved, SandboxHolds, Prompting, Reviewed,
                            RunMode, Approvals
<1>1. CASE UNCHANGED vars
  BY <1>1 DEF vars
<1>2. ASSUME NEW c \in Calls, NEW k \in Kinds, Start(c, k) PROVE RunInv'
  BY <1>2 DEF TypeOK, Start, Review, Trial, StandardApproval, Own, WaitFor, Run, End, Kinds,
              prompts, config, PromptInv, Finalizers
<1>3. ASSUME NEW c \in Calls, NEW d \in Decisions \union {"none"}, LeaveAsk(c, d) PROVE RunInv'
  BY <1>3 DEF TypeOK, LeaveAsk, config
<1>4. ASSUME NEW c \in Calls, Finalize(c) PROVE RunInv'
  BY <1>4 DEF TypeOK, Finalize, Put, config
<1>5. ASSUME NEW c \in Calls, Settle(c) PROVE RunInv'
  BY <1>5 DEF TypeOK, Settle, Run, End, prompts, config
<1>6. ASSUME NEW c \in Calls, Wake(c) PROVE RunInv'
  BY <1>6 DEF TypeOK, Wake, StandardApproval, Own, WaitFor, Run, prompts, config
<1>7. ASSUME NEW c \in Calls, TrialEnds(c) \/ RetryFails(c) \/ Finish(c) PROVE RunInv'
  BY <1>7 DEF TypeOK, TrialEnds, RetryFails, Finish, End, prompts, config
<1>8. ASSUME NEW c \in Calls, RetryAnswer(c) PROVE RunInv'
  BY <1>8 DEF TypeOK, RetryAnswer, Put, Run, End, config, PromptInv, Finalizers
<1>9. ASSUME NEW c \in Calls, Cancel(c) PROVE RunInv'
  BY <1>9, <1>3 DEF TypeOK, Cancel, End, prompts, config
<1> QED
  BY <1>1, <1>2, <1>3, <1>4, <1>5, <1>6, <1>7, <1>8, <1>9
     DEF Next, Step, Answer, AskFails, AllDone

(* No call has run before its answer, its grant or its policy lets it.     *)
LEMMA RunLog == Spec => []RunInv
<1>1. Init => RunInv
  BY DEF Init, RunInv, NotYetRun, NotYetAnswered, QueueReviewed, SettlersReviewed, TrialsConfined,
         RunsOnlyApproved, SandboxHolds, Prompting, Reviewed
<1> QED
  BY <1>1, RunStep, TypeCorrect, PromptTable, PTL DEF Spec

(* A call under review has run only if the user approved it or its key.    *)
THEOREM OnlyApprovedRuns == Spec => []RunsOnlyApproved
<1>1. RunInv => RunsOnlyApproved
  BY DEF RunInv
<1> QED
  BY <1>1, RunLog, PTL

(* With a restrictive sandbox, a shell command leaves the sandbox only in  *)
(* an ON_FAILURE retry that the user approved.                             *)
THEOREM NothingEscapes == Spec => []SandboxHolds
<1>1. RunInv => SandboxHolds
  BY DEF RunInv
<1> QED
  BY <1>1, RunLog, PTL

-------------------------------------------------------------------------------
(* What PromptGate sees of one pass of the standard approval loop: the     *)
(* opening of a prompt, an admission under a grant, or nothing.            *)
LEMMA GatePass ==
  ASSUME TypeOK, NEW c \in Calls, NEW k \in {"shell", "file"},
         verdict[c] = "none", ran[c] = {},
         StandardApproval(c, k),
         kind' = [kind EXCEPT ![c] = k],
         UNCHANGED <<config, verdict>>
  PROVE  Gate!Next \/ UNCHANGED Gate!vars
<1> USE CallsAssumption DEF TypeOK, config, Reviewed, Approvals
<1>1. CASE /\ Run(c, RunMode(k)) /\ UNCHANGED prompts
           /\ KeyOf[c] \in cache \/ policy \in {"never", "on_failure"}
  <2>1. pending' = pending /\ Granted' = Granted
    BY <1>1 DEF prompts, Granted
  <2>2. Permits' = Permits
    BY <1>1 DEF prompts, Permits
  <2>3. CASE policy \in {"never", "on_failure"}
    <3>1. Admitted' = Admitted
      BY <2>3 DEF Admitted
    <3> QED
      BY <2>1, <2>2, <3>1 DEF Gate!vars
  <2>4. CASE policy \notin {"never", "on_failure"}
    <3>1. policy \in {"on_request", "unless_trusted"}
      BY <2>4
    <3>2. KeyOf[c] \in Granted
      BY <1>1, <2>4, <3>1 DEF Granted
    <3>3. Admitted' = Admitted \union {c}
      <4>1. RunMode(k) \in ran'[c] /\ kind'[c] = k /\ policy' = policy
        BY <1>1 DEF Run
      <4>2. \A d \in Calls \ {c} : ran'[d] = ran[d] /\ kind'[d] = kind[d]
        BY <1>1 DEF Run
      <4>3. ran'[c] # {}
        BY <4>1
      <4> QED
        BY <3>1, <4>1, <4>2, <4>3 DEF Admitted
    <3> QED
      BY <2>1, <2>2, <3>2, <3>3 DEF Gate!Next, Gate!Admit
  <2> QED
    BY <2>3, <2>4
<1>2. CASE KeyOf[c] \notin cache /\ pending[KeyOf[c]] = NoCall /\ Own(c)
  <2>1. Granted' = Granted /\ Permits' = Permits
    BY <1>2 DEF Own, Granted, Permits
  <2>2. Admitted' = Admitted
    BY <1>2 DEF Own, Admitted
  <2>3. KeyOf[c] \notin Granted
    BY <1>2 DEF Granted
  <2> QED
    BY <1>2, <2>1, <2>2, <2>3 DEF Own, Gate!Next, Gate!Open
<1>3. CASE \E owner \in Calls \union {NoCall} : WaitFor(c, owner)
  <2>1. pending' = pending /\ Granted' = Granted
    BY <1>3 DEF WaitFor, prompts, Granted
  <2>2. Permits' = Permits
    BY <1>3 DEF WaitFor, prompts, Permits
  <2>3. Admitted' = Admitted
    BY <1>3 DEF WaitFor, Admitted
  <2> QED
    BY <2>1, <2>2, <2>3 DEF Gate!vars
<1> QED
  BY <1>1, <1>2, <1>3 DEF StandardApproval

(* A step that leaves the pending table and the decisions alone, and adds  *)
(* to no run log but that of a permitted or unreviewed call.               *)
LEMMA GateRun ==
  ASSUME TypeOK, NEW c \in Calls,
         UNCHANGED <<config, kind, pending, finalizing>>,
         \A d \in Calls \ {c} : verdict'[d] = verdict[d] /\ ran'[d] = ran[d],
         Reviewed(c) => verdict'[c] = verdict[c] /\ cache' = cache,
         policy \in {"on_request", "unless_trusted"} => cache' = cache,
         Reviewed(c) /\ ran'[c] # ran[c] => c \in Permits /\ ran'[c] # {}
  PROVE  Gate!Next \/ UNCHANGED Gate!vars
<1> USE CallsAssumption DEF TypeOK, config, Reviewed, Approvals
<1>1. pending' = pending /\ Granted' = Granted
  BY DEF Granted
<1>2. Permits' = Permits
  BY DEF Permits
<1>3. CASE Reviewed(c) /\ ran'[c] # ran[c]
  <2>1. Admitted' = Admitted \union {c}
    BY <1>3 DEF Admitted
  <2> QED
    BY <1>1, <1>2, <1>3, <2>1 DEF Gate!Next, Gate!Admit
<1>4. CASE ~(Reviewed(c) /\ ran'[c] # ran[c])
  <2>1. Admitted' = Admitted
    BY <1>4 DEF Admitted
  <2> QED
    BY <1>1, <1>2, <2>1 DEF Gate!vars
<1> QED
  BY <1>3, <1>4

(* The finalize task closes the prompt of its key.                         *)
LEMMA GateFinalize ==
  ASSUME TypeOK, PromptInv, RunInv, NEW c \in Calls, Finalize(c)
  PROVE  Gate!Next
<1> USE CallsAssumption DEF TypeOK, Finalize, config, Reviewed
<1>1. pending[KeyOf[c]] = c /\ Reviewed(c)
  BY DEF PromptInv, Owners, RunInv, QueueReviewed, Prompting
<1>2. pending' = [pending EXCEPT ![KeyOf[c]] = NoCall] /\ Admitted' = Admitted
  BY DEF Admitted
<1>3. Permits' = IF verdict[c] \in Approvals THEN Permits \union {c} ELSE Permits
  BY <1>1 DEF Permits
<1>4. Granted' = IF verdict[c] = "approved_for_session" THEN Granted \union {KeyOf[c]} ELSE Granted
  BY <1>1 DEF Granted, Put
<1> QED
  BY <1>1, <1>2, <1>3, <1>4 DEF Gate!Next, Gate!Close, Approvals

(* Each step of a call is, seen from PromptGate, the opening or closing of *)
(* a prompt, an admission, or nothing at all.                              *)
LEMMA GateStep ==
  ASSUME TypeOK, PromptInv, RunInv, [Next]_vars
  PROVE  Gate!Next \/ UNCHANGED Gate!vars
<1> USE CallsAssumption
<1>0. /\ NotYetRun /\ NotYetAnswered /\ QueueReviewed /\ SettlersReviewed /\ TrialsConfined
  BY DEF RunInv
<1>1. CASE UNCHANGED vars
  BY <1>1 DEF vars, Gate!vars, Granted, Permits, Admitted, Reviewed
<1>2. ASSUME NEW c \in Calls, NEW k \in Kinds, Start(c, k) PROVE Gate!Next \/ UNCHANGED Gate!vars
  <2>1. verdict[c] = "none" /\ ran[c] = {}
    BY <1>0, <1>2 DEF Start, NotYetRun, NotYetAnswered
  <2>2. CASE k \in {"shell", "file"} /\ StandardApproval(c, k)
    BY <1>2, <2>1, <2>2, GatePass DEF Start
  <2>3. CASE ~(k \in {"shell", "file"} /\ StandardApproval(c, k))
    <3>1. /\ UNCHANGED <<policy, pending, cache, finalizing, verdict>>
          /\ k \notin {"shell", "file"} \/ policy \in {"never", "on_failure"}
          /\ \A d \in Calls \ {c} : kind'[d] = kind[d] /\ ran'[d] = ran[d]
          /\ kind'[c] = k
      BY <1>2, <2>3 DEF TypeOK, Start, Review, Trial, Run, RunMode, End, prompts, config
    <3>2. Granted' = Granted
      BY <3>1 DEF Granted
    <3>3. Permits' = Permits
      BY <2>1, <3>1 DEF Permits, Reviewed, Approvals
    <3>4. Admitted' = Admitted
      BY <2>1, <3>1 DEF Admitted, Reviewed
    <3> QED
      BY <3>1, <3>2, <3>3, <3>4 DEF Gate!vars
  <2> QED
    BY <2>2, <2>3
<1>3. ASSUME NEW c \in Calls, NEW d \in Decisions \union {"none"}, LeaveAsk(c, d)
      PROVE  Gate!Next \/ UNCHANGED Gate!vars
  <2>1. Granted' = Granted /\ Admitted' = Admitted
    BY <1>3 DEF LeaveAsk, Granted, Admitted, Reviewed, config
  <2>2. Permits' = Permits
    BY <1>0, <1>3 DEF TypeOK, LeaveAsk, Permits, Reviewed, config, NotYetAnswered, Approvals
  <2> QED
    BY <1>3, <2>1, <2>2 DEF LeaveAsk, Gate!vars
<1>4. ASSUME NEW c \in Calls, Settle(c) PROVE Gate!Next \/ UNCHANGED Gate!vars
  BY <1>0, <1>4, GateRun DEF TypeOK, Settle, Run, RunMode, End, prompts, config,
              SettlersReviewed, Permits
<1>5. ASSUME NEW c \in Calls, Wake(c) PROVE Gate!Next \/ UNCHANGED Gate!vars
  <2>1. verdict[c] = "none" /\ ran[c] = {} /\ kind[c] \in {"shell", "file"}
    BY <1>0, <1>5 DEF Wake, NotYetRun, NotYetAnswered, QueueReviewed, Reviewed
  <2>2. kind' = [kind EXCEPT ![c] = kind[c]]
    BY <1>5 DEF Wake, TypeOK
  <2> QED
    BY <1>5, <2>1, <2>2, GatePass DEF Wake
<1>6. ASSUME NEW c \in Calls, TrialEnds(c) \/ RetryFails(c) \/ Finish(c)
      PROVE  Gate!Next \/ UNCHANGED Gate!vars
  BY <1>6, GateRun DEF TypeOK, TrialEnds, RetryFails, Finish, End, prompts, config
<1>7. ASSUME NEW c \in Calls, RetryAnswer(c) PROVE Gate!Next \/ UNCHANGED Gate!vars
  BY <1>0, <1>7, GateRun DEF TypeOK, RetryAnswer, Put, Run, End, config, Reviewed, TrialsConfined
<1>8. ASSUME NEW c \in Calls, Cancel(c) PROVE Gate!Next \/ UNCHANGED Gate!vars
  BY <1>8, <1>3, GateRun DEF TypeOK, Cancel, End, prompts, config
<1> QED
  BY <1>1, <1>2, <1>3, <1>4, <1>5, <1>6, <1>7, <1>8, GateFinalize
     DEF Next, Step, Answer, AskFails, AllDone

(* The orchestrator's review path implements PromptGate.                   *)
THEOREM ImplementsGate == Spec => GateSpec
<1>1. Init => Gate!Init
  BY CallsAssumption DEF Init, Gate!Init, Granted, Permits, Admitted, Reviewed, Approvals
<1> QED
  BY <1>1, GateStep, TypeCorrect, PromptTable, RunLog, PTL DEF Spec, GateSpec, Gate!Spec
===============================================================================
