------------------------------ MODULE PromptGate ------------------------------
(***************************************************************************)
(* What the approval orchestrator promises about tool calls that need a    *)
(* user's review: at most one prompt is open for an approval key, a key    *)
(* granted for the session stays granted and is never prompted for again,  *)
(* and a reviewed call runs only under a session grant or its own approval.*)
(***************************************************************************)
CONSTANTS
  Calls,     \* tool calls
  Keys,      \* approval keys
  KeyOf,     \* the approval key of each call
  NoCall     \* "no prompt is open"

VARIABLES
  asking,    \* the call whose prompt is open for each key, or NoCall
  granted,   \* keys approved for the session
  permits,   \* calls the user approved, one by one
  admitted   \* calls under review that started to run

vars == <<asking, granted, permits, admitted>>

Init ==
  /\ asking = [k \in Keys |-> NoCall]
  /\ granted = {}
  /\ permits = {}
  /\ admitted = {}

Open(c) ==
  /\ asking[KeyOf[c]] = NoCall
  /\ KeyOf[c] \notin granted
  /\ asking' = [asking EXCEPT ![KeyOf[c]] = c]
  /\ UNCHANGED <<granted, permits, admitted>>

(* The prompt of c closes; the answer may be nothing at all (a cancelled   *)
(* or failed prompt), a permit for c, or a grant for its key.              *)
Close(c) ==
  /\ asking[KeyOf[c]] = c
  /\ asking' = [asking EXCEPT ![KeyOf[c]] = NoCall]
  /\ \/ UNCHANGED <<granted, permits>>
     \/ permits' = permits \union {c} /\ UNCHANGED granted
     \/ permits' = permits \union {c} /\ granted' = granted \union {KeyOf[c]}
  /\ UNCHANGED admitted

Admit(c) ==
  /\ c \in permits \/ KeyOf[c] \in granted
  /\ admitted' = admitted \union {c}
  /\ UNCHANGED <<asking, granted, permits>>

Next == \E c \in Calls : Open(c) \/ Close(c) \/ Admit(c)

Spec == Init /\ [][Next]_vars
===============================================================================
