----------------------------- MODULE ToolExecution -----------------------------
(***************************************************************************)
(* pycodex/tools: base.py (router and registry), shell.py, grep_files.py   *)
(* and write_file.py, below the approval layer.  The agent dispatches one  *)
(* call at a time; a command is a process of its own, a write runs in a    *)
(* thread of the pool, and an interrupt cancels the awaiting coroutine but *)
(* neither of them.  All writes are to one path, so to one temporary name  *)
(* (it holds the process id only).                                         *)
(***************************************************************************)
EXTENDS Integers, FiniteSets

CONSTANT MaxCalls  \* bound: tool calls dispatched

ASSUME CallsAssumption == MaxCalls \in Nat

Calls == 1..MaxCalls

Commands == {"shell", "grep"}

(* What a file can hold: nothing yet, all of one call's content, or bits   *)
(* of several or of a part.                                                *)
Empty == 0
Torn == -1

VARIABLES
  kind,     \* the tool of each call, "none" before it is dispatched
  state,    \* the coroutine that runs the call
  result,   \* code of the outcome handed to the agent
  proc,     \* the command's process
  kid,      \* a process it started still holds its output pipes
  thread,   \* where _write_atomic is
  held,     \* the file the thread has open, named by the call that made it
  content,  \* what each such file holds
  file,     \* the file at the target path, 0 for none
  temp,     \* the file at the temporary path, 0 for none
  overlap   \* two writes have been under way at once

command == <<proc, kid>>
disk == <<held, content, file, temp>>
vars == <<kind, state, result, command, thread, disk, overlap>>

(* Outcomes of each tool: "exception" is handler_exception, "unclean" the  *)
(* shell's timeout that could not terminate the command cleanly.           *)
Codes(k) ==
  {"none", "refused", "interrupted"} \union
  CASE k = "write" -> {"ok", "write_failed", "exception"}
    [] k = "shell" -> {"ok", "start_failed", "timeout", "unclean", "exception"}
    [] k = "grep" -> {"ok", "start_failed", "timeout", "exception"}
    [] OTHER -> {}

TypeOK ==
  /\ kind \in [Calls -> Commands \union {"none", "write"}]
  /\ state \in [Calls -> {"none", "awaiting", "killing", "returned"}]
  /\ \A c \in Calls : result[c] \in Codes(kind[c])
  /\ proc \in [Calls -> {"none", "running", "exited"}]
  /\ kid \in [Calls -> BOOLEAN]
  /\ thread \in [Calls -> {"none", "open", "write", "replace", "cleanup", "ok", "failed", "left",
                        "raised"}]
  /\ held \in [Calls -> Calls \union {0}]
  /\ content \in [Calls -> Calls \union {Empty, Torn}]
  /\ file \in Calls \union {0}
  /\ temp \in Calls \union {0}
  /\ overlap \in BOOLEAN

Init ==
  /\ kind = [c \in Calls |-> "none"]
  /\ state = [c \in Calls |-> "none"]
  /\ result = [c \in Calls |-> "none"]
  /\ proc = [c \in Calls |-> "none"]
  /\ kid = [c \in Calls |-> FALSE]
  /\ thread = [c \in Calls |-> "none"]
  /\ held = [c \in Calls |-> 0]
  /\ content = [c \in Calls |-> Empty]
  /\ file = 0
  /\ temp = 0
  /\ overlap = FALSE

-------------------------------------------------------------------------------
(* Dispatch and return.                                                    *)

Waiting(c) == state[c] \in {"awaiting", "killing"}

Writing(c) == thread[c] \in {"open", "write", "replace", "cleanup"}

Return(c, code) ==
  /\ state' = [state EXCEPT ![c] = "returned"]
  /\ result' = [result EXCEPT ![c] = code]

Next1 == {c \in Calls : kind[c] = "none" /\ \A d \in 1..(c - 1) : kind[d] # "none"}

(* ToolRouter.dispatch: arguments that do not parse, an unknown tool, or   *)
(* arguments the tool refuses end the call at once.                        *)
Refuse(c, k) ==
  /\ kind' = [kind EXCEPT ![c] = k]
  /\ Return(c, "refused")
  /\ UNCHANGED <<command, thread, disk, overlap>>

(* _run_command, _exec_search_command: the process starts or does not.     *)
StartCommand(c, k) ==
  /\ kind' = [kind EXCEPT ![c] = k]
  /\ \/ Return(c, "start_failed") /\ UNCHANGED proc
     \/ /\ state' = [state EXCEPT ![c] = "awaiting"]
        /\ proc' = [proc EXCEPT ![c] = "running"]
        /\ UNCHANGED result
  /\ UNCHANGED <<kid, thread, disk, overlap>>

(* WriteFileTool.handle hands _write_atomic to the thread pool.            *)
StartWrite(c) ==
  /\ kind' = [kind EXCEPT ![c] = "write"]
  /\ state' = [state EXCEPT ![c] = "awaiting"]
  /\ thread' = [thread EXCEPT ![c] = "open"]
  /\ overlap' = (overlap \/ \E d \in Calls : Writing(d))
  /\ UNCHANGED <<result, command, disk>>

(* The agent awaits each call before it dispatches the next.               *)
Dispatch ==
  /\ \A c \in Calls : ~Waiting(c)
  /\ \E c \in Next1 :
       \/ \E k \in Commands \union {"write"} : Refuse(c, k)
       \/ \E k \in Commands : StartCommand(c, k)
       \/ StartWrite(c)

(* The turn is cancelled: the coroutine ends, process and thread go on.    *)
Interrupt(c) ==
  /\ Waiting(c)
  /\ Return(c, "interrupted")
  /\ UNCHANGED <<kind, command, thread, disk, overlap>>

-------------------------------------------------------------------------------
(* Commands.                                                               *)

Drained(c) == proc[c] = "exited" /\ ~kid[c]

(* The process is gone; a shell may leave a child that holds the pipes.    *)
Gone(c) ==
  /\ proc' = [proc EXCEPT ![c] = "exited"]
  /\ \E left \in IF kind[c] = "shell" THEN BOOLEAN ELSE {FALSE} : kid' = [kid EXCEPT ![c] = left]

ProcExits(c) ==
  /\ proc[c] = "running"
  /\ Gone(c)
  /\ UNCHANGED <<kind, state, result, thread, disk, overlap>>

KidEnds(c) ==
  /\ kid[c]
  /\ kid' = [kid EXCEPT ![c] = FALSE]
  /\ UNCHANGED <<kind, state, result, proc, thread, disk, overlap>>

(* communicate() returns once the process has exited and its pipes are     *)
(* closed.                                                                 *)
CommandReturns(c) ==
  /\ state[c] = "awaiting"
  /\ Drained(c)
  /\ Return(c, "ok")
  /\ UNCHANGED <<kind, command, thread, disk, overlap>>

(* Faulty variant of Timeout: the call returns as soon as it has killed.   *)
TimeoutAtOnce(c) ==
  /\ state[c] = "awaiting"
  /\ proc[c] = "running"
  /\ Gone(c)
  /\ Return(c, "timeout")
  /\ UNCHANGED <<kind, thread, disk, overlap>>

(* The timer fires: kill the process if it still runs and wait again.  If  *)
(* the command was over by then its transport is closed and kill() raises, *)
(* which the registry reports as handler_exception.                        *)
Timeout(c) ==
  /\ state[c] = "awaiting"
  /\ proc[c] # "none"
  /\ \/ /\ ~Drained(c)
        /\ IF proc[c] = "running" THEN Gone(c) ELSE UNCHANGED command
        /\ state' = [state EXCEPT ![c] = "killing"]
        /\ UNCHANGED result
     \/ Drained(c) /\ Return(c, "exception") /\ UNCHANGED command
  /\ UNCHANGED <<kind, thread, disk, overlap>>

KillReturns(c) ==
  /\ state[c] = "killing"
  /\ Drained(c)
  /\ Return(c, "timeout")
  /\ UNCHANGED <<kind, command, thread, disk, overlap>>

(* Faulty variant of KillTimeout: the search gives up waiting as well.     *)
KillTimeoutAny(c) ==
  /\ state[c] = "killing"
  /\ Return(c, "unclean")
  /\ UNCHANGED <<kind, command, thread, disk, overlap>>

(* Faulty variant of KillTimeout: only the search gives up waiting.        *)
KillTimeoutSearch(c) ==
  /\ state[c] = "killing"
  /\ kind[c] = "grep"
  /\ Return(c, "unclean")
  /\ UNCHANGED <<kind, command, thread, disk, overlap>>

(* The shell tool waits one second more for the pipes; the search tool     *)
(* waits without a limit.                                                  *)
KillTimeout(c) ==
  /\ state[c] = "killing"
  /\ kind[c] = "shell"
  /\ Return(c, "unclean")
  /\ UNCHANGED <<kind, command, thread, disk, overlap>>

-------------------------------------------------------------------------------
(* _write_atomic, step by step in its thread.                              *)

Goto(c, pc) == thread' = [thread EXCEPT ![c] = pc]

InThread == UNCHANGED <<kind, state, result, command, overlap>>

(* Faulty variant of Open: the target itself is opened for writing.        *)
OpenInPlace(c) ==
  /\ thread[c] = "open"
  /\ LET f == IF file = 0 THEN c ELSE file
     IN  /\ file' = f
         /\ held' = [held EXCEPT ![c] = f]
         /\ content' = [content EXCEPT ![f] = Empty]
  /\ Goto(c, "write")
  /\ UNCHANGED temp
  /\ InThread

(* Parent directories, then the temporary file: made, or found and         *)
(* truncated.                                                              *)
Open(c) ==
  /\ thread[c] = "open"
  /\ \/ \E pc \in {"failed", "cleanup"} : Goto(c, pc) /\ UNCHANGED disk
     \/ LET f == IF temp = 0 THEN c ELSE temp
        IN  /\ temp' = f
            /\ held' = [held EXCEPT ![c] = f]
            /\ content' = [content EXCEPT ![f] = Empty]
            /\ Goto(c, "write")
            /\ UNCHANGED file
  /\ InThread

(* The text is written, or a part of it and an OSError; text that has no   *)
(* UTF-8 form raises a ValueError, which nothing catches.                  *)
Write(c) ==
  /\ thread[c] = "write"
  /\ \/ /\ \E w \in IF content[held[c]] = Empty THEN {c} ELSE {c, Torn} :
             content' = [content EXCEPT ![held[c]] = w]
        /\ Goto(c, "replace")
     \/ content' = [content EXCEPT ![held[c]] = Torn] /\ Goto(c, "cleanup")
     \/ Goto(c, "raised") /\ UNCHANGED content
  /\ UNCHANGED <<held, file, temp>>
  /\ InThread

(* os.replace publishes whatever bears the temporary name.                 *)
Publish(c) ==
  /\ thread[c] = "replace"
  /\ \/ temp # 0 /\ file' = temp /\ temp' = 0 /\ Goto(c, "ok")
     \/ Goto(c, "cleanup") /\ UNCHANGED <<file, temp>>
  /\ UNCHANGED <<held, content>>
  /\ InThread

(* The temporary file is removed; an unlink that raises OSError as well is *)
(* suppressed, the file stays and the call fails all the same.             *)
Cleanup(c) ==
  /\ thread[c] = "cleanup"
  /\ \/ temp' = 0 /\ Goto(c, "failed")
     \/ temp # 0 /\ Goto(c, "left") /\ UNCHANGED temp
  /\ UNCHANGED <<held, content, file>>
  /\ InThread

WriteReturns(c) ==
  /\ state[c] = "awaiting"
  /\ \/ thread[c] = "ok" /\ Return(c, "ok")
     \/ thread[c] \in {"failed", "left"} /\ Return(c, "write_failed")
     \/ thread[c] = "raised" /\ Return(c, "exception")
  /\ UNCHANGED <<kind, command, thread, disk, overlap>>

Thread(c) == Open(c) \/ Write(c) \/ Publish(c) \/ Cleanup(c)

Coroutine(c) ==
  \/ CommandReturns(c)
  \/ Timeout(c)
  \/ KillReturns(c)
  \/ KillTimeout(c)
  \/ WriteReturns(c)

Next ==
  \/ Dispatch
  \/ \E c \in Calls : Interrupt(c) \/ ProcExits(c) \/ KidEnds(c) \/ Thread(c) \/ Coroutine(c)

Spec == Init /\ [][Next]_vars

(* Timers fire and the thread pool gets its work done.  A command need     *)
(* never end, nor a process it has left behind.                            *)
FairSpec == Spec /\ \A c \in Calls : WF_vars(Thread(c)) /\ WF_vars(Coroutine(c))

-------------------------------------------------------------------------------
(* Properties.                                                             *)

(* A call that has returned an outcome of its own has nothing running any  *)
(* more: only an interrupt or a kill that did not close the pipes may      *)
(* leave work behind.                                                      *)
ReturnedMeansEnded ==
  \A c \in Calls :
    state[c] = "returned" /\ result[c] \notin {"interrupted", "unclean"} =>
      /\ proc[c] # "running"
      /\ ~kid[c]
      /\ ~Writing(c)

(* Writes are atomic as long as no two overlap, which takes an interrupt   *)
(* and a second write to the path: the target then holds all of one call's *)
(* content, never that of a call reported as failed.                       *)
AtomicWrites ==
  file # 0 /\ ~overlap =>
    /\ content[file] \in Calls
    /\ result[content[file]] \in {"none", "ok", "interrupted"}

(* The file at the temporary path is never one whose maker is done with    *)
(* it, except where that call raised or could not unlink it: every other   *)
(* way out, of its own or of a write that shares the name, takes it away.  *)
NoStrayTemp == temp # 0 => Writing(temp) \/ thread[temp] \in {"left", "raised"}

(* A write replaces its file whole and leaves nothing beside it.           *)
CleanWrites == AtomicWrites /\ NoStrayTemp

(* Every call returns, however its command behaves.                        *)
CallsReturn == \A c \in Calls : Waiting(c) ~> ~Waiting(c)
===============================================================================
