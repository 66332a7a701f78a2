-------------------------- MODULE ToolExecutionProofs --------------------------
(***************************************************************************)
(* The safety of command execution and of atomic writes, for any number of *)
(* calls, interrupted or not.                                              *)
(***************************************************************************)
EXTENDS ToolExecution, TLAPS

-------------------------------------------------------------------------------
(* What a call of each kind can have under way.                            *)

Untouched == \A c \in Calls : kind[c] = "none" <=> state[c] = "none"

ProcOfCommand ==
  \A c \in Calls :
    /\ proc[c] # "none" => kind[c] \in Commands
    /\ kid[c] => proc[c] = "exited"
    /\ state[c] = "killing" => proc[c] = "exited"

ThreadOfWrite == \A c \in Calls : thread[c] # "none" => kind[c] = "write"

OutcomeOnReturn == \A c \in Calls : result[c] = "none" <=> state[c] # "returned"

CallInv ==
  /\ TypeOK
  /\ DOMAIN result = Calls
  /\ Untouched
  /\ ProcOfCommand
  /\ ThreadOfWrite
  /\ OutcomeOnReturn
  /\ ReturnedMeansEnded

(* Two files that exist have different makers, and the maker of the        *)
(* temporary one has not finished with it: whoever finishes takes the      *)
(* temporary name away, unless it raised or its unlink failed.             *)
Held(c) == thread[c] \in {"write", "replace", "cleanup"}

TempMade == temp # 0 => Held(temp) \/ thread[temp] \in {"left", "raised"}

FileMade == file # 0 => thread[file] \notin {"none", "open"} /\ file # temp

(* While writes take turns the one that writes holds the temporary file,   *)
(* which has nothing in it but what this call has put there.               *)
OneWriter == \A c, d \in Calls : Writing(c) /\ Writing(d) => c = d

WriterOwnsTemp ==
  \A c \in Calls : thread[c] \in {"write", "replace"} =>
    /\ temp # 0 /\ held[c] = temp
    /\ content[temp] = IF thread[c] = "write" THEN Empty ELSE c

FileWhole == file # 0 => content[file] \in Calls /\ thread[content[file]] = "ok"

(* A call whose file was published is never reported as failed.            *)
OkReported == \A c \in Calls : thread[c] = "ok" => result[c] \in {"none", "ok", "interrupted"}

(* Two writes run at once only after an interrupt has left one running.    *)
OverlapInterrupted == overlap => \E c \in Calls : result[c] = "interrupted"

WriteInv ==
  /\ TempMade
  /\ FileMade
  /\ OkReported
  /\ OverlapInterrupted
  /\ ~overlap => OneWriter /\ WriterOwnsTemp /\ FileWhole
-------------------------------------------------------------------------------
(* The outcomes that each kind of call can have, among others.             *)
LEMMA Outcomes ==
  /\ \A k : "none" \in Codes(k) /\ "refused" \in Codes(k) /\ "interrupted" \in Codes(k)
  /\ \A k \in Commands :
       /\ "ok" \in Codes(k) /\ "start_failed" \in Codes(k)
       /\ "timeout" \in Codes(k) /\ "exception" \in Codes(k)
  /\ "unclean" \in Codes("shell")
  /\ "ok" \in Codes("write") /\ "write_failed" \in Codes("write") /\ "exception" \in Codes("write")
  /\ "unclean" \notin Codes("write")
BY Zenon DEF Codes, Commands

(* What each action does to the one call it steps.  A call returns with    *)
(* an outcome its kind has, and one of its own only when nothing it        *)
(* started is still under way.                                             *)
LEMMA CallStep == ASSUME CallInv, [Next]_vars PROVE CallInv'
<1> USE CallsAssumption, Outcomes DEF CallInv, TypeOK, Untouched, ProcOfCommand, ThreadOfWrite,
                            OutcomeOnReturn, ReturnedMeansEnded, Commands, Writing
<1>1. CASE UNCHANGED vars
  BY <1>1 DEF vars, command, disk
<1>2. ASSUME NEW c \in Next1, NEW k \in Commands \union {"write"}, Refuse(c, k) PROVE CallInv'
  BY <1>2 DEF Next1, Refuse, Return, command, disk
<1>3. ASSUME NEW c \in Next1, NEW k \in Commands, StartCommand(c, k) PROVE CallInv'
  BY <1>3 DEF Next1, StartCommand, Return, disk
<1>4. ASSUME NEW c \in Next1, StartWrite(c) PROVE CallInv'
  BY <1>4 DEF Next1, StartWrite, command, disk
<1>5. ASSUME NEW c \in Calls, Interrupt(c) PROVE CallInv'
  BY <1>5 DEF Interrupt, Waiting, Return, command, disk
<1>6. ASSUME NEW c \in Calls, ProcExits(c) PROVE CallInv'
  <2>1. PICK left \in BOOLEAN : kid' = [kid EXCEPT ![c] = left]
    <3>1. Gone(c)
      BY <1>6 DEF ProcExits
    <3> QED
      BY <3>1 DEF Gone
  <2> QED
    BY <1>6, <2>1 DEF ProcExits, Gone, disk
<1>7. ASSUME NEW c \in Calls, KidEnds(c) PROVE CallInv'
  BY <1>7 DEF KidEnds, disk
<1>8. ASSUME NEW c \in Calls, Timeout(c) PROVE CallInv'
  <2>1. CASE Drained(c)
    BY <1>8, <2>1 DEF Timeout, Drained, Return, command, disk
  <2>2. CASE ~Drained(c) /\ proc[c] = "running"
    <3>1. Gone(c)
      BY <1>8, <2>2 DEF Timeout
    <3>2. PICK left \in BOOLEAN : kid' = [kid EXCEPT ![c] = left]
      BY <3>1 DEF Gone
    <3>3. /\ state' = [state EXCEPT ![c] = "killing"]
          /\ UNCHANGED <<kind, result, thread, disk, overlap>>
      BY <1>8, <2>2 DEF Timeout
    <3> QED
      BY <1>8, <2>2, <3>1, <3>2, <3>3 DEF Timeout, Gone, disk
  <2>3. CASE ~Drained(c) /\ proc[c] # "running"
    BY <1>8, <2>3 DEF Timeout, command, disk
  <2> QED
    BY <2>1, <2>2, <2>3
<1>9. ASSUME NEW c \in Calls,
             CommandReturns(c) \/ KillReturns(c) \/ KillTimeout(c) \/ WriteReturns(c)
      PROVE  CallInv'
  BY <1>9 DEF CommandReturns, KillReturns, KillTimeout, WriteReturns, Drained, Return, command, disk
<1>10. ASSUME NEW c \in Calls, Open(c) PROVE CallInv'
  BY <1>10 DEF Open, Goto, InThread, command, disk
<1>11. ASSUME NEW c \in Calls, Write(c) PROVE CallInv'
  BY <1>11 DEF Write, Goto, InThread, command, disk
<1>12. ASSUME NEW c \in Calls, Publish(c) \/ Cleanup(c) PROVE CallInv'
  BY <1>12 DEF Publish, Cleanup, Goto, InThread, command, disk
<1> QED
  BY <1>1, <1>2, <1>3, <1>4, <1>5, <1>6, <1>7, <1>8, <1>9, <1>10, <1>11, <1>12
     DEF Next, Dispatch, Thread, Coroutine

(* What is running for a call always fits its kind and its outcome.        *)
THEOREM CallsFit == Spec => []CallInv
<1>1. Init => CallInv
  <2> SUFFICES ASSUME Init PROVE CallInv
    OBVIOUS
  <2>1. TypeOK
    BY Outcomes DEF Init, TypeOK
  <2>2. DOMAIN result = Calls
    BY DEF Init
  <2>3. Untouched /\ ProcOfCommand /\ ThreadOfWrite /\ OutcomeOnReturn /\ ReturnedMeansEnded
    BY DEF Init, Untouched, ProcOfCommand, ThreadOfWrite, OutcomeOnReturn, ReturnedMeansEnded,
           Writing, Commands
  <2> QED
    BY <2>1, <2>2, <2>3 DEF CallInv
<1> QED
  BY <1>1, CallStep, PTL DEF Spec

(* The state keeps its type, and every call an outcome its tool can give.  *)
THEOREM TypeCorrect == Spec => []TypeOK
<1>1. CallInv => TypeOK
  BY DEF CallInv
<1> QED
  BY <1>1, CallsFit, PTL

(* What has returned leaves nothing running, but for an interrupt and a    *)
(* kill that was given up.                                                 *)
THEOREM ReturnsEnded == Spec => []ReturnedMeansEnded
<1>1. CallInv => ReturnedMeansEnded
  BY DEF CallInv
<1> QED
  BY <1>1, CallsFit, PTL

-------------------------------------------------------------------------------
(* A call that has returned while its thread still writes was interrupted. *)
LEMMA LeftWriting ==
  ASSUME CallInv, NEW c \in Calls, Writing(c), state[c] = "returned"
  PROVE  result[c] = "interrupted"
BY Outcomes DEF CallInv, TypeOK, ThreadOfWrite, ReturnedMeansEnded, Writing

(* What a step of a writing thread, or the start of one, does to the       *)
(* target, the temporary file and their contents.                          *)
LEMMA WriteStep == ASSUME CallInv, WriteInv, [Next]_vars PROVE WriteInv'
<1> USE CallsAssumption DEF CallInv, TypeOK, WriteInv, TempMade, FileMade, OkReported,
                            OverlapInterrupted, OneWriter, WriterOwnsTemp, FileWhole, Held, Writing
<1>1. CASE UNCHANGED vars
  BY <1>1 DEF vars, disk
<1>2. ASSUME NEW c \in Next1, NEW k \in Commands \union {"write"}, Refuse(c, k) PROVE WriteInv'
  BY <1>2 DEF Next1, Refuse, Return, Untouched, OutcomeOnReturn, ThreadOfWrite, disk
<1>3. ASSUME NEW c \in Next1, NEW k \in Commands, StartCommand(c, k) PROVE WriteInv'
  BY <1>3 DEF Next1, StartCommand, Return, Untouched, OutcomeOnReturn, ThreadOfWrite, disk
<1>4. ASSUME NEW c \in Next1, StartWrite(c), \A d \in Calls : ~Waiting(d) PROVE WriteInv'
  <2>1. c \in Calls /\ thread[c] = "none"
    BY DEF Next1, ThreadOfWrite
  <2>2. OverlapInterrupted'
    <3>1. ASSUME NEW d \in Calls, Writing(d) PROVE result[d] = "interrupted"
      BY <1>4, <3>1, LeftWriting DEF Waiting, Untouched, ThreadOfWrite
    <3> QED
      BY <1>4, <3>1 DEF StartWrite
  <2>3. TempMade' /\ FileMade' /\ OkReported'
    BY <1>4, <2>1 DEF StartWrite, disk
  <2>4. ~overlap' => OneWriter' /\ WriterOwnsTemp' /\ FileWhole'
    <3> SUFFICES ASSUME ~overlap' PROVE OneWriter' /\ WriterOwnsTemp' /\ FileWhole'
      OBVIOUS
    <3>1. ~overlap /\ \A d \in Calls : ~Writing(d)
      BY <1>4 DEF StartWrite
    <3>2. OneWriter'
      BY <1>4, <2>1, <3>1 DEF StartWrite
    <3>3. WriterOwnsTemp' /\ FileWhole'
      BY <1>4, <2>1, <3>1 DEF StartWrite, disk
    <3> QED
      BY <3>2, <3>3
  <2> QED
    BY <2>2, <2>3, <2>4
<1>5. ASSUME NEW c \in Calls, Interrupt(c) PROVE WriteInv'
  BY <1>5 DEF Interrupt, Return, disk
<1>6. ASSUME NEW c \in Calls, ProcExits(c) \/ KidEnds(c) PROVE WriteInv'
  BY <1>6 DEF ProcExits, KidEnds, disk
<1>7. ASSUME NEW c \in Calls, Timeout(c) PROVE WriteInv'
  BY <1>7 DEF Timeout, Return, Commands, ProcOfCommand, ThreadOfWrite, OutcomeOnReturn, disk
<1>8. ASSUME NEW c \in Calls,
             CommandReturns(c) \/ KillReturns(c) \/ KillTimeout(c) \/ WriteReturns(c)
      PROVE  WriteInv'
  BY <1>8 DEF CommandReturns, KillReturns, KillTimeout, WriteReturns, Drained, Return, Commands,
              ProcOfCommand, ThreadOfWrite, OutcomeOnReturn, disk
<1>9. ASSUME NEW c \in Calls, Open(c) PROVE WriteInv'
  <2>1. CASE \E pc \in {"failed", "cleanup"} : Goto(c, pc) /\ UNCHANGED disk
    BY <1>9, <2>1 DEF Open, Goto, InThread, disk
  <2> DEFINE f == IF temp = 0 THEN c ELSE temp
  <2>2. CASE /\ temp' = f
             /\ held' = [held EXCEPT ![c] = f]
             /\ content' = [content EXCEPT ![f] = Empty]
             /\ Goto(c, "write")
             /\ UNCHANGED file
    <3>1. f \in Calls /\ f # 0 /\ f # file
      BY <1>9 DEF Open, Calls
    <3>2. TempMade' /\ FileMade' /\ OkReported' /\ OverlapInterrupted'
      BY <1>9, <2>2, <3>1 DEF Open, Goto, InThread
    <3>3. ~overlap => OneWriter' /\ WriterOwnsTemp' /\ FileWhole'
      BY <1>9, <2>2, <3>1 DEF Open, Goto, InThread
    <3> QED
      BY <1>9, <3>2, <3>3 DEF Open, InThread
  <2> QED
    BY <1>9, <2>1, <2>2 DEF Open
<1>10. ASSUME NEW c \in Calls, Write(c) PROVE WriteInv'
  BY <1>10 DEF Write, Goto, InThread
<1>11. ASSUME NEW c \in Calls, Publish(c) PROVE WriteInv'
  BY <1>11, LeftWriting DEF Publish, Goto, InThread, OutcomeOnReturn
<1>12. ASSUME NEW c \in Calls, Cleanup(c) PROVE WriteInv'
  BY <1>12 DEF Cleanup, Goto, InThread
<1> QED
  BY <1>1, <1>2, <1>3, <1>4, <1>5, <1>6, <1>7, <1>8, <1>9, <1>10, <1>11, <1>12
     DEF Next, Dispatch, Thread, Coroutine

(* The file, the temporary file and the threads always fit together.       *)
THEOREM WritersTakeTurns == Spec => []WriteInv
<1>1. Init => WriteInv
  BY DEF Init, WriteInv, TempMade, FileMade, OkReported, OverlapInterrupted, OneWriter,
         WriterOwnsTemp, FileWhole, Held, Writing
<1> QED
  BY <1>1, CallsFit, WriteStep, PTL DEF Spec

(* The target holds all of one call's content, and not that of a call      *)
(* reported as failed, unless two writes have overlapped; and no temporary *)
(* file is left, overlap or not, but by a call that raised or that could   *)
(* not unlink it.                                                          *)
THEOREM WritesClean == Spec => []CleanWrites
<1>1. CallInv /\ WriteInv => CleanWrites
  BY DEF CallInv, TypeOK, WriteInv, CleanWrites, AtomicWrites, NoStrayTemp, TempMade, FileWhole,
         OkReported, Held, Writing
<1> QED
  BY <1>1, CallsFit, WritersTakeTurns, PTL

(* Two writes overlap only after an interrupt: the agent's own order keeps *)
(* them apart.                                                             *)
THEOREM OverlapTakesInterrupt == Spec => []OverlapInterrupted
<1>1. WriteInv => OverlapInterrupted
  BY DEF WriteInv
<1> QED
  BY <1>1, WritersTakeTurns, PTL
=====================================================================================
