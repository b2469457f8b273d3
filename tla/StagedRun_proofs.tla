--------------------------- MODULE StagedRun_proofs ---------------------------
(***************************************************************************)
(* StagedRun, proved for any number of outputs and of upsets: a staged run *)
(* keeps the promise of OrderedSwap; no destination ever holds part of a   *)
(* file, not even after a power cut; and a run upset once at most leaves   *)
(* nothing behind.                                                         *)
(***************************************************************************)
EXTENDS StagedRun, TLAPS

\* Everything is still ahead of the removals.
Under == pc \in {"run", "reap", "hook", "copy", "settle", "recheck", "replace"}

\* The destinations follow the replace loop, and the loop follows the hooks.
SwapFollowsLoop ==
    /\ pc \notin {"down", "up"} => \A o \in Outputs : final[o] # "old" <=> o <= at
    /\ pc \in {"run", "reap", "hook", "copy", "settle", "recheck"} => at = 0
    /\ pc = "reap" => fate \in {"refused", "cancelled"}
    /\ pc = "settle" => fate \in {"refused", "cancelled", "raised"}

\* While the run goes on, what the thread has been through is on the disk.
CopiedIsFlushed ==
    /\ pc \in {"run", "reap", "hook"} => copy = "none" /\ out = 1
    /\ pc \in {"recheck", "replace"} => copy = "copied"
    /\ copy = "queued" => out = 1
    /\ Under /\ copy \in {"open", "create", "write", "flush"} =>
          \A o \in Outputs : o < out => part[o] = "whole"
    /\ Under /\ copy \in {"write", "flush"} => part[out] # "none"
    /\ Under /\ copy = "copied" =>
          \A o \in Outputs : at < o => part[o] = "whole"

IInv == TypeOK /\ SwapFollowsLoop /\ CopiedIsFlushed /\ FinalsWhole

LEMMA InitInv == Init => IInv
  BY OutputsGiven, UpsetsGiven
     DEF Init, IInv, TypeOK, SwapFollowsLoop, CopiedIsFlushed, FinalsWhole,
         Outputs, Under

\* One step per action.
LEMMA NextInv == IInv /\ [Next]_vars => IInv'
  <1> SUFFICES ASSUME IInv, [Next]_vars PROVE IInv'
    OBVIOUS
  <1> USE OutputsGiven, UpsetsGiven
      DEF IInv, TypeOK, SwapFollowsLoop, CopiedIsFlushed, FinalsWhole,
          Outputs, Under, files
  <1>1. CASE ProgramWrites
    BY <1>1 DEF ProgramWrites
  <1>2. CASE ProgramSucceeds
    BY <1>2 DEF ProgramSucceeds
  <1>3. CASE ProgramFails
    BY <1>3 DEF ProgramFails
  <1>4. CASE Reap
    BY <1>4 DEF Reap, GiveUp
  <1>5. CASE RunEnds
    BY <1>5 DEF RunEnds, GiveUp
  <1>6. CASE BeforeStaging
    BY <1>6 DEF BeforeStaging, GiveUp
  <1>7. CASE CopyEnds
    BY <1>7 DEF CopyEnds, GiveUp
  <1>8. CASE Settle
    BY <1>8 DEF Settle, GiveUp
  <1>9. CASE BeforeSwap
    BY <1>9 DEF BeforeSwap, GiveUp
  <1>10. CASE Replace
    BY <1>10 DEF Replace
  <1>11. CASE ReplaceRaises
    BY <1>11 DEF ReplaceRaises, GiveUp
  <1>12. CASE Succeed
    BY <1>12 DEF Succeed, GiveUp
  <1>13. CASE CleanUp
    BY <1>13 DEF CleanUp
  <1>14. CASE Return
    BY <1>14 DEF Return
  <1>15. CASE ThreadStarts
    BY <1>15 DEF ThreadStarts
  <1>16. CASE OpenTemp
    BY <1>16 DEF OpenTemp
  <1>17. CASE CreatePart
    BY <1>17 DEF CreatePart
  <1>18. CASE WritePart
    BY <1>18 DEF WritePart, Fill
  <1>19. CASE FlushPart
    BY <1>19 DEF FlushPart, Fill, NextOutput
  <1>20. CASE CopyRaises
    BY <1>20 DEF CopyRaises
  <1>21. CASE TimeOut
    BY <1>21 DEF TimeOut, Kill
  <1>22. CASE CallbackRaises
    BY <1>22 DEF CallbackRaises, GiveUp
  <1>23. CASE Cancel
    BY <1>23 DEF Cancel, Kill, GiveUp
  <1>24. CASE Crash
    BY <1>24 DEF Crash, Torn, Settled
  <1>25. CASE Sweep
    BY <1>25 DEF Sweep
  <1>26. CASE UNCHANGED vars
    BY <1>26 DEF vars
  <1>27. QED
    BY <1>1, <1>2, <1>3, <1>4, <1>5, <1>6, <1>7, <1>8, <1>9, <1>10, <1>11,
       <1>12, <1>13, <1>14, <1>15, <1>16, <1>17, <1>18, <1>19, <1>20, <1>21,
       <1>22, <1>23, <1>24, <1>25, <1>26
       DEF Next, Program, Coroutine, Thread

LEMMA Invariance == Spec => []IInv
  BY InitInv, NextInv, PTL DEF Spec

\* The variables keep their types.
THEOREM TypeCorrect == Spec => []TypeOK
  BY Invariance, PTL DEF IInv

\* No destination ever holds part of a file: every .part the replace loop of
\* run_staged_subprocess moves was flushed to its end.
THEOREM WholeFinals == Spec => []FinalsWhole
  BY Invariance, PTL DEF IInv

\* The run keeps its promise.  SwapFollowsLoop makes every step of the run a
\* step of OrderedSwap or none.
THEOREM Implements == Spec => KeepsItsPromise
  <1> USE OutputsGiven DEF Outputs, Swap!Outputs, Replaced, Result
  <1>1. Init => Swap!Init
    BY DEF Init, Swap!Init
  <1>2. IInv /\ [Next]_vars => [Swap!Next]_Swap!vars
    <2> SUFFICES ASSUME IInv, [Next]_vars PROVE [Swap!Next]_Swap!vars
      OBVIOUS
    <2> USE DEF IInv, TypeOK, SwapFollowsLoop, files, Swap!vars
    <2>1. CASE Replace
      BY <2>1 DEF Replace, Swap!Next, Swap!ReplaceNext
    <2>2. CASE Succeed
      BY <2>2 DEF Succeed, GiveUp, Swap!Next, Swap!Complete
    <2>3. CASE ReplaceRaises
      BY <2>3 DEF ReplaceRaises, GiveUp, Swap!Next, Swap!Raise
    <2>4. CASE Crash
      <3>1. Replaced' \subseteq Replaced
        BY <2>4 DEF Crash, Torn
      <3>2. QED
        BY <2>4, <3>1 DEF Crash, Swap!Next, Swap!Crash
    <2>5. CASE Reap \/ RunEnds \/ BeforeStaging \/ CopyEnds \/ Settle \/ BeforeSwap
               \/ TimeOut \/ CallbackRaises \/ Cancel
      BY <2>5 DEF Reap, RunEnds, BeforeStaging, CopyEnds, Settle, BeforeSwap,
         TimeOut, CallbackRaises, Cancel, Kill, GiveUp, Swap!Next, Swap!Decline,
         Swap!Raise
    <2>6. CASE CleanUp \/ Return \/ Sweep \/ Program \/ Thread \/ UNCHANGED vars
      BY <2>6 DEF CleanUp, Return, Sweep, Program, ProgramWrites, ProgramSucceeds,
         ProgramFails, Thread, ThreadStarts, OpenTemp, CreatePart, WritePart, Fill,
         FlushPart, NextOutput, CopyRaises, vars
    <2>7. QED
      BY <2>1, <2>2, <2>3, <2>4, <2>5, <2>6 DEF Next, Coroutine
  <1>3. QED
    BY <1>1, <1>2, Invariance, PTL DEF Spec, KeepsItsPromise, Swap!Spec

\* With one upset at most, nothing is left: the removals do not begin before
\* the thread has settled and the program is gone, so what they have been
\* through stays gone.
RemovedStaysGone ==
    /\ proc = "running" =>
          pc = "run" \/ (pc \in {"clean", "ended"} /\ fate = "raised")
    /\ pc = "settle" => upsets > 0
    /\ Under => removed = 0
    /\ pc \in {"clean", "ended"} =>
          /\ Settled
          /\ \A o \in Outputs : 2 * o - 2 < removed => temp[o] = "none"
          /\ \A o \in Outputs : 2 * o - 1 < removed => part[o] = "none"
    /\ pc = "ended" => removed = 2 * NumOutputs

LEMMA NextGone ==
  ASSUME MaxUpsets <= 1, IInv, RemovedStaysGone, [Next]_vars
  PROVE  RemovedStaysGone'
  <1> USE OutputsGiven, UpsetsGiven
      DEF IInv, TypeOK, CopiedIsFlushed, RemovedStaysGone, Settled, Outputs,
          Under, files
  <1>1. CASE Program
    BY <1>1 DEF Program, ProgramWrites, ProgramSucceeds, ProgramFails
  <1>2. CASE Reap \/ RunEnds \/ BeforeStaging \/ TimeOut
    BY <1>2 DEF Reap, RunEnds, BeforeStaging, TimeOut, Kill, GiveUp
  <1>3. CASE CopyEnds \/ Settle \/ BeforeSwap \/ CallbackRaises
    BY <1>3 DEF CopyEnds, Settle, BeforeSwap, CallbackRaises, GiveUp
  <1>4. CASE Replace \/ ReplaceRaises \/ Succeed
    BY <1>4 DEF Replace, ReplaceRaises, Succeed, GiveUp
  <1>5. CASE CleanUp
    <2>1. PICK k \in 0 .. NumOutputs - 1 : removed = 2 * k \/ removed = 2 * k + 1
      BY <1>5 DEF CleanUp
    <2>2. CASE removed = 2 * k
      BY <1>5, <2>2 DEF CleanUp
    <2>3. CASE removed = 2 * k + 1
      BY <1>5, <2>3 DEF CleanUp
    <2>4. QED
      BY <2>1, <2>2, <2>3
  <1>6. CASE Return
    BY <1>6 DEF Return
  <1>7. CASE Thread
    BY <1>7 DEF Thread, ThreadStarts, OpenTemp, CreatePart, WritePart, Fill,
       FlushPart, NextOutput, CopyRaises
  <1>8. CASE Cancel
    BY <1>8 DEF Cancel, Kill, GiveUp
  <1>9. CASE Crash \/ Sweep \/ UNCHANGED vars
    BY <1>9 DEF Crash, Sweep, vars
  <1>10. QED
    BY <1>1, <1>2, <1>3, <1>4, <1>5, <1>6, <1>7, <1>8, <1>9 DEF Next, Coroutine

\* A run cancelled at most once, whose progress callbacks do not fail then,
\* leaves neither a temp nor a .part, nor a thread that could make one.
THEOREM CleansUp == ASSUME MaxUpsets <= 1 PROVE Spec => []NothingLeft
  <1>1. Init => RemovedStaysGone
    BY OutputsGiven DEF Init, RemovedStaysGone, Under
  <1>2. IInv /\ RemovedStaysGone /\ [Next]_vars => RemovedStaysGone'
    BY NextGone
  <1>3. IInv /\ RemovedStaysGone => NothingLeft
    BY OutputsGiven DEF IInv, RemovedStaysGone, NothingLeft, Outputs
  <1>4. QED
    BY <1>1, <1>2, <1>3, Invariance, PTL DEF Spec

=============================================================================
