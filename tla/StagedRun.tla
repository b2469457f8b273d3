------------------------------ MODULE StagedRun ------------------------------
(***************************************************************************)
(* subprocess_runner.run_staged_subprocess: one run of FFmpeg (or of the   *)
(* mkvtoolnix programs), from its temps to the files it replaces.          *)
(*                                                                         *)
(* The program writes one temp per output.  The before_staging hook looks  *)
(* at them, a thread copies each to a .part beside its destination and     *)
(* flushes it, the before_swap hook looks again, and a loop of os.replace  *)
(* calls puts the .parts in place: the media file first, then its          *)
(* sidecars.  Every way out removes the temps and the .parts.              *)
(*                                                                         *)
(* Four actors: the coroutine, the program, the copying thread, which      *)
(* nothing can interrupt, and whoever cancels the coroutine: an abort, and *)
(* stop_worker after it.  An upset is a cancellation or a progress         *)
(* callback that raises; MaxUpsets bounds them.  A run starts with no      *)
(* leftovers of an earlier one.  Removing a leftover does not fail.        *)
(***************************************************************************)
EXTENDS Naturals

CONSTANTS
    NumOutputs, \* the outputs of the run, the media file first
    MaxUpsets   \* bound on cancellations and failing progress callbacks

ASSUME OutputsGiven == NumOutputs \in Nat \ {0}
ASSUME UpsetsGiven == MaxUpsets \in Nat

VARIABLES
    pc,         \* where the coroutine is
    fate,       \* how it will end, known once it is on its way out
    proc,       \* the program
    copy,       \* the copying thread: what it does next
    out,        \* the output it is at
    temp,       \* each output's temp file
    part,       \* each output's .part
    final,      \* each output's destination
    at,         \* how many the replace loop has done
    removed,    \* how many paths the cleanup has been through
    upsets

vars == <<pc, fate, proc, copy, out, temp, part, final, at, removed, upsets>>
files == <<temp, part, final>>

Outputs == 1 .. NumOutputs

\* "cached" is whole but not on the disk yet: a power cut undoes it.
TypeOK ==
    /\ pc \in {"run", "reap", "hook", "copy", "settle", "recheck", "replace",
               "clean", "ended", "down", "up"}
    /\ fate \in {"none", "done", "refused", "cancelled", "raised"}
    /\ proc \in {"running", "ok", "failed", "killed"}
    /\ copy \in {"none", "queued", "open", "create", "write", "flush",
                 "copied", "failed"}
    /\ out \in Outputs
    /\ temp \in [Outputs -> {"none", "partial", "whole"}]
    /\ part \in [Outputs -> {"none", "partial", "cached", "whole"}]
    /\ final \in [Outputs -> {"old", "partial", "cached", "whole"}]
    /\ at \in 0 .. NumOutputs
    /\ removed \in 0 .. 2 * NumOutputs
    /\ upsets \in 0 .. MaxUpsets

Init ==
    /\ pc = "run" /\ fate = "none"
    /\ proc = "running"
    /\ copy = "none" /\ out = 1
    /\ temp = [o \in Outputs |-> "none"]
    /\ part = [o \in Outputs |-> "none"]
    /\ final = [o \in Outputs |-> "old"]
    /\ at = 0 /\ removed = 0 /\ upsets = 0

Settled == copy \in {"none", "copied", "failed"}

\* On the way out with result f, through the removals.
GiveUp(f) == pc' = "clean" /\ fate' = f

-----------------------------------------------------------------------------
(* The program.                                                            *)

\* It opens its outputs before it reports any progress.
ProgramWrites ==
    /\ proc = "running" /\ pc = "run"
    /\ \E o \in Outputs : temp[o] = "none" /\ temp' = [temp EXCEPT ![o] = "partial"]
    /\ UNCHANGED <<pc, fate, proc, copy, out, part, final, at, removed, upsets>>

\* It exits with 0, and a temp may be missing all the same.  One removed under
\* it stays removed.
ProgramSucceeds ==
    /\ proc = "running"
    /\ proc' = "ok"
    /\ \E lost \in SUBSET Outputs :
           temp' = [o \in Outputs |-> IF o \in lost \/ temp[o] = "none" THEN "none" ELSE "whole"]
    /\ UNCHANGED <<pc, fate, copy, out, part, final, at, removed, upsets>>

ProgramFails ==
    /\ proc = "running"
    /\ proc' = "failed"
    /\ UNCHANGED <<pc, fate, copy, out, files, at, removed, upsets>>

-----------------------------------------------------------------------------
(* The coroutine.                                                          *)

\* Kill the program if it is still there, and wait for it to be gone.
Kill ==
    /\ pc' = "reap"
    /\ proc' = IF proc = "running" THEN "killed" ELSE proc

TimeOut ==
    /\ pc = "run"
    /\ Kill
    /\ fate' = "refused"
    /\ UNCHANGED <<copy, out, files, at, removed, upsets>>

Reap ==
    /\ pc = "reap" /\ proc # "running"
    /\ GiveUp(fate)
    /\ UNCHANGED <<proc, copy, out, files, at, removed, upsets>>

RunEnds ==
    /\ pc = "run" /\ proc # "running"
    /\ IF proc = "ok" /\ \A o \in Outputs : temp[o] # "none"
       THEN pc' = "hook" /\ UNCHANGED fate
       ELSE GiveUp("refused")
    /\ UNCHANGED <<proc, copy, out, files, at, removed, upsets>>

\* before_staging lets the run go on, refuses it or raises.
BeforeStaging ==
    /\ pc = "hook"
    /\ \/ pc' = "copy" /\ copy' = "queued" /\ UNCHANGED fate
       \/ (GiveUp("refused") \/ GiveUp("raised")) /\ UNCHANGED copy
    /\ UNCHANGED <<proc, out, files, at, removed, upsets>>

\* on_progress_line raises while the program runs, which nothing kills then; or
\* on_staging_progress raises, an OSError or something else, while the thread
\* copies, and the coroutine waits for the thread first.
CallbackRaises ==
    /\ upsets < MaxUpsets /\ upsets' = upsets + 1
    /\ \/ pc = "run" /\ (\A o \in Outputs : temp[o] # "none") /\ GiveUp("raised")
       \/ pc = "copy" /\ pc' = "settle" /\ fate' \in {"refused", "raised"}
    /\ UNCHANGED <<proc, copy, out, files, at, removed>>

CopyEnds ==
    /\ pc = "copy" /\ copy \in {"copied", "failed"}
    /\ IF copy = "copied" THEN pc' = "recheck" /\ UNCHANGED fate
                          ELSE GiveUp("refused")
    /\ UNCHANGED <<proc, copy, out, files, at, removed, upsets>>

\* `await staging` in the handlers of the copy.
Settle ==
    /\ pc = "settle" /\ Settled
    /\ GiveUp(fate)
    /\ UNCHANGED <<proc, copy, out, files, at, removed, upsets>>

BeforeSwap ==
    /\ pc = "recheck"
    /\ \/ pc' = "replace" /\ UNCHANGED fate
       \/ GiveUp("refused") \/ GiveUp("raised")
    /\ UNCHANGED <<proc, copy, out, files, at, removed, upsets>>

\* os.replace of the next output.
Replace ==
    /\ pc = "replace" /\ at < NumOutputs
    /\ part[at + 1] # "none"
    /\ final' = [final EXCEPT ![at + 1] = part[at + 1]]
    /\ part' = [part EXCEPT ![at + 1] = "none"]
    /\ at' = at + 1
    /\ UNCHANGED <<pc, fate, proc, copy, out, temp, removed, upsets>>

\* Variant: the replace loop logs the error and goes on with the next output.
ReplaceSkips ==
    /\ pc = "replace" /\ at < NumOutputs
    /\ at' = at + 1
    /\ UNCHANGED <<pc, fate, proc, copy, out, files, removed, upsets>>

\* os.replace raises, of an error of the file system or of a missing .part.
ReplaceRaises ==
    /\ pc = "replace" /\ at < NumOutputs
    /\ GiveUp("raised")
    /\ UNCHANGED <<proc, copy, out, files, at, removed, upsets>>

Succeed ==
    /\ pc = "replace" /\ at = NumOutputs
    /\ GiveUp("done")
    /\ UNCHANGED <<proc, copy, out, files, at, removed, upsets>>

\* cleanup_temp_file, of each output's temp and then of its .part.
CleanUp ==
    /\ pc = "clean" /\ removed < 2 * NumOutputs
    /\ LET o == removed \div 2 + 1
       IN  IF removed % 2 = 0
           THEN temp' = [temp EXCEPT ![o] = "none"] /\ UNCHANGED part
           ELSE part' = [part EXCEPT ![o] = "none"] /\ UNCHANGED temp
    /\ removed' = removed + 1
    /\ UNCHANGED <<pc, fate, proc, copy, out, final, at, upsets>>

Return ==
    /\ pc = "clean" /\ removed = 2 * NumOutputs
    /\ pc' = "ended"
    /\ UNCHANGED <<fate, proc, copy, out, files, at, removed, upsets>>

\* Variants: an abort that only waits for the program, without killing it, and
\* one that does not wait for the thread (a bare await, in place of a shield).
CancelWithoutKill ==
    /\ upsets < MaxUpsets
    /\ upsets' = upsets + 1
    /\ pc = "run" /\ pc' = "reap" /\ fate' = "cancelled"
    /\ UNCHANGED <<proc, copy, out, files, at, removed>>
CancelUnshielded ==
    /\ upsets < MaxUpsets
    /\ upsets' = upsets + 1
    /\ pc = "copy" /\ GiveUp("cancelled")
    /\ copy' = IF copy = "queued" THEN "none" ELSE copy
    /\ UNCHANGED <<proc, out, files, at, removed>>

\* The coroutine is cancelled at one of its awaits.  Waiting for the program or
\* for the thread, it first sees them end.  Cancelled again while it waits for
\* that, it waits no longer; a copy no thread has taken up is then dropped.
Cancel ==
    /\ upsets < MaxUpsets
    /\ upsets' = upsets + 1
    /\ \/ pc = "run" /\ Kill /\ fate' = "cancelled" /\ UNCHANGED copy
       \/ pc = "copy" /\ pc' = "settle" /\ fate' = "cancelled" /\ UNCHANGED <<proc, copy>>
       \/ pc \in {"reap", "hook", "recheck"} /\ GiveUp("cancelled") /\ UNCHANGED <<proc, copy>>
       \/ /\ pc = "settle" /\ GiveUp("cancelled")
          /\ copy' = IF copy = "queued" THEN "none" ELSE copy
          /\ UNCHANGED proc
    /\ UNCHANGED <<out, files, at, removed>>

-----------------------------------------------------------------------------
(* The copying thread: _stage_parts, and _copy_and_flush for each output.  *)

ThreadStarts ==
    /\ copy = "queued"
    /\ copy' = "open"
    /\ UNCHANGED <<pc, fate, proc, out, files, at, removed, upsets>>

\* The source is opened first: without it there is nothing to copy.
OpenTemp ==
    /\ copy = "open"
    /\ copy' = IF temp[out] = "none" THEN "failed" ELSE "create"
    /\ UNCHANGED <<pc, fate, proc, out, files, at, removed, upsets>>

CreatePart ==
    /\ copy = "create"
    /\ copy' = "write"
    /\ part' = [part EXCEPT ![out] = "partial"]
    /\ UNCHANGED <<pc, fate, proc, out, temp, final, at, removed, upsets>>

\* A .part removed in the meantime is not there for what is written to it.
Fill(content) ==
    part' = IF part[out] = "none" THEN part ELSE [part EXCEPT ![out] = content]

\* Variant: the bytes are left in the page cache, as shutil.copyfile did.
WriteUnflushed ==
    /\ copy = "write"
    /\ Fill("cached")
    /\ copy' = IF out = NumOutputs THEN "copied" ELSE "open"
    /\ out' = IF out = NumOutputs THEN out ELSE out + 1
    /\ UNCHANGED <<pc, fate, proc, temp, final, at, removed, upsets>>

WritePart ==
    /\ copy = "write"
    /\ copy' = "flush"
    /\ Fill("cached")
    /\ UNCHANGED <<pc, fate, proc, out, temp, final, at, removed, upsets>>

\* Variant: off by one at the last output.
NextOutputUncounted == copy' = "open" /\ out' = out + 1

NextOutput ==
    IF out = NumOutputs THEN copy' = "copied" /\ UNCHANGED out
                        ELSE copy' = "open" /\ out' = out + 1

FlushPart ==
    /\ copy = "flush"
    /\ Fill("whole")
    /\ NextOutput
    /\ UNCHANGED <<pc, fate, proc, temp, final, at, removed, upsets>>

\* No space left, or another error of the destination.
CopyRaises ==
    /\ copy \in {"create", "write", "flush"}
    /\ copy' = "failed"
    /\ UNCHANGED <<pc, fate, proc, out, files, at, removed, upsets>>

-----------------------------------------------------------------------------
(* The process is killed, or the power fails, and it starts again.         *)

Torn(f) == [o \in Outputs |-> IF f[o] = "cached" THEN "partial" ELSE f[o]]

\* TEMP_DIR may be in RAM; what is not flushed may be lost.  The directory is
\* not flushed either: a rename may be undone, with the old file back in place.
Crash ==
    /\ pc \notin {"down", "up"}
    /\ pc' = "down"
    /\ proc' = IF proc = "running" THEN "killed" ELSE proc
    /\ copy' = IF Settled THEN copy ELSE "failed"
    /\ \/ UNCHANGED files
       \/ /\ temp' \in {temp, [o \in Outputs |-> "none"]}
          /\ \E undone \in SUBSET {o \in Outputs : final[o] # "old"} :
                 /\ part' = [o \in Outputs |-> Torn(IF o \in undone THEN final ELSE part)[o]]
                 /\ final' = [o \in Outputs |-> IF o \in undone THEN "old" ELSE Torn(final)[o]]
    /\ UNCHANGED <<fate, out, at, removed, upsets>>

\* _cleanup_orphaned_temp_files, which leaves what is younger than 5 minutes.
Sweep ==
    /\ pc = "down"
    /\ pc' = "up"
    /\ \E temps, parts \in SUBSET Outputs :
           /\ temp' = [o \in Outputs |-> IF o \in temps THEN "none" ELSE temp[o]]
           /\ part' = [o \in Outputs |-> IF o \in parts THEN "none" ELSE part[o]]
    /\ UNCHANGED <<fate, proc, copy, out, final, at, removed, upsets>>

-----------------------------------------------------------------------------
Program == ProgramWrites \/ ProgramSucceeds \/ ProgramFails

Coroutine ==
    \/ Reap \/ RunEnds \/ BeforeStaging \/ CopyEnds \/ Settle \/ BeforeSwap
    \/ Replace \/ ReplaceRaises \/ Succeed \/ CleanUp \/ Return

Thread == ThreadStarts \/ OpenTemp \/ CreatePart \/ WritePart \/ FlushPart \/ CopyRaises

Next ==
    \/ Program \/ Coroutine \/ Thread
    \/ TimeOut \/ CallbackRaises \/ Cancel \/ Crash \/ Sweep

\* The coroutine and the thread go on; the program may hang, and job timeouts
\* may be off.
Spec == Init /\ [][Next]_vars /\ WF_vars(Coroutine) /\ WF_vars(Thread)

-----------------------------------------------------------------------------
(* What must hold.                                                         *)

\* A destination holds the old file or the whole new one, after a power cut
\* too: the swap only ever sees a .part that was flushed to the end.
FinalsWhole == \A o \in Outputs : final[o] \in {"old", "whole"}

\* A run that ends leaves no temp and no .part, no thread that could make one,
\* and no program running unless a callback raised while it ran: "Any failure
\* cleans up all temp paths" (run_staged_subprocess), and its cleanup "always
\* runs against a settled filesystem".
NothingLeft ==
    pc = "ended" =>
        /\ Settled
        /\ proc = "running" => fate = "raised"
        /\ \A o \in Outputs : temp[o] = "none" /\ part[o] = "none"

\* An aborted run ends, though the program may hang and the copy cannot be
\* interrupted (the CancelledError handlers).
CancelledEnds == fate = "cancelled" ~> pc \in {"ended", "down", "up"}

\* The run keeps the promise of OrderedSwap, for the destinations and for what
\* it reports to its caller.
Result == IF pc \in {"down", "up"} THEN "down"
          ELSE IF pc \in {"clean", "ended"} THEN fate ELSE "none"
Replaced == {o \in Outputs : final[o] # "old"}
Swap == INSTANCE OrderedSwap WITH replaced <- Replaced, result <- Result
KeepsItsPromise == Swap!Spec

\* What run_staged_subprocess says of every run that fails, however often it is
\* cancelled: "Any failure cleans up all temp paths" (subprocess_runner.py:302).
NoOrphan ==
    pc = "ended" /\ Settled => \A o \in Outputs : temp[o] = "none" /\ part[o] = "none"

\* What execute_ffmpeg_combined says of a run that is over: "all outputs land
\* together or none do" (ffmpeg.py:1063).
LandTogether ==
    pc \in {"ended", "up"} => Replaced = {} \/ Replaced = Outputs
=============================================================================
