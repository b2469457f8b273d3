----------------------------- MODULE OrderedSwap -----------------------------
(***************************************************************************)
(* What a staged run promises of the files it replaces, whatever it does   *)
(* to get there (the docstring of run_staged_subprocess, from "Staging is  *)
(* two-pass" on): one at a time, in the order of its outputs, each in one  *)
(* step; all of them when it succeeds, none when it refuses or is aborted. *)
(* Only an error of the replacing itself, or a crash, leaves some of them  *)
(* replaced; a crash may also bring old files back, as the directories are *)
(* not flushed.                                                            *)
(***************************************************************************)
EXTENDS Naturals

CONSTANT NumOutputs  \* the outputs of one run, the media file first

VARIABLES
    replaced,   \* the outputs whose destination is replaced
    result      \* how the run ended

vars == <<replaced, result>>

Outputs == 1 .. NumOutputs

Init == replaced = {} /\ result = "none"

ReplaceNext ==
    /\ result = "none"
    /\ \E o \in Outputs \ replaced :
           /\ \A p \in Outputs : p < o => p \in replaced
           /\ replaced' = replaced \cup {o}
    /\ UNCHANGED result

Complete ==
    /\ result = "none" /\ replaced = Outputs
    /\ result' = "done"
    /\ UNCHANGED replaced

Decline ==
    /\ result = "none" /\ replaced = {}
    /\ result' \in {"refused", "cancelled"}
    /\ UNCHANGED replaced

Raise ==
    /\ result = "none"
    /\ result' = "raised"
    /\ UNCHANGED replaced

Crash ==
    /\ result' = "down"
    /\ replaced' \in SUBSET replaced

Next == ReplaceNext \/ Complete \/ Decline \/ Raise \/ Crash

Spec == Init /\ [][Next]_vars

=============================================================================
