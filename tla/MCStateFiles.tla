----------------------------- MODULE MCStateFiles -----------------------------
(***************************************************************************)
(* The files that outlive what wrote them: the session file, the workers'  *)
(* state file, and the plugins on disk with the runtimes built from them.  *)
(* SessionFile, WorkerBoot and RuntimeLifecycle share no state, so each    *)
(* takes its steps while the others are where they start.  Workers are not *)
(* compared but for equality, so permuting them is sound; prompts are not  *)
(* compared at all, so one is enough.                                      *)
(*                                                                         *)
(* There are one external and one bundled plugin, and two processes with a *)
(* REPL, of which the one called Repl is followed.  Of new versions,       *)
(* failures and crashes, one happens in a behaviour.                       *)
(***************************************************************************)
EXTENDS SessionFile, WorkerBoot, RuntimeLifecycle, TLC

CONSTANTS x, b, repl, other

MCExternal == {x}
MCBundled == {b}
MCProc == {repl, other}
Symmetry == Permutations(Worker)
MaxMishaps == 1

StateFilesInit == Init /\ WorkersInit /\ RuntimeInit
StateFilesSpec ==
    /\ StateFilesInit
    /\ [][ \/ WorkersInit /\ RuntimeInit /\ Next /\ UNCHANGED <<workerVars, runtimeVars>>
           \/ Init /\ RuntimeInit /\ WorkersNext /\ UNCHANGED <<vars, runtimeVars>>
           \/ Init /\ WorkersInit /\ RuntimeNext /\ faults' + news' <= MaxMishaps
              /\ UNCHANGED <<vars, workerVars>>
       ]_<<vars, workerVars, runtimeVars>>
=============================================================================
