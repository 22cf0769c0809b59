---------------------------- MODULE MCJobControl ----------------------------
(* Small instances of JobControl for TLC.                                  *)
EXTENDS JobControl

(* Arguments of "wait n": pids of children only, or also the values that   *)
(* waitpid reads as any child (-1), as the group of the shell (0) and as   *)
(* a process group (-2).                                                   *)
ChildPids  == Pids
AnyWaitArg == {-2, -1, 0} \cup Pids
=============================================================================
