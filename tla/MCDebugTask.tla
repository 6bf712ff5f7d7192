---------------------------- MODULE MCDebugTask ----------------------------
(***************************************************************************)
(* Two task files.  f1 has two categories with a task whose script posts,  *)
(* one whose script never does, one whose script is missing and a name the *)
(* daemon does not know; f2 has one task.  f3 does not decode.             *)
(***************************************************************************)
EXTENDS DebugTask, TLC

CONSTANTS f1, f2, f3, post, quiet, absent, unknown

MCTasks == f1 :> {<<unknown, post>>, <<quiet, absent>>}
           @@ f2 :> {<<post>>}
           @@ f3 :> Garbage
=============================================================================
