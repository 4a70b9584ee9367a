------------------------------ MODULE MCTaskTable ------------------------------
(***************************************************************************)
(* Model-checking instance of TaskTable: the idle task and two entries more,*)
(* so that tasks come and go on both sides of the walk; two calls, as a kill*)
(* may precede a walk.                                                      *)
(***************************************************************************)
EXTENDS TaskTable
=============================================================================
