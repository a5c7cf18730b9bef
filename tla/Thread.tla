------------------------------- MODULE Thread -------------------------------
(***************************************************************************)
(* The threads of the system (struct thread), named once for the modules   *)
(* about semaphores and about scheduling, which are composed in Clock.     *)
(***************************************************************************)
EXTENDS FiniteSets

CONSTANT Threads

ASSUME ThreadAssumption == IsFiniteSet(Threads)

=============================================================================
