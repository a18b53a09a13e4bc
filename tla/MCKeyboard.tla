----------------------------- MODULE MCKeyboard -----------------------------
(***************************************************************************)
(* The kernel's two tasks, a task queue of four entries and a scancode     *)
(* queue of two: both overflow.                                            *)
(***************************************************************************)
EXTENDS Keyboard

ASSUME TwoTasks == KernelTasks
=============================================================================
