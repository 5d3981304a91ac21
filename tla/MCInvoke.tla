------------------------------ MODULE MCInvoke ------------------------------
(***************************************************************************)
(* Invoke for TLC.  Six activations let a jump hop over two setjmp          *)
(* activations that are not its target, or over one with plain calls on     *)
(* both sides of it; the stack has room for two levels lost to jumps.  The  *)
(* requests end inside a page, at the end of the last one that memory may   *)
(* have, behind it, and where the rounding wraps.                           *)
(***************************************************************************)
EXTENDS Invoke
=============================================================================
