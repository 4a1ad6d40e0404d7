---------------------------- MODULE MCTriggerInstall ----------------------------
(***************************************************************************)
(* A small instance of the trigger install for TLC.                         *)
(***************************************************************************)
EXTENDS TriggerInstallProps

T(i, d) == [id |-> i, day |-> d]

(* Nothing; a trigger twice and somebody else's; a set with a hole. *)
MCInitial == {{}, {T(1, 1), T(2, 1), T(3, 0)}, {T(2, 2), T(3, 0)}}

Nothing == {{}}
===============================================================================
