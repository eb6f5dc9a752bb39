----------------------------- MODULE MCEventSystem -----------------------------
(***************************************************************************)
(* EventSystem for TLC.                                                    *)
(***************************************************************************)
EXTENDS EventSystem
=============================================================================
