------------------------- MODULE MCRedundancyChannel -------------------------
(***************************************************************************)
(* RedundancyChannel for TLC.                                              *)
(***************************************************************************)
EXTENDS RedundancyChannel

CONSTANT t1

(***************************************************************************)
(* A copy stays receivable after it was received, so one transport channel *)
(* has every order and repetition of receptions that several have.  Slots  *)
(* are fresh memory, which the kernel has zeroed.                          *)
(***************************************************************************)
MCTransports == {t1}
MCGarbage == {0}
=============================================================================
