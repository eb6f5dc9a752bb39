---------------------------- MODULE MCSRConnection ----------------------------
(***************************************************************************)
(* SRConnection for TLC.                                                   *)
(***************************************************************************)
EXTENDS SRConnection

CONSTANTS InitA, InitB, UpA, UpB, ReactsA, ReactsB

MCInitSn == [e \in Ends |-> IF e = "a" THEN InitA ELSE InitB]
MCBoot   == [e \in Ends |-> IF e = "a" THEN UpA ELSE UpB]
MCReacts == [e \in Ends |-> IF e = "a" THEN ReactsA ELSE ReactsB]
=============================================================================
