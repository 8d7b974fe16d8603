---------------------------- MODULE MCFulfilment ----------------------------
(***************************************************************************)
(* Small instances of Fulfilment for TLC.                                  *)
(***************************************************************************)
EXTENDS Fulfilment, TLC
=============================================================================
