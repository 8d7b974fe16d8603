----------------------------- MODULE MCServices -----------------------------
(***************************************************************************)
(* Small instances of Services for TLC.                                    *)
(***************************************************************************)
EXTENDS Services

MCDemand == {<<"critical", TRUE>>, <<"plenty", FALSE>>}
=============================================================================
