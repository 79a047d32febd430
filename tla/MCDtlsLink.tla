----------------------------- MODULE MCDtlsLink -----------------------------
(***************************************************************************)
(* An instance of DtlsLink for TLC.                                        *)
(***************************************************************************)
EXTENDS DtlsLink
=============================================================================
