---------------------------- MODULE MCSignaling ----------------------------
(***************************************************************************)
(* Instances of Signaling for TLC.                                         *)
(***************************************************************************)
EXTENDS Signaling

\* A description that just fits and has pairs that could be taken for an
\* escape, and one of which a character does not fit and a later one
\* does.
MCTexts ==
  {<<"backslash", "quote", "n", "newline", "backslash", "n">>,
   <<"n", "quote", "newline", "quote", "backslash", "quote", "letter">>}
=============================================================================
