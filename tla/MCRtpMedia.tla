----------------------------- MODULE MCRtpMedia -----------------------------
(***************************************************************************)
(* Small instances of RtpMedia for TLC.                                    *)
(***************************************************************************)
EXTENDS RtpMedia

\* Frames of one packet, of one fragmented NAL unit, of a small unit (a
\* parameter set, say) before a fragmented one, of a fragmented one before
\* another, and one that ends in a start code.
AllShapes == {<<1>>, <<2>>, <<1, 2>>, <<2, 1>>, <<1, 0>>}
=============================================================================
