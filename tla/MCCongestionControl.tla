------------------------ MODULE MCCongestionControl ------------------------
(***************************************************************************)
(* A small instance of CongestionControl for TLC: rates are scaled down to *)
(* numbers of 16 bits, and packets to one or two bytes.                    *)
(***************************************************************************)
EXTENDS CongestionControl

\* A sensible configuration, one with its initial rate above the bounds, one
\* below, one whose maximum is so high that the sum wraps, and one that starts at its
\* minimum, without pacing.
MCConfigs ==
  {[min |-> 2000, max |-> 8000, initial |-> 4000, pacing |-> TRUE],
   [min |-> 2000, max |-> 4500, initial |-> 20000, pacing |-> TRUE],
   [min |-> 2000, max |-> 8000, initial |-> 0, pacing |-> TRUE],
   [min |-> 2000, max |-> 65000, initial |-> 64000, pacing |-> TRUE],
   [min |-> 2000, max |-> 8000, initial |-> 2000, pacing |-> FALSE]}
=============================================================================
