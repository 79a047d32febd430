------------------------- MODULE CongestionControl -------------------------
(***************************************************************************)
(* The congestion control of src/src/cc/congestion_control.c: a target     *)
(* bitrate that is raised by feedback and halved by loss, a smoothed       *)
(* estimate of the bandwidth, and the pacing of packets.                   *)
(*                                                                         *)
(* Rates are unsigned numbers below Word (2^32).  What tinyrtc_cc_report_  *)
(* packet_sent counts is read by nothing and is left out, and so are the   *)
(* rounding errors of the doubles the code computes with.                  *)
(***************************************************************************)
EXTENDS Integers

CONSTANTS
  Configs,       \* configurations: [min, max, initial, pacing]
  Rtts,          \* round trip times in feedback, in milliseconds
  Losses,        \* values of fraction_lost in feedback, of 256
  Sizes,         \* sizes of packets, in bytes
  Word,          \* one more than the largest uint32_t
  AddIncrease,   \* TINYRTC_CC_ADD_INCREASE
  MaxReports,    \* bound: reports of feedback and congestion
  MaxClock       \* bound: last millisecond

ASSUME CongestionAssumption ==
  /\ Word \in Nat \ {0}
  /\ Configs \subseteq
       [min : 0..(Word - 1), max : 0..(Word - 1), initial : 0..(Word - 1), pacing : BOOLEAN]
  /\ Rtts \subseteq Nat
  /\ Losses \subseteq 0..255
  /\ Sizes \subseteq Nat
  /\ AddIncrease \in Nat
  /\ MaxReports \in Nat
  /\ MaxClock \in Nat

VARIABLES
  config,       \* cc->config
  target,       \* cc->target_bitrate_bps
  estimated,    \* cc->estimated_bandwidth_bps
  nextSend,     \* cc->pacing_next_send_time_ms, 0 before the first packet
  clock,        \* the caller's now_ms
  reports,      \* history: reports so far
  fedBack,      \* history: has there been feedback?
  peak,         \* history: the highest rate so far, at least 1
  started,      \* history: when the first packet was let through
  paced,        \* history: the sum of Bits of the packets that had to be paced
  lastPaced     \* history: Bits of the last of them

rate  == <<target, estimated, reports, fedBack, peak>>
pace  == <<nextSend, started, paced, lastPaced>>
ccVars  == <<config, rate, pace, clock>>

AtMost(x, bound)  == IF x > bound THEN bound ELSE x
AtLeast(x, bound) == IF x < bound THEN bound ELSE x

\* tinyrtc_cc_create takes the configuration as it is.
CcInit ==
  /\ config \in Configs
  /\ target = config.initial
  /\ estimated = config.initial
  /\ nextSend = 0
  /\ clock = 0
  /\ reports = 0
  /\ fedBack = FALSE
  /\ peak = AtLeast(config.initial, 1)
  /\ started = 0
  /\ paced = 0
  /\ lastPaced = 0

-----------------------------------------------------------------------------
(***************************************************************************)
(* The rate.                                                               *)
(***************************************************************************)

\* More than 2 % of 256.
Congested(lost) == 100 * lost > 2 * 256

\* Wrong variant (the new rate has no weight), for the sensitivity of CcTypeOK.
SmoothedUnweighted(new) == (85 * estimated) \div 100 + new

Smoothed(new) == (85 * estimated + 15 * new) \div 100

\* Wrong variant (the floor is forgotten), for the sensitivity of
\* EstimateInBounds.
HalvedFreely == target \div 2

\* report_congestion: not below the minimum.
Halved == AtLeast(target \div 2, config.min)

\* A longer round trip makes the increase smaller.
Increase(rtt) == IF rtt > 0 THEN (100 * AddIncrease) \div rtt ELSE AddIncrease

\* Wrong variant (the estimate is raised instead of the target), for the
\* sensitivity of ClearNeverLowers.
RaisedEstimate(rtt) == AtMost((estimated + Increase(rtt)) % Word, config.max)

\* The sum is one of 32 bits.
Raised(rtt) == AtMost((target + Increase(rtt)) % Word, config.max)

\* Wrong variant (no upper bound), for the sensitivity of TargetInBounds.
ClampedBelow(new) == AtLeast(new, config.min)

Clamped(new) == AtMost(AtLeast(new, config.min), config.max)

ReportFeedback(rtt, lost) ==
  LET new == IF Congested(lost) THEN Halved ELSE Raised(rtt)
  IN  /\ reports < MaxReports
      /\ reports' = reports + 1
      /\ estimated' = Smoothed(new)
      /\ target' = Clamped(new)
      /\ fedBack' = TRUE
      /\ peak' = AtLeast(peak, Clamped(new))
      /\ UNCHANGED <<config, pace, clock>>

ReportCongestion ==
  /\ reports < MaxReports
  /\ reports' = reports + 1
  /\ estimated' = Smoothed(Halved)
  /\ target' = Halved
  /\ peak' = AtLeast(peak, Halved)
  /\ UNCHANGED <<config, fedBack, pace, clock>>

-----------------------------------------------------------------------------
(***************************************************************************)
(* Pacing: tinyrtc_cc_can_send, when it returns TRUE and changes something *)
(* (without pacing it always returns TRUE, and too early always FALSE).    *)
(***************************************************************************)
Bits(size) == 8 * 1000 * size

Rate == AtLeast(target, 1)

\* Wrong variant (bytes for bits), for the sensitivity of PacedWithinTwice.
WaitForBytes(size) == (1000 * size) \div Rate

\* In whole milliseconds.
Wait(size) == Bits(size) \div Rate

FirstPacket ==
  /\ config.pacing
  /\ nextSend = 0
  /\ nextSend' = clock
  /\ started' = clock
  /\ UNCHANGED <<config, rate, paced, lastPaced, clock>>

NextPacket ==
  /\ config.pacing
  /\ nextSend # 0
  /\ clock >= nextSend
  /\ \E size \in Sizes :
       /\ nextSend' = clock + Wait(size)
       /\ IF Bits(size) >= Rate
          THEN paced' = paced + Bits(size) /\ lastPaced' = Bits(size)
          ELSE UNCHANGED <<paced, lastPaced>>
  /\ UNCHANGED <<config, rate, started, clock>>

Tick ==
  /\ clock < MaxClock
  /\ clock' = clock + 1
  /\ UNCHANGED <<config, rate, pace>>

CcNext ==
  \/ \E rtt \in Rtts, lost \in Losses : ReportFeedback(rtt, lost)
  \/ ReportCongestion
  \/ FirstPacket
  \/ NextPacket
  \/ Tick

CcSpec == CcInit /\ [][CcNext]_ccVars

-----------------------------------------------------------------------------
(***************************************************************************)
(* Properties.                                                             *)
(***************************************************************************)

\* Every variable has its type; rates are numbers of 32 bits.
CcTypeOK ==
  /\ config \in Configs
  /\ target \in 0..(Word - 1)
  /\ estimated \in 0..(Word - 1)
  /\ nextSend \in Nat /\ clock \in Nat /\ reports \in Nat
  /\ fedBack \in BOOLEAN
  /\ peak \in Nat \ {0} /\ started \in Nat /\ paced \in Nat /\ lastPaced \in Nat

\* From the first feedback on the target stays between the configured bounds,
\* wherever it started and however feedback and congestion alternate after it.
TargetInBounds ==
  fedBack /\ config.min <= config.max => config.min <= target /\ target <= config.max

\* No sum of target and increase leaves the 32 bits.
Roomy == \A rtt \in Rtts : config.max + Increase(rtt) < Word

\* A configuration that makes sense.
Sensible == config.min <= config.initial /\ config.initial <= config.max

\* The estimate, which no clamp protects, does not leave the bounds either,
\* unless the sum of target and increase wraps.
EstimateInBounds ==
  Roomy /\ Sensible => config.min <= estimated /\ estimated <= config.max

\* Feedback that reports no more than 2 % of loss never lowers the rate,
\* unless the sum wraps or the rate was above its bound.
ClearNeverLowers ==
  [][\A rtt \in Rtts, lost \in Losses :
       ReportFeedback(rtt, lost) /\ 50 * lost <= 256 /\ Roomy /\ target <= config.max
         => target' >= target]_ccVars

\* Whole milliseconds cost the pacing at most a factor of two: packets that
\* take a millisecond or more go out at no more than twice the highest rate,
\* one packet in advance, however the target changes in between.  (Smaller
\* packets are not held back at all.)
PacedWithinTwice == paced - lastPaced <= 2 * peak * (clock - started)
=============================================================================
