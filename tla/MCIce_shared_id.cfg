\* Two pings of one pass may share a millisecond, as in the code.
SPECIFICATION Spec
CONSTANTS
  LocalAddr = {h1, m1}
  RemoteAddr = {r1, r2}
  Reachable = {r1}
  Loopback = h1
  Server = stun
  Senders = {r1}
  MaxCandidates = 2
  RetryMs = 1
  MaxSpan = 1
  MaxClock = 4
INVARIANT CreditSound
