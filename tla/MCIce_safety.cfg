SPECIFICATION FairSpec
CONSTANTS
  LocalAddr = {h1, m1}
  RemoteAddr = {r1, r2}
  Reachable = {r1}
  Loopback = h1
  Server = stun
  Senders = {r1, r2}
  MaxCandidates = 2
  RetryMs = 1
  MaxSpan = 1
  MaxClock = 3
INVARIANTS TypeOK PairsComplete SelectionSound CreditSoundIfDistinct
PROPERTIES NothingForgotten Connects
