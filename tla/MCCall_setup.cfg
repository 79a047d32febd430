\* A caller and a callee that may be restarted once.
SPECIFICATION FairSpec
CHECK_DEADLOCK FALSE
CONSTANTS
  h1 = h1
  h2 = h2
  m1 = m1
  m2 = m2
  LocalAddr = {h1, h2, m1, m2}
  RemoteAddr = {h1, h2, m1, m2}
  MaxCandidates = 4
  RetryMs = 0
  Hosts <- MCHosts
  Mapped <- MCMapped
  MayBreak = TRUE
  MaxRestarts = 1
INVARIANTS TypeOK CandidatesKept
PROPERTIES CallEstablished CandidatesKnown
