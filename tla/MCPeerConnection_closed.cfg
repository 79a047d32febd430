\* A peer connection that is closed while its session can still connect.
SPECIFICATION Spec
CONSTANTS
  LocalAddr = {h1}
  HostAddr = h1
  RemoteAddr = {r1, r2}
  Senders = {r1}
  MaxCandidates = 2
  RetryMs = 0
  MaxSessions = 2
PROPERTY ClosedIsFinal
