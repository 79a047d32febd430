\* The application calls the API and tinyrtc_process_events in one thread.
SPECIFICATION Spec
CONSTANTS
  LocalAddr = {h1, m1}
  HostAddr = h1
  RemoteAddr = {r1, r2}
  Senders = {r1}
  MaxCandidates = 2
  RetryMs = 0
  MaxSessions = 2
INVARIANTS TypeOK SessionSound ConnectedMeansIce HandshakeHasTransport RemoteSynced AnnouncedOnce
