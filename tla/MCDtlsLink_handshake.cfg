\* A caller and a callee over a network that loses, repeats and reorders.
SPECIFICATION FairSpec
CONSTANTS
  Endpoint = {caller, callee}
  Initiator = caller
  MayFail = TRUE
INVARIANTS TypeOK KeysMatch HandshakeOrdered
PROPERTIES ServerKeyed ClientKeyed
