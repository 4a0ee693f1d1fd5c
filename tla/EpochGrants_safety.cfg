CONSTANTS
  g1 = g1
  g2 = g2
  c1 = c1
  c2 = c2
  Handles <- TheHandles
  Scopes <- TheScopes
  Session <- TheSession
  Coordinates <- TheCoordinates
  Policies <- ThePolicies
  DigestOf <- TheDigest
  GrantedBy <- TheGranted
  DeferredBy <- DeferWrite
  Capabilities = {"read", "write"}
  Calls <- TwoCalls
  HandleOf <- TheOneHandle
  CapabilityOf <- WriteEach
  Streamed = {c2}
  Capacity = 2
  MaxChanges = 2
SPECIFICATION Spec
INVARIANTS CompletedChangesGovern RevocationBites
PROPERTIES EpochNeverBack CallsDecided
CHECK_DEADLOCK FALSE
