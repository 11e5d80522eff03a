SPECIFICATION Spec
CONSTANTS
  ann = ann
  bob = bob
  twin = twin
  Users = {ann, bob, twin}
  OAuthUsers = {twin}
  Address <- AddressOf
  Handlers = {h1, h2}
  MaxKeys = 2
  MaxRequests = 3
  Null = null
SYMMETRY Alike
CHECK_DEADLOCK FALSE

  
PROPERTIES
  UnlockIsProven
  
