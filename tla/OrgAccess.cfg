SPECIFICATION Spec
CONSTANTS
  Orgs = {o1, o2}
  Users = {op, u1, u2}
  Operators = {op}
  Founder = u1
  Handlers = {h1, h2}
  MaxKeys = 2
  MaxInvites = 1
  MaxRequests = 3
  Null = null
SYMMETRY Alike
CHECK_DEADLOCK FALSE
INVARIANTS
  
  BanCutsOff
PROPERTIES
  LastAdminStays
  
