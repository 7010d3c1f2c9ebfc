SPECIFICATION Spec
CONSTANTS
  N = 2
  Sites <- MCSites
INVARIANTS
  PortLeadsHome
  
  SubmittedOnce
PROPERTIES
  
  ForgottenExpires
