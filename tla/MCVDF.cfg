CONSTANTS
  Requests <- MCRequests
  Ell = 7
  None = None

SPECIFICATION Spec
INVARIANT TypeOK
INVARIANT VerifyAccepts
PROPERTY ImplementsVDFSpec
