CONSTANTS
  Requests <- MCUnreducedRequests
  Ell = 7
  None = None

SPECIFICATION Spec
INVARIANT VerifyAccepts
