SPECIFICATION Spec
CONSTANTS
  Client = {c1, c2, c3}
  ClientId = {c1, c2, c3}
  IoThreads = 2
  MaxRequest = 2
  MaxLog = 3
  MaxIssued = 3
SYMMETRY Symmetry
CONSTRAINT FewRequests
INVARIANT AnsweredPutExecuted NoWriteSkipped ReadsFresh
CHECK_DEADLOCK FALSE
