SPECIFICATION Spec
CONSTANTS
  Groups = {{c1}, {c1, c2}}
  MaxCalls = 2
  MaxConns = 2
PROPERTIES ImplementsRpcCall LoneCallReturns
CHECK_DEADLOCK FALSE
