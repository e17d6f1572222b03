SPECIFICATION Spec
CONSTANT Signatures <- AllSignatures
INVARIANTS ArgumentsArrive WritesInBounds StubFrees
PROPERTY CallReturns
CHECK_DEADLOCK FALSE
