SPECIFICATION Spec
CONSTANT Signatures <- AllSignatures
INVARIANT ServiceSurvives
CHECK_DEADLOCK FALSE
