SPECIFICATION Spec
CONSTANT MaxHandlers = 3
INVARIANTS
    NoneMissing
PROPERTIES
    EndsTogether
    TokenEndsIt
CHECK_DEADLOCK FALSE
