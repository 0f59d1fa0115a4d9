\* Four objects, two attributes; version 3 has only the first.
SPECIFICATION Spec
CONSTANTS
    NumObjects = 4
    InitialTree <- MCInitialTree
    m_version = 3
    Attributes = {31, 32}
INVARIANTS
    LinksAgree
PROPERTIES
    ImplementsContents
