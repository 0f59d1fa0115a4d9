SPECIFICATION Spec
CONSTANTS
    Versions = {3, 5}
    Address <- MCAddress
    Locals <- MCLocals
    memory <- MCMemory
    m_globalVariables = 1
    Global = {16}
    Constant <- MCConstant
    StackValue <- MCStackValue
    LocalValue <- MCStackValue
    GlobalValues <- MCGlobalValues
    MaxArgs = 1
    MaxFrames = 3
    MaxStack = 2
    MaxRun = 2
    SavePoint <- MCSavePoint
    Story = "this"
    Snapshots <- MCSnapshots
    FirstFiles <- MCFirstFiles
INVARIANTS
    TypeOK
    FramesNested
    RoundTrip
PROPERTIES
    ImplementsRoutines
