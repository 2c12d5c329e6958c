SPECIFICATION MCSpec
CONSTANTS
    compile1 = compile1
    compile2 = compile2
    export = export
    Writers = {compile1, compile2, export}
    FileNames <- MCFileNames
    TempName = temp
    FilesOf <- MCFilesOf
    Faults <- AllFaults
INVARIANTS
    DestinationComplete
    NoResidue
PROPERTIES
    PublishedImmutable
    ImplementsPublication
    EveryCommandEnds
    RaceHasWinner
\* the commands end
CHECK_DEADLOCK FALSE
