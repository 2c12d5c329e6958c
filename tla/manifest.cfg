SPECIFICATION MCSpec
CONSTANTS
    law1 = law1
    law2 = law2
    tree = tree
    rows = rows
    lawId = lawId
    empty = empty
    rowsFile = rowsFile
    rowsFile2 = rowsFile2
    lawIdFile = lawIdFile
    Sources = {law1, law2, tree}
    ReadBy <- MCReadBy
    LawOf <- MCLawOf
    NodeCount <- MCNodeCount
    Breaking = {}
    Mappings = {rows, lawId}
    Shape <- MCShape
    MappingFiles = {rowsFile, rowsFile2, lawIdFile}
    Parse <- MCParse
    Retrievals = {fetched}
    MaxEdits = 2
    Null = Null
    Absent = Absent
    Malformed = Malformed
    Foreign = Foreign
INVARIANTS
    TypeOK
    WrittenIsAccepted
    DigestsBindTheRest
    CorpusDeterminesBuild
    MappingFileIsOfTheRecipe
    RetrievalIsOfTheNodes
\* compilation and editing end
CHECK_DEADLOCK FALSE
