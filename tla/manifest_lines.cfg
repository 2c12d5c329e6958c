SPECIFICATION Spec
CONSTANTS
    law1 = law1
    law2 = law2
    tree = tree
    rows = rows
    lawId = lawId
    empty = empty
    rowsFile = rowsFile
    rowsFile2 = rowsFile2
    lawIdFile = lawIdFile
    Sources = {law1, law2, tree}
    ReadBy <- MCReadBy
    LawOf <- MCLawOf
    NodeCount <- MCNodeCount
    Breaking = {law2}
    Mappings = {rows, lawId}
    Shape <- MCShape
    MappingFiles = {rowsFile, rowsFile2, lawIdFile}
    Parse <- MCParse
    Retrievals = {fetched}
    MaxEdits = 0
    Null = Null
    Absent = Absent
    Malformed = Malformed
    Foreign = Foreign
INVARIANTS
    WrittenIsAccepted
\* compilation ends
CHECK_DEADLOCK FALSE
