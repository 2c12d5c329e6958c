SPECIFICATION MCSpec
CONSTANTS
    Fetchers = {f0, f1, f2}
    Lone = f1
    Validators = {v1, v2}
    Compilers = {c1, c2}
    only = c1
    Past = {f0}
    Forced = {f2}
    WithReceipt = {f1, f2, v1, c1}
    Bodies = {b1, b2, b3, b4, b5}
    Admissible = {b1, b2, b4, b5}
    Adaptable = {b1, b2, b5}
    Compilable = {b1, b2}
    None = None
    Faults <- AllFaults
INVARIANTS
    CorpusProvenance
    QuietReportAgrees
    QuietReceiptBesideSnapshot
PROPERTIES
    ReportNeverReplaced
    SnapshotKept
    SavedSourceCompiles
\* the commands end
CHECK_DEADLOCK FALSE
