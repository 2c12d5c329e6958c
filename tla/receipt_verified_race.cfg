SPECIFICATION MCSpec
CONSTANTS
    Lone = f1
    only = c1
    Fetchers = {f0, f1}
    Validators = {v1}
    Compilers = {c1}
    Past = {f0}
    Forced = {f1}
    WithReceipt = {v1}
    Bodies = {b1, b2}
    Admissible = {b1, b2}
    Adaptable = {b1, b2}
    Compilable = {b1, b2}
    None = None
    Faults <- NoFaults
INVARIANTS
    VerifiedReportAgrees
\* the commands end
CHECK_DEADLOCK FALSE
