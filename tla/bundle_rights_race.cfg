SPECIFICATION FairSpec
CONSTANTS
    body1 = body1
    body2 = body2
    licence = licence
    Bodies = {body1, body2}
    Builds <- MCBuilds
    MaxBuilds = 2
    NoRights = NoRights
    None = None
    Disturbances <- Everything
INVARIANTS
    RightsCarriedOver
\* the commands end
CHECK_DEADLOCK FALSE
