SPECIFICATION Spec
CONSTANTS
    v1 = v1
    v2 = v2
    Volumes = {v1}
    MaxGrants = 1
    MaxRules = 1
INVARIANT
    FailedLoadEndsMonitor
