\* Two volumes, so that one permission meets two requests.
SPECIFICATION FairSpec
CONSTANTS
    v1 = v1
    v2 = v2
    Volumes = {v1, v2}
    MaxGrants = 2
    MaxRules = 1
INVARIANTS
    TypeOK
    CallbacksHaveState
    PermissionsSpent
    LoadFailureUndone
    UnloadUndone
PROPERTY
    LoadAndUnloadComplete
