SPECIFICATION DiffSpec
CONSTANTS
    None = None
    Any = Any
    n = n
    ci = ci
    rel = rel
    db = db
    svc = svc
    web = web
    front = front
    old = old
    api = api
    vault = vault
    seed = seed
    legacy = legacy
    Roles <- MCRoles
    AdmissionPolicies <- OnlyRel
    ApiAudiences = {api}
    DefaultAudience = api
    TokenTTL = 3
    Inputs <- MCInputs
    Objectives <- MCObjectives
    LegitimateOperations <- MCLegitimateOperations
    MaxLive = 2
CHECK_DEADLOCK FALSE
INVARIANTS
    FixpointCovers
    FixpointAttained
