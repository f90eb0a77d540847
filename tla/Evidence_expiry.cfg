SPECIFICATION Spec
CONSTANTS
    None = None
    Unusable = Unusable
    Malformed = Malformed
    Envelopes <- MCEnvelopes
    AttackerUsers = {"mallory"}
    SeededCredentials = {"stolen"}
    InventoryPods = {"p1", "p3"}
    ControllerOf <- MCControllerOf
    SecretVersions <- MCSecretVersions
    DefaultAudience = "api"
    ResolvedGaps = {"closed"}
    RequiredSources = {1, 2}
    OldestHeartbeat = 3
    MaxLines = 4
CHECK_DEADLOCK FALSE
INVARIANTS
    NeverExpiredEarly
