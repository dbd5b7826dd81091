SPECIFICATION ArtSpec
CONSTANTS
    small = small
    large = large
    None = None
    Alias = {small, large}
    Names <- MCNames
    Rows <- MCRows
    Provider = {"ollama", "vllm", "openai"}
    Runtime = {"ollama", "vllm"}
    Keyed = {"openai"}
    ApisOf <- MCApisOf
    OneModel = {"vllm"}
    Pulls <- MCPulls
    Defaults <- MCDefaults
    Asked <- MCAsked
    MaxEdits = 1
    DefaultRoles <- MCDefaultRoles
    Surroundings <- MCSurroundings
    Machine = {"box"}
    Fits <- MCFits
    Orchestrator = {"langgraph"}
    BundleModes <- MCBundleModes
    Grants <- MCGrants
    unreadable = unreadable
    Unreadable = unreadable
    Wanted <- MCWanted
    Task = {"review", "test"}
    Targets <- MCTargets
    MaxRenders = 2
CHECK_DEADLOCK FALSE
INVARIANT ExportsAreAllowed
INVARIANT CleanSetupFetches
INVARIANT PassedStackExports
INVARIANT HealthyExports
INVARIANT ValidExactlyWhenRendered
