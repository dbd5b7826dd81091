SPECIFICATION MCSpec
CONSTANTS
    c1 = c1
    c2 = c2
    p1 = p1
    p2 = p2
    f1 = f1
    f2 = f2
    Command = {c1, c2}
    Pid = {p1, p2}
    Mode = {"ollama", "docker", "library", "gguf", "llamacpp", "localai", "transformers",
            "lmstudio", "runner"}
    None = None
    Hosts <- MCHosts
    Flows <- MCFlows
    AtFirst <- MCAtFirst
    Serving <- MCServing
    MaxMishaps = 1
    ConfigFile = {f1, f2}
    Asks <- MCAsks
    MaxChanges = 2
SYMMETRY MCSymmetry
CHECK_DEADLOCK FALSE
INVARIANT NoServerIsLost
INVARIANT AdviceConverges
INVARIANT QuickstartTellsTheTruth
PROPERTY CompletedIsPrepared
