CONSTANTS
    None = None
    Models <- MCModels
    Classes <- MCClasses
    Machines <- MCMachines
    Runtimes = {"vllm", "ollama", "lmstudio", "none"}
    RamSizes = {1600, 6400}
    FreeSizes = {400, 1600, 2400}
    Contexts = {2048, 32768}
    MaxDevices = 3
    c1 = c1
    c2 = c2
    Runner = {c1, c2}
    Measured = {"m"}
    Suite <- QualitySuite
    Brought <- MCBrought
    MaxFiles = 2
    MaxSecond = 2
    NoBench = NoBench
    Nil = Nil
SPECIFICATION MCSpec
SYMMETRY MCSymmetry
INVARIANT OwnAnswersJudged
INVARIANT ImportedWasExported
INVARIANT LeadersAreComparable
INVARIANT EligibleFits
INVARIANT RecommendedIsRoutable
