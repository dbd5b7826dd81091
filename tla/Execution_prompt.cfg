CONSTANTS
    m1 = m1
    m2 = m2
    ollama = ollama
    vllm = vllm
    openai = openai
    None = None
    Model = {m1, m2}
    Backend = {ollama, vllm, openai}
    Rows <- MCRows
    a1 = a1
    a2 = a2
    work = work
    token = token
    x = x
    y = y
    z = z
    Ref = {work}
    Var = {token}
    WellKnown = token
    Key = {k1}
    NoKey = NoKey
    Unset = Unset
    Alias <- MCAlias
    Settings <- MCSettings
    Models <- MCModels
    Listing <- MCListing
    Limit = {1, 2, 3, 4}
    PageSize = 2
    MaxChunks = 1
SPECIFICATION MCSpec
SYMMETRY MCSymmetry
INVARIANT OnlyAdmitted
INVARIANT AuditTruth
INVARIANT OnlyWhatWasAnswered
INVARIANT VerdictsAreOwn
