SPECIFICATION Spec
CONSTANTS
    p1 = p1
    p2 = p2
    i1 = i1
    i2 = i2
    weights = weights
    ollama = ollama
    local_file = local_file
    chat = chat
    first = first
    second = second
    spare = spare
    Proc = {p1}
    Name = {chat, first, second, spare}
    Id = {i1, i2, weights}
    Provider = {ollama, local_file}
    Source <- MCSource
    Alias <- MCAlias
    Local = local_file
    Overlap = FALSE
    Lives = TRUE
    Fails = TRUE
    MaxCommands = 2
    None = None
CHECK_DEADLOCK FALSE
INVARIANT CatalogInv
PROPERTY ReviewedSurvives
PROPERTY NothingIsLost
