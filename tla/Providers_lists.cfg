CONSTANTS
    ollama = ollama
    gateway = gateway
    huggingface = huggingface
    Missing = Missing
    Provider = {ollama, huggingface, gateway}
    BuiltIn = {ollama, huggingface}
    d1 = d1
    d2 = d2
    t4 = t4
    a100 = a100
    cpu16 = cpu16
    box = box
    other = other
    MachCommand = {d1, d2}
    Sku = {t4, a100, cpu16}
    Hint <- MCHint
    Elsewhere <- MCElsewhere
    MachineName = {box, other}
    ImportValues <- MCImportValues
    Workload <- MCWorkload
    Alias <- MCAlias
    Asked <- MCAsked
    Answers <- MCAnswers
    Unreadable = Unreadable
    NoMachJob = NoMachJob
    Unset = Unset
SPECIFICATION InventorySpec
SYMMETRY MCSymmetry
INVARIANT RemovedStaysRemoved
INVARIANT LiveStaysLive
INVARIANT RankFollowsLevel
