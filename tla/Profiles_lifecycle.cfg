SPECIFICATION Spec
CONSTANTS
    c1 = c1
    c2 = c2
    c3 = c3
    models = models
    tools = tools
    providers = providers
    n = n
    Name = {n}
    Command = {c1, c2, c3}
    Required = {models, tools}
    Optional = {providers}
    Drafted = {models}
    Absent = Absent
    Missing = Missing
SYMMETRY MCSymmetry
CHECK_DEADLOCK FALSE
INVARIANT ArchiveIsWhole
INVARIANT SettledIsWhole
PROPERTY RepairCompletes
