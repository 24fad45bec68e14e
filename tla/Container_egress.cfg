SPECIFICATION Spec
CONSTANTS
    Apps = {a1, a2}
    Versions = {v1, v2}
    Allocations <- MCAllocations
    Budgets <- MCBudgets
    FirstBudget <- MCFirstBudget
    IdeMemory = 1
    PortLimit = 4
    MaxFaults = 0
    Nothing = Nothing
SYMMETRY MCSymmetry
INVARIANTS
    ContainerRecreated
