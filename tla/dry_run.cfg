SPECIFICATION Spec
CONSTANTS
    MaxTicks = 3
    Overlap = 2
    BaseFees = {1, 4}
    Tips = {1, 2}
    Cap = 9
    MaxBudget = 1
    DryRun = TRUE
PROPERTIES
    SimulationIsOfTheOperator
