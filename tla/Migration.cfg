CONSTANTS
    r1 = r1
    r2 = r2
    NoWork = NoWork
    Runners = {r1, r2}
    Starts <- Upgrades

SPECIFICATION Spec
CHECK_DEADLOCK FALSE
INVARIANT TablesMatchVersion
PROPERTY MigrationCompletes
