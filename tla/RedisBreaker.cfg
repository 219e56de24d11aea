SPECIFICATION Spec
CONSTANTS
    g1 = g1
    g2 = g2
    Goroutines = {g1, g2}
    Checks <- DirectChecks
    Threshold = 2
    Cooldown = 2
INVARIANTS
    OneProbePerCooldown
PROPERTIES
    RecoversAfterOutage
