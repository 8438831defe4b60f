SPECIFICATION ExportSpec
CONSTANTS
    None = None
    Broken = Broken
    x1 = x1
    x2 = x2
    e1 = e1
    e2 = e2
    Exporters = {x1, x2}
    Editors = {e1}
    MaxSpent = 3
    PoolSize = 1
    Silvers <- MCSilvers
    SilverStates <- MCSilverStates
    Configs <- MCConfigs
    Thresholds <- MCThresholds
    Defaults <- MCDefaults
    Late <- MCLate
    KumuConfigs <- MCKumuConfigs
    Log <- MCLog
    InverseRoot <- MCInverseRoot
SYMMETRY MCSymmetry
CHECK_DEADLOCK FALSE
INVARIANTS
    PromoteStands
    CurationHolds
    CreditsSurvive
    GraphIsTheGold
