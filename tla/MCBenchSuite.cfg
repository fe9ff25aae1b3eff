CONSTANTS
    Benchmarks <- TwoBenchmarks
    Configs <- ThreeConfigs
    Gating = {"global"}
    MaxVersion = 2
    MaxFaults = 2
    NoFile = NoFile
    Cut = Cut
SPECIFICATION Spec
INVARIANTS
    RowsMatchStageA
    GatedPerformance
    FinishedCsvMatchesFiles
    GatePassIsEarned
