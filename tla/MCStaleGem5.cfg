CONSTANTS
    Benchmarks <- TwoBenchmarks
    Configs <- ThreeConfigs
    Gating = {"global"}
    MaxVersion = 2
    MaxFaults = 1
    NoFile = NoFile
    Cut = Cut
SPECIFICATION Spec
INVARIANT FailedStageBLeavesBlank
