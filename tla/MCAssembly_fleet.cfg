SPECIFICATION Spec
CONSTANTS
    Fold <- MCFold
    Patterns <- MCPatterns
    Order <- MCOrder
    BareName <- MCBareName
    Split <- MCSplit
    CutRef <- MCCutRef
    Shape <- MCShape
    ProjectName <- MCProjectName
    Shorten <- MCShorten
    LabelKey <- MCLabelKey
    LabelValue <- MCLabelValue
    Root <- MCRoot
    ComposeNames <- MCComposeNames
    SidecarNames <- MCSidecarNames
    SecretKeys <- MCSecretKeys
    RedactUris = TRUE
    MaxLinks = 3
    MaxMergeDepth = 2
    MaxInterpDepth = 2
    MaxSidecarEntries = 2
    MaxSidecarAuth = 3
    MinTextChars = 2
    MaxStackLines = 1
    MaxNames = 1
    Worlds <- MCWorlds
    Edits <- MCEdits
    Scanned <- ScanRun
INVARIANTS
    EveryEdgeHasBothEnds
    IngressIsDrawn
    OriginIsUnambiguous
    DependencyIsOnItsLegs
    ExposureIsAccounted
    CorroborationIsCoherent
    ChangedMeansItsOwnFiles
    AttributionIsTrue
