SPECIFICATION MCSpec
CONSTANTS
    Focuses = {"verdict", "dictum"}
    p1 = p1  p2 = p2
    Thresholds <- MCThresholds
    Composites <- MCComposites
    Plugins <- MCPlugins
    PluginScores <- MCPluginScores
    MaxPolicies = 2
    NoTool = NoTool
    Faulted = Faulted
    Unloaded = Unloaded
    Leaves <- MCLeaves
    UnaryFns = {"len", "secret_ref", "f"}
    BinaryFns = {"contains"}
    Operators = {"==", "<", "and", "or"}
    Requests <- MCRequests
    MaxNodes = 5
    EvalSteps = 6
    JsonDepth = 3
    SecretKeys = {"key"}
    WasmInts = 4
INVARIANTS
    StricterWins
    NoUnexplainedRefusal
    ScoreInBand
    TypedProgramsSafe
    ParseInverts
    LoadedPathsResolve
