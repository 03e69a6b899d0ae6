SPECIFICATION Spec
CONSTANTS
    Thread = {a, b}
    Existing = {a}
    Prompt = {p, q}
    NoThread = NoThread
    NoPrompt = NoPrompt
    MaxStream = 2
    MaxTurn = 1
    MaxApp = 1
    Features = {"session", "send", "nowait", "steer", "move", "codex"}
SYMMETRY PromptSymmetry
INVARIANTS
    TypeOK
    StreamMatchesTask
    PromptOnce
