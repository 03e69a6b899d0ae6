SPECIFICATION Spec
CONSTANTS
    Thread = {a, b}
    Existing = {a}
    Prompt = {p, q, r}
    NoThread = NoThread
    NoPrompt = NoPrompt
    MaxStream = 2
    MaxTurn = 2
    MaxApp = 2
    Features = {"session", "send"}
SYMMETRY PromptSymmetry
INVARIANTS
    PromptOnItsThread
