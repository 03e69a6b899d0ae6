SPECIFICATION Spec
CONSTANTS
    Thread = {a, b}
    Existing = {a}
    Prompt = {p, q}
    NoThread = NoThread
    NoPrompt = NoPrompt
    MaxStream = 2
    MaxTurn = 1
    MaxApp = 2
    Features = {"session", "send"}
PROPERTIES
    TerminalKeepsNewControl
