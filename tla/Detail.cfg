SPECIFICATION Spec
CONSTANTS
    Thread = {a, b}
    Existing = {a, b}
    Prompt = {p}
    NoThread = NoThread
    NoPrompt = NoPrompt
    MaxStream = 1
    MaxTurn = 1
    MaxApp = 1
    Features = {"detail", "attach", "others", "interrupt", "steer"}
SYMMETRY ThreadSymmetry
INVARIANTS
    CommandsOnOwnTurn
    SessionInv
