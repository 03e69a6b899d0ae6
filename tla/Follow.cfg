SPECIFICATION FairSpec
CONSTANTS
    Thread = {a}
    Existing = {a}
    Prompt = {p}
    NoThread = NoThread
    NoPrompt = NoPrompt
    MaxStream = 2
    MaxTurn = 2
    MaxApp = 2
    Features = {"send", "attach", "codex"}
INVARIANTS
    WaitingIsBacked
    TerminalIsLast
PROPERTIES
    FollowingEnds
    SpawnedPromptSettles
    DetachedTaskEnds
