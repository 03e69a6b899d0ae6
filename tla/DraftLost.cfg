SPECIFICATION Spec
CONSTANTS
    Thread = {a}
    Existing = {a}
    Prompt = {p}
    NoThread = NoThread
    NoPrompt = NoPrompt
    MaxStream = 1
    MaxTurn = 1
    MaxApp = 2
    Features = {"send", "detail"}
PROPERTIES
    DraftSurvivesAppEvents
