SPECIFICATION Spec
CONSTANTS
    Thread = {1, 2, 3}
    Server = {"main", "side"}
    Main = "main"
    Home <- MCHome
    Matching = {2}
    Silent = {1}
    Limit = 1
    FetchCap = 1
    PreviewCap = 1
    MaxDeeds <- MCDeeds
PROPERTIES PreviewIsLazy
CHECK_DEADLOCK FALSE
