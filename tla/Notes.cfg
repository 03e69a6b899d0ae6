SPECIFICATION FairSpec
CONSTANTS
    tui = tui
    cli = cli
    ui = ui
    deleter = deleter
    command = command
    Task = {ui, deleter, command}
    Process = {tui, cli}
    Pid <- OneTuiOneCommand
    Thread = {a, b}
    Text = {x}
    NoText = NoText
    NoCall = NoCall
    NoTask = NoTask
    NoFile = NoFile
    Torn = Torn
CHECK_DEADLOCK FALSE
INVARIANTS
    StoreInv
PROPERTIES
    LiveNotesKept
    AtomicMap
    CommandsEnd
