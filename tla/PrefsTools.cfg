\* Two shells, three programs and a client of a control preference.
SPECIFICATION Spec
CONSTANTS
    tty = tty
    pipe = pipe
    setter = setter
    getter = getter
    other = other
    client = client
    Shells <- MCShells
    Terminals <- MCTerminals
    Once <- MCOnce
    Does <- MCDoes
    Clients <- MCClients
    Tools <- MCTools
    Keys = {"a", "b"}
    Child = "b"
    Flag = "a"
    Missing = Missing
    Link = Link
    Managed = {"unset", "off"}
    Unread = Unread
    NoFile = NoFile
    Bang = "!"
    Main = "main"
    Files = {"main", "!"}
    MaxSteps = 6
CHECK_DEADLOCK FALSE
PROPERTIES
    NothingDropped
    LeftBehind
    NothingOverwritten
    AnswersTrue
