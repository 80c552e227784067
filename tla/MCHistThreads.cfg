CONSTANTS
    c1 = c1
    c2 = c2
    c3 = c3
    s1 = s1
    s2 = s2
    None = None
    Missing = Missing
    Clients <- MCClients
    Servers <- MCServers
    Request <- MCRequest
    Files <- MCFiles
    MaxMsg = 2
    Limit = 128

SPECIFICATION Spec

\* A client whose request nobody takes, or whose reply went to another, waits
\* for ever.
CHECK_DEADLOCK FALSE

INVARIANTS
    HistTypeOK
    OwnReply
    EachRequestOnce
    CountsExact

PROPERTY Answered
