\* Two threads, one of them paginated and also worked with by an editor and a
\* terminal; pages of one or two entries.
SPECIFICATION FairSpec
CONSTANTS
    server = server
    codex = codex
    editor = editor
    editorCodex = editorCodex
    terminalCodex = terminalCodex
    serverApp = serverApp
    editorApp = editorApp
    MaxThread = 2
    MaxTurn = 2
    MaxCursor = 2
    Limit = 1
    Paginated <- FirstPaginated
    Contested <- FirstContested
    Pid <- Processes
    Own = codex
    Self = server
    Codex <- Codexes
    Parent <- Parents
    Bundle <- Bundles
    NoPid = NoPid
    NoBundle = NoBundle
    Scenarios <- ThreeScenarios
INVARIANTS
    HistoryWhole
    SignalHitsOwner
PROPERTIES
    NoTurnInterrupted
    ThreadOpsEnd
