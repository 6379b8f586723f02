\* Codex keeps a history, or a list, going with one wrong cursor after the other.
\* Violated.
SPECIFICATION FairSpec
CONSTANTS
    server = server
    codex = codex
    editor = editor
    editorCodex = editorCodex
    terminalCodex = terminalCodex
    serverApp = serverApp
    editorApp = editorApp
    MaxThread = 2
    MaxTurn = 2
    MaxCursor = 2
    Limit = 1
    Paginated <- FirstPaginated
    Contested <- FirstContested
    Pid <- Processes
    Own = codex
    Self = server
    Codex <- Codexes
    Parent <- Parents
    Bundle <- Bundles
    NoPid = NoPid
    NoBundle = NoBundle
    Scenarios <- ThreeScenarios
PROPERTY
    ThreadOpsEndAnyway
