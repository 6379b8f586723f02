\* A take-over while the manager's own codex holds the lock of a thread it has
\* unloaded: its pid is what lsof finds.  Violated.
SPECIFICATION Spec
CONSTANTS
    server = server
    codex = codex
    editor = editor
    editorCodex = editorCodex
    terminalCodex = terminalCodex
    serverApp = serverApp
    editorApp = editorApp
    MaxThread = 2
    MaxTurn = 2
    MaxCursor = 2
    Limit = 1
    Paginated <- FirstPaginated
    Contested <- FirstContested
    Pid <- Processes
    Own = codex
    Self = server
    Codex <- Codexes
    Parent <- Parents
    Bundle <- Bundles
    NoPid = NoPid
    NoBundle = NoBundle
    Scenarios <- ThreeScenarios
INVARIANT
    OwnCodexSpared
