\* A turn whose phone left before the answer starts behind the back of the check
\* of a release.  Violated.
SPECIFICATION Spec
CONSTANTS
    server = server
    codex = codex
    editor = editor
    editorCodex = editorCodex
    terminalCodex = terminalCodex
    serverApp = serverApp
    editorApp = editorApp
    MaxThread = 2
    MaxTurn = 2
    MaxCursor = 2
    Limit = 1
    Paginated <- FirstPaginated
    Contested <- FirstContested
    Pid <- Processes
    Own = codex
    Self = server
    Codex <- Codexes
    Parent <- Parents
    Bundle <- Bundles
    NoPid = NoPid
    NoBundle = NoBundle
    Scenarios <- ThreeScenarios
PROPERTY
    NoTurnCutOff
