\* Two programs, two files, the two directories of earlier releases.
SPECIFICATION Spec
CONSTANTS
    app = app
    cli = cli
    devicesFile = devicesFile
    settingsFile = settingsFile
    Programs <- TwoPrograms
    Files <- TwoFiles
    LegacyDirs = 2
SYMMETRY ProgramSymmetry
INVARIANTS
    NothingLost
    InPlaceWhenUsed
