--------------------------- MODULE MCMigrateConfig ---------------------------
(* Instances of MigrateConfig for TLC.                                      *)
EXTENDS MigrateConfig, TLC

CONSTANTS app, cli, devicesFile, settingsFile

TwoPrograms == {app, cli}
TwoFiles == {devicesFile, settingsFile}
ProgramSymmetry == Permutations({app, cli})
=============================================================================
