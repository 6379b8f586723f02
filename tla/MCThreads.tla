------------------------------ MODULE MCThreads ------------------------------
(* Instances of Threads for TLC: an editor with a codex of its own in its    *)
(* .app, a codex in a terminal, and this program, whose codex runs from the  *)
(* same .app as itself.                                                      *)
EXTENDS Threads, TLC

CONSTANTS server, codex, editor, editorCodex, terminalCodex, serverApp, editorApp

FirstPaginated == {1}
FirstContested == {1}
Processes == {server, codex, editor, editorCodex, terminalCodex}
Codexes == {codex, editorCodex, terminalCodex}
Parents == (codex :> server) @@ (editorCodex :> editor) @@ [p \in Processes |-> NoPid]
Bundles ==
    (codex :> serverApp) @@ (server :> serverApp)
    @@ (editor :> editorApp) @@ (editorCodex :> editorApp) @@ (terminalCodex :> NoBundle)

\* The phones read histories, and list and release threads; and one thread is taken
\* over while other programs run.
ThreeScenarios ==
    {[calls |-> {"turn", "resume", "read"}, threads |-> {1, 2}, programs |-> {}, turns |-> 2],
     [calls |-> {"turn", "resume", "held", "release"}, threads |-> {1, 2}, programs |-> {}, turns |-> 0],
     [calls |-> {"turn", "resume", "takeover"}, threads |-> {1}, turns |-> 0,
      programs |-> {editor, editorCodex, terminalCodex}]}
=============================================================================
