-------------------------------- MODULE Uploads --------------------------------
(***************************************************************************)
(* The files phones upload (internal/control/server.go: uploadHandler,     *)
(* saveUpload, userInput, Close, cleanupUploads; internal/control/         *)
(* websocket.go: turn).  An upload is an HTTP request that the server waits*)
(* for when it closes, for two seconds at most; its file is registered     *)
(* under uploadMu.  A turn comes over a websocket, which outlives the      *)
(* server it was accepted by, names files that were uploaded, and has codex*)
(* read them some time after the server checked them.                      *)
(***************************************************************************)
EXTENDS Naturals, FiniteSets

CONSTANTS
    Uploads,  \* the upload requests, and the files they create
    Turns     \* the turn requests

VARIABLES
    upload,   \* each upload: how far saveUpload is
    temp,     \* the temporary files on the disk
    uploads,  \* the server's map of uploads
    turn,     \* each turn: how far it is
    names,    \* the files a turn names that userInput has not looked up yet
    files,    \* the files a turn names
    httpServer,  \* the http.Server, and how far Close is
    cleaned,  \* history: the files that cleanupUploads has dropped
    late,     \* history: the uploads Close did not wait for
    undeleted \* history: the files that could not be removed

outcome == <<late, undeleted>>
uploadsVars == <<upload, temp, uploads, turn, names, files, httpServer, cleaned, outcome>>

Serving == {u \in Uploads : upload[u] \in {"received", "writing", "whole", "kept"}}

UploadsTypeOK ==
    /\ upload \in [Uploads -> {"idle", "received", "writing", "whole", "kept", "answered", "failed"}]
    /\ temp \subseteq Uploads /\ cleaned \subseteq Uploads
    /\ late \subseteq Uploads /\ undeleted \subseteq Uploads
    /\ uploads \subseteq temp  \* A registered file is on the disk.
    /\ turn \in [Turns -> {"idle", "checking", "sent", "read", "refused", "unread"}]
    /\ names \in [Turns -> SUBSET Uploads] /\ files \in [Turns -> SUBSET Uploads]
    /\ \A t \in Turns : names[t] \subseteq files[t]
    /\ httpServer \in {"open", "closing", "stopped", "closed"}

UploadsInit ==
    /\ upload = [u \in Uploads |-> "idle"] /\ temp = {} /\ uploads = {}
    /\ cleaned = {} /\ late = {} /\ undeleted = {}
    /\ turn = [t \in Turns |-> "idle"]
    /\ names = [t \in Turns |-> {}] /\ files = [t \in Turns |-> {}]
    /\ httpServer = "open"

-----------------------------------------------------------------------------
(* Plausible bugs: each stands in for the operator named in its comment when a *)
(* property's sensitivity is checked, and is used nowhere else.                *)

\* Answer that does not wait for the upload to be registered.
AnswerEarly(u) ==
    /\ upload[u] = "whole"
    /\ upload' = [upload EXCEPT ![u] = "answered"]
    /\ UNCHANGED <<temp, uploads, turn, names, files, httpServer, cleaned, outcome>>

\* SaveFails that leaves the temporary file.
SaveFailsKeepsFile(u) ==
    /\ upload[u] = "writing"
    /\ upload' = [upload EXCEPT ![u] = "failed"]
    /\ UNCHANGED <<temp, uploads, turn, names, files, httpServer, cleaned, outcome>>

-----------------------------------------------------------------------------
(* uploadHandler and saveUpload *)

\* Once its request is received, an upload goes on even while the server closes.
Receive(u) ==
    /\ upload[u] = "idle" /\ httpServer = "open"
    /\ upload' = [upload EXCEPT ![u] = "received"]
    /\ UNCHANGED <<temp, uploads, turn, names, files, httpServer, cleaned, outcome>>

\* The device is unknown, the name is empty, or no file can be created.
Refuse(u) ==
    /\ upload[u] = "received"
    /\ upload' = [upload EXCEPT ![u] = "failed"]
    /\ UNCHANGED <<temp, uploads, turn, names, files, httpServer, cleaned, outcome>>

CreateTemp(u) ==
    /\ upload[u] = "received"
    /\ upload' = [upload EXCEPT ![u] = "writing"]
    /\ temp' = temp \cup {u}
    /\ UNCHANGED <<uploads, turn, names, files, httpServer, cleaned, outcome>>

\* os.Remove of some files, whose error is ignored.
Remove(gone) ==
    \E kept \in SUBSET gone :
        /\ temp' = temp \ (gone \ kept)
        /\ undeleted' = undeleted \cup kept

\* The body ends or breaks off, is empty or too long, or the disk is full.
SaveFails(u) ==
    /\ upload[u] = "writing"
    /\ upload' = [upload EXCEPT ![u] = "failed"]
    /\ Remove({u})
    /\ UNCHANGED <<uploads, turn, names, files, httpServer, cleaned, late>>

SaveUpload(u) ==
    /\ upload[u] = "writing"
    /\ upload' = [upload EXCEPT ![u] = "whole"]
    /\ UNCHANGED <<temp, uploads, turn, names, files, httpServer, cleaned, outcome>>

Register(u) ==
    /\ upload[u] = "whole"
    /\ upload' = [upload EXCEPT ![u] = "kept"]
    /\ uploads' = uploads \cup {u}
    /\ UNCHANGED <<temp, turn, names, files, httpServer, cleaned, outcome>>

Answer(u) ==
    /\ upload[u] = "kept"
    /\ upload' = [upload EXCEPT ![u] = "answered"]
    /\ UNCHANGED <<temp, uploads, turn, names, files, httpServer, cleaned, outcome>>

-----------------------------------------------------------------------------
(* turn and userInput *)

\* A phone names files whose upload was answered.
SendTurn(t) ==
    /\ turn[t] = "idle"
    /\ \E sent \in (SUBSET {u \in Uploads : upload[u] = "answered"}) \ {{}} :
          /\ files' = [files EXCEPT ![t] = sent]
          /\ names' = [names EXCEPT ![t] = sent]
    /\ turn' = [turn EXCEPT ![t] = "checking"]
    /\ UNCHANGED <<upload, temp, uploads, httpServer, cleaned, outcome>>

\* One file of the message is looked up at a time.
LookUp(t) ==
    /\ turn[t] = "checking"
    /\ \E u \in names[t] :
          IF u \in uploads
          THEN names' = [names EXCEPT ![t] = @ \ {u}] /\ UNCHANGED turn
          ELSE turn' = [turn EXCEPT ![t] = "refused"] /\ UNCHANGED names
    /\ UNCHANGED <<upload, temp, uploads, files, httpServer, cleaned, outcome>>

\* (A turn that is malformed otherwise is answered with an error and is not
\* modelled.)
CallCodex(t) ==
    /\ turn[t] = "checking" /\ names[t] = {}
    /\ turn' = [turn EXCEPT ![t] = "sent"]
    /\ UNCHANGED <<upload, temp, uploads, names, files, httpServer, cleaned, outcome>>

\* External: codex opens the files.
CodexReads(t) ==
    /\ turn[t] = "sent"
    /\ turn' = [turn EXCEPT ![t] = IF files[t] \subseteq temp THEN "read" ELSE "unread"]
    /\ UNCHANGED <<upload, temp, uploads, names, files, httpServer, cleaned, outcome>>

-----------------------------------------------------------------------------
(* Close *)

Close ==
    /\ httpServer = "open"
    /\ httpServer' = "closing"
    /\ UNCHANGED <<upload, temp, uploads, turn, names, files, cleaned, outcome>>

\* http.Server.Shutdown: the requests being served end, or two seconds pass.
Drained ==
    /\ httpServer = "closing"
    /\ late' = Serving
    /\ httpServer' = "stopped"
    /\ UNCHANGED <<upload, temp, uploads, turn, names, files, cleaned, undeleted>>

CleanupUploads ==
    /\ httpServer = "stopped"
    /\ httpServer' = "closed"
    /\ Remove(uploads) /\ cleaned' = cleaned \cup uploads
    /\ uploads' = {}
    /\ UNCHANGED <<upload, turn, names, files, late>>

-----------------------------------------------------------------------------
UploadStep(u) ==
    \/ Receive(u) \/ Refuse(u) \/ CreateTemp(u)
    \/ SaveFails(u) \/ SaveUpload(u) \/ Register(u) \/ Answer(u)
TurnStep(t) == SendTurn(t) \/ LookUp(t) \/ CallCodex(t) \/ CodexReads(t)

UploadsNext ==
    \/ \E u \in Uploads : UploadStep(u)
    \/ \E t \in Turns : TurnStep(t)
    \/ Close \/ Drained \/ CleanupUploads

UploadsSpec == UploadsInit /\ [][UploadsNext]_uploadsVars

-----------------------------------------------------------------------------
(* Properties *)

\* A closed server leaves no temporary file behind, whatever became of the uploads
\* it was serving, except those of uploads that took longer than the two seconds and
\* those the system would not remove.
NoLeftovers == httpServer = "closed" => temp \subseteq late \cup undeleted

\* A phone that was told where its file is can use it: a turn is turned away, or
\* codex finds a file of it gone, only when the clean-up of a closing server
\* dropped that file; an upload is never lost between its answer and its
\* registration, and no file of another upload is removed.
LostOnlyToCleanup ==
    \A t \in Turns : turn[t] \in {"refused", "unread"} => files[t] \cap cleaned # {}

=============================================================================
