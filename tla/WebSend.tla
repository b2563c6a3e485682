------------------------------ MODULE WebSend ------------------------------
(***************************************************************************)
(* The send panel of the web client (client/web/src/app.ts): handleSend    *)
(* with its attempts, the credential display, the progress bar, the share  *)
(* link, and the change of registry that may happen while an upload runs.  *)
(*                                                                         *)
(* The preparation and the upload themselves are UploadPrepare and         *)
(* StripeUpload; here they end in one of the ways those end.               *)
(***************************************************************************)
EXTENDS Integers, WebPage

CONSTANTS
    File,                \* files the user may select
    Streamed,            \* those above V21_WHOLE_FILE_THRESHOLD_BYTES
    Shareable,           \* registries whose URL buildReceiveUrl accepts
    MaxAttempts,         \* DEFAULT_MAX_RESERVATION_ATTEMPTS
    Steps                \* bound: values of the preparation's progress

\* What the last upload sent: a credential, to a registry, the bytes of a file
\* under the name of a file.
SentUploads == [cred : Credential, registry : Registry, name : File, bytes : File]

ASSUME WebSendAssumption ==
    /\ Shareable \subseteq Registry
    /\ MaxAttempts \in Nat \ {0}
    /\ Steps \in Nat
    /\ None \notin File \cup SentUploads

VARIABLES
    file,       \* selectedFile
    snd,        \* the running handleSend, and what it captured
    shown,      \* the credential display and its copy button
    ratio,      \* sendPrepareProgressRatio, and what the bar shows of it
    share,      \* sendShareState
    stamp,      \* the mark of a finished upload
    sent        \* history: the last upload that finished

sendVars == <<file, snd, shown, ratio, share, stamp, sent>>

-----------------------------------------------------------------------------
Sending == snd.pc # "idle"

Idle == [pc |-> "idle", attempt |-> 0, cred |-> None, client |-> None,
         bytes |-> None, name |-> None, refused |-> FALSE, moved |-> FALSE]

\* CredentialSlotDisplay: its credential, its interval timer, and whether the
\* copy button is enabled
Blank == [value |-> None, reel |-> FALSE, copy |-> FALSE]

\* startReelSpinning: the credential stays
Spin(d) == [d EXCEPT !.reel = TRUE]

\* revealSequential, up to its first pause: getValue is the new credential
RevealStart(d, c) == [d EXCEPT !.value = c]

\* ... and after the last, and the copy button
RevealEnd(d, c) == [value |-> c, reel |-> FALSE, copy |-> TRUE]

\* resetSendPanel
ResetPanel ==
    /\ shown' = Blank
    /\ ratio' = 0
    /\ share' = None
    /\ stamp' = FALSE

\* MUTATION of MayChooseFile: the file may change under a running upload.
MayChooseFileAnyTime == TRUE

MayChooseFile == ~Sending

\* The change event of the file input; the choice may be empty.
ChooseFile(f) ==
    /\ screen = "app"
    /\ MayChooseFile
    /\ file' = f
    /\ ResetPanel
    /\ UNCHANGED <<snd, sent, pageVars>>

\* handleSend, up to the end of the file's import: the client is captured, and
\* the bytes of a file that is not streamed
Send ==
    /\ screen = "app"
    /\ ~Sending /\ file # None
    /\ ResetPanel
    /\ snd' = [Idle EXCEPT !.pc = "import", !.client = runtime,
                           !.bytes = IF file \in Streamed THEN None ELSE file]
    /\ UNCHANGED <<file, sent, pageVars>>

\* enterReelWhenReady, and the start of the first attempt
Imported(c) ==
    /\ snd.pc = "import"
    /\ shown' = Spin(shown)
    /\ snd' = [snd EXCEPT !.pc = "prepare", !.attempt = 1, !.cred = c]
    /\ UNCHANGED <<file, ratio, share, stamp, sent, pageVars>>

\* setSendUploadStatus while a streamed file is prepared: n of Steps were fed by
\* this worker, or by the next one after a fallback
Fed(n) ==
    /\ snd.pc = "prepare" /\ file \in Streamed
    /\ ratio' = IF n > ratio THEN n ELSE ratio
    /\ UNCHANGED <<file, snd, shown, share, stamp, sent, pageVars>>

\* prepareUpload or prepareUploadStreamingWithHashes has returned: a streamed
\* file was read from selectedFile now, and so is the name.  (A small file is
\* prepared in the task that starts the attempt; here others may come between.)
Prepared ==
    /\ snd.pc = "prepare"
    /\ snd' = [snd EXCEPT !.pc = "reveal", !.name = file,
                          !.bytes = IF file \in Streamed THEN file ELSE @]
    /\ shown' = RevealStart(shown, snd.cred)
    /\ UNCHANGED <<file, ratio, share, stamp, sent, pageVars>>

Revealed ==
    /\ snd.pc = "reveal"
    /\ shown' = RevealEnd(shown, snd.cred)
    /\ snd' = [snd EXCEPT !.pc = "upload"]
    /\ UNCHANGED <<file, ratio, share, stamp, sent, pageVars>>

\* setSendUploadStatus with the phase 'uploading': the blocks are reserved
Uploading ==
    /\ snd.pc = "upload"
    /\ ratio' = 0
    /\ snd' = [snd EXCEPT !.pc = "put"]
    /\ UNCHANGED <<file, shown, share, stamp, sent, pageVars>>

\* showSendShare: the link names the registry of the runtime of now
ShareLink == [cred |-> snd.cred, registry |-> runtime, moved |-> snd.moved]

\* ... if buildReceiveUrl accepts its URL
Shared == IF runtime \in Shareable THEN ShareLink ELSE None

\* uploadPrepared has returned
Uploaded ==
    /\ snd.pc = "put"
    /\ ratio' = 0
    /\ share' = Shared
    /\ stamp' = TRUE
    /\ sent' = [cred |-> snd.cred, registry |-> snd.client,
                name |-> snd.name, bytes |-> snd.bytes]
    /\ snd' = [Idle EXCEPT !.refused = snd.refused]
    /\ UNCHANGED <<file, shown, pageVars>>

\* MUTATION of AfterFailure: the display is left as it is.
AfterFailureAsItIs(d) == d

\* What the catch clause of handleSend leaves in the display
AfterFailure(d) == IF d.value = None THEN Blank ELSE d

\* handleSend throws: anything but an occupied token, or the last attempt
GiveUp(d, refused) ==
    /\ ratio' = 0
    /\ shown' = AfterFailure(d)
    /\ snd' = [Idle EXCEPT !.refused = refused]

SendFails ==
    /\ Sending
    /\ snd.pc # "reveal"
    /\ GiveUp(shown, snd.refused)
    /\ UNCHANGED <<file, share, stamp, sent, pageVars>>

\* MUTATION of MayTryAgain: one attempt more.
MayTryAgainOnceMore(n) == n <= MaxAttempts

MayTryAgain(n) == n < MaxAttempts

\* MUTATION of NextAttempt: attempts are not counted.
NextAttemptUncounted(n) == n

NextAttempt(n) == n + 1

\* RegistryTokenOccupiedError, thrown before anything is uploaded: the next
\* attempt has another credential
Occupied(c) ==
    /\ snd.pc = "upload"
    /\ IF MayTryAgain(snd.attempt)
         THEN /\ shown' = Spin(shown)
              /\ snd' = [snd EXCEPT !.pc = "prepare", !.cred = c, !.refused = TRUE,
                                    !.attempt = NextAttempt(@)]
              /\ UNCHANGED ratio
         ELSE GiveUp(Spin(shown), TRUE)
    /\ UNCHANGED <<file, share, stamp, sent, pageVars>>

\* handleSaveSettings, when reloadRuntime has returned: the link made for the
\* registry that is left goes away
Reloaded ==
    /\ RuntimeReady("reload")
    /\ share' = None
    /\ snd' = [snd EXCEPT !.moved = Sending]
    /\ UNCHANGED <<file, shown, ratio, stamp, sent>>

SendInit ==
    /\ file = None
    /\ snd = Idle
    /\ shown = Blank
    /\ ratio = 0
    /\ share = None
    /\ stamp = FALSE
    /\ sent = None

\* Steps the browser takes for a running handleSend
SendStep ==
    \/ \E c \in Credential : Imported(c) \/ Occupied(c)
    \/ Prepared \/ Revealed \/ Uploading \/ Uploaded \/ SendFails

SendNext ==
    \/ \E f \in File \cup {None} : ChooseFile(f)
    \/ Send
    \/ SendStep
    \/ \E n \in 0 .. Steps : Fed(n)

Connect ==
    \/ Reloaded
    \/ /\ ResetSettings \/ ReloadFails \/ \E r \in Registry : SaveSettings(r)
       /\ UNCHANGED sendVars

-----------------------------------------------------------------------------
(* Properties.                                                             *)

\* The panel's globals and the locals of handleSend have their types.
SendTypeOK ==
    /\ file \in File \cup {None}
    /\ snd \in [pc : {"idle", "import", "prepare", "reveal", "upload", "put"},
                attempt : 0 .. MaxAttempts, cred : Credential \cup {None},
                client : Registry \cup {None}, bytes : File \cup {None},
                name : File \cup {None}, refused : BOOLEAN, moved : BOOLEAN]
    /\ shown \in [value : Credential \cup {None}, reel : BOOLEAN, copy : BOOLEAN]
    /\ ratio \in 0 .. Steps
    /\ share = None \/ share \in [cred : Credential, registry : Registry,
                                   moved : BOOLEAN]
    /\ stamp \in BOOLEAN
    /\ sent = None \/ sent \in SentUploads

\* What the panel presents as uploaded was: the stamp is on the selected file
\* only after its own bytes were sent under its own name, with the credential that
\* is shown at rest and can be copied; a link carries that credential and names
\* the registry of the current connection, which is the one that has the file
\* unless the user connected to another while the upload ran.  A page opened by the
\* link downloads with that credential.
WhatIsShownWasUploaded ==
    /\ stamp => /\ sent # None
                /\ sent.bytes = file /\ sent.name = file
                /\ shown = [value |-> sent.cred, reel |-> FALSE, copy |-> TRUE]
    /\ share # None => /\ sent # None
                       /\ share.cred = sent.cred
                       /\ share.registry = runtime
                       /\ ~share.moved => share.registry = sent.registry
                       /\ ParseIntent(HashOf(share.cred)) =
                              [kind |-> "valid", cred |-> sent.cred, auto |-> TRUE]

\* Without a running handleSend the characters stand still, except after an
\* attempt that met occupied tokens: the catch clause then keeps the display as
\* startReelSpinning left it.
ReelRests == ~Sending /\ shown.reel => snd.refused /\ shown.value # None
=============================================================================
