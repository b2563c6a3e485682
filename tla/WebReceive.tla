----------------------------- MODULE WebReceive -----------------------------
(***************************************************************************)
(* The receive panel of the web client (client/web/src/app.ts) and the     *)
(* progress of a download: what downloadAdaptive reports itself, what it   *)
(* makes of the activity of the transport, which keeps going for tokens    *)
(* nobody waits for any more, and what the panel paints of both.           *)
(*                                                                         *)
(* The download itself is ReceiveDownload; here it gets its blocks or      *)
(* fails, and the activity comes in any order.                             *)
(***************************************************************************)
EXTENDS Integers, WebPage

CONSTANTS
    NumTokens,           \* [Credential -> Nat]: blocks of the file
    Hashes               \* bound: the hashes with which the page may be opened

ASSUME WebReceiveAssumption ==
    /\ NumTokens \in [Credential -> Nat \ {0}]
    /\ NoHash \in Hashes

VARIABLES
    input,      \* the credential in the input, None when it is not complete
    rcv,        \* the running download, and its DownloadActivityContext
    listener,   \* whether the transport has an activity listener
    bar,        \* what the panel remembers of the progress, and paints
    received,   \* receivedFile
    hash        \* the hash of the page, removed when it is consumed

receiveVars == <<input, rcv, listener, bar, received, hash>>

-----------------------------------------------------------------------------
Higher(m, n) == IF m >= n THEN m ELSE n
Lower(m, n) == IF m <= n THEN m ELSE n

Receiving == rcv.pc # "idle"

\* Bytes are counted in blocks.
NoContext == [pc |-> "idle", cred |-> None, parsed |-> FALSE, completed |-> 0,
              prefetched |-> 0, transferred |-> 0, edited |-> FALSE]

Rank == [resolving_initial |-> 10, awaiting_metadata_block |-> 20,
         waiting_metadata_block |-> 25, parsing_metadata |-> 30,
         resolving_window |-> 35, downloading |-> 40, decrypting |-> 50]

\* rank: receiveDownloadStatusRank; blocks and bytes: the block progress, which
\* locks the bar when there is any; prefetch: the bytes of the first window;
\* text: the phase the panel names
Quiet == [rank |-> 0, locked |-> FALSE, blocks |-> 0, bytes |-> 0,
          prefetch |-> None, text |-> "hidden"]

-----------------------------------------------------------------------------
(* setReceiveDownloadProgress.                                             *)

\* The bytes of the first window only grow, also when the phase is past.
Counted(b, s) ==
    IF s.phase = "awaiting_metadata_block"
      THEN [b EXCEPT !.prefetch = IF @ = None THEN s.bytes ELSE Higher(@, s.bytes)]
      ELSE b

\* A status of a phase before the one that is shown
Older(b, s) == Rank[s.phase] < b.rank

\* rememberReceiveDownloadBlockProgress
Remember(b, s) ==
    IF s.phase = "downloading"
      THEN [b EXCEPT !.prefetch = None, !.locked = TRUE,
                     !.blocks = s.completed, !.bytes = s.bytes]
      ELSE b

\* The bar after status s.  Steering the window must not cover the blocks.
Painted(b, s) ==
    IF s.phase = "resolving_window"
      THEN IF b.locked THEN b
           ELSE [b EXCEPT !.rank = Higher(@, Rank[s.phase]), !.text = s.phase]
    ELSE IF Older(b, s) THEN Counted(b, s)
    ELSE [Remember(Counted(b, s), s) EXCEPT !.rank = Rank[s.phase],
                                            !.text = s.phase]

-----------------------------------------------------------------------------
(* reportStatus of downloadAdaptive, and its activity listener.            *)

Phase(p, completed, bytes) == [phase |-> p, completed |-> completed, bytes |-> bytes]

\* The context after reportStatus(s): the high-water marks, and the blocks
Marked(r, s) ==
    IF s.phase = "awaiting_metadata_block"
      THEN [r EXCEPT !.prefetched = Higher(@, s.bytes)]
    ELSE IF s.phase = "downloading"
      THEN [r EXCEPT !.completed = s.completed,
                     !.transferred = Higher(@, s.bytes)]
    ELSE r

\* What onStatus is told of s: the marks, not the counts of the moment
Reported(r, s) ==
    CASE s.phase = "awaiting_metadata_block" ->
            [s EXCEPT !.bytes = Higher(r.prefetched, @)]
      [] s.phase = "downloading" ->
            [s EXCEPT !.bytes = Lower(NumTokens[r.cred], Higher(r.transferred, @))]
      [] OTHER -> s

\* reportStatus(s), with onStatus = setReceiveDownloadProgress: on <<rcv, bar>>
Report(rb, s) == << Marked(rb[1], s), Painted(rb[2], Reported(rb[1], s)) >>

\* downloadTransferBytes: what was taken, and n blocks of bytes not consumed
Bytes(r, completed, n) == Lower(NumTokens[r.cred], completed + n)

\* downloadingStatus
Downloading(r, completed, n) ==
    Phase("downloading", completed, Bytes(r, completed, n))

\* mapTransportActivityToStatus
Mapped(r, kind, n) ==
    CASE kind = "resolving" /\ r.parsed /\ r.completed = 0 ->
            {Phase("resolving_window", 0, 0)}
      [] kind \in {"started", "bytes"} /\ ~r.parsed ->
            {Phase("awaiting_metadata_block", 0, n)}
      [] kind \in {"started", "bytes"} /\ r.parsed ->
            {Downloading(r, r.completed, n)}
      [] kind = "waiting" -> {Phase("waiting_metadata_block", 0, 0)}
      [] OTHER -> {}

\* What the transport emits: a lookup or a GET starts, bytes arrive or are given up,
\* the registry or the relays do not have block 0 yet.
Kinds == {"resolving", "started", "bytes", "waiting"}

Become(rb) == rcv' = rb[1] /\ bar' = rb[2]

\* The transport emits an activity while n bytes are there and not consumed.  What
\* an earlier download left behind emits and counts too.
Activity(kind, n) ==
    /\ listener
    /\ \E s \in Mapped(rcv, kind, n) : Become(Report(<<rcv, bar>>, s))
    /\ UNCHANGED <<input, listener, received, hash>>

-----------------------------------------------------------------------------
(* handleReceiveDownload and downloadAdaptive.                             *)

\* updateReceiveDownloadButton: the button is enabled
MayDownload == ~Receiving /\ received = None /\ input # None

\* Up to the first await: the listener is attached, the credential captured
Start(c) ==
    /\ listener' = TRUE
    /\ Become(Report(<<[NoContext EXCEPT !.pc = "window", !.cred = c], bar>>,
                     Phase("resolving_initial", 0, 0)))

Download ==
    /\ MayDownload
    /\ Start(input)
    /\ UNCHANGED <<input, received, hash>>

\* The first window has started
Prefetched(n) ==
    /\ rcv.pc = "window"
    /\ Become(Report(<<[rcv EXCEPT !.pc = "block0"], bar>>,
                     Phase("awaiting_metadata_block", 0, n)))
    /\ UNCHANGED <<input, listener, received, hash>>

\* Block 0 is there and parsed; n blocks of bytes wait behind it
Parsed(n) ==
    /\ rcv.pc = "block0"
    /\ LET parsing == Report(<<[rcv EXCEPT !.pc = "blocks"], bar>>,
                             Phase("parsing_metadata", 0, 0))
           known == [parsing[1] EXCEPT !.parsed = TRUE, !.completed = 1]
       IN  Become(Report(<<known, parsing[2]>>, Downloading(known, 1, n)))
    /\ UNCHANGED <<input, listener, received, hash>>

\* The session steers its window before it takes the next block.
Steer ==
    /\ rcv.pc = "blocks" /\ rcv.completed < NumTokens[rcv.cred]
    /\ Become(Report(<<rcv, bar>>, Phase("resolving_window", 0, 0)))
    /\ UNCHANGED <<input, listener, received, hash>>

\* Block number rcv.completed has been taken
BlockTaken(n) ==
    /\ rcv.pc = "blocks" /\ rcv.completed < NumTokens[rcv.cred]
    /\ Become(Report(<<rcv, bar>>, Downloading(rcv, rcv.completed + 1, n)))
    /\ UNCHANGED <<input, listener, received, hash>>

Decrypt ==
    /\ rcv.pc = "blocks" /\ rcv.completed = NumTokens[rcv.cred]
    /\ Become(Report(<<[rcv EXCEPT !.pc = "decrypt"], bar>>,
                     Phase("decrypting", 0, 0)))
    /\ UNCHANGED <<input, listener, received, hash>>

\* MUTATION of Detach: the listener stays.
DetachNever == UNCHANGED listener

\* The finally clause of downloadAdaptive
Detach == listener' = FALSE

\* The end of handleReceiveDownload.  showReceivedFile shows the file of the
\* captured credential, whatever the input holds now.
Ends(file) ==
    /\ Detach
    /\ bar' = Quiet
    /\ received' = file
    /\ rcv' = [NoContext EXCEPT !.edited = rcv.edited]
    /\ UNCHANGED <<input, hash>>

Decrypted == rcv.pc = "decrypt" /\ Ends(rcv.cred)
DownloadFails == Receiving /\ Ends(received)

\* MUTATION of HideFile: only a complete credential hides the file.
HideFileWhenComplete(c) == received' = IF c = None THEN received ELSE None

\* resetReceiveFileBar, on every change of the input
HideFile(c) == received' = None

\* The input receives c, by a key, a paste or a link
Changed(c) ==
    /\ input' = c
    /\ HideFile(c)

\* onChange of startApp, also when what is entered equals what was there
Edit(c) ==
    /\ Changed(c)
    /\ rcv' = [rcv EXCEPT !.edited = Receiving /\ (@ \/ c # input)]
    /\ bar' = IF Receiving THEN bar ELSE Quiet
    /\ UNCHANGED <<listener, hash>>

\* consumeReceiveLinkIntent, when startApp has its runtime: a valid link fills
\* the input, and a link of this version also starts the download
ConsumeIntent ==
    LET intent == ParseIntent(hash)
    IN  /\ hash' = NoHash
        /\ IF intent.kind = "valid"
             THEN /\ Changed(intent.cred)
                  /\ IF intent.auto THEN Start(intent.cred)
                                    ELSE UNCHANGED <<rcv, listener, bar>>
             ELSE UNCHANGED <<input, rcv, listener, bar, received>>

ReceiveInit ==
    /\ input = None
    /\ rcv = NoContext
    /\ listener = FALSE
    /\ bar = Quiet
    /\ received = None
    /\ hash \in Hashes

MaxBytes == CHOOSE n \in {NumTokens[c] : c \in Credential} :
                \A c \in Credential : NumTokens[c] <= n

\* Steps of a running download
ReceiveStep ==
    \/ \E n \in 0 .. MaxBytes : Prefetched(n) \/ Parsed(n) \/ BlockTaken(n)
    \/ Decrypt \/ Decrypted \/ DownloadFails

ReceiveNext ==
    \/ Download
    \/ \E c \in Credential \cup {None} : Edit(c)
    \/ Steer
    \/ ReceiveStep
    \/ \E kind \in Kinds, n \in 0 .. MaxBytes : Activity(kind, n)

-----------------------------------------------------------------------------
(* Properties.                                                             *)

\* The panel's globals and the context of the download have their types.
ReceiveTypeOK ==
    /\ input \in Credential \cup {None}
    /\ rcv \in [pc : {"idle", "window", "block0", "blocks", "decrypt"},
                cred : Credential \cup {None}, parsed : BOOLEAN,
                completed : Nat, prefetched : Nat, transferred : Nat,
                edited : BOOLEAN]
    /\ listener \in BOOLEAN
    /\ bar \in [rank : {0} \cup {Rank[p] : p \in DOMAIN Rank}, locked : BOOLEAN,
                blocks : Nat, bytes : Nat, prefetch : Nat \cup {None},
                text : DOMAIN Rank \cup {"hidden"}]
    /\ received \in Credential \cup {None}
    /\ hash \in Hashes

\* The file offered for saving is the one of the credential in the input, unless
\* the input was edited while the file was being downloaded; a file from before
\* is not offered while another download runs.
ShownFileIsWanted ==
    /\ received # None /\ ~rcv.edited => received = input
    /\ Receiving => received = None

\* Without a download the panel shows no progress: no late activity of the
\* transport repaints it.  While one runs, the phase, the blocks and the bytes that
\* are shown never go back, although activities arrive late, GETs are repeated
\* and taken blocks leave the counts; and the bar is never ahead of the blocks.
BarIsQuiet == ~Receiving => bar = Quiet

ProgressNeverGoesBack ==
    [][/\ BarIsQuiet'
       /\ Receiving /\ Receiving' =>
            /\ bar'.rank >= bar.rank
            /\ bar'.blocks >= bar.blocks
            /\ bar'.bytes >= bar.bytes
            /\ bar.prefetch # None =>
                   bar'.prefetch = None \/ bar'.prefetch >= bar.prefetch
            /\ bar'.locked => bar'.blocks = rcv'.completed]_receiveVars
=============================================================================
