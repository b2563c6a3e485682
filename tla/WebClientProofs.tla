-------------------------- MODULE WebClientProofs --------------------------
(***************************************************************************)
(* Proofs about WebClient, for any credentials, files, registries, numbers *)
(* of attempts and of blocks: what the send panel presents as uploaded     *)
(* was, what the receive panel offers was asked for, and its progress does *)
(* not go back.  The panels share only the page, so each has an invariant  *)
(* of its own beside that of the page.  What the settings show is what the *)
(* next upload uses, for any presets and lengths of minutes and days.      *)
(***************************************************************************)
EXTENDS WebClient, TLAPS, FiniteSetTheorems, SequenceTheorems,
        WellFoundedInduction

-----------------------------------------------------------------------------
(* The page.                                                               *)

\* A panel has a runtime as soon as it can be used.
PageInv ==
    /\ PageTypeOK
    /\ screen # "boot" => runtime \in Registry

\* A link made for a credential is read back as that credential.
LEMMA LinkIsRead ==
    ASSUME NEW c \in Credential
    PROVE  ParseIntent(HashOf(c)) = [kind |-> "valid", cred |-> c, auto |-> TRUE]
<1>1. <<c>> # <<>> /\ Len(<<c>>) = 1 /\ <<c>>[1] = c /\ <<"1">> # <<>>
    OBVIOUS
<1>2. HashOf(c) # NoHash
    BY <1>1 DEF HashOf, NoHash
<1> QED
    BY <1>1, <1>2 DEF ParseIntent, HashOf

LEMMA ConfiguredIsRegistry == PageTypeOK => Configured \in Registry
BY WebPageAssumption DEF PageTypeOK, Configured

-----------------------------------------------------------------------------
(* The send panel.                                                         *)

AtRest(c) == [value |-> c, reel |-> FALSE, copy |-> TRUE]

\* A running handleSend has captured the client and the file; the file cannot
\* change, and what was captured of it is what is sent.
Captured ==
    Sending =>
        /\ screen # "boot" /\ file # None /\ ~stamp
        /\ snd.client \in Registry
        /\ ~snd.moved => snd.client = runtime
        /\ snd.pc = "import" => shown = Blank
        /\ snd.pc # "import" => snd.cred \in Credential
        /\ snd.pc \in {"import", "prepare"} /\ file \notin Streamed => snd.bytes = file
        /\ snd.pc \in {"reveal", "upload", "put"} => snd.bytes = file /\ snd.name = file
        /\ snd.pc \in {"upload", "put"} => shown = AtRest(snd.cred)

\* Only the reveal, or an attempt that was refused, spins a reel with a value.
Spinning ==
    shown.reel => /\ snd.pc # "reveal" => shown.value = None \/ snd.refused
                  /\ ~Sending => shown.value # None

\* The link, without what a page that is opened by it does.
LinkIsCurrent ==
    share # None => /\ screen # "boot" /\ sent # None
                    /\ share.cred = sent.cred
                    /\ share.registry = runtime
                    /\ ~share.moved => share.registry = sent.registry

StampIsTrue ==
    stamp => /\ sent # None
             /\ sent.bytes = file /\ sent.name = file
             /\ shown = AtRest(sent.cred)

SendInv == SendTypeOK /\ Captured /\ Spinning /\ LinkIsCurrent /\ StampIsTrue

SndState ==
    [pc : {"idle", "import", "prepare", "reveal", "upload", "put"},
     attempt : 0 .. MaxAttempts, cred : Credential \cup {None},
     client : Registry \cup {None}, bytes : File \cup {None},
     name : File \cup {None}, refused : BOOLEAN, moved : BOOLEAN]

\* The records that are put together anew, and those that are changed.
LEMMA SendTypes ==
    /\ 0 \in 0 .. MaxAttempts /\ 1 \in 0 .. MaxAttempts /\ 0 \in 0 .. Steps
    /\ Idle \in SndState /\ Idle.pc = "idle" /\ Idle.moved = FALSE
    /\ Blank \in [value : Credential \cup {None}, reel : BOOLEAN, copy : BOOLEAN]
    /\ Blank.reel = FALSE
<1>1. 0 \in 0 .. MaxAttempts /\ 1 \in 0 .. MaxAttempts /\ 0 \in 0 .. Steps
    BY WebSendAssumption
<1>2. Idle \in SndState /\ Idle.pc = "idle" /\ Idle.moved = FALSE
    BY <1>1 DEF Idle, SndState
<1>3. /\ Blank \in [value : Credential \cup {None}, reel : BOOLEAN, copy : BOOLEAN]
      /\ Blank.reel = FALSE
    BY DEF Blank
<1> QED
    BY <1>1, <1>2, <1>3

LEMMA ChooseKeeps ==
    ASSUME PageInv, SendInv, NEW f \in File \cup {None}, ChooseFile(f)
    PROVE  PageInv' /\ SendInv'
<1>1. /\ snd.pc = "idle" /\ file' = f /\ shown' = Blank /\ ratio' = 0
      /\ share' = None /\ stamp' = FALSE /\ UNCHANGED <<snd, sent, pageVars>>
    BY DEF ChooseFile, MayChooseFile, Sending, ResetPanel
<1>2. SendTypeOK'
    BY <1>1, SendTypes DEF SendInv, SendTypeOK
<1>3. Captured' /\ Spinning' /\ LinkIsCurrent' /\ StampIsTrue'
    BY <1>1, SendTypes DEF Captured, Spinning, LinkIsCurrent, StampIsTrue, Sending
<1>4. PageInv'
    BY <1>1 DEF PageInv, PageTypeOK, pageVars
<1> QED
    BY <1>2, <1>3, <1>4 DEF SendInv

LEMMA SendKeeps ==
    ASSUME PageInv, SendInv, Send
    PROVE  PageInv' /\ SendInv'
<1>1. /\ screen = "app" /\ file # None /\ shown' = Blank /\ ratio' = 0
      /\ share' = None /\ stamp' = FALSE /\ UNCHANGED <<file, sent, pageVars>>
      /\ snd' = [Idle EXCEPT !.pc = "import", !.client = runtime,
                             !.bytes = IF file \in Streamed THEN None ELSE file]
    BY DEF Send, ResetPanel
<1>2. runtime \in Registry /\ file \in File
    BY <1>1 DEF PageInv, SendInv, SendTypeOK
<1>3. /\ snd' \in SndState /\ snd'.pc = "import" /\ snd'.client = runtime
      /\ snd'.moved = FALSE /\ file \notin Streamed => snd'.bytes = file
  <2> DEFINE b == IF file \in Streamed THEN None ELSE file
  <2>1. b \in File \cup {None} /\ (file \notin Streamed => b = file)
    BY <1>2
  <2>2. snd' = [Idle EXCEPT !.pc = "import", !.client = runtime, !.bytes = b]
    BY <1>1
  <2> HIDE DEF b
  <2> QED
    BY <1>2, <2>1, <2>2, SendTypes DEF SndState
<1>4. SendTypeOK'
    BY <1>1, <1>3, SendTypes DEF SendInv, SendTypeOK, SndState
<1>5. Captured' /\ Spinning' /\ LinkIsCurrent' /\ StampIsTrue'
    BY <1>1, <1>2, <1>3, SendTypes
       DEF Captured, Spinning, LinkIsCurrent, StampIsTrue, Sending, pageVars
<1>6. PageInv'
    BY <1>1 DEF PageInv, PageTypeOK, pageVars
<1> QED
    BY <1>4, <1>5, <1>6 DEF SendInv

\* What holds during a handleSend, for its steps.
LEMMA SendFacts ==
    ASSUME SendInv, PageInv
    PROVE  /\ snd \in SndState /\ SendTypeOK /\ Captured /\ Spinning
           /\ LinkIsCurrent /\ StampIsTrue
           /\ shown \in [value : Credential \cup {None}, reel : BOOLEAN, copy : BOOLEAN]
           /\ None \notin Credential /\ None \notin File /\ None \notin Registry
BY WebPageAssumption, WebSendAssumption DEF SendInv, SendTypeOK, SndState

LEMMA SendStepKeeps ==
    ASSUME PageInv, SendInv, SendStep \/ \E n \in 0 .. Steps : Fed(n)
    PROVE  PageInv' /\ SendInv'
<1>1. /\ snd \in SndState /\ SendTypeOK /\ Captured /\ Spinning
      /\ LinkIsCurrent /\ StampIsTrue
      /\ shown \in [value : Credential \cup {None}, reel : BOOLEAN, copy : BOOLEAN]
      /\ None \notin Credential /\ None \notin File /\ None \notin Registry
    BY SendFacts
<1>2. UNCHANGED <<file, pageVars>> /\ Sending
    BY DEF SendStep, Imported, Occupied, Prepared, Revealed, Uploading, Uploaded,
           SendFails, Fed, Sending
<1>3. PageInv'
    BY <1>2 DEF PageInv, PageTypeOK, pageVars
<1>4. UNCHANGED <<screen, runtime, stored>>
    BY <1>2 DEF pageVars
<1>5. /\ screen # "boot" /\ file # None /\ file \in File /\ ~stamp
      /\ snd.client \in Registry
    BY <1>1, <1>2 DEF Captured, SendTypeOK
<1>6. ASSUME UNCHANGED <<share, stamp, sent>>
      PROVE  LinkIsCurrent' /\ StampIsTrue'
    BY <1>1, <1>4, <1>5, <1>6 DEF LinkIsCurrent, StampIsTrue
<1> DEFINE Displays == [value : Credential \cup {None}, reel : BOOLEAN, copy : BOOLEAN]
<1>7. ASSUME snd' \in SndState, shown' \in Displays, ratio' \in 0 .. Steps,
             UNCHANGED <<share, stamp, sent>>
      PROVE  SendTypeOK'
    BY <1>1, <1>2, <1>7 DEF SendTypeOK, SndState
<1>8. ratio \in 0 .. Steps /\ 0 \in 0 .. Steps
    BY <1>1, SendTypes DEF SendTypeOK
<1>9. ASSUME NEW c \in Credential, Imported(c) PROVE SendInv'
  <2>1. /\ snd.pc = "import" /\ shown' = [shown EXCEPT !.reel = TRUE]
        /\ snd' = [snd EXCEPT !.pc = "prepare", !.attempt = 1, !.cred = c]
        /\ UNCHANGED <<ratio, share, stamp, sent>>
    BY <1>9 DEF Imported, Spin
  <2>2. /\ snd' \in SndState /\ snd'.pc = "prepare" /\ snd'.cred = c
        /\ snd'.client = snd.client /\ snd'.moved = snd.moved
        /\ snd'.bytes = snd.bytes /\ snd'.refused = snd.refused
    BY <1>1, <2>1, SendTypes DEF SndState
  <2>3. shown' \in Displays /\ shown'.value = None
    <3>1. shown = Blank
      BY <1>1, <1>2, <2>1 DEF Captured
    <3>2. shown.value = None
      BY <3>1 DEF Blank
    <3> QED
      BY <1>1, <2>1, <3>2
  <2>4. Captured' /\ Spinning'
    BY <1>1, <1>2, <1>4, <1>5, <2>1, <2>2, <2>3 DEF Captured, Spinning, Sending
  <2> QED
    BY <1>6, <1>7, <1>8, <2>1, <2>2, <2>3, <2>4 DEF SendInv
<1>10. ASSUME Prepared PROVE SendInv'
  <2> DEFINE b == IF file \in Streamed THEN file ELSE snd.bytes
  <2>1. /\ snd.pc = "prepare" /\ shown' = [shown EXCEPT !.value = snd.cred]
        /\ snd' = [snd EXCEPT !.pc = "reveal", !.name = file, !.bytes = b]
        /\ UNCHANGED <<ratio, share, stamp, sent>>
    BY <1>10 DEF Prepared, RevealStart
  <2>2. b = file /\ snd.cred \in Credential
    BY <1>1, <1>2, <2>1 DEF Captured
  <2> HIDE DEF b
  <2>3. /\ snd' \in SndState /\ snd'.pc = "reveal" /\ snd'.cred = snd.cred
        /\ snd'.client = snd.client /\ snd'.moved = snd.moved
        /\ snd'.bytes = file /\ snd'.name = file
    BY <1>1, <1>5, <2>1, <2>2 DEF SndState
  <2>4. shown' \in Displays
    BY <1>1, <2>1, <2>2
  <2>5. Captured' /\ Spinning'
    BY <1>1, <1>2, <1>4, <1>5, <2>1, <2>2, <2>3 DEF Captured, Spinning, Sending
  <2> QED
    BY <1>6, <1>7, <1>8, <2>1, <2>3, <2>4, <2>5 DEF SendInv
<1>11. ASSUME Revealed PROVE SendInv'
  <2>1. /\ snd.pc = "reveal" /\ shown' = AtRest(snd.cred)
        /\ snd' = [snd EXCEPT !.pc = "upload"]
        /\ UNCHANGED <<ratio, share, stamp, sent>>
    BY <1>11 DEF Revealed, RevealEnd, AtRest
  <2>2. snd.cred \in Credential
    BY <1>1, <1>2, <2>1 DEF Captured
  <2>3. /\ snd' \in SndState /\ snd'.pc = "upload" /\ snd'.cred = snd.cred
        /\ snd'.client = snd.client /\ snd'.moved = snd.moved
        /\ snd'.bytes = snd.bytes /\ snd'.name = snd.name
    BY <1>1, <2>1 DEF SndState
  <2>4. shown' \in Displays /\ shown'.reel = FALSE
    BY <2>1, <2>2 DEF AtRest
  <2>5. Captured' /\ Spinning'
    BY <1>1, <1>2, <1>4, <1>5, <2>1, <2>2, <2>3, <2>4 DEF Captured, Spinning, Sending
  <2> QED
    BY <1>6, <1>7, <1>8, <2>1, <2>3, <2>4, <2>5 DEF SendInv
<1>12. ASSUME Uploading PROVE SendInv'
  <2>1. /\ snd.pc = "upload" /\ ratio' = 0 /\ snd' = [snd EXCEPT !.pc = "put"]
        /\ UNCHANGED <<shown, share, stamp, sent>>
    BY <1>12 DEF Uploading
  <2>2. /\ snd' \in SndState /\ snd'.pc = "put" /\ snd'.cred = snd.cred
        /\ snd'.client = snd.client /\ snd'.moved = snd.moved
        /\ snd'.bytes = snd.bytes /\ snd'.name = snd.name /\ snd'.refused = snd.refused
    BY <1>1, <2>1 DEF SndState
  <2>3. Captured' /\ Spinning'
    BY <1>1, <1>2, <1>4, <1>5, <2>1, <2>2 DEF Captured, Spinning, Sending
  <2> QED
    BY <1>1, <1>6, <1>7, <1>8, <2>1, <2>2, <2>3 DEF SendInv
<1>13. ASSUME Uploaded PROVE SendInv'
  <2>1. /\ snd.pc = "put" /\ ratio' = 0 /\ stamp' = TRUE /\ shown' = shown
        /\ share' = Shared
        /\ sent' = [cred |-> snd.cred, registry |-> snd.client,
                    name |-> snd.name, bytes |-> snd.bytes]
        /\ snd' = [Idle EXCEPT !.refused = snd.refused]
    BY <1>13 DEF Uploaded
  <2>2. /\ snd.bytes = file /\ snd.name = file /\ shown = AtRest(snd.cred)
        /\ snd.cred \in Credential /\ (~snd.moved => snd.client = runtime)
        /\ snd.moved \in BOOLEAN /\ snd.refused \in BOOLEAN
    BY <1>1, <1>2, <2>1 DEF Captured, SndState
  <2>3. runtime \in Registry
    BY <1>5 DEF PageInv
  <2>4. sent' \in SentUploads
    BY <1>5, <2>1, <2>2 DEF SentUploads
  <2>5. sent' # None /\ sent'.cred = snd.cred /\ sent'.registry = snd.client
        /\ sent'.bytes = file /\ sent'.name = file
    BY <2>1, <2>2, <2>4, WebSendAssumption
  <2>6. share' = None \/ /\ share' = [cred |-> snd.cred, registry |-> runtime,
                                      moved |-> snd.moved]
                         /\ share' \in [cred : Credential, registry : Registry,
                                         moved : BOOLEAN]
    BY <2>1, <2>2, <2>3 DEF Shared, ShareLink
  <2>7. snd' \in SndState /\ snd'.pc = "idle"
    BY <2>1, <2>2, SendTypes DEF SndState
  <2>8. SendTypeOK'
    BY <1>1, <1>2, <1>8, <2>1, <2>4, <2>6, <2>7 DEF SendTypeOK, SndState
  <2>9. Captured' /\ Spinning'
    BY <2>1, <2>2, <2>7 DEF Captured, Spinning, Sending, AtRest
  <2>10. StampIsTrue'
    BY <1>2, <2>1, <2>2, <2>5 DEF StampIsTrue, AtRest
  <2>11. LinkIsCurrent'
    BY <1>4, <1>5, <2>2, <2>5, <2>6 DEF LinkIsCurrent
  <2> QED
    BY <2>8, <2>9, <2>10, <2>11 DEF SendInv
<1>14. ASSUME NEW d \in Displays, NEW b \in BOOLEAN, GiveUp(d, b),
              UNCHANGED <<share, stamp, sent>>,
              d.reel => d.value = None \/ b
       PROVE  SendInv'
  <2>1. /\ ratio' = 0 /\ shown' = IF d.value = None THEN Blank ELSE d
        /\ snd' = [Idle EXCEPT !.refused = b]
    BY <1>14 DEF GiveUp, AfterFailure
  <2>2. snd' \in SndState /\ snd'.pc = "idle" /\ snd'.refused = b
    BY <1>14, <2>1, SendTypes DEF SndState
  <2>3. shown' \in Displays
    BY <1>14, <2>1, SendTypes
  <2>4. Captured' /\ Spinning'
    BY <1>14, <2>1, <2>2, SendTypes DEF Captured, Spinning, Sending
  <2> QED
    BY <1>6, <1>7, <1>8, <1>14, <2>1, <2>2, <2>3, <2>4 DEF SendInv
<1>15. ASSUME SendFails PROVE SendInv'
  <2>1. /\ snd.pc # "reveal" /\ GiveUp(shown, snd.refused)
        /\ UNCHANGED <<share, stamp, sent>> /\ snd.refused \in BOOLEAN
    BY <1>1, <1>15 DEF SendFails, SndState
  <2> QED
    BY <1>1, <1>14, <2>1 DEF Spinning
<1>16. ASSUME NEW c \in Credential, Occupied(c) PROVE SendInv'
  <2>1. snd.pc = "upload" /\ UNCHANGED <<share, stamp, sent>>
    BY <1>16 DEF Occupied
  <2>2. snd.attempt \in 0 .. MaxAttempts
    BY <1>1 DEF SndState
  <2>3. Spin(shown) \in Displays
    BY <1>1 DEF Spin
  <2>4. CASE MayTryAgain(snd.attempt)
    <3> DEFINE n == snd.attempt + 1
    <3>1. n \in 0 .. MaxAttempts
      BY <2>2, <2>4, WebSendAssumption DEF MayTryAgain
    <3>2. /\ shown' = Spin(shown) /\ UNCHANGED ratio
          /\ snd' = [snd EXCEPT !.pc = "prepare", !.cred = c, !.refused = TRUE, !.attempt = n]
      BY <1>16, <2>4 DEF Occupied, NextAttempt
    <3> HIDE DEF n
    <3>3. /\ snd' \in SndState /\ snd'.pc = "prepare" /\ snd'.cred = c
          /\ snd'.client = snd.client /\ snd'.moved = snd.moved
          /\ snd'.bytes = snd.bytes /\ snd'.refused = TRUE
      BY <1>1, <3>1, <3>2 DEF SndState
    <3>4. Captured' /\ Spinning'
      BY <1>1, <1>2, <1>4, <1>5, <2>1, <3>2, <3>3 DEF Captured, Spinning, Sending
    <3> QED
      BY <1>6, <1>7, <1>8, <2>1, <2>3, <3>2, <3>3, <3>4 DEF SendInv
  <2>5. CASE ~MayTryAgain(snd.attempt)
    <3>1. GiveUp(Spin(shown), TRUE)
      BY <1>16, <2>5 DEF Occupied
    <3> QED
      BY <1>14, <2>1, <2>3, <3>1
  <2> QED
    BY <2>4, <2>5
<1>17. ASSUME NEW n \in 0 .. Steps, Fed(n) PROVE SendInv'
  <2>1. ratio' \in 0 .. Steps /\ UNCHANGED <<snd, shown, share, stamp, sent>>
    BY <1>8, <1>17 DEF Fed
  <2>2. Captured' /\ Spinning'
    BY <1>1, <1>2, <1>4, <2>1 DEF Captured, Spinning, Sending
  <2> QED
    BY <1>1, <1>6, <1>7, <2>1, <2>2 DEF SendInv
<1> QED
    BY <1>3, <1>9, <1>10, <1>11, <1>12, <1>13, <1>15, <1>16, <1>17 DEF SendStep

\* A change of the connection, while uploads go on.
LEMMA ConnectKeeps ==
    ASSUME PageInv, SendInv, Connect
    PROVE  PageInv' /\ SendInv'
<1>1. /\ snd \in SndState /\ SendTypeOK /\ Captured /\ Spinning
      /\ LinkIsCurrent /\ StampIsTrue /\ PageTypeOK
    BY SendFacts DEF PageInv
<1>2. CASE Reloaded
  <2>1. /\ screen = "reload" /\ runtime' = Configured /\ screen' = "app"
        /\ UNCHANGED stored /\ share' = None
        /\ snd' = [snd EXCEPT !.moved = Sending]
        /\ UNCHANGED <<file, shown, ratio, stamp, sent>>
    BY <1>2 DEF Reloaded, RuntimeReady
  <2>2. Configured \in Registry
    BY <1>1, ConfiguredIsRegistry
  <2>3. PageInv'
    BY <1>1, <2>1, <2>2 DEF PageInv, PageTypeOK
  <2>4. /\ snd' \in SndState /\ snd'.pc = snd.pc /\ snd'.cred = snd.cred
        /\ snd'.client = snd.client /\ (Sending => snd'.moved)
        /\ snd'.bytes = snd.bytes /\ snd'.name = snd.name
        /\ snd'.refused = snd.refused
    <3>1. Sending \in BOOLEAN
      BY DEF Sending
    <3>2. ASSUME NEW b \in BOOLEAN, snd' = [snd EXCEPT !.moved = b]
          PROVE  /\ snd' \in SndState /\ snd'.pc = snd.pc /\ snd'.cred = snd.cred
                 /\ snd'.client = snd.client /\ snd'.moved = b
                 /\ snd'.bytes = snd.bytes /\ snd'.name = snd.name
                 /\ snd'.refused = snd.refused
      BY <1>1, <3>2 DEF SndState
    <3> QED
      BY <2>1, <3>1, <3>2
  <2>5. SendTypeOK'
    BY <1>1, <2>1, <2>4 DEF SendTypeOK, SndState
  <2>6. Captured' /\ Spinning' /\ LinkIsCurrent' /\ StampIsTrue'
    BY <1>1, <2>1, <2>4
       DEF Captured, Spinning, LinkIsCurrent, StampIsTrue, Sending
  <2> QED
    BY <2>3, <2>5, <2>6 DEF SendInv
<1>3. CASE (ResetSettings \/ ReloadFails \/ \E r \in Registry : SaveSettings(r))
           /\ UNCHANGED sendVars
  <2>1. /\ runtime' = runtime /\ screen # "boot" /\ screen' \in {"app", "reload"}
        /\ stored' \in Registry \cup {None}
    BY <1>1, <1>3
       DEF ResetSettings, ReloadFails, SaveSettings, PageTypeOK
  <2>2. PageInv'
    BY <1>1, <2>1 DEF PageInv, PageTypeOK
  <2>3. UNCHANGED <<file, snd, shown, ratio, share, stamp, sent>>
    BY <1>3 DEF sendVars
  <2>4. SendInv'
    BY <1>1, <2>1, <2>3
       DEF SendInv, SendTypeOK, Captured, Spinning, LinkIsCurrent, StampIsTrue, Sending
  <2> QED
    BY <2>2, <2>4
<1> QED
    BY <1>2, <1>3 DEF Connect

\* The start of the page: nothing is running yet.
LEMMA BootKeeps ==
    ASSUME PageInv, SendInv, RuntimeReady("boot"), UNCHANGED sendVars
    PROVE  PageInv' /\ SendInv'
<1>1. /\ SendTypeOK /\ Captured /\ Spinning
      /\ LinkIsCurrent /\ StampIsTrue /\ PageTypeOK
    BY SendFacts DEF PageInv
<1>2. /\ screen = "boot" /\ runtime' = Configured /\ screen' = "app"
      /\ UNCHANGED <<stored, file, snd, shown, ratio, share, stamp, sent>>
    BY DEF RuntimeReady, sendVars
<1>3. Configured \in Registry
    BY <1>1, ConfiguredIsRegistry
<1>4. PageInv'
    BY <1>1, <1>2, <1>3 DEF PageInv, PageTypeOK
<1>5. ~Sending /\ share = None
    BY <1>1, <1>2 DEF Captured, LinkIsCurrent
<1>6. SendInv'
    BY <1>1, <1>2, <1>5
       DEF SendInv, SendTypeOK, Captured, Spinning, LinkIsCurrent, StampIsTrue, Sending
<1> QED
    BY <1>4, <1>6

-----------------------------------------------------------------------------
(* The receive panel.                                                      *)

RcvState ==
    [pc : {"idle", "window", "block0", "blocks", "decrypt"},
     cred : Credential \cup {None}, parsed : BOOLEAN,
     completed : Nat, prefetched : Nat, transferred : Nat, edited : BOOLEAN]

BarState ==
    [rank : {0} \cup {Rank[p] : p \in DOMAIN Rank}, locked : BOOLEAN,
     blocks : Nat, bytes : Nat, prefetch : Nat \cup {None},
     text : DOMAIN Rank \cup {"hidden"}]

StatusOK(s) == s \in [phase : DOMAIN Rank, completed : Nat, bytes : Nat]

LEMMA Ranks ==
    /\ DOMAIN Rank = {"resolving_initial", "awaiting_metadata_block",
                       "waiting_metadata_block", "parsing_metadata",
                       "resolving_window", "downloading", "decrypting"}
    /\ Rank["resolving_initial"] = 10 /\ Rank["awaiting_metadata_block"] = 20
    /\ Rank["waiting_metadata_block"] = 25 /\ Rank["parsing_metadata"] = 30
    /\ Rank["resolving_window"] = 35 /\ Rank["downloading"] = 40
    /\ Rank["decrypting"] = 50
    /\ \A p \in DOMAIN Rank : Rank[p] \in Nat
BY DEF Rank

\* The bar agrees with the context: the blocks it shows have been taken, and the
\* bytes are at most the high-water mark.
Agrees(r, b) ==
    /\ IF b.locked THEN b.blocks = r.completed ELSE b.blocks = 0 /\ b.bytes = 0
    /\ b.bytes <= r.transferred /\ b.bytes <= NumTokens[r.cred]

\* The bar b after the bar a
NotBack(a, b) ==
    /\ b.rank >= a.rank /\ b.blocks >= a.blocks /\ b.bytes >= a.bytes
    /\ a.prefetch # None => b.prefetch = None \/ b.prefetch >= a.prefetch

LEMMA MarkedFacts ==
    ASSUME NEW r \in RcvState, NEW s, StatusOK(s), r.cred \in Credential
    PROVE  /\ Marked(r, s) \in RcvState
           /\ Marked(r, s).pc = r.pc /\ Marked(r, s).cred = r.cred
           /\ Marked(r, s).parsed = r.parsed /\ Marked(r, s).edited = r.edited
           /\ Marked(r, s).completed =
                  IF s.phase = "downloading" THEN s.completed ELSE r.completed
           /\ Marked(r, s).transferred >= r.transferred
           /\ StatusOK(Reported(r, s))
           /\ Reported(r, s).phase = s.phase /\ Reported(r, s).completed = s.completed
           /\ s.phase = "downloading" =>
                  /\ Reported(r, s).bytes <= Marked(r, s).transferred
                  /\ Reported(r, s).bytes <= NumTokens[r.cred]
                  /\ r.transferred <= Reported(r, s).bytes
                       \/ NumTokens[r.cred] = Reported(r, s).bytes
<1>1. NumTokens[r.cred] \in Nat
    BY WebReceiveAssumption
<1>2. /\ s.completed \in Nat /\ s.bytes \in Nat /\ s.phase \in DOMAIN Rank
      /\ s = [phase |-> s.phase, completed |-> s.completed, bytes |-> s.bytes]
    BY DEF StatusOK
<1>3. /\ r.prefetched \in Nat /\ r.transferred \in Nat /\ r.completed \in Nat
    BY DEF RcvState
<1>4. CASE s.phase = "awaiting_metadata_block"
  <2> DEFINE n == Higher(r.prefetched, s.bytes)
  <2>1. n \in Nat
    BY <1>2, <1>3 DEF Higher
  <2>2. /\ Marked(r, s) = [r EXCEPT !.prefetched = n]
        /\ Reported(r, s) = [s EXCEPT !.bytes = n]
    BY <1>4 DEF Marked, Reported
  <2> HIDE DEF n
  <2> QED
    BY <1>2, <1>3, <1>4, <2>1, <2>2 DEF RcvState, StatusOK
<1>5. CASE s.phase = "downloading"
  <2> DEFINE n == Higher(r.transferred, s.bytes)
             k == Lower(NumTokens[r.cred], n)
  <2>1. /\ n \in Nat /\ k \in Nat /\ n >= r.transferred
        /\ k <= n /\ k <= NumTokens[r.cred] /\ (k = n \/ k = NumTokens[r.cred])
    BY <1>1, <1>2, <1>3 DEF Higher, Lower
  <2>2. /\ Marked(r, s) = [r EXCEPT !.completed = s.completed, !.transferred = n]
        /\ Reported(r, s) = [s EXCEPT !.bytes = k]
    BY <1>5 DEF Marked, Reported
  <2> HIDE DEF n, k
  <2>3. /\ Marked(r, s) \in RcvState /\ Marked(r, s).transferred = n
        /\ Marked(r, s).completed = s.completed
        /\ Marked(r, s).pc = r.pc /\ Marked(r, s).cred = r.cred
        /\ Marked(r, s).parsed = r.parsed /\ Marked(r, s).edited = r.edited
    BY <1>2, <1>3, <2>1, <2>2 DEF RcvState
  <2>4. /\ StatusOK(Reported(r, s)) /\ Reported(r, s).bytes = k
        /\ Reported(r, s).phase = s.phase /\ Reported(r, s).completed = s.completed
    BY <1>2, <2>1, <2>2 DEF StatusOK
  <2> QED
    BY <1>1, <1>3, <1>5, <2>1, <2>3, <2>4
<1>6. CASE s.phase \notin {"awaiting_metadata_block", "downloading"}
  <2>1. Marked(r, s) = r /\ Reported(r, s) = s
    BY <1>6 DEF Marked, Reported
  <2> QED
    BY <1>3, <1>6, <2>1
<1> QED
    BY <1>4, <1>5, <1>6

LEMMA CountedFacts ==
    ASSUME NEW b \in BarState, NEW s, StatusOK(s)
    PROVE  /\ Counted(b, s) \in BarState
           /\ Counted(b, s).rank = b.rank /\ Counted(b, s).locked = b.locked
           /\ Counted(b, s).blocks = b.blocks /\ Counted(b, s).bytes = b.bytes
           /\ b.prefetch # None => Counted(b, s).prefetch >= b.prefetch
           /\ s.phase # "awaiting_metadata_block" => Counted(b, s) = b
<1> DEFINE p == IF b.prefetch = None THEN s.bytes ELSE Higher(b.prefetch, s.bytes)
<1>1. b.prefetch \in Nat \cup {None} /\ s.bytes \in Nat
    BY DEF BarState, StatusOK
<1>2. p \in Nat /\ (b.prefetch # None => p >= b.prefetch)
    BY <1>1 DEF Higher
<1>3. CASE s.phase = "awaiting_metadata_block"
  <2>1. Counted(b, s) = [b EXCEPT !.prefetch = p]
    BY <1>3 DEF Counted
  <2> HIDE DEF p
  <2>2. /\ [b EXCEPT !.prefetch = p] \in BarState
        /\ [b EXCEPT !.prefetch = p].prefetch = p
        /\ [b EXCEPT !.prefetch = p].rank = b.rank
        /\ [b EXCEPT !.prefetch = p].locked = b.locked
        /\ [b EXCEPT !.prefetch = p].blocks = b.blocks
        /\ [b EXCEPT !.prefetch = p].bytes = b.bytes
    BY <1>2 DEF BarState
  <2> QED
    BY <1>2, <1>3, <2>1, <2>2
<1>4. CASE s.phase # "awaiting_metadata_block"
  <2>1. Counted(b, s) = b
    BY <1>4 DEF Counted
  <2>2. b.prefetch # None => b.prefetch >= b.prefetch
    BY <1>1
  <2> QED
    BY <1>4, <2>1, <2>2
<1> QED
    BY <1>3, <1>4

LEMMA RememberFacts ==
    ASSUME NEW b \in BarState, NEW s, StatusOK(s)
    PROVE  /\ Remember(b, s) \in BarState
           /\ IF s.phase = "downloading"
                THEN /\ Remember(b, s).locked
                     /\ Remember(b, s).blocks = s.completed
                     /\ Remember(b, s).bytes = s.bytes
                     /\ Remember(b, s).prefetch = None
                ELSE Remember(b, s) = b
<1>1. s.completed \in Nat /\ s.bytes \in Nat
    BY DEF StatusOK
<1>2. CASE s.phase = "downloading"
  <2>1. Remember(b, s) = [b EXCEPT !.prefetch = None, !.locked = TRUE,
                                   !.blocks = s.completed, !.bytes = s.bytes]
    BY <1>2 DEF Remember
  <2> QED
    BY <1>1, <1>2, <2>1 DEF BarState
<1>3. CASE s.phase # "downloading"
    BY <1>3 DEF Remember
<1> QED
    BY <1>2, <1>3

\* What a status does to the bar it is painted on.
LEMMA PaintedFacts ==
    ASSUME NEW b \in BarState, NEW s, StatusOK(s),
           b.locked /\ s.phase = "downloading" =>
               /\ s.completed >= b.blocks /\ s.bytes >= b.bytes,
           ~b.locked => b.blocks = 0 /\ b.bytes = 0
    PROVE  /\ Painted(b, s) \in BarState
           /\ NotBack(b, Painted(b, s))
           /\ Painted(b, s).rank = b.rank \/ Painted(b, s).rank = Rank[s.phase]
           /\ s.phase \notin {"awaiting_metadata_block", "downloading"} =>
                  Painted(b, s).prefetch = b.prefetch
           /\ IF s.phase = "downloading" /\ b.rank <= 40
                THEN /\ Painted(b, s).locked
                     /\ Painted(b, s).blocks = s.completed
                     /\ Painted(b, s).bytes = s.bytes
                ELSE /\ Painted(b, s).locked = b.locked
                     /\ Painted(b, s).blocks = b.blocks
                     /\ Painted(b, s).bytes = b.bytes
<1> DEFINE k == Rank[s.phase]
<1>1. /\ b.rank \in Nat /\ b.blocks \in Nat /\ b.bytes \in Nat /\ b.locked \in BOOLEAN
      /\ b.prefetch \in Nat \cup {None}
    BY Ranks DEF BarState
<1>2. /\ k \in Nat /\ k \in {Rank[p] : p \in DOMAIN Rank} /\ s.phase \in DOMAIN Rank
      /\ s.phase = "downloading" => k = 40
      /\ s.completed \in Nat /\ s.bytes \in Nat
    BY Ranks DEF StatusOK
<1> HIDE DEF k
<1>3. NotBack(b, b)
    BY <1>1 DEF NotBack
<1>4. CASE s.phase = "resolving_window"
  <2>1. CASE b.locked
    <3>1. Painted(b, s) = b
      BY <1>4, <2>1 DEF Painted
    <3> QED
      BY <1>3, <1>4, <3>1
  <2>2. CASE ~b.locked
    <3> DEFINE n == Higher(b.rank, k)
    <3>1. Painted(b, s) = [b EXCEPT !.rank = n, !.text = s.phase]
      BY <1>4, <2>2 DEF Painted, k
    <3>2. n \in {0} \cup {Rank[p] : p \in DOMAIN Rank} /\ n >= b.rank
          /\ (n = b.rank \/ n = k)
      BY <1>1, <1>2 DEF Higher, BarState
    <3> HIDE DEF n
    <3>3. /\ Painted(b, s) \in BarState /\ Painted(b, s).rank = n
          /\ Painted(b, s).locked = b.locked /\ Painted(b, s).blocks = b.blocks
          /\ Painted(b, s).bytes = b.bytes /\ Painted(b, s).prefetch = b.prefetch
      BY <1>2, <3>1, <3>2 DEF BarState
    <3> QED
      BY <1>1, <1>4, <3>2, <3>3 DEF NotBack, k
  <2> QED
    BY <2>1, <2>2
<1>5. CASE s.phase # "resolving_window" /\ k < b.rank
  <2>1. Painted(b, s) = Counted(b, s)
    BY <1>5 DEF Painted, Older, k
  <2>2. s.phase = "downloading" => ~(b.rank <= 40)
    BY <1>1, <1>2, <1>5
  <2>3. NotBack(b, Counted(b, s))
    BY <1>1, CountedFacts DEF NotBack
  <2> QED
    BY <2>1, <2>2, <2>3, CountedFacts
<1>6. CASE s.phase # "resolving_window" /\ ~(k < b.rank)
  <2> DEFINE c == Remember(Counted(b, s), s)
  <2>1. Painted(b, s) = [c EXCEPT !.rank = k, !.text = s.phase]
    BY <1>6 DEF Painted, Older, k
  <2>2. /\ c \in BarState
        /\ IF s.phase = "downloading"
             THEN /\ c.locked /\ c.blocks = s.completed /\ c.bytes = s.bytes
                  /\ c.prefetch = None
             ELSE /\ c.locked = b.locked /\ c.blocks = b.blocks /\ c.bytes = b.bytes
                  /\ b.prefetch # None => c.prefetch >= b.prefetch
        /\ s.phase \notin {"awaiting_metadata_block", "downloading"} =>
               c.prefetch = b.prefetch
    BY CountedFacts, RememberFacts
  <2>3. k >= b.rank /\ (s.phase = "downloading" => b.rank <= 40)
    BY <1>1, <1>2, <1>6
  <2> HIDE DEF c
  <2>4. /\ Painted(b, s) \in BarState /\ Painted(b, s).rank = k
        /\ Painted(b, s).locked = c.locked /\ Painted(b, s).blocks = c.blocks
        /\ Painted(b, s).bytes = c.bytes /\ Painted(b, s).prefetch = c.prefetch
    BY <1>2, <2>1, <2>2 DEF BarState
  <2>5. NotBack(b, Painted(b, s))
    <3>1. c.blocks >= b.blocks /\ c.bytes >= b.bytes
      BY <1>1, <1>2, <2>2
    <3> QED
      BY <2>2, <2>3, <2>4, <3>1 DEF NotBack
  <2> QED
    BY <2>2, <2>3, <2>4, <2>5 DEF k
<1> QED
    BY <1>4, <1>5, <1>6

\* A report keeps the bar in agreement with the context, and moves it forward.
LEMMA ReportFacts ==
    ASSUME NEW r \in RcvState, NEW b \in BarState, NEW s, StatusOK(s),
           r.cred \in Credential, Agrees(r, b),
           s.phase = "downloading" => /\ s.completed >= r.completed
                                      /\ b.rank > 40 => s.completed = r.completed
    PROVE  LET q == Marked(r, s)
               d == Painted(b, Reported(r, s))
           IN  /\ Report(<<r, b>>, s) = <<q, d>>
               /\ q \in RcvState /\ d \in BarState /\ Agrees(q, d) /\ NotBack(b, d)
               /\ q.pc = r.pc /\ q.cred = r.cred
               /\ q.parsed = r.parsed /\ q.edited = r.edited
               /\ q.completed =
                      IF s.phase = "downloading" THEN s.completed ELSE r.completed
               /\ d.locked => b.locked \/ s.phase = "downloading"
               /\ d.rank = b.rank \/ d.rank = Rank[s.phase]
               /\ s.phase \notin {"awaiting_metadata_block", "downloading"} =>
                      d.prefetch = b.prefetch
<1> DEFINE q == Marked(r, s)
           t == Reported(r, s)
           d == Painted(b, t)
<1>1. /\ q \in RcvState /\ q.pc = r.pc /\ q.cred = r.cred
      /\ q.parsed = r.parsed /\ q.edited = r.edited
      /\ q.completed = IF s.phase = "downloading" THEN s.completed ELSE r.completed
      /\ q.transferred >= r.transferred
      /\ StatusOK(t) /\ t.phase = s.phase /\ t.completed = s.completed
      /\ s.phase = "downloading" =>
             /\ t.bytes <= q.transferred /\ t.bytes <= NumTokens[r.cred]
             /\ r.transferred <= t.bytes \/ NumTokens[r.cred] = t.bytes
    BY MarkedFacts
<1>2. /\ b.blocks \in Nat /\ b.bytes \in Nat /\ b.locked \in BOOLEAN /\ b.rank \in Nat
      /\ r.completed \in Nat /\ r.transferred \in Nat /\ q.transferred \in Nat
      /\ NumTokens[r.cred] \in Nat /\ t.bytes \in Nat /\ t.completed \in Nat
    BY <1>1, Ranks, WebReceiveAssumption DEF BarState, RcvState, StatusOK
<1>3. /\ b.locked => b.blocks = r.completed
      /\ ~b.locked => b.blocks = 0 /\ b.bytes = 0
      /\ b.bytes <= r.transferred /\ b.bytes <= NumTokens[r.cred]
    BY DEF Agrees
<1>4. Report(<<r, b>>, s) = <<q, d>>
    BY DEF Report
<1> HIDE DEF q, t, d
<1>5. t.phase = "downloading" => t.completed >= b.blocks /\ t.bytes >= b.bytes
    BY <1>1, <1>2, <1>3
<1>6. /\ d \in BarState /\ NotBack(b, d)
      /\ d.rank = b.rank \/ d.rank = Rank[t.phase]
      /\ t.phase \notin {"awaiting_metadata_block", "downloading"} =>
             d.prefetch = b.prefetch
      /\ IF t.phase = "downloading" /\ b.rank <= 40
           THEN d.locked /\ d.blocks = t.completed /\ d.bytes = t.bytes
           ELSE d.locked = b.locked /\ d.blocks = b.blocks /\ d.bytes = b.bytes
    BY <1>1, <1>3, <1>5, PaintedFacts DEF d
<1>7. Agrees(q, d)
  <2>1. CASE t.phase = "downloading" /\ b.rank <= 40
    BY <1>1, <1>2, <1>6, <2>1 DEF Agrees
  <2>2. CASE ~(t.phase = "downloading" /\ b.rank <= 40)
    <3>1. d.locked = b.locked /\ d.blocks = b.blocks /\ d.bytes = b.bytes
      BY <1>6, <2>2
    <3>2. q.completed = r.completed
      BY <1>1, <1>2, <2>2
    <3>3. d.bytes <= q.transferred /\ d.bytes <= NumTokens[q.cred]
      BY <1>1, <1>2, <1>3, <3>1
    <3> QED
      BY <1>2, <1>3, <3>1, <3>2, <3>3 DEF Agrees
  <2> QED
    BY <2>1, <2>2
<1>8. d.locked => b.locked \/ s.phase = "downloading"
    BY <1>1, <1>2, <1>6
<1> QED
    BY <1>1, <1>4, <1>6, <1>7, <1>8 DEF q, d, t

\* The panel, with a download or without.
RcvInv ==
    /\ ReceiveTypeOK
    /\ listener = Receiving
    /\ screen = "boot" => ~Receiving
    /\ ~Receiving => bar = Quiet
    /\ received # None /\ ~rcv.edited => received = input
    /\ Receiving => /\ received = None
                    /\ rcv.cred \in Credential
                    /\ ~rcv.edited => rcv.cred = input
                    /\ Agrees(rcv, bar)
                    /\ rcv.parsed = (rcv.pc \in {"blocks", "decrypt"})
                    /\ bar.locked => rcv.parsed
                    /\ rcv.pc # "decrypt" => bar.rank <= 40

LEMMA NoneIsQuiet ==
    /\ NoContext \in RcvState /\ NoContext.pc = "idle" /\ Quiet \in BarState
    /\ Quiet.rank = 0 /\ Quiet.locked = FALSE /\ Quiet.blocks = 0 /\ Quiet.bytes = 0
    /\ NoHash \in Hashes /\ None \notin Credential
<1>1. NoContext \in RcvState /\ NoContext.pc = "idle"
    BY DEF NoContext, RcvState
<1>2. Quiet \in BarState /\ Quiet.rank = 0 /\ Quiet.locked = FALSE /\ Quiet.blocks = 0
      /\ Quiet.bytes = 0
    BY DEF Quiet, BarState
<1> QED
    BY <1>1, <1>2, WebReceiveAssumption, WebPageAssumption

LEMMA ReceiveInitInv == Init => RcvInv
BY NoneIsQuiet
   DEF Init, ReceiveInit, RcvInv, ReceiveTypeOK, Receiving, RcvState, BarState

\* A context r and a bar b from which a status s can be reported.
MayReport(r, b, s) ==
    /\ r \in RcvState /\ b \in BarState /\ StatusOK(s)
    /\ r.pc # "idle" /\ r.cred \in Credential /\ Agrees(r, b)
    /\ r.parsed = (r.pc \in {"blocks", "decrypt"})
    /\ b.locked => r.parsed
    /\ r.pc # "decrypt" => b.rank <= 40 /\ s.phase # "decrypting"
    /\ s.phase = "downloading" => /\ r.parsed /\ s.completed >= r.completed
                                  /\ r.pc = "decrypt" => s.completed = r.completed

LEMMA MayReportFacts ==
    ASSUME NEW r, NEW b, NEW s, MayReport(r, b, s)
    PROVE  LET q == Marked(r, s)
               d == Painted(b, Reported(r, s))
           IN  /\ Report(<<r, b>>, s) = <<q, d>>
               /\ q \in RcvState /\ d \in BarState /\ Agrees(q, d) /\ NotBack(b, d)
               /\ q.pc = r.pc /\ q.cred = r.cred
               /\ q.parsed = r.parsed /\ q.edited = r.edited
               /\ d.locked => r.parsed
               /\ r.pc # "decrypt" => d.rank <= 40
<1>1. /\ r \in RcvState /\ b \in BarState /\ StatusOK(s) /\ r.cred \in Credential
      /\ Agrees(r, b) /\ (b.locked => r.parsed)
      /\ r.pc # "decrypt" => b.rank <= 40 /\ s.phase # "decrypting"
    BY DEF MayReport
<1>2. b.rank \in Nat /\ r.completed \in Nat /\ s.completed \in Nat
    BY <1>1, Ranks DEF BarState, RcvState, StatusOK
<1>3. s.phase = "downloading" => /\ s.completed >= r.completed
                                 /\ b.rank > 40 => s.completed = r.completed
    BY <1>1, <1>2 DEF MayReport
<1>4. s.phase # "decrypting" => Rank[s.phase] <= 40
    BY <1>1, Ranks DEF StatusOK
<1>5. s.phase = "downloading" => r.parsed
    BY DEF MayReport
<1> DEFINE q == Marked(r, s)
           d == Painted(b, Reported(r, s))
<1>6. /\ Report(<<r, b>>, s) = <<q, d>>
      /\ q \in RcvState /\ d \in BarState /\ Agrees(q, d) /\ NotBack(b, d)
      /\ q.pc = r.pc /\ q.cred = r.cred
      /\ q.parsed = r.parsed /\ q.edited = r.edited
      /\ d.locked => b.locked \/ s.phase = "downloading"
      /\ d.rank = b.rank \/ d.rank = Rank[s.phase]
    BY <1>1, <1>3, ReportFacts
<1> HIDE DEF q, d
<1>7. d.locked => r.parsed
    BY <1>1, <1>5, <1>6
<1>8. r.pc # "decrypt" => d.rank <= 40
    BY <1>1, <1>4, <1>6
<1> QED
    BY <1>6, <1>7, <1>8 DEF q, d

LEMMA ReportKeeps ==
    ASSUME RcvInv, NEW r, NEW b, NEW s, MayReport(r, b, s),
           Become(Report(<<r, b>>, s)), listener', received' = None,
           hash' \in Hashes, input' \in Credential \cup {None},
           screen' # "boot", ~r.edited => r.cred = input'
    PROVE  RcvInv' /\ NotBack(b, bar')
<1> DEFINE q == Marked(r, s)
           d == Painted(b, Reported(r, s))
<1>1. /\ Report(<<r, b>>, s) = <<q, d>>
      /\ q \in RcvState /\ d \in BarState /\ Agrees(q, d) /\ NotBack(b, d)
      /\ q.pc = r.pc /\ q.cred = r.cred
      /\ q.parsed = r.parsed /\ q.edited = r.edited
      /\ d.locked => r.parsed
      /\ r.pc # "decrypt" => d.rank <= 40
    BY MayReportFacts
<1> HIDE DEF q, d
<1>2. rcv' = q /\ bar' = d
    BY <1>1 DEF Become
<1>3. r.pc # "idle" /\ r.cred \in Credential /\ r.parsed = (r.pc \in {"blocks", "decrypt"})
    BY DEF MayReport
<1>4. listener \in BOOLEAN /\ None \notin Credential
    BY NoneIsQuiet DEF RcvInv, ReceiveTypeOK
<1>5. listener' = TRUE /\ Receiving'
    BY <1>1, <1>2, <1>3, <1>4 DEF Receiving
<1>6. ReceiveTypeOK'
    BY <1>1, <1>2, <1>5 DEF ReceiveTypeOK, RcvState, BarState
<1> QED
    BY <1>1, <1>2, <1>3, <1>5, <1>6 DEF RcvInv

\* What is known while a download runs, with a status that may be reported of it.
LEMMA RunningFacts ==
    ASSUME RcvInv, Receiving
    PROVE  /\ rcv \in RcvState /\ bar \in BarState /\ rcv.pc # "idle"
           /\ listener = TRUE /\ screen # "boot" /\ received = None /\ hash \in Hashes
           /\ rcv.cred \in Credential /\ Agrees(rcv, bar)
           /\ input \in Credential \cup {None} /\ (~rcv.edited => rcv.cred = input)
           /\ rcv.parsed = (rcv.pc \in {"blocks", "decrypt"})
           /\ bar.locked => rcv.parsed
           /\ rcv.pc # "decrypt" => bar.rank <= 40
           /\ NumTokens[rcv.cred] \in Nat
<1>1. ReceiveTypeOK /\ listener = Receiving /\ rcv.cred \in Credential
    BY DEF RcvInv
<1>2. rcv \in RcvState /\ bar \in BarState /\ listener \in BOOLEAN
      /\ hash \in Hashes /\ input \in Credential \cup {None}
    BY <1>1 DEF ReceiveTypeOK, RcvState, BarState
<1> QED
    BY <1>1, <1>2, WebReceiveAssumption DEF RcvInv, Receiving

LEMMA PhasesAreStatus ==
    ASSUME NEW p \in DOMAIN Rank, NEW m \in Nat, NEW n \in Nat
    PROVE  /\ StatusOK(Phase(p, m, n))
           /\ Phase(p, m, n).phase = p /\ Phase(p, m, n).completed = m
BY DEF StatusOK, Phase

LEMMA DownloadingIsStatus ==
    ASSUME NEW r, r.cred \in Credential, NEW m \in Nat, NEW n \in Nat
    PROVE  /\ StatusOK(Downloading(r, m, n))
           /\ Downloading(r, m, n).phase = "downloading"
           /\ Downloading(r, m, n).completed = m
<1>1. NumTokens[r.cred] \in Nat /\ m + n \in Nat
    BY WebReceiveAssumption
<1>2. Bytes(r, m, n) \in Nat
    BY <1>1 DEF Bytes, Lower
<1>3. "downloading" \in DOMAIN Rank
    BY Ranks
<1> DEFINE k == Bytes(r, m, n)
<1>4. Downloading(r, m, n) = Phase("downloading", m, k)
    BY DEF Downloading
<1> HIDE DEF k
<1>5. k \in Nat
    BY <1>2 DEF k
<1> QED
    BY <1>3, <1>4, <1>5, PhasesAreStatus

\* A step that reports one status of the running download, whose pc it sets.
LEMMA StepReports ==
    ASSUME RcvInv, Receiving, UNCHANGED <<pageVars, input, listener, received, hash>>,
           NEW p,
           \/ p = rcv.pc
           \/ p = "block0" /\ rcv.pc = "window"
           \/ p = "decrypt" /\ rcv.pc = "blocks",
           NEW s, StatusOK(s),
           s.phase = "decrypting" => p = "decrypt",
           s.phase = "downloading" =>
               /\ rcv.parsed
               /\ s.completed >= rcv.completed
               /\ p = "decrypt" => s.completed = rcv.completed,
           Become(Report(<<[rcv EXCEPT !.pc = p], bar>>, s))
    PROVE  RcvInv' /\ NotBack(bar, bar')
<1>1. /\ rcv \in RcvState /\ bar \in BarState /\ rcv.pc # "idle"
      /\ listener = TRUE /\ screen # "boot" /\ received = None /\ hash \in Hashes
      /\ rcv.cred \in Credential /\ Agrees(rcv, bar)
      /\ input \in Credential \cup {None} /\ (~rcv.edited => rcv.cred = input)
      /\ rcv.parsed = (rcv.pc \in {"blocks", "decrypt"})
      /\ bar.locked => rcv.parsed
      /\ rcv.pc # "decrypt" => bar.rank <= 40
    BY RunningFacts
<1> DEFINE r == [rcv EXCEPT !.pc = p]
<1>2. /\ r \in RcvState /\ r.pc = p /\ r.cred = rcv.cred /\ r.parsed = rcv.parsed
      /\ r.edited = rcv.edited /\ r.completed = rcv.completed
      /\ r.transferred = rcv.transferred
    BY <1>1 DEF RcvState
<1>3. Become(Report(<<r, bar>>, s))
    OBVIOUS
<1> HIDE DEF r
<1>4. MayReport(r, bar, s)
  <2>1. Agrees(r, bar)
    BY <1>1, <1>2 DEF Agrees
  <2>2. r.pc # "idle" /\ r.parsed = (r.pc \in {"blocks", "decrypt"})
    BY <1>1, <1>2
  <2>3. r.pc # "decrypt" => bar.rank <= 40 /\ s.phase # "decrypting"
    BY <1>1, <1>2
  <2> QED
    BY <1>1, <1>2, <2>1, <2>2, <2>3 DEF MayReport
<1>5. listener' /\ received' = None /\ hash' \in Hashes /\ screen' # "boot"
      /\ input' \in Credential \cup {None} /\ (~r.edited => r.cred = input')
    BY <1>1, <1>2 DEF pageVars
<1> QED
    BY <1>3, <1>4, <1>5, ReportKeeps

\* The panel remembers the same progress under a status that leaves pc alone.
LEMMA SamePC == ASSUME RcvInv, Receiving PROVE [rcv EXCEPT !.pc = rcv.pc] = rcv
<1>1. rcv \in RcvState
    BY RunningFacts
<1> QED
    BY <1>1 DEF RcvState

LEMMA ActivityKeeps ==
    ASSUME RcvInv, UNCHANGED pageVars, NEW kind, NEW n \in Nat, Activity(kind, n)
    PROVE  RcvInv' /\ NotBack(bar, bar')
<1>1. Receiving /\ UNCHANGED <<input, listener, received, hash>>
    BY DEF Activity, RcvInv
<1>2. /\ rcv \in RcvState /\ rcv.cred \in Credential /\ rcv.completed \in Nat
      /\ 0 \in Nat
    BY <1>1, RunningFacts DEF RcvState
<1>3. PICK s \in Mapped(rcv, kind, n) : Become(Report(<<rcv, bar>>, s))
    BY DEF Activity
<1> DEFINE early == {"resolving_window", "awaiting_metadata_block",
                     "waiting_metadata_block"}
<1>4. early \subseteq DOMAIN Rank /\ "downloading" \notin early /\ "decrypting" \notin early
      /\ "resolving_window" \in early /\ "awaiting_metadata_block" \in early
      /\ "waiting_metadata_block" \in early
    BY Ranks
<1> HIDE DEF early
<1>5. /\ StatusOK(s)
      /\ s.phase # "decrypting"
      /\ s.phase = "downloading" => rcv.parsed /\ s.completed = rcv.completed
  <2>1. \/ s = Phase("resolving_window", 0, 0)
        \/ s = Phase("awaiting_metadata_block", 0, n)
        \/ rcv.parsed /\ s = Downloading(rcv, rcv.completed, n)
        \/ s = Phase("waiting_metadata_block", 0, 0)
    BY <1>3 DEF Mapped
  <2>2. CASE rcv.parsed /\ s = Downloading(rcv, rcv.completed, n)
    BY <1>2, <2>2, DownloadingIsStatus
  <2>3. CASE s = Phase("resolving_window", 0, 0)
    BY <1>2, <1>4, <2>3, PhasesAreStatus
  <2>4. CASE s = Phase("awaiting_metadata_block", 0, n)
    BY <1>2, <1>4, <2>4, PhasesAreStatus
  <2>5. CASE s = Phase("waiting_metadata_block", 0, 0)
    BY <1>2, <1>4, <2>5, PhasesAreStatus
  <2> QED
    BY <2>1, <2>2, <2>3, <2>4, <2>5
<1>6. s.phase = "downloading" => rcv.parsed /\ s.completed >= rcv.completed
    BY <1>2, <1>5
<1>7. Become(Report(<<[rcv EXCEPT !.pc = rcv.pc], bar>>, s))
    BY <1>1, <1>3, SamePC
<1>8. UNCHANGED <<pageVars, input, listener, received, hash>>
    BY <1>1 DEF pageVars
<1> QED
    BY <1>1, <1>5, <1>6, <1>7, <1>8, StepReports

LEMMA ParsedKeeps ==
    ASSUME RcvInv, UNCHANGED pageVars, NEW n \in Nat, Parsed(n)
    PROVE  RcvInv' /\ NotBack(bar, bar')
<1>1. /\ rcv.pc = "block0" /\ Receiving
      /\ UNCHANGED <<input, listener, received, hash>>
    BY DEF Parsed, Receiving
<1>2. /\ rcv \in RcvState /\ bar \in BarState /\ rcv.pc # "idle"
      /\ listener = TRUE /\ screen # "boot" /\ received = None /\ hash \in Hashes
      /\ rcv.cred \in Credential /\ Agrees(rcv, bar)
      /\ input \in Credential \cup {None} /\ (~rcv.edited => rcv.cred = input)
      /\ rcv.parsed = FALSE /\ bar.locked = FALSE /\ bar.rank <= 40
  <2>1. rcv.parsed \in BOOLEAN /\ bar.locked \in BOOLEAN
    BY <1>1, RunningFacts DEF BarState, RcvState
  <2> QED
    BY <1>1, <2>1, RunningFacts
<1> DEFINE s == Phase("parsing_metadata", 0, 0)
           r == [rcv EXCEPT !.pc = "blocks"]
           b == Painted(bar, Reported(r, s))
           known == [Marked(r, s) EXCEPT !.parsed = TRUE, !.completed = 1]
           t == Downloading(known, 1, n)
<1>3. Become(Report(<<known, b>>, t))
    BY DEF Parsed, Report
<1>4. /\ r \in RcvState /\ r.pc = "blocks" /\ r.cred = rcv.cred
      /\ r.edited = rcv.edited /\ r.transferred = rcv.transferred
      /\ r.completed = rcv.completed
    BY <1>2 DEF RcvState
<1>5. Agrees(r, bar)
    BY <1>2, <1>4 DEF Agrees
<1>6. StatusOK(s) /\ s.phase = "parsing_metadata" /\ Rank["parsing_metadata"] = 30
    BY PhasesAreStatus, Ranks
<1> HIDE DEF s, r
<1>7. /\ Marked(r, s) \in RcvState /\ b \in BarState
      /\ Agrees(Marked(r, s), b) /\ NotBack(bar, b)
      /\ Marked(r, s).pc = "blocks" /\ Marked(r, s).cred = rcv.cred
      /\ Marked(r, s).edited = rcv.edited
      /\ b.locked => bar.locked
      /\ b.rank = bar.rank \/ b.rank = 30
      /\ b.prefetch = bar.prefetch
  <2>1. r.cred \in Credential /\ s.phase # "downloading"
    BY <1>2, <1>4, <1>6
  <2>2. s.phase \notin {"awaiting_metadata_block", "downloading"}
    BY <1>6
  <2>3. /\ Marked(r, s) \in RcvState /\ b \in BarState
        /\ Agrees(Marked(r, s), b) /\ NotBack(bar, b)
        /\ Marked(r, s).pc = r.pc /\ Marked(r, s).cred = r.cred
        /\ Marked(r, s).edited = r.edited
        /\ b.locked => bar.locked \/ s.phase = "downloading"
        /\ b.rank = bar.rank \/ b.rank = Rank[s.phase]
        /\ s.phase \notin {"awaiting_metadata_block", "downloading"} =>
               b.prefetch = bar.prefetch
    BY <1>2, <1>4, <1>5, <1>6, <2>1, ReportFacts
  <2> QED
    BY <1>4, <1>6, <2>1, <2>2, <2>3
<1> HIDE DEF b
<1>8. /\ known \in RcvState /\ known.pc = "blocks" /\ known.cred = rcv.cred
      /\ known.edited = rcv.edited /\ known.parsed = TRUE /\ known.completed = 1
      /\ known.transferred = Marked(r, s).transferred
    BY <1>7 DEF RcvState
<1> HIDE DEF known
<1>9. StatusOK(t) /\ t.phase = "downloading" /\ t.completed = 1
    BY <1>2, <1>8, DownloadingIsStatus
<1> HIDE DEF t
<1>10. Agrees(known, b) /\ b.locked = FALSE /\ b.rank <= 40
  <2>1. b.locked = FALSE
    BY <1>2, <1>7 DEF BarState
  <2> QED
    BY <1>2, <1>7, <1>8, <2>1 DEF Agrees
<1>11. MayReport(known, b, t)
  <2>1. known.parsed = (known.pc \in {"blocks", "decrypt"})
    BY <1>8
  <2>2. /\ t.completed >= known.completed /\ known.pc # "decrypt" /\ known.pc # "idle"
        /\ t.phase # "decrypting" /\ known.cred \in Credential
    BY <1>2, <1>8, <1>9
  <2> QED
    BY <1>7, <1>8, <1>9, <1>10, <2>1, <2>2 DEF MayReport
<1>12. listener' /\ received' = None /\ hash' \in Hashes /\ screen' # "boot"
       /\ input' \in Credential \cup {None} /\ (~known.edited => known.cred = input')
    BY <1>1, <1>2, <1>8 DEF pageVars
<1>13. RcvInv' /\ NotBack(b, bar')
    BY <1>3, <1>11, <1>12, ReportKeeps
<1>14. NotBack(bar, bar')
  <2>1. bar' \in BarState
    BY <1>13 DEF RcvInv, ReceiveTypeOK, BarState
  <2> QED
    BY <1>2, <1>7, <1>13, <2>1, Ranks DEF NotBack, BarState
<1> QED
    BY <1>13, <1>14

\* The download starts: from the button, or from the link of the page.
LEMMA StartKeeps ==
    ASSUME RcvInv, ~Receiving, NEW c \in Credential, Start(c),
           received' = None, hash' \in Hashes, screen' # "boot", input' = c
    PROVE  RcvInv' /\ NotBack(bar, bar')
<1> DEFINE r == [NoContext EXCEPT !.pc = "window", !.cred = c]
           s == Phase("resolving_initial", 0, 0)
<1>1. listener' /\ Become(Report(<<r, bar>>, s))
    BY DEF Start
<1>2. /\ r \in RcvState /\ r.pc = "window" /\ r.cred = c /\ r.parsed = FALSE
      /\ r.transferred = 0
    BY NoneIsQuiet DEF RcvState, NoContext
<1>3. /\ bar \in BarState /\ bar.rank = 0 /\ bar.locked = FALSE /\ bar.blocks = 0
      /\ bar.bytes = 0
    BY NoneIsQuiet DEF RcvInv
<1>4. StatusOK(s) /\ s.phase = "resolving_initial"
    BY PhasesAreStatus, Ranks
<1> HIDE DEF r, s
<1>5. Agrees(r, bar)
  <2>1. NumTokens[c] \in Nat
    BY WebReceiveAssumption
  <2> QED
    BY <1>2, <1>3, <2>1 DEF Agrees
<1>6. MayReport(r, bar, s)
  <2>1. s.phase # "downloading" /\ s.phase # "decrypting"
    BY <1>4
  <2>2. r.parsed = (r.pc \in {"blocks", "decrypt"}) /\ r.pc # "idle"
    <3>1. (r.pc \in {"blocks", "decrypt"}) = FALSE
      BY <1>2
    <3> QED
      BY <1>2, <3>1
  <2> QED
    BY <1>2, <1>3, <1>4, <1>5, <2>1, <2>2 DEF MayReport
<1> QED
    BY <1>1, <1>2, <1>6, ReportKeeps

\* The download ends, with a file or without.
LEMMA EndKeeps ==
    ASSUME RcvInv, UNCHANGED pageVars, Decrypted \/ DownloadFails
    PROVE  RcvInv' /\ ~Receiving'
<1>1. PICK f \in {rcv.cred, received} : Ends(f) /\ Receiving
    BY DEF Decrypted, DownloadFails, Receiving
<1>2. /\ rcv \in RcvState /\ screen # "boot" /\ received = None /\ hash \in Hashes
      /\ rcv.cred \in Credential /\ input \in Credential \cup {None}
      /\ ~rcv.edited => rcv.cred = input
    BY <1>1, RunningFacts
<1>3. /\ listener' = FALSE /\ bar' = Quiet /\ received' = f
      /\ rcv' = [NoContext EXCEPT !.edited = rcv.edited]
      /\ UNCHANGED <<input, hash>>
    BY <1>1 DEF Ends, Detach
<1>4. rcv' \in RcvState /\ rcv'.pc = "idle" /\ rcv'.edited = rcv.edited
  <2>1. rcv.edited \in BOOLEAN
    BY <1>2 DEF RcvState
  <2> QED
    BY <1>3, <2>1, NoneIsQuiet DEF RcvState
<1>5. ReceiveTypeOK'
    BY <1>2, <1>3, <1>4, NoneIsQuiet DEF ReceiveTypeOK, RcvState, BarState
<1>6. ~Receiving' /\ (received' # None /\ ~rcv'.edited => received' = input')
    BY <1>2, <1>3, <1>4 DEF Receiving
<1>7. listener' = Receiving'
    BY <1>3, <1>4 DEF Receiving
<1> QED
    BY <1>3, <1>5, <1>6, <1>7 DEF RcvInv

LEMMA EditKeeps ==
    ASSUME RcvInv, UNCHANGED pageVars, screen # "boot",
           NEW c \in Credential \cup {None}, Edit(c)
    PROVE  RcvInv' /\ (Receiving => NotBack(bar, bar'))
<1> DEFINE touched == Receiving /\ (rcv.edited \/ c # input)
<1>1. /\ input' = c /\ received' = None /\ rcv' = [rcv EXCEPT !.edited = touched]
      /\ bar' = (IF Receiving THEN bar ELSE Quiet) /\ UNCHANGED <<listener, hash>>
    BY DEF Edit, Changed, HideFile
<1>2. /\ ReceiveTypeOK /\ rcv \in RcvState /\ bar \in BarState /\ hash \in Hashes
      /\ listener = Receiving /\ listener \in BOOLEAN
    BY DEF RcvInv, ReceiveTypeOK, RcvState, BarState
<1>3. ASSUME NEW b \in BOOLEAN, rcv' = [rcv EXCEPT !.edited = b]
      PROVE  /\ rcv' \in RcvState /\ rcv'.pc = rcv.pc /\ rcv'.cred = rcv.cred
             /\ rcv'.parsed = rcv.parsed /\ rcv'.completed = rcv.completed
             /\ rcv'.transferred = rcv.transferred /\ rcv'.edited = b
    BY <1>2, <1>3 DEF RcvState
<1>4. touched \in BOOLEAN
    BY DEF Receiving
<1>5. /\ rcv' \in RcvState /\ rcv'.pc = rcv.pc /\ rcv'.cred = rcv.cred
      /\ rcv'.parsed = rcv.parsed /\ rcv'.completed = rcv.completed
      /\ rcv'.transferred = rcv.transferred /\ rcv'.edited = touched
  <2> HIDE DEF touched
  <2> QED
    BY <1>1, <1>3, <1>4
<1>6. Receiving' = Receiving
    BY <1>5 DEF Receiving
<1>7. bar' \in BarState
    BY <1>1, <1>2, NoneIsQuiet
<1>8. ReceiveTypeOK'
    BY <1>1, <1>2, <1>5, <1>7 DEF ReceiveTypeOK, RcvState, BarState
<1>9. CASE Receiving
  <2>1. bar' = bar
    BY <1>1, <1>9
  <2>2. Agrees(rcv', bar')
    BY <1>5, <1>9, <2>1 DEF RcvInv, Agrees
  <2>3. RcvInv'
    BY <1>1, <1>2, <1>5, <1>6, <1>8, <1>9, <2>1, <2>2 DEF RcvInv, pageVars
  <2>4. NotBack(bar, bar)
    BY <1>2, Ranks DEF NotBack, BarState
  <2> QED
    BY <2>1, <2>3, <2>4
<1>10. CASE ~Receiving
    BY <1>1, <1>2, <1>5, <1>6, <1>8, <1>10 DEF RcvInv, pageVars
<1> QED
    BY <1>9, <1>10

\* The steps that report one status of their own.
LEMMA BlockKeeps ==
    ASSUME RcvInv, UNCHANGED pageVars, NEW n \in Nat,
           Prefetched(n) \/ BlockTaken(n) \/ Steer \/ Decrypt
    PROVE  RcvInv' /\ NotBack(bar, bar')
<1>1. Receiving /\ UNCHANGED <<pageVars, input, listener, received, hash>>
    BY DEF Prefetched, BlockTaken, Steer, Decrypt, Receiving, pageVars
<1>2. /\ rcv \in RcvState /\ rcv.cred \in Credential
      /\ rcv.completed \in Nat /\ 0 \in Nat /\ rcv.completed + 1 \in Nat
      /\ rcv.parsed = (rcv.pc \in {"blocks", "decrypt"})
      /\ [rcv EXCEPT !.pc = rcv.pc] = rcv
    BY <1>1, RunningFacts, SamePC DEF RcvState
<1>3. CASE Prefetched(n)
  <2> DEFINE s == Phase("awaiting_metadata_block", 0, n)
  <2>1. /\ StatusOK(s) /\ s.phase = "awaiting_metadata_block"
    <3>1. "awaiting_metadata_block" \in DOMAIN Rank
      BY Ranks
    <3> QED
      BY <1>2, <3>1, PhasesAreStatus
  <2>2. rcv.pc = "window" /\ Become(Report(<<[rcv EXCEPT !.pc = "block0"], bar>>, s))
    BY <1>3 DEF Prefetched
  <2> HIDE DEF s
  <2> QED
    BY <1>1, <2>1, <2>2, StepReports
<1>4. CASE BlockTaken(n)
  <2> DEFINE s == Downloading(rcv, rcv.completed + 1, n)
  <2>1. /\ StatusOK(s) /\ s.phase = "downloading" /\ s.completed = rcv.completed + 1
    BY <1>2, DownloadingIsStatus
  <2>2. rcv.pc = "blocks" /\ Become(Report(<<rcv, bar>>, s))
    BY <1>4 DEF BlockTaken
  <2> HIDE DEF s
  <2>3. rcv.parsed /\ s.completed >= rcv.completed /\ rcv.pc # "decrypt"
    <3>1. s.completed >= rcv.completed /\ rcv.pc # "decrypt"
      BY <1>2, <2>1, <2>2
    <3>2. rcv.pc \in {"blocks", "decrypt"}
      BY <2>2
    <3> QED
      BY <1>2, <3>1, <3>2
  <2>4. Become(Report(<<[rcv EXCEPT !.pc = rcv.pc], bar>>, s))
    BY <1>2, <2>2
  <2> QED
    BY <1>1, <2>1, <2>3, <2>4, StepReports
<1>5. CASE Steer
  <2> DEFINE s == Phase("resolving_window", 0, 0)
  <2>1. /\ StatusOK(s) /\ s.phase = "resolving_window"
    BY PhasesAreStatus, Ranks
  <2>2. Become(Report(<<[rcv EXCEPT !.pc = rcv.pc], bar>>, s))
    BY <1>2, <1>5 DEF Steer
  <2> HIDE DEF s
  <2> QED
    BY <1>1, <2>1, <2>2, StepReports
<1>6. CASE Decrypt
  <2> DEFINE s == Phase("decrypting", 0, 0)
  <2>1. /\ StatusOK(s) /\ s.phase = "decrypting"
    BY PhasesAreStatus, Ranks
  <2>2. rcv.pc = "blocks" /\ Become(Report(<<[rcv EXCEPT !.pc = "decrypt"], bar>>, s))
    BY <1>6 DEF Decrypt
  <2> HIDE DEF s
  <2> QED
    BY <1>1, <2>1, <2>2, StepReports
<1> QED
    BY <1>3, <1>4, <1>5, <1>6

\* Every step of the panel keeps the invariant, and the progress while it shows any.
LEMMA ReceiveKeeps ==
    ASSUME RcvInv, UNCHANGED pageVars,
           ReceiveStep \/ (screen = "app" /\ ReceiveNext)
    PROVE  RcvInv' /\ (Receiving /\ Receiving' => NotBack(bar, bar'))
<1>1. ASSUME ReceiveStep PROVE RcvInv' /\ (Receiving /\ Receiving' => NotBack(bar, bar'))
  <2>1. ASSUME NEW n \in 0 .. MaxBytes, Prefetched(n) \/ Parsed(n) \/ BlockTaken(n)
        PROVE  RcvInv' /\ NotBack(bar, bar')
    <3>1. n \in Nat
      OBVIOUS
    <3> QED
      BY <2>1, <3>1, ParsedKeeps, BlockKeeps
  <2>2. CASE Decrypt
    BY <2>2, BlockKeeps
  <2>3. CASE Decrypted \/ DownloadFails
    BY <2>3, EndKeeps
  <2> QED
    BY <1>1, <2>1, <2>2, <2>3 DEF ReceiveStep
<1>2. ASSUME screen = "app", Download PROVE RcvInv' /\ ~Receiving
  <2>1. /\ ~Receiving /\ received = None /\ input # None /\ Start(input)
        /\ UNCHANGED <<input, received, hash>>
    BY <1>2 DEF Download, MayDownload
  <2>2. input \in Credential /\ hash' \in Hashes /\ screen' # "boot"
    BY <1>2, <2>1 DEF RcvInv, ReceiveTypeOK, pageVars
  <2> QED
    BY <2>1, <2>2, StartKeeps
<1>3. ASSUME screen = "app", NEW c \in Credential \cup {None}, Edit(c)
      PROVE  RcvInv' /\ (Receiving => NotBack(bar, bar'))
  <2>1. screen # "boot"
    BY <1>3
  <2> QED
    BY <1>3, <2>1, EditKeeps
<1>4. ASSUME NEW kind \in Kinds, NEW n \in 0 .. MaxBytes, Activity(kind, n)
      PROVE  RcvInv' /\ NotBack(bar, bar')
  <2>1. n \in Nat
    OBVIOUS
  <2> QED
    BY <1>4, <2>1, ActivityKeeps
<1>5. ASSUME Steer PROVE RcvInv' /\ NotBack(bar, bar')
    BY <1>5, BlockKeeps
<1> QED
    BY <1>1, <1>2, <1>3, <1>4, <1>5 DEF ReceiveNext

\* The page opens: its hash is consumed.
LEMMA ConsumeKeeps ==
    ASSUME RcvInv, RuntimeReady("boot"), ConsumeIntent
    PROVE  RcvInv' /\ ~Receiving
<1>1. /\ ~Receiving /\ screen' # "boot" /\ hash' = NoHash /\ hash' \in Hashes
    BY NoneIsQuiet DEF RuntimeReady, ConsumeIntent, RcvInv
<1> DEFINE intent == ParseIntent(hash)
<1>2. intent.kind = "valid" => intent.cred \in Credential
    BY DEF ParseIntent, NoIntent
<1>3. CASE intent.kind = "valid" /\ intent.auto
  <2>1. input' = intent.cred /\ received' = None /\ Start(intent.cred)
    BY <1>3 DEF ConsumeIntent, Changed, HideFile
  <2> HIDE DEF intent
  <2> QED
    BY <1>1, <1>2, <1>3, <2>1, StartKeeps
<1>4. CASE intent.kind = "valid" /\ ~intent.auto
  <2>1. /\ input' = intent.cred /\ received' = None /\ UNCHANGED <<rcv, listener, bar>>
    BY <1>4 DEF ConsumeIntent, Changed, HideFile
  <2> HIDE DEF intent
  <2> QED
    BY <1>1, <1>2, <1>4, <2>1 DEF RcvInv, ReceiveTypeOK, Receiving
<1>5. CASE intent.kind # "valid"
  <2>1. UNCHANGED <<input, rcv, listener, bar, received>>
    BY <1>5 DEF ConsumeIntent
  <2> QED
    BY <1>1, <2>1 DEF RcvInv, ReceiveTypeOK, Receiving
<1> QED
    BY <1>3, <1>4, <1>5

-----------------------------------------------------------------------------
(* Lifetimes.                                                              *)

\* A set of natural numbers that has a member has a smallest one.
LEMMA SmallestExists ==
    ASSUME NEW S, S \subseteq Nat, S # {}
    PROVE  \E m \in S : \A n \in S : m <= n
<1>1. PICK m \in S : \A n \in S : <<n, m>> \notin OpToRel(<, Nat)
    BY NatLessThanWellFounded, WFMin
<1>2. \A n \in S : ~(n < m)
    BY <1>1 DEF OpToRel
<1>3. m \in Nat /\ \A n \in S : n \in Nat
    BY <1>1
<1>4. ASSUME NEW n \in S PROVE m <= n
    BY <1>2, <1>3
<1> QED
    BY <1>4

LEMMA LifetimeFacts ==
    /\ Minute \in Nat \ {0} /\ HoursPerDay \in Nat \ {0}
    /\ Hour \in Nat \ {0} /\ MaxTtl \in Nat \ {0}
    /\ DefaultTtl \in 1 .. MaxTtl
    /\ DOMAIN Presets = 1 .. Len(Presets) /\ Len(Presets) \in Nat \ {0}
    /\ \A i \in DOMAIN Presets : Presets[i] \in 1 .. MaxTtl
<1>1. /\ Minute \in Nat \ {0} /\ HoursPerDay \in Nat \ {0}
      /\ DefaultTtl \in 1 .. MaxTtl /\ Presets \in Seq(1 .. MaxTtl) /\ Presets # <<>>
    BY OptionsAssumption
<1>2. Hour \in Nat \ {0}
    BY <1>1 DEF Hour
<1>3. MaxTtl \in Nat \ {0}
    BY <1>1, <1>2 DEF MaxTtl
<1>4. /\ DOMAIN Presets = 1 .. Len(Presets) /\ Len(Presets) \in Nat
      /\ Presets \in [1 .. Len(Presets) -> 1 .. MaxTtl]
    BY <1>1, LenProperties
<1>5. Len(Presets) # 0
    BY <1>1, EmptySeq
<1>6. \A i \in DOMAIN Presets : Presets[i] \in 1 .. MaxTtl
    BY <1>4
<1> QED
    BY <1>1, <1>2, <1>3, <1>4, <1>5, <1>6

\* nearestFileTtlPresetIndex finds a preset, and none is nearer.
LEMMA NearestIsPreset ==
    ASSUME NEW n \in Int
    PROVE  /\ NearestPreset(n) \in DOMAIN Presets
           /\ \A j \in DOMAIN Presets : Distance(NearestPreset(n), n) <= Distance(j, n)
<1> DEFINE D == DOMAIN Presets
<1>1. /\ D = 1 .. Len(Presets) /\ Len(Presets) \in Nat \ {0}
      /\ \A i \in D : Distance(i, n) \in Nat
    BY LifetimeFacts DEF Distance
<1> DEFINE S == {Distance(i, n) : i \in D}
<1>2. S \subseteq Nat /\ S # {}
    BY <1>1
<1>3. PICK d \in S : \A e \in S : d <= e
    BY <1>2, SmallestExists
<1> DEFINE I == {i \in D : Distance(i, n) = d}
<1>4. I \subseteq Nat /\ I # {}
    BY <1>1, <1>3
<1>5. PICK i \in I : \A j \in I : i <= j
    BY <1>4, SmallestExists
<1>6. i \in D /\ Distance(i, n) = d /\ \A j \in D : d <= Distance(j, n)
    BY <1>3, <1>5
<1>7. \A j \in 1 .. (i - 1) : Distance(j, n) > Distance(i, n)
  <2> SUFFICES ASSUME NEW j \in 1 .. (i - 1) PROVE Distance(j, n) > d
    BY <1>6
  <2>1. i \in 1 .. Len(Presets) /\ j \in D /\ j < i
    BY <1>1, <1>6
  <2>2. Distance(j, n) # d
    BY <1>1, <1>5, <2>1
  <2> QED
    BY <1>1, <1>6, <2>1, <2>2
<1> QED
    BY <1>6, <1>7 DEF NearestPreset

\* Quotient and remainder of a sum whose last part is small.
LEMMA DivisionIsUnique ==
    ASSUME NEW w \in Nat \ {0}, NEW k \in Nat, NEW r \in Nat, r < w
    PROVE  (w * k + r) \div w = k /\ (w * k + r) % w = r
<1> DEFINE m == w * k + r
           q == m \div w
           s == m % w
<1>1. m \in Nat /\ q \in Nat /\ s \in Nat /\ s < w /\ m = w * q + s
    OBVIOUS
<1> HIDE DEF q, s
<1>2. ASSUME q < k PROVE FALSE
  <2>1. PICK x \in Nat : k = q + 1 + x
    <3>1. k - q - 1 \in Nat /\ k = q + 1 + (k - q - 1)
      BY <1>1, <1>2
    <3> QED
      BY <3>1
  <2>2. w * k = w * q + w + w * x /\ w * x \in Nat /\ w * q \in Nat
    BY <1>1, <2>1
  <2> QED
    BY <1>1, <2>2
<1>3. ASSUME k < q PROVE FALSE
  <2>1. PICK x \in Nat : q = k + 1 + x
    <3>1. q - k - 1 \in Nat /\ q = k + 1 + (q - k - 1)
      BY <1>1, <1>3
    <3> QED
      BY <3>1
  <2>2. w * q = w * k + w + w * x /\ w * x \in Nat /\ w * k \in Nat
    BY <1>1, <2>1
  <2> QED
    BY <1>1, <2>2
<1>4. q = k
    BY <1>1, <1>2, <1>3
<1>5. s = r
    BY <1>1, <1>4
<1> QED
    BY <1>4, <1>5 DEF q, s

\* clampDurationParts: what it returns is a duration of at most a day.
LEMMA ClampIsDuration ==
    ASSUME NEW d \in Int \X Int \X Int
    PROVE  /\ Clamp(d) \in (0 .. HoursPerDay) \X (0 .. Minute - 1) \X (0 .. Minute - 1)
           /\ Seconds(Clamp(d)) \in 0 .. MaxTtl
<1> DEFINE c == << Between(0, HoursPerDay, d[1]), Between(0, Minute - 1, d[2]),
                   Between(0, Minute - 1, d[3]) >>
<1>1. /\ Minute \in Nat \ {0} /\ HoursPerDay \in Nat \ {0}
      /\ Hour \in Nat \ {0} /\ MaxTtl \in Nat \ {0}
    BY LifetimeFacts
<1>2. /\ c[1] \in 0 .. HoursPerDay /\ c[2] \in 0 .. Minute - 1
      /\ c[3] \in 0 .. Minute - 1
      /\ c \in (0 .. HoursPerDay) \X (0 .. Minute - 1) \X (0 .. Minute - 1)
    BY <1>1 DEF Between
<1>3. Clamp(d) = IF Seconds(c) > MaxTtl THEN <<HoursPerDay, 0, 0>> ELSE c
    BY DEF Clamp
<1> HIDE DEF c
<1>4. Seconds(c) \in Nat
  <2>1. c[1] * Hour \in Nat /\ c[2] * Minute \in Nat /\ c[3] \in Nat
    BY <1>1, <1>2
  <2> QED
    BY <2>1 DEF Seconds
<1>5. Seconds(<<HoursPerDay, 0, 0>>) = MaxTtl
  <2>1. HoursPerDay * Hour \in Nat /\ 0 * Minute = 0
    BY <1>1
  <2> QED
    BY <2>1 DEF Seconds, MaxTtl
<1>6. <<HoursPerDay, 0, 0>> \in (0 .. HoursPerDay) \X (0 .. Minute - 1) \X (0 .. Minute - 1)
    BY <1>1
<1> QED
    BY <1>1, <1>2, <1>3, <1>4, <1>5, <1>6

\* durationPartsFromSeconds: the parts of a lifetime add up to it.
LEMMA PartsAddUp ==
    ASSUME NEW n \in 0 .. MaxTtl
    PROVE  /\ Parts(n) \in (0 .. HoursPerDay) \X (0 .. Minute - 1) \X (0 .. Minute - 1)
           /\ Seconds(Parts(n)) = n
<1>1. /\ Minute \in Nat \ {0} /\ HoursPerDay \in Nat \ {0}
      /\ Hour \in Nat \ {0} /\ MaxTtl \in Nat \ {0} /\ n \in Nat /\ n <= MaxTtl
    BY LifetimeFacts
<1> DEFINE q == n \div Hour
           r == n % Hour
           a == r \div Minute
           b == r % Minute
<1>2. /\ q \in Nat /\ r \in Nat /\ r < Hour /\ n = Hour * q + r
      /\ Hour * q \in Nat
    BY <1>1
<1>3. /\ a \in Nat /\ b \in Nat /\ b < Minute /\ r = Minute * a + b
      /\ Minute * a \in Nat
    BY <1>1, <1>2
<1> HIDE DEF q, r, a, b
<1>4. q <= HoursPerDay
  <2> SUFFICES ASSUME HoursPerDay < q PROVE FALSE
    BY <1>1, <1>2
  <2>1. PICK x \in Nat : q = HoursPerDay + 1 + x
    <3>1. q - HoursPerDay - 1 \in Nat /\ q = HoursPerDay + 1 + (q - HoursPerDay - 1)
      BY <1>1, <1>2
    <3> QED
      BY <3>1
  <2>2. Hour * q = HoursPerDay * Hour + Hour + Hour * x /\ Hour * x \in Nat
        /\ HoursPerDay * Hour \in Nat
    BY <1>1, <2>1
  <2> QED
    BY <1>1, <1>2, <2>2 DEF MaxTtl
<1>5. a < Minute
  <2> SUFFICES ASSUME Minute <= a PROVE FALSE
    BY <1>1, <1>3
  <2>1. PICK x \in Nat : a = Minute + x
    <3>1. a - Minute \in Nat /\ a = Minute + (a - Minute)
      BY <1>1, <1>3
    <3> QED
      BY <3>1
  <2>2. Minute * a = Minute * Minute + Minute * x /\ Minute * x \in Nat
        /\ Minute * Minute \in Nat
    BY <1>1, <2>1
  <2> QED
    BY <1>2, <1>3, <2>2 DEF Hour
<1>6. n % Minute = b
  <2>1. Minute * q \in Nat /\ Minute * q + a \in Nat
    BY <1>1, <1>2, <1>3
  <2>2. n = Minute * (Minute * q + a) + b
    BY <1>1, <1>2, <1>3, <2>1 DEF Hour
  <2> QED
    BY <1>1, <1>3, <2>1, <2>2, DivisionIsUnique
<1> DEFINE p == <<q, a, b>>
<1>7. Between(0, MaxTtl, n) = n
    BY <1>1 DEF Between
<1>8. Parts(n) = Clamp(p)
    BY <1>6, <1>7 DEF Parts, q, a, r
<1>9. Seconds(p) = n
  <2>1. q * Hour = Hour * q /\ a * Minute = Minute * a
    BY <1>1, <1>2, <1>3
  <2> QED
    BY <1>2, <1>3, <2>1 DEF Seconds
<1>10. /\ Between(0, HoursPerDay, q) = q
       /\ Between(0, Minute - 1, a) = a /\ Between(0, Minute - 1, b) = b
    BY <1>1, <1>2, <1>3, <1>4, <1>5 DEF Between
<1>11. Clamp(p) = p
    BY <1>1, <1>9, <1>10 DEF Clamp
<1> QED
    BY <1>1, <1>2, <1>3, <1>4, <1>5, <1>8, <1>9, <1>11

-----------------------------------------------------------------------------
(* The options.                                                            *)

\* What the panel shows is made of the stored lifetime, and the stored style is one
\* the validation lets pass, so reading it back changes nothing.
OptionsInv ==
    /\ boxes \subseteq Box /\ style \subseteq Box
    /\ duration \in Int \X Int \X Int
    /\ ttl \in 0 .. MaxTtl
    /\ ttlLabel = Parts(EffectiveTtl)
    /\ slider = NearestPreset(EffectiveTtl)
    /\ styleLabel = style
    /\ ValidStyle(style)

LEMMA EffectiveFacts ==
    ASSUME ttl \in 0 .. MaxTtl
    PROVE  /\ EffectiveTtl \in 1 .. MaxTtl
           /\ ttl # 0 => EffectiveTtl = ttl
<1>1. ttl \in Nat /\ ttl <= MaxTtl /\ MaxTtl \in Nat \ {0} /\ DefaultTtl \in 1 .. MaxTtl
    BY LifetimeFacts
<1>2. CASE ttl = 0
    BY <1>1, <1>2 DEF EffectiveTtl
<1>3. CASE ttl # 0
  <2>1. ttl >= 1 /\ Between(1, MaxTtl, ttl) = ttl
    BY <1>1, <1>3 DEF Between
  <2> QED
    BY <1>1, <1>3, <2>1 DEF EffectiveTtl
<1> QED
    BY <1>2, <1>3

LEMMA PartsAreDuration ==
    ASSUME NEW n \in 1 .. MaxTtl
    PROVE  Parts(n) \in Int \X Int \X Int
<1>1. n \in 0 .. MaxTtl /\ Minute \in Nat /\ HoursPerDay \in Nat
    BY LifetimeFacts
<1>2. Parts(n) \in (0 .. HoursPerDay) \X (0 .. Minute - 1) \X (0 .. Minute - 1)
    BY <1>1, PartsAddUp
<1> QED
    BY <1>1, <1>2

\* The style with nothing stored is valid.
LEMMA DefaultIsValid == ValidStyle({"uppercase", "lowercase"})
<1> DEFINE o == {"uppercase", "lowercase"}
<1>1. Letters(o) = {"upper", "lower"} /\ LetterOnly(o) = {} /\ DigitOnly(o) = {}
    BY DEF Letters, LetterOnly, DigitOnly
<1>2. \A i \in Position : Charset(i, o) # {}
    BY <1>1 DEF Charset
<1> QED
    BY <1>1, <1>2 DEF ValidStyle

LEMMA OptionsStart == OptionsInit => OptionsInv
<1> SUFFICES ASSUME OptionsInit PROVE OptionsInv
    OBVIOUS
<1>1. DefaultTtl \in 1 .. MaxTtl /\ 0 \in 0 .. MaxTtl
    BY LifetimeFacts
<1>2. EffectiveTtl = DefaultTtl
    BY DEF OptionsInit, EffectiveTtl
<1>3. boxes \subseteq Box /\ style \subseteq Box
    BY DEF OptionsInit, Box
<1>4. ValidStyle(style)
    BY DefaultIsValid DEF OptionsInit
<1> QED
    BY <1>1, <1>2, <1>3, <1>4, PartsAreDuration DEF OptionsInit, OptionsInv

\* A lifetime that is stored is what the panel then shows.
LEMMA StoredIsShown ==
    ASSUME OptionsInv, NEW n \in 1 .. MaxTtl, ttl' = n, ApplyTtl(n), UNCHANGED styleVars
    PROVE  OptionsInv'
<1>1. n \in 0 .. MaxTtl /\ n # 0 /\ MaxTtl \in Nat \ {0}
    BY LifetimeFacts
<1>2. EffectiveTtl' = n
    BY <1>1 DEF EffectiveTtl, Between
<1>3. Parts(n) \in Int \X Int \X Int
    BY PartsAreDuration
<1> QED
    BY <1>1, <1>2, <1>3 DEF OptionsInv, ApplyTtl, styleVars

LEMMA TtlKeeps ==
    ASSUME OptionsInv, TtlNext
    PROVE  OptionsInv'
<1>1. ASSUME NEW i \in DOMAIN Presets, ChoosePreset(i) PROVE OptionsInv'
  <2>1. Presets[i] \in 1 .. MaxTtl
    BY LifetimeFacts
  <2> QED
    BY <1>1, <2>1, StoredIsShown DEF ChoosePreset
<1>2. ASSUME NEW d \in DurationEntry, EnterDuration(d) PROVE OptionsInv'
  <2>1. /\ d \in Int \X Int \X Int /\ duration' = d
        /\ UNCHANGED <<boxes, style, styleLabel, ttl, ttlLabel, slider>>
    BY <1>2, OptionsAssumption DEF EnterDuration, styleVars
  <2> QED
    BY <2>1 DEF OptionsInv, EffectiveTtl
<1>3. CASE ClampDuration
  <2>1. /\ duration' = Clamp(duration)
        /\ UNCHANGED <<boxes, style, styleLabel, ttl, ttlLabel, slider>>
    BY <1>3 DEF ClampDuration, styleVars
  <2>2. Clamp(duration) \in (0 .. HoursPerDay) \X (0 .. Minute - 1) \X (0 .. Minute - 1)
    BY ClampIsDuration DEF OptionsInv
  <2>3. Clamp(duration) \in Int \X Int \X Int
    BY <2>2, LifetimeFacts
  <2> QED
    BY <2>1, <2>3 DEF OptionsInv, EffectiveTtl
<1>4. CASE ConfirmDuration
  <2>1. Seconds(Clamp(duration)) \in 1 .. MaxTtl
    <3>1. Seconds(Clamp(duration)) \in 0 .. MaxTtl
      BY ClampIsDuration DEF OptionsInv
    <3>2. Seconds(Clamp(duration)) > 0
      BY <1>4 DEF ConfirmDuration
    <3> QED
      BY <3>1, <3>2, LifetimeFacts
  <2> QED
    BY <1>4, <2>1, StoredIsShown DEF ConfirmDuration
<1> QED
    BY <1>1, <1>2, <1>3, <1>4 DEF TtlNext

LEMMA StyleKeeps ==
    ASSUME OptionsInv, StyleNext
    PROVE  OptionsInv'
<1>1. \A o \in SUBSET Box : WithWords(o) \in SUBSET Box
    BY DEF WithWords
<1>2. ASSUME NEW b \in Box, Toggle(b) PROVE OptionsInv'
  <2> DEFINE o == IF b \in boxes THEN boxes \ {b} ELSE boxes \cup {b}
  <2>1. o \in SUBSET Box
    BY DEF OptionsInv
  <2>2. boxes' \in {o, o \ {"last"}, o \ {"first"}, WithWords(o)}
    BY <1>2 DEF Toggle
  <2>3. boxes' \subseteq Box
    BY <1>1, <2>1, <2>2
  <2>4. UNCHANGED <<style, styleLabel, duration, ttl, ttlLabel, slider>>
    BY <1>2 DEF Toggle, ttlVars
  <2> QED
    BY <2>3, <2>4 DEF OptionsInv, EffectiveTtl
<1>3. CASE ConfirmStyle
  <2>1. ReadStyle \subseteq Box
    BY <1>1 DEF ReadStyle, OptionsInv
  <2>2. PICK o : o = ReadStyle
    OBVIOUS
  <2>3. /\ ValidStyle(o) /\ style' = o /\ styleLabel' = o
        /\ UNCHANGED <<boxes, duration, ttl, ttlLabel, slider>>
    BY <1>3, <2>2 DEF ConfirmStyle, ttlVars
  <2> QED
    BY <2>1, <2>2, <2>3 DEF OptionsInv, EffectiveTtl
<1> QED
    BY <1>2, <1>3 DEF StyleNext

-----------------------------------------------------------------------------
(* Credentials.                                                            *)

LEMMA PositionFacts ==
    /\ CredentialLength = 12 /\ Half = 6
    /\ Position = 0 .. 11 /\ FirstHalf = 0 .. 5
    /\ FirstHalf \subseteq Position /\ 0 \in FirstHalf /\ 0 \in Position
    /\ Position \ FirstHalf = 6 .. 11
<1>1. CredentialLength = 12
    BY DEF CredentialLength
<1>2. Half = 6
    BY <1>1 DEF Half
<1>3. Position = 0 .. 11 /\ FirstHalf = 0 .. 5
    BY <1>1, <1>2 DEF Position, FirstHalf
<1> QED
    BY <1>1, <1>2, <1>3

\* What a valid style says of the halves and of the letters.
LEMMA ValidFacts ==
    ASSUME NEW o \in SUBSET Box, ValidStyle(o)
    PROVE  /\ ~("first" \in o /\ "last" \in o)
           /\ "word" \in o => Letters(o) # {}
           /\ \A i \in Position : Charset(i, o) # {}
           /\ Letters(o) \subseteq {"upper", "lower"}
           /\ LetterOnly(o) \cap DigitOnly(o) = {}
           /\ LetterOnly(o) \subseteq Position /\ DigitOnly(o) \subseteq Position
<1>1. /\ ~("first" \in o /\ "last" \in o)
      /\ "word" \in o => Letters(o) # {}
      /\ \A i \in Position : Charset(i, o) # {}
    BY DEF ValidStyle
<1>2. Letters(o) \subseteq {"upper", "lower"}
    BY DEF Letters
<1>3. LetterOnly(o) \subseteq Position /\ DigitOnly(o) \subseteq Position
    BY PositionFacts DEF LetterOnly, DigitOnly
<1>4. LetterOnly(o) \cap DigitOnly(o) = {}
    BY <1>1 DEF LetterOnly, DigitOnly
<1> QED
    BY <1>1, <1>2, <1>3, <1>4

\* A set of hyphens that is empty, or one position, is a hyphen at most.
LEMMA OneHyphen ==
    ASSUME NEW o, NEW h, NEW S,
           h = {} \/ \E i : h = {i} /\ "hyphen" \in o, S \subseteq h
    PROVE  Cardinality(S) <= (IF "hyphen" \in o THEN 1 ELSE 0)
<1>1. IsFiniteSet(h) /\ Cardinality(h) \in Nat
      /\ Cardinality(h) <= (IF "hyphen" \in o THEN 1 ELSE 0)
  <2>1. CASE h = {}
    BY <2>1, FS_EmptySet
  <2>2. ASSUME NEW i, h = {i}, "hyphen" \in o
        PROVE  IsFiniteSet(h) /\ Cardinality(h) = 1
    BY <2>2, FS_Singleton
  <2>3. CASE h # {}
    BY <2>2, <2>3
  <2> QED
    BY <2>1, <2>3
<1>2. IsFiniteSet(S) /\ Cardinality(S) <= Cardinality(h)
    BY <1>1, FS_Subset
<1>3. Cardinality(S) \in Nat
    BY <1>2, FS_CardinalityType
<1> QED
    BY <1>1, <1>2, <1>3

LEMMA RandomFits ==
    ASSUME NEW o \in SUBSET Box, ValidStyle(o), "word" \notin o,
           NEW h \in RandomHyphens(o)
    PROVE  Fits(RandomCredential(o, h), o)
<1> DEFINE k == RandomCredential(o, h)
           hyphens == {i \in Position : "hyphen" \in k[i]}
<1>1. /\ \A i \in Position : Charset(i, o) # {}
      /\ Letters(o) \subseteq {"upper", "lower"}
      /\ LetterOnly(o) \cap DigitOnly(o) = {}
    BY ValidFacts
<1>2. /\ h = {} \/ \E i : h = {i} /\ "hyphen" \in o
      /\ h \cap LetterOnly(o) = {}
    BY DEF RandomHyphens
<1>3. \A i \in Position : k[i] = IF i \in h THEN {"hyphen"} ELSE Charset(i, o)
    BY DEF RandomCredential
<1> HIDE DEF k
<1>4. \A i \in Position :
          /\ Charset(i, o) \subseteq Letters(o) \cup {"digit"}
          /\ i \in LetterOnly(o) => Charset(i, o) = Letters(o)
          /\ i \in DigitOnly(o) => Charset(i, o) = {"digit"}
    BY <1>1 DEF Charset
<1>5. ASSUME NEW i \in Position
      PROVE  /\ k[i] # {}
             /\ k[i] \ {"digit", "hyphen"} \subseteq Letters(o)
             /\ i \in LetterOnly(o) => "digit" \notin k[i]
             /\ i \in DigitOnly(o) => k[i] \subseteq {"digit", "hyphen"}
             /\ "hyphen" \in k[i] => i \in h
  <2>1. CASE i \in h
    BY <1>3, <2>1
  <2>2. CASE i \notin h
    BY <1>1, <1>3, <1>4, <2>2
  <2> QED
    BY <2>1, <2>2
<1>6. hyphens \subseteq h
    BY <1>5
<1>7. Cardinality(hyphens) <= (IF "hyphen" \in o THEN 1 ELSE 0)
    BY <1>2, <1>6, OneHyphen
<1> QED
    BY <1>2, <1>5, <1>6, <1>7 DEF Fits, k

\* The words are in the half for letters, or everywhere.
LEMMA WordFits ==
    ASSUME NEW o \in SUBSET Box, ValidStyle(o), "word" \in o,
           NEW h \in WordHyphens(o)
    PROVE  Fits(WordCredential(o, h), o)
<1> DEFINE k == WordCredential(o, h)
           hyphens == {i \in Position : "hyphen" \in k[i]}
           case == Letters(o) \cup {"lower"}
<1>1. /\ Letters(o) # {} /\ Letters(o) \subseteq {"upper", "lower"}
      /\ LetterOnly(o) \subseteq Words(o) /\ DigitOnly(o) \cap Words(o) = {}
  <2>1. ~("first" \in o /\ "last" \in o) /\ Letters(o) # {}
        /\ Letters(o) \subseteq {"upper", "lower"}
    BY ValidFacts
  <2> QED
    BY <2>1 DEF LetterOnly, DigitOnly, Words
<1>2. h = {} \/ \E i : h = {i} /\ "hyphen" \in o
    BY DEF WordHyphens
<1>3. /\ Plain(o) # {} /\ Plain(o) \subseteq case
      /\ "digit" \notin Plain(o) /\ "hyphen" \notin Plain(o)
    BY <1>1 DEF Plain, Letters
<1>4. \A j \in Int :
          /\ Lead(j, o) # {} /\ Lead(j, o) \subseteq case
          /\ "digit" \notin Lead(j, o) /\ "hyphen" \notin Lead(j, o)
    BY <1>1, <1>3 DEF Lead, MayLeadUpper, Letters
<1>5. \A i \in Position :
          i \in Words(o) \/ k[i] = {"digit"}
    BY DEF WordCredential
<1>6. ASSUME NEW i \in Position, i \in Words(o)
      PROVE  \/ k[i] = {"hyphen"} /\ i \in h
             \/ /\ k[i] # {} /\ k[i] \subseteq case
                /\ "digit" \notin k[i] /\ "hyphen" \notin k[i]
  <2>1. CASE i \in h
    BY <1>6, <2>1 DEF WordCredential
  <2>2. CASE i \notin h
    <3>1. k[i] \in {LastConsonant, Plain(o), Lead(i, o), Lead(i - 1, o)}
      BY <1>6, <2>2 DEF WordCredential
    <3>2. LastConsonant # {} /\ LastConsonant \subseteq case
          /\ "digit" \notin LastConsonant /\ "hyphen" \notin LastConsonant
      BY DEF LastConsonant
    <3>3. i \in Int /\ i - 1 \in Int
      BY PositionFacts
    <3> HIDE DEF k, case
    <3> QED
      BY <1>3, <1>4, <3>1, <3>2, <3>3
  <2> QED
    BY <2>1, <2>2
<1> HIDE DEF k
<1>7. hyphens \subseteq h
    BY <1>5, <1>6
<1>8. Cardinality(hyphens) <= (IF "hyphen" \in o THEN 1 ELSE 0)
    BY <1>2, <1>7, OneHyphen
<1>9. ASSUME NEW i \in Position
      PROVE  /\ k[i] # {}
             /\ k[i] \ {"digit", "hyphen"} \subseteq case
             /\ i \in LetterOnly(o) => "digit" \notin k[i]
             /\ i \in DigitOnly(o) => k[i] \subseteq {"digit", "hyphen"}
  <2>1. CASE i \in Words(o)
    BY <1>1, <1>6, <2>1
  <2>2. CASE i \notin Words(o)
    BY <1>1, <1>5, <2>2
  <2> QED
    BY <2>1, <2>2
<1> QED
    BY <1>8, <1>9 DEF Fits, k

\* A valid style has credentials, and they fit it.
LEMMA ValidGenerates ==
    ASSUME NEW o \in SUBSET Box, ValidStyle(o)
    PROVE  Credentials(o) # {} /\ \A k \in Credentials(o) : Fits(k, o)
<1>1. {} \in WordHyphens(o) /\ {} \in RandomHyphens(o)
    BY DEF WordHyphens, RandomHyphens
<1>2. Credentials(o) # {}
    BY <1>1 DEF Credentials
<1>3. ASSUME NEW k \in Credentials(o) PROVE Fits(k, o)
  <2>1. CASE "word" \in o
    <3>1. PICK h \in WordHyphens(o) : k = WordCredential(o, h)
      BY <2>1 DEF Credentials
    <3> QED
      BY <2>1, <3>1, WordFits
  <2>2. CASE "word" \notin o
    <3>1. PICK h \in RandomHyphens(o) : k = RandomCredential(o, h)
      BY <2>2 DEF Credentials
    <3> QED
      BY <2>2, <3>1, RandomFits
  <2> QED
    BY <2>1, <2>2
<1> QED
    BY <1>2, <1>3

\* A style that passed the validation is read back as it was stored.
LEMMA StyleIsRead == OptionsInv => EffectiveStyle = style
BY DEF OptionsInv, ValidStyle, EffectiveStyle

LEMMA ShownIsUsed == OptionsInv => SettingsShowWhatSendUses
<1> SUFFICES ASSUME OptionsInv PROVE SettingsShowWhatSendUses
    OBVIOUS
<1>1. EffectiveTtl \in 1 .. MaxTtl
    BY EffectiveFacts DEF OptionsInv
<1>2. PICK n : n = EffectiveTtl
    OBVIOUS
<1>3. n \in 0 .. MaxTtl /\ n \in Int
    BY <1>1, <1>2, LifetimeFacts
<1>4. Seconds(Parts(n)) = n
    BY <1>3, PartsAddUp
<1>5. \A i \in DOMAIN Presets : Distance(NearestPreset(n), n) <= Distance(i, n)
    BY <1>3, NearestIsPreset
<1>6. ttlLabel = Parts(n) /\ slider = NearestPreset(n) /\ styleLabel = style
    BY <1>2 DEF OptionsInv
<1> QED
    BY <1>1, <1>2, <1>4, <1>5, <1>6, StyleIsRead DEF SettingsShowWhatSendUses

LEMMA InvGenerates == OptionsInv => StyleGenerates
<1> SUFFICES ASSUME OptionsInv PROVE StyleGenerates
    OBVIOUS
<1>1. EffectiveStyle = style /\ style \in SUBSET Box /\ ValidStyle(style)
    BY StyleIsRead DEF OptionsInv
<1>2. Credentials(style) # {} /\ \A k \in Credentials(style) : Fits(k, style)
    BY <1>1, ValidGenerates
<1> QED
    BY <1>1, <1>2 DEF StyleGenerates

LEMMA InvHasTypes == OptionsInv => OptionsTypeOK
<1> SUFFICES ASSUME OptionsInv PROVE OptionsTypeOK
    OBVIOUS
<1>1. EffectiveTtl \in 1 .. MaxTtl
    BY EffectiveFacts DEF OptionsInv
<1>2. PICK n : n = EffectiveTtl
    OBVIOUS
<1>3. n \in 0 .. MaxTtl /\ n \in Int
    BY <1>1, <1>2, LifetimeFacts
<1>4. Parts(n) \in (0 .. HoursPerDay) \X (0 .. Minute - 1) \X (0 .. Minute - 1)
    BY <1>3, PartsAddUp
<1>5. NearestPreset(n) \in DOMAIN Presets
    BY <1>3, NearestIsPreset
<1> QED
    BY <1>2, <1>4, <1>5 DEF OptionsInv, OptionsTypeOK

-----------------------------------------------------------------------------
(* The page with its panels.                                               *)

ClientInv == PageInv /\ SendInv /\ RcvInv

LEMMA InitInv == Init => ClientInv
<1> SUFFICES ASSUME Init PROVE ClientInv
    OBVIOUS
<1>1. PageInv
    BY DEF Init, PageInit, PageInv, PageTypeOK
<1>2. SendInv
    BY SendTypes
       DEF Init, PageInit, SendInit, SendInv, SendTypeOK, Captured, Spinning,
           LinkIsCurrent, StampIsTrue, Sending, SndState
<1> QED
    BY <1>1, <1>2, ReceiveInitInv DEF ClientInv

\* What does not touch a panel or the page keeps its part of the invariant.
LEMMA SendStays ==
    ASSUME PageInv, SendInv, UNCHANGED <<sendVars, pageVars>>
    PROVE  PageInv' /\ SendInv'
<1>1. UNCHANGED <<file, snd, shown, ratio, share, stamp, sent, screen, runtime, stored>>
    BY DEF sendVars, pageVars
<1> QED
    BY <1>1 DEF PageInv, PageTypeOK, SendInv, SendTypeOK, Captured, Spinning,
                LinkIsCurrent, StampIsTrue, Sending

LEMMA ReceiveStays ==
    ASSUME RcvInv, UNCHANGED receiveVars, screen' = "boot" => screen = "boot"
    PROVE  RcvInv'
<1>1. UNCHANGED <<input, rcv, listener, bar, received, hash>>
    BY DEF receiveVars
<1> QED
    BY <1>1 DEF RcvInv, ReceiveTypeOK, Receiving, Agrees

\* A step keeps the invariant, and the progress while the panel shows any.
LEMMA StepKeeps ==
    ASSUME ClientInv, [Next]_webVars
    PROVE  ClientInv' /\ [Receiving /\ Receiving' => NotBack(bar, bar')]_receiveVars
<1> DEFINE Forward == [Receiving /\ Receiving' => NotBack(bar, bar')]_receiveVars
<1>1. PageInv /\ SendInv /\ RcvInv
    BY DEF ClientInv
<1>2. ASSUME UNCHANGED receiveVars PROVE Forward
    BY <1>2
<1>3. CASE Boot
  <2>1. RuntimeReady("boot") /\ ConsumeIntent /\ UNCHANGED sendVars
    BY <1>3 DEF Boot
  <2> QED
    BY <1>1, <2>1, BootKeeps, ConsumeKeeps DEF ClientInv
<1>4. CASE (SendStep \/ SendNext) /\ UNCHANGED receiveVars
  <2>1. UNCHANGED pageVars
    BY <1>4
       DEF SendNext, SendStep, ChooseFile, Send, Fed, Imported, Occupied,
           Prepared, Revealed, Uploading, Uploaded, SendFails
  <2>2. PageInv' /\ SendInv'
    BY <1>1, <1>4, ChooseKeeps, SendKeeps, SendStepKeeps DEF SendNext
  <2>3. RcvInv'
    BY <1>1, <1>4, <2>1, ReceiveStays DEF pageVars
  <2> QED
    BY <1>2, <1>4, <2>2, <2>3 DEF ClientInv
<1>5. CASE Connect /\ UNCHANGED receiveVars
  <2>1. screen' # "boot"
    BY <1>1, <1>5
       DEF Connect, Reloaded, RuntimeReady, ResetSettings, ReloadFails, SaveSettings
  <2>2. RcvInv'
    BY <1>1, <1>5, <2>1, ReceiveStays
  <2> QED
    BY <1>1, <1>2, <1>5, <2>2, ConnectKeeps DEF ClientInv
<1>6. CASE /\ ReceiveStep \/ (screen = "app" /\ ReceiveNext)
           /\ UNCHANGED <<sendVars, pageVars>>
  <2>1. UNCHANGED pageVars
    BY <1>6
  <2>2. PageInv' /\ SendInv'
    BY <1>1, <1>6, SendStays
  <2>3. RcvInv' /\ (Receiving /\ Receiving' => NotBack(bar, bar'))
    BY <1>1, <1>6, <2>1, ReceiveKeeps
  <2> QED
    BY <2>2, <2>3 DEF ClientInv
<1>7. CASE UNCHANGED <<sendVars, pageVars, receiveVars>>
  <2>1. RcvInv'
    BY <1>1, <1>7, ReceiveStays DEF pageVars
  <2> QED
    BY <1>1, <1>2, <1>7, <2>1, SendStays DEF ClientInv
<1> HIDE DEF Forward
<1>8. CASE SendRuns
  <2>1. SendStep /\ UNCHANGED receiveVars
    BY <1>8 DEF SendRuns
  <2> QED
    BY <1>4, <2>1
<1>9. CASE ReceiveRuns
  <2>1. ReceiveStep /\ UNCHANGED <<sendVars, pageVars>>
    BY <1>9 DEF ReceiveRuns
  <2> QED
    BY <1>6, <2>1
<1>10. CASE SendNext /\ UNCHANGED <<session, optionVars, receiveVars>>
    BY <1>4, <1>10
<1>11. CASE Connect /\ UNCHANGED <<session, optionVars, receiveVars>>
    BY <1>5, <1>11
<1>12. CASE /\ screen = "app" /\ ReceiveNext
            /\ UNCHANGED <<session, optionVars, sendVars, pageVars>>
    BY <1>6, <1>12
<1>13. CASE UNCHANGED <<session, sendVars, pageVars, receiveVars>>
    BY <1>7, <1>13
<1>14. CASE UNCHANGED webVars
    BY <1>7, <1>14 DEF webVars
<1> QED
    BY <1>3, <1>8, <1>9, <1>10, <1>11, <1>12, <1>13, <1>14 DEF Next, Forward

LEMMA Invariance == Spec => []ClientInv
<1>1. ClientInv /\ [Next]_webVars => ClientInv'
    BY StepKeeps
<1> QED
    BY <1>1, InitInv, PTL DEF Spec

\* The options change only in the settings, and the session is chosen once.
LEMMA OptionsStep ==
    ASSUME OptionsInv, session \in Session, [Next]_webVars
    PROVE  OptionsInv' /\ session' \in Session
<1>1. UNCHANGED session
    BY DEF Next, Boot, SendRuns, ReceiveRuns, webVars
<1>2. UNCHANGED optionVars \/ TtlNext \/ StyleNext
    BY DEF Next, Boot, SendRuns, ReceiveRuns, webVars
<1>3. ASSUME UNCHANGED optionVars PROVE OptionsInv'
    BY <1>3 DEF OptionsInv, EffectiveTtl, optionVars
<1>4. OptionsInv'
    BY <1>2, <1>3, TtlKeeps, StyleKeeps
<1> QED
    BY <1>1, <1>4

LEMMA OptionsInvariance == Spec => [](OptionsInv /\ session \in Session)
<1> DEFINE I == OptionsInv /\ session \in Session
<1>1. Init => I
    BY OptionsStart DEF Init
<1>2. I /\ [Next]_webVars => I'
    BY OptionsStep
<1> QED
    BY <1>1, <1>2, PTL DEF Spec

-----------------------------------------------------------------------------
(* What follows from it.                                                   *)

\* The send panel puts its stamp only on a file whose own bytes were sent under its
\* own name with the credential it shows at rest; its link carries that credential
\* and the registry of the current connection (showSendShare, resetSendPanel).
THEOREM ShownUploadsAreTrue == Spec => []WhatIsShownWasUploaded
<1>1. ClientInv => WhatIsShownWasUploaded
  <2> SUFFICES ASSUME ClientInv PROVE WhatIsShownWasUploaded
    OBVIOUS
  <2>1. /\ SendTypeOK /\ LinkIsCurrent /\ StampIsTrue
    BY DEF ClientInv, SendInv
  <2>2. ASSUME share # None
        PROVE  ParseIntent(HashOf(share.cred)) =
                   [kind |-> "valid", cred |-> sent.cred, auto |-> TRUE]
    <3>1. share.cred \in Credential /\ share.cred = sent.cred
      BY <2>1, <2>2 DEF SendTypeOK, LinkIsCurrent
    <3> QED
      BY <3>1, LinkIsRead
  <2> QED
    BY <2>1, <2>2 DEF WhatIsShownWasUploaded, LinkIsCurrent, StampIsTrue, AtRest
<1> QED
    BY <1>1, Invariance, PTL

\* The reel spins without a running handleSend only after an attempt that met
\* occupied tokens (the catch clause of handleSend).
THEOREM ReelComesToRest == Spec => []ReelRests
<1>1. ClientInv => ReelRests
    BY DEF ClientInv, SendInv, Spinning, ReelRests, Sending
<1> QED
    BY <1>1, Invariance, PTL

\* A file is offered for saving only under the credential it was downloaded with,
\* and none from before while another download runs (showReceivedFile).
THEOREM OnlyWantedFilesAreShown == Spec => []ShownFileIsWanted
<1>1. ClientInv => ShownFileIsWanted
    BY DEF ClientInv, RcvInv, ShownFileIsWanted
<1> QED
    BY <1>1, Invariance, PTL

\* Whatever the transport still reports of requests that were repeated, given up or
\* left behind, the progress that is shown does not go back, and it is not shown
\* without a download (reportStatus, setReceiveDownloadProgress).
THEOREM ShownProgressOnlyGrows == Spec => ProgressNeverGoesBack
<1> DEFINE Holds ==
        /\ BarIsQuiet'
        /\ Receiving /\ Receiving' =>
               /\ bar'.rank >= bar.rank
               /\ bar'.blocks >= bar.blocks
               /\ bar'.bytes >= bar.bytes
               /\ bar.prefetch # None =>
                      bar'.prefetch = None \/ bar'.prefetch >= bar.prefetch
               /\ bar'.locked => bar'.blocks = rcv'.completed
<1>1. ClientInv /\ [Next]_webVars => [Holds]_receiveVars
  <2> SUFFICES ASSUME ClientInv, [Next]_webVars PROVE [Holds]_receiveVars
    OBVIOUS
  <2>1. RcvInv' /\ [Receiving /\ Receiving' => NotBack(bar, bar')]_receiveVars
    BY StepKeeps DEF ClientInv
  <2>2. BarIsQuiet'
    BY <2>1 DEF RcvInv, BarIsQuiet
  <2>3. Receiving' => (bar'.locked => bar'.blocks = rcv'.completed)
    BY <2>1 DEF RcvInv, Agrees
  <2> QED
    BY <2>1, <2>2, <2>3 DEF NotBack
<1> QED
    BY <1>1, Invariance, PTL DEF Spec, ProgressNeverGoesBack

\* What the settings panel says is what the next upload asks for, also when the
\* user confirms before the inputs were clamped (handleConfirmFileTtl,
\* handleConfirmCredentialStyle): a lifetime splits into hours, minutes and seconds
\* that add up to it, and a style that was validated is read back as it is.
THEOREM SettingsAreUsed == Spec => []SettingsShowWhatSendUses
BY ShownIsUsed, OptionsInvariance, PTL

\* A confirmed style always yields credentials, and they are of that style
\* (validateCredentialStyle, generateStyledCredential).
THEOREM StyleYieldsCredentials == Spec => []StyleGenerates
BY InvGenerates, OptionsInvariance, PTL

\* The state of the page, of its panels and of its settings has its type.
THEOREM PageTypeCorrect == Spec => []TypeOK
<1>1. ClientInv /\ OptionsInv /\ session \in Session => TypeOK
    BY InvHasTypes DEF ClientInv, PageInv, SendInv, RcvInv, TypeOK
<1> QED
    BY <1>1, Invariance, OptionsInvariance, PTL
=============================================================================
