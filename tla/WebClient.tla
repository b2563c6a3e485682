----------------------------- MODULE WebClient -----------------------------
(***************************************************************************)
(* The web client (client/web/src/app.ts): one page with a send panel, a   *)
(* receive panel and settings, driven by the user and by what running      *)
(* uploads and downloads report.  Panels share only the page: its start,   *)
(* its registry connection, and the reconnection, during which nothing can *)
(* be clicked but uploads and downloads go on.                             *)
(***************************************************************************)
EXTENDS WebOptions, WebSend, WebReceive

CONSTANT Session         \* bound: what the user of a page occupies himself with

ASSUME SessionAssumption == Session \subseteq {"send", "receive", "ttl", "style"}

VARIABLE session

webVars == <<session, optionVars, sendVars, pageVars, receiveVars>>

Init ==
    /\ session \in Session
    /\ PageInit
    /\ OptionsInit
    /\ SendInit
    /\ ReceiveInit
    /\ session # "receive" => hash = NoHash

\* startApp, when reloadRuntime has returned.  When it throws, the boot screen
\* stays for good.
Boot ==
    /\ RuntimeReady("boot")
    /\ ConsumeIntent
    /\ UNCHANGED <<session, optionVars, sendVars>>

SendRuns ==
    /\ SendStep
    /\ UNCHANGED <<session, optionVars, receiveVars>>

ReceiveRuns ==
    /\ ReceiveStep
    /\ UNCHANGED <<session, optionVars, sendVars, pageVars>>

Next ==
    \/ Boot
    \/ SendRuns
    \/ ReceiveRuns
    \/ /\ session = "send"
       /\ SendNext
       /\ UNCHANGED <<session, optionVars, receiveVars>>
    \/ /\ session \in {"send", "receive"}
       /\ Connect
       /\ UNCHANGED <<session, optionVars, receiveVars>>
    \/ /\ session = "receive" /\ screen = "app"
       /\ ReceiveNext
       /\ UNCHANGED <<session, optionVars, sendVars, pageVars>>
    \/ /\ session = "ttl" /\ screen = "app"
       /\ TtlNext
       /\ UNCHANGED <<session, sendVars, pageVars, receiveVars>>
    \/ /\ session = "style" /\ screen = "app"
       /\ StyleNext
       /\ UNCHANGED <<session, sendVars, pageVars, receiveVars>>

Spec == Init /\ [][Next]_webVars

-----------------------------------------------------------------------------
(* Properties.                                                             *)

\* The state of the panels has its type.
TypeOK ==
    /\ session \in Session
    /\ PageTypeOK /\ OptionsTypeOK /\ SendTypeOK /\ ReceiveTypeOK

\* What a running upload or download awaits is assumed to come, an answer, an error
\* or a frame.  The code does not ensure it: the requests to relays and to the
\* registry have no time limit, and a page that is hidden is given no frames.
OutsideSettles == WF_webVars(SendRuns) /\ WF_webVars(ReceiveRuns)

\* If what it awaits comes, an upload or a download that was started ends, and with
\* it the lock on its controls, whatever the user does meanwhile: attempts with
\* occupied tokens are counted, and blocks run out.
PanelsRecover == OutsideSettles => (Sending ~> ~Sending) /\ (Receiving ~> ~Receiving)
=============================================================================
