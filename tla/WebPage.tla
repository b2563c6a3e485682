------------------------------ MODULE WebPage ------------------------------
(***************************************************************************)
(* What the panels of the web client (client/web/src) share: the start of  *)
(* the page, the stored registry URL, and the runtime that was built from  *)
(* it (app.ts, runtime.ts), and the links that open it (qr-share-link.ts). *)
(***************************************************************************)
EXTENDS Sequences, Naturals

CONSTANTS
    Credential,
    Registry, DefaultRegistry,
    None

ASSUME WebPageAssumption ==
    /\ DefaultRegistry \in Registry
    /\ None \notin Credential \cup Registry

VARIABLES
    screen,     \* "boot", "app", or "reload" while settings are applied
    runtime,    \* registry of the current runtime, None before the first
    stored      \* the stored registry URL, None for the configured one

pageVars == <<screen, runtime, stored>>

\* loadEffectiveConfig
Configured == IF stored = None THEN DefaultRegistry ELSE stored

\* handleSaveSettings, up to the reload: the URL is stored before it is tried
SaveSettings(r) ==
    /\ screen = "app"
    /\ stored' = r
    /\ screen' = "reload"
    /\ UNCHANGED runtime

\* handleResetSettings: no reconnection
ResetSettings ==
    /\ screen = "app"
    /\ stored' = None
    /\ UNCHANGED <<screen, runtime>>

\* reloadRuntime returns, for startApp or for handleSaveSettings
RuntimeReady(from) ==
    /\ screen = from
    /\ runtime' = Configured
    /\ screen' = "app"
    /\ UNCHANGED stored

\* reloadRuntime throws: the old runtime goes on, the new URL stays stored.  At
\* the start of the page it leaves the boot screen for good.
ReloadFails ==
    /\ screen = "reload"
    /\ screen' = "app"
    /\ UNCHANGED <<runtime, stored>>

-----------------------------------------------------------------------------
(* Receive links.  The hash of a page has the values of two parameters, and *)
(* possibly others.                                                         *)

NoHash == [others |-> FALSE, v |-> <<>>, receive |-> <<>>]

\* buildReceiveUrl: the hash of the link for credential c
HashOf(c) == [others |-> FALSE, v |-> <<"1">>, receive |-> <<c>>]

NoIntent == [kind |-> "none", cred |-> None, auto |-> FALSE]

\* parseReceiveIntent
ParseIntent(h) ==
    IF h = NoHash THEN NoIntent
    ELSE IF /\ ~h.others
            /\ Len(h.receive) = 1 /\ h.receive[1] \in Credential
            /\ h.v \in {<<>>, <<"1">>}
      THEN [kind |-> "valid", cred |-> h.receive[1], auto |-> h.v # <<>>]
      ELSE [NoIntent EXCEPT !.kind = "invalid"]

-----------------------------------------------------------------------------
PageInit ==
    /\ screen = "boot"
    /\ runtime = None
    /\ stored \in Registry \cup {None}

\* The screens and the URLs have their types.
PageTypeOK ==
    /\ screen \in {"boot", "app", "reload"}
    /\ runtime \in Registry \cup {None}
    /\ stored \in Registry \cup {None}
=============================================================================
