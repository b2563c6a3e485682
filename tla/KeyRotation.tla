---------------------------- MODULE KeyRotation ----------------------------
(***************************************************************************)
(* The two keys that tie a relay to the registry: the registryApiKey, good *)
(* for a number of heartbeats, and the blockAuthKey.  The registry         *)
(* (services/registry.py) issues both to a relay that has none and         *)
(* replaces both with the last use; the relay (registry/client.py) asks by *)
(* heartbeat, from its background loop and from PUT handlers that lack a   *)
(* key, and keeps the two in two files.                                    *)
(*                                                                         *)
(* A step is one SQL statement or transaction of the registry, or the code *)
(* of a relay task between two awaits (the asyncio locks of the key        *)
(* managers are never contended: nothing suspends while holding one).      *)
(* Relay memory and files differ only inside a step, see CrashApplying.    *)
(*                                                                         *)
(* The relay's id is fixed.  Left out: the reported URL (taken to match),  *)
(* health and audit rows, rows of the key tables deleted one by one, and   *)
(* what verify-overwrite and register check beyond the key.                *)
(***************************************************************************)
EXTENDS Naturals

CONSTANTS
    Loop,              \* the task relay_registry_loop
    Putter,            \* tasks that register a block
    Request,           \* BOUND on the requests the registry works on at once
    ApiKey, AuthKey,   \* BOUND: key ids; an id that nobody holds is new again
    None,              \* no key, no task
    InitialUses,       \* registry_api_key_initial_uses
    OverlappingBeats,  \* may the registry work on two heartbeats at once?
    MaxCrashes,        \* BOUND on crashes of the relay
    MaxLost,           \* BOUND on requests that the relay gives up
    MaxCuts            \* BOUND on the relay's being disabled or removed

ASSUME KeyAssumption ==
    /\ None \notin ApiKey \cup AuthKey \cup Putter \cup {Loop}
    /\ Loop \notin Putter
    /\ InitialUses \in Nat \ {0}
    /\ OverlappingBeats \in BOOLEAN
    /\ MaxCrashes \in Nat
    /\ MaxLost \in Nat
    /\ MaxCuts \in Nat

VARIABLES
    listed,     \* is the relay on the allowlist and enabled?
    uses,       \* remaining_uses by registryApiKey, 0 where there is no row
    active,     \* the newest row of relay_block_auth_keys
    req,        \* the requests at the registry
    api, auth,  \* the keys the relay holds
    call,       \* what each task of the relay waits for
    torn,       \* history: the relay died between saving the one and the other
    crashes, lost, cuts

registry == <<listed, uses, active>>
keys == <<api, auth, torn>>
counts == <<crashes, lost, cuts>>
vars == <<registry, req, keys, call, counts>>

-----------------------------------------------------------------------------
Caller == Putter \cup {Loop}

ReqIdle == [pc |-> "idle", kind |-> "beat", caller |-> None, key |-> None,
            rest |-> 0, newKey |-> None, newAuth |-> None]
CallIdle == [pc |-> "idle", then |-> "idle"]

\* A heartbeat or a register call as it arrives.
Arriving(c, kind, key) ==
    [ReqIdle EXCEPT !.pc = "gate", !.kind = kind, !.caller = c, !.key = key]

Beating(q) == req[q].kind = "beat" /\ req[q].pc # "idle"

\* May q become a heartbeat now?
MayBeat(q) == OverlappingBeats \/ \A p \in Request \ {q} : ~Beating(p)

FreshApi(k) ==
    /\ k # api
    /\ \A q \in Request : k # req[q].key /\ k # req[q].newKey
FreshAuth(b) ==
    /\ b # auth
    /\ b # active
    /\ \A q \in Request : b # req[q].newAuth

\* A generated id, which one it is makes no difference.
NewApi(k) == FreshApi(k) /\ k = CHOOSE x \in ApiKey : FreshApi(x)
NewAuth(b) == FreshAuth(b) /\ b = CHOOSE x \in AuthKey : FreshAuth(x)

Init ==
    /\ listed = TRUE
    /\ uses = [k \in ApiKey |-> 0]
    /\ active = None
    /\ req = [q \in Request |-> ReqIdle]
    /\ api = None
    /\ auth = None
    /\ call = [c \in Caller |-> CallIdle]
    /\ torn = FALSE
    /\ crashes = 0
    /\ lost = 0
    /\ cuts = 0

-----------------------------------------------------------------------------
(* The registry: process_heartbeat, and the authentication that register   *)
(* and verify-overwrite share with it.                                     *)

Goto(q, pc) == req' = [req EXCEPT ![q].pc = pc]

\* _resolve_reported_relay_base_url
Gate(q) ==
    /\ req[q].pc = "gate"
    /\ Goto(q, IF ~listed THEN "forbidden"
               ELSE IF req[q].key = None THEN "issueKey" ELSE "listed")
    /\ UNCHANGED <<registry, keys, call, counts>>

\* is_allowlisted
Listed(q) ==
    /\ req[q].pc = "listed"
    /\ Goto(q, IF listed THEN "verify" ELSE "forbidden")
    /\ UNCHANGED <<registry, keys, call, counts>>

\* verify_registry_api_key; only a heartbeat consumes a use.
Verify(q) ==
    /\ req[q].pc = "verify"
    /\ Goto(q, IF uses[req[q].key] = 0 THEN "unauthorised"
               ELSE IF req[q].kind = "beat" THEN "consume" ELSE "answered")
    /\ UNCHANGED <<registry, keys, call, counts>>

\* MUTATION of Consume: the condition remaining_uses > 0 is missing.
ConsumeUnguarded(q) ==
    /\ req[q].pc = "consume"
    /\ uses' = [uses EXCEPT ![req[q].key] = @ - 1]
    /\ Goto(q, "recount")
    /\ UNCHANGED <<listed, active, keys, call, counts>>

\* consume_registry_api_key_use: the UPDATE.  No row is no use left, and that
\* is what _authenticate_relay is told: it refuses only a negative number.
Consume(q) ==
    /\ req[q].pc = "consume"
    /\ \/ /\ uses[req[q].key] > 0
          /\ uses' = [uses EXCEPT ![req[q].key] = @ - 1]
          /\ Goto(q, "recount")
       \/ /\ uses[req[q].key] = 0
          /\ req' = [req EXCEPT ![q].pc = "haveAuth", ![q].rest = 0]
          /\ UNCHANGED uses
    /\ UNCHANGED <<listed, active, keys, call, counts>>

\* consume_registry_api_key_use: the SELECT after its commit.
Recount(q) ==
    /\ req[q].pc = "recount"
    /\ req' = [req EXCEPT ![q].pc = "haveAuth",
                          ![q].rest = uses[req[q].key]]
    /\ UNCHANGED <<registry, keys, call, counts>>

\* if record.remaining_uses == 0: rotate both keys.
AfterAuth(q) == IF req[q].rest = 0 THEN "issueKey" ELSE "answered"

\* get_active_block_auth_key
HaveAuth(q) ==
    /\ req[q].pc = "haveAuth"
    /\ Goto(q, IF active = None THEN "bootAuth" ELSE AfterAuth(q))
    /\ UNCHANGED <<registry, keys, call, counts>>

\* create_registry_api_key, for a relay without key or in
\* rotate_registry_api_key.
IssueKey(q) ==
    /\ req[q].pc = "issueKey"
    /\ \E k \in ApiKey :
        /\ NewApi(k)
        /\ uses' = [uses EXCEPT ![k] = InitialUses]
        /\ req' = [req EXCEPT ![q].newKey = k,
                              ![q].pc = IF req[q].key = None THEN "newAuth"
                                        ELSE "dropAuth"]
    /\ UNCHANGED <<listed, active, keys, call, counts>>

\* rotate_block_auth_key: the DELETE.
DropAuth(q) ==
    /\ req[q].pc = "dropAuth"
    /\ active' = None
    /\ Goto(q, "newAuth")
    /\ UNCHANGED <<listed, uses, keys, call, counts>>

\* MUTATION of IssueAuth: the answer carries a blockAuthKey to a relay that
\* bootstraps, but not the one that goes with a rotated registryApiKey.
IssueAuthUnbundled(q) ==
    /\ req[q].pc \in {"bootAuth", "newAuth"}
    /\ \E b \in AuthKey :
        /\ NewAuth(b)
        /\ active' = b
        /\ req' = [req EXCEPT ![q].newAuth = IF req[q].key = None THEN b ELSE @,
                              ![q].pc = IF @ = "newAuth" THEN "answered"
                                        ELSE AfterAuth(q)]
    /\ UNCHANGED <<listed, uses, keys, call, counts>>

\* create_block_auth_key, with a bootstrap, for a relay that the registry has
\* no blockAuthKey for, or in rotate_block_auth_key.  It replaces no row, but
\* only the newest is ever read.
IssueAuth(q) ==
    /\ req[q].pc \in {"bootAuth", "newAuth"}
    /\ \E b \in AuthKey :
        /\ NewAuth(b)
        /\ active' = b
        /\ req' = [req EXCEPT ![q].newAuth = b,
                              ![q].pc = IF @ = "newAuth" THEN "answered"
                                        ELSE AfterAuth(q)]
    /\ UNCHANGED <<listed, uses, keys, call, counts>>

ServerStep(q) ==
    \/ Gate(q) \/ Listed(q) \/ Verify(q) \/ Consume(q) \/ Recount(q)
    \/ HaveAuth(q) \/ IssueKey(q) \/ DropAuth(q) \/ IssueAuth(q)

-----------------------------------------------------------------------------
(* The relay.                                                              *)

\* report_heartbeat sends the keys it holds; c goes on with `then`.
SendBeat(c, q, key, then) ==
    /\ MayBeat(q)
    /\ req' = [req EXCEPT ![q] = Arriving(c, "beat", key)]
    /\ call' = [call EXCEPT ![c] =
                   [pc |-> IF key = None THEN "bootstrap" ELSE "beat",
                    then |-> then]]

\* What follows a heartbeat: nothing, or _relay_payload and the POST, which
\* fail when the key is gone by now.
GoOn(c, q, key, then) ==
    IF then = "idle" \/ key = None
    THEN /\ req' = [req EXCEPT ![q] = ReqIdle]
         /\ call' = [call EXCEPT ![c] = CallIdle]
    ELSE /\ req' = [req EXCEPT ![q] = Arriving(c, "register", key)]
         /\ call' = [call EXCEPT ![c] = [pc |-> then, then |-> "idle"]]

\* relay_registry_loop
BeatStart(q) ==
    /\ call[Loop].pc = "idle"
    /\ req[q].pc = "idle"
    /\ SendBeat(Loop, q, api, "idle")
    /\ UNCHANGED <<registry, keys, counts>>

\* register_block and verify_overwrite, ensure_secrets first.
PutStart(c, q) ==
    /\ call[c].pc = "idle"
    /\ req[q].pc = "idle"
    /\ IF api # None /\ auth # None THEN GoOn(c, q, api, "register")
                                    ELSE SendBeat(c, q, api, "register")
    /\ UNCHANGED <<registry, keys, counts>>

\* MUTATION of Refused: the refused key is kept, and sent again next time.
RefusedKeepsKey(c, q) ==
    /\ req[q].pc = "unauthorised"
    /\ GoOn(c, q, None, "idle")
    /\ UNCHANGED <<api, auth, torn>>

\* Status 401: drop the registryApiKey, the only one that was refused, and
\* send a heartbeat without it.  A register call is tried twice.
Refused(c, q) ==
    /\ req[q].pc = "unauthorised"
    /\ IF call[c].pc = "reregister"
       THEN GoOn(c, q, None, "idle") /\ UNCHANGED api
       ELSE /\ api' = None
            /\ SendBeat(c, q, None, IF call[c].pc = "register" THEN "reregister"
                                    ELSE call[c].then)
    /\ UNCHANGED <<auth, torn>>

\* apply_heartbeat_response of both managers, one after the other.
Applied(c, q) ==
    /\ req[q].pc = "answered"
    /\ req[q].kind = "beat"
    /\ api' = IF req[q].newKey = None THEN api ELSE req[q].newKey
    /\ auth' = IF req[q].newAuth = None THEN auth ELSE req[q].newAuth
    /\ torn' = (torn /\ (req[q].newKey = None \/ req[q].newAuth = None))
    /\ GoOn(c, q, api', call[c].then)

\* A register call that was not refused is over; a heartbeat refused with 403
\* leaves the keys as they are.
Passed(c, q) ==
    /\ \/ req[q].pc = "forbidden"
       \/ req[q].pc = "answered" /\ req[q].kind = "register"
    /\ GoOn(c, q, api, IF req[q].kind = "beat" THEN call[c].then ELSE "idle")
    /\ UNCHANGED keys

\* The answer reaches the task that waits for it, if one still does.
Deliver(q) ==
    /\ req[q].pc \in {"answered", "forbidden", "unauthorised"}
    /\ \/ /\ req[q].caller = None
          /\ req' = [req EXCEPT ![q] = ReqIdle]
          /\ UNCHANGED <<keys, call>>
       \/ /\ req[q].caller # None
          /\ \/ Refused(req[q].caller, q)
             \/ Applied(req[q].caller, q)
             \/ Passed(req[q].caller, q)
    /\ UNCHANGED <<registry, counts>>

\* The relay has waited ten seconds, or the connection is gone.  The registry
\* goes on with the request, or has died with it.
Lose(q) ==
    /\ lost < MaxLost
    /\ req[q].pc # "idle"
    /\ req[q].caller # None
    /\ lost' = lost + 1
    /\ call' = [call EXCEPT ![req[q].caller] = CallIdle]
    /\ \/ req' = [req EXCEPT ![q].caller = None]
       \/ req' = [req EXCEPT ![q] = ReqIdle]
    /\ UNCHANGED <<registry, keys, crashes, cuts>>

\* The relay dies and starts again; the registry goes on with the requests
\* that it has not answered yet.
Restart(over) ==
    /\ crashes < MaxCrashes
    /\ crashes' = crashes + 1
    /\ req' = [q \in Request |-> IF q \in over THEN ReqIdle
                                 ELSE [req[q] EXCEPT !.caller = None]]
    /\ call' = [c \in Caller |-> CallIdle]
    /\ UNCHANGED <<registry, lost, cuts>>

Crash ==
    /\ Restart({})
    /\ UNCHANGED keys

\* It dies when registry_api_key.json is saved and block_auth_key.json is not.
CrashApplying(q) ==
    /\ req[q].pc = "answered"
    /\ req[q].caller # None
    /\ req[q].newKey # None
    /\ api' = req[q].newKey
    /\ torn' = TRUE
    /\ Restart({q})
    /\ UNCHANGED auth

-----------------------------------------------------------------------------
(* The operator.                                                           *)

\* PATCH of the allowlist entry, or a new entry for a removed relay.
Enable ==
    /\ ~listed
    /\ listed' = TRUE
    /\ UNCHANGED <<uses, active, req, keys, call, counts>>

Disable ==
    /\ cuts < MaxCuts
    /\ listed
    /\ listed' = FALSE
    /\ cuts' = cuts + 1
    /\ UNCHANGED <<uses, active, req, keys, call, crashes, lost>>

\* delete_allowlist_entry, in one transaction.
Remove ==
    /\ cuts < MaxCuts
    /\ listed' = FALSE
    /\ uses' = [k \in ApiKey |-> 0]
    /\ active' = None
    /\ cuts' = cuts + 1
    /\ UNCHANGED <<req, keys, call, crashes, lost>>

Next ==
    \/ \E q \in Request : ServerStep(q)
    \/ \E q \in Request : BeatStart(q)
    \/ \E q \in Request, c \in Putter : PutStart(c, q)
    \/ \E q \in Request : Deliver(q)
    \/ \E q \in Request : Lose(q)
    \/ \E q \in Request : CrashApplying(q)
    \/ Crash
    \/ Enable \/ Disable \/ Remove

(* relay_registry_loop goes round for as long as the relay runs, and the   *)
(* registry answers what it has begun.                                     *)
Fairness ==
    /\ WF_vars(\E q \in Request : BeatStart(q))
    /\ \A q \in Request : WF_vars(ServerStep(q)) /\ WF_vars(Deliver(q))

Spec == Init /\ [][Next]_vars
FairSpec == Spec /\ Fairness

-----------------------------------------------------------------------------
(* Properties.                                                             *)

ReqPC == {"idle", "gate", "listed", "verify", "consume", "recount", "haveAuth",
          "bootAuth", "issueKey", "dropAuth", "newAuth", "answered",
          "forbidden", "unauthorised"}
ReqState ==
    [pc : ReqPC, kind : {"beat", "register"}, caller : Caller \cup {None},
     key : ApiKey \cup {None}, rest : Nat, newKey : ApiKey \cup {None},
     newAuth : AuthKey \cup {None}]
CallState ==
    [pc : {"idle", "beat", "bootstrap", "register", "reregister"},
     then : {"idle", "register", "reregister"}]

\* No request without a key gets as far as having one verified.
RequestsOK ==
    /\ req \in [Request -> ReqState]
    /\ \A q \in Request :
        /\ req[q].pc \in {"listed", "verify", "consume", "recount", "haveAuth",
                          "bootAuth", "dropAuth"} => req[q].key # None
        /\ req[q].kind = "register" => req[q].key # None

\* Every variable holds a value of its kind.
TypeOK ==
    /\ listed \in BOOLEAN
    /\ uses \in [ApiKey -> Nat]
    /\ active \in AuthKey \cup {None}
    /\ RequestsOK
    /\ api \in ApiKey \cup {None}
    /\ auth \in AuthKey \cup {None}
    /\ call \in [Caller -> CallState]
    /\ torn \in BOOLEAN
    /\ crashes \in 0 .. MaxCrashes
    /\ lost \in 0 .. MaxLost
    /\ cuts \in 0 .. MaxCuts

Usable(k) == k # None /\ uses[k] > 0

\* A registryApiKey that the registry accepts comes with the blockAuthKey that
\* the registry signs with: a relay whose pair is out of step, because an
\* answer was lost or the relay was removed, is told so by its next heartbeat,
\* unless it died between the two saves.
UsableKeyHasActiveAuth ==
    Usable(api) /\ ~torn => auth # None /\ auth = active

\* A relay that stays on the allowlist comes again and again to hold a pair
\* with which both its calls and the overwrites it verifies succeed, whatever
\* was lost before and wherever it died.
PairIsRestored ==
    <>[]listed => []<>(Usable(api) /\ auth # None /\ auth = active)

\* A registryApiKey is good for registryApiKeyInitialUses heartbeats: no
\* heartbeat passes authentication on a key that has no use left.
KeyUsesAreLimited ==
    [][\A q \in Request :
         req[q].pc = "consume" /\ req'[q].pc \in {"recount", "haveAuth"}
             => uses[req[q].key] > 0]_vars

(* What makes UsableKeyHasActiveAuth inductive when heartbeats do not      *)
(* overlap: while the registry works on one, the relay holds the key it    *)
(* was sent with, and from the moment the registry touches a blockAuthKey  *)
(* that key is spent.                                                      *)

\* The registry works on one heartbeat at a time.
OneBeat == \A p, q \in Request : Beating(p) /\ Beating(q) => p = q

\* The relay still holds what it sent.
BeatHasHeldKey(q) == Beating(q) => req[q].key = api

Spent(q) == req[q].key # None => uses[req[q].key] = 0

\* A request that is about to replace a key, or has, found the old one spent.
RotationFollowsLastUse(q) ==
    Beating(q) =>
        /\ req[q].pc \in {"issueKey", "dropAuth", "newAuth"} => Spent(q)
        /\ req[q].pc \in {"haveAuth", "bootAuth"} /\ req[q].rest = 0 => Spent(q)
        /\ req[q].pc = "bootAuth" \/ req[q].newAuth # None => torn \/ Spent(q)
        /\ req[q].newKey # None => Spent(q) /\ req[q].newKey # req[q].key

\* An answer with a new registryApiKey carries the blockAuthKey in force, if
\* the registry still knows the new key.
AnswerIsPair(q) ==
    /\ req[q].pc \in {"dropAuth", "newAuth"} => req[q].newKey # None
    /\ req[q].newKey # None => req[q].pc \in {"dropAuth", "newAuth", "answered"}
    /\ req[q].pc = "answered" /\ req[q].newKey # None =>
        /\ req[q].newAuth # None
        /\ req[q].newAuth = active \/ uses[req[q].newKey] = 0

\* Only a heartbeat gets keys.
OnlyBeatsGetKeys(q) ==
    /\ ~Beating(q) => req[q].newKey = None /\ req[q].newAuth = None
    /\ req[q].kind = "register" =>
        req[q].pc \in {"gate", "listed", "verify", "answered", "forbidden",
                       "unauthorised"}

RequestInv(q) ==
    /\ BeatHasHeldKey(q)
    /\ RotationFollowsLastUse(q)
    /\ AnswerIsPair(q)
    /\ OnlyBeatsGetKeys(q)

KeyInv ==
    /\ OneBeat
    /\ \A q \in Request : RequestInv(q)
    /\ UsableKeyHasActiveAuth
=============================================================================
