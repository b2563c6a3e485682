-------------------------- MODULE RelayBlockStore --------------------------
(***************************************************************************)
(* The block store of one relay (server/relay/relay_server): the SQLite    *)
(* table `blocks`, the .bin files below dataDir, the PUT and GET handlers, *)
(* the periodic sweep, an operator deleting index rows, the passing of     *)
(* time and the crash and restart of the process.                          *)
(*                                                                         *)
(* The handlers are coroutines of one event loop.  Every repository call   *)
(* and every call of the registry suspends the coroutine; the methods of   *)
(* DiskBlockStore never do, although they are declared async.  A step of   *)
(* this module is therefore either one SQL statement or the code between   *)
(* two suspension points, and the steps of all coroutines interleave.      *)
(*                                                                         *)
(* Left out: the access log and the sweep log (written, never read), and   *)
(* a PUT rejected for an empty or too large body (no other effect).        *)
(***************************************************************************)
EXTENDS Naturals, FiniteSets

CONSTANTS
    Token,            \* block identifiers
    Data,             \* request bodies, up to what the properties tell apart
    PutHandler,       \* concurrent PUT requests
    GetHandler,       \* concurrent GET requests
    None, Torn,       \* "nothing here"; a file whose write was cut short
    MaxBlocks,        \* config.max_blocks
    OverlappingPuts,  \* may two PUTs of one token be in progress at once?
    MaxCrashes        \* BOUND on the crashes of a behaviour

ASSUME StoreAssumption ==
    /\ None \notin Data
    /\ Torn \notin Data
    /\ None # Torn
    /\ None \notin Token
    /\ MaxBlocks \in Nat
    /\ OverlappingPuts \in BOOLEAN
    /\ MaxCrashes \in Nat
    /\ IsFiniteSet(Token)
    /\ IsFiniteSet(PutHandler)
    /\ PutHandler # {}

VARIABLES
    rows,        \* blocks.block_hash by token, None where there is no row
    staleRows,   \* tokens whose updated_at is blockMaxAgeSeconds old
    files,       \* content of the file of each token, None where there is none
    staleFiles,  \* tokens whose file's mtime is blockMaxAgeSeconds old
    put, get,    \* the local state of each PUT and each GET handler
    sweep,       \* the local state of sweep_expired_blocks
    serving,     \* has the lifespan reached its yield since the last start?
    acked,       \* history: tokens whose present row a PUT answered 204 for
    crashes      \* history: how often the process has died

disk == <<files, staleFiles>>
index == <<rows, staleRows>>
vars == <<rows, staleRows, files, staleFiles, put, get, sweep, serving,
          acked, crashes>>

-----------------------------------------------------------------------------
(* compute_block_hash: SHA-256, taken to be injective.                     *)
BlockHash(d) == [sha256 |-> d]

Stored == {t \in Token : rows[t] # None}

PutIdle == [pc |-> "idle", token |-> None, data |-> None]
GetIdle == [pc |-> "idle", token |-> None]
SweepIdle == [pc |-> "idle", stale |-> {}, token |-> None, active |-> {}]

\* The PUT has put its file in place and has not finished.
Writing(h) == put[h].pc \in {"insert", "register", "undoFile", "undoRow"}

Init ==
    /\ rows = [t \in Token |-> None]
    /\ staleRows = {}
    /\ files = [t \in Token |-> None]
    /\ staleFiles = {}
    /\ put = [h \in PutHandler |-> PutIdle]
    /\ get = [g \in GetHandler |-> GetIdle]
    /\ sweep = SweepIdle
    /\ serving = FALSE
    /\ acked = {}
    /\ crashes = 0

(* DELETE FROM blocks WHERE token = t, from any of its callers.            *)
DeleteRow(t) ==
    /\ rows' = [rows EXCEPT ![t] = None]
    /\ staleRows' = staleRows \ {t}
    /\ acked' = acked \ {t}

(* DiskBlockStore.remove and the unlink of sweep_orphan_files.             *)
RemoveFiles(T) ==
    /\ files' = [t \in Token |-> IF t \in T THEN None ELSE files[t]]
    /\ staleFiles' = staleFiles \ T

GoTo(h, pc) == put' = [put EXCEPT ![h].pc = pc]
Finish(h) == put' = [put EXCEPT ![h] = PutIdle]

-----------------------------------------------------------------------------
(* PUT /{token}: BlockService.put_block.                                   *)

\* MUTATION of PutVerify: a refused overwrite falls through to the create path.
PutVerifyFallsThrough(h) ==
    /\ put[h].pc = "verify"
    /\ GoTo(h, "count")
    /\ UNCHANGED <<index, disk, get, sweep, serving, acked, crashes>>

\* MUTATION of PutMacCheck: the file is replaced in place, the row is not.
PutMacCheckWritesFile(h) ==
    /\ put[h].pc = "macCheck"
    /\ files' = [files EXCEPT ![put[h].token] = put[h].data]
    /\ Finish(h)
    /\ UNCHANGED <<index, staleFiles, get, sweep, serving, acked, crashes>>

\* MUTATION of PutCount: the limit is compared with > instead of >=.
PutCountOffByOne(h) ==
    /\ put[h].pc = "count"
    /\ IF Cardinality(Stored) > MaxBlocks THEN Finish(h) ELSE GoTo(h, "write")
    /\ UNCHANGED <<index, disk, get, sweep, serving, acked, crashes>>

\* MUTATION of PutInsert: the row holds the body instead of its digest.
PutInsertStoresBody(h) ==
    /\ put[h].pc = "insert"
    /\ rows' = [rows EXCEPT ![put[h].token] = put[h].data]
    /\ staleRows' = staleRows \ {put[h].token}
    /\ GoTo(h, "register")
    /\ UNCHANGED <<disk, get, sweep, serving, acked, crashes>>

\* MUTATION of PutLookup: an existing row is taken for a missing one.
PutLookupIgnoresRow(h, t, d) ==
    /\ serving
    /\ put[h].pc = "idle"
    /\ OverlappingPuts \/ \A k \in PutHandler : put[k].token # t
    /\ put' = [put EXCEPT ![h] = [pc |-> "count", token |-> t, data |-> d]]
    /\ UNCHANGED <<index, disk, get, sweep, serving, acked, crashes>>

\* Up to existing = await self._repository.get(token), the first access to
\* what is shared.
PutLookup(h, t, d) ==
    /\ serving
    /\ put[h].pc = "idle"
    /\ OverlappingPuts \/ \A k \in PutHandler : put[k].token # t
    /\ put' = [put EXCEPT ![h] =
                  [pc |-> IF rows[t] = None THEN "count" ELSE "verify",
                   token |-> t, data |-> d]]
    /\ UNCHANGED <<index, disk, get, sweep, serving, acked, crashes>>

\* _verify_overwrite up to the MAC check: the registry authorises the
\* overwrite under the key this relay holds, or the PUT is answered 409 or
\* 503 (refused, unreachable, other hash, other key, no relay id).
PutVerify(h) ==
    /\ put[h].pc = "verify"
    /\ \/ GoTo(h, "macCheck")
       \/ Finish(h)
    /\ UNCHANGED <<index, disk, get, sweep, serving, acked, crashes>>

\* verify_block_auth_mac is not bound in domain/blocks.py: the call raises
\* NameError, which put_block does not catch, and the PUT is answered 500.
PutMacCheck(h) ==
    /\ put[h].pc = "macCheck"
    /\ Finish(h)
    /\ UNCHANGED <<index, disk, get, sweep, serving, acked, crashes>>

\* stored = await self._repository.count(), answered 507 at the limit.
PutCount(h) ==
    /\ put[h].pc = "count"
    /\ IF Cardinality(Stored) >= MaxBlocks THEN Finish(h) ELSE GoTo(h, "write")
    /\ UNCHANGED <<index, disk, get, sweep, serving, acked, crashes>>

\* The file is written in the same step as the return from count(); an
\* OSError removes what was written and goes on to delete the row.
PutWrite(h) ==
    /\ put[h].pc = "write"
    /\ \/ /\ files' = [files EXCEPT ![put[h].token] = put[h].data]
          /\ staleFiles' = staleFiles \ {put[h].token}
          /\ GoTo(h, "insert")
       \/ /\ RemoveFiles({put[h].token})
          /\ GoTo(h, "undoRow")
    /\ UNCHANGED <<index, get, sweep, serving, acked, crashes>>

\* INSERT INTO blocks; a row of another PUT makes it an IntegrityError.
PutInsert(h) ==
    /\ put[h].pc = "insert"
    /\ \/ /\ rows[put[h].token] = None
          /\ rows' = [rows EXCEPT ![put[h].token] = BlockHash(put[h].data)]
          /\ staleRows' = staleRows \ {put[h].token}
          /\ acked' = acked \ {put[h].token}
          /\ GoTo(h, "register")
       \/ /\ rows[put[h].token] # None
          /\ GoTo(h, "undoFile")
          /\ UNCHANGED <<index, acked>>
    /\ UNCHANGED <<disk, get, sweep, serving, crashes>>

\* await self._registry.register_block: 204 on success.
PutRegister(h) ==
    /\ put[h].pc = "register"
    /\ \/ /\ acked' = acked \cup {put[h].token}
          /\ Finish(h)
       \/ /\ GoTo(h, "undoFile")
          /\ UNCHANGED acked
    /\ UNCHANGED <<index, disk, get, sweep, serving, crashes>>

\* Both except clauses: remove the file, then delete the row.
PutUndoFile(h) ==
    /\ put[h].pc = "undoFile"
    /\ RemoveFiles({put[h].token})
    /\ GoTo(h, "undoRow")
    /\ UNCHANGED <<index, get, sweep, serving, acked, crashes>>

PutUndoRow(h) ==
    /\ put[h].pc = "undoRow"
    /\ DeleteRow(put[h].token)
    /\ Finish(h)
    /\ UNCHANGED <<disk, get, sweep, serving, crashes>>

PutStep(h) ==
    \/ PutVerify(h) \/ PutMacCheck(h)
    \/ PutCount(h) \/ PutWrite(h) \/ PutInsert(h) \/ PutRegister(h)
    \/ PutUndoFile(h) \/ PutUndoRow(h)

-----------------------------------------------------------------------------
(* GET /{token}: BlockService.get_block.  A GET that finds no row is       *)
(* answered 404 and changes nothing.                                       *)

\* MUTATION of GetLookup: the index is not consulted.
GetLookupSkipsIndex(g, t) ==
    /\ serving
    /\ get[g].pc = "idle"
    /\ get' = [get EXCEPT ![g] = [pc |-> "read", token |-> t]]
    /\ UNCHANGED <<index, disk, put, sweep, serving, acked, crashes>>

GetLookup(g, t) ==
    /\ serving
    /\ get[g].pc = "idle"
    /\ rows[t] # None
    /\ get' = [get EXCEPT ![g] = [pc |-> "read", token |-> t]]
    /\ UNCHANGED <<index, disk, put, sweep, serving, acked, crashes>>

\* The file is served as it is found, or the row is to be deleted.
GetRead(g) ==
    /\ get[g].pc = "read"
    /\ get' = [get EXCEPT ![g] = IF files[@.token] = None
                                 THEN [@ EXCEPT !.pc = "drop"]
                                 ELSE GetIdle]
    /\ UNCHANGED <<index, disk, put, sweep, serving, acked, crashes>>

GetDrop(g) ==
    /\ get[g].pc = "drop"
    /\ DeleteRow(get[g].token)
    /\ get' = [get EXCEPT ![g] = GetIdle]
    /\ UNCHANGED <<disk, put, sweep, serving, crashes>>

GetStep(g) == GetRead(g) \/ GetDrop(g)

-----------------------------------------------------------------------------
(* sweep_expired_blocks, run once before the relay serves and then by      *)
(* sweep_loop; there is never more than one sweep.                         *)

SweepList ==
    /\ sweep.pc = "idle"
    /\ sweep' = [sweep EXCEPT !.pc = "file", !.stale = Stored \cap staleRows]
    /\ UNCHANGED <<index, disk, put, get, serving, acked, crashes>>

SweepRemoveFile(t) ==
    /\ sweep.pc = "file"
    /\ t \in sweep.stale
    /\ RemoveFiles({t})
    /\ sweep' = [sweep EXCEPT !.pc = "row", !.token = t]
    /\ UNCHANGED <<index, put, get, serving, acked, crashes>>

SweepDeleteRow ==
    /\ sweep.pc = "row"
    /\ DeleteRow(sweep.token)
    /\ sweep' = [sweep EXCEPT !.pc = "file", !.stale = @ \ {sweep.token},
                              !.token = None]
    /\ UNCHANGED <<disk, put, get, serving, crashes>>

\* MUTATION of SweepListPaths: the paths are listed from the directory.
SweepListPathsFromDisk ==
    /\ sweep.pc = "file"
    /\ sweep.stale = {}
    /\ sweep' = [sweep EXCEPT !.pc = "orphans",
                              !.active = {t \in Token : files[t] # None}]
    /\ UNCHANGED <<index, disk, put, get, serving, acked, crashes>>

SweepListPaths ==
    /\ sweep.pc = "file"
    /\ sweep.stale = {}
    /\ sweep' = [sweep EXCEPT !.pc = "orphans", !.active = Stored]
    /\ UNCHANGED <<index, disk, put, get, serving, acked, crashes>>

\* sweep_orphan_files runs without suspending; at start-up the relay begins
\* to serve after it.
SweepOrphans ==
    /\ sweep.pc = "orphans"
    /\ RemoveFiles(staleFiles \ sweep.active)
    /\ sweep' = SweepIdle
    /\ serving' = TRUE
    /\ UNCHANGED <<index, put, get, acked, crashes>>

SweepStep ==
    \/ SweepList \/ SweepListPaths \/ SweepDeleteRow \/ SweepOrphans
    \/ \E t \in Token : SweepRemoveFile(t)

-----------------------------------------------------------------------------
(* The surroundings.                                                       *)

\* POST /api/admin/db/rows/delete on table blocks.
AdminDeleteRow(t) ==
    /\ serving
    /\ rows[t] # None
    /\ DeleteRow(t)
    /\ UNCHANGED <<disk, put, get, sweep, serving, crashes>>

\* blockMaxAgeSeconds (24 hours by default) pass for what is stored under t.
\* Neither a PUT nor the end of a sweep, from the listing of the paths to the
\* scan of the directory, takes that long.
Age(t) ==
    /\ sweep.pc # "orphans"
    /\ \A h \in PutHandler : Writing(h) => put[h].token # t
    /\ staleRows' = staleRows \cup ({t} \cap Stored)
    /\ staleFiles' = staleFiles \cup {u \in {t} : files[u] # None}
    /\ acked' = acked \ {t}
    /\ <<staleRows, staleFiles>>' # <<staleRows, staleFiles>>
    /\ UNCHANGED <<rows, files, put, get, sweep, serving, crashes>>

\* The process dies: handlers and sweep are gone, the index and the files
\* stay, and a file that was being written may be left incomplete.
Crash ==
    /\ crashes < MaxCrashes
    /\ \E cut \in SUBSET {put[h].token : h \in {k \in PutHandler :
                                                 put[k].pc = "write"}} :
         /\ files' = [t \in Token |-> IF t \in cut THEN Torn ELSE files[t]]
         /\ staleFiles' = staleFiles \ cut
    /\ put' = [h \in PutHandler |-> PutIdle]
    /\ get' = [g \in GetHandler |-> GetIdle]
    /\ sweep' = SweepIdle
    /\ serving' = FALSE
    /\ crashes' = crashes + 1
    /\ UNCHANGED <<index, acked>>

Next ==
    \/ \E h \in PutHandler, t \in Token, d \in Data : PutLookup(h, t, d)
    \/ \E h \in PutHandler : PutStep(h)
    \/ \E g \in GetHandler, t \in Token : GetLookup(g, t)
    \/ \E g \in GetHandler : GetStep(g)
    \/ SweepStep
    \/ \E t \in Token : AdminDeleteRow(t)
    \/ \E t \in Token : Age(t)
    \/ Crash

(* Handlers that were started run on, sweep_loop runs for as long as the   *)
(* process does, and time passes whatever the relay does (strongly fair:   *)
(* the clock does not stop while a PUT or a sweep holds Age back).  No     *)
(* request need ever arrive.                                               *)
Fairness ==
    /\ \A h \in PutHandler : WF_vars(PutStep(h))
    /\ \A g \in GetHandler : WF_vars(GetStep(g))
    /\ WF_vars(SweepStep)
    /\ \A t \in Token : SF_vars(Age(t))

Spec == Init /\ [][Next]_vars
FairSpec == Spec /\ Fairness

-----------------------------------------------------------------------------
(* Properties.                                                             *)

\* Every variable holds a value of its kind; a row holds a digest.
Digest == {BlockHash(d) : d \in Data}
PutPC == {"verify", "macCheck", "count", "write", "insert", "register",
          "undoFile", "undoRow"}
TypeOK ==
    /\ rows \in [Token -> Digest \cup {None}]
    /\ staleRows \subseteq Stored
    /\ files \in [Token -> Data \cup {None, Torn}]
    /\ staleFiles \subseteq {t \in Token : files[t] # None}
    /\ put \in [PutHandler -> [pc : PutPC \cup {"idle"}, token : Token \cup {None},
                              data : Data \cup {None}]]
    /\ \A h \in PutHandler : put[h].pc # "idle" =>
                               put[h].token \in Token /\ put[h].data \in Data
    /\ get \in [GetHandler -> [pc : {"idle", "read", "drop"},
                              token : Token \cup {None}]]
    /\ \A g \in GetHandler : get[g].pc # "idle" => get[g].token \in Token
    /\ sweep \in [pc : {"idle", "file", "row", "orphans"},
                  stale : SUBSET Token, token : Token \cup {None},
                  active : SUBSET Token]
    /\ sweep.pc = "row" => sweep.token \in sweep.stale
    /\ serving \in BOOLEAN
    /\ acked \subseteq Token
    /\ crashes \in 0..MaxCrashes

\* Wherever the index and the disk both know a token, the file is the block
\* whose digest the row holds, although the file is written before the row
\* and no statement covers both (put_block, get_block and the sweep).
IndexedFileIsIntact ==
    \A t \in Token :
        rows[t] # None /\ files[t] # None => rows[t] = BlockHash(files[t])

\* A GET that has seen a row never goes on to serve a file that a crash left
\* incomplete (get_block does not compare the data with block_hash).
NoTornRead ==
    \A g \in GetHandler : get[g].pc = "read" => files[get[g].token] # Torn

\* No PUT takes away or changes a block that is stored and whose own PUT was
\* answered 204 (the clean-up of a failed create removes what is there).
AckedSurvivesOtherPuts ==
    [][put' # put =>
         \A t \in acked : rows[t] # None /\ files[t] # None =>
                             rows'[t] = rows[t] /\ files'[t] = files[t]]_vars

\* What makes the two invariants above inductive when PUTs of one token do
\* not overlap: a token has one PUT; a create runs on a token without row
\* until it inserts it; the file waiting for its row is the body of the PUT
\* unless a late sweep removed it; an incomplete file has no row.
OnePutPerToken ==
    \A h, k \in PutHandler :
        h # k /\ put[h].pc # "idle" => put[k].token # put[h].token
CreateSeesNoRow ==
    \A h \in PutHandler :
        put[h].pc \in {"count", "write", "insert"} => rows[put[h].token] = None
FileAwaitsRow ==
    \A h \in PutHandler :
        put[h].pc = "insert" => files[put[h].token] \in {put[h].data, None}
TornIsUnindexed == \A t \in Token : files[t] = Torn => rows[t] = None

SerialInv ==
    /\ OnePutPerToken
    /\ CreateSeesNoRow
    /\ FileAwaitsRow
    /\ TornIsUnindexed
    /\ IndexedFileIsIntact
    /\ NoTornRead

\* maxBlocks is checked before the insert: PUTs in progress can exceed it,
\* but by no more than the number of other PUTs that run at the same time,
\* those that have passed the check and not inserted their row included.
Admitted == {h \in PutHandler : put[h].pc \in {"write", "insert"}}
OvershootBounded ==
    Cardinality(Stored) + Cardinality(Admitted)
        <= MaxBlocks + Cardinality(PutHandler) - 1

\* An index entry without a file, or a file without an index entry, left by
\* a crash, a race or the operator, does not stay for ever (the sweep).
Split(t) == (rows[t] = None) # (files[t] = None)
SplitIsReclaimed == \A t \in Token : Split(t) ~> ~Split(t)

\* A client that PUTs the block it reserved under a token that is already
\* stored, and whose overwrite the registry authorised, has its block
\* written (registry README: the relay allows the overwrite once it has
\* checked the MAC and expiryAt).
AuthorisedOverwriteIsWritten ==
    [][\A h \in PutHandler :
         put[h].pc = "macCheck" /\ put'[h].pc # "macCheck" /\ serving' =>
             files'[put[h].token] = put[h].data]_vars

\* What a reader may find: indexed and on disk.
Visible == [t \in Token |-> IF rows[t] = None THEN None ELSE files[t]]

\* The relay implements the store of opaque, immutable blocks.
Abstract == INSTANCE OpaqueBlobStore WITH blob <- Visible
ImplementsBlobStore == Abstract!Spec
=============================================================================
