----------------------- MODULE RelayBlockStoreProofs -----------------------
(* Theorems about the relay's block store.                                 *)
EXTENDS RelayBlockStore, FiniteSetTheorems, TLAPS

(* The type invariant holds whether or not PUTs of one token overlap: the  *)
(* handlers of domain/blocks.py never leave a value of the wrong kind in   *)
(* the index, on disk or in a coroutine.                                   *)
THEOREM TypeCorrect == Spec => []TypeOK
<1>1. Init => TypeOK
  <2> SUFFICES ASSUME Init PROVE TypeOK
    OBVIOUS
  <2> USE StoreAssumption DEF Init, Stored
  <2>1. /\ rows \in [Token -> Digest \cup {None}]
        /\ staleRows \subseteq Stored
        /\ files \in [Token -> Data \cup {None, Torn}]
        /\ staleFiles \subseteq {t \in Token : files[t] # None}
    OBVIOUS
  <2>2. /\ put \in [PutHandler -> [pc : PutPC \cup {"idle"},
                                  token : Token \cup {None},
                                  data : Data \cup {None}]]
        /\ \A h \in PutHandler : put[h].pc = "idle"
    BY DEF PutIdle
  <2>3. /\ get \in [GetHandler -> [pc : {"idle", "read", "drop"},
                                  token : Token \cup {None}]]
        /\ \A g \in GetHandler : get[g].pc = "idle"
    BY DEF GetIdle
  <2>4. /\ sweep \in [pc : {"idle", "file", "row", "orphans"},
                      stale : SUBSET Token, token : Token \cup {None},
                      active : SUBSET Token]
        /\ sweep.pc # "row"
    BY DEF SweepIdle
  <2>5. serving \in BOOLEAN /\ acked \subseteq Token
    BY ZenonT(20)
  <2>7. crashes \in 0..MaxCrashes
    BY SMT
  <2>6. QED
    BY <2>1, <2>2, <2>3, <2>4, <2>5, <2>7 DEF TypeOK
<1>2. TypeOK /\ [Next]_vars => TypeOK'
  <2> SUFFICES ASSUME TypeOK, [Next]_vars PROVE TypeOK'
    OBVIOUS
  <2> USE StoreAssumption DEF TypeOK, Stored, Digest, PutPC, index, disk
  <2>1. ASSUME NEW h \in PutHandler, NEW t \in Token, NEW d \in Data,
               PutLookup(h, t, d)
        PROVE  TypeOK'
    <3>1. put[h].pc = "idle" /\ t # None /\ d # None
      BY <2>1 DEF PutLookup
    <3>2. /\ put' \in [PutHandler -> [pc : PutPC \cup {"idle"},
                                     token : Token \cup {None},
                                     data : Data \cup {None}]]
          /\ \A k \in PutHandler : put'[k].pc # "idle" =>
                                 put'[k].token \in Token /\ put'[k].data \in Data
      <4>1. CASE rows[t] = None
        BY <2>1, <4>1 DEF PutLookup
      <4>2. CASE rows[t] # None
        BY <2>1, <4>2 DEF PutLookup
      <4>3. QED
        BY <4>1, <4>2
    <3>3. QED
      BY <2>1, <3>2 DEF PutLookup
  <2>2. ASSUME NEW h \in PutHandler, PutVerify(h)
        PROVE  TypeOK'
    <3>1. CASE GoTo(h, "macCheck")
      BY <2>2, <3>1 DEF PutVerify, GoTo
    <3>2. CASE Finish(h)
      BY <2>2, <3>2 DEF PutVerify, Finish, PutIdle
    <3>3. QED
      BY <2>2, <3>1, <3>2 DEF PutVerify
  <2>3. ASSUME NEW h \in PutHandler, PutMacCheck(h)
        PROVE  TypeOK'
    BY <2>3 DEF PutMacCheck, Finish, PutIdle
  <2>4. ASSUME NEW h \in PutHandler, PutCount(h)
        PROVE  TypeOK'
    BY <2>4 DEF PutCount, GoTo, Finish, PutIdle
  <2>5. ASSUME NEW h \in PutHandler, PutWrite(h)
        PROVE  TypeOK'
    <3>1. put[h].token \in Token /\ put[h].data \in Data
      BY <2>5 DEF PutWrite
    <3>2. CASE /\ files' = [files EXCEPT ![put[h].token] = put[h].data]
               /\ staleFiles' = staleFiles \ {put[h].token}
               /\ GoTo(h, "insert")
      BY <2>5, <3>1, <3>2 DEF PutWrite, GoTo
    <3>3. CASE RemoveFiles({put[h].token}) /\ GoTo(h, "undoRow")
      BY <2>5, <3>1, <3>3 DEF PutWrite, GoTo, RemoveFiles
    <3>4. QED
      BY <2>5, <3>2, <3>3 DEF PutWrite
  <2>6. ASSUME NEW h \in PutHandler, PutInsert(h)
        PROVE  TypeOK'
    <3>1. put[h].token \in Token /\ BlockHash(put[h].data) \in Digest
      BY <2>6 DEF PutInsert
    <3>2. CASE /\ rows[put[h].token] = None
               /\ rows' = [rows EXCEPT ![put[h].token] = BlockHash(put[h].data)]
               /\ staleRows' = staleRows \ {put[h].token}
               /\ acked' = acked \ {put[h].token}
               /\ GoTo(h, "register")
      BY <2>6, <3>1, <3>2 DEF PutInsert, GoTo
    <3>3. CASE GoTo(h, "undoFile") /\ UNCHANGED <<index, acked>>
      BY <2>6, <3>3 DEF PutInsert, GoTo
    <3>4. QED
      BY <2>6, <3>2, <3>3 DEF PutInsert
  <2>7. ASSUME NEW h \in PutHandler, PutRegister(h)
        PROVE  TypeOK'
    <3>1. put[h].token \in Token
      BY <2>7 DEF PutRegister
    <3>2. CASE acked' = acked \cup {put[h].token} /\ Finish(h)
      BY <2>7, <3>1, <3>2 DEF PutRegister, Finish, PutIdle
    <3>3. CASE GoTo(h, "undoFile") /\ UNCHANGED acked
      BY <2>7, <3>3 DEF PutRegister, GoTo
    <3>4. QED
      BY <2>7, <3>2, <3>3 DEF PutRegister
  <2>8. ASSUME NEW h \in PutHandler, PutUndoFile(h)
        PROVE  TypeOK'
    BY <2>8 DEF PutUndoFile, GoTo, RemoveFiles, PutIdle
  <2>9. ASSUME NEW h \in PutHandler, PutUndoRow(h)
        PROVE  TypeOK'
    BY <2>9 DEF PutUndoRow, DeleteRow, Finish, PutIdle
  <2>10. ASSUME NEW g \in GetHandler, NEW t \in Token, GetLookup(g, t)
         PROVE  TypeOK'
    BY <2>10 DEF GetLookup
  <2>11. ASSUME NEW g \in GetHandler, GetRead(g)
         PROVE  TypeOK'
    BY <2>11 DEF GetRead, GetIdle
  <2>12. ASSUME NEW g \in GetHandler, GetDrop(g)
         PROVE  TypeOK'
    BY <2>12 DEF GetDrop, DeleteRow, GetIdle
  <2>13. CASE SweepList
    BY <2>13 DEF SweepList
  <2>14. ASSUME NEW t \in Token, SweepRemoveFile(t)
         PROVE  TypeOK'
    BY <2>14 DEF SweepRemoveFile, RemoveFiles
  <2>15. CASE SweepDeleteRow
    BY <2>15 DEF SweepDeleteRow, DeleteRow
  <2>16. CASE SweepListPaths
    BY <2>16 DEF SweepListPaths
  <2>17. CASE SweepOrphans
    BY <2>17 DEF SweepOrphans, RemoveFiles, SweepIdle
  <2>18. ASSUME NEW t \in Token, AdminDeleteRow(t)
         PROVE  TypeOK'
    BY <2>18 DEF AdminDeleteRow, DeleteRow
  <2>19. ASSUME NEW t \in Token, Age(t)
         PROVE  TypeOK'
    BY <2>19 DEF Age
  <2>20. CASE Crash
    <3>1. PICK cut \in SUBSET {put[h].token : h \in {k \in PutHandler :
                                                    put[k].pc = "write"}} :
            /\ files' = [t \in Token |-> IF t \in cut THEN Torn ELSE files[t]]
            /\ staleFiles' = staleFiles \ cut
      BY <2>20 DEF Crash
    <3>2. /\ files' \in [Token -> Data \cup {None, Torn}]
          /\ (staleFiles \subseteq {t \in Token : files[t] # None})'
      BY <3>1
    <3>3. /\ put' \in [PutHandler -> [pc : PutPC \cup {"idle"},
                                     token : Token \cup {None},
                                     data : Data \cup {None}]]
          /\ \A h \in PutHandler : put'[h].pc = "idle"
      BY <2>20 DEF Crash, PutIdle
    <3>4. /\ get' \in [GetHandler -> [pc : {"idle", "read", "drop"},
                                     token : Token \cup {None}]]
          /\ \A g \in GetHandler : get'[g].pc = "idle"
      BY <2>20 DEF Crash, GetIdle
    <3>5. /\ sweep' \in [pc : {"idle", "file", "row", "orphans"},
                         stale : SUBSET Token, token : Token \cup {None},
                         active : SUBSET Token]
          /\ sweep'.pc # "row"
      BY <2>20 DEF Crash, SweepIdle
    <3>6. /\ UNCHANGED <<rows, staleRows, acked>>
          /\ serving' = FALSE
          /\ crashes' \in 0..MaxCrashes
      BY <2>20 DEF Crash
    <3>7. QED
      BY <3>2, <3>3, <3>4, <3>5, <3>6
  <2>21. CASE UNCHANGED vars
    BY <2>21 DEF vars
  <2>22. QED
    BY <2>1, <2>2, <2>3, <2>4, <2>5, <2>6, <2>7, <2>8, <2>9, <2>10, <2>11,
       <2>12, <2>13, <2>14, <2>15, <2>16, <2>17, <2>18, <2>19, <2>20, <2>21
       DEF Next, PutStep, GetStep, SweepStep
<1>3. QED
  BY <1>1, <1>2, PTL DEF Spec

-----------------------------------------------------------------------------
(* A create checks Cardinality(Stored) < MaxBlocks and only then awaits    *)
(* the INSERT, so the limit can be exceeded; the theorem bounds by how     *)
(* much, for every number of tokens and of concurrent PUTs.                *)

\* What is counted is finite, so the counts are natural numbers.
LEMMA FiniteCounts ==
    ASSUME TypeOK
    PROVE  /\ IsFiniteSet(Stored) /\ Cardinality(Stored) \in Nat
           /\ IsFiniteSet(Admitted) /\ Cardinality(Admitted) \in Nat
           /\ Cardinality(PutHandler) \in Nat
           /\ Cardinality(Admitted) <= Cardinality(PutHandler)
<1>1. Stored \subseteq Token /\ Admitted \subseteq PutHandler
  BY DEF Stored, Admitted
<1>2. QED
  BY <1>1, StoreAssumption, FS_Subset, FS_CardinalityType

\* Removing rows and finishing creates cannot exceed the bound.
LEMMA ShrinkingKeepsBound ==
    ASSUME TypeOK, TypeOK', OvershootBounded,
           Stored' \subseteq Stored, Admitted' \subseteq Admitted
    PROVE  OvershootBounded'
<1>1. IsFiniteSet(Stored) /\ IsFiniteSet(Admitted)
  BY FiniteCounts
<1>2. /\ Cardinality(Stored') <= Cardinality(Stored)
      /\ Cardinality(Admitted') <= Cardinality(Admitted)
      /\ Cardinality(Stored') \in Nat /\ Cardinality(Admitted') \in Nat
  BY <1>1, FS_Subset, FS_CardinalityType
<1>3. QED
  BY <1>2, FiniteCounts, StoreAssumption DEF OvershootBounded

\* Rows and admitted PUTs exceed maxBlocks by less than the number of handlers.
THEOREM OvershootIsBounded == Spec => []OvershootBounded
<1>1. Init => OvershootBounded
  <2> SUFFICES ASSUME Init PROVE OvershootBounded
    OBVIOUS
  <2>1. Stored = {} /\ Admitted = {}
    BY DEF Init, Stored, Admitted, PutIdle
  <2>2. Cardinality(PutHandler) \in Nat /\ Cardinality(PutHandler) # 0
    BY StoreAssumption, FS_CardinalityType, FS_EmptySet
  <2>3. QED
    BY <2>1, <2>2, FS_EmptySet, StoreAssumption DEF OvershootBounded
<1>2. TypeOK /\ TypeOK' /\ OvershootBounded /\ [Next]_vars => OvershootBounded'
  <2> SUFFICES ASSUME TypeOK, TypeOK', OvershootBounded, [Next]_vars
               PROVE  OvershootBounded'
    OBVIOUS
  <2>1. ASSUME NEW h \in PutHandler, PutCount(h)
        PROVE  OvershootBounded'
    <3>1. CASE Cardinality(Stored) >= MaxBlocks
      <4>1. Stored' = Stored /\ Admitted' \subseteq Admitted
        BY <2>1, <3>1 DEF PutCount, Finish, PutIdle, Stored, Admitted, index,
                          TypeOK
      <4>2. QED
        BY <4>1, ShrinkingKeepsBound
    <3>2. CASE ~(Cardinality(Stored) >= MaxBlocks)
      <4>1. Stored' = Stored
        BY <2>1 DEF PutCount, Stored, index
      <4>2. Cardinality(Admitted') <= Cardinality(PutHandler)
        BY FiniteCounts, FS_Subset, StoreAssumption DEF Admitted
      <4>3. Cardinality(Admitted') \in Nat
        BY FS_Subset, FS_CardinalityType, StoreAssumption DEF Admitted
      <4>4. QED
        BY <3>2, <4>1, <4>2, <4>3, FiniteCounts, StoreAssumption
           DEF OvershootBounded
    <3>3. QED
      BY <3>1, <3>2
  <2>2. ASSUME NEW h \in PutHandler, PutInsert(h)
        PROVE  OvershootBounded'
    <3>1. put[h].token \in Token /\ h \in Admitted
      BY <2>2 DEF PutInsert, TypeOK, Admitted
    <3>2. Admitted' = Admitted \ {h}
      BY <2>2 DEF PutInsert, GoTo, Admitted, TypeOK
    <3>3. Stored' \subseteq Stored \cup {put[h].token}
      BY <2>2 DEF PutInsert, Stored, index, TypeOK
    <3>4. Cardinality(Admitted') = Cardinality(Admitted) - 1
      BY <3>1, <3>2, FiniteCounts, FS_RemoveElement
    <3>5. /\ IsFiniteSet(Stored \cup {put[h].token})
          /\ Cardinality(Stored \cup {put[h].token}) <= Cardinality(Stored) + 1
      <4>1. IsFiniteSet(Stored) /\ Cardinality(Stored) \in Nat
        BY FiniteCounts
      <4>2. QED
        BY ONLY <4>1, FS_AddElement
    <3>6. /\ Cardinality(Stored') <= Cardinality(Stored) + 1
          /\ Cardinality(Stored') \in Nat
      BY <3>3, <3>5, FS_Subset, FS_CardinalityType, FiniteCounts
    <3>7. QED
      BY <3>4, <3>6, FiniteCounts, StoreAssumption DEF OvershootBounded
  <2>3. ASSUME NEW h \in PutHandler,
               (\E t \in Token, d \in Data : PutLookup(h, t, d)) \/ PutVerify(h)
                 \/ PutMacCheck(h) \/ PutWrite(h)
                 \/ PutRegister(h) \/ PutUndoFile(h) \/ PutUndoRow(h)
        PROVE  OvershootBounded'
    <3>1. Stored' \subseteq Stored
      BY <2>3 DEF PutLookup, PutVerify, PutMacCheck, PutWrite, PutRegister,
                  PutUndoFile, PutUndoRow, DeleteRow, Stored, index, TypeOK
    <3>2. Admitted' \subseteq Admitted
      <4>1. ASSUME NEW k \in PutHandler, k # h PROVE put'[k] = put[k]
        BY <2>3, <4>1 DEF PutLookup, PutVerify, PutMacCheck, PutWrite,
             PutRegister, PutUndoFile, PutUndoRow, GoTo, Finish, TypeOK
      <4>2. CASE PutWrite(h)
        <5>1. put[h].pc = "write" /\ h \in Admitted
          BY <4>2 DEF PutWrite, Admitted
        <5>2. QED
          BY <4>1, <5>1 DEF Admitted
      <4>3. CASE ~PutWrite(h)
        <5>1. put'[h].pc \notin {"write", "insert"}
          BY <2>3, <4>3 DEF PutLookup, PutVerify, PutMacCheck, PutRegister,
               PutUndoFile, PutUndoRow, GoTo, Finish, PutIdle, TypeOK
        <5>2. QED
          BY <4>1, <5>1 DEF Admitted
      <4>4. QED
        BY <4>2, <4>3
    <3>3. QED
      BY <3>1, <3>2, ShrinkingKeepsBound
  <2>4. CASE \/ \E g \in GetHandler, t \in Token : GetLookup(g, t)
             \/ \E g \in GetHandler : GetStep(g)
             \/ SweepStep
             \/ \E t \in Token : AdminDeleteRow(t)
             \/ \E t \in Token : Age(t)
             \/ UNCHANGED vars
    <3>1. put' = put
      BY <2>4 DEF GetLookup, GetStep, GetRead, GetDrop, SweepStep, SweepList,
                  SweepListPaths, SweepDeleteRow, SweepOrphans,
                  SweepRemoveFile, AdminDeleteRow, Age, vars
    <3>2. rows' = rows \/ \E t : DeleteRow(t)
      BY <2>4 DEF GetLookup, GetStep, GetRead, GetDrop, SweepStep, SweepList,
                  SweepListPaths, SweepDeleteRow, SweepOrphans,
                  SweepRemoveFile, AdminDeleteRow, Age, index, vars
    <3>3. Stored' \subseteq Stored
      BY <3>2 DEF DeleteRow, Stored, TypeOK
    <3>4. QED
      BY <3>1, <3>3, ShrinkingKeepsBound DEF Admitted
  <2>5. CASE Crash
    <3>1. Stored' = Stored /\ Admitted' = {}
      BY <2>5 DEF Crash, Stored, Admitted, index, PutIdle
    <3>2. QED
      BY <3>1, ShrinkingKeepsBound
  <2>6. QED
    BY <2>1, <2>2, <2>3, <2>4, <2>5 DEF Next, PutStep
<1>3. QED
  BY <1>1, <1>2, TypeCorrect, PTL DEF Spec
-----------------------------------------------------------------------------
(* As long as the PUTs of one token do not overlap, what the index and the *)
(* disk both hold is the registered block, whatever reads, sweeps, deletes *)
(* of the operator and crashes come between.                               *)

\* Every step of the relay keeps the invariant.
LEMMA SerialStep ==
    ASSUME ~OverlappingPuts, TypeOK, TypeOK', SerialInv, [Next]_vars
    PROVE  SerialInv'
<1> USE StoreAssumption DEF SerialInv, OnePutPerToken, CreateSeesNoRow,
        FileAwaitsRow, TornIsUnindexed, IndexedFileIsIntact, NoTornRead
<1>1. ASSUME NEW h \in PutHandler, NEW t \in Token, NEW d \in Data,
             PutLookup(h, t, d)
      PROVE  SerialInv'
  <2>1. /\ put[h].pc = "idle"
        /\ \A k \in PutHandler : put[k].token # t
        /\ \A k \in PutHandler : k # h => put'[k] = put[k]
        /\ put'[h].token = t /\ put'[h].data = d
        /\ put'[h].pc = IF rows[t] = None THEN "count" ELSE "verify"
    BY <1>1 DEF PutLookup, TypeOK
  <2>2. UNCHANGED <<rows, files, get>>
    BY <1>1 DEF PutLookup, index, disk
  <2>3. QED
    BY <2>1, <2>2
<1>2. ASSUME NEW h \in PutHandler,
             PutVerify(h) \/ PutMacCheck(h) \/ PutCount(h) \/ PutRegister(h)
      PROVE  SerialInv'
  <2>1. /\ \A k \in PutHandler : k # h => put'[k] = put[k]
        /\ put'[h].pc \in {"idle", "macCheck", "write", "undoFile"}
        /\ put'[h].pc # "idle" => put'[h].token = put[h].token
        /\ put'[h].token \in {put[h].token, None}
        /\ put'[h].pc = "write" => put[h].pc = "count"
        /\ put[h].pc # "idle"
    BY <1>2 DEF PutVerify, PutMacCheck, PutCount, PutRegister, GoTo, Finish,
                PutIdle, TypeOK
  <2>2. UNCHANGED <<rows, files, get>>
    BY <1>2 DEF PutVerify, PutMacCheck, PutCount, PutRegister, index, disk
  <2>3. \A k \in PutHandler : put[k].pc # "idle" => put[k].token # None
    BY DEF TypeOK
  <2>4. OnePutPerToken'
    BY <2>1, <2>3
  <2>5. CreateSeesNoRow' /\ FileAwaitsRow'
    BY <2>1, <2>2
  <2>6. TornIsUnindexed' /\ IndexedFileIsIntact' /\ NoTornRead'
    BY <2>2
  <2>7. QED
    BY <2>4, <2>5, <2>6
<1>3. ASSUME NEW h \in PutHandler, PutWrite(h) PROVE SerialInv'
  <2>1. /\ put[h].pc = "write" /\ rows[put[h].token] = None
        /\ put[h].token \in Token /\ put[h].data \in Data
        /\ \A k \in PutHandler : k # h => put'[k] = put[k]
        /\ put'[h].token = put[h].token /\ put'[h].data = put[h].data
        /\ put'[h].pc \in {"insert", "undoRow"}
        /\ UNCHANGED <<rows, get>>
    BY <1>3 DEF PutWrite, GoTo, index, TypeOK
  <2>2. /\ \A t \in Token : t # put[h].token => files'[t] = files[t]
        /\ put'[h].pc = "insert" => files'[put[h].token] = put[h].data
        /\ files'[put[h].token] \in {put[h].data, None}
    BY <1>3, <2>1 DEF PutWrite, GoTo, RemoveFiles, TypeOK
  <2>3. OnePutPerToken' /\ CreateSeesNoRow'
    BY <2>1
  <2>4. FileAwaitsRow'
    BY <2>1, <2>2 DEF TypeOK
  <2>5. TornIsUnindexed' /\ IndexedFileIsIntact'
    BY <2>1, <2>2
  <2>6. NoTornRead'
    BY <2>1, <2>2 DEF TypeOK
  <2>7. QED
    BY <2>3, <2>4, <2>5, <2>6
<1>4. ASSUME NEW h \in PutHandler, PutInsert(h) PROVE SerialInv'
  <2>1. /\ put[h].pc = "insert" /\ rows[put[h].token] = None
        /\ put[h].token \in Token /\ put[h].data \in Data
        /\ files[put[h].token] \in {put[h].data, None}
        /\ UNCHANGED <<files, get>>
    BY <1>4 DEF PutInsert, disk, TypeOK
  <2>2. /\ rows' = [rows EXCEPT ![put[h].token] = BlockHash(put[h].data)]
        /\ \A k \in PutHandler : k # h => put'[k] = put[k]
        /\ put'[h].token = put[h].token
        /\ put'[h].pc = "register"
    BY <1>4, <2>1 DEF PutInsert, GoTo, TypeOK
  <2>3. OnePutPerToken'
    BY <2>1, <2>2
  <2>4. CreateSeesNoRow'
    <3>1. \A k \in PutHandler : k # h /\ put[k].pc # "idle" =>
                                 put[k].token # put[h].token
      BY <2>1
    <3>2. \A t \in Token : t # put[h].token => rows'[t] = rows[t]
      BY <2>2 DEF TypeOK
    <3>3. QED
      BY <2>1, <2>2, <3>1, <3>2 DEF TypeOK
  <2>5. FileAwaitsRow'
    BY <2>1, <2>2
  <2>6. TornIsUnindexed' /\ IndexedFileIsIntact'
    BY <2>1, <2>2 DEF TypeOK
  <2>7. NoTornRead'
    BY <2>1
  <2>8. QED
    BY <2>3, <2>4, <2>5, <2>6, <2>7
<1>5. ASSUME NEW h \in PutHandler, PutUndoFile(h) \/ PutUndoRow(h)
      PROVE  SerialInv'
  <2>1. /\ \A k \in PutHandler : k # h => put'[k] = put[k]
        /\ put'[h].pc \in {"idle", "undoRow"}
        /\ put'[h].pc # "idle" => put'[h].token = put[h].token
        /\ put'[h].token \in {put[h].token, None}
        /\ put[h].pc # "idle"
        /\ get' = get
    BY <1>5 DEF PutUndoFile, PutUndoRow, GoTo, Finish, PutIdle, TypeOK
  <2>2. /\ \A t \in Token : rows'[t] \in {rows[t], None}
        /\ \A t \in Token : files'[t] \in {files[t], None}
    BY <1>5 DEF PutUndoFile, PutUndoRow, DeleteRow, RemoveFiles, index, disk,
                TypeOK
  <2>3. \A k \in PutHandler :
           put[k].pc # "idle" => put[k].token \in Token /\ put[k].token # None
    BY DEF TypeOK
  <2>4. OnePutPerToken'
    BY <2>1, <2>3
  <2>5. CreateSeesNoRow' /\ FileAwaitsRow'
    BY <2>1, <2>2, <2>3
  <2>6. TornIsUnindexed' /\ IndexedFileIsIntact'
    BY <2>2
  <2>7. NoTornRead'
    BY <2>1, <2>2 DEF TypeOK
  <2>8. QED
    BY <2>4, <2>5, <2>6, <2>7
<1>6. ASSUME NEW g \in GetHandler, NEW t \in Token, GetLookup(g, t)
      PROVE  SerialInv'
  BY <1>6 DEF GetLookup, index, disk, TypeOK
<1>7. CASE \/ \E g \in GetHandler : GetStep(g)
           \/ SweepStep
           \/ \E t \in Token : AdminDeleteRow(t)
           \/ \E t \in Token : Age(t)
           \/ UNCHANGED vars
  <2>1. put' = put
    BY <1>7 DEF GetStep, GetRead, GetDrop, SweepStep, SweepList,
                SweepListPaths, SweepDeleteRow, SweepOrphans, SweepRemoveFile,
                AdminDeleteRow, Age, vars
  <2>6. \A g \in GetHandler : get'[g].pc = "read" => get'[g] = get[g]
    <3>1. CASE \E g \in GetHandler : GetStep(g)
      BY <3>1 DEF GetStep, GetRead, GetDrop, GetIdle, TypeOK
    <3>2. CASE get' = get
      BY <3>2
    <3>3. QED
      BY <1>7, <3>1, <3>2 DEF SweepStep, SweepList, SweepListPaths,
         SweepDeleteRow, SweepOrphans, SweepRemoveFile, AdminDeleteRow, Age,
         vars
  <2>2. \/ rows' = rows
        \/ \E t : DeleteRow(t)
    BY <1>7 DEF GetStep, GetRead, GetDrop, SweepStep, SweepList,
                SweepListPaths, SweepDeleteRow, SweepOrphans, SweepRemoveFile,
                AdminDeleteRow, Age, index, vars
  <2>3. \/ files' = files
        \/ \E T : RemoveFiles(T)
    BY <1>7 DEF GetStep, GetRead, GetDrop, SweepStep, SweepList,
                SweepListPaths, SweepDeleteRow, SweepOrphans, SweepRemoveFile,
                AdminDeleteRow, Age, disk, vars
  <2>4. /\ \A t \in Token : rows'[t] \in {rows[t], None}
        /\ \A t \in Token : files'[t] \in {files[t], None}
    BY <2>2, <2>3 DEF DeleteRow, RemoveFiles, TypeOK
  <2>7. OnePutPerToken' /\ CreateSeesNoRow' /\ FileAwaitsRow'
    BY <2>1, <2>4 DEF TypeOK
  <2>8. TornIsUnindexed' /\ IndexedFileIsIntact' /\ NoTornRead'
    BY <2>4, <2>6 DEF TypeOK
  <2>5. QED
    BY <2>7, <2>8
<1>8. CASE Crash
  <2>1. /\ \A h \in PutHandler : put'[h].pc = "idle"
        /\ \A g \in GetHandler : get'[g].pc = "idle"
        /\ rows' = rows
    BY <1>8 DEF Crash, PutIdle, GetIdle, index
  <2>2. \A t \in Token : \/ files'[t] = files[t]
                         \/ files'[t] = Torn /\ rows[t] = None
    BY <1>8 DEF Crash, TypeOK
  <2>3. QED
    BY <2>1, <2>2
<1>9. QED
  BY <1>1, <1>2, <1>3, <1>4, <1>5, <1>6, <1>7, <1>8
     DEF Next, PutStep

\* The invariant holds of every behaviour without overlapping PUTs of a token.
LEMMA SerialInvariant == ~OverlappingPuts => (Spec => []SerialInv)
<1> SUFFICES ASSUME ~OverlappingPuts PROVE Spec => []SerialInv
  OBVIOUS
<1>1. Init => SerialInv
  BY StoreAssumption DEF Init, PutIdle, GetIdle, SerialInv,
                         OnePutPerToken, CreateSeesNoRow, FileAwaitsRow,
                         TornIsUnindexed, IndexedFileIsIntact, NoTornRead
<1>2. TypeOK /\ TypeOK' /\ SerialInv /\ [Next]_vars => SerialInv'
  BY SerialStep
<1>3. QED
  BY <1>1, <1>2, TypeCorrect, PTL DEF Spec

(* The file found through the index is the block the index describes.      *)
THEOREM SerialPutsKeepFilesIntact ==
    ~OverlappingPuts => (Spec => []IndexedFileIsIntact)
<1>1. SerialInv => IndexedFileIsIntact
  BY DEF SerialInv
<1>2. QED
  BY <1>1, SerialInvariant, PTL

(* No GET goes on to serve a file that a crash cut short.                  *)
THEOREM SerialPutsHideTornFiles == ~OverlappingPuts => (Spec => []NoTornRead)
<1>1. SerialInv => NoTornRead
  BY DEF SerialInv
<1>2. QED
  BY <1>1, SerialInvariant, PTL

-----------------------------------------------------------------------------
(* What a client was told, and what a reader sees: no PUT undoes what      *)
(* another one was answered 204 for, and the relay implements the store of *)
(* opaque, immutable blocks.                                               *)

\* Of a block whose own PUT was answered 204 no PUT is still undoing anything:
\* either the row is gone, or the PUT that failed is not the one that was
\* answered.  A file that is being put in place is younger than what the orphan
\* sweep removes, and so what that sweep removes has no row.
AckedIsSettled ==
    \A h \in PutHandler :
        put[h].pc \in {"register", "undoFile", "undoRow"} =>
            put[h].token \notin acked \/ rows[put[h].token] = None
WritingIsFresh ==
    \A h \in PutHandler : Writing(h) => put[h].token \notin staleFiles
OrphansAreUnindexed ==
    sweep.pc = "orphans" => \A t \in staleFiles \ sweep.active : rows[t] = None

HistoryInv == AckedIsSettled /\ WritingIsFresh /\ OrphansAreUnindexed

\* A step of PUT h concerns its own token only.
LEMMA PutTouchesOwnToken ==
    ASSUME TypeOK, NEW h \in PutHandler, PutStep(h)
    PROVE  /\ put[h].pc # "idle" /\ put[h].token \in Token
           /\ \A k \in PutHandler : k # h => put'[k] = put[k]
           /\ put'[h].pc = "idle" \/ put'[h].token = put[h].token
           /\ \A t \in Token : t # put[h].token =>
                /\ rows'[t] = rows[t] /\ files'[t] = files[t]
                /\ t \in acked' <=> t \in acked
           /\ staleFiles' \subseteq staleFiles
           /\ put[h].pc \in {"write", "undoFile"} => put[h].token \notin staleFiles'
           /\ UNCHANGED <<get, sweep>>
<1> USE DEF TypeOK, index, disk, GoTo, Finish, PutIdle
<1>1. CASE PutVerify(h) \/ PutMacCheck(h) \/ PutCount(h)
  BY <1>1 DEF PutVerify, PutMacCheck, PutCount
<1>2. CASE PutWrite(h)
  BY <1>2 DEF PutWrite, RemoveFiles
<1>3. CASE PutInsert(h)
  BY <1>3 DEF PutInsert
<1>4. CASE PutRegister(h)
  BY <1>4 DEF PutRegister
<1>5. CASE PutUndoFile(h)
  BY <1>5 DEF PutUndoFile, RemoveFiles
<1>6. CASE PutUndoRow(h)
  BY <1>6 DEF PutUndoRow, DeleteRow
<1>7. QED
  BY <1>1, <1>2, <1>3, <1>4, <1>5, <1>6 DEF PutStep

\* The steps that are not a PUT's take rows and files away, never put one there.
OtherStep ==
    \/ \E g \in GetHandler, t \in Token : GetLookup(g, t)
    \/ \E g \in GetHandler : GetStep(g)
    \/ SweepStep
    \/ \E t \in Token : AdminDeleteRow(t)
    \/ \E t \in Token : Age(t)
    \/ UNCHANGED vars

LEMMA OthersOnlyTakeAway ==
    ASSUME TypeOK, OtherStep
    PROVE  /\ put' = put
           /\ \A t \in Token : rows'[t] \in {rows[t], None}
           /\ \A t \in Token : files'[t] \in {files[t], None}
           /\ acked' \subseteq acked
<1>1. /\ put' = put
      /\ rows' = rows \/ \E t : DeleteRow(t)
      /\ files' = files \/ \E T : RemoveFiles(T)
      /\ acked' \subseteq acked
  BY DEF OtherStep, GetLookup, GetStep, GetRead, GetDrop, SweepStep, SweepList,
         SweepListPaths, SweepDeleteRow, SweepOrphans, SweepRemoveFile,
         AdminDeleteRow, Age, DeleteRow, index, disk, vars
<1>2. QED
  BY <1>1 DEF DeleteRow, RemoveFiles, TypeOK

\* The history of the acknowledged blocks, and the ages of files, are as said.
LEMMA HistoryStep ==
    ASSUME ~OverlappingPuts, TypeOK, TypeOK', SerialInv, HistoryInv, [Next]_vars
    PROVE  HistoryInv'
<1> USE StoreAssumption
<1>0. AckedIsSettled /\ WritingIsFresh /\ OrphansAreUnindexed
      /\ OnePutPerToken /\ CreateSeesNoRow
  BY DEF HistoryInv, SerialInv
<1>1. ASSUME NEW h \in PutHandler, NEW t \in Token, NEW d \in Data,
             PutLookup(h, t, d)
      PROVE  HistoryInv'
  <2>1. /\ \A k \in PutHandler : k # h => put'[k] = put[k]
        /\ put'[h].pc \in {"count", "verify"}
        /\ UNCHANGED <<rows, staleFiles, acked, sweep>>
    BY <1>1 DEF PutLookup, TypeOK, index, disk
  <2>2. QED
    BY <1>0, <2>1 DEF HistoryInv, AckedIsSettled, WritingIsFresh,
                      OrphansAreUnindexed, Writing
<1>2. ASSUME NEW h \in PutHandler, PutStep(h) PROVE HistoryInv'
  <2> DEFINE u == put[h].token
  <2>1. /\ put[h].pc # "idle" /\ u \in Token
        /\ \A k \in PutHandler : k # h => put'[k] = put[k]
        /\ put'[h].pc = "idle" \/ put'[h].token = u
        /\ \A t \in Token : t # u =>
             /\ rows'[t] = rows[t] /\ (t \in acked' <=> t \in acked)
        /\ staleFiles' \subseteq staleFiles
        /\ put[h].pc \in {"write", "undoFile"} => u \notin staleFiles'
        /\ sweep' = sweep
    BY <1>2, PutTouchesOwnToken
  <2>2. \A k \in PutHandler : k # h /\ put[k].pc # "idle" => put[k].token # u
    BY <1>0, <2>1 DEF OnePutPerToken
  <2>3. \A k \in PutHandler : put[k].pc # "idle" => put[k].token \in Token
    BY DEF TypeOK
  <2>4. AckedIsSettled'
    <3>1. ASSUME put'[h].pc \in {"register", "undoFile", "undoRow"}
          PROVE  u \notin acked' \/ rows'[u] = None
      <4>1. CASE PutWrite(h)
        BY <1>0, <2>1, <4>1 DEF PutWrite, CreateSeesNoRow, index
      <4>2. CASE PutInsert(h)
        <5>1. rows[u] = None
          BY <1>0, <4>2 DEF PutInsert, CreateSeesNoRow
        <5>2. QED
          BY <4>2, <5>1 DEF PutInsert
      <4>3. CASE PutRegister(h)
        <5>1. UNCHANGED <<rows, acked>> \/ put'[h].pc = "idle"
          BY <4>3 DEF PutRegister, Finish, PutIdle, index, TypeOK
        <5>2. put[h].pc = "register"
          BY <4>3 DEF PutRegister
        <5>3. QED
          BY <1>0, <3>1, <5>1, <5>2 DEF AckedIsSettled
      <4>4. CASE PutUndoFile(h)
        BY <1>0, <4>4 DEF PutUndoFile, AckedIsSettled, index
      <4>5. CASE PutUndoRow(h) \/ PutVerify(h) \/ PutMacCheck(h) \/ PutCount(h)
        BY <3>1, <4>5 DEF PutUndoRow, PutVerify, PutMacCheck, PutCount, GoTo,
                          Finish, PutIdle, TypeOK
      <4>6. QED
        BY <1>2, <4>1, <4>2, <4>3, <4>4, <4>5 DEF PutStep
    <3>2. ASSUME NEW k \in PutHandler, k # h,
                 put'[k].pc \in {"register", "undoFile", "undoRow"}
          PROVE  put'[k].token \notin acked' \/ rows'[put'[k].token] = None
      <4>1. put'[k] = put[k] /\ put[k].token \in Token /\ put[k].token # u
        BY <2>1, <2>2, <2>3, <3>2
      <4>2. QED
        BY <1>0, <2>1, <3>2, <4>1 DEF AckedIsSettled
    <3>3. QED
      BY <2>1, <3>1, <3>2 DEF AckedIsSettled
  <2>5. WritingIsFresh'
    <3>1. Writing(h)' => u \notin staleFiles'
      <4>1. ASSUME Writing(h)' PROVE put[h].pc = "write" \/ Writing(h)
        BY <1>2, <4>1 DEF PutStep, PutVerify, PutMacCheck, PutCount, PutWrite,
           PutInsert, PutRegister, PutUndoFile, PutUndoRow, GoTo, Finish,
           PutIdle, Writing, TypeOK
      <4>2. QED
        BY <1>0, <2>1, <4>1 DEF WritingIsFresh
    <3>2. QED
      BY <1>0, <2>1, <3>1 DEF WritingIsFresh, Writing
  <2>6. OrphansAreUnindexed'
    <3>1. ASSUME sweep.pc = "orphans", NEW t \in staleFiles' \ sweep.active
          PROVE  rows'[t] = None
      <4>1. t \in staleFiles /\ t \in Token /\ rows[t] = None
        BY <1>0, <2>1, <3>1 DEF OrphansAreUnindexed, TypeOK
      <4>2. CASE t # u
        BY <2>1, <4>1, <4>2
      <4>3. CASE t = u /\ PutInsert(h)
        BY <1>0, <4>1, <4>3 DEF PutInsert, WritingIsFresh, Writing
      <4>4. CASE t = u /\ ~PutInsert(h)
        <5>1. rows' = rows \/ DeleteRow(u)
          BY <1>2, <4>4 DEF PutStep, PutVerify, PutMacCheck, PutCount, PutWrite,
             PutRegister, PutUndoFile, PutUndoRow, index
        <5>2. QED
          BY <4>1, <5>1 DEF DeleteRow, TypeOK
      <4>5. QED
        BY <4>2, <4>3, <4>4
    <3>2. QED
      BY <2>1, <3>1 DEF OrphansAreUnindexed
  <2>7. QED
    BY <2>4, <2>5, <2>6 DEF HistoryInv
<1>3. CASE OtherStep
  <2>1. /\ put' = put /\ acked' \subseteq acked
        /\ \A t \in Token : rows'[t] \in {rows[t], None}
    BY <1>3, OthersOnlyTakeAway
  <2>2. AckedIsSettled'
    BY <1>0, <2>1 DEF AckedIsSettled, TypeOK
  <2>3. WritingIsFresh'
    <3>1. CASE \E t \in Token : Age(t)
      BY <1>0, <2>1, <3>1 DEF WritingIsFresh, Writing, Age
    <3>2. CASE ~(\E t \in Token : Age(t))
      <4>1. staleFiles' \subseteq staleFiles
        BY <1>3, <3>2 DEF OtherStep, GetLookup, GetStep, GetRead, GetDrop,
           SweepStep, SweepList, SweepListPaths, SweepDeleteRow, SweepOrphans,
           SweepRemoveFile, AdminDeleteRow, RemoveFiles, disk, vars
      <4>2. QED
        BY <1>0, <2>1, <4>1 DEF WritingIsFresh, Writing
    <3>3. QED
      BY <3>1, <3>2
  <2>4. OrphansAreUnindexed'
    <3>1. CASE SweepListPaths
      BY <3>1 DEF SweepListPaths, OrphansAreUnindexed, Stored, TypeOK, disk, index
    <3>2. CASE SweepList \/ SweepDeleteRow \/ SweepOrphans
               \/ \E t \in Token : SweepRemoveFile(t)
      <4>1. sweep'.pc # "orphans"
        <5>1. CASE SweepList
          BY <5>1 DEF SweepList, TypeOK
        <5>2. CASE SweepDeleteRow
          BY <5>2 DEF SweepDeleteRow, TypeOK
        <5>3. CASE SweepOrphans
          BY <5>3 DEF SweepOrphans, SweepIdle
        <5>4. CASE \E t \in Token : SweepRemoveFile(t)
          BY <5>4 DEF SweepRemoveFile, TypeOK
        <5>5. QED
          BY <3>2, <5>1, <5>2, <5>3, <5>4
      <4>2. QED
        BY <4>1 DEF OrphansAreUnindexed
    <3>3. CASE \E t \in Token : Age(t)
      BY <3>3 DEF Age, OrphansAreUnindexed
    <3>4. CASE \/ \E g \in GetHandler, t \in Token : GetLookup(g, t)
               \/ \E g \in GetHandler : GetStep(g)
               \/ \E t \in Token : AdminDeleteRow(t)
               \/ UNCHANGED vars
      <4>1. UNCHANGED <<sweep, staleFiles>>
        BY <3>4 DEF GetLookup, GetStep, GetRead, GetDrop, AdminDeleteRow,
                    disk, vars
      <4>2. QED
        BY <1>0, <2>1, <4>1 DEF OrphansAreUnindexed, TypeOK
    <3>5. QED
      BY <1>3, <3>1, <3>2, <3>3, <3>4 DEF OtherStep, SweepStep
  <2>5. QED
    BY <2>2, <2>3, <2>4 DEF HistoryInv
<1>4. CASE Crash
  <2>1. /\ \A h \in PutHandler : put'[h].pc = "idle"
        /\ sweep'.pc = "idle"
    BY <1>4 DEF Crash, PutIdle, SweepIdle
  <2>2. QED
    BY <2>1 DEF HistoryInv, AckedIsSettled, WritingIsFresh, OrphansAreUnindexed,
                Writing
<1>5. QED
  BY <1>1, <1>2, <1>3, <1>4 DEF Next, OtherStep

LEMMA HistoryInvariant == ~OverlappingPuts => (Spec => []HistoryInv)
<1> SUFFICES ASSUME ~OverlappingPuts PROVE Spec => []HistoryInv
  OBVIOUS
<1>1. Init => HistoryInv
  BY DEF Init, PutIdle, SweepIdle, HistoryInv, AckedIsSettled, WritingIsFresh,
         OrphansAreUnindexed, Writing
<1>2. /\ TypeOK /\ TypeOK' /\ SerialInv /\ HistoryInv /\ [Next]_vars
      => HistoryInv'
  BY HistoryStep
<1>3. QED
  BY <1>1, <1>2, TypeCorrect, SerialInvariant, PTL DEF Spec

\* As long as the PUTs of a token do not overlap, none of them takes away or
\* replaces a block whose own PUT was answered 204: put_block removes the file
\* and the row only of the create that has failed itself.
THEOREM SerialPutsSpareAcked ==
    ~OverlappingPuts => (Spec => AckedSurvivesOtherPuts)
<1> SUFFICES ASSUME ~OverlappingPuts PROVE Spec => AckedSurvivesOtherPuts
  OBVIOUS
<1> DEFINE Spares ==
      put' # put =>
        \A t \in acked : rows[t] # None /\ files[t] # None =>
                            rows'[t] = rows[t] /\ files'[t] = files[t]
<1>1. ASSUME TypeOK, SerialInv, HistoryInv, [Next]_vars
      PROVE  [Spares]_vars
  <2> SUFFICES ASSUME Next, put' # put, NEW t \in acked,
                      rows[t] # None, files[t] # None
               PROVE  rows'[t] = rows[t] /\ files'[t] = files[t]
    BY <1>1
  <2>1. t \in Token /\ AckedIsSettled /\ CreateSeesNoRow
    BY <1>1 DEF TypeOK, HistoryInv, SerialInv
  <2>2. CASE \E h \in PutHandler, u \in Token, d \in Data : PutLookup(h, u, d)
    BY <2>2 DEF PutLookup, index, disk
  <2>3. ASSUME NEW h \in PutHandler, PutStep(h), put[h].token # t
        PROVE  rows'[t] = rows[t] /\ files'[t] = files[t]
    BY <1>1, <2>1, <2>3, PutTouchesOwnToken
  <2>4. ASSUME NEW h \in PutHandler, PutStep(h), put[h].token = t
        PROVE  rows'[t] = rows[t] /\ files'[t] = files[t]
    <3>1. put[h].pc \notin {"count", "write", "insert", "undoFile", "undoRow"}
      BY <2>1, <2>4 DEF AckedIsSettled, CreateSeesNoRow
    <3>2. PutVerify(h) \/ PutMacCheck(h) \/ PutRegister(h)
      BY <2>4, <3>1 DEF PutStep, PutCount, PutWrite, PutInsert, PutUndoFile,
                        PutUndoRow
    <3>3. QED
      BY <3>2 DEF PutVerify, PutMacCheck, PutRegister, index, disk
  <2>5. CASE Crash
    <3>1. rows' = rows /\ (files'[t] = files[t] \/ \E h \in PutHandler :
                             put[h].pc = "write" /\ put[h].token = t)
      BY <2>1, <2>5 DEF Crash, index
    <3>2. QED
      BY <2>1, <3>1 DEF CreateSeesNoRow
  <2>6. CASE OtherStep
    BY <1>1, <2>6, OthersOnlyTakeAway
  <2>7. QED
    BY <2>2, <2>3, <2>4, <2>5, <2>6 DEF Next, OtherStep
<1>2. QED
  BY <1>1, TypeCorrect, SerialInvariant, HistoryInvariant, PTL
     DEF Spec, AckedSurvivesOtherPuts

\* A step that changes at most what is stored under u, and either leaves that
\* invisible or takes it away, is a step of the abstract store.
LEMMA TakingAwayIsWithdrawal ==
    ASSUME TypeOK, NEW u \in Token,
           \A t \in Token : t # u => Visible'[t] = Visible[t],
           Visible'[u] \in {Visible[u], None}
    PROVE  [Abstract!Next]_Visible
<1>1. /\ Visible = [t \in Token |-> Visible[t]]
      /\ Visible' = [t \in Token |-> Visible'[t]]
  BY DEF Visible
<1> DEFINE w == Visible'
<1>2. CASE Visible'[u] = Visible[u]
  BY <1>1, <1>2
<1>3. CASE Visible'[u] # Visible[u]
  <2>1. Visible[u] # None /\ Visible'[u] = None
    BY <1>3
  <2>2. Visible' = [Visible EXCEPT ![u] = None]
    BY <1>1, <2>1
  <2>3. QED
    BY <2>1, <2>2 DEF Abstract!Next, Abstract!Withdraw
<1>4. QED
  BY <1>2, <1>3

\* What the orphan sweep removes, and what a crash cuts short, is not visible.
LEMMA UnindexedIsInvisible ==
    ASSUME TypeOK, rows' = rows,
           \A t \in Token : files'[t] = files[t] \/ rows[t] = None
    PROVE  Visible' = Visible
BY DEF Visible

LEMMA StoreStepIsBlobStep ==
    ASSUME ~OverlappingPuts, TypeOK, SerialInv, HistoryInv, [Next]_vars
    PROVE  [Abstract!Next]_Visible
<1> USE StoreAssumption
<1>0. /\ CreateSeesNoRow /\ FileAwaitsRow /\ OrphansAreUnindexed
  BY DEF SerialInv, HistoryInv
<1>1. CASE \E h \in PutHandler, t \in Token, d \in Data : PutLookup(h, t, d)
  BY <1>1 DEF PutLookup, index, disk, Visible
<1>2. ASSUME NEW h \in PutHandler, PutStep(h) PROVE [Abstract!Next]_Visible
  <2> DEFINE u == put[h].token
             d == put[h].data
  <2>1. /\ u \in Token
        /\ \A t \in Token : t # u => rows'[t] = rows[t] /\ files'[t] = files[t]
    BY <1>2, PutTouchesOwnToken
  <2>2. \A t \in Token : t # u => Visible'[t] = Visible[t]
    BY <2>1 DEF Visible
  <2>3. CASE PutVerify(h) \/ PutMacCheck(h) \/ PutCount(h) \/ PutRegister(h)
    BY <2>3 DEF PutVerify, PutMacCheck, PutCount, PutRegister, index, disk,
                Visible
  <2>4. CASE PutWrite(h)
    <3>1. rows[u] = None /\ rows' = rows
      BY <1>0, <2>4 DEF PutWrite, CreateSeesNoRow, index
    <3>2. QED
      BY <2>1, <3>1, UnindexedIsInvisible
  <2>5. CASE PutInsert(h)
    <3>1. /\ rows[u] = None /\ files[u] \in {d, None} /\ files' = files
          /\ d \in Data
      BY <1>0, <2>5 DEF PutInsert, CreateSeesNoRow, FileAwaitsRow, disk, TypeOK
    <3>2. Visible[u] = None /\ Visible'[u] \in {files[u], None}
      BY <2>1, <3>1 DEF Visible
    <3>3. CASE Visible'[u] = None
      BY <2>1, <2>2, <3>2, <3>3, TakingAwayIsWithdrawal
    <3>4. CASE Visible'[u] = d
      <4>1. /\ Visible' = [Visible EXCEPT ![u] = d]
            /\ Visible[u] = None
        BY <2>1, <2>2, <3>2, <3>4 DEF Visible
      <4> HIDE DEF u, d
      <4>2. \E t \in Token : \E e \in Data :
              Visible[t] = None /\ Visible' = [Visible EXCEPT ![t] = e]
        BY <2>1, <3>1, <4>1
      <4>3. QED
        BY <4>2 DEF Abstract!Next, Abstract!Publish
    <3>5. QED
      BY <3>1, <3>2, <3>3, <3>4
  <2>6. CASE PutUndoFile(h) \/ PutUndoRow(h)
    <3>1. rows'[u] \in {rows[u], None} /\ files'[u] \in {files[u], None}
      BY <2>1, <2>6 DEF PutUndoFile, PutUndoRow, RemoveFiles, DeleteRow, index,
                        disk, TypeOK
    <3>2. Visible'[u] \in {Visible[u], None}
      BY <2>1, <3>1 DEF Visible
    <3>3. QED
      BY <2>1, <2>2, <3>2, TakingAwayIsWithdrawal
  <2>7. QED
    BY <1>2, <2>3, <2>4, <2>5, <2>6 DEF PutStep
<1>3. CASE SweepOrphans
  <2>1. /\ rows' = rows /\ sweep.pc = "orphans"
        /\ \A t \in Token : files'[t] = files[t] \/ t \in staleFiles \ sweep.active
    BY <1>3 DEF SweepOrphans, RemoveFiles, index
  <2>2. \A t \in Token : files'[t] = files[t] \/ rows[t] = None
    BY <1>0, <2>1 DEF OrphansAreUnindexed
  <2>3. QED
    BY <2>1, <2>2, UnindexedIsInvisible
<1>4. ASSUME NEW u \in Token,
             SweepRemoveFile(u) \/ (SweepDeleteRow /\ u = sweep.token)
             \/ AdminDeleteRow(u)
             \/ (\E g \in GetHandler : GetDrop(g) /\ u = get[g].token)
      PROVE  [Abstract!Next]_Visible
  <2>1. /\ \A t \in Token : t # u => rows'[t] = rows[t] /\ files'[t] = files[t]
        /\ rows'[u] \in {rows[u], None} /\ files'[u] \in {files[u], None}
    BY <1>4 DEF SweepRemoveFile, SweepDeleteRow, AdminDeleteRow, GetDrop,
                DeleteRow, RemoveFiles, index, disk, TypeOK
  <2>2. /\ \A t \in Token : t # u => Visible'[t] = Visible[t]
        /\ Visible'[u] \in {Visible[u], None}
    BY <2>1 DEF Visible
  <2>3. QED
    BY <2>2, TakingAwayIsWithdrawal
<1>5. CASE SweepDeleteRow
  <2>1. sweep.token \in Token
    BY <1>5 DEF SweepDeleteRow, TypeOK
  <2>2. QED
    BY <1>4, <1>5, <2>1
<1>6. ASSUME NEW g \in GetHandler, GetDrop(g) PROVE [Abstract!Next]_Visible
  <2>1. get[g].token \in Token
    BY <1>6 DEF GetDrop, TypeOK
  <2>2. QED
    BY <1>4, <1>6, <2>1
<1>7. CASE \/ \E g \in GetHandler, t \in Token : GetLookup(g, t)
           \/ \E g \in GetHandler : GetRead(g)
           \/ SweepList \/ SweepListPaths
           \/ \E t \in Token : Age(t)
           \/ UNCHANGED vars
  BY <1>7 DEF GetLookup, GetRead, SweepList, SweepListPaths, Age, index, disk,
              vars, Visible
<1>8. CASE Crash
  <2>1. rows' = rows /\ \A t \in Token : files'[t] = files[t]
          \/ \E h \in PutHandler : put[h].pc = "write" /\ put[h].token = t
    BY <1>8 DEF Crash, index
  <2>2. \A t \in Token : files'[t] = files[t] \/ rows[t] = None
    BY <1>0, <2>1 DEF CreateSeesNoRow
  <2>3. QED
    BY <2>1, <2>2, UnindexedIsInvisible
<1>9. QED
  BY <1>1, <1>2, <1>3, <1>4, <1>5, <1>6, <1>7, <1>8
     DEF Next, GetStep, SweepStep

\* The relay implements the store of opaque blocks: whatever handlers, sweep,
\* operator and crashes do, under a token a reader finds nothing or one whole
\* block, which is never replaced by another and may be withdrawn.  A file and
\* its row change in different steps, and only one of them is ever visible.
THEOREM RelayImplementsBlobStore ==
    ~OverlappingPuts => (Spec => ImplementsBlobStore)
<1> SUFFICES ASSUME ~OverlappingPuts PROVE Spec => ImplementsBlobStore
  OBVIOUS
<1>1. Init => Abstract!Init
  BY DEF Init, Abstract!Init, Visible
<1>2. TypeOK /\ SerialInv /\ HistoryInv /\ [Next]_vars => [Abstract!Next]_Visible
  BY StoreStepIsBlobStep
<1>3. QED
  BY <1>1, <1>2, TypeCorrect, SerialInvariant, HistoryInvariant, PTL
     DEF Spec, ImplementsBlobStore, Abstract!Spec
=============================================================================
