-------------------------- MODULE OpaqueBlobStore --------------------------
(***************************************************************************)
(* What one relay promises about the blocks it stores, without its index,  *)
(* its files, its handlers and its sweep: under a token there is either    *)
(* nothing or one opaque block, a block appears whole, it is never         *)
(* replaced by another block while it is visible, and it may be withdrawn. *)
(* RelayBlockStore implements this specification as long as no two PUTs of *)
(* one token overlap.                                                      *)
(***************************************************************************)
CONSTANTS Token,    \* block identifiers, the path of PUT /{token}
          Data,     \* request bodies
          None      \* no block

VARIABLE blob       \* what a reader may find under each token

Init == blob = [t \in Token |-> None]

\* A block becomes visible under a token that had none.
Publish(t, d) ==
    /\ blob[t] = None
    /\ blob' = [blob EXCEPT ![t] = d]

\* A block disappears: swept, rolled back, or found without its file.
Withdraw(t) ==
    /\ blob[t] # None
    /\ blob' = [blob EXCEPT ![t] = None]

\* One pass of the orphan sweep can make no block disappear, so a step
\* concerns one token only.
Next == \E t \in Token : Withdraw(t) \/ \E d \in Data : Publish(t, d)

Spec == Init /\ [][Next]_blob
=============================================================================
