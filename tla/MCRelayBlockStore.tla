------------------------- MODULE MCRelayBlockStore -------------------------
(* Model-checking instance of RelayBlockStore.                             *)
EXTENDS RelayBlockStore, TLC

\* Tokens and bodies are interchangeable, and so are the handlers.
Symmetry == Permutations(Token) \cup Permutations(Data)
              \cup Permutations(PutHandler) \cup Permutations(GetHandler)
=============================================================================
