------------------------ MODULE MCRegistryPlacement ------------------------
(* Model-checking instance of RegistryPlacement.                           *)
EXTENDS RegistryPlacement, TLC

\* Nothing distinguishes the members of these sets from one another.
Symmetry == Permutations(Token) \cup Permutations(Hash) \cup Permutations(Relay)
              \cup Permutations(Uploader) \cup Permutations(Downloader)
=============================================================================
