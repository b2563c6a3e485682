------------------------- MODULE MCReceiveDownload -------------------------
(* Model-checking instance of ReceiveDownload: a large file whose window   *)
(* moves, two small files that end inside the first window, and one that   *)
(* is longer than it.                                                      *)
EXTENDS ReceiveDownload, TLC

CONSTANTS s1, s2, large, short, brief, plain

MCBlocks == (large :> 4) @@ (short :> 1) @@ (brief :> 1) @@ (plain :> 3)
MCWire == (large :> 3) @@ (short :> 2) @@ (brief :> 3) @@ (plain :> 3)
MCTargets == (large :> 2) @@ (short :> 1) @@ (brief :> 1) @@ (plain :> 1)

\* Two files at once, one file twice at once, one download after another, and a
\* file whose rest is asked for at once.
MCAsks ==
    LET Both(p, q) == (s1 :> p) @@ (s2 :> q)
    IN  {Both(<<brief>>, <<short>>), Both(<<short>>, <<short>>),
         Both(<<large, large>>, <<>>), Both(<<plain>>, <<>>)}
=============================================================================
