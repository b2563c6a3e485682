---------------------------- MODULE MCWebClient ----------------------------
(* Files of one and three blocks, links with and without download, durations *)
(* that need clamping, and a day of two hours of four minutes.              *)
EXTENDS WebClient, TLC

CONSTANTS c1, c2, small, large, r1, r2, r3

MCNumTokens == (c1 :> 1) @@ (c2 :> 3)
MCHashes == {NoHash, HashOf(c2), [HashOf(c1) EXCEPT !.v = <<>>],
             [HashOf(c1) EXCEPT !.v = <<"2">>], [HashOf(c1) EXCEPT !.others = TRUE],
             [HashOf(c1) EXCEPT !.receive = <<c1, c1>>], HashOf("short")}
MCPresets == <<2, 5, 11, 16, 32>>
MCDurationEntry == {<<0, 0, 0>>, <<0, 0, 5>>, <<0, 5, 0>>, <<1, 2, 3>>,
                    <<2, 1, 0>>, <<3, 0, 0>>, <<-1, 0, 1>>}
=============================================================================
