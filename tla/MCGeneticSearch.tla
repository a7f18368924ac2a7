--------------------------- MODULE MCGeneticSearch ---------------------------
(* GeneticSearch with three individuals and two workers.                    *)
EXTENDS GeneticSearch

CONSTANTS seed, small, twin1, twin2, wild, w1, w2

FiveGenes == {seed, small, twin1, twin2, wild}

\* small is better by less than MinDelta, the twins by more; wild would be the
\* best, but for a fatal drawdown in its second window.
TwoWindows == <<1, 2>>
FewSlices  == [g \in FiveGenes |-> CASE g = seed  -> <<1, 0>>
                                     [] g = small -> <<0, 2>>
                                     [] g = wild  -> <<9, FatalScore>>
                                     [] OTHER     -> <<3, 2>>]
Prints == [g \in FiveGenes |-> IF g = twin2 THEN twin1 ELSE g]

\* Nothing is stored, or a champion that scores worse than when it was stored.
FewStored  == {<<wild>>}
TwoWorkers == {w1, w2}
AllFaults  == FaultNames
=============================================================================
