------------------------- MODULE MCRebalanceMatch -------------------------
EXTENDS RebalanceMatch

\* Loads of three ranks up to 4; no rank imports, or this rank or another
\* does, from one rank or from both.
MCLoads == [0 .. 2 -> {0, 1, 2, 4}]
Imports(who, from) == [r \in 0 .. 2 |-> IF r = who THEN from ELSE {}]
MCImportMaps == {Imports(1, {}), Imports(1, {0}), Imports(1, {0, 2}), Imports(2, {0})}
MCEpochs == 1 .. 3
===========================================================================
