--------------------------- MODULE MCCollectorRun ---------------------------
EXTENDS CollectorRun

\* The first check has two instances, the first of which runs every other time.
MCChecks == <<"c1", "c2">>
MCNbInstances == [c \in {"c1", "c2"} |-> IF c = "c1" THEN 2 ELSE 1]
MCInterval == [c \in {"c1", "c2"} |->
                [n \in 1..MCNbInstances[c] |-> IF c = "c1" /\ n = 1 THEN 2 ELSE 0]]
=============================================================================
