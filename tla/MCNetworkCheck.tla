--------------------------- MODULE MCNetworkCheck ---------------------------
EXTENDS NetworkCheck

\* Two instances; the first skips events and gives three results per job, one more than the
\* loop takes.
MCInstances == <<"a", "b">>
MCResults == [n \in {"a", "b"} |-> IF n = "a" THEN 3 ELSE 1]
MCEvented == {"b"}
=============================================================================
