----------------------------- MODULE MCVSphere -----------------------------
EXTENDS VSphere

\* A folder with a host that runs a virtual machine, and a host that is filtered out.
MCObjects == {"root", "host", "other", "vm"}
MCChildren == [o \in MCObjects |-> CASE o = "root" -> {"host", "other"} [] o = "host" -> {"vm"}
                                     [] OTHER -> {}]
=============================================================================
