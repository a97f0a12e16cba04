----------------------------- MODULE MCSyncSpec -----------------------------
(* SyncSpec on small instances.                                              *)
EXTENDS SyncSpec

\* The second release dropped a file of the first.
MCReleases     == {"v1", "v2"}
MCFiles        == {"envelope", "request", "notes"}
MCReleaseFiles == [v1 |-> MCFiles, v2 |-> {"envelope", "request"}]
MCSchemaFiles  == <<"envelope", "request">>
=============================================================================
