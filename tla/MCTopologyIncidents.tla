------------------------- MODULE MCTopologyIncidents -------------------------
(* Small instances of TopologyIncidents for TLC. *)
EXTENDS TopologyIncidents

\* The incidents of one kind at one server do not depend on those of others.
OneKind == {<<1, "edge_disappeared">>}

\* The pass of `run', or of run-once while `run' is stopped.
OneService == {"run"}
=============================================================================
