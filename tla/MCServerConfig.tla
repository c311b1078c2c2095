--------------------------- MODULE MCServerConfig ---------------------------
(***************************************************************************)
(* Two GPUs and two X servers of a node, two allocations at a time.        *)
(***************************************************************************)
EXTENDS ServerConfig

MCServer == {"x0", "x1"}
MCIndexOf == [s \in MCServer |-> IF s = "x0" THEN 0 ELSE 1]
=============================================================================
