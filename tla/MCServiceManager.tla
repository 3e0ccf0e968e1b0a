-------------------------- MODULE MCServiceManager --------------------------
(* ServiceManager for TLC: node-runtime, and two services that depend on it.*)
EXTENDS ServiceManager, TLC

CONSTANTS node_runtime, node_start, mesh_sync

MCService == {node_runtime, node_start, mesh_sync}
MCDeps == [s \in MCService |-> IF s = node_runtime THEN {} ELSE {node_runtime}]
MCOrder == <<node_runtime, node_start, mesh_sync>>
=============================================================================
