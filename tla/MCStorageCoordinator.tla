------------------------ MODULE MCStorageCoordinator ------------------------
(* Instances of StorageCoordinator for TLC. *)
EXTENDS StorageCoordinator, TLC

CONSTANTS home, away, h1, h2, w1

\* Two stores share a process, a third one is in another.
MCProcOf == (h1 :> home) @@ (h2 :> home) @@ (w1 :> away)
=============================================================================
