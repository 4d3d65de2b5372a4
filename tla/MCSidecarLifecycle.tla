------------------------- MODULE MCSidecarLifecycle -------------------------
(* One native directory and two sidecars of one runtime, which share a path. *)
EXTENDS SidecarLifecycle

CONSTANTS d0, d1, d2, lib, tool, empty, none

MCDirs == <<d0, d1, d2>>
MCRuntime == d0 :> Native @@ d1 :> "python" @@ d2 :> "python"
MCLibs == d0 :> {lib} @@ d1 :> {} @@ d2 :> {}
=============================================================================
