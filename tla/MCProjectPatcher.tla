-------------------------- MODULE MCProjectPatcher --------------------------
(***************************************************************************)
(* Bounds for checking ProjectPatcher: a project file with every anchor,  *)
(* with and without a PBXTargetDependency section, and files without the  *)
(* TargetAttributes entry or the Release configuration the patch looks    *)
(* for; four runs, so that a run meets a file an earlier run patched or  *)
(* truncated.                                                              *)
(***************************************************************************)
EXTENDS ProjectPatcher

MCFull == Required \cup {"beginTargetDep", "endTargetDep"}

MCInputFiles == {MCFull, Required, Required \ {"targetAttributes"},
                 Required \ {"releaseConfig"}}

MCMaxRuns == 4

(* A project with every anchor and a PBXTargetDependency section, run on   *)
(* once.                                                                   *)
MCCompleteFile == {MCFull}
MCOneRun == 1
=============================================================================
