-------------------------- MODULE MCRillMLArtifact --------------------------
(***************************************************************************)
(* RillMLArtifact for TLC: three releases.                                 *)
(***************************************************************************)
EXTENDS RillMLArtifact

MCVersions == 1..3
=============================================================================
