---------------------------- MODULE MCDeployment ----------------------------
(* A gateway and a tool skill, two versions, three contents of which one   *)
(* is refused by validation and one cannot be loaded.  The settings decide  *)
(* which skills a boot wants; their facts are checked here.                *)
EXTENDS Deployment, Settings, TLC

CONSTANTS gateway, tool, good, other, refused

MCSkills == {gateway, tool}
MCRequired == {gateway}
MCVersions == {1, 2}
MCBuilds == {good, other, refused}
MCInvalid == {refused}
MCUnloadable == {other}
=============================================================================
