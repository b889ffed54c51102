-------------------------- MODULE MCOpenvoxRelease --------------------------
(***************************************************************************)
(* One operator, or two CI jobs whose concurrency groups are those of      *)
(* .github/workflows/deploy.yml: keyed by host for a service update, by    *)
(* branch for every other trigger.                                         *)
(***************************************************************************)
EXTENDS OpenvoxRelease

MCOneGroup == [j \in Jobs |-> "deploy"]
MCGroups == [j \in Jobs |-> IF j = "update" THEN "deploy-host-nuc"
                            ELSE "deploy-refs/heads/main"]
=============================================================================
