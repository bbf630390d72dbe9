----------------------------- MODULE MCInstaller -----------------------------
(* Instances of Installer for TLC: builds 1 and 2 are the same files of one version, build 3  *)
(* is a later version that keeps plugin_yaml, build 4 the first version with another binary.  *)
EXTENDS Installer

MCVersion == [b \in Builds |-> IF b = 3 THEN 2 ELSE 1]
MCFiles ==
  [b \in Builds |->
    [p \in ManagedPaths |->
      CASE b = 3 /\ p # "plugin_yaml" -> 3
        [] b = 4 /\ p = "binary" -> 4
        [] OTHER -> 1]]
=============================================================================
