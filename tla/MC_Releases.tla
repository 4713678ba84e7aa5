---------------------------- MODULE MC_Releases ----------------------------
(***************************************************************************)
(* What is released: the desktop as in MC_Updates, the server through the  *)
(* deploy workflow, and the backups taken of its database.  A history is   *)
(* one of these three, which share no state.                               *)
(***************************************************************************)
EXTENDS MC_Updates, Deployment, Backup

VARIABLE part

\* The second commit brings a migration, the third a new package version.
MCMigrations == <<1, 2, 2>>
MCVersion == <<1, 1, 2>>
MCTables == <<"users", "matches">>

allVars == <<part, releaseVars, deployVars, backupVars>>

MCInit ==
  /\ part \in {"desktop", "server", "backups"}
  /\ ReleaseInit /\ DeployInit /\ BackupInit
MCNext ==
  /\ UNCHANGED part
  /\ \/ part = "desktop" /\ ReleaseNext /\ UNCHANGED <<deployVars, backupVars>>
     \/ part = "server" /\ DeployNext /\ UNCHANGED <<releaseVars, backupVars>>
     \/ part = "backups" /\ BackupNext /\ UNCHANGED <<releaseVars, deployVars>>

MCSpec == MCInit /\ [][MCNext]_allVars /\ Fairness
=============================================================================
