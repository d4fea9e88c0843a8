----------------------------- MODULE MCDeployment -----------------------------
(***************************************************************************)
(* An instance of Deployment for TLC: every script of deploy/prod.          *)
(***************************************************************************)
EXTENDS Deployment

AllTags == DOMAIN Scripts("local") \cup {"Prod"}
=============================================================================
