--------------------------- MODULE MCRunLifecycle ---------------------------
(* Two killers and one follower of one run.                                  *)
EXTENDS RunLifecycle
=============================================================================
