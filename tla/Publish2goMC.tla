---------------------------- MODULE Publish2goMC ----------------------------
(* The trees of PublishMC, checked against the nog2go client. *)
EXTENDS Publish2go, PublishMC

=============================================================================
