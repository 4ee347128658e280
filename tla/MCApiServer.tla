---------------------------- MODULE MCApiServer ----------------------------
(* Instances of ApiServer.tla for TLC.                                      *)
EXTENDS ApiServer
=============================================================================
