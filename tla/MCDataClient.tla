---------------------------- MODULE MCDataClient ----------------------------
(* Instances of DataClient for TLC. *)
EXTENDS DataClient, TLC
=============================================================================
