-------------------------- MODULE MCMonitoringClient --------------------------
(* Instances of MonitoringClient for TLC. *)
EXTENDS MonitoringClient, TLC
=============================================================================
