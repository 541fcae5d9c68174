-------------------------- MODULE MCAuditBroadcast --------------------------
(* Two calls of log() at once, two dashboards and three events: one of the  *)
(* dashboards can vanish while events are on their way to both.             *)
EXTENDS AuditBroadcast
=============================================================================
