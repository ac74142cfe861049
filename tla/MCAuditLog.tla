---------------------------- MODULE MCAuditLog ----------------------------
(* Instances of AuditLog for TLC. *)
EXTENDS AuditLog

\* Close adds the last entry.
MCValues == 1 .. MaxEntries + 1
=============================================================================
