-------------------------- MODULE MCCassandraBackup --------------------------
(* Two nodes, two tables and a system table for TLC. *)
EXTENDS CassandraBackup

CONSTANTS n1, n2, t1, t2, system
=============================================================================
