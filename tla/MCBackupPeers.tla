---------------------------- MODULE MCBackupPeers ----------------------------
(* Three addresses: of an ordinary peer, of one that may be official, and one  *)
(* that names no peer; room for two.                                          *)
EXTENDS BackupPeers

CONSTANTS a, x, o

MCPeerOf == [addr \in Addrs |-> IF addr = x THEN NoPeer ELSE addr]
=============================================================================
