---------------------------- MODULE MCScanPasses ----------------------------
(* Instances of ScanPasses for TLC. *)
EXTENDS ScanPasses
=============================================================================
