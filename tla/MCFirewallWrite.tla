--------------------------- MODULE MCFirewallWrite ---------------------------
(* Instances of FirewallWrite for TLC: two pipes (download and upload).      *)
EXTENDS FirewallWrite
=============================================================================
