---------------------------- MODULE MCVpnControl ----------------------------
(* The VPN control and its supervisor for TLC: a run names the callers.      *)
EXTENDS VpnControl
=============================================================================
