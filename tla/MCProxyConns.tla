---------------------------- MODULE MCProxyConns ----------------------------
(* Forward and ProxyConns for TLC.                                         *)
EXTENDS Forward

AllKinds == [a : {"netstack", "stream"}, b : {"os", "plain", "command"}]
=============================================================================
