---- MODULE MCTunnel ----
(* Three attempts, as in the code, of each of two start() calls. *)
EXTENDS Tunnel
====
