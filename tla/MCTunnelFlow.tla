---------------------------- MODULE MCTunnelFlow ----------------------------
(* TunnelFlow with one tunnel: two buffers, two loops, up to four functors queued, so *)
(* that a mark can be passed again before the callbacks of the last time have run.    *)
EXTENDS TunnelFlow
=============================================================================
