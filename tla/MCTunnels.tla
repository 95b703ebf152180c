----------------------------- MODULE MCTunnels ------------------------------
(* Small instances of Tunnels for TLC. *)
EXTENDS Tunnels

CONSTANTS r1, r2, v1, v2, x, y

B(r, v, a) == [res |-> r, vm |-> v, addr |-> a]

\* One binding, two of them, the second alone and moved to another instance, and
\* both with their addresses exchanged.
MCWants ==
    { <<>>,
      <<B(r1, v1, x)>>,
      <<B(r2, v2, y)>>,
      <<B(r1, v1, x), B(r2, v1, y)>>,
      <<B(r2, v2, x), B(r1, v1, y)>> }
=============================================================================
