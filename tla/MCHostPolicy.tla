---------------------------- MODULE MCHostPolicy ----------------------------
(* Small instances of HostPolicy for TLC. *)
EXTENDS HostPolicy

CONSTANTS k1, k2, b1, b2

\* Rules of two keys that change their contents, exchange them and disappear,
\* with and without an abuse part.
MCPolicies ==
    {[rules |-> <<<<k1, b1>>, <<k2, b2>>>>, abuse |-> TRUE],
     [rules |-> <<<<k1, b2>>>>, abuse |-> FALSE],
     [rules |-> <<>>, abuse |-> TRUE]}
=============================================================================
