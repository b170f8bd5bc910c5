---------------------------- MODULE MCMetaClient ----------------------------
(* An instance of MetaClient for TLC. *)
EXTENDS MetaClient, TLC

CONSTANTS a, empty

\* A cluster whose key and the empty key fall on different hosts.
MCHash == (a :> 1) @@ (empty :> 2)
=============================================================================
