---------------------------- MODULE MCServerPool ----------------------------
(* ServerPool for TLC: its instances need no definitions.                  *)
EXTENDS ServerPool
=============================================================================
