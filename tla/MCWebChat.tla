----------------------------- MODULE MCWebChat -----------------------------
(* WebChat for TLC: its instances need no definitions.                     *)
EXTENDS WebChat
=============================================================================
