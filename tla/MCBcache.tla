------------------------------ MODULE MCBcache ------------------------------
(* A small instance of Bcache for TLC.                                     *)
EXTENDS Bcache
=============================================================================
