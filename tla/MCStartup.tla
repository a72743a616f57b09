---- MODULE MCStartup ----
(* An instance of Startup; the values of the constants are in the .cfg. *)
EXTENDS Startup
====
