-------------------------- MODULE MCDriverStorage --------------------------
(* Model-checking instances of DriverStorage; the values are in the .cfg files. *)
EXTENDS DriverStorage
=============================================================================
