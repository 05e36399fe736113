-------------------------- MODULE MCBusController --------------------------
(* The bus controller with the constants of cpumodule.vhd.                 *)
EXTENDS BusController
=============================================================================
