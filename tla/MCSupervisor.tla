---------------------------- MODULE MCSupervisor ----------------------------
(***************************************************************************)
(* Small instances of Supervisor.                                          *)
(***************************************************************************)
EXTENDS Supervisor

FourSlugs == 1 .. 4
AnyPopulation == [FourSlugs -> Kinds]
=============================================================================
