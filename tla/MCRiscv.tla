------------------------------ MODULE MCRiscv ------------------------------
(***************************************************************************)
(* Instances of RiscvRun for TLC.                                          *)
(***************************************************************************)
EXTENDS RiscvRun, BackendPrograms

MCInputLists == {<<0, 3>>, <<1>>, <<5, -2, 2>>, <<7, 0>>, <<3, -8191, 4>>}

=============================================================================
