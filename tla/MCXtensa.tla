-------------------------------- MODULE MCXtensa --------------------------------
(* Eight registers in four positions of a window of four; a1 stands for a3 (the   *)
(* scratch), a0 for a2, a2 for a8.  Words of two bytes, writes of two words.      *)
EXTENDS Xtensa
Program == 0 .. 2
Accesses == {0, 1}
Handler == {1}
Codes == {5, 8}
Datas == {3}
=============================================================================
