----------------------------- MODULE MCMultipart ------------------------------
(* Multipart on small sets, for TLC.  There are three part names instead of  *)
(* 65536: 4 is to 1 what 65537 is to 1 in the code.                          *)
EXTENDS Multipart, TLC

Lists == {<<2>>, <<1, 2>>, <<4>>}

Symmetry == Permutations(Upload) \cup Permutations(Body)
===============================================================================
