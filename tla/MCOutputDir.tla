---------------------------- MODULE MCOutputDir ----------------------------
(* Three starts within two seconds: programs started together find the path  *)
(* missing or the second the same, and one started later may do neither.     *)
EXTENDS OutputDir
CONSTANTS p1, p2, p3
MCPrograms == {p1, p2, p3}
=============================================================================
