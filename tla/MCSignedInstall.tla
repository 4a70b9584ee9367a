---------------------------- MODULE MCSignedInstall ----------------------------
(***************************************************************************)
(* Model-checking instance of SignedInstall and Appfs: pages of 4 bytes, a  *)
(* header of 2, a signature of 3, two appends of files of up to 9 bytes, so *)
(* that a file spans three pages and chunks and pages are out of step;      *)
(* executables of 1 to 3 bytes, signed up to twice with two keys.           *)
(***************************************************************************)
EXTENDS SignedInstall

x == <<0, "x">>
y == <<0, "y">>

Executables == {<<x>>, <<y, x>>, <<y, x, x>>}
Attributes  == {<<x>>, <<y>>}

=============================================================================
