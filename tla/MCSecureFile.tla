----------------------------- MODULE MCSecureFile -----------------------------
(***************************************************************************)
(* Model-checking instance of SecureFile: blocks of 4, originals of 0 to 5 *)
(* bytes (empty, short of a block, a block, more), four calls.              *)
(***************************************************************************)
EXTENDS SecureFile

=============================================================================
