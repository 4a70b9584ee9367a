----------------------------- MODULE MCFlashUpdate -----------------------------
(***************************************************************************)
(* Model-checking instance of FlashUpdate: a bootloader of one page, three *)
(* pages of two units for the OS, images that leave a page over, fill the   *)
(* last page, end inside it or do not fit; three calls.                     *)
(***************************************************************************)
EXTENDS FlashUpdate

=============================================================================
