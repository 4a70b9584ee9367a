------------------------------ MODULE MCOsUpdate ------------------------------
(***************************************************************************)
(* Model-checking instances of OsUpdate: images of two pieces, two updates, *)
(* one reset of the device, one retry while the erase is awaited.  The      *)
(* second update starts from whatever the first, and its crash, left.       *)
(***************************************************************************)
EXTENDS OsUpdate

(* Claims of the sources that the code does not meet.                       *)

(* The unit test takes a successful update_os for an installed OS           *)
(* (UnitTest.hpp:252-254): no error means that the image is on the device.  *)
SuccessMeansInstalled == pc = "done" /\ ~error => page0.img = upd

(* What install_os leaves out of an image is the signature at its end       *)
(* (Link.cpp:715-716): no OS whose first page is in place lacks its end.    *)
OnlySignatureLeftOut ==
  page0.img \in Images /\ ~dirty => \A b \in 1 .. Blocks : body[b] # Short

=============================================================================
