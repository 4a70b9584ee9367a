---------------------------- MODULE MCLinkCommands ----------------------------
(***************************************************************************)
(* Model-checking instances of LinkCommands over LinkConnection: two paths, *)
(* two devices of which one is old, a reconnect of two rounds, two devices  *)
(* attached or unplugged (and any number that reset).                       *)
(***************************************************************************)
EXTENDS LinkCommands

(* A claim of the sources that the code does not meet.                      *)

(* UnitTest.hpp:287 resets a device and expects reconnect to find it again  *)
(* within its retries, which are there for rounds that fail: if all is      *)
(* quiet in the last round the device is found.                             *)
ReconnectRecovers ==
  Idle("reconnect") /\ disturbed # "now"
    /\ (\E p \in Attached : port[p] = last.serial /\ Speaks(port[p], FALSE))
    => Connected /\ session = last.serial

=============================================================================
