-------------------------------- MODULE OsSlot --------------------------------
(***************************************************************************)
(* What an OS update promises of a device, without saying how: the device   *)
(* starts one whole image or nothing.  An image is replaced only by way of  *)
(* an empty slot, only the image of the latest update is ever installed,    *)
(* and a slot torn by an interrupted erase is cleared before it is used.    *)
(* An update may lose the end of its image on the way; only such an update  *)
(* ever installs a part of one.                                             *)
(***************************************************************************)
EXTENDS Integers

CONSTANT MaxUpdates

VARIABLES slot,     (* image the device would start, Empty, Torn or Partial *)
          latest,   (* number of the latest update                          *)
          spoiled   (* the latest update has lost the end of its image      *)

slotVars == <<slot, latest, spoiled>>

Empty   == -1
Torn    == -3
Partial == -5

SlotInit == slot = 0 /\ latest = 0 /\ spoiled = FALSE

Begin == /\ latest < MaxUpdates
         /\ latest' = latest + 1
         /\ spoiled' = FALSE
         /\ slot' = slot

Spoil == /\ spoiled' = TRUE
         /\ UNCHANGED <<slot, latest>>

Lose  == /\ slot' \in {Torn, Empty}
         /\ slot' = Empty => slot = Torn
         /\ UNCHANGED <<latest, spoiled>>

Install == /\ slot = Empty
           /\ slot' \in IF spoiled THEN {latest, Partial} ELSE {latest}
           /\ UNCHANGED <<latest, spoiled>>

SlotSpec == SlotInit /\ [][Begin \/ Spoil \/ Lose \/ Install]_slotVars

=============================================================================
