------------------------------ MODULE MCDeviceFs ------------------------------
(***************************************************************************)
(* Model-checking instance of DeviceFs: every tree of two names and depth 2 *)
(* (the walks nest three deep), one change by the device in the middle of   *)
(* one call.                                                                *)
(***************************************************************************)
EXTENDS DeviceFs
=============================================================================
