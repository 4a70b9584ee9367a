----------------------------- MODULE MCDriverPath -----------------------------
(***************************************************************************)
(* Model-checking instance of DriverPath: two vendors, and of every other   *)
(* part one value; two devices without delimiters and one with; every part  *)
(* may be left empty.                                                       *)
(***************************************************************************)
EXTENDS DriverPath

AllWords       == {"usb", "serial", "0x4100", "0x4101", "0x0001", "0", "12345",
                   "COM1", "COM2", "dev", "serial.tty"}
VendorParts    == {<<>>, <<"0x4100">>, <<"0x4101">>}
ProductParts   == {<<>>, <<"0x0001">>}
InterfaceParts == {<<>>, <<"0">>}
SerialParts    == {<<>>, <<"12345">>}
DeviceParts    == {<<>>, <<"COM1">>, <<"COM2">>, <<"/", "dev", "/", "serial.tty">>}

=============================================================================
