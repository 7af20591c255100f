--------------------------- MODULE MCDeviceDriver ---------------------------
(***************************************************************************)
(* DeviceDriver for TLC: small rings, that wrap around and fill up.        *)
(***************************************************************************)
EXTENDS DeviceDriver

FourFrames == 1..4
=============================================================================
