---------------------------- MODULE MCDeviceLoop ----------------------------
(* Instances of DeviceLoop for TLC, with model values for runs and changes. *)
EXTENDS DeviceLoop

CONSTANTS r1, r2, r3, x1, x2, x3
=============================================================================
