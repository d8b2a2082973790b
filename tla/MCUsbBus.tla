------------------------------ MODULE MCUsbBus ------------------------------
(* Small instances of UsbBus for TLC.                                         *)
EXTENDS UsbBus, TLC

MCSymmetry == Permutations(Clients)

==============================================================================
