-------------------------- MODULE MCDeviceHandler --------------------------
(***************************************************************************)
(* DeviceHandler on stations of every kind: with several packs (AC300),    *)
(* one pack (EP500), no pack (EB3A), encryption (AC60, EP600), sums (an    *)
(* EP2000 named EBOX...), and a name that is none of theirs.               *)
(***************************************************************************)
EXTENDS DeviceHandler

AllKinds == {"AC300", "EP500", "EB3A", "EP600", "EBOX", "other"}
OnlyEP2000 == {"EP2000"}
TwoModes == {"normal", "advanced"}
Normal == {"normal"}
=============================================================================
