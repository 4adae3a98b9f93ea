--------------------------- MODULE MCVolumeSession ---------------------------
(* VolumeSession on small instances: an encrypted btrfs volume and a plain     *)
(* ext4 one on partitions of their own; one volume alone; and two unlocks of   *)
(* the same partition.                                                         *)
EXTENDS VolumeSession, TLC

CONSTANTS t1, t2, enc, plain, p1, p2, dev

MCThreads   == {t1, t2}
MCParts     == {p1, p2}

MCVols      == {enc, plain}
MCEncrypted == {enc}
MCBtrfs     == {enc}
MCDeviceOf  == (enc :> dev) @@ (plain :> dev)
MCPartOf    == (enc :> p1) @@ (plain :> p2)

MCOneVol    == {enc}
MCOneDevice == (enc :> dev)
MCOnePart   == (enc :> p1)
MCNone      == {}

MCTwin      == {enc, plain}
MCTwinPart  == (enc :> p1) @@ (plain :> p1)

ThreadSymmetry == Permutations({t1, t2})
=============================================================================
