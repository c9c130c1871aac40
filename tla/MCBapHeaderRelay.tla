--------------------------- MODULE MCBapHeaderRelay ----------------------------
(* Instances of BapHeaderRelay for TLC: addresses at the seams between the *)
(* octets, and the path identities of small and of large deployments.      *)
EXTENDS BapHeaderRelay

SeamAddresses == {1, 2, 63, 64, 65, 511, 512, 1022, 1023}
LargePathIds == {1, 255, 256, 257, 511, 512, 513, 767, 768, 1022, 1023}
AllPathIds == 1..255 \cup LargePathIds
================================================================================
