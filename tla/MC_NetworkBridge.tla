------------------------- MODULE MC_NetworkBridge -------------------------
(* Two DNA addresses and one agent, so that a second InitNetwork may ask   *)
(* for another DNA; three inits, so that a failed send can follow a        *)
(* successful one and be followed by another; two links and three         *)
(* StoreMeta messages, so that a link and its removal race.                *)
EXTENDS NetworkBridge

CONSTANTS d1, d2, ag, l1, l2, none

MCDnaAddresses == {d1, d2}
MCAgentIds == {ag}
MCLinks == {l1, l2}
MCMaxInits == 3
MCMaxMetas == 3

=============================================================================
