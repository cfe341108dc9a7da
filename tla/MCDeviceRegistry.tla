-------------------------- MODULE MCDeviceRegistry --------------------------
(* Instances of DeviceRegistry for TLC.  A user other than the bot is a bot *)
(* whose startup never comes, so three calls about the bot and the startup  *)
(* cover both; one of them asks for a second device id.  A fourth call is   *)
(* about a user whose id does not parse.  One call about the bot and the    *)
(* startup are a service that restarts: the homeserver knows the bot's      *)
(* device and sends the transaction it has waiting.                         *)
EXTENDS DeviceRegistry, TLC

CONSTANTS k1, k2, k3, k4, startup, bot, nobody, d1, d2

MCWho == [k \in Task |-> IF k = k4 THEN nobody ELSE bot]
MCWanted == [k \in Task |-> IF k = k3 THEN d2 ELSE d1]

(* k1 and k2 ask for the same. *)
Symmetry == Permutations({k1, k2})
=============================================================================
