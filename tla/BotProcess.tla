------------------------------- MODULE BotProcess -------------------------------
(***************************************************************************)
(* The bot process (src/main.py): the gate in front of the user's updates  *)
(* and the daily sends of the maintenance loop run in one process; a crash *)
(* takes the cache and the checks of the one and the pass of the other.    *)
(***************************************************************************)
EXTENDS Gate, Upkeep

botVars == <<gateVars, upkeepVars>>

BotInit == GateInit /\ UpkeepInit

BotNext ==
  \/ GateNext /\ UNCHANGED upkeepVars
  \/ UpkeepNext /\ UNCHANGED gateVars
  \/ GateDies /\ UpkeepDies

BotSpec == BotInit /\ [][BotNext]_botVars /\ GateFairness

BotTypeOK == GateTypeOK /\ UpkeepTypeOK
=============================================================================
