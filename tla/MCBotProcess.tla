----------------------------- MODULE MCBotProcess -----------------------------
(***************************************************************************)
(* BotProcess with the gate and the daily sends explored one at a time:    *)
(* they share no variable and no step but the death of the process, which  *)
(* is a step of each while the other is at rest.                           *)
(***************************************************************************)
EXTENDS BotProcess

GateAtRest ==
  /\ required = {} /\ joined = {} /\ cache = NoEntry /\ answer = "none"
  /\ check = [k \in Checks |-> NoHandler]

UpkeepAtRest ==
  /\ ~clock.saturday /\ marks = NoMarks /\ pass = NoPass
  /\ sends = [kind \in Kinds |-> 0]

Apart == GateAtRest \/ UpkeepAtRest

MCSpec == BotInit /\ [][BotNext /\ Apart']_botVars /\ GateFairness
=============================================================================
