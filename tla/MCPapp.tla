-------------------------------- MODULE MCPapp --------------------------------
EXTENDS Papp, TLC

Bounds(commands, bridge, toggles, deaths) ==
  [k \in Environment |-> CASE k = "commands" -> commands [] k = "bridge" -> bridge
                           [] k = "toggles" -> toggles [] k = "deaths" -> deaths]

\* One command, one Set through the bridge, one change by the user, one death.
Everyone == Bounds(1, 1, 1, 1)
===============================================================================
