----------------------------- MODULE MCPlatform -----------------------------
(***************************************************************************)
(* The platform suite: components that share no state are checked side by  *)
(* side in one run, each on behaviours in which only its own variables     *)
(* move; what an unused component's Init leaves open is fixed.             *)
(***************************************************************************)
EXTENDS SourceFinality, ModelGateway, StabilityRun, DepthRecovery, Console, GenerationLaunch,
    PublicDataRun

\* A book of one bid and two asks, of which a snapshot shows the better one.
Bid(price) == [side |-> "bid", price |-> price]
Ask(price) == [side |-> "ask", price |-> price]
MCLevels == {Bid(1), Ask(2), Ask(3)}
MCMoves == {[level |-> Ask(2), kept |-> FALSE], [level |-> Ask(2), kept |-> TRUE], [level |-> Ask(3), kept |-> TRUE]}

VARIABLE which    \* the component this behaviour is about

platformVars == <<which, sourceVars, gatewayVars, stabilityVars, depthVars, consoleVars,
                 launchVars, dataVars>>

\* The variables of all components but one.
Others_source == <<gatewayVars, stabilityVars, depthVars, consoleVars, launchVars, dataVars>>
Others_gateway == <<sourceVars, stabilityVars, depthVars, consoleVars, launchVars, dataVars>>
Others_stability == <<sourceVars, gatewayVars, depthVars, consoleVars, launchVars, dataVars>>
Others_depth == <<sourceVars, gatewayVars, stabilityVars, consoleVars, launchVars, dataVars>>
Others_console == <<sourceVars, gatewayVars, stabilityVars, depthVars, launchVars, dataVars>>
Others_launch == <<sourceVars, gatewayVars, stabilityVars, depthVars, consoleVars, dataVars>>
Others_data == <<sourceVars, gatewayVars, stabilityVars, depthVars, consoleVars, launchVars>>

Init ==
    /\ which \in {"source", "gateway", "stability", "depth", "console", "launch", "data"}
    /\ SourceInit /\ GatewayInit /\ StabilityInit /\ DepthInit /\ ConsoleInit /\ LaunchInit /\
       DataRunInit
    /\ (which # "gateway" => admitted = CHOOSE c \in Configurations : TRUE)
    /\ (which # "stability" => kind = "local")
    /\ (which # "launch" => repaired)
    /\ (which # "data" => cycleLimit = 0)

Next ==
    /\ UNCHANGED which
    /\ \/ which = "source" /\ SourceNext /\ UNCHANGED Others_source
       \/ which = "gateway" /\ GatewayNext /\ UNCHANGED Others_gateway
       \/ which = "stability" /\ StabilityNext /\ UNCHANGED Others_stability
       \/ which = "depth" /\ DepthNext /\ UNCHANGED Others_depth
       \/ which = "console" /\ ConsoleNext /\ UNCHANGED Others_console
       \/ which = "launch" /\ LaunchNext /\ UNCHANGED Others_launch
       \/ which = "data" /\ DataRunNext /\ UNCHANGED Others_data

Spec == Init /\ [][Next]_platformVars
=============================================================================
