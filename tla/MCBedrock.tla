------------------------------ MODULE MCBedrock ------------------------------
\* The parts of the former Bedrock engine in one instance: the join, the sale,
\* the crouching and the mouse button. Every behaviour exercises one of them,
\* which focus names, and leaves the others as they began.
EXTENDS BedrockClient, BedrockSelling, BedrockCrouch, BedrockMouse

VARIABLE focus

bedrockVars == <<focus, clientVars, sellingVars, crouchVars, mouseVars>>

\* Of an idle part one initial state is enough.
BedrockInit ==
  /\ focus \in {"join", "sale", "crouch", "mouse"}
  /\ ClientInit /\ BedrockSellingInit /\ CrouchInit /\ MouseInit
  /\ focus # "join" => requested = Unset
  /\ focus # "sale" => ~legacy
  /\ focus # "crouch" => ~crouch
  /\ focus # "mouse" => mode = "off" /\ world = AllAir

BedrockNext ==
  /\ focus' = focus
  /\ \/ focus = "join" /\ ClientNext /\ UNCHANGED <<sellingVars, crouchVars, mouseVars>>
     \/ focus = "sale" /\ BedrockSellingNext /\ UNCHANGED <<clientVars, crouchVars, mouseVars>>
     \/ focus = "crouch" /\ CrouchNext /\ UNCHANGED <<clientVars, sellingVars, mouseVars>>
     \/ focus = "mouse" /\ MouseNext /\ UNCHANGED <<clientVars, sellingVars, crouchVars>>

\* The fairness of the modules: timers fire, ticks go on, the supervisor writes
\* the configuration, the server reports and lets the player in.
BedrockSpec ==
  /\ BedrockInit /\ [][BedrockNext]_bedrockVars
  /\ WF_clientVars(focus = "join" /\ (ReadConfig \/ NoConfig))
  /\ WF_clientVars(focus = "join" /\ DiscoveryTimesOut)
  /\ WF_clientVars(focus = "join" /\ WatchdogFires)
  /\ WF_clientVars(focus = "join" /\ Exit)
  /\ WF_clientVars(focus = "join" /\ ClientTick)
  /\ WF_sellingVars(focus = "sale" /\ OnTick)
  /\ WF_sellingVars(focus = "sale" /\ Elapse)
  /\ WF_sellingVars(focus = "sale" /\ SpawnInWorld)
  /\ WF_crouchVars(focus = "crouch" /\ TicksInWorld)
  /\ WF_crouchVars(focus = "crouch" /\ TimePasses)
  /\ WF_crouchVars(focus = "crouch" /\ Reports)
  /\ WF_crouchVars(focus = "crouch" /\ Spawns)

\* The variables have the types the four modules give them.
BedrockTypeOK == ClientTypeOK /\ BedrockSellingTypeOK /\ CrouchTypeOK /\ MouseTypeOK
=============================================================================
