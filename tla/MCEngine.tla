------------------------------- MODULE MCEngine -------------------------------
\* The four parts of the engine that drive a bot in the shared service, in one
\* instance: every behaviour exercises one of them, which focus names, and
\* leaves the others as they began.
EXTENDS SharedBot, NativeSelling, Behaviors, SessionWatch

VARIABLE focus

engineVars == <<focus, vars, sellVars, behaviorVars, watchVars>>

\* Of an idle part one initial state is enough.
EngineInit ==
  /\ focus \in {"bot", "selling", "scheduler", "session"}
  /\ Init /\ SellInit /\ BehaviorInit /\ WatchInit
  /\ focus # "bot" => ~wanted /\ reliable
  /\ focus # "scheduler" => home = NoHome

EngineNext ==
  \/ focus = "bot" /\ Next /\ UNCHANGED <<focus, sellVars, behaviorVars, watchVars>>
  \/ focus = "selling" /\ SellNext /\ UNCHANGED <<focus, vars, behaviorVars, watchVars>>
  \/ focus = "scheduler" /\ BehaviorNext /\ UNCHANGED <<focus, vars, sellVars, watchVars>>
  \/ focus = "session" /\ WatchNext /\ UNCHANGED <<focus, vars, sellVars, behaviorVars>>

\* The service applies what it gets, sessions go on, the game thread runs and
\* the server answers.
EngineSpec ==
  /\ EngineInit /\ [][EngineNext]_engineVars
  /\ WF_vars(focus = "bot" /\ Resume)
  /\ WF_vars(focus = "bot" /\ ApplyNext)
  /\ WF_vars(focus = "bot" /\ Exit)
  /\ WF_vars(focus = "bot" /\ LoadAll)
  /\ \A c \in Controllers :
       /\ WF_vars(focus = "bot" /\ SendStop(c))
       /\ WF_vars(focus = "bot" /\ Ask(c))
       /\ WF_vars(focus = "bot" /\ NoticeStopped(c))
       /\ WF_vars(focus = "bot" /\ SendLeave(c))
  /\ WF_sellVars(focus = "selling" /\ GameTick)
  /\ WF_sellVars(focus = "selling" /\ SellingElapses)
  /\ WF_sellVars(focus = "selling" /\ Answers)
  /\ WF_watchVars(focus = "session" /\ StartAnswered)
  /\ WF_watchVars(focus = "session" /\ PollProcess)

\* The variables have the types the four modules give them.
EngineTypeOK == TypeOK /\ SellTypeOK /\ BehaviorTypeOK /\ WatchTypeOK
=============================================================================
