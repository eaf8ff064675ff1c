------------------------------ MODULE MCBackend ------------------------------
\* Five parts of the backend that share no state, in one instance: every
\* behaviour exercises one of them, which focus names, and leaves the others
\* as they began.
EXTENDS StatusPersistence, AccountRecords, EarningsHistory, SupervisorDuties, AddressBans

VARIABLE focus

backendVars == <<focus, vars, recordVars, historyVars, dutyVars, banVars>>

\* Of an idle part one initial state is enough.
BackendInit ==
  /\ focus \in {"status", "records", "history", "duties", "bans"}
  /\ Init /\ RecordsInit /\ HistoryInit /\ DutiesInit /\ BansInit
  /\ focus # "status" => column = Offline
  /\ focus # "duties" => ~crouchEnabled
  /\ focus # "bans" => bannedRows = {}

BackendNext ==
  /\ focus' = focus
  /\ \/ focus = "status" /\ Next /\ UNCHANGED <<recordVars, historyVars, dutyVars, banVars>>
     \/ focus = "records" /\ RecordsNext /\ UNCHANGED <<vars, historyVars, dutyVars, banVars>>
     \/ focus = "history" /\ HistoryNext /\ UNCHANGED <<vars, recordVars, dutyVars, banVars>>
     \/ focus = "duties" /\ DutiesNext /\ UNCHANGED <<vars, recordVars, historyVars, banVars>>
     \/ focus = "bans" /\ BansNext /\ UNCHANGED <<vars, recordVars, historyVars, dutyVars>>

\* The database answers the writes of the status, and a backend that died is
\* started again.
BackendSpec ==
  /\ BackendInit /\ [][BackendNext]_backendVars
  /\ WF_vars(focus = "status" /\ (WriteSucceeds \/ WriteFails))
  /\ WF_vars(focus = "status" /\ LoadAll)

\* The variables have the types the modules give them.
BackendTypeOK == TypeOK /\ RecordsTypeOK /\ HistoryTypeOK /\ DutiesTypeOK /\ BansTypeOK
=============================================================================
