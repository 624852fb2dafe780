--------------------------- MODULE LauncherProofs ---------------------------
(***************************************************************************)
(* The safety properties of the launcher, for any number of runs, any      *)
(* rates and addresses, and a user who sets switches at any time.  Each   *)
(* property has an invariant of one run v that is inductive by itself,     *)
(* given the types: a step of another run or of the user can only spoil    *)
(* what it says of the settings.                                           *)
(***************************************************************************)
EXTENDS Launcher, TLAPS

\* What v has learnt on its way through enabled().  The dialog only ever sets
\* "asked", so that a switch that is on when it is read is on together with it.
ConsentInv(v) ==
    /\ pc[v] \in {"master", "enabled", "sparsity", "master_again", "enabled_again"}
           => settings.asked
    /\ pc[v] \in {"enabled", "sparsity", "enabled_again", "url"}
           => "master" \in agreed[v]
    /\ pc[v] \in {"sparsity", "url"} => "enabled" \in agreed[v]
    /\ pc[v] \in Launching \ {"spawn"} => rate[v] = 0
    /\ pc[v] = "spawn" /\ rate[v] > 0 => agreed[v] = {"master", "enabled"}

\* A wrapper past child.wait has an application that ended.
LifeInv(v) == pc[v] \in Ending \cup {"done"} => app[v] = "exited"

\* TrayKnowsItsClients, of v.
TrayInv(v) ==
    /\ settings.tray
    /\ \/ pc[v] \in {"read", "reap"} \cup Ending
       \/ pc[v] = "done" /\ ~Disconnected(v)
    => monitor = "up" /\ v \in clients

\* The run of a user who takes part takes the sampled way to the upload.
SteadyInv(v) ==
    steady[v] =>
        /\ pc[v] \notin Concluded => TakesPart
        /\ pc[v] \in {"spawn"} \cup Running \cup Ending => rate[v] > 0
        /\ pc[v] \in {"exit", "done"} /\ report[v] # "none" => upload[v] # "none"

RunInv(v) == ConsentInv(v) /\ LifeInv(v) /\ TrayInv(v) /\ SteadyInv(v)

IInv == TypeOK /\ \A v \in Wrappers : RunInv(v)

-----------------------------------------------------------------------------
(* Types *)

\* The history variables keep their types, whoever moves.
LEMMA HistoryTypeStep ==
    ASSUME HistoryTypeOK, Observe
    PROVE  HistoryTypeOK'
<1>1. \A w \in Wrappers : /\ steady[w] \in BOOLEAN
                          /\ agreed[w] \subseteq {"master", "enabled"}
  BY DEF HistoryTypeOK
<1>2. ASSUME NEW w \in Wrappers
      PROVE  (IF pc'[w] \in Concluded THEN steady[w]
              ELSE steady[w] /\ TakesPart') \in BOOLEAN
  BY <1>1
<1>3. steady' \in [Wrappers -> BOOLEAN]
  BY <1>2, Zenon DEF Observe
<1>4. agreed' \in [Wrappers -> SUBSET {"master", "enabled"}]
  BY <1>1 DEF Observe
<1> QED BY <1>3, <1>4 DEF HistoryTypeOK

\* Every step keeps the types of the state.
LEMMA StateTypeStep ==
    ASSUME StateTypeOK, Next
    PROVE  StateTypeOK'
<1> USE LauncherAssumption DEF settingVars, trayVars, appVars, Launching,
   Running, Ending, Concluded, Switches, Goto
<1>1. ASSUME NEW w \in Wrappers, LaunchEnabled(w) PROVE StateTypeOK'
  BY <1>1 DEF LaunchEnabled, Consult, StateTypeOK
<1>2. ASSUME NEW w \in Wrappers, ReadSparsity(w) PROVE StateTypeOK'
  BY <1>2 DEF ReadSparsity, StateTypeOK
<1>3. ASSUME NEW w \in Wrappers, Spawn(w) PROVE StateTypeOK'
  BY <1>3 DEF Spawn, StateTypeOK
<1>4. ASSUME NEW w \in Wrappers, FirstTime(w) PROVE StateTypeOK'
  BY <1>4 DEF FirstTime, StateTypeOK
<1>5. ASSUME NEW w \in Wrappers, ShowTrayIcon(w) PROVE StateTypeOK'
  BY <1>5 DEF ShowTrayIcon, Wait, StateTypeOK
<1>6. ASSUME NEW w \in Wrappers, GetMonitor(w) PROVE StateTypeOK'
  BY <1>6 DEF GetMonitor, StateTypeOK
<1>7. ASSUME NEW w \in Wrappers, ReadReports(w) PROVE StateTypeOK'
  BY <1>7 DEF ReadReports, StateTypeOK
<1>8. ASSUME NEW w \in Wrappers, Reap(w) PROVE StateTypeOK'
  BY <1>8 DEF Reap, StateTypeOK
<1>9. ASSUME NEW w \in Wrappers, EndEnabled(w) PROVE StateTypeOK'
  BY <1>9 DEF EndEnabled, Consult, StateTypeOK
<1>10. ASSUME NEW w \in Wrappers, StartUpload(w) PROVE StateTypeOK'
  BY <1>10 DEF StartUpload, StateTypeOK
<1>11. ASSUME NEW w \in Wrappers, Exit(w) PROVE StateTypeOK'
  BY <1>11 DEF Exit, StateTypeOK
<1>12. ASSUME NEW w \in Wrappers, Post(w) PROVE StateTypeOK'
  BY <1>12 DEF Post, UploadTo, StateTypeOK
<1>13. ASSUME NEW w \in Wrappers, ChangeReportingUrl(w) PROVE StateTypeOK'
  BY <1>13 DEF ChangeReportingUrl, UploadTo, StateTypeOK
<1>14. ASSUME NEW w \in Wrappers, ChangeSparsity(w) PROVE StateTypeOK'
  BY <1>14 DEF ChangeSparsity, UploadTo, StateTypeOK
<1>15. ASSUME NEW w \in Wrappers, Activate(w) PROVE StateTypeOK'
  BY <1>15 DEF Activate, MonitorOnly, Wait, StateTypeOK
<1>16. ASSUME NEW w \in Wrappers, ClientLeft(w) PROVE StateTypeOK'
  BY <1>16 DEF ClientLeft, MonitorOnly, StateTypeOK
<1>17. ASSUME NEW w \in Wrappers, AppOpens(w) PROVE StateTypeOK'
  BY <1>17 DEF AppOpens, AppOnly, StateTypeOK
<1>18. ASSUME NEW w \in Wrappers, AppEnds(w) PROVE StateTypeOK'
  BY <1>18 DEF AppEnds, AppOnly, StateTypeOK
<1>19. ASSUME NEW w \in Wrappers, AppFinishes(w) PROVE StateTypeOK'
  BY <1>19 DEF AppFinishes, AppOnly, StateTypeOK
<1>20. ASSUME NEW w \in Wrappers, AppReports(w) PROVE StateTypeOK'
  BY <1>20 DEF AppReports, AppOnly, StateTypeOK
<1>21. CASE StrangerLeft
  BY <1>21 DEF StrangerLeft, MonitorOnly, StateTypeOK
<1>22. CASE MonitorExit
  BY <1>22 DEF MonitorExit, MonitorOnly, StateTypeOK
<1>23. CASE Answer
  BY <1>23 DEF Answer, UserOnly, StateTypeOK
<1>24. CASE SetMaster
  BY <1>24 DEF SetMaster, UserOnly, StateTypeOK
<1>25. CASE SetEnabled
  BY <1>25 DEF SetEnabled, UserOnly, StateTypeOK
<1> QED
  BY <1>1, <1>2, <1>3, <1>4, <1>5, <1>6, <1>7, <1>8, <1>9, <1>10, <1>11,
     <1>12, <1>13, <1>14, <1>15, <1>16, <1>17, <1>18, <1>19, <1>20, <1>21,
        <1>22, <1>23, <1>24, <1>25
  DEF Next, WrapperStep, UploadStep

-----------------------------------------------------------------------------
(* Steps *)

\* What is known of v survives every step of whoever moves.
LEMMA RunStep ==
    ASSUME StateTypeOK, HistoryTypeOK, HistoryTypeOK', Next,
           NEW v \in Wrappers, RunInv(v)
    PROVE  RunInv(v)'
<1> USE LauncherAssumption DEF settingVars, trayVars, appVars, Launching,
   Running, Ending, Concluded, Switches, Goto,
   RunInv, ConsentInv, LifeInv, TrayInv, SteadyInv, TakesPart, Disconnected, Deciding
<1>0. Observe
  BY DEF Next
<1>1. ASSUME NEW w \in Wrappers, LaunchEnabled(w) PROVE RunInv(v)'
  BY <1>0, <1>1 DEF LaunchEnabled, Consult, StateTypeOK, HistoryTypeOK,
     Observe
<1>2. ASSUME NEW w \in Wrappers, ReadSparsity(w) PROVE RunInv(v)'
  BY <1>0, <1>2 DEF ReadSparsity, StateTypeOK, HistoryTypeOK, Observe
<1>3. ASSUME NEW w \in Wrappers, Spawn(w) PROVE RunInv(v)'
  BY <1>0, <1>3 DEF Spawn, StateTypeOK, HistoryTypeOK, Observe
<1>4. ASSUME NEW w \in Wrappers, FirstTime(w) PROVE RunInv(v)'
  BY <1>0, <1>4 DEF FirstTime, StateTypeOK, HistoryTypeOK, Observe
<1>5. ASSUME NEW w \in Wrappers, ShowTrayIcon(w) PROVE RunInv(v)'
  BY <1>0, <1>5 DEF ShowTrayIcon, Wait, StateTypeOK, HistoryTypeOK, Observe
<1>6. ASSUME NEW w \in Wrappers, GetMonitor(w) PROVE RunInv(v)'
  BY <1>0, <1>6 DEF GetMonitor, StateTypeOK, HistoryTypeOK, Observe
<1>7. ASSUME NEW w \in Wrappers, ReadReports(w) PROVE RunInv(v)'
  BY <1>0, <1>7 DEF ReadReports, StateTypeOK, HistoryTypeOK, Observe
<1>8. ASSUME NEW w \in Wrappers, Reap(w) PROVE RunInv(v)'
  BY <1>0, <1>8 DEF Reap, StateTypeOK, HistoryTypeOK, Observe
<1>9. ASSUME NEW w \in Wrappers, EndEnabled(w) PROVE RunInv(v)'
  BY <1>0, <1>9 DEF EndEnabled, Consult, StateTypeOK, HistoryTypeOK, Observe
<1>10. ASSUME NEW w \in Wrappers, StartUpload(w) PROVE RunInv(v)'
  BY <1>0, <1>10 DEF StartUpload, StateTypeOK, HistoryTypeOK, Observe
<1>11. ASSUME NEW w \in Wrappers, Exit(w) PROVE RunInv(v)'
  BY <1>0, <1>11 DEF Exit, StateTypeOK, HistoryTypeOK, Observe
<1>12. ASSUME NEW w \in Wrappers, Post(w) PROVE RunInv(v)'
  BY <1>0, <1>12 DEF Post, UploadTo, StateTypeOK, HistoryTypeOK, Observe
<1>13. ASSUME NEW w \in Wrappers, ChangeReportingUrl(w) PROVE RunInv(v)'
  BY <1>0, <1>13 DEF ChangeReportingUrl, UploadTo, StateTypeOK,
     HistoryTypeOK, Observe
<1>14. ASSUME NEW w \in Wrappers, ChangeSparsity(w) PROVE RunInv(v)'
  BY <1>0, <1>14 DEF ChangeSparsity, UploadTo, StateTypeOK, HistoryTypeOK,
     Observe
<1>15. ASSUME NEW w \in Wrappers, Activate(w) PROVE RunInv(v)'
  BY <1>0, <1>15 DEF Activate, MonitorOnly, Wait, StateTypeOK, HistoryTypeOK,
     Observe
<1>16. ASSUME NEW w \in Wrappers, ClientLeft(w) PROVE RunInv(v)'
  BY <1>0, <1>16 DEF ClientLeft, MonitorOnly, StateTypeOK, HistoryTypeOK,
     Observe
<1>17. ASSUME NEW w \in Wrappers, AppOpens(w) PROVE RunInv(v)'
  BY <1>0, <1>17 DEF AppOpens, AppOnly, StateTypeOK, HistoryTypeOK, Observe
<1>18. ASSUME NEW w \in Wrappers, AppEnds(w) PROVE RunInv(v)'
  BY <1>0, <1>18 DEF AppEnds, AppOnly, StateTypeOK, HistoryTypeOK, Observe
<1>19. ASSUME NEW w \in Wrappers, AppFinishes(w) PROVE RunInv(v)'
  BY <1>0, <1>19 DEF AppFinishes, AppOnly, StateTypeOK, HistoryTypeOK, Observe
<1>20. ASSUME NEW w \in Wrappers, AppReports(w) PROVE RunInv(v)'
  BY <1>0, <1>20 DEF AppReports, AppOnly, StateTypeOK, HistoryTypeOK, Observe
<1>21. CASE StrangerLeft
  BY <1>0, <1>21 DEF StrangerLeft, MonitorOnly, StateTypeOK, HistoryTypeOK,
     Observe
<1>22. CASE MonitorExit
  BY <1>0, <1>22 DEF MonitorExit, MonitorOnly, StateTypeOK, HistoryTypeOK,
     Observe
<1>23. CASE Answer
  BY <1>0, <1>23 DEF Answer, UserOnly, StateTypeOK, HistoryTypeOK, Observe
<1>24. CASE SetMaster
  BY <1>0, <1>24 DEF SetMaster, UserOnly, StateTypeOK, HistoryTypeOK, Observe
<1>25. CASE SetEnabled
  BY <1>0, <1>25 DEF SetEnabled, UserOnly, StateTypeOK, HistoryTypeOK, Observe
<1> QED
  BY <1>1, <1>2, <1>3, <1>4, <1>5, <1>6, <1>7, <1>8, <1>9, <1>10, <1>11,
     <1>12, <1>13, <1>14, <1>15, <1>16, <1>17, <1>18, <1>19, <1>20, <1>21,
        <1>22, <1>23, <1>24, <1>25
  DEF Next, WrapperStep, UploadStep

-----------------------------------------------------------------------------
(* Theorems *)

LEMMA InitIInv == Init => IInv
<1> SUFFICES ASSUME Init PROVE IInv
    OBVIOUS
<1> USE LauncherAssumption DEF Init, Launching, Running, Ending, Concluded
<1>1. StateTypeOK
  <2>1. changes \in 0 .. MaxChanges
    BY DEF Init
  <2> QED BY <2>1 DEF StateTypeOK
<1>2. HistoryTypeOK
  <2>1. TakesPart \in BOOLEAN
    BY DEF TakesPart
  <2>2. steady \in [Wrappers -> BOOLEAN]
    BY <2>1, Zenon
  <2> QED BY <2>2 DEF HistoryTypeOK
<1>3. ASSUME NEW v \in Wrappers
      PROVE  RunInv(v)
  BY DEF RunInv, ConsentInv, LifeInv, TrayInv, SteadyInv
<1> QED BY <1>1, <1>2, <1>3 DEF IInv, TypeOK

LEMMA NextIInv == IInv /\ [Next]_vars => IInv'
<1> SUFFICES ASSUME IInv, [Next]_vars PROVE IInv'
    OBVIOUS
<1>1. StateTypeOK /\ HistoryTypeOK
  BY DEF IInv, TypeOK
<1>2. CASE Next
  <2>1. StateTypeOK'
    BY <1>1, <1>2, StateTypeStep
  <2>2. HistoryTypeOK'
    BY <1>1, <1>2, HistoryTypeStep DEF Next
  <2>3. ASSUME NEW v \in Wrappers PROVE RunInv(v)'
    BY <1>1, <1>2, <2>2, RunStep DEF IInv
  <2> QED BY <2>1, <2>2, <2>3 DEF IInv, TypeOK
<1>3. CASE UNCHANGED vars
  BY <1>3 DEF vars, settingVars, trayVars, appVars, IInv, TypeOK, StateTypeOK,
      HistoryTypeOK, RunInv, ConsentInv, LifeInv, TrayInv, SteadyInv, Disconnected, TakesPart
<1> QED BY <1>2, <1>3

LEMMA InvariantHolds == Spec => []IInv
BY InitIInv, NextIInv, PTL DEF Spec

\* The types, for every step of every process.  (wrapper/Main2.py,
\* wrapper/Uploader.py, tray/Service.py)
THEOREM Types == Spec => []TypeOK
<1>1. IInv => TypeOK
  BY DEF IInv
<1> QED BY <1>1, InvariantHolds, PTL

\* No run is sampled unless the consent was read, of both switches and after the
\* first-time answer.  (wrapper/UserConfig.py enabled)
THEOREM SamplingConsent == Spec => []ConsentBeforeSampling
<1>1. IInv => ConsentBeforeSampling
  BY DEF IInv, RunInv, ConsentBeforeSampling, ConsentInv
<1> QED BY <1>1, InvariantHolds, PTL

\* Nor is a report uploaded unless both have been on since the application ended.
\* (wrapper/SampledLauncher.py wait, wrapper/UserConfig.py enabled)
THEOREM UploadConsent == Spec => []ConsentBeforeUpload
<1>1. IInv => ConsentBeforeUpload
  <2> SUFFICES ASSUME IInv PROVE ConsentBeforeUpload
      OBVIOUS
  <2>1. agreed \in [Wrappers -> SUBSET {"master", "enabled"}]
    BY DEF IInv, TypeOK, HistoryTypeOK
  <2>2. \A w \in Wrappers : ConsentInv(w)
    BY DEF IInv, RunInv
  <2> QED BY <2>1, <2>2 DEF ConsentBeforeUpload, ConsentInv
<1> QED BY <1>1, InvariantHolds, PTL

\* The run of a user who took part all along is uploaded.
\* (wrapper/SampledLauncher.py wait, wrapper/Uploader.py upload)
THEOREM Participation == Spec => []ParticipantsReport
<1>1. IInv => ParticipantsReport
  BY DEF IInv, RunInv, SteadyInv, ParticipantsReport
<1> QED BY <1>1, InvariantHolds, PTL

\* The monitor stays up for every wrapper it has answered.  (tray/Service.py)
THEOREM Tray == Spec => []TrayKnowsItsClients
<1>1. IInv => TrayKnowsItsClients
  BY DEF IInv, RunInv, TrayInv, TrayKnowsItsClients
<1> QED BY <1>1, InvariantHolds, PTL
=============================================================================
