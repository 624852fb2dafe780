------------------------------ MODULE Launcher ------------------------------
(***************************************************************************)
(* What runs around an instrumented application on the user's desktop:     *)
(* one wrapper process per run (launcher/wrapper), its background upload,  *)
(* the first-time dialog, the tray monitor, and the settings in GConf they *)
(* all share.  A wrapper reads the settings one by one (each get_bool or   *)
(* get_int is a call to the GConf server), spawns the application with or  *)
(* without sampling, makes itself known to the tray, drains the            *)
(* application's report pipe, and reads the settings AGAIN before it       *)
(* uploads.  Several runs are in progress at once and the user may change  *)
(* a setting between any two steps.                                        *)
(***************************************************************************)
EXTENDS Integers

CONSTANTS
    Wrappers,       \* the runs: one wrapper process and one application each
    LongReports,    \* the runs whose report does not fit in the pipe's buffer
    Rates,          \* values of the sparsity setting; 0 disables sampling
    Urls, NoUrl,    \* addresses for reports; none is set, or an empty one
    MaxChanges      \* bound: how often the user sets a switch

ASSUME LauncherAssumption ==
    /\ LongReports \subseteq Wrappers
    /\ Rates \subseteq Nat
    /\ NoUrl \notin Urls
    /\ MaxChanges \in Nat

VARIABLES
    settings,       \* the GConf database
    changes,        \* how many times the user has set a switch
    dialog,         \* is the first-time dialog on the screen?
    monitor,        \* the tray process: "absent", "up" or "quitting"
    clients,        \* Server.clients: the wrappers the tray knows of
    pc,             \* where each wrapper is in main()
    rate,           \* the sparsity each wrapper has read, 0 for no sampling
    app,            \* the application of each wrapper
    report,         \* what is in the report pipe: "none", "begun" or "whole"
    upload,         \* the background process that uploads
    agreed,         \* history: the switches seen on together with "asked",
                    \* since the launch and afresh since the application ended
    steady          \* history: has the user taken part ever since the launch?

settingVars == <<settings, changes, dialog>>
trayVars == <<monitor, clients>>
appVars == <<app, report>>
vars == <<settingVars, trayVars, appVars, pc, rate, upload, agreed, steady>>

\* The keys a run consults, in the order of UserConfig.enabled.
Switches == {"asked", "master", "enabled"}

Launching == {"asked", "master", "enabled", "sparsity", "spawn"}
Running == {"first_time", "tray", "bind", "activate", "read", "reap"}
Ending == {"asked_again", "master_again", "enabled_again", "url", "exit"}
Concluded == {"done", "broken"}

StateTypeOK ==
    /\ settings \in [asked : BOOLEAN, master : BOOLEAN, enabled : BOOLEAN,
                     tray : BOOLEAN, sparsity : Rates, url : Urls \cup {NoUrl}]
    /\ changes \in 0 .. MaxChanges
    /\ dialog \in BOOLEAN
    /\ monitor \in {"absent", "up", "quitting"}
    /\ clients \subseteq Wrappers
    /\ pc \in [Wrappers -> Launching \cup Running \cup Ending \cup Concluded]
    /\ rate \in [Wrappers -> Rates \cup {0}]
    /\ app \in [Wrappers -> {"none", "running", "finishing", "exited"}]
    /\ report \in [Wrappers -> {"none", "begun", "whole"}]
    /\ upload \in [Wrappers -> {"none", "post", "redirect", "sparsity", "gone"}]

HistoryTypeOK ==
    /\ agreed \in [Wrappers -> SUBSET {"master", "enabled"}]
    /\ steady \in [Wrappers -> BOOLEAN]

TypeOK == StateTypeOK /\ HistoryTypeOK

TakesPart ==
    /\ \A s \in Switches : settings[s]
    /\ settings.sparsity > 0
    /\ settings.url # NoUrl

Init ==
    /\ settings \in [asked : BOOLEAN, master : BOOLEAN, enabled : BOOLEAN,
                     tray : BOOLEAN, sparsity : Rates, url : Urls \cup {NoUrl}]
    /\ changes = 0
    /\ dialog = FALSE
    /\ monitor = "absent" /\ clients = {}
    /\ pc = [w \in Wrappers |-> "asked"]
    /\ rate = [w \in Wrappers |-> 0]
    /\ app = [w \in Wrappers |-> "none"]
    /\ report = [w \in Wrappers |-> "none"]
    /\ upload = [w \in Wrappers |-> "none"]
    /\ agreed = [w \in Wrappers |->
                    {s \in {"master", "enabled"} : settings.asked /\ settings[s]}]
    /\ steady = [w \in Wrappers |-> TakesPart]

Goto(w, next) == pc' = [pc EXCEPT ![w] = next]

-----------------------------------------------------------------------------
(* The wrapper: Main2.main *)

\* One get_bool: on to yes if the switch is on, to no if it is off.
Consult(w, here, switch, yes, no) ==
    /\ pc[w] = here
    /\ Goto(w, IF settings[switch] THEN yes ELSE no)
    /\ UNCHANGED <<settingVars, trayVars, appVars, rate, upload>>

\* Mutated form: "asked" is read and not heeded.
LaunchEnabled_Unasked(w) ==
    \/ Consult(w, "asked", "asked", "master", "master")
    \/ Consult(w, "master", "master", "enabled", "spawn")
    \/ Consult(w, "enabled", "enabled", "sparsity", "spawn")

\* UserConfig.enabled for the decision to sample, and for the one to upload.
LaunchEnabled(w) ==
    \/ Consult(w, "asked", "asked", "master", "spawn")
    \/ Consult(w, "master", "master", "enabled", "spawn")
    \/ Consult(w, "enabled", "enabled", "sparsity", "spawn")

EndEnabled(w) ==
    \/ Consult(w, "asked_again", "asked", "master_again", "exit")
    \/ Consult(w, "master_again", "master", "enabled_again", "exit")
    \/ Consult(w, "enabled_again", "enabled", "url", "exit")

\* UserConfig.sparsity, once enabled.
ReadSparsity(w) ==
    /\ pc[w] = "sparsity"
    /\ rate' = [rate EXCEPT ![w] = settings.sparsity]
    /\ Goto(w, "spawn")
    /\ UNCHANGED <<settingVars, trayVars, appVars, upload>>

\* launcher.spawn, with SAMPLER_SPARSITY and a report pipe or with neither.
Spawn(w) ==
    /\ pc[w] = "spawn"
    /\ app' = [app EXCEPT ![w] = "running"]
    /\ Goto(w, "first_time")
    /\ UNCHANGED <<settingVars, trayVars, report, rate, upload>>

\* if not user.asked(): Popen first-time.  A second one presents the first.
FirstTime(w) ==
    /\ pc[w] = "first_time"
    /\ dialog' = (dialog \/ ~settings.asked)
    /\ Goto(w, "tray")
    /\ UNCHANGED <<settings, changes, trayVars, appVars, rate, upload>>

\* Mutated form: waits for the child first and reads what it left.
Wait_ReapFirst(w) == "reap"

\* launcher.wait: the sampled one first reads the reports to the end.
Wait(w) == IF rate[w] > 0 THEN "read" ELSE "reap"

ShowTrayIcon(w) ==
    /\ pc[w] = "tray"
    /\ Goto(w, IF settings.tray THEN "bind" ELSE Wait(w))
    /\ UNCHANGED <<settingVars, trayVars, appVars, rate, upload>>

\* bus.get_object: the bus starts the monitor unless its name has an owner.
GetMonitor(w) ==
    /\ pc[w] = "bind"
    /\ monitor' = IF monitor = "absent" THEN "up" ELSE monitor
    /\ Goto(w, "activate")
    /\ UNCHANGED <<settingVars, clients, appVars, rate, upload>>

\* ReportsReader: to the end of the pipe, which is the end of the application.
ReadReports(w) ==
    /\ pc[w] = "read"
    /\ app[w] = "exited"
    /\ Goto(w, "reap")
    /\ UNCHANGED <<settingVars, trayVars, appVars, rate, upload>>

\* Mutated form: who was sampled is uploaded.
Reap_Trusting(w) ==
    /\ pc[w] = "reap"
    /\ app[w] = "exited"
    /\ Goto(w, IF rate[w] > 0 THEN "url" ELSE "exit")
    /\ UNCHANGED <<settingVars, trayVars, appVars, rate, upload>>

\* child.wait
Reap(w) ==
    /\ pc[w] = "reap"
    /\ app[w] = "exited"
    /\ Goto(w, IF rate[w] > 0 THEN "asked_again" ELSE "exit")
    /\ UNCHANGED <<settingVars, trayVars, appVars, rate, upload>>

\* Mutated form: only reports that were finished.
StartUpload_Whole(w) ==
    /\ pc[w] = "url"
    /\ upload' = IF settings.url # NoUrl /\ report[w] = "whole"
                 THEN [upload EXCEPT ![w] = "post"]
                 ELSE upload
    /\ Goto(w, "exit")
    /\ UNCHANGED <<settingVars, trayVars, appVars, rate>>

\* Uploader.upload, to the fork: nothing without an address or any report.
StartUpload(w) ==
    /\ pc[w] = "url"
    /\ upload' = IF settings.url # NoUrl /\ report[w] # "none"
                 THEN [upload EXCEPT ![w] = "post"]
                 ELSE upload
    /\ Goto(w, "exit")
    /\ UNCHANGED <<settingVars, trayVars, appVars, rate>>

\* outcome.exit
Exit(w) ==
    /\ pc[w] = "exit"
    /\ Goto(w, "done")
    /\ UNCHANGED <<settingVars, trayVars, appVars, rate, upload>>

WrapperStep(w) ==
    \/ LaunchEnabled(w) \/ ReadSparsity(w) \/ Spawn(w) \/ FirstTime(w)
    \/ ShowTrayIcon(w) \/ GetMonitor(w) \/ ReadReports(w) \/ Reap(w)
    \/ EndEnabled(w) \/ StartUpload(w) \/ Exit(w)

-----------------------------------------------------------------------------
(* The upload: the forked half of Uploader.upload *)

UploadTo(w, next) ==
    /\ upload' = [upload EXCEPT ![w] = next]
    /\ UNCHANGED <<changes, dialog, trayVars, appVars, pc, rate>>

\* The request gets its reply, or fails and takes the process with it.
Post(w) ==
    /\ upload[w] = "post"
    /\ \E next \in {"redirect", "gone"} : UploadTo(w, next)
    /\ UNCHANGED settings

\* A permanent redirection, if the reply came by one, becomes the setting.
ChangeReportingUrl(w) ==
    /\ upload[w] = "redirect"
    /\ \E url \in Urls \cup {settings.url} : settings' = [settings EXCEPT !.url = url]
    /\ UploadTo(w, "sparsity")

\* So does the sparsity the server asks for, if it asks for one.
ChangeSparsity(w) ==
    /\ upload[w] = "sparsity"
    /\ \E r \in Rates : settings' = [settings EXCEPT !.sparsity = r]
    /\ UploadTo(w, "gone")

UploadStep(w) == Post(w) \/ ChangeReportingUrl(w) \/ ChangeSparsity(w)

-----------------------------------------------------------------------------
(* The tray monitor: Server in tray/Service.py.  A wrapper's connection to   *)
(* the bus is shared with the upload it forks and ends with the later one.   *)

MonitorOnly == UNCHANGED <<settingVars, appVars, rate, upload>>

Disconnected(w) == pc[w] \in Concluded /\ upload[w] \in {"none", "gone"}

\* activate: the caller was waiting for the reply.
Activate(w) ==
    /\ monitor = "up" /\ pc[w] = "activate"
    /\ clients' = clients \cup {w}
    /\ Goto(w, Wait(w))
    /\ UNCHANGED monitor /\ MonitorOnly

\* Mutated form: the first client to leave takes the monitor with it.
ClientLeft_First(w) ==
    /\ monitor = "up" /\ w \in clients /\ Disconnected(w)
    /\ clients' = clients \ {w}
    /\ monitor' = "quitting"
    /\ UNCHANGED pc /\ MonitorOnly

\* NameOwnerChanged, of a client.
ClientLeft(w) ==
    /\ monitor = "up" /\ w \in clients /\ Disconnected(w)
    /\ clients' = clients \ {w}
    /\ monitor' = IF clients' = {} THEN "quitting" ELSE "up"
    /\ UNCHANGED pc /\ MonitorOnly

\* NameOwnerChanged, of any other program on the bus.
StrangerLeft ==
    /\ monitor = "up" /\ clients = {}
    /\ monitor' = "quitting"
    /\ UNCHANGED <<clients, pc>> /\ MonitorOnly

\* The main loop has returned.  The bus answers whoever still waits with an
\* error, an exception that nothing in the wrapper catches.
MonitorExit ==
    /\ monitor = "quitting"
    /\ monitor' = "absent" /\ clients' = {}
    /\ pc' = [w \in Wrappers |-> IF pc[w] = "activate" THEN "broken" ELSE pc[w]]
    /\ MonitorOnly

-----------------------------------------------------------------------------
(* The application, and the user *)

AppOnly == UNCHANGED <<settingVars, trayVars, pc, rate, upload>>

\* The runtime's initializer starts the report.
AppOpens(w) ==
    /\ app[w] = "running" /\ rate[w] > 0 /\ report[w] = "none"
    /\ report' = [report EXCEPT ![w] = "begun"]
    /\ UNCHANGED app /\ AppOnly

\* It ends at once: killed, or unsampled and with nothing to report.
AppEnds(w) ==
    /\ app[w] \in {"running", "finishing"}
    /\ app' = [app EXCEPT ![w] = "exited"]
    /\ UNCHANGED report /\ AppOnly

\* It ends by way of finalize, which writes the report,
AppFinishes(w) ==
    /\ app[w] = "running" /\ report[w] = "begun"
    /\ app' = [app EXCEPT ![w] = "finishing"]
    /\ UNCHANGED report /\ AppOnly

\* and a long one is not written before somebody reads.
AppReports(w) ==
    /\ app[w] = "finishing"
    /\ w \in LongReports => pc[w] = "read"
    /\ report' = [report EXCEPT ![w] = "whole"]
    /\ app' = [app EXCEPT ![w] = "exited"]
    /\ AppOnly

UserOnly == UNCHANGED <<trayVars, appVars, pc, rate, upload>>

\* The answer to the first-time dialog; any other than OK leaves "asked".
Answer ==
    /\ dialog
    /\ dialog' = FALSE
    /\ \E ok \in BOOLEAN : settings' = [settings EXCEPT !.asked = ok \/ @]
    /\ UNCHANGED changes /\ UserOnly

\* The master switch, to whatever the widget shows: tray menu, preferences,
\* first-time dialog.
SetMaster ==
    /\ changes < MaxChanges
    /\ changes' = changes + 1
    /\ \E on \in BOOLEAN : settings' = [settings EXCEPT !.master = on]
    /\ UNCHANGED dialog /\ UserOnly

\* The application's own switch in the preferences.
SetEnabled ==
    /\ changes < MaxChanges
    /\ changes' = changes + 1
    /\ \E on \in BOOLEAN : settings' = [settings EXCEPT !.enabled = on]
    /\ UNCHANGED dialog /\ UserOnly

-----------------------------------------------------------------------------
(* The whole *)

\* What the history variables watch: a run that is deciding whether to sample,
\* or whose application has ended.
Deciding(w) ==
    \/ pc[w] \in Launching
    \/ app[w] = "exited" /\ pc[w] \notin Concluded

Observe ==
    /\ agreed' = [w \in Wrappers |->
           IF Deciding(w)'
           THEN agreed[w] \cup
                {s \in {"master", "enabled"} : settings'.asked /\ settings'[s]}
           ELSE {}]
    /\ steady' = [w \in Wrappers |->
           IF pc'[w] \in Concluded THEN steady[w] ELSE steady[w] /\ TakesPart']

Next ==
    /\ \/ \E w \in Wrappers :
              \/ WrapperStep(w) \/ UploadStep(w) \/ Activate(w) \/ ClientLeft(w)
              \/ AppOpens(w) \/ AppEnds(w) \/ AppFinishes(w) \/ AppReports(w)
       \/ StrangerLeft \/ MonitorExit
       \/ Answer \/ SetMaster \/ SetEnabled
    /\ Observe

Spec == Init /\ [][Next]_vars

\* Every process runs on; the user, strangers and the application's own end
\* are left to themselves.
Fairness ==
    /\ \A w \in Wrappers :
           /\ WF_vars(WrapperStep(w) /\ Observe)
           /\ WF_vars(UploadStep(w) /\ Observe)
           /\ WF_vars(AppReports(w) /\ Observe)
    /\ WF_vars((\E w \in Wrappers : Activate(w) \/ ClientLeft(w)) /\ Observe)
    /\ WF_vars(MonitorExit /\ Observe)

FairSpec == Spec /\ Fairness

-----------------------------------------------------------------------------
(* Properties *)

\* A run is sampled only if at some moment since its wrapper started the user
\* had answered the first-time dialog AND the switch was on, for each of the
\* two switches.  (UserConfig.enabled; sampler.schemas: "Sampling only begins
\* once both asked and enabled are true".)
ConsentBeforeSampling ==
    \A w \in Wrappers :
        pc[w] = "spawn" /\ rate[w] > 0 => agreed[w] = {"master", "enabled"}

\* A report is uploaded only if both switches have been on since the
\* application ended: the consent read at the launch is not enough.
\* (SampledLauncher.wait)
ConsentBeforeUpload ==
    \A w \in Wrappers : pc[w] = "url" => agreed[w] = {"master", "enabled"}

\* The run of a user who took part all along is uploaded, if its application
\* began a report at all.  ("samples will be collected during each run and
\* reported to the central bug isolation server after each run concludes")
ParticipantsReport ==
    \A w \in Wrappers :
        pc[w] = "done" /\ steady[w] /\ report[w] # "none" => upload[w] # "none"

\* A wrapper whose activation was answered is a client of a monitor that is
\* up, as long as it or its upload lives.  (tray/Service.py)
TrayKnowsItsClients ==
    \A w \in Wrappers :
        /\ settings.tray
        /\ \/ pc[w] \in {"read", "reap"} \cup Ending
           \/ pc[w] = "done" /\ ~Disconnected(w)
        => monitor = "up" /\ w \in clients

\* An application that has its report to write is not left with a full pipe,
\* whatever its wrapper still has to do before it reads, unless the wrapper
\* broke.  (the order of Launcher.wait)
ReportsAreDrained ==
    \A w \in Wrappers :
        app[w] = "finishing" ~> app[w] = "exited" \/ pc[w] = "broken"

\* Reports are drained, the wrapper follows its application, and the monitor the
\* last of them.
EverythingEnds ==
    /\ ReportsAreDrained
    /\ \A w \in Wrappers : app[w] = "exited" ~> pc[w] \in Concluded
    /\ (\A w \in Wrappers : pc[w] \in Concluded) ~> monitor = "absent"
=============================================================================
