------------------------------ MODULE ScxBridge ------------------------------
(***************************************************************************)
(* The Rust bridge of scx-manager (scx-rustlib/src/lib.rs) driven by the   *)
(* Apply and Disable buttons (src/schedext-window-internal.cpp), between   *)
(* the scx_loader daemon, systemd, /tmp/scx_loader.toml and                *)
(* /etc/scx_loader.toml.  A manager is one running instance of the         *)
(* application.  Its GUI thread runs one job at a time and blocks in every *)
(* external call, so a job is a sequence of steps, one for each external   *)
(* call; other managers, the daemon and the machine move between them.     *)
(***************************************************************************)
EXTENDS LoaderConfig

CONSTANTS
  Manager,      \* instances of the application
  Listed,       \* scheduler names the daemon reports; may exceed Sched
  InitialEtc,   \* what /etc/scx_loader.toml may hold at first
  InitialUnits, \* how the systemd units may stand at first
  Faults,       \* what may happen around a job, see FaultKinds
  Empty,        \* content of a truncated file
  Garbled,      \* content that is no configuration
  EmptyConfig   \* what the crate's parser makes of an empty file

Content == Config \cup {None, Empty, Garbled}

\* What may be selected; None while the daemon's list is empty.
Name == Listed \cup {None}

Units == [loader : BOOLEAN, legacy : [enabled : BOOLEAN, active : BOOLEAN]]

\* A failure of a systemctl call, of a D-Bus call, of writing the staging file,
\* of pkexec; the daemon or the machine restarting; the daemon reading its
\* configuration again; an application that dies in the middle of a job.
FaultKinds == {"systemctl", "dbus", "write", "pkexec", "daemon", "reboot", "reload", "kill"}

ASSUME BridgeAssumption ==
  /\ Faults \subseteq FaultKinds
  /\ InitialUnits \subseteq Units
  /\ Empty # Garbled /\ Empty # None /\ Garbled # None
  /\ {Empty, Garbled} \cap Config = {}
  /\ InitialEtc \subseteq Content
  /\ EmptyConfig \in {BlankConfig, None}
  /\ None \notin Listed
  /\ None \notin [op : {"apply"}, sched : Name, mode : Mode, args : ArgList]
  /\ None \notin [op : {"disable"}]

VARIABLES
  pc,             \* where each manager is
  mem,            \* m_scx_config: its configuration in memory
  job,            \* the arguments of its current or last job
  tmp,            \* /tmp/scx_loader.toml
  etc,            \* /etc/scx_loader.toml
  running,        \* the scheduler the daemon has loaded
  daemonUp,       \* scx_loader answers on D-Bus
  daemonConfig,   \* the configuration it has read, None for none
  loaderEnabled,  \* scx_loader is enabled in systemd
  legacy,         \* state of the legacy scx.service
  log,            \* history: how each manager's last job went
  asked           \* history: argument lists somebody asked for

disk == <<tmp, etc>>
daemon == <<running, daemonUp, daemonConfig>>
services == <<daemon, loaderEnabled, legacy>>
vars == <<pc, mem, job, disk, services, log, asked>>

Busy == {"probeEnabled", "disableLegacy", "probeActive", "stopLegacy",
         "switch", "probeLoader", "enableLoader", "stage", "write",
         "stopSched", "copy"}
ApplyOnly == {"probeEnabled", "disableLegacy", "probeActive", "stopLegacy",
              "switch", "probeLoader", "enableLoader"}
AfterParse == {"probeLoader", "enableLoader", "stage", "write", "copy"}
PC == Busy \cup {"off", "inert", "idle", "error"}

Job == [op : {"apply"}, sched : Name, mode : Mode, args : ArgList]
         \cup [op : {"disable"}]
Running == [sched : Sched, args : ArgList]

\* `failed`: the steps of the job that failed and were only printed; `synced`:
\* the memory and /etc agreed when the job began; `informed`: so did the daemon
\* and /etc, about the job's scheduler and profile; `alone`: no other manager's
\* job has overlapped it; `outcome`: how it ended.
Outcome == {"none", "busy", "installed", "silent", "reported"}
Steps == {"legacy", "switch", "query", "enable"}
Log == [failed : SUBSET Steps, synced : BOOLEAN, informed : BOOLEAN,
        alone : BOOLEAN, outcome : Outcome]
FreshLog == [failed |-> {}, synced |-> TRUE, informed |-> TRUE, alone |-> TRUE,
             outcome |-> "none"]

\* init_config: what reading a configuration file gives, None for an error.
Loaded(content) ==
  CASE content \in Config -> content
    [] content = None     -> DefaultConfig
    [] content = Empty    -> EmptyConfig
    [] OTHER              -> None

\* What the daemon resolves a mode to from a configuration it has read, or
\* without one.
DaemonArgs(cfg, s, m) ==
  IF cfg = None THEN StockArgs[<<s, m>>] ELSE ArgsFor(cfg, s, m)

\* What it loads for a mode: by the configuration it has, which need not be the
\* one in /etc.
ModeRunning(s, m) == [sched |-> s, args |-> DaemonArgs(daemonConfig, s, m)]

\* What it starts by itself, from /etc as it is when it starts.
BootRunning == IF Loaded(etc) = None THEN None ELSE BootSched(Loaded(etc))

\* What a manager holds at each place: a configuration once its buttons are
\* connected, the arguments of a job while one runs, and a scheduler the crate
\* knows once it has been parsed.
HoldsWhatItUses ==
  \A w \in Manager :
    /\ pc[w] \in Busy \cup {"idle", "error"} => mem[w] # None
    /\ pc[w] \in Busy => job[w] # None
    /\ pc[w] \in ApplyOnly => job[w].op = "apply"
    /\ pc[w] = "stopSched" => job[w].op = "disable"
    /\ pc[w] \in AfterParse /\ job[w].op = "apply" => job[w].sched \in Sched

TypeOK ==
  /\ pc \in [Manager -> PC]
  /\ mem \in [Manager -> Config \cup {None}]
  /\ job \in [Manager -> Job \cup {None}]
  /\ tmp \in Content
  /\ etc \in Content
  /\ running \in Running \cup {None}
  /\ daemonUp \in BOOLEAN
  /\ daemonConfig \in Config \cup {None}
  /\ loaderEnabled \in BOOLEAN
  /\ legacy \in [enabled : BOOLEAN, active : BOOLEAN]
  /\ log \in [Manager -> Log]
  /\ asked \subseteq Sched \X Mode \X ArgList
  /\ HoldsWhatItUses

Init ==
  /\ pc = [w \in Manager |-> "off"]
  /\ mem = [w \in Manager |-> None]
  /\ job = [w \in Manager |-> None]
  /\ tmp = None
  /\ etc \in InitialEtc
  /\ daemonUp = FALSE
  /\ daemonConfig = None
  /\ running = None
  /\ \E u \in InitialUnits : loaderEnabled = u.loader /\ legacy = u.legacy
  /\ log = [w \in Manager |-> FreshLog]
  /\ asked = IF Loaded(etc) = None THEN Entries(DefaultConfig)
             ELSE Entries(Loaded(etc)) \cup Entries(DefaultConfig)

-----------------------------------------------------------------------------
Goto(w, state) == pc' = [pc EXCEPT ![w] = state]
Note(w, outcome) == log' = [log EXCEPT ![w].outcome = outcome]
Swallowed(w, step) == log' = [log EXCEPT ![w].failed = @ \cup {step}]

\* utils::exec on a systemctl query, whose output is compared with the one word
\* that means yes; a query that fails gives "-1", another word.
Probe(w, yes, ifYes, ifNo, step) ==
  \/ Goto(w, IF yes THEN ifYes ELSE ifNo) /\ UNCHANGED log
  \/ "systemctl" \in Faults /\ Goto(w, ifNo) /\ Swallowed(w, step)

DBusFails == "dbus" \in Faults \/ ~daemonUp

\* The bridge returns an error and the handler shows a message box.
Report(w) == Note(w, "reported") /\ Goto(w, "error")

Start_ConfigUnchecked(w) ==
  /\ pc[w] = "off"
  /\ mem' = [mem EXCEPT ![w] = Loaded(etc)]
  /\ Goto(w, IF daemonUp THEN "idle" ELSE "inert")
  /\ UNCHANGED <<job, disk, services, log, asked>>

Start_AlwaysDefault(w) ==
  /\ pc[w] = "off"
  /\ mem' = [mem EXCEPT ![w] = DefaultConfig]
  /\ Goto(w, IF daemonUp THEN "idle" ELSE "inert")
  /\ UNCHANGED <<job, disk, services, log, asked>>

\* The window's constructor.  Without a configuration, or without the daemon's
\* list, it returns before it connects the buttons.
Start(w) ==
  /\ pc[w] = "off"
  /\ mem' = [mem EXCEPT ![w] = Loaded(etc)]
  /\ Goto(w, IF Loaded(etc) # None /\ daemonUp THEN "idle" ELSE "inert")
  /\ UNCHANGED <<job, disk, services, log, asked>>

\* A manager is closed; in the middle of a job its thread is blocked, and it
\* can only be killed or abort (a panic cannot cross into C++).
Exit(w) ==
  /\ pc[w] # "off"
  /\ "kill" \in Faults \/ pc[w] \notin Busy
  /\ Goto(w, "off")
  /\ mem' = [mem EXCEPT ![w] = None]
  /\ job' = [job EXCEPT ![w] = None]
  /\ log' = [log EXCEPT ![w] = FreshLog]
  /\ UNCHANGED <<disk, services, asked>>

\* If the daemon is there, it resolves a mode as /etc does.
Informed(s, m) ==
  daemonUp => DaemonArgs(daemonConfig, s, m) = DaemonArgs(Loaded(etc), s, m)

\* The history of a job that begins now, and of the jobs it overlaps.
BeginLog(w, informed) ==
  LET others == {v \in Manager \ {w} : pc[v] \in Busy}
  IN log' = [v \in Manager |->
       CASE v = w       -> [failed |-> {}, synced |-> mem[w] = Loaded(etc),
                            informed |-> informed, alone |-> others = {},
                            outcome |-> "busy"]
         [] v \in others -> [log[v] EXCEPT !.alone = FALSE]
         [] OTHER        -> log[v]]

\* on_apply: the selected scheduler and profile and the text of the flags field.
BeginApply(w) ==
  /\ pc[w] = "idle"
  /\ \E s \in Name, m \in Mode, args \in ArgList :
       /\ job' = [job EXCEPT ![w] = [op |-> "apply", sched |-> s, mode |-> m, args |-> args]]
       /\ asked' = IF s \in Sched THEN asked \cup {<<s, m, args>>} ELSE asked
       /\ BeginLog(w, s \in Sched => Informed(s, m))
  /\ Goto(w, "probeEnabled")
  /\ UNCHANGED <<mem, disk, services>>

\* on_disable
BeginDisable(w) ==
  /\ pc[w] = "idle"
  /\ job' = [job EXCEPT ![w] = [op |-> "disable"]]
  /\ BeginLog(w, TRUE)
  /\ Goto(w, "stage")
  /\ UNCHANGED <<mem, disk, services, asked>>

ProbeEnabled_ActiveForgotten(w) ==
  /\ pc[w] = "probeEnabled"
  /\ Probe(w, legacy.enabled, "disableLegacy", "switch", "legacy")
  /\ UNCHANGED <<mem, job, disk, services, asked>>

\* disable_scx_service: two queries, and a systemctl call whose failure is only
\* printed.
ProbeEnabled(w) ==
  /\ pc[w] = "probeEnabled"
  /\ Probe(w, legacy.enabled, "disableLegacy", "probeActive", "legacy")
  /\ UNCHANGED <<mem, job, disk, services, asked>>

DisableLegacy(w) ==
  /\ pc[w] = "disableLegacy"
  /\ Goto(w, "switch")
  /\ \/ legacy' = [enabled |-> FALSE, active |-> FALSE] /\ UNCHANGED log
     \/ "systemctl" \in Faults /\ Swallowed(w, "legacy") /\ UNCHANGED legacy
  /\ UNCHANGED <<mem, job, disk, daemon, loaderEnabled, asked>>

ProbeActive(w) ==
  /\ pc[w] = "probeActive"
  /\ Probe(w, legacy.active, "stopLegacy", "switch", "legacy")
  /\ UNCHANGED <<mem, job, disk, services, asked>>

StopLegacy(w) ==
  /\ pc[w] = "stopLegacy"
  /\ Goto(w, "switch")
  /\ \/ legacy' = [legacy EXCEPT !.active = FALSE] /\ UNCHANGED log
     \/ "systemctl" \in Faults /\ Swallowed(w, "legacy") /\ UNCHANGED legacy
  /\ UNCHANGED <<mem, job, disk, daemon, loaderEnabled, asked>>

\* The crate does not know the daemon's scheduler name: apply_scheduler_change
\* returns an error after the legacy service has been stopped.
RejectSched(w) ==
  /\ pc[w] = "switch"
  /\ job[w].sched \notin Sched
  /\ Report(w)
  /\ UNCHANGED <<mem, job, disk, services, asked>>

Requested_AlwaysMode(w) == ModeRunning(job[w].sched, job[w].mode)

Requested_ComparesWithStock(w) ==
  IF job[w].args = StockArgs[<<job[w].sched, job[w].mode>>]
  THEN ModeRunning(job[w].sched, job[w].mode)
  ELSE [sched |-> job[w].sched, args |-> job[w].args]

\* What the daemon loads: a mode when the arguments are the ones the memory
\* resolves to, the arguments themselves otherwise.
Requested(w) ==
  IF job[w].args = ArgsFor(mem[w], job[w].sched, job[w].mode)
  THEN ModeRunning(job[w].sched, job[w].mode)
  ELSE [sched |-> job[w].sched, args |-> job[w].args]

\* A failed switch is only printed; the daemon may have stopped the old
\* scheduler before it failed.
Switch(w) ==
  /\ pc[w] = "switch"
  /\ job[w].sched \in Sched
  /\ \/ daemonUp /\ running' = Requested(w) /\ UNCHANGED log
     \/ DBusFails /\ running' \in {running, None} /\ Swallowed(w, "switch")
  /\ Goto(w, "probeLoader")
  /\ UNCHANGED <<mem, job, disk, daemonUp, daemonConfig, loaderEnabled, legacy, asked>>

ProbeLoader_NeverEnables(w) ==
  /\ pc[w] = "probeLoader"
  /\ Goto(w, "stage")
  /\ UNCHANGED <<mem, job, disk, services, log, asked>>

\* is_scx_loader_service_enabled
ProbeLoader(w) ==
  /\ pc[w] = "probeLoader"
  /\ Probe(w, loaderEnabled, "stage", "enableLoader", "query")
  /\ UNCHANGED <<mem, job, disk, services, asked>>

EnableLoader_Retries(w) ==
  /\ pc[w] = "enableLoader"
  /\ \/ loaderEnabled' = TRUE /\ Goto(w, "stage") /\ UNCHANGED log
     \/ "systemctl" \in Faults /\ Goto(w, "probeLoader") /\ UNCHANGED <<loaderEnabled, log>>
  /\ UNCHANGED <<mem, job, disk, daemon, legacy, asked>>

\* systemctl enable -f scx_loader
EnableLoader(w) ==
  /\ pc[w] = "enableLoader"
  /\ \/ loaderEnabled' = TRUE /\ UNCHANGED log
     \/ "systemctl" \in Faults /\ Swallowed(w, "enable") /\ UNCHANGED loaderEnabled
  /\ Goto(w, "stage")
  /\ UNCHANGED <<mem, job, disk, daemon, legacy, asked>>

Edited_ComparesWithFile(w) ==
  LET file == IF Loaded(etc) = None THEN mem[w] ELSE Loaded(etc)
  IN IF job[w].op = "disable" THEN Disabled(mem[w])
     ELSE IF job[w].args = ArgsFor(file, job[w].sched, job[w].mode)
          THEN WithDefault(mem[w], job[w].sched, job[w].mode)
          ELSE WithArgs(WithDefault(mem[w], job[w].sched, job[w].mode),
                        job[w].sched, job[w].mode, job[w].args)

\* The configuration in memory after the job's edit.
Edited(w) ==
  IF job[w].op = "disable" THEN Disabled(mem[w])
  ELSE Applied(mem[w], job[w].sched, job[w].mode, job[w].args)

Stage_NoTruncate(w) ==
  /\ pc[w] = "stage"
  /\ mem' = [mem EXCEPT ![w] = Edited(w)]
  /\ Goto(w, "write")
  /\ UNCHANGED <<job, disk, services, log, asked>>

\* The memory is edited, then write_config_file opens /tmp/scx_loader.toml and
\* truncates it, or fails and leaves the edit in memory.
Stage(w) ==
  /\ pc[w] = "stage"
  /\ mem' = [mem EXCEPT ![w] = Edited(w)]
  /\ \/ tmp' = Empty /\ Goto(w, "write") /\ UNCHANGED log
     \/ "write" \in Faults /\ Report(w) /\ UNCHANGED tmp
  /\ UNCHANGED <<job, etc, services, asked>>

Write_ErrorIgnored(w) ==
  /\ pc[w] = "write"
  /\ tmp' \in IF "write" \in Faults THEN {mem[w], tmp} ELSE {mem[w]}
  /\ Goto(w, IF job[w].op = "disable" THEN "stopSched" ELSE "copy")
  /\ UNCHANGED <<mem, job, etc, services, log, asked>>

\* write_all.  Over a file another manager has written since it was truncated,
\* the tail of the longer text stays.
Write(w) ==
  /\ pc[w] = "write"
  /\ \/ /\ tmp' \in IF tmp = Empty THEN {mem[w]} ELSE {mem[w], Garbled}
        /\ Goto(w, IF job[w].op = "disable" THEN "stopSched" ELSE "copy")
        /\ UNCHANGED log
     \/ "write" \in Faults /\ Report(w) /\ tmp' \in {tmp, Garbled}
  /\ UNCHANGED <<mem, job, etc, services, asked>>

\* disable_scx_sched asks the daemon to stop only after the file is staged.
StopSched(w) ==
  /\ pc[w] = "stopSched"
  /\ \/ daemonUp /\ running' = None /\ Goto(w, "copy") /\ UNCHANGED log
     \/ DBusFails /\ Report(w) /\ UNCHANGED running
  /\ UNCHANGED <<mem, job, disk, daemonUp, daemonConfig, loaderEnabled, legacy, asked>>

\* pkexec cp; a refusal is only printed and the job reports success.
Copy(w) ==
  /\ pc[w] = "copy"
  /\ \/ etc' = tmp /\ Note(w, "installed")
     \/ "pkexec" \in Faults /\ Note(w, "silent") /\ UNCHANGED etc
  /\ Goto(w, "idle")
  /\ UNCHANGED <<mem, job, tmp, services, asked>>

\* The user closes the message box and the handler enables the buttons again.
DismissError(w) ==
  /\ pc[w] = "error"
  /\ Goto(w, "idle")
  /\ UNCHANGED <<mem, job, disk, services, log, asked>>

-----------------------------------------------------------------------------
\* The daemon starts with the configuration in /etc.
DaemonStart ==
  /\ ~daemonUp
  /\ daemonUp' = TRUE
  /\ daemonConfig' = Loaded(etc)
  /\ running' = BootRunning
  /\ UNCHANGED <<pc, mem, job, disk, loaderEnabled, legacy, log, asked>>

\* It may read /etc again at any later moment, or never: the bridge does not ask
\* it to.
DaemonReload ==
  /\ "reload" \in Faults
  /\ daemonUp
  /\ daemonConfig' = Loaded(etc)
  /\ UNCHANGED <<pc, mem, job, disk, running, daemonUp, loaderEnabled, legacy, log, asked>>

\* The daemon stops and takes its scheduler along.  A job that had switched
\* loses what it achieved.
DaemonStop ==
  /\ "daemon" \in Faults
  /\ daemonUp
  /\ daemonUp' = FALSE
  /\ daemonConfig' = None
  /\ running' = None
  /\ log' = [w \in Manager |-> IF pc[w] \in Busy
                              THEN [log[w] EXCEPT !.failed = @ \cup {"switch"}]
                              ELSE log[w]]
  /\ UNCHANGED <<pc, mem, job, disk, loaderEnabled, legacy, asked>>

\* A crash or restart of the machine: /tmp is empty and systemd starts what is
\* enabled.
Reboot ==
  /\ "reboot" \in Faults
  /\ pc' = [w \in Manager |-> "off"]
  /\ mem' = [w \in Manager |-> None]
  /\ job' = [w \in Manager |-> None]
  /\ log' = [w \in Manager |-> FreshLog]
  /\ tmp' = None
  /\ daemonUp' = loaderEnabled
  /\ daemonConfig' = IF loaderEnabled THEN Loaded(etc) ELSE None
  /\ running' = IF loaderEnabled THEN BootRunning ELSE None
  /\ legacy' = [legacy EXCEPT !.active = legacy.enabled]
  /\ UNCHANGED <<etc, loaderEnabled, asked>>

JobStep(w) ==
  \/ ProbeEnabled(w) \/ DisableLegacy(w) \/ ProbeActive(w) \/ StopLegacy(w)
  \/ RejectSched(w) \/ Switch(w) \/ ProbeLoader(w) \/ EnableLoader(w)
  \/ Stage(w) \/ Write(w) \/ StopSched(w) \/ Copy(w)

Next ==
  \/ \E w \in Manager : \/ Start(w) \/ Exit(w) \/ DismissError(w)
                        \/ BeginApply(w) \/ BeginDisable(w) \/ JobStep(w)
  \/ DaemonStart \/ DaemonReload \/ DaemonStop \/ Reboot

Spec == Init /\ [][Next]_vars

\* Every external call a job waits for returns, be it with a failure.
Fairness == \A w \in Manager : WF_vars(JobStep(w))
LiveSpec == Spec /\ Fairness

-----------------------------------------------------------------------------
Idle(w) == pc[w] = "idle"
Installed(w) == Idle(w) /\ log[w].outcome = "installed"
BeforeSwitch(w) == pc[w] = "switch"

\* What the machine boots with once a job has its way.
BootAsked(w) ==
  IF job[w].op = "disable" THEN None
  ELSE [sched |-> job[w].sched, args |-> job[w].args]

\* A job that reports success and whose copy was approved leaves a file in /etc
\* from which the daemon starts exactly the requested scheduler with exactly
\* the requested arguments at boot, and nothing after a Disable.  The arguments
\* are stored only when they differ from what the memory resolves to, so this
\* is a claim about every earlier failed or refused job (lib.rs:230-247).
PersistedAsRequested ==
  \A w \in Manager : Installed(w) => BootRunning = BootAsked(w)

\* When the job began with the memory, /etc and the daemon in agreement and no
\* switch was swallowed, the scheduler that runs is the requested one with the
\* requested arguments, whichever of the two switch calls was chosen
\* (lib.rs:210-222), and whether or not the daemon reads /etc again.
AppliedRuns ==
  \A w \in Manager :
    /\ Installed(w) /\ job[w].op = "apply"
    /\ log[w].synced /\ log[w].informed /\ "switch" \notin log[w].failed /\ daemonUp
    => running = [sched |-> job[w].sched, args |-> job[w].args]

\* As above with no condition on the memory: the daemon agrees with /etc.
AppliedRunsAlways ==
  \A w \in Manager :
    /\ Installed(w) /\ job[w].op = "apply"
    /\ log[w].informed /\ "switch" \notin log[w].failed /\ daemonUp
    => running = [sched |-> job[w].sched, args |-> job[w].args]

\* An installed Apply leaves scx_loader enabled for the next boot and the
\* legacy service neither enabled nor active, unless systemctl was refused in
\* that job (lib.rs:197, 225-228).
BootHandedOver ==
  \A w \in Manager : Installed(w) /\ job[w].op = "apply" =>
    /\ "enable" \in log[w].failed \/ loaderEnabled
    /\ "legacy" \in log[w].failed \/ ~(legacy.enabled \/ legacy.active)

\* A manager that is idle after no job, or after a job whose copy was approved,
\* has in memory what a fresh start would read: one approved copy repairs every
\* edit that earlier failures left behind in memory.
MemoryInSync ==
  \A w \in Manager : Idle(w) /\ log[w].outcome \in {"none", "installed"} =>
    mem[w] = Loaded(etc)

\* No argument list reaches a memory, the staging file or /etc that was not in
\* the first configuration or typed for that scheduler and that profile.
OnlyRequestedArgs ==
  /\ \A w \in Manager : mem[w] # None => Entries(mem[w]) \subseteq asked
  /\ \A content \in {tmp, etc} \cap Config : Entries(content) \subseteq asked

\* The legacy service is down when the daemon is asked to switch, unless
\* systemctl was refused in this job (lib.rs:195-197, 342-350).
LegacyDownUnlessRefused ==
  \A w \in Manager : BeforeSwitch(w) /\ "legacy" \notin log[w].failed =>
    ~(legacy.enabled \/ legacy.active)

\* A manager's copy puts into /etc that manager's own configuration: the edits
\* of its job applied to what it had in memory, not another one's file.
InstallsOwnConfig ==
  [][\A w \in Manager : Copy(w) /\ etc' # etc => etc' = mem[w]]_vars

\* A job that no other manager's job overlaps installs its own configuration.
InstallsOwnConfigAlone ==
  [][\A w \in Manager : Copy(w) /\ etc' # etc /\ log[w].alone => etc' = mem[w]]_vars

\* However many applications there are: an approved copy of a job that no other
\* job overlaps makes the machine boot with what that job asks for, whatever the
\* others have left in the files and however old its memory is.
AloneBootsAsRequested ==
  [][\A w \in Manager :
       Copy(w) /\ log'[w].outcome = "installed" /\ log[w].alone =>
         BootRunning' = BootAsked(w)]_vars

\* Every entry but the job's own is the same in two configurations.
KeptBut(j, old, new) ==
  \A p \in Sched \X Mode :
    \/ j.op = "apply" /\ p = <<j.sched, j.mode>>
    \/ new.scheds[p] = old.scheds[p]

\* A job that began with memory and /etc in agreement, and that nobody's job
\* overlaps, leaves all other entries of /etc as they are, whoever made them;
\* a job with a stale memory may lose them (lib.rs:299).
OthersArgsKept ==
  [][\A w \in Manager :
       Copy(w) /\ etc' # etc /\ log[w].alone /\ log[w].synced =>
         KeptBut(job[w], Loaded(etc), Loaded(etc'))]_vars

\* Every job comes to an end.
JobsEnd == \A w \in Manager : pc[w] \in Busy ~> pc[w] \notin Busy

\* A single application is a configuration session on /etc (lib.rs:298-304 for
\* opening it, 101-136 for its edits, 245 and 256 for saving).
TheManager == CHOOSE w \in Manager : TRUE
Session == INSTANCE ConfigSession
             WITH Parse <- Loaded, saved <- etc, desired <- mem[TheManager]
ImplementsSession == Session!SessionSpec
=============================================================================
