--------------------------- MODULE ScxBridgeProofs ---------------------------
(***************************************************************************)
(* Theorems of ScxBridge under any fault model, in three parts: the types; *)
(* what holds for any number of managers; what holds when a single         *)
(* application runs.                                                       *)
(***************************************************************************)
EXTENDS ScxBridge, LoaderConfigProofs, Integers

-----------------------------------------------------------------------------
(***************************************************************************)
(* The types.                                                              *)
(***************************************************************************)

\* Reading a file of any content gives a configuration or an error.
LEMMA LoadedType ==
  ASSUME NEW content \in Content
  PROVE  Loaded(content) \in Config \cup {None}
BY BlankType, ConfigAssumption, BridgeAssumption DEF Loaded, Content

\* What the daemon boots with is a scheduler with arguments, or nothing.
LEMMA BootSchedType ==
  ASSUME NEW cfg \in Config
  PROVE  BootSched(cfg) \in Running \cup {None}
BY ArgsForType, ConfigAssumption DEF BootSched, Running, Config

\* ... also from whatever /etc holds.
LEMMA BootRunningType ==
  ASSUME etc \in Content
  PROVE  BootRunning \in Running \cup {None}
BY LoadedType, BootSchedType DEF BootRunning

\* A switch by mode loads a scheduler with arguments, whatever the daemon has
\* read.
LEMMA ModeRunningType ==
  ASSUME daemonConfig \in Config \cup {None}, NEW s \in Sched, NEW m \in Mode
  PROVE  ModeRunning(s, m) \in Running
<1>1. DaemonArgs(daemonConfig, s, m) \in ArgList
  BY ArgsForType, ConfigAssumption DEF DaemonArgs
<1>2. QED
  BY <1>1 DEF ModeRunning, Running

-----------------------------------------------------------------------------
\* Type correctness.  TypeOK is inductive by itself: HoldsWhatItUses says what
\* a job carries at each place, so every edit is applied to a configuration.

\* Noting an outcome keeps the type of the history.
LEMMA NoteType ==
  ASSUME log \in [Manager -> Log], NEW w \in Manager, NEW outcome \in Outcome,
         Note(w, outcome)
  PROVE  log' \in [Manager -> Log]
BY DEF Note, Log

\* Noting a swallowed step keeps the type of the history.
LEMMA SwallowedType ==
  ASSUME log \in [Manager -> Log], NEW w \in Manager,
         NEW step \in Steps, Swallowed(w, step)
  PROVE  log' \in [Manager -> Log]
<1>1. [log[w] EXCEPT !.failed = @ \cup {step}] \in Log
  <2>1. log[w] \in Log
    OBVIOUS
  <2>2. log[w].failed \cup {step} \in SUBSET Steps
    BY <2>1 DEF Log
  <2>3. QED
    BY <2>1, <2>2 DEF Log
<1>2. QED
  BY <1>1 DEF Swallowed

\* A query keeps the types and goes to one of its two places.
LEMMA ProbeType ==
  ASSUME log \in [Manager -> Log], NEW w \in Manager, NEW yes, NEW ifYes, NEW ifNo,
         NEW step \in Steps, Probe(w, yes, ifYes, ifNo, step)
  PROVE  /\ log' \in [Manager -> Log]
         /\ pc' = [pc EXCEPT ![w] = ifYes] \/ pc' = [pc EXCEPT ![w] = ifNo]
BY SwallowedType DEF Probe, Goto

\* Beginning a job keeps the type of the history, for the overlapped jobs too.
LEMMA BeginLogType ==
  ASSUME log \in [Manager -> Log], NEW w \in Manager, NEW informed \in BOOLEAN,
         BeginLog(w, informed)
  PROVE  log' \in [Manager -> Log]
<1> DEFINE others == {v \in Manager \ {w} : pc[v] \in Busy}
           fresh == [failed |-> {}, synced |-> mem[w] = Loaded(etc), informed |-> informed,
                     alone |-> others = {}, outcome |-> "busy"]
<1>1. fresh \in Log
  BY DEF Log, Outcome
<1>2. ASSUME NEW v \in Manager PROVE [log[v] EXCEPT !.alone = FALSE] \in Log
  BY DEF Log
<1> HIDE DEF fresh
<1>3. log' = [v \in Manager |-> CASE v = w       -> fresh
                                [] v \in others -> [log[v] EXCEPT !.alone = FALSE]
                                [] OTHER        -> log[v]]
  BY DEF BeginLog, fresh
<1>4. QED
  BY <1>1, <1>2, <1>3

\* A job begins with an empty record of failures, and notes how memory, /etc and
\* the daemon stand and whether another manager is at work.
LEMMA BeginLogFields ==
  ASSUME log \in [Manager -> Log], NEW w \in Manager, NEW informed, BeginLog(w, informed)
  PROVE  /\ log'[w].failed = {}
         /\ log'[w].outcome = "busy"
         /\ log'[w].synced <=> mem[w] = Loaded(etc)
         /\ log'[w].informed = informed
         /\ log'[w].alone <=> \A v \in Manager \ {w} : pc[v] \notin Busy
<1> DEFINE others == {v \in Manager \ {w} : pc[v] \in Busy}
           synced == mem[w] = Loaded(etc)
           alone == others = {}
<1>1. log'[w] = [failed |-> {}, synced |-> synced, informed |-> informed,
                 alone |-> alone, outcome |-> "busy"]
  BY Zenon DEF BeginLog
<1>2. alone <=> \A v \in Manager \ {w} : pc[v] \notin Busy
  OBVIOUS
<1> HIDE DEF synced, alone
<1>3. /\ log'[w].failed = {} /\ log'[w].outcome = "busy"
      /\ log'[w].synced = synced /\ log'[w].informed = informed /\ log'[w].alone = alone
  BY <1>1
<1> USE DEF synced
<1>4. QED
  BY <1>2, <1>3

\* The types hold at first.
LEMMA InitType == Init => TypeOK
<1> SUFFICES ASSUME Init PROVE TypeOK
  OBVIOUS
<1>1. etc \in Content
  BY BridgeAssumption DEF Init
<1>2. asked \subseteq Sched \X Mode \X ArgList
  BY DEF Init, Entries
<1>3. loaderEnabled \in BOOLEAN /\ legacy \in [enabled : BOOLEAN, active : BOOLEAN]
  BY BridgeAssumption DEF Init, Units
<1>4. HoldsWhatItUses
  BY DEF Init, HoldsWhatItUses, Busy, ApplyOnly, AfterParse
<1>5. QED
  BY <1>1, <1>2, <1>3, <1>4 DEF Init, TypeOK, PC, Content, FreshLog, Log, Outcome

\* Every step keeps the types: one step of the proof for each action.
LEMMA NextType == TypeOK /\ [Next]_vars => TypeOK'
<1> SUFFICES ASSUME TypeOK, [Next]_vars PROVE TypeOK'
  OBVIOUS
<1> USE DEF TypeOK, HoldsWhatItUses, PC, Busy, ApplyOnly, AfterParse
<1>1. ASSUME NEW w \in Manager, Start(w) PROVE TypeOK'
  BY <1>1, LoadedType DEF Start, Goto, disk, services, daemon
<1>2. ASSUME NEW w \in Manager, Exit(w) PROVE TypeOK'
  BY <1>2 DEF Exit, Goto, FreshLog, Log, Outcome, disk, services, daemon
<1>3. ASSUME NEW w \in Manager, DismissError(w) PROVE TypeOK'
  BY <1>3 DEF DismissError, Goto, disk, services, daemon
<1>4. ASSUME NEW w \in Manager, BeginApply(w) PROVE TypeOK'
  <2>1. PICK s \in Name, m \in Mode, args \in ArgList :
          /\ job' = [job EXCEPT ![w] = [op |-> "apply", sched |-> s, mode |-> m, args |-> args]]
          /\ asked' = IF s \in Sched THEN asked \cup {<<s, m, args>>} ELSE asked
          /\ BeginLog(w, s \in Sched => Informed(s, m))
    BY <1>4 DEF BeginApply
  <2> DEFINE new == [op |-> "apply", sched |-> s, mode |-> m, args |-> args]
  <2>2. new \in Job /\ new.op = "apply" /\ new # None
    BY BridgeAssumption DEF Job
  <2>3. asked' \subseteq Sched \X Mode \X ArgList
    BY <2>1
  <2>4. log' \in [Manager -> Log]
    <3> DEFINE informed == s \in Sched => Informed(s, m)
    <3>1. informed \in BOOLEAN
      OBVIOUS
    <3>2. BeginLog(w, informed)
      BY <2>1
    <3> HIDE DEF informed
    <3>3. QED
      BY <3>1, <3>2, BeginLogType
  <2>5. job' = [job EXCEPT ![w] = new]
    BY <2>1
  <2> HIDE DEF new
  <2>6. QED
    BY <1>4, <2>2, <2>3, <2>4, <2>5 DEF BeginApply, Goto, disk, services, daemon
<1>5. ASSUME NEW w \in Manager, BeginDisable(w) PROVE TypeOK'
  <2> DEFINE new == [op |-> "disable"]
  <2>1. new \in Job /\ new.op = "disable" /\ new # None
    BY BridgeAssumption DEF Job
  <2>2. job' = [job EXCEPT ![w] = new]
    BY <1>5 DEF BeginDisable
  <2>3. log' \in [Manager -> Log]
    BY <1>5, BeginLogType DEF BeginDisable
  <2> HIDE DEF new
  <2>4. QED
    BY <1>5, <2>1, <2>2, <2>3 DEF BeginDisable, Goto, disk, services, daemon
<1>6. ASSUME NEW w \in Manager, ProbeEnabled(w) PROVE TypeOK'
  BY <1>6, ProbeType DEF ProbeEnabled, Steps, disk, services, daemon
<1>7. ASSUME NEW w \in Manager, DisableLegacy(w) PROVE TypeOK'
  <2>1. log' \in [Manager -> Log]
    BY <1>7, SwallowedType DEF DisableLegacy, Steps
  <2>2. legacy' \in [enabled : BOOLEAN, active : BOOLEAN]
    <3>1. CASE legacy' = [enabled |-> FALSE, active |-> FALSE]
      BY <3>1
    <3>2. CASE UNCHANGED legacy
      BY <3>2
    <3>3. QED
      BY <1>7, <3>1, <3>2 DEF DisableLegacy
  <2>3. QED
    BY <1>7, <2>1, <2>2 DEF DisableLegacy, Goto, disk, services, daemon
<1>8. ASSUME NEW w \in Manager, ProbeActive(w) PROVE TypeOK'
  BY <1>8, ProbeType DEF ProbeActive, Steps, disk, services, daemon
<1>9. ASSUME NEW w \in Manager, StopLegacy(w) PROVE TypeOK'
  BY <1>9, SwallowedType DEF StopLegacy, Steps, Goto, disk, services, daemon
<1>10. ASSUME NEW w \in Manager, RejectSched(w) PROVE TypeOK'
  BY <1>10, NoteType DEF RejectSched, Goto, Report, Outcome, disk, services, daemon
<1>11. ASSUME NEW w \in Manager, Switch(w) PROVE TypeOK'
  BY <1>11, ModeRunningType, SwallowedType DEF Switch, Steps, Goto, Requested, Job, Running, disk, services, daemon
<1>12. ASSUME NEW w \in Manager, ProbeLoader(w) PROVE TypeOK'
  BY <1>12, ProbeType DEF ProbeLoader, Steps, disk, services, daemon
<1>13. ASSUME NEW w \in Manager, EnableLoader(w) PROVE TypeOK'
  BY <1>13, SwallowedType DEF EnableLoader, Steps, Goto, disk, services, daemon
<1>14. ASSUME NEW w \in Manager, Stage(w) PROVE TypeOK'
  <2>1. Edited(w) \in Config
    BY <1>14, AppliedType, DisabledType DEF Stage, Edited, Job
  <2>2. Edited(w) # None
    BY <2>1, ConfigAssumption
  <2>3. log' \in [Manager -> Log]
    BY <1>14, NoteType DEF Stage, Report, Outcome
  <2>4. QED
    BY <1>14, <2>1, <2>2, <2>3 DEF Stage, Goto, Report, Content, disk, services, daemon
<1>15. ASSUME NEW w \in Manager, Write(w) PROVE TypeOK'
  BY <1>15, NoteType DEF Write, Goto, Report, Outcome, Content, disk, services, daemon
<1>16. ASSUME NEW w \in Manager, StopSched(w) PROVE TypeOK'
  BY <1>16, NoteType DEF StopSched, Goto, Report, Outcome, disk, services, daemon
<1>17. ASSUME NEW w \in Manager, Copy(w) PROVE TypeOK'
  BY <1>17, NoteType DEF Copy, Goto, Outcome, Content, disk, services, daemon
<1>18. CASE DaemonStart \/ DaemonReload
  BY <1>18, LoadedType, BootRunningType DEF DaemonStart, DaemonReload, disk, services, daemon
<1>19. CASE DaemonStop
  <2>1. ASSUME NEW w \in Manager
        PROVE  [log[w] EXCEPT !.failed = @ \cup {"switch"}] \in Log
    <3>1. log[w] \in Log
      OBVIOUS
    <3>2. log[w].failed \cup {"switch"} \in SUBSET Steps
      BY <3>1 DEF Log, Steps
    <3>3. QED
      BY <3>1, <3>2 DEF Log
  <2>2. log' \in [Manager -> Log]
    BY <1>19, <2>1 DEF DaemonStop
  <2>3. QED
    BY <1>19, <2>2 DEF DaemonStop, disk, services, daemon
<1>20. CASE Reboot
  BY <1>20, LoadedType, BootRunningType DEF Reboot, FreshLog, Log, Outcome, Content, disk, services, daemon
<1>21. CASE UNCHANGED vars
  BY <1>21 DEF vars, disk, services, daemon
<1>22. QED
  BY <1>1, <1>2, <1>3, <1>4, <1>5, <1>6, <1>7, <1>8, <1>9, <1>10, <1>11, <1>12, <1>13, <1>14, <1>15, <1>16, <1>17, <1>18, <1>19, <1>20, <1>21 DEF Next, JobStep

\* Every state of every behaviour has the types of the fields and locals of the
\* code, and no step uses a configuration or a job that is not there.
THEOREM TypeCorrect == Spec => []TypeOK
BY InitType, NextType, PTL DEF Spec

-----------------------------------------------------------------------------
(***************************************************************************)
(* For any number of managers: how a job leaves the two systemd services,  *)
(* where every argument list comes from, and whose configuration a job     *)
(* installs.  No manager ever undoes another one's work on the services,   *)
(* so each manager's place and the steps it has swallowed tell how they    *)
(* stand.                                                                  *)
(***************************************************************************)

\* How the last job ended, by place: only a job that runs is "busy", only one
\* that ran to its end since the launch has an outcome.
HistoryInv ==
  \A w \in Manager :
    /\ pc[w] \in {"off", "inert"} => log[w].outcome = "none"
    /\ pc[w] \in Busy => log[w].outcome = "busy"
    /\ pc[w] = "error" => log[w].outcome = "reported"

\* An Apply that has passed the switch, or has been installed.
Switched(w) ==
  /\ pc[w] \in {"probeLoader", "enableLoader", "stage", "write", "copy"} \/ Installed(w)
  /\ job[w].op = "apply"

\* An Apply that is done with systemd.
Enabled(w) ==
  /\ pc[w] \in {"stage", "write", "copy"} \/ Installed(w)
  /\ job[w].op = "apply"

LegacyDown == ~legacy.enabled /\ ~legacy.active

ServicesInv ==
  \A w \in Manager :
    /\ pc[w] \in {"probeActive", "stopLegacy"} /\ "legacy" \notin log[w].failed =>
         ~legacy.enabled
    /\ (BeforeSwitch(w) \/ Switched(w)) /\ "legacy" \notin log[w].failed => LegacyDown
    /\ Enabled(w) /\ "enable" \notin log[w].failed => loaderEnabled

-----------------------------------------------------------------------------
\* No manager has a job at first.
LEMMA HistoryInit == Init => HistoryInv
BY DEF Init, HistoryInv, FreshLog, Busy

\* Every step that ends a job records how, and a launch or an exit clears it.
LEMMA HistoryNext == TypeOK /\ HistoryInv /\ [Next]_vars => HistoryInv'
<1> SUFFICES ASSUME TypeOK, HistoryInv, [Next]_vars PROVE HistoryInv'
  OBVIOUS
<1>0. pc \in [Manager -> PC] /\ log \in [Manager -> Log]
  BY DEF TypeOK
<1> USE <1>0 DEF HistoryInv, Busy, Log, Goto, Note, Swallowed, Report
<1>1. ASSUME NEW w \in Manager, Start(w) PROVE HistoryInv'
  BY <1>1 DEF Start
<1>2. ASSUME NEW w \in Manager, Exit(w) PROVE HistoryInv'
  BY <1>2 DEF Exit, FreshLog
<1>3. ASSUME NEW w \in Manager, DismissError(w) PROVE HistoryInv'
  BY <1>3 DEF DismissError
<1>4. ASSUME NEW w \in Manager, BeginApply(w) \/ BeginDisable(w) PROVE HistoryInv'
  BY <1>4 DEF BeginApply, BeginDisable, BeginLog
<1>5. ASSUME NEW w \in Manager, ProbeEnabled(w) \/ ProbeActive(w) \/ ProbeLoader(w)
      PROVE  HistoryInv'
  BY <1>5 DEF ProbeEnabled, ProbeActive, ProbeLoader, Probe
<1>6. ASSUME NEW w \in Manager, DisableLegacy(w) \/ StopLegacy(w) \/ EnableLoader(w)
      PROVE  HistoryInv'
  BY <1>6 DEF DisableLegacy, StopLegacy, EnableLoader
<1>7. ASSUME NEW w \in Manager, RejectSched(w) PROVE HistoryInv'
  BY <1>7 DEF RejectSched
<1>8. ASSUME NEW w \in Manager, Switch(w) PROVE HistoryInv'
  BY <1>8 DEF Switch
<1>9. ASSUME NEW w \in Manager, Stage(w) \/ Write(w) PROVE HistoryInv'
  BY <1>9 DEF Stage, Write
<1>10. ASSUME NEW w \in Manager, StopSched(w) \/ Copy(w) PROVE HistoryInv'
  BY <1>10 DEF StopSched, Copy
<1>11. CASE DaemonStart \/ DaemonReload
  BY <1>11 DEF DaemonStart, DaemonReload
<1>12. CASE DaemonStop
  BY <1>12 DEF DaemonStop
<1>13. CASE Reboot
  BY <1>13 DEF Reboot, FreshLog
<1>14. CASE UNCHANGED vars
  BY <1>14 DEF vars
<1>15. QED
  BY <1>1, <1>2, <1>3, <1>4, <1>5, <1>6, <1>7, <1>8, <1>9, <1>10, <1>11, <1>12, <1>13, <1>14 DEF Next, JobStep

-----------------------------------------------------------------------------
\* No manager is at work at first, and nothing is claimed of the units.
LEMMA ServicesInit == Init => ServicesInv
BY DEF Init, ServicesInv, BeforeSwitch, Switched, Enabled, Installed, Idle, FreshLog

\* No step raises the legacy service or disables the loader, but for a reboot,
\* which ends every job.
LEMMA ServicesNext == TypeOK /\ HistoryInv /\ ServicesInv /\ [Next]_vars => ServicesInv'
<1> SUFFICES ASSUME TypeOK, HistoryInv, ServicesInv, [Next]_vars PROVE ServicesInv'
  OBVIOUS
<1>0. /\ pc \in [Manager -> PC] /\ log \in [Manager -> Log]
      /\ job \in [Manager -> Job \cup {None}]
      /\ legacy \in [enabled : BOOLEAN, active : BOOLEAN]
  BY DEF TypeOK
<1> USE <1>0 DEF ServicesInv, BeforeSwitch, Switched, Enabled, Installed, Idle, LegacyDown,
                 Log, Goto, Note, Swallowed, Report, services, daemon, disk
<1>1. ASSUME NEW w \in Manager, Start(w) PROVE ServicesInv'
  BY <1>1 DEF Start, HistoryInv
<1>2. ASSUME NEW w \in Manager, Exit(w) PROVE ServicesInv'
  BY <1>2 DEF Exit, FreshLog
<1>3. ASSUME NEW w \in Manager, DismissError(w) PROVE ServicesInv'
  BY <1>3 DEF DismissError, HistoryInv
<1>4. ASSUME NEW w \in Manager, BeginApply(w) PROVE ServicesInv'
  BY <1>4 DEF BeginApply, BeginLog
<1>5. ASSUME NEW w \in Manager, BeginDisable(w) PROVE ServicesInv'
  <2>1. job'[w].op = "disable"
    BY <1>5 DEF BeginDisable
  <2>2. QED
    BY <1>5, <2>1 DEF BeginDisable, BeginLog
<1>6. ASSUME NEW w \in Manager, ProbeEnabled(w) PROVE ServicesInv'
  BY <1>6 DEF ProbeEnabled, Probe
<1>7. ASSUME NEW w \in Manager, DisableLegacy(w) PROVE ServicesInv'
  BY <1>7 DEF DisableLegacy
<1>8. ASSUME NEW w \in Manager, ProbeActive(w) PROVE ServicesInv'
  BY <1>8 DEF ProbeActive, Probe
<1>9. ASSUME NEW w \in Manager, StopLegacy(w) PROVE ServicesInv'
  BY <1>9 DEF StopLegacy
<1>10. ASSUME NEW w \in Manager, RejectSched(w) PROVE ServicesInv'
  BY <1>10 DEF RejectSched
<1>11. ASSUME NEW w \in Manager, Switch(w) PROVE ServicesInv'
  BY <1>11 DEF Switch
<1>12. ASSUME NEW w \in Manager, ProbeLoader(w) PROVE ServicesInv'
  BY <1>12 DEF ProbeLoader, Probe
<1>13. ASSUME NEW w \in Manager, EnableLoader(w) PROVE ServicesInv'
  BY <1>13 DEF EnableLoader
<1>14. ASSUME NEW w \in Manager, Stage(w) PROVE ServicesInv'
  BY <1>14 DEF Stage
<1>15. ASSUME NEW w \in Manager, Write(w) PROVE ServicesInv'
  BY <1>15 DEF Write
<1>16. ASSUME NEW w \in Manager, StopSched(w) PROVE ServicesInv'
  <2>1. job[w].op = "disable"
    BY <1>16 DEF StopSched, TypeOK, HoldsWhatItUses
  <2>2. QED
    BY <1>16, <2>1 DEF StopSched
<1>17. ASSUME NEW w \in Manager, Copy(w) PROVE ServicesInv'
  BY <1>17 DEF Copy
<1>18. CASE DaemonStart \/ DaemonReload
  BY <1>18 DEF DaemonStart, DaemonReload
<1>19. CASE DaemonStop
  BY <1>19 DEF DaemonStop
<1>20. CASE Reboot
  BY <1>20 DEF Reboot, FreshLog
<1>21. CASE UNCHANGED vars
  BY <1>21 DEF vars
<1>22. QED
  BY <1>1, <1>2, <1>3, <1>4, <1>5, <1>6, <1>7, <1>8, <1>9, <1>10, <1>11, <1>12, <1>13, <1>14, <1>15, <1>16, <1>17, <1>18, <1>19, <1>20, <1>21 DEF Next, JobStep

\* What both theorems below rest on.
LEMMA ServicesAlways == Spec => [](TypeOK /\ HistoryInv /\ ServicesInv)
BY InitType, NextType, HistoryInit, HistoryNext, ServicesInit, ServicesNext, PTL DEF Spec

-----------------------------------------------------------------------------
\* Whenever a manager asks the daemon to switch, the legacy service is neither
\* enabled nor active, unless systemctl was refused in that very job.
THEOREM LegacyDownBeforeSwitch == Spec => []LegacyDownUnlessRefused
<1>1. ServicesInv => LegacyDownUnlessRefused
  BY DEF ServicesInv, LegacyDownUnlessRefused, LegacyDown
<1>2. QED
  BY ServicesAlways, <1>1, PTL

\* After an installed Apply scx_loader is enabled and the legacy service down,
\* as far as systemctl obeyed that job, whatever other managers do.
THEOREM InstalledHandsOverBoot == Spec => []BootHandedOver
<1>1. ServicesInv => BootHandedOver
  BY DEF ServicesInv, BootHandedOver, Switched, Enabled, LegacyDown
<1>2. QED
  BY ServicesAlways, <1>1, PTL

-----------------------------------------------------------------------------
\* The job's own argument list has been asked for, and so has every list of a
\* fresh configuration: nothing an edit or a launch brings in is new.
AskedInv ==
  /\ OnlyRequestedArgs
  /\ Entries(DefaultConfig) \subseteq asked
  /\ \A w \in Manager :
       pc[w] \in Busy /\ job[w].op = "apply" /\ job[w].sched \in Sched =>
         <<job[w].sched, job[w].mode, job[w].args>> \in asked

\* A job that nobody's job has overlapped still has the staging file to itself.
OwnInv ==
  \A w \in Manager : pc[w] \in Busy /\ log[w].alone =>
    /\ \A v \in Manager \ {w} : pc[v] \notin Busy
    /\ pc[w] = "write" => tmp = Empty
    /\ pc[w] \in {"stopSched", "copy"} => tmp = mem[w]

-----------------------------------------------------------------------------
\* A launch brings in what the file has, or what the crate has.
LEMMA LoadedEntries ==
  ASSUME NEW content \in Content, Loaded(content) # None
  PROVE  \/ content \in Config /\ Loaded(content) = content
         \/ Entries(Loaded(content)) \subseteq Entries(DefaultConfig)
BY BlankEntries, BridgeAssumption DEF Loaded, Content

-----------------------------------------------------------------------------
\* The first file and the crate's own configuration count as asked for.
LEMMA AskedInit == Init => AskedInv
<1> SUFFICES ASSUME Init PROVE AskedInv
  OBVIOUS
<1>1. Entries(DefaultConfig) \subseteq asked
  BY DEF Init
<1>2. \A w \in Manager : mem[w] = None /\ pc[w] \notin Busy
  BY DEF Init, Busy
<1>3. etc \in Config => Entries(etc) \subseteq asked
  <2>1. etc \in Config => Loaded(etc) = etc /\ etc # None
    BY ConfigAssumption, BridgeAssumption DEF Loaded
  <2>2. QED
    BY <2>1 DEF Init
<1>4. tmp \notin Config
  BY ConfigAssumption DEF Init
<1>5. QED
  BY <1>1, <1>2, <1>3, <1>4 DEF AskedInv, OnlyRequestedArgs

\* Only an Apply adds an entry, its own; every other step moves configurations
\* from one place to another.
LEMMA AskedNext == TypeOK /\ AskedInv /\ [Next]_vars => AskedInv'
<1> SUFFICES ASSUME TypeOK, AskedInv, [Next]_vars PROVE AskedInv'
  OBVIOUS
<1>0. /\ pc \in [Manager -> PC] /\ mem \in [Manager -> Config \cup {None}]
      /\ job \in [Manager -> Job \cup {None}] /\ tmp \in Content /\ etc \in Content
      /\ Empty \notin Config /\ Garbled \notin Config /\ None \notin Config
  BY ConfigAssumption, BridgeAssumption DEF TypeOK
<1> USE <1>0 DEF AskedInv, OnlyRequestedArgs, Goto, Busy, disk, services, daemon
<1>1. ASSUME NEW w \in Manager, Start(w) PROVE AskedInv'
  <2>1. mem'[w] # None => Entries(mem'[w]) \subseteq asked
    BY <1>1, LoadedEntries DEF Start
  <2>2. QED
    BY <1>1, <2>1 DEF Start
<1>2. ASSUME NEW w \in Manager, Exit(w) PROVE AskedInv'
  BY <1>2 DEF Exit
<1>3. ASSUME NEW w \in Manager, DismissError(w) PROVE AskedInv'
  BY <1>3 DEF DismissError
<1>4. ASSUME NEW w \in Manager, BeginApply(w) PROVE AskedInv'
  <2>1. PICK s \in Name, m \in Mode, args \in ArgList :
          /\ job' = [job EXCEPT ![w] = [op |-> "apply", sched |-> s, mode |-> m, args |-> args]]
          /\ asked' = IF s \in Sched THEN asked \cup {<<s, m, args>>} ELSE asked
    BY <1>4 DEF BeginApply
  <2>2. asked \subseteq asked'
    BY <2>1
  <2>3. job'[w].sched \in Sched => <<job'[w].sched, job'[w].mode, job'[w].args>> \in asked'
    BY <2>1
  <2>4. QED
    BY <1>4, <2>1, <2>2, <2>3 DEF BeginApply
<1>5. ASSUME NEW w \in Manager, BeginDisable(w) PROVE AskedInv'
  <2>1. job'[w].op = "disable"
    BY <1>5 DEF BeginDisable
  <2>2. QED
    BY <1>5, <2>1 DEF BeginDisable
<1>6. ASSUME NEW w \in Manager, ProbeEnabled(w) \/ ProbeActive(w) \/ ProbeLoader(w)
      PROVE  AskedInv'
  BY <1>6 DEF ProbeEnabled, ProbeActive, ProbeLoader, Probe
<1>7. ASSUME NEW w \in Manager, DisableLegacy(w) \/ StopLegacy(w) \/ EnableLoader(w)
      PROVE  AskedInv'
  BY <1>7 DEF DisableLegacy, StopLegacy, EnableLoader
<1>8. ASSUME NEW w \in Manager, RejectSched(w) PROVE AskedInv'
  BY <1>8 DEF RejectSched, Report
<1>9. ASSUME NEW w \in Manager, Switch(w) PROVE AskedInv'
  BY <1>9 DEF Switch
<1>10. ASSUME NEW w \in Manager, Stage(w) PROVE AskedInv'
  <2>1. mem[w] \in Config /\ job[w] \in Job /\ Entries(mem[w]) \subseteq asked
    BY <1>10 DEF Stage, TypeOK, HoldsWhatItUses
  <2>2. CASE job[w].op = "disable"
    <3>1. Entries(Edited(w)) \subseteq asked
      BY <2>1, <2>2, DisabledEntries DEF Edited
    <3>2. QED
      BY <1>10, <3>1 DEF Stage, Report
  <2>3. CASE job[w].op # "disable"
    <3>1. /\ job[w].op = "apply" /\ job[w].sched \in Sched
          /\ job[w].mode \in Mode /\ job[w].args \in ArgList
      BY <1>10, <2>1, <2>3 DEF Stage, TypeOK, HoldsWhatItUses, AfterParse, Job
    <3>2. Entries(Edited(w)) \subseteq
            Entries(mem[w]) \cup {<<job[w].sched, job[w].mode, job[w].args>>}
      BY <2>1, <2>3, <3>1, AppliedEntries DEF Edited
    <3>3. <<job[w].sched, job[w].mode, job[w].args>> \in asked
      BY <1>10, <3>1 DEF Stage
    <3>4. Entries(Edited(w)) \subseteq asked
      BY <2>1, <3>2, <3>3
    <3>5. QED
      BY <1>10, <3>4 DEF Stage, Report
  <2>4. QED
    BY <2>2, <2>3
<1>11. ASSUME NEW w \in Manager, Write(w) PROVE AskedInv'
  <2>1. tmp' \in {mem[w], tmp, Garbled} /\ mem[w] # None
    BY <1>11 DEF Write, TypeOK, HoldsWhatItUses
  <2>2. tmp' \in Config => Entries(tmp') \subseteq asked
    BY <2>1
  <2>3. QED
    BY <1>11, <2>2 DEF Write, Report
<1>12. ASSUME NEW w \in Manager, StopSched(w) PROVE AskedInv'
  BY <1>12 DEF StopSched, Report
<1>13. ASSUME NEW w \in Manager, Copy(w) PROVE AskedInv'
  BY <1>13 DEF Copy
<1>14. CASE DaemonStart \/ DaemonReload \/ DaemonStop
  BY <1>14 DEF DaemonStart, DaemonReload, DaemonStop
<1>15. CASE Reboot
  BY <1>15 DEF Reboot
<1>16. CASE UNCHANGED vars
  BY <1>16 DEF vars
<1>17. QED
  BY <1>1, <1>2, <1>3, <1>4, <1>5, <1>6, <1>7, <1>8, <1>9, <1>10, <1>11, <1>12, <1>13, <1>14, <1>15, <1>16 DEF Next, JobStep

\* However many applications, failures and restarts: every argument list in a
\* memory, the staging file or /etc was in the first file, is one of the
\* crate's, or was typed for that scheduler and that profile.
THEOREM ArgumentsAreRequested == Spec => []OnlyRequestedArgs
<1>1. AskedInv => OnlyRequestedArgs
  BY DEF AskedInv
<1>2. QED
  BY InitType, NextType, AskedInit, AskedNext, <1>1, PTL DEF Spec

-----------------------------------------------------------------------------
\* No manager is at work at first.
LEMMA OwnInit == Init => OwnInv
BY DEF Init, OwnInv, Busy

\* Whoever begins a job takes the staging file from all jobs that run, and is
\* not alone either.
LEMMA OwnNext == TypeOK /\ OwnInv /\ [Next]_vars => OwnInv'
<1> SUFFICES ASSUME TypeOK, OwnInv, [Next]_vars PROVE OwnInv'
  OBVIOUS
<1>0. /\ pc \in [Manager -> PC] /\ mem \in [Manager -> Config \cup {None}]
      /\ log \in [Manager -> Log]
  BY DEF TypeOK
<1> USE <1>0 DEF OwnInv, Goto, Busy, Log, Note, Swallowed, Report, disk, services, daemon
<1>1. ASSUME NEW w \in Manager, Start(w) PROVE OwnInv'
  BY <1>1 DEF Start
<1>2. ASSUME NEW w \in Manager, Exit(w) PROVE OwnInv'
  BY <1>2 DEF Exit
<1>3. ASSUME NEW w \in Manager, DismissError(w) PROVE OwnInv'
  BY <1>3 DEF DismissError
<1>4. ASSUME NEW w \in Manager, BeginApply(w) \/ BeginDisable(w) PROVE OwnInv'
  <2>1. \A v \in Manager : pc'[v] = IF v = w THEN pc'[w] ELSE pc[v]
    BY <1>4 DEF BeginApply, BeginDisable
  <2>2. pc'[w] \in {"probeEnabled", "stage"} /\ UNCHANGED <<tmp, mem>>
    BY <1>4 DEF BeginApply, BeginDisable
  <2>3. log'[w].alone => \A v \in Manager \ {w} : pc[v] \notin Busy
    BY <1>4, BeginLogFields DEF BeginApply, BeginDisable
  <2>4. \A v \in Manager \ {w} : pc[v] \in Busy => ~log'[v].alone
    BY <1>4 DEF BeginApply, BeginDisable, BeginLog
  <2>5. QED
    BY <2>1, <2>2, <2>3, <2>4
<1>5. ASSUME NEW w \in Manager, ProbeEnabled(w) \/ ProbeActive(w) \/ ProbeLoader(w)
      PROVE  OwnInv'
  BY <1>5 DEF ProbeEnabled, ProbeActive, ProbeLoader, Probe
<1>6. ASSUME NEW w \in Manager, DisableLegacy(w) \/ StopLegacy(w) \/ EnableLoader(w)
      PROVE  OwnInv'
  BY <1>6 DEF DisableLegacy, StopLegacy, EnableLoader
<1>7. ASSUME NEW w \in Manager, RejectSched(w) \/ Switch(w) PROVE OwnInv'
  BY <1>7 DEF RejectSched, Switch
<1>8. ASSUME NEW w \in Manager, Stage(w) PROVE OwnInv'
  BY <1>8 DEF Stage
<1>9. ASSUME NEW w \in Manager, Write(w) PROVE OwnInv'
  BY <1>9 DEF Write
<1>10. ASSUME NEW w \in Manager, StopSched(w) \/ Copy(w) PROVE OwnInv'
  BY <1>10 DEF StopSched, Copy
<1>11. CASE DaemonStart \/ DaemonReload \/ DaemonStop
  BY <1>11 DEF DaemonStart, DaemonReload, DaemonStop
<1>12. CASE Reboot
  BY <1>12 DEF Reboot
<1>13. CASE UNCHANGED vars
  BY <1>13 DEF vars
<1>14. QED
  BY <1>1, <1>2, <1>3, <1>4, <1>5, <1>6, <1>7, <1>8, <1>9, <1>10, <1>11, <1>12, <1>13 DEF Next, JobStep

\* An installation that no other application's job overlaps puts the manager's
\* own configuration into /etc; with overlaps it need not (InstallsOwnConfig).
THEOREM AloneInstallsOwn == Spec => InstallsOwnConfigAlone
<1>1. OwnInv /\ [Next]_vars =>
        [\A w \in Manager : Copy(w) /\ etc' # etc /\ log[w].alone => etc' = mem[w]]_vars
  BY DEF OwnInv, Copy, Note, Busy
<1>2. QED
  BY InitType, NextType, OwnInit, OwnNext, <1>1, PTL DEF Spec, InstallsOwnConfigAlone

-----------------------------------------------------------------------------
\* A job that began in agreement with /etc and that nobody's job overlaps is
\* still in agreement when it edits, and afterwards only its own entry differs.
KeptInv ==
  \A w \in Manager : pc[w] \in Busy /\ log[w].alone /\ log[w].synced =>
    /\ pc[w] \notin {"write", "stopSched", "copy"} => mem[w] = Loaded(etc)
    /\ pc[w] \in {"write", "stopSched", "copy"} => KeptBut(job[w], Loaded(etc), mem[w])

\* No manager is at work at first.
LEMMA KeptInit == Init => KeptInv
BY DEF Init, KeptInv, Busy

\* The edit of a job touches its own entry at most.
LEMMA EditKeeps ==
  ASSUME TypeOK, NEW w \in Manager, pc[w] = "stage"
  PROVE  KeptBut(job[w], mem[w], Edited(w))
<1>1. mem[w] \in Config /\ job[w] \in Job
  BY DEF TypeOK, HoldsWhatItUses, Busy
<1>2. CASE job[w].op = "disable"
  <2>1. Edited(w).scheds = mem[w].scheds
    BY <1>1, <1>2 DEF Edited, Disabled, Config
  <2>2. QED
    BY <2>1 DEF KeptBut
<1>3. CASE job[w].op # "disable"
  <2>1. job[w].op = "apply"
    BY <1>1, <1>3 DEF Job
  <2>2. ASSUME NEW p \in Sched \X Mode, p # <<job[w].sched, job[w].mode>>
        PROVE  Edited(w).scheds[p] = mem[w].scheds[p]
    BY <1>1, <1>3, <2>2 DEF Edited, Applied, WithArgs, WithDefault, Config
  <2>3. QED
    BY <2>1, <2>2 DEF KeptBut
<1>4. QED
  BY <1>2, <1>3

\* Only a copy changes /etc, and whoever copies is at work.
LEMMA KeptNext == TypeOK /\ OwnInv /\ KeptInv /\ [Next]_vars => KeptInv'
<1> SUFFICES ASSUME TypeOK, OwnInv, KeptInv, [Next]_vars PROVE KeptInv'
  OBVIOUS
<1>0. /\ pc \in [Manager -> PC] /\ mem \in [Manager -> Config \cup {None}]
      /\ log \in [Manager -> Log] /\ job \in [Manager -> Job \cup {None}]
  BY DEF TypeOK
<1> USE <1>0 DEF KeptInv, Goto, Log, Note, Swallowed, Report, disk, services, daemon, Loaded, KeptBut
<1>1. ASSUME NEW w \in Manager, Start(w) PROVE KeptInv'
  BY <1>1 DEF Start, Busy
<1>2. ASSUME NEW w \in Manager, Exit(w) PROVE KeptInv'
  BY <1>2 DEF Exit, Busy
<1>3. ASSUME NEW w \in Manager, DismissError(w) PROVE KeptInv'
  BY <1>3 DEF DismissError, Busy
<1>4. ASSUME NEW w \in Manager, BeginApply(w) \/ BeginDisable(w) PROVE KeptInv'
  <2>1. /\ \A v \in Manager \ {w} : pc'[v] = pc[v] /\ job'[v] = job[v]
        /\ pc'[w] \in {"probeEnabled", "stage"} /\ UNCHANGED <<etc, mem>>
    BY <1>4 DEF BeginApply, BeginDisable
  <2>2. log'[w].synced => mem[w] = Loaded(etc)
    BY <1>4, BeginLogFields DEF BeginApply, BeginDisable
  <2>3. \A v \in Manager \ {w} : pc[v] \in Busy => ~log'[v].alone
    BY <1>4 DEF BeginApply, BeginDisable, BeginLog
  <2>4. QED
    BY <2>1, <2>2, <2>3
<1>5. ASSUME NEW w \in Manager, ProbeEnabled(w) \/ ProbeActive(w) \/ ProbeLoader(w)
      PROVE  KeptInv'
  BY <1>5 DEF ProbeEnabled, ProbeActive, ProbeLoader, Probe, Busy
<1>6. ASSUME NEW w \in Manager, DisableLegacy(w) \/ StopLegacy(w) \/ EnableLoader(w)
      PROVE  KeptInv'
  BY <1>6 DEF DisableLegacy, StopLegacy, EnableLoader, Busy
<1>7. ASSUME NEW w \in Manager, RejectSched(w) \/ Switch(w) PROVE KeptInv'
  BY <1>7 DEF RejectSched, Switch, Busy
<1>8. ASSUME NEW w \in Manager, Stage(w) PROVE KeptInv'
  <2>1. KeptBut(job[w], mem[w], Edited(w))
    BY <1>8, EditKeeps DEF Stage
  <2>2. QED
    BY <1>8, <2>1 DEF Stage, Busy
<1>9. ASSUME NEW w \in Manager, Write(w) \/ StopSched(w) PROVE KeptInv'
  BY <1>9 DEF Write, StopSched, Busy
<1>10. ASSUME NEW w \in Manager, Copy(w) PROVE KeptInv'
  <2>1. \A v \in Manager \ {w} : pc[v] \in Busy => ~log[v].alone
    BY <1>10 DEF Copy, OwnInv, Busy
  <2>2. /\ \A v \in Manager \ {w} : pc'[v] = pc[v] /\ log'[v] = log[v]
        /\ pc'[w] = "idle"
    BY <1>10 DEF Copy
  <2>3. QED
    BY <2>1, <2>2 DEF Busy
<1>11. CASE DaemonStart \/ DaemonReload \/ DaemonStop
  BY <1>11 DEF DaemonStart, DaemonReload, DaemonStop
<1>12. CASE Reboot
  BY <1>12 DEF Reboot, Busy
<1>13. CASE UNCHANGED vars
  BY <1>13 DEF vars
<1>14. QED
  BY <1>1, <1>2, <1>3, <1>4, <1>5, <1>6, <1>7, <1>8, <1>9, <1>10, <1>11, <1>12, <1>13 DEF Next, JobStep

\* However many applications there are: a job that began with memory and /etc in
\* agreement and that no other job overlaps loses nobody's stored arguments.
THEOREM OthersKept == Spec => OthersArgsKept
<1>1. TypeOK /\ OwnInv /\ KeptInv /\ [Next]_vars =>
        [\A w \in Manager :
           Copy(w) /\ etc' # etc /\ log[w].alone /\ log[w].synced =>
             KeptBut(job[w], Loaded(etc), Loaded(etc'))]_vars
  <2> SUFFICES ASSUME TypeOK, OwnInv, KeptInv, NEW w \in Manager,
                      Copy(w), etc' # etc, log[w].alone, log[w].synced
               PROVE  KeptBut(job[w], Loaded(etc), Loaded(etc'))
    OBVIOUS
  <2>1. etc' = mem[w] /\ KeptBut(job[w], Loaded(etc), mem[w])
    BY DEF OwnInv, KeptInv, Copy, Note, Busy
  <2>2. mem[w] \in Config
    BY DEF TypeOK, HoldsWhatItUses, Copy, Busy
  <2>3. Loaded(etc') = mem[w]
    BY <2>1, <2>2, ConfigAssumption, BridgeAssumption DEF Loaded
  <2>4. QED
    BY <2>1, <2>3
<1>2. QED
  BY InitType, NextType, OwnInit, OwnNext, KeptInit, KeptNext, <1>1, PTL
     DEF Spec, OthersArgsKept

-----------------------------------------------------------------------------
\* The scheduler and arguments of an Apply.
Wanted(w) == [sched |-> job[w].sched, args |-> job[w].args]

\* The memory resolves to what the job asks for.
EditMade(w) ==
  IF job[w].op = "disable" THEN mem[w].default_sched = None
  ELSE /\ mem[w].default_sched = job[w].sched
       /\ mem[w].default_mode = job[w].mode
       /\ ArgsFor(mem[w], job[w].sched, job[w].mode) = job[w].args

\* A configuration is read back as it was saved.
LEMMA LoadedConfig ==
  ASSUME NEW cfg \in Config
  PROVE  Loaded(cfg) = cfg /\ Loaded(cfg) # None
BY ConfigAssumption, BridgeAssumption DEF Loaded

\* The edit of a job gives a configuration that resolves to what it asks for.
LEMMA EditedMakes ==
  ASSUME TypeOK, NEW w \in Manager, Stage(w)
  PROVE  /\ Edited(w) \in Config
         /\ mem' = [mem EXCEPT ![w] = Edited(w)]
         /\ EditMade(w)'
<1>1. mem[w] \in Config /\ job[w] \in Job /\ mem' = [mem EXCEPT ![w] = Edited(w)] /\ job' = job
  BY DEF Stage, TypeOK, HoldsWhatItUses, Busy
<1>2. mem'[w] = Edited(w)
  BY <1>1 DEF TypeOK
<1>3. CASE job[w].op = "disable"
  <2>1. Edited(w) \in Config /\ Edited(w).default_sched = None
    BY <1>1, <1>3, DisabledType DEF Edited, Disabled, Config
  <2>2. QED
    BY <1>1, <1>2, <1>3, <2>1 DEF EditMade
<1>4. CASE job[w].op # "disable"
  <2>1. /\ job[w].op = "apply" /\ job[w].sched \in Sched
        /\ job[w].mode \in Mode /\ job[w].args \in ArgList
    BY <1>1, <1>4 DEF Stage, TypeOK, HoldsWhatItUses, AfterParse, Job
  <2>2. Edited(w) = Applied(mem[w], job[w].sched, job[w].mode, job[w].args)
    BY <1>4 DEF Edited
  <2>3. Edited(w) \in Config
    BY <1>1, <2>1, <2>2, AppliedType
  <2>4. /\ Edited(w).default_sched = job[w].sched
        /\ Edited(w).default_mode = job[w].mode
        /\ ArgsFor(Edited(w), job[w].sched, job[w].mode) = job[w].args
    BY <1>1, <2>1, <2>2, AppliedResolves
  <2>5. QED
    BY <1>1, <1>2, <1>4, <2>3, <2>4 DEF EditMade
<1>5. QED
  BY <1>3, <1>4

\* A configuration that resolves to what the job asked for boots with it.
LEMMA EditBoots ==
  ASSUME TypeOK, NEW w \in Manager, EditMade(w), job[w] # None,
         job[w].op = "apply" => job[w].sched \in Sched
  PROVE  BootSched(mem[w]) = BootAsked(w)
<1>1. CASE job[w].op = "disable"
  BY <1>1 DEF EditMade, BootSched, BootAsked
<1>2. CASE job[w].op # "disable"
  <2>1. job[w] \in Job
    BY DEF TypeOK
  <2>2. job[w].sched \in Sched /\ job[w].mode \in Mode
    BY <1>2, <2>1 DEF Job
  <2>3. job[w].sched # None /\ job[w].mode # None
    BY <2>2, ConfigAssumption
  <2>4. QED
    BY <1>2, <2>3 DEF EditMade, BootSched, BootAsked
<1>3. QED
  BY <1>1, <1>2

\* From the edit to the copy, every manager's memory resolves to what its job
\* asks for, however many jobs overlap: each edits a memory of its own.
MadeInv ==
  \A w \in Manager : pc[w] \in {"write", "stopSched", "copy"} => EditMade(w)

\* No manager is at work at first.
LEMMA MadeInit == Init => MadeInv
BY DEF Init, MadeInv

\* Only its own steps change what a manager has in memory and what it is asked.
LEMMA MadeNext == TypeOK /\ MadeInv /\ [Next]_vars => MadeInv'
<1> SUFFICES ASSUME TypeOK, MadeInv, [Next]_vars PROVE MadeInv'
  OBVIOUS
<1>0. /\ pc \in [Manager -> PC] /\ mem \in [Manager -> Config \cup {None}]
      /\ job \in [Manager -> Job \cup {None}]
  BY DEF TypeOK
<1> USE <1>0 DEF MadeInv, Goto, Report, disk, services, daemon
<1>1. ASSUME NEW w \in Manager, Start(w) PROVE MadeInv'
  BY <1>1 DEF Start, EditMade
<1>2. ASSUME NEW w \in Manager, Exit(w) PROVE MadeInv'
  BY <1>2 DEF Exit, EditMade
<1>3. ASSUME NEW w \in Manager, DismissError(w) PROVE MadeInv'
  BY <1>3 DEF DismissError, EditMade
<1>4. ASSUME NEW w \in Manager, BeginApply(w) \/ BeginDisable(w) PROVE MadeInv'
  BY <1>4 DEF BeginApply, BeginDisable, EditMade
<1>5. ASSUME NEW w \in Manager, ProbeEnabled(w) \/ ProbeActive(w) \/ ProbeLoader(w)
      PROVE  MadeInv'
  BY <1>5 DEF ProbeEnabled, ProbeActive, ProbeLoader, Probe, EditMade
<1>6. ASSUME NEW w \in Manager, DisableLegacy(w) \/ StopLegacy(w) \/ EnableLoader(w)
      PROVE  MadeInv'
  BY <1>6 DEF DisableLegacy, StopLegacy, EnableLoader, EditMade
<1>7. ASSUME NEW w \in Manager, RejectSched(w) \/ Switch(w) PROVE MadeInv'
  BY <1>7 DEF RejectSched, Switch, EditMade
<1>8. ASSUME NEW w \in Manager, Stage(w) PROVE MadeInv'
  <2>1. EditMade(w)'
    BY <1>8, EditedMakes
  <2>2. \A v \in Manager \ {w} : pc'[v] = pc[v] /\ mem'[v] = mem[v] /\ job'[v] = job[v]
    BY <1>8 DEF Stage
  <2>3. QED
    BY <2>1, <2>2 DEF EditMade
<1>9. ASSUME NEW w \in Manager, Write(w) \/ StopSched(w) \/ Copy(w) PROVE MadeInv'
  BY <1>9 DEF Write, StopSched, Copy, EditMade
<1>10. CASE DaemonStart \/ DaemonReload \/ DaemonStop
  BY <1>10 DEF DaemonStart, DaemonReload, DaemonStop, EditMade
<1>11. CASE Reboot
  BY <1>11 DEF Reboot
<1>12. CASE UNCHANGED vars
  BY <1>12 DEF vars, EditMade
<1>13. QED
  BY <1>1, <1>2, <1>3, <1>4, <1>5, <1>6, <1>7, <1>8, <1>9, <1>10, <1>11, <1>12 DEF Next, JobStep

\* The copy of a job that nobody overlaps installs what the job asks for.
LEMMA CopyBoots ==
  ASSUME TypeOK, OwnInv, MadeInv, NEW w \in Manager,
         Copy(w), log'[w].outcome = "installed", log[w].alone
  PROVE  BootRunning' = BootAsked(w)
<1>1. /\ pc[w] = "copy" /\ mem[w] \in Config /\ job[w] \in Job /\ job[w] # None
      /\ job[w].op = "apply" => job[w].sched \in Sched
  BY DEF Copy, TypeOK, HoldsWhatItUses, Busy, AfterParse
<1>2. etc' = mem[w]
  <2>1. tmp = mem[w]
    BY <1>1 DEF OwnInv, Busy
  <2>2. log'[w].outcome = "silent" \/ etc' = tmp
    BY DEF Copy, Note, TypeOK, Log
  <2>3. QED
    BY <2>1, <2>2
<1>3. BootRunning' = BootSched(mem[w])
  BY <1>1, <1>2, LoadedConfig DEF BootRunning, Loaded
<1>4. EditMade(w)
  BY <1>1 DEF MadeInv
<1>5. QED
  BY <1>1, <1>3, <1>4, EditBoots

\* However many applications there are, whatever they left behind and however
\* old a manager's memory is: an approved copy of a job that no other job
\* overlaps makes the machine boot with exactly what it asks for, though the
\* arguments are stored only when they differ from the memory (lib.rs:230-247).
THEOREM AloneBoots == Spec => AloneBootsAsRequested
<1>1. TypeOK /\ OwnInv /\ MadeInv /\ [Next]_vars =>
        [\A w \in Manager :
           Copy(w) /\ log'[w].outcome = "installed" /\ log[w].alone =>
             BootRunning' = BootAsked(w)]_vars
  BY CopyBoots
<1>2. QED
  BY InitType, NextType, OwnInit, OwnNext, MadeInit, MadeNext, <1>1, PTL
     DEF Spec, AloneBootsAsRequested

-----------------------------------------------------------------------------
\* How many more steps a job takes at most.
StepsLeft ==
  [probeEnabled |-> 10, disableLegacy |-> 9, probeActive |-> 9, stopLegacy |-> 8,
   switch |-> 7, probeLoader |-> 6, enableLoader |-> 5, stage |-> 4, write |-> 3,
   stopSched |-> 2, copy |-> 1]

\* A job that runs goes on or ends, and never back, whatever fails and whatever
\* the other managers and the daemon do.
JobsAdvance ==
  [][\A w \in Manager : pc[w] \in Busy =>
       \/ pc'[w] = pc[w]
       \/ pc'[w] \notin Busy
       \/ StepsLeft[pc'[w]] < StepsLeft[pc[w]]]_vars

\* Only the job's own steps move it on.
LEMMA StepAdvances ==
  ASSUME TypeOK, [Next]_vars, NEW w \in Manager, pc[w] \in Busy, pc'[w] \in Busy,
         pc'[w] # pc[w]
  PROVE  StepsLeft[pc'[w]] < StepsLeft[pc[w]]
<1>0. pc \in [Manager -> PC]
  BY DEF TypeOK
<1>1. JobStep(w)
  <2>1. CASE \E v \in Manager : Start(v) \/ Exit(v) \/ DismissError(v)
                                \/ BeginApply(v) \/ BeginDisable(v)
    <3>1. PICK v \in Manager : Start(v) \/ Exit(v) \/ DismissError(v)
                               \/ BeginApply(v) \/ BeginDisable(v)
      BY <2>1
    <3>2. CASE v = w
      BY <1>0, <3>1, <3>2
         DEF Start, Exit, DismissError, BeginApply, BeginDisable, Goto, Busy
    <3>3. CASE v # w
      BY <1>0, <3>1, <3>3
         DEF Start, Exit, DismissError, BeginApply, BeginDisable, Goto
    <3>4. QED
      BY <3>2, <3>3
  <2>2. CASE \E v \in Manager : JobStep(v)
    <3>1. PICK v \in Manager : JobStep(v)
      BY <2>2
    <3>2. CASE v # w
      <4>1. \E s : Goto(v, s)
        BY <3>1
           DEF JobStep, ProbeEnabled, DisableLegacy, ProbeActive, StopLegacy, RejectSched,
               Switch, ProbeLoader, EnableLoader, Stage, Write, StopSched, Copy, Probe, Report
      <4>2. QED
        BY <1>0, <3>2, <4>1 DEF Goto
    <3>3. QED
      BY <3>1, <3>2
  <2>3. CASE DaemonStart \/ DaemonReload \/ DaemonStop \/ UNCHANGED vars
    BY <2>3 DEF DaemonStart, DaemonReload, DaemonStop, vars
  <2>4. CASE Reboot
    BY <2>4 DEF Reboot, Busy
  <2>5. QED
    BY <2>1, <2>2, <2>3, <2>4 DEF Next
<1>2. CASE ProbeEnabled(w) \/ ProbeActive(w) \/ ProbeLoader(w)
  BY <1>0, <1>2 DEF ProbeEnabled, ProbeActive, ProbeLoader, Probe, Goto, StepsLeft
<1>3. CASE DisableLegacy(w) \/ StopLegacy(w) \/ Switch(w) \/ EnableLoader(w)
  BY <1>0, <1>3 DEF DisableLegacy, StopLegacy, Switch, EnableLoader, Goto, StepsLeft
<1>4. CASE RejectSched(w) \/ Stage(w)
  BY <1>0, <1>4 DEF RejectSched, Stage, Report, Goto, StepsLeft, Busy
<1>5. CASE Write(w) \/ StopSched(w) \/ Copy(w)
  BY <1>0, <1>5 DEF Write, StopSched, Copy, Report, Goto, StepsLeft, Busy
<1>6. QED
  BY <1>1, <1>2, <1>3, <1>4, <1>5 DEF JobStep

\* Each step of a job brings it nearer to its end, so an Apply takes at most ten
\* and a Disable four: no retry and no loop leads back, for any number of
\* managers and any fault model (lib.rs:188-259).
THEOREM JobsOnlyAdvance == Spec => JobsAdvance
<1>1. TypeOK /\ [Next]_vars =>
        [\A w \in Manager : pc[w] \in Busy =>
           \/ pc'[w] = pc[w]
           \/ pc'[w] \notin Busy
           \/ StepsLeft[pc'[w]] < StepsLeft[pc[w]]]_vars
  BY StepAdvances
<1>2. QED
  BY TypeCorrect, <1>1, PTL DEF Spec, JobsAdvance

-----------------------------------------------------------------------------
(***************************************************************************)
(* For a single application: memory and /etc stay together except after a  *)
(* reported or refused job, an installed job is what the daemon boots with *)
(* and what it runs, and the whole is a configuration session on /etc.     *)
(***************************************************************************)

Solo == \E w \in Manager : Manager = {w}

\* A manager that is not there holds nothing; from the edit to the copy the
\* staging file follows the memory, and the copy makes /etc equal to it.
StoredInv ==
  \A w \in Manager :
    /\ pc[w] = "off" => mem[w] = None
    /\ pc[w] \in {"write", "stopSched", "copy"} => EditMade(w)
    /\ pc[w] = "write" => tmp = Empty
    /\ pc[w] \in {"stopSched", "copy"} => tmp = mem[w]
    /\ Idle(w) /\ log[w].outcome = "none" => mem[w] = Loaded(etc)
    /\ Installed(w) => /\ etc = mem[w]
                       /\ EditMade(w)
                       /\ job[w] # None
                       /\ job[w].op = "apply" => job[w].sched \in Sched

SoloInv == Solo /\ TypeOK /\ HistoryInv /\ StoredInv

-----------------------------------------------------------------------------
\* No manager is there at first.
LEMMA StoredInit == Init => StoredInv
BY DEF Init, StoredInv, Idle, Installed

\* With one manager nobody touches the staging file between its steps.
LEMMA StoredNext == SoloInv /\ [Next]_vars => StoredInv'
<1> SUFFICES ASSUME SoloInv, [Next]_vars PROVE StoredInv'
  OBVIOUS
<1>0. /\ pc \in [Manager -> PC] /\ log \in [Manager -> Log]
      /\ mem \in [Manager -> Config \cup {None}] /\ job \in [Manager -> Job \cup {None}]
      /\ TypeOK /\ HistoryInv /\ StoredInv
  BY DEF SoloInv, TypeOK
<1>solo. \A v, w \in Manager : v = w
  BY DEF SoloInv, Solo
<1> USE <1>0 DEF StoredInv, Idle, Installed, Log, Goto, Note, Swallowed, Report, services, daemon, disk
<1>1. ASSUME NEW w \in Manager, Start(w) PROVE StoredInv'
  BY <1>solo, <1>1 DEF Start, HistoryInv, Loaded
<1>2. ASSUME NEW w \in Manager, Exit(w) PROVE StoredInv'
  BY <1>solo, <1>2 DEF Exit
<1>3. ASSUME NEW w \in Manager, DismissError(w) PROVE StoredInv'
  BY <1>solo, <1>3 DEF DismissError, HistoryInv
<1>4. ASSUME NEW w \in Manager, BeginApply(w) \/ BeginDisable(w) PROVE StoredInv'
  <2>1. pc'[w] \in {"probeEnabled", "stage"}
    BY <1>4 DEF BeginApply, BeginDisable
  <2>2. QED
    BY <1>solo, <2>1
<1>5. ASSUME NEW w \in Manager, ProbeEnabled(w) \/ ProbeActive(w) \/ ProbeLoader(w)
      PROVE  StoredInv'
  BY <1>solo, <1>5 DEF ProbeEnabled, ProbeActive, ProbeLoader, Probe
<1>6. ASSUME NEW w \in Manager, DisableLegacy(w) \/ StopLegacy(w) \/ EnableLoader(w)
      PROVE  StoredInv'
  BY <1>solo, <1>6 DEF DisableLegacy, StopLegacy, EnableLoader
<1>7. ASSUME NEW w \in Manager, RejectSched(w) \/ Switch(w) PROVE StoredInv'
  BY <1>solo, <1>7 DEF RejectSched, Switch
<1>8. ASSUME NEW w \in Manager, Stage(w) PROVE StoredInv'
  <2>1. EditMade(w)'
    BY <1>8, EditedMakes
  <2>2. \/ pc'[w] = "write" /\ tmp' = Empty
        \/ pc'[w] = "error"
    BY <1>8 DEF Stage
  <2>3. QED
    BY <1>solo, <2>1, <2>2
<1>9. ASSUME NEW w \in Manager, Write(w) PROVE StoredInv'
  <2>1. EditMade(w)'
    BY <1>9 DEF Write, EditMade
  <2>2. \/ pc'[w] \in {"stopSched", "copy"} /\ tmp' = mem'[w]
        \/ pc'[w] = "error"
    BY <1>9 DEF Write
  <2>3. QED
    BY <1>solo, <2>1, <2>2
<1>10. ASSUME NEW w \in Manager, StopSched(w) PROVE StoredInv'
  <2>1. EditMade(w)'
    BY <1>10 DEF StopSched, EditMade
  <2>2. tmp' = mem'[w]
    BY <1>10 DEF StopSched
  <2>3. pc'[w] \in {"copy", "error"}
    BY <1>10 DEF StopSched
  <2>4. QED
    BY <1>solo, <2>1, <2>2, <2>3
<1>11. ASSUME NEW w \in Manager, Copy(w) PROVE StoredInv'
  <2>1. EditMade(w)'
    BY <1>11 DEF Copy, EditMade
  <2>2. /\ job'[w] # None
        /\ job'[w].op = "apply" => job'[w].sched \in Sched
    BY <1>11 DEF Copy, TypeOK, HoldsWhatItUses, Busy, AfterParse
  <2>3. \/ log'[w].outcome = "installed" /\ etc' = mem'[w]
        \/ log'[w].outcome = "silent"
    BY <1>11 DEF Copy
  <2>4. pc'[w] = "idle"
    BY <1>11 DEF Copy
  <2>5. QED
    BY <1>solo, <2>1, <2>2, <2>3, <2>4
<1>12. CASE DaemonStart \/ DaemonReload
  BY <1>12 DEF DaemonStart, DaemonReload, EditMade
<1>13. CASE DaemonStop
  BY <1>13 DEF DaemonStop, EditMade
<1>14. CASE Reboot
  BY <1>14 DEF Reboot
<1>15. CASE UNCHANGED vars
  BY <1>15 DEF vars, EditMade, Loaded
<1>16. QED
  BY <1>1, <1>2, <1>3, <1>4, <1>5, <1>6, <1>7, <1>8, <1>9, <1>10, <1>11, <1>12, <1>13, <1>14, <1>15 DEF Next, JobStep

\* The invariant of a single application.
LEMMA SoloAlways == Solo /\ Spec => []SoloInv
<1>1. Solo /\ Init => SoloInv
  BY InitType, HistoryInit, StoredInit DEF SoloInv
<1>2. SoloInv /\ [Next]_vars => SoloInv'
  BY NextType, HistoryNext, StoredNext DEF SoloInv, Solo
<1>3. QED
  BY <1>1, <1>2, PTL DEF Spec

-----------------------------------------------------------------------------
\* A single application that is idle after no job, or after an approved copy,
\* has in memory what a fresh start would read from /etc.
THEOREM SoloInSync == Solo /\ Spec => []MemoryInSync
<1>1. SoloInv => MemoryInSync
  <2> SUFFICES ASSUME SoloInv, NEW w \in Manager, Idle(w),
                      log[w].outcome \in {"none", "installed"}
               PROVE  mem[w] = Loaded(etc)
    BY DEF MemoryInSync
  <2>1. mem[w] \in Config
    BY DEF SoloInv, TypeOK, HoldsWhatItUses, Idle
  <2>2. QED
    BY <2>1, LoadedConfig DEF SoloInv, StoredInv, Installed
<1>2. QED
  BY SoloAlways, <1>1, PTL

\* After an installed job of a single application the machine boots with
\* exactly the scheduler and arguments asked for, and with none after a Disable.
THEOREM SoloPersists == Solo /\ Spec => []PersistedAsRequested
<1>1. SoloInv => PersistedAsRequested
  <2> SUFFICES ASSUME SoloInv, NEW w \in Manager, Installed(w)
               PROVE  BootRunning = BootAsked(w)
    BY DEF PersistedAsRequested
  <2>1. mem[w] \in Config /\ etc = mem[w]
    BY DEF SoloInv, TypeOK, HoldsWhatItUses, StoredInv, Installed, Idle
  <2>2. BootRunning = BootSched(mem[w])
    BY <2>1, LoadedConfig DEF BootRunning
  <2>3. QED
    BY <2>2, EditBoots DEF SoloInv, StoredInv
<1>2. QED
  BY SoloAlways, <1>1, PTL

-----------------------------------------------------------------------------
\* The places of an Apply up to its switch.
UpToSwitch == {"probeEnabled", "disableLegacy", "probeActive", "stopLegacy", "switch"}

\* Before the switch a job that began in agreement still is in agreement, and so
\* is the daemon, be it that it has read /etc again; after a switch that has not
\* failed the daemon runs what was asked for, as long as it is up.
RunsInv ==
  \A w \in Manager :
    /\ pc[w] \in UpToSwitch /\ log[w].synced => mem[w] = Loaded(etc)
    /\ pc[w] \in UpToSwitch /\ log[w].informed /\ job[w].sched \in Sched =>
         Informed(job[w].sched, job[w].mode)
    /\ Switched(w) /\ log[w].synced /\ log[w].informed /\ "switch" \notin log[w].failed =>
         /\ daemonUp => running = Wanted(w)
         /\ pc[w] \in Busy => daemonUp

\* When memory, /etc and the daemon agree, both switch calls load what was asked
\* for.
LEMMA RequestedIsWanted ==
  ASSUME NEW w \in Manager, mem[w] = Loaded(etc), mem[w] # None, daemonUp,
         Informed(job[w].sched, job[w].mode)
  PROVE  Requested(w) = Wanted(w)
BY DEF Requested, ModeRunning, DaemonArgs, Informed, Wanted

\* No manager is there at first.
LEMMA RunsInit == Init => RunsInv
BY DEF Init, RunsInv, UpToSwitch, Busy, Switched, Installed, Idle

\* Only a restarted daemon changes what runs after the switch: in the middle of
\* a job that is a failure, after it the daemon boots with the same.
LEMMA RunsNext == SoloInv /\ RunsInv /\ [Next]_vars => RunsInv'
<1> SUFFICES ASSUME SoloInv, RunsInv, [Next]_vars PROVE RunsInv'
  OBVIOUS
<1>0. /\ pc \in [Manager -> PC] /\ log \in [Manager -> Log]
      /\ mem \in [Manager -> Config \cup {None}] /\ job \in [Manager -> Job \cup {None}]
      /\ TypeOK /\ HistoryInv /\ StoredInv
  BY DEF SoloInv, TypeOK
<1>solo. \A v, w \in Manager : v = w
  BY DEF SoloInv, Solo
<1> USE <1>0 DEF RunsInv, UpToSwitch, Switched, Wanted, Idle, Installed, Busy, Log, Goto, Note, Swallowed,
                 Report, services, daemon, disk
<1>1. ASSUME NEW w \in Manager, Start(w) PROVE RunsInv'
  BY <1>solo, <1>1 DEF Start, HistoryInv
<1>2. ASSUME NEW w \in Manager, Exit(w) PROVE RunsInv'
  BY <1>solo, <1>2 DEF Exit
<1>3. ASSUME NEW w \in Manager, DismissError(w) PROVE RunsInv'
  BY <1>solo, <1>3 DEF DismissError, HistoryInv
<1>4. ASSUME NEW w \in Manager, BeginApply(w) PROVE RunsInv'
  <2>0. PICK s \in Name, m \in Mode, args \in ArgList :
          /\ job' = [job EXCEPT ![w] = [op |-> "apply", sched |-> s, mode |-> m, args |-> args]]
          /\ BeginLog(w, s \in Sched => Informed(s, m))
    BY <1>4 DEF BeginApply
  <2> DEFINE informed == s \in Sched => Informed(s, m)
  <2>1. /\ log'[w].synced <=> mem[w] = Loaded(etc)
        /\ log'[w].informed = informed
    <3>1. BeginLog(w, informed)
      BY <2>0
    <3> HIDE DEF informed
    <3>2. QED
      BY <3>1, BeginLogFields
  <2>2. pc'[w] = "probeEnabled" /\ UNCHANGED <<mem, etc, daemonUp, daemonConfig>>
    BY <1>4 DEF BeginApply
  <2>3. log'[w].synced => mem'[w] = Loaded(etc')
    BY <2>1, <2>2
  <2>4. job'[w].sched = s /\ job'[w].mode = m
    BY <2>0
  <2>5. log'[w].informed /\ job'[w].sched \in Sched => Informed(job[w].sched, job[w].mode)'
    BY <2>1, <2>2, <2>4 DEF Informed, Loaded
  <2>6. QED
    BY <1>solo, <2>2, <2>3, <2>5 DEF Loaded
<1>5. ASSUME NEW w \in Manager, BeginDisable(w) PROVE RunsInv'
  <2>1. pc'[w] = "stage" /\ job'[w].op = "disable"
    BY <1>5 DEF BeginDisable
  <2>2. QED
    BY <1>solo, <2>1
<1>6. ASSUME NEW w \in Manager, ProbeEnabled(w) \/ ProbeActive(w) \/ ProbeLoader(w)
      PROVE  RunsInv'
  BY <1>solo, <1>6 DEF ProbeEnabled, ProbeActive, ProbeLoader, Probe, Loaded, Informed
<1>7. ASSUME NEW w \in Manager, DisableLegacy(w) \/ StopLegacy(w) \/ EnableLoader(w)
      PROVE  RunsInv'
  BY <1>solo, <1>7 DEF DisableLegacy, StopLegacy, EnableLoader, Loaded, Informed
<1>8. ASSUME NEW w \in Manager, RejectSched(w) PROVE RunsInv'
  BY <1>solo, <1>8 DEF RejectSched
<1>9. ASSUME NEW w \in Manager, Switch(w) PROVE RunsInv'
  <2>1. mem[w] # None /\ pc'[w] = "probeLoader" /\ UNCHANGED <<job, daemonUp>>
    BY <1>9 DEF Switch, TypeOK, HoldsWhatItUses
  <2>2. CASE daemonUp /\ running' = Requested(w) /\ UNCHANGED log
    <3>1. log'[w].synced /\ log'[w].informed => running' = Wanted(w)
      BY <1>9, <2>1, <2>2, RequestedIsWanted DEF Switch
    <3>2. QED
      BY <1>solo, <2>1, <2>2, <3>1
  <2>3. CASE Swallowed(w, "switch")
    BY <1>solo, <2>1, <2>3
  <2>4. QED
    BY <1>9, <2>2, <2>3 DEF Switch
<1>10. ASSUME NEW w \in Manager, Stage(w) \/ Write(w) PROVE RunsInv'
  BY <1>solo, <1>10 DEF Stage, Write
<1>11. ASSUME NEW w \in Manager, StopSched(w) PROVE RunsInv'
  <2>1. job'[w].op = "disable" /\ pc'[w] \in {"copy", "error"}
    BY <1>11 DEF StopSched, TypeOK, HoldsWhatItUses
  <2>2. QED
    BY <1>solo, <2>1
<1>12. ASSUME NEW w \in Manager, Copy(w) PROVE RunsInv'
  BY <1>solo, <1>12 DEF Copy
<1>13. CASE DaemonStart
  <2>1. UNCHANGED <<pc, mem, job, log, etc>> /\ ~daemonUp /\ running' = BootRunning
    BY <1>13 DEF DaemonStart
  <2>2. ASSUME NEW w \in Manager, Installed(w), job[w].op = "apply"
        PROVE  running' = Wanted(w)
    <3>1. mem[w] \in Config /\ etc = mem[w]
      BY <2>2 DEF TypeOK, HoldsWhatItUses, StoredInv
    <3>2. BootRunning = BootSched(mem[w])
      BY <3>1, LoadedConfig DEF BootRunning
    <3>3. BootSched(mem[w]) = BootAsked(w)
      BY <2>2, EditBoots DEF StoredInv
    <3>4. QED
      BY <2>1, <2>2, <3>2, <3>3 DEF BootAsked
  <2>3. ASSUME NEW w \in Manager PROVE Informed(job[w].sched, job[w].mode)'
    BY <1>13 DEF DaemonStart, Informed, Loaded, disk
  <2>4. QED
    BY <2>1, <2>2, <2>3 DEF Loaded
<1>14. CASE DaemonReload
  <2>1. UNCHANGED <<pc, mem, job, log, etc, daemonUp, running>>
    BY <1>14 DEF DaemonReload
  <2>2. ASSUME NEW w \in Manager PROVE Informed(job[w].sched, job[w].mode)'
    BY <1>14 DEF DaemonReload, Informed, Loaded, disk
  <2>3. QED
    BY <2>1, <2>2 DEF Loaded
<1>15. CASE DaemonStop
  BY <1>15 DEF DaemonStop, Loaded, Informed
<1>16. CASE Reboot
  BY <1>16 DEF Reboot
<1>17. CASE UNCHANGED vars
  BY <1>17 DEF vars, Loaded, Informed
<1>18. QED
  BY <1>1, <1>2, <1>3, <1>4, <1>5, <1>6, <1>7, <1>8, <1>9, <1>10, <1>11, <1>12, <1>13, <1>14, <1>15, <1>16, <1>17 DEF Next, JobStep

\* After an installed Apply that began with memory, /etc and the daemon in
\* agreement and whose switch was not swallowed, the daemon, when it is up, runs
\* exactly what was asked for, also after restarts of the daemon, and whether or
\* not it reads /etc again (lib.rs:210-222).
THEOREM SoloRuns == Solo /\ Spec => []AppliedRuns
<1>1. RunsInv => AppliedRuns
  BY DEF RunsInv, AppliedRuns, Switched, Wanted
<1>2. QED
  BY SoloAlways, RunsInit, RunsNext, <1>1, PTL DEF Spec

-----------------------------------------------------------------------------
\* Refinement: /etc is what a session saves, the application's memory what it
\* desires.  The staging file, the services and every failure disappear in
\* stuttering steps.

\* What each job step of the one manager looks like to the session.
SessionStep == [Session!SessionNext]_<<etc, mem[TheManager]>>

\* The one manager is the one the refinement looks at.
LEMMA TheOneManager == ASSUME Solo, NEW w \in Manager PROVE w = TheManager
BY DEF Solo, TheManager

\* No session is open at first.
LEMMA SessionInit ==
  ASSUME Solo, Init
  PROVE  mem[TheManager] = None
BY DEF Solo, TheManager, Init

\* The edit of a job is one of the two edits of a session.
LEMMA StageEdits ==
  ASSUME SoloInv, NEW w \in Manager, Stage(w)
  PROVE  Session!Edit
<1>1. /\ w = TheManager /\ mem[w] \in Config /\ mem[w] # None
      /\ job[w] \in Job /\ UNCHANGED etc
      /\ mem'[w] = Edited(w)
  BY TheOneManager DEF SoloInv, Stage, TypeOK, HoldsWhatItUses, Busy
<1>2. CASE job[w].op = "disable"
  <2>1. mem'[w] = Disabled(mem[w])
    BY <1>1, <1>2 DEF Edited
  <2>2. QED
    BY <1>1, <2>1 DEF Session!Edit, Session!Disabled, Disabled
<1>3. CASE job[w].op # "disable"
  <2>1. /\ job[w].op = "apply" /\ job[w].sched \in Sched
        /\ job[w].mode \in Mode /\ job[w].args \in ArgList
    BY <1>1, <1>3 DEF Stage, SoloInv, TypeOK, HoldsWhatItUses, AfterParse, Job
  <2>2. mem'[w] = Applied(mem[w], job[w].sched, job[w].mode, job[w].args)
    BY <1>1, <1>3 DEF Edited
  <2>3. \E s \in Sched, m \in Mode, args \in ArgList :
          mem'[TheManager] = Applied(mem[TheManager], s, m, args)
    BY <1>1, <2>1, <2>2
  <2>4. QED
    BY <1>1, <2>3
       DEF Session!Edit, Session!Applied, Session!WithArgs, Session!WithDefault, Session!ArgsFor,
           Applied, WithArgs, WithDefault, ArgsFor
<1>4. QED
  BY <1>2, <1>3

\* A launch is a Load, an edit an Edit, a copy a Save, an end of the application
\* a Close, and every other step a stutter.
LEMMA NextImplements == SoloInv /\ [Next]_vars => SessionStep
<1> SUFFICES ASSUME SoloInv, [Next]_vars PROVE SessionStep
  OBVIOUS
<1>0. /\ pc \in [Manager -> PC] /\ mem \in [Manager -> Config \cup {None}]
      /\ TypeOK /\ StoredInv
  BY DEF SoloInv, TypeOK
<1>solo. \A w \in Manager : w = TheManager
  BY TheOneManager DEF SoloInv
<1>one. TheManager \in Manager
  BY DEF SoloInv, Solo, TheManager
<1> USE <1>0 DEF SessionStep, disk
<1>1. ASSUME NEW w \in Manager, Start(w) PROVE SessionStep
  <2>1. mem'[TheManager] = Loaded(etc) /\ UNCHANGED etc
    BY <1>solo, <1>1 DEF Start
  <2>2. mem[TheManager] = None
    BY <1>solo, <1>1 DEF Start, StoredInv
  <2>3. QED
    BY <2>1, <2>2 DEF Session!SessionNext, Session!Load
<1>2. ASSUME NEW w \in Manager, Exit(w) PROVE SessionStep
  <2>1. mem'[TheManager] = None /\ UNCHANGED etc
    BY <1>solo, <1>2 DEF Exit
  <2>2. QED
    BY <2>1 DEF Session!SessionNext, Session!Close
<1>3. CASE Reboot
  <2>1. mem'[TheManager] = None /\ UNCHANGED etc
    BY <1>one, <1>3 DEF Reboot
  <2>2. QED
    BY <2>1 DEF Session!SessionNext, Session!Close
<1>4. ASSUME NEW w \in Manager, Stage(w) PROVE SessionStep
  BY <1>4, StageEdits DEF Session!SessionNext
<1>5. ASSUME NEW w \in Manager, Copy(w) PROVE SessionStep
  <2>1. mem[w] # None /\ tmp = mem[w] /\ UNCHANGED mem
    BY <1>5 DEF Copy, TypeOK, HoldsWhatItUses, Busy, StoredInv
  <2>2. etc' = mem[w] \/ UNCHANGED etc
    BY <1>5, <2>1 DEF Copy
  <2>3. QED
    BY <1>solo, <2>1, <2>2 DEF Session!SessionNext, Session!Save
<1>6. ASSUME UNCHANGED <<mem, etc>> PROVE SessionStep
  BY <1>6
<1>7. ASSUME NEW w \in Manager,
             \/ DismissError(w) \/ BeginApply(w) \/ BeginDisable(w)
             \/ ProbeEnabled(w) \/ DisableLegacy(w) \/ ProbeActive(w) \/ StopLegacy(w)
             \/ RejectSched(w) \/ Switch(w) \/ ProbeLoader(w) \/ EnableLoader(w)
             \/ Write(w) \/ StopSched(w)
      PROVE  UNCHANGED <<mem, etc>>
  BY <1>7 DEF DismissError, BeginApply, BeginDisable, ProbeEnabled, DisableLegacy,
       ProbeActive, StopLegacy, RejectSched, Switch, ProbeLoader, EnableLoader, Write, StopSched
<1>8. CASE DaemonStart \/ DaemonReload \/ DaemonStop \/ UNCHANGED vars
  BY <1>6, <1>8 DEF DaemonStart, DaemonReload, DaemonStop, vars
<1>9. QED
  BY <1>1, <1>2, <1>3, <1>4, <1>5, <1>6, <1>7, <1>8 DEF Next, JobStep

\* A single application is a configuration session on /etc, under any fault
\* model: what it saves is always the whole of its own edited copy.
THEOREM SoloImplementsSession == Solo /\ Spec => ImplementsSession
<1>1. Solo /\ Init => mem[TheManager] = None
  BY SessionInit
<1>2. SoloInv /\ [Next]_vars => [Session!SessionNext]_<<etc, mem[TheManager]>>
  BY NextImplements DEF SessionStep
<1>3. QED
  BY SoloAlways, <1>1, <1>2, PTL DEF Spec, ImplementsSession, Session!SessionSpec
=============================================================================
