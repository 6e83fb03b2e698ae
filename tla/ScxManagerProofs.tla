--------------------------- MODULE ScxManagerProofs ---------------------------
(***************************************************************************)
(* The composition implements both of its parts: what is proved of the     *)
(* bridge holds in it, and its window is the one of SchedExtWindow.        *)
(***************************************************************************)
EXTENDS ScxManager, ScxBridgeProofs

\* To the bridge, every step of the composition is one of its own or none.
LEMMA StepsAreBridgeSteps == [ManagerNext]_managerVars => [Next]_vars
<1> SUFFICES ASSUME [ManagerNext]_managerVars PROVE [Next]_vars
  OBVIOUS
<1> USE ManagerAssumption
<1>1. CASE Launch
  BY <1>1 DEF Launch, Next
<1>2. CASE End
  BY <1>2 DEF End, Next
<1>3. CASE Handle
  BY <1>3 DEF Handle
<1>4. CASE ClickApply
  BY <1>4 DEF ClickApply, Next
<1>5. CASE ClickDisable
  BY <1>5 DEF ClickDisable, Next
<1>6. CASE Work
  BY <1>6 DEF Work, Next
<1>7. CASE Return
  BY <1>7 DEF Return, Next
<1>8. CASE CloseBox
  BY <1>8 DEF CloseBox, Next
<1>9. CASE Around
  BY <1>9 DEF Around, Next
<1>10. CASE UNCHANGED managerVars
  BY <1>10 DEF managerVars
<1>11. QED
  BY <1>1, <1>2, <1>3, <1>4, <1>5, <1>6, <1>7, <1>8, <1>9, <1>10 DEF ManagerNext

\* The composition is a bridge with one application, so every theorem of
\* ScxBridge about one application holds in it.
THEOREM ManagerImplementsBridge == ManagerSpec => Spec
<1>1. ManagerInit => Init
  BY DEF ManagerInit
<1>2. QED
  BY <1>1, StepsAreBridgeSteps, PTL DEF ManagerSpec, Spec

-----------------------------------------------------------------------------
\* The states of a job before and after it has edited the memory.
BeforeEdit == ApplyOnly \cup {"stage"}
AfterEdit == {"write", "stopSched", "copy"}

\* While a job runs its arguments are what the window shows, and the memory is
\* the one the window had, with the job's edit once that has been made.
JobIsShown ==
  pc[Me] \in Busy =>
    /\ job[Me].op = "apply" =>
         job[Me] = [op |-> "apply", sched |-> sched,
                    mode |-> Window!SelectedMode, args |-> Window!Parsed(flags)]
    /\ pc[Me] \in BeforeEdit => mem[Me] = memBefore
    /\ pc[Me] \in AfterEdit =>
         mem[Me] = IF job[Me].op = "disable" THEN Disabled(memBefore)
                   ELSE Applied(memBefore, sched, Window!SelectedMode, Window!Parsed(flags))

ManagerInv ==
  /\ InStep
  /\ JobIsShown
  /\ pc[Me] = "off" => mem[Me] = None
  /\ typed \in BOOLEAN
  /\ memBefore \in Config \cup {None}

\* The window's steps between two calls of the bridge, and what a job's step
\* does to what the window knows.

\* Both modules make the same edits.
LEMMA SameEdits ==
  /\ \A cfg, s, m, args : Window!Applied(cfg, s, m, args) = Applied(cfg, s, m, args)
  /\ \A cfg : Window!Disabled(cfg) = Disabled(cfg)
BY DEF Window!Applied, Window!ArgsFor, Window!WithArgs, Window!WithDefault, Window!Disabled,
       Applied, ArgsFor, WithArgs, WithDefault, Disabled

\* A step of a job makes the edit, once, or leaves the memory alone; it stops
\* before the edit only for a scheduler the bridge does not know.
LEMMA JobStepShape ==
  ASSUME TypeOK, JobStep(Me)
  PROVE  /\ pc[Me] \in Busy /\ UNCHANGED job
         /\ job[Me].op = "apply" \/ job[Me].op = "disable"
         /\ \/ /\ pc[Me] = "stage" /\ mem'[Me] = Edited(Me)
               /\ pc'[Me] \in {"write", "error"}
               /\ job[Me].op = "apply" => job[Me].sched \in Sched
            \/ /\ pc[Me] \in AfterEdit /\ mem'[Me] = mem[Me]
               /\ pc'[Me] \in AfterEdit \cup {"idle", "error"}
               /\ job[Me].op = "apply" => job[Me].sched \in Sched
            \/ /\ pc[Me] \in BeforeEdit /\ mem'[Me] = mem[Me]
               /\ pc'[Me] \in BeforeEdit
            \/ /\ pc[Me] = "switch" /\ mem'[Me] = mem[Me] /\ pc'[Me] = "error"
               /\ job[Me].op = "apply" /\ job[Me].sched \notin Sched
<1> USE ManagerAssumption DEF BeforeEdit, AfterEdit, ApplyOnly, Busy, Goto
<1>0. /\ Me \in Manager /\ pc \in [Manager -> PC] /\ mem \in [Manager -> Config \cup {None}]
      /\ HoldsWhatItUses
  BY DEF TypeOK
<1>1. pc[Me] \in Busy /\ UNCHANGED job
  BY DEF JobStep, ProbeEnabled, DisableLegacy, ProbeActive, StopLegacy, RejectSched, Switch,
         ProbeLoader, EnableLoader, Stage, Write, StopSched, Copy
<1>2. job[Me].op = "apply" \/ job[Me].op = "disable"
  BY <1>0, <1>1 DEF TypeOK, HoldsWhatItUses, Job
<1>3. /\ pc[Me] \in {"stage", "write", "copy"} /\ job[Me].op = "apply" => job[Me].sched \in Sched
      /\ pc[Me] = "stopSched" => job[Me].op = "disable"
      /\ pc[Me] = "switch" => job[Me].op = "apply"
  BY <1>0 DEF HoldsWhatItUses, AfterParse
<1> HIDE DEF BeforeEdit, AfterEdit
<1>4. CASE Stage(Me)
  BY <1>0, <1>1, <1>2, <1>3, <1>4 DEF Stage, Report
<1>5. CASE Write(Me) \/ StopSched(Me) \/ Copy(Me)
  BY <1>0, <1>1, <1>2, <1>3, <1>5 DEF Write, StopSched, Copy, Report, AfterEdit
<1>6. CASE RejectSched(Me)
  BY <1>0, <1>1, <1>2, <1>3, <1>6 DEF RejectSched, Report
<1>7. CASE \/ ProbeEnabled(Me) \/ DisableLegacy(Me) \/ ProbeActive(Me) \/ StopLegacy(Me)
           \/ Switch(Me) \/ ProbeLoader(Me) \/ EnableLoader(Me)
  BY <1>0, <1>1, <1>2, <1>7
     DEF ProbeEnabled, DisableLegacy, ProbeActive, StopLegacy, Switch, ProbeLoader,
         EnableLoader, Probe, BeforeEdit
<1>8. QED
  BY <1>4, <1>5, <1>6, <1>7 DEF JobStep

-----------------------------------------------------------------------------
\* ManagerInv is inductive, given the types of the bridge.
LEMMA ManagerInvInit == ManagerInit => ManagerInv
BY ManagerAssumption
   DEF ManagerInit, Init, Window!Init, ManagerInv, InStep, JobIsShown, Busy

\* Every step keeps it: one step of the proof for each action.
LEMMA ManagerInvNext == TypeOK /\ ManagerInv /\ [ManagerNext]_managerVars => ManagerInv'
<1> SUFFICES ASSUME TypeOK, ManagerInv, [ManagerNext]_managerVars PROVE ManagerInv'
  OBVIOUS
<1> USE DEF ManagerInv
<1>0. /\ Me \in Manager /\ pc \in [Manager -> PC] /\ mem \in [Manager -> Config \cup {None}]
      /\ job \in [Manager -> Job \cup {None}]
  BY ManagerAssumption DEF TypeOK
<1>1. CASE Launch
  <2>1. pc[Me] = "off" /\ pc'[Me] = IF Loaded(etc) # None /\ daemonUp THEN "idle" ELSE "inert"
    BY <1>0, <1>1 DEF Launch, Start, Goto
  <2>2. /\ phase' = IF Loaded(etc) # None /\ daemonUp THEN "ready" ELSE "inert"
        /\ UNCHANGED <<dialog, typed, memBefore>>
    BY <1>1 DEF Launch, Window!ConstructNoConfig, Window!ConstructNoDaemon, Window!Construct,
                Window!history
  <2>3. QED
    BY <2>1, <2>2 DEF InStep, JobIsShown, Busy
<1>2. CASE End
  <2>1. pc'[Me] = "off" /\ mem'[Me] = None /\ memBefore' = None
    BY <1>0, <1>2 DEF End, Exit, Reboot, Goto
  <2>2. /\ phase' = "new" /\ dialog' # "job" /\ typed' \in BOOLEAN
    BY <1>2 DEF End, Window!Relaunch, windowVars, controls, InStep
  <2>3. QED
    BY <2>1, <2>2 DEF InStep, JobIsShown, Busy
<1>3. CASE Handle
  <2>1. pc[Me] \notin Busy /\ UNCHANGED <<pc, mem, memBefore>>
    BY <1>3 DEF Handle, vars
  <2>2. UNCHANGED phase /\ (dialog' = "job" <=> dialog = "job") /\ typed' \in BOOLEAN
    BY <1>3 DEF Handle, Window!Show, Window!SelectSched, Window!SelectProfile, Window!EditFlags,
                Window!Dismiss, Window!Attended
  <2>3. QED
    BY <2>1, <2>2 DEF InStep, JobIsShown
<1>4. CASE ClickApply
  <2>1. /\ pc[Me] = "idle" /\ pc'[Me] = "probeEnabled" /\ UNCHANGED <<mem, windowVars>>
        /\ memBefore' = mem[Me] /\ memBefore' \in Config \cup {None}
        /\ Window!Attended /\ jobs < MaxJobs
        /\ job'[Me] = [op |-> "apply", sched |-> sched,
                       mode |-> Window!SelectedMode, args |-> Window!Parsed(flags)]
    BY <1>0, <1>4 DEF ClickApply, BeginApply, Goto
  <2>2. QED
    BY <2>1 DEF InStep, JobIsShown, Busy, AfterEdit, windowVars, controls, history,
                Window!Attended, Window!SelectedMode
<1>5. CASE ClickDisable
  <2>1. /\ pc[Me] = "idle" /\ pc'[Me] = "stage" /\ UNCHANGED <<mem, windowVars>>
        /\ memBefore' = mem[Me] /\ memBefore' \in Config \cup {None}
        /\ Window!Attended /\ jobs < MaxJobs
        /\ job'[Me] = [op |-> "disable"]
    BY <1>0, <1>5 DEF ClickDisable, BeginDisable, Goto
  <2>2. QED
    BY <2>1 DEF InStep, JobIsShown, Busy, AfterEdit, windowVars, controls, history,
                Window!Attended
<1>6. CASE Work
  <2>1. /\ pc[Me] \in Busy /\ pc'[Me] \in Busy /\ UNCHANGED <<job, windowVars, memBefore>>
    BY <1>6, JobStepShape DEF Work
  <2>2. InStep'
    BY <2>1 DEF InStep, Busy, windowVars, controls, history, Window!Attended
  <2>3. JobIsShown'
    BY <1>6, <2>1, JobStepShape
       DEF Work, JobIsShown, Edited, BeforeEdit, AfterEdit, ApplyOnly, Busy,
           windowVars, controls, Window!SelectedMode
  <2>4. pc'[Me] # "off"
    BY <2>1 DEF Busy
  <2>5. QED
    BY <2>1, <2>2, <2>3, <2>4 DEF windowVars
<1>7. CASE Return
  <2>1. /\ pc[Me] \in Busy /\ pc'[Me] \in {"idle", "error"} /\ UNCHANGED <<phase, job>>
        /\ dialog' = IF pc'[Me] = "error" THEN "job" ELSE "none"
        /\ memBefore' = None
    BY <1>7, JobStepShape DEF Return, BeforeEdit, AfterEdit, ApplyOnly, Busy, controls
  <2>typed. typed' \in BOOLEAN
    BY <1>7 DEF Return
  <2>2. QED
    BY <2>1, <2>typed DEF InStep, JobIsShown, Busy
<1>8. CASE CloseBox
  <2>1. pc[Me] = "error" /\ pc'[Me] = "idle" /\ UNCHANGED <<phase, memBefore>>
        /\ dialog' = "none" /\ typed' \in BOOLEAN
    BY <1>0, <1>8 DEF CloseBox, DismissError, Goto, Window!Dismiss
  <2>2. QED
    BY <2>1 DEF InStep, JobIsShown, Busy
<1>9. CASE Around \/ UNCHANGED managerVars
  <2>1. UNCHANGED <<pc, mem, job, windowVars, memBefore>>
    BY <1>9 DEF Around, DaemonStart, DaemonReload, DaemonStop, managerVars, vars
  <2>2. QED
    BY <2>1 DEF InStep, JobIsShown, windowVars, controls, history, Window!Attended,
                Window!SelectedMode
<1>10. QED
  BY <1>1, <1>2, <1>3, <1>4, <1>5, <1>6, <1>7, <1>8, <1>9 DEF ManagerNext

\* The bridge's types and the invariant hold together.
LEMMA ManagerAlways == ManagerSpec => [](TypeOK /\ ManagerInv)
<1>1. ManagerSpec => []TypeOK
  BY ManagerImplementsBridge, TypeCorrect
<1>2. QED
  BY <1>1, ManagerInvInit, ManagerInvNext, PTL DEF ManagerSpec

-----------------------------------------------------------------------------
\* What each step of the composition looks like to the window.
WindowStep == [Window!Next]_(Window!vars)

\* The step with which the bridge returns is the window's whole job.
LEMMA ReturnIsAJob ==
  ASSUME TypeOK, ManagerInv, Return
  PROVE  Window!Next
<1>1. /\ pc[Me] \in Busy /\ pc'[Me] \in {"idle", "error"}
      /\ Window!Attended /\ jobs < MaxJobs
      /\ job[Me].op = "apply" \/ job[Me].op = "disable"
  BY JobStepShape DEF Return, ManagerInv, InStep, BeforeEdit, AfterEdit, ApplyOnly, Busy
<1>2. /\ WindowMem = memBefore /\ WindowMem' = mem'[Me]
      /\ jobs' = jobs + 1 /\ dialog' \in {"none", "job"}
      /\ UNCHANGED <<phase, shown, sched, index, comboVisible, flags, card, section,
                     daemonMode, adjusted>>
  BY <1>1 DEF WindowMem, Return, Busy, controls, history
<1>3. CASE job[Me].op = "disable"
  <2>1. mem'[Me] = Disabled(memBefore)
    BY <1>1, <1>3, JobStepShape
       DEF ManagerInv, JobIsShown, Edited, Return, BeforeEdit, AfterEdit, ApplyOnly, Busy
  <2>2. UNCHANGED typed
    BY <1>3 DEF Return, ManagerInv
  <2>3. Window!OnDisable
    BY <1>1, <1>2, <2>1, <2>2, SameEdits
       DEF Window!OnDisable, Window!selection, Window!infoPanel
  <2>4. QED
    BY <2>3 DEF Window!Next
<1>4. CASE job[Me].op = "apply" /\ sched \in Sched
  <2>1. job[Me] = [op |-> "apply", sched |-> sched,
                   mode |-> Window!SelectedMode, args |-> Window!Parsed(flags)]
    BY <1>1, <1>4 DEF ManagerInv, JobIsShown
  <2>2. mem'[Me] = Applied(memBefore, sched, Window!SelectedMode, Window!Parsed(flags))
    BY <1>1, <1>4, <2>1, JobStepShape
       DEF ManagerInv, JobIsShown, Edited, Return, BeforeEdit, AfterEdit, ApplyOnly, Busy
  <2>3. typed' = FALSE
    <3>1. ~(job[Me].op = "disable" \/ job[Me].sched \notin Sched)
      BY <1>4, <2>1
    <3>2. QED
      BY <3>1, Zenon DEF Return
  <2>4. Window!OnApply
    BY <1>1, <1>2, <1>4, <2>2, <2>3, SameEdits
       DEF Window!OnApply, Window!selection, Window!infoPanel
  <2>5. QED
    BY <2>4 DEF Window!Next
<1>5. CASE job[Me].op = "apply" /\ sched \notin Sched
  <2>1. job[Me] = [op |-> "apply", sched |-> sched,
                   mode |-> Window!SelectedMode, args |-> Window!Parsed(flags)]
    BY <1>1, <1>5 DEF ManagerInv, JobIsShown
  <2>2. pc[Me] = "switch" /\ mem'[Me] = mem[Me] /\ pc'[Me] = "error"
    BY <1>1, <1>5, <2>1, JobStepShape DEF Return, BeforeEdit, ApplyOnly, Busy
  <2>3. mem'[Me] = memBefore /\ dialog' = "job" /\ UNCHANGED typed
    BY <1>1, <1>5, <2>1, <2>2
       DEF Return, ManagerInv, JobIsShown, BeforeEdit, ApplyOnly
  <2>4. Window!OnApply
    BY <1>1, <1>2, <1>5, <2>3 DEF Window!OnApply, Window!selection, Window!infoPanel
  <2>5. QED
    BY <2>4 DEF Window!Next
<1>6. QED
  BY <1>1, <1>3, <1>4, <1>5

\* Every step of the composition is one of the window's or none.
LEMMA StepsAreWindowSteps == TypeOK /\ ManagerInv /\ [ManagerNext]_managerVars => WindowStep
<1> SUFFICES ASSUME TypeOK, ManagerInv, [ManagerNext]_managerVars PROVE WindowStep
  OBVIOUS
<1> USE DEF WindowStep
<1>0. Me \in Manager /\ pc \in [Manager -> PC]
  BY ManagerAssumption DEF TypeOK
<1>1. CASE Launch
  <2>1. CASE Window!ConstructNoConfig \/ Window!ConstructNoDaemon
    BY <2>1 DEF Window!Next
  <2>2. ASSUME NEW list \in {Listed, {}}, NEW current \in {running, None},
               NEW mode \in {m \in Mode : Window!RawMode[m] \in Tried} \cup {None},
               Window!Construct(list, IF current = None THEN None ELSE current.sched, mode)
        PROVE  Window!Next
    <3>1. mode \in Mode \cup {None}
      OBVIOUS
    <3>2. PICK name : Window!Construct(list, name, mode)
      BY <2>2
    <3>3. CASE name \in Listed
      BY <3>1, <3>2, <3>3 DEF Window!Next, Window!Name
    <3>4. CASE name \notin Listed
      <4>1. Window!Construct(list, None, mode)
        BY <3>2, <3>4, BridgeAssumption DEF Window!Construct
      <4>2. QED
        BY <3>1, <4>1 DEF Window!Next, Window!Name
    <3>5. QED
      BY <3>3, <3>4
  <2>3. QED
    BY <1>1, <2>1, <2>2 DEF Launch
<1>2. CASE End
  <2>1. CASE phase = "new"
    <3>1. UNCHANGED windowVars /\ pc[Me] = "off" /\ mem[Me] = None
      BY <1>2, <2>1 DEF End, ManagerInv, InStep
    <3>2. Reboot /\ mem'[Me] = None /\ pc'[Me] = "off"
      BY <1>0, <1>2, <3>1 DEF End, Exit, Reboot
    <3>3. UNCHANGED WindowMem
      BY <3>1, <3>2 DEF WindowMem, Busy
    <3>4. QED
      BY <3>1, <3>3 DEF windowVars, controls, history, Window!vars, Window!selection,
                        Window!infoPanel, Window!history
  <2>2. CASE phase # "new"
    BY <1>2, <2>2 DEF End, Window!Next
  <2>3. QED
    BY <2>1, <2>2
<1>3. CASE Handle
  BY <1>3, ManagerAssumption DEF Handle, Window!Next
<1>4. CASE ClickApply \/ ClickDisable
  <2>1. /\ pc[Me] = "idle" /\ pc'[Me] \in Busy /\ memBefore' = mem[Me] /\ UNCHANGED windowVars
    BY <1>0, <1>4 DEF ClickApply, ClickDisable, BeginApply, BeginDisable, Goto, Busy
  <2>2. UNCHANGED WindowMem
    BY <2>1 DEF WindowMem, Busy
  <2>3. QED
    BY <2>1, <2>2 DEF windowVars, controls, history, Window!vars, Window!selection,
                      Window!infoPanel, Window!history
<1>5. CASE Work
  <2>1. /\ pc[Me] \in Busy /\ pc'[Me] \in Busy /\ UNCHANGED <<windowVars, memBefore>>
    BY <1>5, JobStepShape DEF Work
  <2>2. UNCHANGED WindowMem
    BY <2>1 DEF WindowMem
  <2>3. QED
    BY <2>1, <2>2 DEF windowVars, controls, history, Window!vars, Window!selection,
                      Window!infoPanel, Window!history
<1>6. CASE Return
  BY <1>6, ReturnIsAJob
<1>7. CASE CloseBox
  BY <1>7 DEF CloseBox, Window!Next
<1>8. CASE Around \/ UNCHANGED managerVars
  <2>1. UNCHANGED <<pc, mem, windowVars, memBefore>>
    BY <1>8 DEF Around, DaemonStart, DaemonReload, DaemonStop, managerVars, vars
  <2>2. UNCHANGED WindowMem
    BY <2>1 DEF WindowMem
  <2>3. QED
    BY <2>1, <2>2 DEF windowVars, controls, history, Window!vars, Window!selection,
                      Window!infoPanel, Window!history
<1>9. QED
  BY <1>1, <1>2, <1>3, <1>4, <1>5, <1>6, <1>7, <1>8 DEF ManagerNext

\* With the bridge below it, the window is the one SchedExtWindow describes,
\* under any fault model: to it a job is one edit of the memory.
THEOREM ManagerImplementsWindow == ManagerSpec => ImplementsWindow
<1>1. ManagerInit => Window!Init
  BY DEF ManagerInit
<1>2. TypeOK /\ ManagerInv /\ [ManagerNext]_managerVars => [Window!Next]_(Window!vars)
  BY StepsAreWindowSteps DEF WindowStep
<1>3. QED
  BY ManagerAlways, <1>1, <1>2, PTL DEF ManagerSpec, ImplementsWindow, Window!Spec

-----------------------------------------------------------------------------
\* What the two halves promise together.

\* The assumptions of the parts hold of the composition.
LEMMA PartsAssumed == Solo /\ Window!WindowAssumption /\ Window!ConfigAssumption
BY ManagerAssumption, ConfigAssumption
   DEF Solo, ConfigAssumption, Window!ConfigAssumption, Config, Window!Config

\* The types of both halves, and their control states in step: the window waits
\* exactly while the bridge works and its message box is up exactly after an
\* error (schedext-window-internal.cpp:602-618).
THEOREM ManagerTypes == ManagerSpec => []ManagerTypeOK
<1>1. ManagerSpec => []Window!WindowInv
  BY ManagerImplementsWindow, PartsAssumed, Window!WindowAlways, PTL DEF ImplementsWindow
<1>2. TypeOK /\ ManagerInv /\ Window!WindowInv => ManagerTypeOK
  BY DEF ManagerInv, Window!WindowInv, ManagerTypeOK
<1>3. QED
  BY ManagerAlways, <1>1, <1>2, PTL

\* An installed job of the window is what the daemon boots with
\* (lib.rs:230-247).
THEOREM ManagerPersists == ManagerSpec => []PersistedAsRequested
BY ManagerImplementsBridge, PartsAssumed, SoloPersists, PTL

\* The application is a configuration session on /etc, clicks and dialogs and all
\* (lib.rs:101-136, 245, 256).
THEOREM ManagerIsASession == ManagerSpec => ImplementsSession
BY ManagerImplementsBridge, PartsAssumed, SoloImplementsSession, PTL

\* An untouched field shows what /etc gives the selection, before any job and
\* after every approved one: the window's field follows the memory, and the
\* bridge's memory follows the file.
THEOREM FieldAlwaysShowsDisk == ManagerSpec => []FieldShowsDisk
<1>1. ManagerSpec => []Window!FlagsFollowMemory
  BY ManagerImplementsWindow, PartsAssumed, Window!FlagsAlwaysFollow, PTL DEF ImplementsWindow
<1>2. ManagerSpec => []MemoryInSync
  BY ManagerImplementsBridge, PartsAssumed, SoloInSync, PTL
<1>3. Window!FlagsFollowMemory /\ MemoryInSync => FieldShowsDisk
  <2> SUFFICES ASSUME Window!FlagsFollowMemory, MemoryInSync,
                      Idle(Me), log[Me].outcome \in {"none", "installed"},
                      Window!Settled, ~typed, sched \in Sched
               PROVE  Window!StandsFor(flags, ArgsFor(Loaded(etc), sched, Window!SelectedMode))
    BY DEF FieldShowsDisk
  <2>1. WindowMem = Loaded(etc)
    BY ManagerAssumption DEF MemoryInSync, WindowMem, Idle, Busy
  <2>2. Window!ArgsShown(WindowMem, sched, index)
          = ArgsFor(Loaded(etc), sched, Window!SelectedMode)
    BY <2>1 DEF Window!ArgsShown, Window!ArgsFor, ArgsFor, Window!SelectedMode
  <2>3. QED
    BY <2>2 DEF Window!FlagsFollowMemory
<1>4. QED
  BY <1>1, <1>2, <1>3, PTL

\* The edit of a job whose arguments are the ones in memory stores none: what
\* the click read from an untouched field, many steps before the edit, is still
\* what the memory resolves the selection to.
LEMMA StageStoresNothing ==
  ASSUME TypeOK, ManagerInv, Window!FieldRoundTrips,
         Stage(Me), job[Me].op = "apply", ~typed,
         Window!Typeable(ArgsFor(mem[Me], sched, Window!SelectedMode))
  PROVE  mem'[Me].scheds = mem[Me].scheds
<1>1. /\ Me \in Manager /\ mem \in [Manager -> Config \cup {None}]
      /\ pc[Me] = "stage" /\ pc[Me] \in Busy
  BY ManagerAssumption DEF TypeOK, Stage, Busy, ApplyOnly
<1>2. job[Me].sched \in Sched
  BY <1>1 DEF TypeOK, HoldsWhatItUses, AfterParse
<1>3. /\ job[Me] = [op |-> "apply", sched |-> sched,
                    mode |-> Window!SelectedMode, args |-> Window!Parsed(flags)]
      /\ mem[Me] = memBefore
  BY <1>1 DEF ManagerInv, JobIsShown, BeforeEdit
<1>4. Window!ArgsShown(WindowMem, sched, index) = ArgsFor(mem[Me], sched, Window!SelectedMode)
  <2>1. WindowMem = mem[Me] /\ sched \in Sched
    BY <1>1, <1>2, <1>3 DEF WindowMem
  <2>2. QED
    BY <2>1 DEF Window!ArgsShown, Window!ArgsFor, ArgsFor, Window!SelectedMode
<1>5. Window!Parsed(flags) = ArgsFor(mem[Me], sched, Window!SelectedMode)
  <2>1. Window!Settled
    BY <1>1 DEF ManagerInv, InStep, Window!Attended, Window!Settled
  <2>2. QED
    BY <1>4, <2>1 DEF Window!FieldRoundTrips
<1>6. mem'[Me] = WithDefault(mem[Me], job[Me].sched, job[Me].mode)
  <2>1. mem'[Me] = Edited(Me)
    BY <1>1 DEF Stage
  <2>2. QED
    BY <1>3, <1>5, <2>1 DEF Edited, Applied
<1>7. mem[Me] \in Config
  BY <1>1 DEF TypeOK, HoldsWhatItUses, Busy
<1>8. QED
  BY <1>6, <1>7 DEF WithDefault, Config

\* An Apply of an untouched field changes no stored argument list: the window's
\* join, trim and split and the bridge's comparison with what the configuration
\* resolves to undo each other (schedext-window-internal.cpp:609,
\* lib.rs:203-210, 237-241).
THEOREM ManagerStoresNothingUntyped == ManagerSpec => UntouchedStoresNothing
<1>1. ManagerSpec => []Window!FieldRoundTrips
  BY ManagerImplementsWindow, PartsAssumed, Window!FieldAlwaysRoundTrips, PTL
     DEF ImplementsWindow
<1>2. TypeOK /\ ManagerInv /\ Window!FieldRoundTrips /\ [ManagerNext]_managerVars
      => [Stage(Me) /\ job[Me].op = "apply" /\ ~typed
          /\ Window!Typeable(ArgsFor(mem[Me], sched, Window!SelectedMode))
          => mem'[Me].scheds = mem[Me].scheds]_managerVars
  BY StageStoresNothing
<1>3. QED
  BY ManagerAlways, <1>1, <1>2, PTL DEF ManagerSpec, UntouchedStoresNothing

\* An installed Apply of the window is what the daemon runs, if memory, /etc and
\* the daemon agreed at the click and the daemon has switched (lib.rs:212-223).
THEOREM ManagerRuns == ManagerSpec => []AppliedRuns
BY ManagerImplementsBridge, PartsAssumed, SoloRuns, PTL

\* Every argument list in memory or in a file was shown in the window's field at
\* a click for that scheduler and profile, or was there from the beginning.
THEOREM ManagerStoresRequested == ManagerSpec => []OnlyRequestedArgs
BY ManagerImplementsBridge, ArgumentsAreRequested, PTL

\* An Apply of the window that began with memory and /etc in agreement leaves the
\* stored lists of the other schedulers and profiles as they were
\* (lib.rs:101-136); a refused copy before it can break that agreement.
THEOREM ManagerKeepsOthers == ManagerSpec => OthersArgsKept
BY ManagerImplementsBridge, OthersKept, PTL
===============================================================================
