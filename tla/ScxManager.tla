------------------------------ MODULE ScxManager ------------------------------
(***************************************************************************)
(* One running scx-manager: the main window (SchedExtWindow) on top of the *)
(* bridge (ScxBridge).  The GUI thread runs both: a click fixes the job's  *)
(* arguments from what the window shows, the window is deaf until the      *)
(* bridge returns, and the handler's end decides whether a message box     *)
(* opens.  The configuration in memory is one and the same.                *)
(***************************************************************************)
EXTENDS ScxBridge, Integers

CONSTANTS
  Me,            \* the application
  First, ProfileAware, Resource, Unparsable, Typed, MaxJobs,   \* as in SchedExtWindow
  Tried          \* bound: the profiles the user chooses and the daemon reports

VARIABLES
  phase, shown, sched, index, comboVisible, flags, card, section, dialog,
  daemonMode, typed, adjusted, jobs,   \* as in SchedExtWindow
  memBefore                            \* history: the memory when the running job began

controls == <<phase, shown, sched, index, comboVisible, flags, card, section>>
history == <<daemonMode, adjusted>>
windowVars == <<controls, dialog, typed, jobs, history>>
managerVars == <<vars, windowVars, memBefore>>

\* To the window a job is one step, made when the bridge returns.
WindowMem == IF pc[Me] \in Busy THEN memBefore ELSE mem[Me]

\* The window, with what is proved of it.
Window == INSTANCE SchedExtWindowProofs WITH mem <- WindowMem, SavedConfig <- Config

ASSUME ManagerAssumption ==
  /\ Manager = {Me}
  /\ Tried \subseteq 0..4
  /\ Window!WindowAssumption

ManagerInit == Init /\ Window!Init /\ memBefore = None

-----------------------------------------------------------------------------
\* main: the window's constructor reads the configuration and asks the daemon
\* which schedulers there are, what it runs and in which mode; the list may be
\* empty, and each of the other two questions may end in an error.
Launch ==
  /\ Start(Me)
  /\ UNCHANGED memBefore
  /\ CASE Loaded(etc) = None -> Window!ConstructNoConfig
       [] Loaded(etc) # None /\ ~daemonUp -> Window!ConstructNoDaemon
       [] OTHER -> \E list \in {Listed, {}}, current \in {running, None},
                      mode \in {m \in Mode : Window!RawMode[m] \in Tried} \cup {None} :
            Window!Construct(list, IF current = None THEN None ELSE current.sched, mode)

\* The application ends, or is ended; nothing of the window survives.
End ==
  /\ Exit(Me) \/ Reboot
  /\ IF phase = "new" THEN UNCHANGED windowVars ELSE Window!Relaunch
  /\ memBefore' = None

\* The window's own handlers, which call nothing that waits.
Handle ==
  /\ pc[Me] \notin Busy
  /\ UNCHANGED <<vars, memBefore>>
  /\ \/ Window!Show
     \/ \E s \in Listed : Window!SelectSched(s)
     \/ \E i \in Tried : Window!SelectProfile(i)
     \/ \E text \in Typed : Window!EditFlags(text)
     \/ dialog # "job" /\ Window!Dismiss

ClickApply_StaleMode ==
  /\ Window!Attended /\ jobs < MaxJobs
  /\ BeginApply(Me)
  /\ job'[Me] = [op |-> "apply", sched |-> sched, mode |-> "Auto", args |-> Window!Parsed(flags)]
  /\ memBefore' = mem[Me]
  /\ UNCHANGED windowVars

\* on_apply up to the call of the bridge
ClickApply ==
  /\ Window!Attended /\ jobs < MaxJobs
  /\ BeginApply(Me)
  /\ job'[Me] = [op |-> "apply", sched |-> sched,
                 mode |-> Window!SelectedMode, args |-> Window!Parsed(flags)]
  /\ memBefore' = mem[Me]
  /\ UNCHANGED windowVars

\* on_disable up to the call of the bridge
ClickDisable ==
  /\ Window!Attended /\ jobs < MaxJobs
  /\ BeginDisable(Me)
  /\ memBefore' = mem[Me]
  /\ UNCHANGED windowVars

\* A step of the bridge that does not return to the handler.
Work ==
  /\ JobStep(Me)
  /\ pc'[Me] \in Busy
  /\ UNCHANGED <<windowVars, memBefore>>

Return_BoxForgotten ==
  /\ JobStep(Me)
  /\ pc'[Me] \notin Busy
  /\ typed' = (typed /\ (job[Me].op = "disable" \/ job[Me].sched \notin Sched))
  /\ jobs' = jobs + 1
  /\ memBefore' = None
  /\ UNCHANGED <<controls, dialog, history>>

\* The step with which the bridge returns, and the rest of the handler.
Return ==
  /\ JobStep(Me)
  /\ pc'[Me] \notin Busy
  /\ dialog' = IF pc'[Me] = "error" THEN "job" ELSE "none"
  /\ typed' = (typed /\ (job[Me].op = "disable" \/ job[Me].sched \notin Sched))
  /\ jobs' = jobs + 1
  /\ memBefore' = None
  /\ UNCHANGED <<controls, history>>

CloseBox ==
  /\ DismissError(Me)
  /\ UNCHANGED memBefore
  /\ Window!Dismiss

Around == (DaemonStart \/ DaemonReload \/ DaemonStop) /\ UNCHANGED <<windowVars, memBefore>>

ManagerNext ==
  \/ Launch \/ End \/ Handle \/ ClickApply \/ ClickDisable
  \/ Work \/ Return \/ CloseBox \/ Around

ManagerSpec == ManagerInit /\ [][ManagerNext]_managerVars

-----------------------------------------------------------------------------
\* The control states of the window and of the bridge go together.
InStep ==
  /\ phase = "new" <=> pc[Me] = "off"
  /\ phase = "inert" <=> pc[Me] = "inert"
  /\ dialog = "job" <=> pc[Me] = "error"
  /\ pc[Me] \in Busy => Window!Attended /\ jobs < MaxJobs

ManagerTypeOK ==
  /\ TypeOK
  /\ Window!TypeOK
  /\ memBefore \in Config \cup {None}
  /\ InStep

\* With the bridge below it the window is the one SchedExtWindow describes: a
\* job of a dozen steps, some of which fail, is to it one edit of the memory.
ImplementsWindow == Window!Spec

\* What is shown of a known scheduler is what the file in /etc gives it, not
\* only the memory, after every job whose copy was approved and before any job,
\* unless the user has typed in the field (lib.rs:188-248 against
\* schedext-window-internal.cpp:549-565).
FieldShowsDisk ==
  Idle(Me) /\ log[Me].outcome \in {"none", "installed"}
  /\ Window!Settled /\ ~typed /\ sched \in Sched
  => Window!StandsFor(flags, ArgsFor(Loaded(etc), sched, Window!SelectedMode))

\* An Apply the user typed nothing for changes no stored argument list, however
\* the field came to hold its text, unless the list shown cannot be typed
\* (schedext-window-internal.cpp:609, lib.rs:203-210, 237-241).
UntouchedStoresNothing ==
  [][Stage(Me) /\ job[Me].op = "apply" /\ ~typed
     /\ Window!Typeable(ArgsFor(mem[Me], sched, Window!SelectedMode))
     => mem'[Me].scheds = mem[Me].scheds]_managerVars
=============================================================================
