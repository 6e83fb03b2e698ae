-------------------------- MODULE CurrentSchedLabel --------------------------
(***************************************************************************)
(* The indicator of the running scheduler: get_current_scheduler reads two *)
(* sysfs files one after the other, on a timer of the GUI thread, while    *)
(* the kernel loads and unloads schedulers (schedext-window-internal.cpp). *)
(* The thread does not serve the timer while a job waits for an external   *)
(* call.                                                                   *)
(***************************************************************************)
EXTENDS FiniteSets

CONSTANTS
  Ops,        \* names of BPF schedulers
  NoText,     \* an empty text, a file that cannot be read
  Unknown,    \* the text "unknown"
  States      \* texts of /sys/kernel/sched_ext/state other than "enabled"

ASSUME LabelAssumption ==
  /\ {"disabled", "enabling", "disabling"} \subseteq States
  /\ "enabled" \notin States
  /\ Ops \cap (States \cup {NoText, Unknown}) = {}
  /\ NoText # Unknown /\ NoText \notin States \cup {"enabled"}

VARIABLES
  opened,    \* how the window's constructor went
  state,     \* /sys/kernel/sched_ext/state, NoText where it cannot be read
  ops,       \* /sys/kernel/sched_ext/root/ops, NoText while there is none
  label,     \* text of current_sched_label
  reading,   \* the refresh has read "enabled" and has yet to read the name
  blocked,   \* the GUI thread is inside a job
  seen       \* history: names in ops since the last refresh began, until it ended

vars == <<opened, state, ops, label, reading, blocked, seen>>

TypeOK ==
  /\ opened \in {"noConfig", "noDaemon", "ready"}
  /\ state \in States \cup {"enabled", NoText}
  /\ ops \in Ops \cup {NoText}
  /\ label \in Ops \cup States \cup {NoText, Unknown}
  /\ reading \in BOOLEAN /\ blocked \in BOOLEAN
  /\ seen \subseteq Ops \cup {NoText}
  /\ state \in {"disabled", NoText} <=> ops = NoText
  /\ ~(reading /\ blocked)
  /\ reading => opened # "noConfig"
  /\ blocked => opened = "ready"

\* The constructor starts the timer once it has a configuration, be there a
\* daemon or not, and connects the buttons when it has both.  A kernel without
\* sched_ext has neither file and never gets one.
Init ==
  /\ opened \in {"noConfig", "noDaemon", "ready"}
  /\ state \in {"disabled", NoText} /\ ops = NoText
  /\ label = Unknown
  /\ reading = FALSE /\ blocked = FALSE
  /\ seen = {}

-----------------------------------------------------------------------------
\* The kernel: a scheduler registers, becomes active, and is removed.
KernelTo(newState, newOps) ==
  /\ state' = newState
  /\ ops' = newOps
  /\ seen' = IF reading THEN seen \cup {newOps} ELSE seen
  /\ UNCHANGED <<opened, label, reading, blocked>>

Enabling(s) == state = "disabled"  /\ KernelTo("enabling", s)
Enabled     == state = "enabling"  /\ KernelTo("enabled", ops)
Disabling   == state \in {"enabling", "enabled"} /\ KernelTo("disabling", ops)
Removed     == state = "disabling" /\ KernelTo("disabled", NoText)

-----------------------------------------------------------------------------
ReadState_NeedsDaemon ==
  /\ opened = "ready" /\ ~reading /\ ~blocked
  /\ seen' = {ops}
  /\ IF state = "enabled"
     THEN reading' = TRUE /\ UNCHANGED label
     ELSE label' = state /\ UNCHANGED reading
  /\ UNCHANGED <<opened, state, ops, blocked>>

\* The timer fires: the first file is read, and what it says, nothing if it
\* cannot be read, is shown unless that is "enabled".
ReadState ==
  /\ opened # "noConfig" /\ ~reading /\ ~blocked
  /\ seen' = {ops}
  /\ IF state = "enabled"
     THEN reading' = TRUE /\ UNCHANGED label
     ELSE label' = state /\ UNCHANGED reading
  /\ UNCHANGED <<opened, state, ops, blocked>>

ReadOps_KeepsOld ==
  /\ reading
  /\ reading' = FALSE
  /\ label' = IF ops = NoText THEN label ELSE ops
  /\ UNCHANGED <<opened, state, ops, blocked, seen>>

\* The second file, which may be gone by now.
ReadOps ==
  /\ reading
  /\ reading' = FALSE
  /\ label' = IF ops = NoText THEN Unknown ELSE ops
  /\ UNCHANGED <<opened, state, ops, blocked, seen>>

Block_Reentrant ==
  /\ opened = "ready" /\ ~blocked
  /\ blocked' = TRUE
  /\ UNCHANGED <<opened, state, ops, label, reading, seen>>

\* A job occupies the thread from a button's click to its end.
Block ==
  /\ opened = "ready" /\ ~reading /\ ~blocked
  /\ blocked' = TRUE
  /\ UNCHANGED <<opened, state, ops, label, reading, seen>>

Unblock ==
  /\ blocked
  /\ blocked' = FALSE
  /\ UNCHANGED <<opened, state, ops, label, reading, seen>>

Next ==
  \/ \E s \in Ops : Enabling(s)
  \/ Enabled \/ Disabling \/ Removed
  \/ ReadState \/ ReadOps \/ Block \/ Unblock

\* The timer is served again and again, although a job may come first each
\* time (strong fairness: the thread is free infinitely often); jobs end.
Fairness == SF_vars(ReadState) /\ WF_vars(ReadOps) /\ WF_vars(Unblock)
Spec == Init /\ [][Next]_vars /\ Fairness

-----------------------------------------------------------------------------
\* A refresh that is over never leaves the name of a scheduler that was already
\* gone when it began: the name comes from the second read or not at all.
NoStaleName == ~reading /\ label \in Ops => label \in seen

\* What the two files say when they are read together.
KernelShows == IF state = "enabled" THEN ops ELSE state

\* What the kernel says for good, be it a scheduler, a state or nothing at all,
\* the label comes to say and keeps saying, "even without scx_loader" but not
\* without a configuration (line 463); "the indicator is empty" on a kernel
\* without sched_ext (docs/USER_GUIDE.md:344).
LabelCatchesUp ==
  opened # "noConfig" =>
    \A text \in Ops \cup States \cup {NoText} :
      <>[](KernelShows = text) => <>[](label = text)
=============================================================================
