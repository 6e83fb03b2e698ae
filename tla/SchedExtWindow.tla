--------------------------- MODULE SchedExtWindow ----------------------------
(***************************************************************************)
(* The main window (src/schedext-window-internal.cpp): its two combo       *)
(* boxes, the flags field, the info card and the handlers that keep them   *)
(* in step, driven by one user.  The bridge appears as what it leaves in   *)
(* the configuration in memory; ScxBridge has its steps.                   *)
(***************************************************************************)
EXTENDS LoaderConfig, SchedModes, FlagsText, SchedulerMetadata

CONSTANTS
  Listed,         \* get_supported_scheds: what the daemon reports, if anything
  First,          \* the first of them, which the combo box shows by itself
  ProfileAware,   \* the five schedulers on_sched_changed names
  Typed,          \* texts the user may type into the flags field
  SavedConfig,    \* configurations a launch may read from /etc
  MaxJobs         \* bound on Apply and Disable presses in one launch

\* What the flags field can hold.
Text == {<< >>} \cup Typed \cup {Joined(args) : args \in ArgList}

ASSUME WindowAssumption ==
  /\ First \in Listed /\ None \notin Listed /\ None \notin ProfileAware
  /\ SavedConfig \subseteq Config
  /\ Mode = SchedMode /\ AutoMode = "Auto"
  /\ ArgList \subseteq Seq(Seq(STRING))
  /\ \A text \in Text : Parsed(text) \in ArgList
  /\ MaxJobs \in Nat

VARIABLES
  phase,         \* "new", "inert" after a failed constructor, or "ready"
  shown,         \* the window is visible
  mem,           \* m_scx_config
  sched,         \* text of schedext_combo_box, None while it has no items
  index,         \* index of schedext_profile_combo_box, -1 while it has none
  comboVisible,  \* the profile combo box was not hidden by setVisible(false)
  flags,         \* text of schedext_flags_edit
  card,          \* what apply_scheduler_info put into the card
  section,       \* what apply_profile_info put into the card
  dialog,        \* the modal message box, if one is open, and who opened it
  daemonMode,    \* history: the mode the daemon reported at launch, if nobody has changed it
  typed,         \* history: the user has edited the flags field since it was filled
  adjusted,      \* history: a handler has run since the window was shown
  jobs           \* number of jobs, up to MaxJobs

selection == <<sched, index, comboVisible>>
infoPanel == <<card, section>>
history == <<daemonMode, typed, adjusted, jobs>>
vars == <<phase, shown, mem, selection, flags, infoPanel, dialog, history>>

Profile == {ProfileNames[i] : i \in 1..5}

-----------------------------------------------------------------------------
\* build_info_card: everything in the card starts hidden and empty.
NoCard == [info |-> NoScheduler, visible |-> {}]
NoSection == [visible |-> FALSE, profile |-> "", text |-> ""]

\* update_info_panel and apply_scheduler_info: the three texts and the chip rows
\* that have chips, or the notice that the scheduler is not in the catalogue.
CardFor(s) ==
  LET info == SchedulerInfo(s)
  IN IF Catalogue.valid /\ info.found
     THEN [info    |-> info,
           visible |-> {"texts"} \cup {row \in {"hardware", "workloads"} : info[row] # << >>}]
     ELSE [info |-> NoScheduler, visible |-> {"fallback"}]

\* There is something to say about a profile.
Described(s, i) ==
  /\ Catalogue.valid
  /\ ProfileInfo(ProfileAt(i), s).found
  /\ ProfileInfo(ProfileAt(i), s).description # ""

Filled(s, i) ==
  [visible |-> TRUE, profile |-> ProfileAt(i), text |-> ProfileInfo(ProfileAt(i), s).description]

SectionFor_HiddenComboIgnored(old, s, i, comboOn, windowOn) ==
  IF windowOn /\ Described(s, i) THEN Filled(s, i) ELSE [old EXCEPT !.visible = FALSE]

SectionFor_NeverHidden(old, s, i, comboOn, windowOn) ==
  IF comboOn /\ windowOn /\ Described(s, i) THEN Filled(s, i) ELSE old

\* update_profile_section and apply_profile_info; a hidden section keeps its
\* texts.  Nothing in a window is visible before the window is.
SectionFor(old, s, i, comboOn, windowOn) ==
  IF comboOn /\ windowOn /\ Described(s, i)
  THEN Filled(s, i) ELSE [old EXCEPT !.visible = FALSE]

\* What may be selected; None while the combo box has no items.
Name == Listed \cup {None}

Card == {NoCard} \cup {CardFor(s) : s \in Name}
Descriptions == {ProfileInfo(name, s).description : name \in Profile, s \in Name}
Section == [visible : BOOLEAN, profile : Profile \cup {""}, text : Descriptions \cup {""}]

SwitchesOK ==
  /\ shown \in BOOLEAN /\ comboVisible \in BOOLEAN
  /\ typed \in BOOLEAN /\ adjusted \in BOOLEAN

TypeOK ==
  /\ phase \in {"new", "inert", "ready"}
  /\ SwitchesOK
  /\ mem \in Config \cup {None}
  /\ phase = "ready" => mem # None /\ index # -1
  /\ sched \in Name
  /\ index \in -1..4
  /\ flags \in Text
  /\ card \in Card
  /\ section \in Section
  /\ dialog \in {"none", "job", "profileChange", "schedChange"}
  /\ daemonMode \in Mode \cup {None}
  /\ jobs \in 0..MaxJobs

-----------------------------------------------------------------------------
SelectedMode == BridgeMode(ProfileAt(index))

\* What a configuration gives the selection; nothing after an error.
ArgsShown(cfg, s, i) ==
  IF s \in Sched THEN ArgsFor(cfg, s, BridgeMode(ProfileAt(i))) ELSE << >>

\* The text on_sched_profile_changed puts into the flags field.
FlagsFor(cfg, s, i) == Joined(ArgsShown(cfg, s, i))

-----------------------------------------------------------------------------
Init ==
  /\ phase = "new"
  /\ shown = FALSE
  /\ mem = None
  /\ sched = None /\ index = -1 /\ comboVisible = TRUE
  /\ flags = << >>
  /\ card = NoCard /\ section = NoSection
  /\ dialog = "none"
  /\ daemonMode = None
  /\ typed = FALSE /\ adjusted = FALSE /\ jobs = 0

ConstructNoConfig_ReturnForgotten ==
  /\ phase = "new"
  /\ phase' = "ready"
  /\ UNCHANGED <<shown, mem, selection, flags, infoPanel, dialog, history>>

\* The constructor gives up when init_config fails; its window is still shown.
ConstructNoConfig ==
  /\ phase = "new"
  /\ phase' = "inert"
  /\ UNCHANGED <<shown, mem, selection, flags, infoPanel, dialog, history>>

\* ... or when the daemon does not answer; it hides the controls first.
ConstructNoDaemon ==
  /\ phase = "new"
  /\ phase' = "inert"
  /\ mem' \in SavedConfig
  /\ comboVisible' = FALSE
  /\ UNCHANGED <<shown, sched, index, flags, infoPanel, dialog, history>>

\* The constructor: `list`, `current` and `mode` are the daemon's answers, None
\* for an error.  A scheduler that is not in the list leaves the first one
\* selected; a list may be empty and leaves none, with the buttons connected.
\* The message boxes it may open are closed before it returns.
Construct(list, current, mode) ==
  /\ phase = "new"
  /\ phase' = "ready"
  /\ mem' \in SavedConfig
  /\ sched' = IF list = {} THEN None ELSE IF current \in list THEN current ELSE First
  /\ index' = IF mode = None THEN 0 ELSE RawMode[ModeFromRaw(DaemonNumber[mode])]
  /\ daemonMode' = mode
  /\ comboVisible' = (sched' \in ProfileAware)
  /\ flags' = FlagsFor(mem', sched', index')
  /\ card' = CardFor(sched')
  /\ section' = SectionFor(section, sched', index', comboVisible', FALSE)
  /\ UNCHANGED <<shown, dialog, typed, adjusted, jobs>>

\* main shows the window; an embedder may hide it and show it again.
Show ==
  /\ phase # "new" /\ ~shown
  /\ shown' = TRUE
  /\ adjusted' = FALSE
  /\ UNCHANGED <<phase, mem, selection, flags, infoPanel, dialog, daemonMode, typed, jobs>>

Hide ==
  /\ shown /\ dialog = "none"
  /\ shown' = FALSE
  /\ UNCHANGED <<phase, mem, selection, flags, infoPanel, dialog, history>>

\* The application ends, is killed or loses its machine, wherever it is, and is
\* launched again.
Relaunch ==
  /\ phase # "new"
  /\ phase' = "new" /\ shown' = FALSE /\ mem' = None
  /\ sched' = None /\ index' = -1 /\ comboVisible' = TRUE
  /\ flags' = << >> /\ card' = NoCard /\ section' = NoSection
  /\ dialog' = "none" /\ daemonMode' = None
  /\ typed' = FALSE /\ adjusted' = FALSE /\ jobs' = 0

Attended == phase = "ready" /\ shown /\ dialog = "none"

\* on_sched_profile_changed fills the flags field and then the profile section,
\* but first waits for its message box when the bridge does not know the
\* scheduler.
SelectProfile(i) ==
  /\ Attended /\ comboVisible /\ i # index
  /\ index' = i
  /\ daemonMode' = None
  /\ IF sched \in Sched
     THEN /\ flags' = FlagsFor(mem, sched, i)
          /\ section' = SectionFor(section, sched, i, comboVisible, shown)
          /\ typed' = FALSE /\ adjusted' = TRUE
          /\ UNCHANGED dialog
     ELSE dialog' = "profileChange" /\ UNCHANGED <<flags, section, typed, adjusted>>
  /\ UNCHANGED <<phase, shown, mem, sched, comboVisible, card, jobs>>

SelectSched_FlagsKept(s) ==
  /\ Attended /\ sched # None /\ s # sched
  /\ sched' = s
  /\ comboVisible' = (s \in ProfileAware)
  /\ section' = SectionFor(section, s, index, comboVisible', shown)
  /\ card' = CardFor(s)
  /\ adjusted' = TRUE
  /\ UNCHANGED <<phase, shown, mem, index, flags, dialog, daemonMode, typed, jobs>>

\* on_sched_changed: the profile combo box, then on_sched_profile_changed, then
\* update_info_panel.
SelectSched(s) ==
  /\ Attended /\ sched # None /\ s # sched
  /\ sched' = s
  /\ comboVisible' = (s \in ProfileAware)
  /\ IF s \in Sched
     THEN /\ flags' = FlagsFor(mem, s, index)
          /\ section' = SectionFor(section, s, index, comboVisible', shown)
          /\ card' = CardFor(s)
          /\ typed' = FALSE /\ adjusted' = TRUE
          /\ UNCHANGED dialog
     ELSE dialog' = "schedChange" /\ UNCHANGED <<flags, infoPanel, typed, adjusted>>
  /\ UNCHANGED <<phase, shown, mem, index, daemonMode, jobs>>

Dismiss_HandlerAbandoned ==
  /\ dialog # "none"
  /\ dialog' = "none"
  /\ UNCHANGED <<phase, shown, mem, selection, flags, infoPanel, history>>

\* The user closes the message box; the handler that opened it goes on.
Dismiss ==
  /\ dialog # "none"
  /\ dialog' = "none"
  /\ IF dialog \in {"profileChange", "schedChange"}
     THEN /\ flags' = << >>
          /\ section' = SectionFor(section, sched, index, comboVisible, shown)
          /\ typed' = FALSE /\ adjusted' = TRUE
     ELSE UNCHANGED <<flags, section, typed, adjusted>>
  /\ card' = IF dialog = "schedChange" THEN CardFor(sched) ELSE card
  /\ UNCHANGED <<phase, shown, mem, selection, daemonMode, jobs>>

EditFlags(text) ==
  /\ Attended
  /\ flags' = text
  /\ typed' = TRUE
  /\ UNCHANGED <<phase, shown, mem, selection, infoPanel, dialog, daemonMode, adjusted, jobs>>

\* on_apply.  The bridge refuses a scheduler it does not know; otherwise it
\* edits the memory, whether or not it then fails and a message box opens.
OnApply ==
  /\ Attended /\ jobs < MaxJobs
  /\ jobs' = jobs + 1
  /\ IF sched \in Sched
     THEN /\ mem' = Applied(mem, sched, SelectedMode, Parsed(flags))
          /\ dialog' \in {"none", "job"}
          /\ typed' = FALSE
     ELSE dialog' = "job" /\ UNCHANGED <<mem, typed>>
  /\ UNCHANGED <<phase, shown, selection, flags, infoPanel, daemonMode, adjusted>>

\* on_disable
OnDisable ==
  /\ Attended /\ jobs < MaxJobs
  /\ jobs' = jobs + 1
  /\ mem' = Disabled(mem)
  /\ dialog' \in {"none", "job"}
  /\ UNCHANGED <<phase, shown, selection, flags, infoPanel, daemonMode, typed, adjusted>>

Next ==
  \/ ConstructNoConfig \/ ConstructNoDaemon
  \/ \E list \in {Listed, {}}, current \in Name, mode \in Mode \cup {None} :
       Construct(list, current, mode)
  \/ Show \/ Hide \/ Relaunch \/ Dismiss
  \/ \E s \in Listed : SelectSched(s)
  \/ \E i \in 0..4 : SelectProfile(i)
  \/ \E text \in Typed : EditFlags(text)
  \/ OnApply \/ OnDisable

Spec == Init /\ [][Next]_vars

-----------------------------------------------------------------------------
\* No handler is waiting in a message box.
Settled == phase = "ready" /\ dialog \in {"none", "job"}

\* Whenever no handler is half done, the card describes the selected scheduler:
\* on_sched_changed is the only handler that fills it and it can stop in the
\* middle, at the message box of line 560.
CardFollowsSelection == Settled => card = CardFor(sched)

StandsFor(text, args) == text = Joined(args) \/ Parsed(text) = args

\* The flags field, unless the user has typed in it, shows what the memory
\* resolves the selection to, also after jobs have edited the memory behind it:
\* it is that list's text, or one that stands for that list.
FlagsFollowMemory ==
  Settled /\ ~typed => StandsFor(flags, ArgsShown(mem, sched, index))

\* An Apply of an untouched field asks for exactly the arguments in the
\* configuration, so it takes the mode switch and stores none, unless one of
\* them holds a blank or the list begins or ends in white space: joining,
\* trimming and splitting again gives back every list that can be typed,
\* whatever was typed to get it (lib.rs:204-208).
FieldRoundTrips ==
  Settled /\ ~typed /\ Typeable(ArgsShown(mem, sched, index)) =>
    Parsed(flags) = ArgsShown(mem, sched, index)

\* A visible profile section names the selected profile and holds its
\* description for the selected scheduler, and the profile can be chosen.
SectionNeverStale ==
  Settled /\ section.visible =>
    /\ sched \in ProfileAware
    /\ section = Filled(sched, index)
    /\ Described(sched, index)

\* Once a handler has run in a visible window, the section mirrors the
\* visibility of the profile combo box, as far as there is a description.
SectionMirrorsAdjusted ==
  Settled /\ shown /\ adjusted => (section.visible <=> comboVisible /\ Described(sched, index))

\* As above from the moment the window is shown (schedext-window-internal.hpp:135).
SectionMirrorsCombo ==
  Settled /\ shown => (section.visible <=> comboVisible /\ Described(sched, index))

\* Until the user chooses a profile, an Apply asks for the mode the daemon has
\* reported, through five tables: its number, the C++ mode, the combo box index
\* ("the index of profiles and scxmode values MUST match"), the profile name, and
\* the number that goes back to the bridge (lib.rs:311).
ProfileShowsDaemonMode ==
  phase = "ready" /\ daemonMode # None => SelectedMode = daemonMode

\* A scheduler without a profile selector is applied in its default mode.
UnawareRunsDefault ==
  Attended /\ sched \in Sched \ ProfileAware => SelectedMode = "Auto"
=============================================================================
