------------------------ MODULE SchedExtWindowProofs -------------------------
(***************************************************************************)
(* Safety of the main window, for any list of schedulers, any catalogue,   *)
(* any saved configurations and any number of jobs.                        *)
(***************************************************************************)
EXTENDS SchedExtWindow, LoaderConfigProofs, FlagsTextProofs

\* The combo box of profiles is never visible while the box shows a scheduler
\* without profiles, and a daemon's mode is on record only before the user has
\* chosen one; a message box of a handler waits over an unknown scheduler.
HandlerInv ==
  /\ phase = "ready" => /\ mem \in Config
                        /\ sched \in Name
                        /\ index \in 0..4
                        /\ comboVisible = (sched \in ProfileAware)
  /\ dialog \in {"profileChange", "schedChange"} => phase = "ready" /\ sched \notin Sched
  /\ dialog # "none" => phase = "ready" /\ shown
  /\ phase = "new" => ~shown

WindowInv ==
  /\ TypeOK
  /\ HandlerInv
  /\ CardFollowsSelection
  /\ dialog = "profileChange" => card = CardFor(sched)
  /\ FlagsFollowMemory
  /\ SectionNeverStale
  /\ SectionMirrorsAdjusted
  /\ ProfileShowsDaemonMode

-----------------------------------------------------------------------------
\* The five mode tables agree: the number of a daemon's mode, read as a C++ mode,
\* is the index of a combo box entry whose name the bridge turns into that mode.
LEMMA TablesAgree ==
  ASSUME NEW m \in SchedMode,
         NEW i, i = RawMode[ModeFromRaw(DaemonNumber[m])]
  PROVE  /\ i \in 0..4
         /\ BridgeMode(ProfileAt(i)) = m
<1>1. CASE m = "Auto"
  BY <1>1 DEF RawMode, ModeFromRaw, DaemonNumber, BridgeMode, ConvertFromRaw, ModeFromName,
              ProfileAt, ProfileNames
<1>2. CASE m = "Gaming"
  BY <1>2 DEF RawMode, ModeFromRaw, DaemonNumber, BridgeMode, ConvertFromRaw, ModeFromName,
              ProfileAt, ProfileNames
<1>3. CASE m = "PowerSave"
  BY <1>3 DEF RawMode, ModeFromRaw, DaemonNumber, BridgeMode, ConvertFromRaw, ModeFromName,
              ProfileAt, ProfileNames
<1>4. CASE m = "LowLatency"
  BY <1>4 DEF RawMode, ModeFromRaw, DaemonNumber, BridgeMode, ConvertFromRaw, ModeFromName,
              ProfileAt, ProfileNames
<1>5. CASE m = "Server"
  BY <1>5 DEF RawMode, ModeFromRaw, DaemonNumber, BridgeMode, ConvertFromRaw, ModeFromName,
              ProfileAt, ProfileNames
<1>6. QED
  BY <1>1, <1>2, <1>3, <1>4, <1>5 DEF SchedMode

\* A profile of the combo box has a name and a mode.
LEMMA ProfileType ==
  ASSUME NEW i \in 0..4
  PROVE  /\ ProfileAt(i) \in Profile
         /\ BridgeMode(ProfileAt(i)) \in Mode
<1>1. ProfileAt(i) \in Profile
  BY DEF ProfileAt, Profile, ProfileNames
<1>2. ModeFromName(ProfileAt(i)) \in SchedMode
  BY DEF ModeFromName, SchedMode
<1>3. BridgeMode(ProfileAt(i)) \in SchedMode
  BY <1>2 DEF BridgeMode, ConvertFromRaw, RawMode, SchedMode
<1>4. QED
  BY <1>1, <1>3, WindowAssumption

\* The field can always be filled.
LEMMA FlagsType ==
  ASSUME NEW cfg \in Config, NEW s, NEW i \in 0..4
  PROVE  FlagsFor(cfg, s, i) \in Text
<1>1. CASE s \in Sched
  <2>1. ArgsShown(cfg, s, i) \in ArgList
    BY <1>1, ProfileType, ArgsForType DEF ArgsShown
  <2>2. QED
    BY <2>1 DEF FlagsFor, Text
<1>2. CASE s \notin Sched
  BY <1>2, JoinedEmpty DEF ArgsShown, FlagsFor, Text
<1>3. QED
  BY <1>1, <1>2

\* The refresh of the section fills it for the selection or hides it, and
\* mirrors the combo box in a visible window.
LEMMA SectionFresh ==
  ASSUME NEW old \in Section, NEW s \in Name, NEW i \in 0..4,
         NEW comboOn \in BOOLEAN, NEW windowOn \in BOOLEAN,
         NEW new, new = SectionFor(old, s, i, comboOn, windowOn)
  PROVE  /\ new \in Section
         /\ new.visible <=> comboOn /\ windowOn /\ Described(s, i)
         /\ new.visible => new = Filled(s, i)
<1> DEFINE hidden == [old EXCEPT !.visible = FALSE]
<1>1. Filled(s, i) \in Section /\ Filled(s, i).visible = TRUE
  <2>1. ProfileAt(i) \in Profile /\ ProfileInfo(ProfileAt(i), s).description \in Descriptions
    BY ProfileType DEF Descriptions
  <2>2. QED
    BY <2>1 DEF Filled, Section
<1>2. hidden \in Section /\ hidden.visible = FALSE
  BY DEF Section
<1>3. CASE comboOn /\ windowOn /\ Described(s, i)
  <2>1. new = Filled(s, i)
    BY <1>3 DEF SectionFor
  <2>2. QED
    BY <1>1, <1>3, <2>1
<1>4. CASE ~(comboOn /\ windowOn /\ Described(s, i))
  <2>1. new = hidden
    BY <1>4 DEF SectionFor
  <2>2. QED
    BY <1>2, <1>4, <2>1
<1>5. QED
  BY <1>3, <1>4

\* The card can always be filled.
LEMMA CardType ==
  ASSUME NEW s \in Name
  PROVE  CardFor(s) \in Card
BY DEF Card

-----------------------------------------------------------------------------
\* Nothing is selected and no handler waits before the constructor.
LEMMA WindowInit == Init => WindowInv
<1> SUFFICES ASSUME Init PROVE WindowInv
  OBVIOUS
<1>1. TypeOK
  <2>1. NoCard \in Card /\ NoSection \in Section
    BY DEF NoSection, Card, Section
  <2>2. SwitchesOK
    BY DEF Init, SwitchesOK
  <2>3. QED
    BY <2>1, <2>2, WindowAssumption DEF Init, TypeOK, Text, Name
<1>2. HandlerInv
  BY DEF Init, HandlerInv
<1>3. QED
  BY <1>1, <1>2
     DEF Init, WindowInv, CardFollowsSelection, FlagsFollowMemory, SectionNeverStale,
         SectionMirrorsAdjusted, ProfileShowsDaemonMode, Settled

\* The constructor leaves all widgets in step, with the section still hidden.
LEMMA ConstructKeeps ==
  ASSUME WindowInv, NEW list \in {Listed, {}}, NEW current \in Name,
         NEW mode \in Mode \cup {None}, Construct(list, current, mode)
  PROVE  WindowInv'
<1>1. mem' \in Config /\ mem' # None
  BY WindowAssumption, ConfigAssumption DEF Construct
<1>2. sched' \in Name
  BY WindowAssumption DEF Construct, Name
<1>3. /\ index' \in 0..4
      /\ daemonMode' \in Mode \cup {None}
      /\ daemonMode' # None => BridgeMode(ProfileAt(index')) = daemonMode'
  <2>1. CASE mode = None
    BY <2>1 DEF Construct
  <2>2. CASE mode # None
    <3>1. mode \in SchedMode /\ daemonMode' = mode
      BY <2>2, WindowAssumption DEF Construct
    <3>2. index' = RawMode[ModeFromRaw(DaemonNumber[mode])]
      BY <2>2 DEF Construct
    <3>3. index' \in 0..4 /\ BridgeMode(ProfileAt(index')) = mode
      BY <3>1, <3>2, TablesAgree
    <3>4. QED
      BY <3>1, <3>3, WindowAssumption
  <2>3. QED
    BY <2>1, <2>2
<1>4. comboVisible' = (sched' \in ProfileAware) /\ comboVisible' \in BOOLEAN
  BY DEF Construct
<1>5. flags' = FlagsFor(mem', sched', index') /\ flags' \in Text
  BY <1>1, <1>3, FlagsType DEF Construct
<1>6. section' \in Section /\ ~section'.visible
  <2>1. section \in Section
    BY DEF WindowInv, TypeOK
  <2>2. section' = SectionFor(section, sched', index', comboVisible', FALSE)
    BY DEF Construct
  <2>3. QED
    BY <1>2, <1>3, <1>4, <2>1, <2>2, SectionFresh
<1>7. phase' = "ready" /\ card' = CardFor(sched') /\ ~shown' /\ dialog' = "none"
  BY DEF Construct, WindowInv, HandlerInv, TypeOK
<1>8. UNCHANGED <<shown, dialog, typed, adjusted, jobs>>
  BY DEF Construct
<1>9. TypeOK'
  <2>1. SwitchesOK'
    BY <1>4, <1>8 DEF WindowInv, TypeOK, SwitchesOK
  <2>2. jobs' \in 0..MaxJobs
    BY <1>8 DEF WindowInv, TypeOK
  <2>3. QED
    BY <1>1, <1>2, <1>3, <1>5, <1>6, <1>7, <2>1, <2>2, CardType, WindowAssumption DEF TypeOK
<1>10. HandlerInv'
  BY <1>1, <1>2, <1>3, <1>4, <1>7 DEF HandlerInv
<1>11. QED
  BY <1>3, <1>5, <1>6, <1>7, <1>9, <1>10
     DEF WindowInv, CardFollowsSelection, FlagsFollowMemory, SectionNeverStale,
         SectionMirrorsAdjusted, ProfileShowsDaemonMode, Settled, SelectedMode, FlagsFor, StandsFor

\* A handler that has filled everything leaves all widgets in step.
LEMMA FilledKeeps ==
  ASSUME WindowInv, phase' = "ready", mem' \in Config, sched' \in Name, index' \in 0..4,
         comboVisible' = (sched' \in ProfileAware), dialog' = "none", shown' = shown,
         flags' = FlagsFor(mem', sched', index'),
         section' = SectionFor(section, sched', index', comboVisible', shown),
         card' = CardFor(sched'),
         daemonMode' \in {daemonMode, None},
         daemonMode' # None => SelectedMode' = daemonMode',
         typed' = FALSE, adjusted' = TRUE, UNCHANGED jobs
  PROVE  WindowInv'
<1>1. comboVisible' \in BOOLEAN /\ shown \in BOOLEAN
  BY DEF WindowInv, TypeOK, SwitchesOK
<1>2. /\ section' \in Section
      /\ section'.visible <=> comboVisible' /\ shown /\ Described(sched', index')
      /\ section'.visible => section' = Filled(sched', index')
  <2>1. section \in Section
    BY DEF WindowInv, TypeOK
  <2>2. section' = SectionFor(section, sched', index', comboVisible', shown)
    OBVIOUS
  <2>3. CASE shown = TRUE
    <3>1. section' = SectionFor(section, sched', index', comboVisible', TRUE)
      BY <2>2, <2>3
    <3>2. QED
      BY <1>1, <2>1, <2>3, <3>1, SectionFresh
  <2>4. CASE shown = FALSE
    <3>1. section' = SectionFor(section, sched', index', comboVisible', FALSE)
      BY <2>2, <2>4
    <3>2. QED
      BY <1>1, <2>1, <2>4, <3>1, SectionFresh
  <2>5. QED
    BY <1>1, <2>3, <2>4
<1>3. flags' \in Text /\ mem' # None
  BY FlagsType, ConfigAssumption
<1>4. TypeOK'
  <2>1. SwitchesOK'
    BY <1>1 DEF SwitchesOK
  <2>2. QED
    BY <1>2, <1>3, <2>1, CardType, WindowAssumption, ConfigAssumption DEF WindowInv, TypeOK
<1>5. HandlerInv'
  BY DEF HandlerInv
<1>6. SectionMirrorsAdjusted' /\ SectionNeverStale'
  <2>1. shown' => (section'.visible <=> comboVisible' /\ Described(sched', index'))
    BY <1>1, <1>2, WindowAssumption
  <2>2. SectionMirrorsAdjusted'
    BY <2>1 DEF SectionMirrorsAdjusted
  <2>3. SectionNeverStale'
    BY <1>1, <1>2 DEF SectionNeverStale
  <2>4. QED
    BY <2>2, <2>3
<1>7. QED
  BY <1>4, <1>5, <1>6
     DEF WindowInv, CardFollowsSelection, FlagsFollowMemory, ProfileShowsDaemonMode, Settled,
         FlagsFor, StandsFor

\* One step of the proof for each action.
LEMMA WindowNext == WindowInv /\ [Next]_vars => WindowInv'
<1> SUFFICES ASSUME WindowInv, [Next]_vars PROVE WindowInv'
  OBVIOUS
<1>0. TypeOK /\ HandlerInv
  BY DEF WindowInv
<1>a. CASE ConstructNoConfig \/ ConstructNoDaemon
  BY <1>a, WindowAssumption
     DEF ConstructNoConfig, ConstructNoDaemon, WindowInv, TypeOK, SwitchesOK, HandlerInv, CardFollowsSelection,
         FlagsFollowMemory, SectionNeverStale, SectionMirrorsAdjusted, ProfileShowsDaemonMode, Settled,
         selection, infoPanel, history
<1>b. ASSUME NEW list \in {Listed, {}}, NEW current \in Name,
             NEW mode \in Mode \cup {None}, Construct(list, current, mode)
      PROVE  WindowInv'
  BY <1>b, ConstructKeeps
<1>c. CASE Show \/ Hide
  BY <1>c
     DEF Show, Hide, WindowInv, TypeOK, SwitchesOK, HandlerInv, CardFollowsSelection,
         FlagsFollowMemory, SectionNeverStale, SectionMirrorsAdjusted, ProfileShowsDaemonMode, Settled,
         SelectedMode, FlagsFor, selection, infoPanel, history
<1>d. CASE Relaunch
  <2>1. NoCard \in Card /\ NoSection \in Section
    BY DEF NoCard, NoSection, Card, Section
  <2>2. SwitchesOK'
    BY <1>d DEF Relaunch, SwitchesOK
  <2>3. << >> \in Text
    BY DEF Text
  <2>4. QED
    BY <1>d, <2>1, <2>2, <2>3, WindowAssumption
     DEF Relaunch, WindowInv, TypeOK, Name, HandlerInv, CardFollowsSelection,
         FlagsFollowMemory, SectionNeverStale, SectionMirrorsAdjusted, ProfileShowsDaemonMode, Settled
<1>e. CASE Dismiss
  <2>1. /\ phase = "ready" /\ shown
        /\ UNCHANGED <<phase, shown, mem, sched, index, comboVisible, daemonMode, jobs>>
    BY <1>0, <1>e DEF Dismiss, HandlerInv, selection
  <2>2. CASE dialog \in {"profileChange", "schedChange"}
    <3>1. flags' = FlagsFor(mem', sched', index')
      BY <1>0, <1>e, <2>1, <2>2, JoinedEmpty DEF Dismiss, HandlerInv, FlagsFor, ArgsShown
    <3>2. card' = CardFor(sched')
      BY <1>e, <2>1, <2>2 DEF Dismiss, WindowInv, CardFor
    <3>3. section' = SectionFor(section, sched', index', comboVisible', shown)
      BY <1>e, <2>1, <2>2 DEF Dismiss
    <3>4. daemonMode' # None => SelectedMode' = daemonMode'
      BY <2>1 DEF WindowInv, ProfileShowsDaemonMode, SelectedMode
    <3>5. typed' = FALSE /\ adjusted' = TRUE /\ dialog' = "none"
      BY <1>e, <2>2 DEF Dismiss
    <3>6. QED
      BY <1>0, <2>1, <3>1, <3>2, <3>3, <3>4, <3>5, FilledKeeps DEF HandlerInv
  <2>3. CASE dialog = "job"
    <3>1. dialog' = "none" /\ UNCHANGED <<flags, section, typed, adjusted, card>>
      BY <1>e, <2>3 DEF Dismiss
    <3>2. SwitchesOK'
      BY <1>0, <2>1, <3>1 DEF TypeOK, SwitchesOK
    <3>3. TypeOK' /\ HandlerInv'
      BY <1>0, <2>1, <3>1, <3>2 DEF TypeOK, HandlerInv
    <3>4. QED
      BY <2>1, <2>3, <3>1, <3>3
         DEF WindowInv, CardFollowsSelection, FlagsFollowMemory, SectionNeverStale,
             SectionMirrorsAdjusted, ProfileShowsDaemonMode, Settled, SelectedMode, FlagsFor, CardFor
  <2>4. QED
    BY <1>0, <1>e, <2>2, <2>3 DEF Dismiss, TypeOK
<1>f. ASSUME NEW s \in Listed, SelectSched(s) PROVE WindowInv'
  <2>0. s \in Name
    BY DEF Name
  <2>1. /\ phase = "ready" /\ shown /\ dialog = "none"
        /\ sched' = s /\ comboVisible' = (s \in ProfileAware)
        /\ UNCHANGED <<phase, shown, mem, index, daemonMode, jobs>>
    BY <1>f DEF SelectSched, Attended
  <2>2. mem \in Config /\ index \in 0..4
    BY <1>0, <2>1 DEF HandlerInv
  <2>3. daemonMode' # None => SelectedMode' = daemonMode'
    BY <2>1 DEF WindowInv, ProfileShowsDaemonMode, SelectedMode
  <2>4. CASE s \in Sched
    BY <1>f, <2>0, <2>1, <2>2, <2>3, <2>4, FilledKeeps DEF SelectSched
  <2>5. CASE s \notin Sched
    <3>1. dialog' = "schedChange" /\ UNCHANGED <<flags, card, section, typed, adjusted>>
      BY <1>f, <2>5 DEF SelectSched, infoPanel
    <3>2. SwitchesOK'
      BY <1>0, <2>1, <3>1 DEF TypeOK, SwitchesOK
    <3>3. TypeOK' /\ HandlerInv'
      BY <1>0, <2>0, <2>1, <2>2, <2>5, <3>1, <3>2, WindowAssumption, ConfigAssumption DEF TypeOK, HandlerInv
    <3>4. QED
      BY <2>1, <2>3, <3>1, <3>3
         DEF WindowInv, CardFollowsSelection, FlagsFollowMemory, SectionNeverStale,
             SectionMirrorsAdjusted, ProfileShowsDaemonMode, Settled
  <2>6. QED
    BY <2>4, <2>5
<1>g. ASSUME NEW i \in 0..4, SelectProfile(i) PROVE WindowInv'
  <2>1. /\ phase = "ready" /\ shown /\ dialog = "none"
        /\ index' = i /\ daemonMode' = None
        /\ UNCHANGED <<phase, shown, mem, sched, comboVisible, card, jobs>>
    BY <1>g DEF SelectProfile, Attended
  <2>2. mem \in Config /\ sched \in Name /\ comboVisible = (sched \in ProfileAware)
    BY <1>0, <2>1 DEF HandlerInv
  <2>3. card = CardFor(sched)
    BY <2>1 DEF WindowInv, CardFollowsSelection, Settled
  <2>4. card' = CardFor(sched')
    BY <2>1, <2>3 DEF CardFor
  <2>5. CASE sched \in Sched
    BY <1>g, <2>1, <2>2, <2>4, <2>5, FilledKeeps DEF SelectProfile
  <2>6. CASE sched \notin Sched
    <3>1. dialog' = "profileChange" /\ UNCHANGED <<flags, section, typed, adjusted>>
      BY <1>g, <2>6 DEF SelectProfile
    <3>2. SwitchesOK'
      BY <1>0, <2>1, <3>1 DEF TypeOK, SwitchesOK
    <3>3. TypeOK' /\ HandlerInv'
      BY <1>0, <2>1, <2>2, <2>6, <3>1, <3>2, WindowAssumption, ConfigAssumption DEF TypeOK, HandlerInv
    <3>4. QED
      BY <2>1, <2>4, <3>1, <3>3
         DEF WindowInv, CardFollowsSelection, FlagsFollowMemory, SectionNeverStale,
             SectionMirrorsAdjusted, ProfileShowsDaemonMode, Settled
  <2>7. QED
    BY <2>5, <2>6
<1>h. ASSUME NEW text \in Typed, EditFlags(text) PROVE WindowInv'
  BY <1>h
     DEF Text, EditFlags, Attended, WindowInv, TypeOK, SwitchesOK, HandlerInv, CardFollowsSelection,
         FlagsFollowMemory, SectionNeverStale, SectionMirrorsAdjusted, ProfileShowsDaemonMode, Settled,
         SelectedMode, selection, infoPanel
<1>i. CASE OnApply
  <2>1. /\ phase = "ready" /\ shown /\ dialog = "none" /\ jobs' \in 0..MaxJobs
        /\ dialog' \in {"none", "job"}
        /\ UNCHANGED <<phase, shown, sched, index, comboVisible, flags, card, section,
                       daemonMode, adjusted>>
    BY <1>0, <1>i, WindowAssumption DEF OnApply, Attended, TypeOK, selection, infoPanel
  <2>2. /\ mem \in Config /\ sched \in Name /\ index \in 0..4
        /\ SelectedMode \in Mode /\ Parsed(flags) \in ArgList
    BY <1>0, <2>1, ProfileType, WindowAssumption DEF HandlerInv, TypeOK, SelectedMode
  <2>3. /\ mem' \in Config /\ typed' \in BOOLEAN
        /\ ~typed' => StandsFor(flags, ArgsShown(mem', sched, index))
    <3>1. CASE sched \in Sched
      <4>1. mem' = Applied(mem, sched, SelectedMode, Parsed(flags)) /\ typed' = FALSE
        BY <1>i, <3>1 DEF OnApply
      <4>2. mem' \in Config /\ ArgsFor(mem', sched, SelectedMode) = Parsed(flags)
        BY <2>2, <3>1, <4>1, AppliedType, AppliedResolves
      <4>3. StandsFor(flags, ArgsShown(mem', sched, index))
        BY <3>1, <4>2 DEF ArgsShown, SelectedMode, StandsFor
      <4>4. typed' \in BOOLEAN
        BY <4>1
      <4>5. QED
        BY <4>2, <4>3, <4>4
    <3>2. CASE sched \notin Sched
      <4>1. UNCHANGED <<mem, typed>>
        BY <1>i, <3>2 DEF OnApply
      <4>2. ~typed => StandsFor(flags, ArgsShown(mem, sched, index))
        BY <2>1 DEF WindowInv, FlagsFollowMemory, Settled
      <4>3. typed \in BOOLEAN
        BY <1>0 DEF TypeOK, SwitchesOK
      <4>4. QED
        BY <2>2, <4>1, <4>2, <4>3
    <3>3. QED
      BY <3>1, <3>2
  <2>5. TypeOK' /\ HandlerInv'
    BY <1>0, <2>1, <2>2, <2>3, ConfigAssumption DEF TypeOK, HandlerInv, SwitchesOK
  <2>6. QED
    BY <2>1, <2>3, <2>5
       DEF WindowInv, CardFollowsSelection, FlagsFollowMemory, SectionNeverStale,
           SectionMirrorsAdjusted, ProfileShowsDaemonMode, Settled, SelectedMode
<1>j. CASE OnDisable
  <2>1. /\ phase = "ready" /\ shown /\ dialog = "none" /\ jobs' \in 0..MaxJobs
        /\ dialog' \in {"none", "job"} /\ mem' = Disabled(mem)
        /\ UNCHANGED <<phase, shown, sched, index, comboVisible, flags, card, section,
                       daemonMode, typed, adjusted>>
    BY <1>0, <1>j, WindowAssumption DEF OnDisable, Attended, TypeOK, selection, infoPanel
  <2>2. mem \in Config /\ index \in 0..4
    BY <1>0, <2>1 DEF HandlerInv
  <2>3. mem' \in Config /\ ArgsShown(mem', sched', index') = ArgsShown(mem, sched, index)
    BY <2>1, <2>2, DisabledType DEF Disabled, ArgsShown, ArgsFor, Config
  <2>4. TypeOK' /\ HandlerInv'
    BY <1>0, <2>1, <2>3, ConfigAssumption DEF TypeOK, HandlerInv, SwitchesOK
  <2>5. QED
    BY <2>1, <2>3, <2>4
       DEF WindowInv, CardFollowsSelection, FlagsFollowMemory, SectionNeverStale,
           SectionMirrorsAdjusted, ProfileShowsDaemonMode, Settled, SelectedMode
<1>k. CASE UNCHANGED vars
  BY <1>k
     DEF vars, WindowInv, TypeOK, SwitchesOK, HandlerInv, CardFollowsSelection,
         FlagsFollowMemory, SectionNeverStale, SectionMirrorsAdjusted, ProfileShowsDaemonMode, Settled,
         SelectedMode, selection, infoPanel, history
<1>l. QED
  BY <1>a, <1>b, <1>c, <1>d, <1>e, <1>f, <1>g, <1>h, <1>i, <1>j, <1>k DEF Next

\* The window's invariant.
LEMMA WindowAlways == Spec => []WindowInv
BY WindowInit, WindowNext, PTL DEF Spec

\* The window keeps its types and is ready only with a configuration and a
\* profile: no slot runs after a constructor that gave up.  The daemon's list may
\* be empty, and then no scheduler is selected (schedext-window-internal.cpp:471).
THEOREM WindowTypes == Spec => []TypeOK
<1>1. WindowInv => TypeOK
  BY DEF WindowInv
<1>2. QED
  BY WindowAlways, <1>1, PTL

\* From the first handler that runs in a visible window on, the section is there
\* when the profile combo box is and there is a description.
THEOREM SectionAlwaysMirrors == Spec => []SectionMirrorsAdjusted
<1>1. WindowInv => SectionMirrorsAdjusted
  BY DEF WindowInv
<1>2. QED
  BY WindowAlways, <1>1, PTL

\* Whatever the user does and wherever a message box stops a handler, once no
\* handler waits the card describes the selected scheduler.
THEOREM CardAlwaysFollows == Spec => []CardFollowsSelection
<1>1. WindowInv => CardFollowsSelection
  BY DEF WindowInv
<1>2. QED
  BY WindowAlways, <1>1, PTL

\* The flags field shows what the memory resolves the selection to, after any
\* number of jobs, unless the user has typed in it.
THEOREM FlagsAlwaysFollow == Spec => []FlagsFollowMemory
<1>1. WindowInv => FlagsFollowMemory
  BY DEF WindowInv
<1>2. QED
  BY WindowAlways, <1>1, PTL

\* A field that stands for a list is read back as that list, if it can be typed.
LEMMA StandsForReadsBack ==
  ASSUME NEW args \in Seq(Seq(STRING)), NEW text, StandsFor(text, args), Typeable(args)
  PROVE  Parsed(text) = args
<1> DEFINE T == STRING \cup {Blank}
<1>1. Seq(Seq(STRING)) \subseteq Seq(Seq(T)) /\ Blank \in T
  OBVIOUS
<1> HIDE DEF T
<1>2. CASE text = Joined(args)
  BY <1>1, <1>2, RoundTrip
<1>3. CASE Parsed(text) = args
  BY <1>3
<1>4. QED
  BY <1>2, <1>3 DEF StandsFor

\* A ready window shows a list of texts.
LEMMA ArgsShownType ==
  ASSUME WindowInv, Settled
  PROVE  ArgsShown(mem, sched, index) \in Seq(Seq(STRING))
<1>1. mem \in Config /\ index \in 0..4
  BY DEF WindowInv, HandlerInv, Settled
<1>2. CASE sched \in Sched
  <2>1. ArgsShown(mem, sched, index) \in ArgList
    BY <1>1, <1>2, ProfileType, ArgsForType DEF ArgsShown
  <2>2. QED
    BY <2>1, WindowAssumption
<1>3. CASE sched \notin Sched
  BY <1>3 DEF ArgsShown
<1>4. QED
  BY <1>2, <1>3

\* An Apply of an untouched field asks for the arguments the configuration
\* already has, whatever the schedulers, the lists and the texts typed before
\* (lib.rs:203-208).
THEOREM FieldAlwaysRoundTrips == Spec => []FieldRoundTrips
<1>1. WindowInv => FieldRoundTrips
  BY ArgsShownType, StandsForReadsBack DEF WindowInv, FlagsFollowMemory, FieldRoundTrips
<1>2. QED
  BY WindowAlways, <1>1, PTL

\* ... also when the list is one that a text in the field stood for before, with
\* no condition on the list: an Apply of an untouched field repeats every list
\* that came from a field (schedext-window-internal.cpp:554-563, 609).
TypedFieldRoundTrips ==
  Settled /\ ~typed /\ (\E text \in Seq(STRING) : ArgsShown(mem, sched, index) = Parsed(text)) =>
    Parsed(flags) = ArgsShown(mem, sched, index)

\* What the user has applied once is applied again as it was.
THEOREM TypedFieldAlwaysRoundTrips == Spec => []TypedFieldRoundTrips
<1>1. WindowInv => TypedFieldRoundTrips
  <2> SUFFICES ASSUME WindowInv, Settled, ~typed,
                      NEW text \in Seq(STRING), ArgsShown(mem, sched, index) = Parsed(text)
               PROVE  Parsed(flags) = ArgsShown(mem, sched, index)
    BY DEF TypedFieldRoundTrips
  <2> DEFINE T == STRING \cup {Blank}
  <2>1. text \in Seq(T) /\ Blank \in T
    OBVIOUS
  <2> HIDE DEF T
  <2>2. Parsed(Joined(Parsed(text))) = Parsed(text)
    BY <2>1, TypedRoundTrip
  <2>3. StandsFor(flags, Parsed(text))
    BY DEF WindowInv, FlagsFollowMemory
  <2>4. QED
    BY <2>2, <2>3 DEF StandsFor
<1>2. QED
  BY WindowAlways, <1>1, PTL

\* A visible profile section always is the selected profile's, for the selected
\* scheduler, with the combo box at hand.
THEOREM SectionNeverIsStale == Spec => []SectionNeverStale
<1>1. WindowInv => SectionNeverStale
  BY DEF WindowInv
<1>2. QED
  BY WindowAlways, <1>1, PTL

\* The five mode tables agree: the profile shown at launch is the daemon's mode
\* until the user chooses another.
THEOREM ProfileIsDaemonMode == Spec => []ProfileShowsDaemonMode
<1>1. WindowInv => ProfileShowsDaemonMode
  BY DEF WindowInv
<1>2. QED
  BY WindowAlways, <1>1, PTL
=============================================================================
