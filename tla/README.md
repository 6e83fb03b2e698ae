# A verification project for scx-manager

TLA+ models of scx-manager, the Qt/Rust front end of the `scx_loader` daemon: what
TLC checks on small instances, and what TLAPS proves for every value of the
constants. Paths are those of the repository; `lib.rs` is `scx-rustlib/src/lib.rs` and
`internal.cpp` is `src/schedext-window-internal.cpp`.

## 1. The system

| Part | State it keeps | Operations | Talks to |
|---|---|---|---|
| Bridge (`lib.rs`, wrapped by `src/scx_utils.cpp`) | the configuration in memory | `init_config`, `apply_scheduler_change`, `disable_scheduler`, `get_scx_flags_for_mode`, queries | daemon (D-Bus), systemctl, pkexec, `/tmp` and `/etc/scx_loader.toml` |
| Main window (`internal.cpp`) | two combo boxes, flags field, info card, profile section, message boxes | constructor, five slots | bridge, catalogue |
| Indicator (`internal.cpp:66-96, 533`) | a label | timer, two sysfs reads | kernel |
| Chip rows (`internal.cpp:127-270`) | chips and their rectangles | rebuild, `heightForWidth`, `setGeometry` | the card's layout |
| Catalogue (`src/scheduler-metadata.cpp`) | schedulers and profiles, read once | look-ups | window |
| Mode tables (`internal.cpp:98, 494`, `scx_utils.cpp:68`, `scx_utils.hpp:59`, `lib.rs:281, 311`) | none | conversions | window, bridge |
| Flags text (`internal.cpp:554-563, 609`, `lib.rs:203-208`) | none | join, trim, split | window, bridge |
| Command runner (`scx-rustlib/src/utils.rs`) | none | `exec` | systemctl |
| Window handle (`src/schedext-window.cpp`, `include/scx-manager/schedext-window.hpp`) | a raw pointer that owns the window | construct, move, destroy, show, hide, `setParent` | window, embedding program |
| `main`, translations, packaging, tests | | | |

A press of Apply or Disable is one *job*: it runs on the GUI thread, which blocks in
each external call. Within one application nothing else happens meanwhile. What makes
jobs hard is everything outside: a call may fail and most failures are only printed;
the daemon or the machine may restart between two calls; the application may be
killed; a second instance uses the same staging file; and the memory, the staging
file, `/etc` and the daemon's own view are four copies of a configuration that
agree only when every step has worked. The daemon (`scx_loader`), systemd, pkexec, the
kernel and Qt are not in the repository; they are modelled from how the code uses them.

What makes each part correct:

- *Bridge.* A job that reports an installed configuration has stored and started what
  was asked for; earlier failures do not leak into later files; one application never
  installs another one's file; the legacy service is out of the way before the switch;
  every job ends.
- *Window.* Card, profile section and flags field agree with the selection and with
  the configuration in memory, through message boxes that open in the middle of slots;
  Apply submits what the user sees.
- *Flags text.* The text the field was filled with stands for the same arguments again.
- *Both together.* A job of a dozen calls is to the window one edit; what the field shows
  is what `/etc` holds, except after a refused copy.
- *Indicator.* It never keeps the name of a scheduler that is gone, and comes to say what the
  kernel says, nothing if the kernel has no sched_ext.
- *Chip rows.* Chips do not overlap, stay inside the row, and take the height the card
  reserved; a height measured at the smallest width is enough at every other.
- *Handle.* One of the handles a window has been moved through deletes it.

## 2. Modules

| Module | What it is |
|---|---|
| `LoaderConfig` | the configuration, the edits made to it, what it resolves to; no state |
| `ConfigSession` | abstract specification: a user loads the saved configuration, edits a copy, saves it whole |
| `ScxBridge` | the core: jobs of any number of applications, one step per external call, between the services and the two files |
| `SchedModes` | the five mode tables: enum, `get_scx_mode_from_raw`, the combo box and `get_scx_mode_from_str`, `convert_from_raw_mode`, and the crate's own numbers |
| `FlagsText` | join, trim and split on texts of blanks and words |
| `SchedulerMetadata` | what the catalogue's constructor makes of a JSON object, and its look-ups |
| `SchedExtWindow` | the window, on top of `LoaderConfig`, `SchedModes`, `FlagsText` and `SchedulerMetadata` |
| `ScxManager` | one application: `ScxBridge` and an instance of the window over one configuration |
| `FlowLayout` | the height computed by one loop of the chip layout, and the other loop turn by turn |
| `CurrentSchedLabel` | the indicator, the kernel and the blocked thread |
| `WindowHandle` | the public handle: pointers, moves, destructors and parents |
| `LoaderConfigProofs` | lemmas about the edits of a configuration |
| `ScxBridgeProofs` | theorems of `ScxBridge` in three parts: types; any number of applications; a single one |
| `SchedExtWindowProofs`, `CurrentSchedLabelProofs`, `FlowLayoutProofs` | theorems of the window, of the indicator, of the chip rows |
| `NatRecursion` | induction and recursion up to a number, as lemmas about sets and functions |
| `FlagsTextProofs` | joining, trimming and splitting undo each other, by induction over texts |
| `ScxManagerProofs` | theorems of the composition: it refines both of its halves |
| `MC...` | values of constants for TLC |

Definitions named `<Definition>_<Mistake>` are faulty variants: nothing uses them, and
each property of a passing run is violated when one of them takes the place of the
definition it varies.

### ScxBridge

`pc[w]` is where application `w` is; the names of `Busy` are the external calls of a job in
the order of `apply_scheduler_change` and `disable_scx_sched`:

    idle -> probeEnabled -> disableLegacy --------> switch -> probeLoader -> enableLoader
                        \-> probeActive -> stopLegacy /  \-> error        \-> stage -> write -> copy -> idle
    idle ------------------------------------------------------------------> stage -> write -> stopSched -> copy

`mem[w]` is `m_scx_config`; `tmp` and `etc` hold a configuration, nothing (`None`), the
empty text of a truncated file, or `Garbled`. `Stage` edits the memory and truncates
the file in one step, because no external call lies between; `Write` is separate,
because another application can open the same file between the two. Failures that
the code only prints are recorded in the history variable `log`, read by no action;
failures that reach the window go to `error`, the message box. `asked` collects every
argument list somebody typed. `Faults` says which failures a run allows.

Decisions about what is outside the repository. The daemon keeps the configuration it has read
when it started (`daemonConfig`) and resolves a mode from that; nothing in `lib.rs` asks it to read
`/etc/scx_loader.toml` again after the copy. It may do so by itself at any moment, or never: with `"reload"` in
`Faults` a run has both. If it never does, an application that applies the same typed flags twice runs
something else the second time: memory and `/etc` agree and both hold the flags, so the mode switch is
taken, and the daemon resolves the mode from the file it read before. So `AppliedRuns` is a claim about the
jobs that began with memory, `/etc` *and* daemon in agreement (`synced` and `informed` in `log`), and
what the daemon's own memory does to the others stays outside of it: whether the installed daemon
reloads is not to be seen in this repository. A daemon that starts runs the default scheduler of `/etc`. `cp` is
atomic. A killed application takes its pkexec along, or pkexec finishes first. `expect()` in
`spawn_child_process` aborts the process (a panic does not cross into C++): that is `Exit` in the middle of
a job. The daemon's list may be empty: `Name` has `None` for the text of a combo box without items,
which the bridge rejects like any other name the crate does not know.

### SchedExtWindow

Actions are the constructor's three outcomes, `Show`/`Hide`, the five slots and `Dismiss`,
the rest of a slot after its message box. A slot without a message box is one action,
since nothing else runs on the thread. A job appears as its effect on the memory, with or without
an error box. The constructor's own message boxes are closed before it returns, and it
is one action. A list that is there but empty leaves nothing selected (`sched = None`) and the buttons
connected (`internal.cpp:471-472`). Whether a section becomes visible depends on `isVisible()`, which is
false for every widget until the window is shown; `shown` keeps that.

The flags field holds a text, a sequence of the tokens `" "`, `"\t"` and words. `Joined` fills it,
`Parsed` is what an Apply makes of it (trim in the window, split in the bridge). Both loops are
recursive functions, `JoinedUpTo` over the arguments and `SplitUpTo` over the tokens. The
catalogue is computed by `SchedulerMetadata` from the constant `Resource`, a JSON object in which any
member may be missing; the three texts of a scheduler stand or fall together and are one.

### ScxManager

The composition has the variables of `ScxBridge` and of the window, except the window's `mem`:
that is `mem[Me]` of the bridge, or, while a job runs, what it was when the job began (`WindowMem`).
`Launch`, `End`, `CloseBox` are a bridge step and a window step at once. `ClickApply` fixes the job's
scheduler, profile and arguments from what the window shows, `Work` is a bridge step inside the job,
during which the window is deaf, and `Return` is the bridge's last step together with the end of the
slot, which opens a message box exactly when the bridge has returned an error. A kill in the
middle of a job is `End`.

### FlowLayout, CurrentSchedLabel and WindowHandle

`Lines` repeats `HeightStep`, one turn of `compute_height`'s loop, and `ComputeHeight` reads the
height off its last line. The row asks for that height
after every change, and `Place` is then one turn of `do_layout`'s loop after the other. Fonts,
styles and margins are left out. The label's refresh is two steps, one per file, and the kernel
moves between them. A kernel without sched_ext has neither file: its state is `NoText`, and the label, which
the `.ui` file starts as "unknown", becomes empty. `opened` is how far the constructor came, which decides whether there is a timer
and whether there are jobs. A handle is a function from living handles to windows; a use of a
deleted window is not followed further.

## 3. Runs

| Run | Question | Bounds |
|---|---|---|
| `bridge_faults` | Do all safety properties of one application, and the end of every job, survive every fault? | 1 scheduler and an empty list's missing name, 1 profile, 2 argument lists, `/etc` absent or garbled at first, units in all 8 states; the daemon may read `/etc` again at any moment |
| `manager` | Does the window over the bridge behave like the window alone? Is what it shows what `/etc` holds? Do stored arguments of different profiles stay apart and right, with memory ahead of the disk after a refused copy? Does it implement `ConfigSession`? | 1 known and 1 unknown scheduler, 2 profiles (`Tried`), 2 argument lists, 2 texts to type, 2 jobs a launch (`MaxJobs`), any number of launches, the daemon's list empty or not, `/etc` with one stored argument list at first; pkexec may be refused, the daemon may be absent at launch and keeps what it read when it started |
| `bridge_two` | When two applications interleave step by step and copies may be refused, does a job that no other overlaps install its own configuration, and does the machine then boot with what it asked for, however old its memory is? | 2 applications (symmetric), 1 scheduler, 1 profile, 2 argument lists, an empty file parses |
| `bridge_two_installs` | Does an application install its own configuration? **No** | as above, no fault at all, an empty file does not parse |
| `bridge_after_refusal` | Do the typed flags run after a refused copy? **No** | 1 application, pkexec may be refused |
| `window` | Do the widgets agree with selection and memory? Does an untouched field ask for the arguments it shows? | 3 schedulers (with profiles, without, unknown), 5 profiles, one of each kind of catalogue entry, 6 argument lists (with an empty argument, with one that holds a blank), 3 texts to type, 2 jobs a launch (`MaxJobs`) |
| `window_startup` | Does the profile section mirror the combo box from the start? **No** | as above |
| `window_hidden_profile` | Do schedulers without a selector run in their default mode? **No** | as above |
| `flow_layout` | Are rows laid out without overlap, inside the width and as high as reserved? Is the height of a narrower row enough for chips of one height, as the card's are? | up to 4 chips of 6 sizes, widths 1 to 8 |
| `flow_layout_exact_fit` | Does the reserved height always hold the chips? **No** | as above |
| `label` | Is the label never stale and does it catch up, also without the daemon or without sched_ext? | 2 schedulers |
| `handle_moved` | Is a window that is moved deleted once? **No** | 2 handles, 1 window, 1 parent |

Why the bounds are enough: arguments are only compared for equality, so two lists, one
of them equal to the stock list, give every outcome of the two comparisons in
`apply_scheduler_change`; two profiles are enough for an entry of one to be mistaken for
the other's, and two jobs for one to build on what the other left; two applications for every overlap of two jobs; chips and widths
reach every case of less than, equal to and more than the remaining width.
Deadlock is checked in every run but two: in `handle_moved` a program may have used up its handles, and in
`label` nothing is left to move without sched_ext, a configuration and so a timer.

Liveness. `JobsEnd` assumes weak fairness of each application's next step: every
external call returns, with success or failure, which is what `block_on` and `status()`
wait for. `LabelCatchesUp` assumes that jobs end, that a started refresh ends, and strong
fairness of the timer: the thread is free again and again, and a job may be started first each time,
but not forever.

### What the code does and its documents do not say

The six violated properties are disagreements between a document or comment and the
code; `PROJECT.json` quotes the lines.

1. Two instances share `/tmp/scx_loader.toml`: the approved copy of one installs what the
   other staged, or an empty file. `InstallsOwnConfigAlone` shows that jobs that do not overlap are safe.
2. A refused or impossible pkexec is only printed on standard output, and the window reports success
   (USER_GUIDE.md:340 says that the app reports it). After such a refusal the memory already resolves to the new flags. The same Apply again compares
   equal, takes the mode switch, and a daemon that agrees with `/etc` runs without them.
3. The profile section is hidden when the window opens.
4. A hidden profile combo box still decides the mode.
5. `QRect::right()` makes `do_layout` wrap a line that `compute_height` found to fit exactly.
6. The public handle is called movable, but its defaulted move leaves the pointer in the source, and
   both destructors delete the window.

## 4. Proofs

Every theorem holds for every value of the constants that meets the named assumptions
of its modules (`ConfigAssumption`, `BridgeAssumption`, `WindowAssumption`, `ManagerAssumption`, `LabelAssumption`, `LayoutAssumption`): any schedulers,
profiles, argument lists, initial files and units, any set of faults, any number of
applications unless `Solo` says one. The assumptions are about the constants' kinds only (a
marker like `None` is not a scheduler, the stock arguments are argument lists, an argument list is a list of
texts, the texts that can be typed stand for argument lists, chips and spacings have natural sizes).

| Theorem | Statement | Inductive invariant |
|---|---|---|
| `TypeCorrect` | `TypeOK` | itself; `HoldsWhatItUses` makes it inductive: an edit needs a configuration in memory and a parsed scheduler name in the job |
| `LegacyDownBeforeSwitch`, `InstalledHandsOverBoot` | `LegacyDownUnlessRefused`, `BootHandedOver` | `ServicesInv` with `HistoryInv`: what each place of a job knows about the units; no other application's step can undo it |
| `ArgumentsAreRequested` | `OnlyRequestedArgs` | `AskedInv`: the job under way was asked for, and so is what a fresh launch may read |
| `AloneInstallsOwn` | `InstallsOwnConfigAlone` | `OwnInv`: a job nobody has overlapped is the only one, so the staging file is empty when it writes and its own when it copies |
| `AloneBoots` | `AloneBootsAsRequested` | `MadeInv` on top of it: from its edit on, a job's memory boots as the job asks (`EditBoots`), and the file it copies is that memory |
| `OthersKept` | `OthersArgsKept` | `KeptInv` on top of it: what a job that began in agreement and alone has in memory, and then in the staging file, differs from `/etc` in its own entry only |
| `JobsOnlyAdvance` | a running job only comes nearer to its end, by the measure `StepsLeft` | `TypeOK` |
| `SoloInSync`, `SoloPersists` | `MemoryInSync`, `PersistedAsRequested` | `StoredInv`: from the edit on the memory resolves to what the job asks for (`EditMade`), the staging file follows the memory, an installed job made `/etc` equal to it |
| `SoloRuns` | `AppliedRuns` | `RunsInv` on top: memory, `/etc` and daemon agree until the switch (`UpToSwitch`), what the switch loaded lasts until the copy, whether or not the daemon reads the file again, and a daemon restarted later boots with the same, by `EditBoots` |
| `SoloImplementsSession` | the refinement of `ConfigSession` | `StoredInv`: a launch is a `Load`, an edit an `Edit`, a copy a `Save`, any end a `Close`, all else a stutter |
| `WindowTypes`, `CardAlwaysFollows`, `FlagsAlwaysFollow`, `SectionNeverIsStale`, `SectionAlwaysMirrors`, `ProfileIsDaemonMode` | the window's properties | `WindowInv` with `HandlerInv`: configuration and profile are there when the window is ready, and a slot waits in a message box only over a scheduler the bridge does not know |
| `FieldAlwaysRoundTrips`, `TypedFieldAlwaysRoundTrips` | `FieldRoundTrips`, and the same without its condition for a list that came from a field | `WindowInv` and the two theorems about texts |
| `RoundTrip`, `TypedRoundTrip` | `Parsed(Joined(args)) = args` for every list that can be typed, and for every list that is `Parsed(text)` of any text | inductions over arguments and tokens |
| `LabelTypes`, `LabelNeverStale` | `TypeOK`, `NoStaleName` | `LabelInv`: what the second read will find has been in the file since the refresh began |
| `ChipsNeverOverlap`, `ChipsStayInside` | the chip rows' properties, for any chips, widths and spacings | `LayoutInv`: every placed chip is above the current line, or in it, left of `x` and no higher than `row_height` |
| `LayoutTypeCorrect`, `ReservedHeightIsExact` | `TypeOK`, `HeightIsExact` | `HeightInv`: after each chip both loops are on the same line unless a line is filled to its last pixel (`InStep`), `do_layout`'s `x` is the sum of the chips on its line (`OnReach`), and `row_height` is the height of one of them |
| `NarrowMeasureAlwaysHolds` | `NarrowMeasureHolds` | `NarrowInv`: for every smaller width, `compute_height`'s loop is on `do_layout`'s line and at least as far, or a whole number of lines further down (`Behind`) |
| `ManagerImplementsBridge`, `ManagerImplementsWindow` | the composition is a behaviour of `ScxBridge` and, through `WindowMem`, of the window | `ManagerInv`: the control states of both halves go together, the window has not moved since the click, and the memory is the one before the job until the edit and the job's edit of it after |
| `ManagerTypes`, `ManagerPersists`, `ManagerRuns`, `ManagerStoresRequested`, `ManagerKeepsOthers`, `ManagerIsASession` | `ManagerTypeOK`, and the bridge's properties carried over | the above and the bridge's theorems; `ManagerRuns` and `ManagerKeepsOthers` keep their condition that the job began in agreement |
| `FieldAlwaysShowsDisk` | `FieldShowsDisk` | none of its own: memory and `/etc` agree (`SoloInSync`) and the field follows the memory (`FlagsAlwaysFollow`) |
| `ManagerStoresNothingUntyped` | `UntouchedStoresNothing` | none of its own: `ManagerInv` carries what the click read to the edit, many steps later, and `FieldAlwaysRoundTrips` says that it is what the memory resolves to |

The lemma all claims about arguments rest on is `AppliedResolves`: after the edit of an Apply
the configuration resolves to the job's arguments, whether the edit stored them or found
them resolved already. It needs no assumption on earlier jobs, which is why failed and
refused jobs cannot leak into a later installed one.

The composition rests on the theorems of its halves: `ManagerImplementsBridge` and
`ManagerImplementsWindow` are step simulations, and what is proved of `ScxBridge` and of the window
then holds of `ScxManager`, where the window's theorems are cited through the instance.

Induction. The library states induction over a predicate, which the installed provers cannot
instantiate. `NatRecursion` states it over a set instead: `Induction` says that a set which holds 0 and
with each number below N the next one holds all of 0..N, and `Recursion` that a function which follows
given steps exists. `LeastNat`, on which both rest, comes from the well-foundedness of the strict subset
ordering of finite sets. A recursive function of the model is then shown to be such a function
(`LinesRecursion`, `ReachSteps`, `SplitRecursion`, `JoinRecursion`), and every later proof uses only its
first value and its step. The height of a row and the round trip of the flags field are proved this way
for rows and texts of any length.

Only model-checked: the two liveness properties, `JobsEnd` and `LabelCatchesUp`, which need fairness and
`ENABLED`. Of `JobsEnd` the part without fairness is `JobsOnlyAdvance`: a job can stop only by never
taking its next step. Not proved either are the six violated properties; each has its counterexample.

## 5. Not modelled

- `initTranslations`, the texts, stylesheets, fonts and margins: no state a property could be about.
- Build, packaging and tests.
- TOML and JSON syntax, D-Bus, systemd, polkit and the daemon: code outside the repository, present
  as far as the bridge's calls tell its outcomes apart.
- What happens after a use of a deleted window, and two windows in one process: the application makes one.
- Several composed applications at once: `ScxManager` has one, and what several do to each other
  happens in the files and services, which `bridge_two` and the theorems for any number of
  applications cover without the windows.
