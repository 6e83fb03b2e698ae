---------------------------- MODULE LoaderConfig ----------------------------
(***************************************************************************)
(* The scx_loader configuration the application keeps in memory and writes *)
(* to /etc/scx_loader.toml, and the edits scx-rustlib makes to it          *)
(* (scx-rustlib/src/lib.rs).  Argument lists are opaque values: which      *)
(* strings they hold plays no part in any edit, only whether two are equal.*)
(***************************************************************************)
EXTENDS FiniteSets

CONSTANTS
  Sched,          \* the schedulers the scx_loader crate can parse (SupportedSched)
  Mode,           \* SchedMode
  AutoMode,       \* SchedMode::Auto
  ArgList,        \* argument lists
  None,           \* Option::None, a missing file, no running scheduler
  StockArgs,      \* arguments the crate itself has for a scheduler and a mode
  DefaultConfig   \* the crate's configuration when there is no file

\* A configuration: the fields of scx_loader::config::Config.  `scheds` maps a
\* scheduler to its five per-mode Option<Vec<String>> fields.
Config == [default_sched : Sched \cup {None},
           default_mode  : Mode \cup {None},
           scheds        : [Sched \X Mode -> ArgList \cup {None}]]

ASSUME ConfigAssumption ==
  /\ AutoMode \in Mode
  /\ None \notin Sched /\ None \notin Mode /\ None \notin ArgList /\ None \notin Config
  /\ StockArgs \in [Sched \X Mode -> ArgList]
  /\ DefaultConfig \in Config

\* A file that parses but says nothing.
BlankConfig == [default_sched |-> None,
                default_mode  |-> None,
                scheds        |-> [p \in Sched \X Mode |-> None]]

\* The arguments a configuration gives a scheduler in a mode: its own entry, or
\* the crate's stock arguments.
ArgsFor(cfg, s, m) ==
  IF cfg.scheds[<<s, m>>] = None THEN StockArgs[<<s, m>>] ELSE cfg.scheds[<<s, m>>]

\* set_scx_sched_with_mode
WithDefault(cfg, s, m) ==
  [cfg EXCEPT !.default_sched = s, !.default_mode = m]

\* Faulty variants, here and in the other modules, carry the name of the
\* definition they vary and of the mistake.  Nothing uses them: they are what a
\* property is tried against.
WithArgs_AutoField(cfg, s, m, args) == [cfg EXCEPT !.scheds[<<s, AutoMode>>] = args]

WithArgs_EntryReplaced(cfg, s, m, args) ==
  [cfg EXCEPT !.scheds = [p \in Sched \X Mode |->
     IF p[1] # s THEN @[p] ELSE IF p[2] = m THEN args ELSE None]]

\* set_scx_args
WithArgs(cfg, s, m, args) == [cfg EXCEPT !.scheds[<<s, m>>] = args]

Applied_ComparesWithStock(cfg, s, m, args) ==
  IF args = StockArgs[<<s, m>>]
  THEN WithDefault(cfg, s, m)
  ELSE WithArgs(WithDefault(cfg, s, m), s, m, args)

\* The edit of apply_scheduler_change: the default scheduler and mode, and the
\* arguments only when they are not what the configuration already resolves to.
Applied(cfg, s, m, args) ==
  IF args = ArgsFor(cfg, s, m)
  THEN WithDefault(cfg, s, m)
  ELSE WithArgs(WithDefault(cfg, s, m), s, m, args)

\* The edit of disable_scx_sched: the mode and every argument entry stay.
Disabled(cfg) == [cfg EXCEPT !.default_sched = None]

\* What the daemon starts at boot from a configuration, in its default mode.
BootSched(cfg) ==
  IF cfg.default_sched = None THEN None
  ELSE LET m == IF cfg.default_mode = None THEN AutoMode ELSE cfg.default_mode
       IN [sched |-> cfg.default_sched, args |-> ArgsFor(cfg, cfg.default_sched, m)]

\* The argument entries a configuration holds.
Entries(cfg) ==
  {e \in Sched \X Mode \X ArgList : cfg.scheds[<<e[1], e[2]>>] = e[3]}
=============================================================================
