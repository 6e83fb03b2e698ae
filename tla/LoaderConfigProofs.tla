-------------------------- MODULE LoaderConfigProofs --------------------------
(***************************************************************************)
(* Lemmas about the edits of a configuration, cited by the proofs about    *)
(* the bridge and about the window.                                        *)
(***************************************************************************)
EXTENDS LoaderConfig, TLAPS

\* A file that says nothing is a configuration.
LEMMA BlankType == BlankConfig \in Config
BY DEF BlankConfig, Config

\* A scheduler in a mode always resolves to an argument list.
LEMMA ArgsForType ==
  ASSUME NEW cfg \in Config, NEW s \in Sched, NEW m \in Mode
  PROVE  ArgsFor(cfg, s, m) \in ArgList
BY ConfigAssumption DEF ArgsFor, Config

\* set_scx_sched_with_mode gives a configuration.
LEMMA WithDefaultType ==
  ASSUME NEW cfg \in Config, NEW s \in Sched, NEW m \in Mode
  PROVE  WithDefault(cfg, s, m) \in Config
BY DEF WithDefault, Config

\* set_scx_args gives a configuration.
LEMMA WithArgsType ==
  ASSUME NEW cfg \in Config, NEW s \in Sched, NEW m \in Mode, NEW args \in ArgList
  PROVE  WithArgs(cfg, s, m, args) \in Config
BY DEF WithArgs, Config

\* The edit of an Apply gives a configuration.
LEMMA AppliedType ==
  ASSUME NEW cfg \in Config, NEW s \in Sched, NEW m \in Mode, NEW args \in ArgList
  PROVE  Applied(cfg, s, m, args) \in Config
BY WithDefaultType, WithArgsType DEF Applied

\* The edit of a Disable gives a configuration.
LEMMA DisabledType ==
  ASSUME NEW cfg \in Config
  PROVE  Disabled(cfg) \in Config
BY DEF Disabled, Config

\* After an Apply's edit the configuration starts that scheduler in that mode
\* and resolves to those arguments, whichever branch the edit took.
LEMMA AppliedResolves ==
  ASSUME NEW cfg \in Config, NEW s \in Sched, NEW m \in Mode, NEW args \in ArgList
  PROVE  /\ Applied(cfg, s, m, args).default_sched = s
         /\ Applied(cfg, s, m, args).default_mode = m
         /\ ArgsFor(Applied(cfg, s, m, args), s, m) = args
BY ConfigAssumption DEF Applied, WithArgs, WithDefault, ArgsFor, Config

-----------------------------------------------------------------------------
\* A file that says nothing holds no argument list.
LEMMA BlankEntries == Entries(BlankConfig) = {}
BY ConfigAssumption DEF Entries, BlankConfig

\* An Apply brings in its own argument list at most.
LEMMA AppliedEntries ==
  ASSUME NEW cfg \in Config, NEW s \in Sched, NEW m \in Mode, NEW args \in ArgList
  PROVE  Entries(Applied(cfg, s, m, args)) \subseteq Entries(cfg) \cup {<<s, m, args>>}
<1>1. Entries(WithDefault(cfg, s, m)) = Entries(cfg)
  BY DEF Entries, WithDefault, Config
<1>2. Entries(WithArgs(WithDefault(cfg, s, m), s, m, args))
        \subseteq Entries(cfg) \cup {<<s, m, args>>}
  BY DEF Entries, WithArgs, WithDefault, Config
<1>3. QED
  BY <1>1, <1>2 DEF Applied

\* A Disable brings in none.
LEMMA DisabledEntries ==
  ASSUME NEW cfg \in Config
  PROVE  Entries(Disabled(cfg)) = Entries(cfg)
BY DEF Entries, Disabled, Config
=============================================================================
