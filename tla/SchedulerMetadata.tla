-------------------------- MODULE SchedulerMetadata --------------------------
(***************************************************************************)
(* The scheduler catalogue (src/scheduler-metadata.cpp): what its          *)
(* constructor makes of the embedded JSON file, and its lookups.  A JSON   *)
(* object is a function whose domain are its members; a member that is     *)
(* missing reads as an empty text, list or object.  "" is the empty text.  *)
(***************************************************************************)
CONSTANTS
  Resource,    \* scheduler-metadata.json: a JSON object, or
  Unparsable   \* a file that is missing or is not one

NoObject == [member \in {} |-> ""]
Value(object, member, absent) ==
  IF member \in DOMAIN object THEN object[member] ELSE absent

\* A default-constructed SchedulerInfo.  The title stands for the three texts.
NoScheduler == [found |-> FALSE, title |-> "", hardware |-> << >>, workloads |-> << >>]

SchedulerEntry(json) ==
  [found     |-> TRUE,
   title     |-> Value(json, "title", ""),
   hardware  |-> Value(json, "hardware", << >>),
   workloads |-> Value(json, "workloads", << >>)]

ProfileEntry(json) ==
  [description |-> Value(json, "description", ""),
   byScheduler |-> Value(json, "byScheduler", NoObject)]

\* The constructor; a file it cannot read leaves an invalid, empty catalogue.
Catalogue ==
  LET root == IF Resource = Unparsable THEN NoObject ELSE Resource
      schedulers == Value(root, "schedulers", NoObject)
      profiles == Value(root, "profiles", NoObject)
  IN [valid      |-> Resource # Unparsable,
      schedulers |-> [name \in DOMAIN schedulers |-> SchedulerEntry(schedulers[name])],
      profiles   |-> [name \in DOMAIN profiles |-> ProfileEntry(profiles[name])]]

\* SchedulerMetadata::scheduler
SchedulerInfo(name) == Value(Catalogue.schedulers, name, NoScheduler)

\* SchedulerMetadata::profile: the active scheduler's own description, be it
\* empty, or else the profile's.
ProfileInfo(name, active) ==
  IF name \in DOMAIN Catalogue.profiles
  THEN LET entry == Catalogue.profiles[name]
       IN [found |-> TRUE, description |-> Value(entry.byScheduler, active, entry.description)]
  ELSE [found |-> FALSE, description |-> ""]
=============================================================================
