---------------------------- MODULE ConfigSession ----------------------------
(***************************************************************************)
(* What the application promises about /etc/scx_loader.toml, without files,*)
(* services or failures: a user opens a session on the saved               *)
(* configuration, edits a copy of it, and from time to time saves that     *)
(* copy as a whole.                                                        *)
(***************************************************************************)
EXTENDS LoaderConfig

CONSTANT Parse(_)   \* the configuration a saved content gives, or None

VARIABLES
  saved,     \* the content of /etc/scx_loader.toml
  desired    \* the session's configuration, None when no session is open

Load ==
  /\ desired = None
  /\ desired' = Parse(saved)
  /\ UNCHANGED saved

Edit ==
  /\ desired # None
  /\ \/ \E s \in Sched, m \in Mode, args \in ArgList :
          desired' = Applied(desired, s, m, args)
     \/ desired' = Disabled(desired)
  /\ UNCHANGED saved

Save ==
  /\ desired # None
  /\ saved' = desired
  /\ UNCHANGED desired

Close ==
  /\ desired' = None
  /\ UNCHANGED saved

SessionNext == Load \/ Edit \/ Save \/ Close

SessionSpec == desired = None /\ [][SessionNext]_<<saved, desired>>
=============================================================================
