----------------------------- MODULE SchedModes ------------------------------
(***************************************************************************)
(* The names and numbers of the scheduler modes, which five tables must    *)
(* agree on: the profile combo box's entries and get_scx_mode_from_str     *)
(* (src/schedext-window-internal.cpp), get_scx_mode_from_raw and enum      *)
(* SchedMode (src/scx_utils.cpp, .hpp), convert_from_raw_mode and the      *)
(* numbers of the crate's own modes (scx-rustlib/src/lib.rs).              *)
(***************************************************************************)
EXTENDS Integers, Sequences

SchedMode == {"Auto", "Gaming", "PowerSave", "LowLatency", "Server"}

\* enum class SchedMode
RawMode == [Auto |-> 0, Gaming |-> 1, PowerSave |-> 2, LowLatency |-> 3, Server |-> 4]

\* get_scx_mode_from_raw: a number of no mode is shown as Auto.
ModeFromRaw(raw) ==
  CASE raw = 0 -> "Auto"
    [] raw = 1 -> "Gaming"
    [] raw = 2 -> "PowerSave"
    [] raw = 3 -> "LowLatency"
    [] raw = 4 -> "Server"
    [] OTHER   -> "Auto"

ConvertFromRaw_Swapped(raw) ==
  CASE raw = 0 -> "Auto"
    [] raw = 1 -> "Gaming"
    [] raw = 2 -> "LowLatency"
    [] raw = 3 -> "PowerSave"
    [] raw = 4 -> "Server"
    [] OTHER   -> "error"

\* convert_from_raw_mode: from the number the window passes to the crate's mode.
ConvertFromRaw(raw) ==
  CASE raw = 0 -> "Auto"
    [] raw = 1 -> "Gaming"
    [] raw = 2 -> "PowerSave"
    [] raw = 3 -> "LowLatency"
    [] raw = 4 -> "Server"
    [] OTHER   -> "error"

\* get_current_mode: the crate's SchedMode as u8.
DaemonNumber == [Auto |-> 0, Gaming |-> 1, PowerSave |-> 2, LowLatency |-> 3, Server |-> 4]

\* The entries of the profile combo box, in its order; indices start at 0.
ProfileNames == <<"Auto", "Gaming", "Powersave", "Lowlatency", "Server">>
ProfileAt(index) == ProfileNames[index + 1]

\* get_scx_mode_from_str
ModeFromName(name) ==
  CASE name = "Gaming"     -> "Gaming"
    [] name = "Lowlatency" -> "LowLatency"
    [] name = "Powersave"  -> "PowerSave"
    [] name = "Server"     -> "Server"
    [] OTHER               -> "Auto"

\* The crate's mode for a profile name: static_cast to the number and back.
BridgeMode(name) == ConvertFromRaw(RawMode[ModeFromName(name)])
=============================================================================
