------------------------------ MODULE ConfigMerge ------------------------------
(***************************************************************************)
(* How a command's settings come out of four layers: compiled defaults, a  *)
(* TOML file, CFRP_* variables and command line flags.  A value is known   *)
(* by the layer it comes from; switches are on or off.  Keys are merged    *)
(* one by one, so one key under all layers says everything, but for the    *)
(* speed test's concurrency, which may fall back on the general one.       *)
(*                                                                         *)
(* What a layer gives for one key: Unset, "on" (a value of its own) or     *)
(* "off" (switches).  A flag can also be "same", a value equal to the      *)
(* flag's default, or "attached", a short flag with its value glued on.    *)
(***************************************************************************)
EXTENDS FiniteSets

Unset == "unset"

Commands == {"detect", "speedtest", "scan", "show"}

Options == {"domain", "input", "output", "format"}
Switches == {"adaptive", "fast", "progress", "speedtest", "governor_report", "no_governor",
             "bench", "bench_quick", "speedtest_0rtt", "speedtest_only"}
Steering == {"concurrency", "a_min", "a_max", "a_initial", "a_window", "probe_timeout_secs",
             "tls_session_cache"}
Speeding == {"speedtest_threads", "speedtest_timeout_secs", "speedtest_concurrency",
             "speedtest_url_path"}
Engine == {"interface", "rate", "masscan_binary", "asn_cache_dir", "iface_setting_file",
           "output_dir"}

Keys == Options \cup Switches \cup Steering \cup Speeding \cup Engine \cup {"grace_seconds"}

\* The keys a command has a flag for.
DetectFlags ==
  (Options \cup Switches \cup Steering \cup Speeding \cup {"grace_seconds"}) \ {"speedtest_only"}
SpeedtestFlags ==
  Options \cup Speeding \cup {"progress", "speedtest_0rtt", "tls_session_cache", "grace_seconds"}
ScanFlags ==
  {"domain", "adaptive", "progress", "governor_report", "no_governor", "speedtest",
   "grace_seconds"} \cup Steering \cup Speeding \cup Engine

Flags(cmd) == CASE cmd = "detect" -> DetectFlags
                [] cmd = "speedtest" -> SpeedtestFlags
                [] cmd = "scan" -> ScanFlags
                [] cmd = "show" -> {"grace_seconds"}

\* Those whose flag also has a short form that takes a value.
ShortFlags(cmd) ==
  CASE cmd = "detect" -> Options \cup {"concurrency"}
    [] cmd = "speedtest" -> Options \cup {"speedtest_threads", "speedtest_concurrency"}
    [] cmd = "scan" -> {"domain", "concurrency", "speedtest_threads"}
    [] OTHER -> {}

\* Keys whose variable gets through: the names are split at underscores before
\* the filter compares them with its list, so no name with one passes.
EnvKeys(cmd) ==
  CASE cmd \in {"detect", "show"} ->
         Options \cup {"concurrency", "adaptive", "progress", "speedtest", "fast", "bench",
                       "interface", "rate"}
    [] cmd = "speedtest" -> Options \cup {"progress", "concurrency"}
    [] cmd = "scan" ->
         {"domain", "concurrency", "adaptive", "progress", "speedtest", "interface", "rate"}

\* Figment: the file over the defaults, the environment over the file.
Layered(cmd, k, g) ==
  IF g.env # Unset /\ k \in EnvKeys(cmd) THEN "env"
  ELSE IF g.file # Unset THEN "file" ELSE "default"

\* Keys that take the flag's value whether or not the flag was given: clap
\* fills in the flag's own default.
Forced(cmd) ==
  CASE cmd \in {"detect", "show"} -> Steering \cup {"grace_seconds"}
    [] cmd = "speedtest" -> {"grace_seconds"}
    [] cmd = "scan" -> Steering \cup (Speeding \ {"speedtest_url_path"}) \cup {"grace_seconds"}

Given(g) == g.flag # Unset

\* The arguments are searched for the flag as a word of its own or before "=".
Seen(g) == Given(g) /\ g.flag # "attached"

\* build_pipeline_options: without a flag, or with one equal to its default, a
\* scan takes at least a hundred whatever the layers say.
ScanFloor(cmd, k, g) == cmd = "scan" /\ k = "concurrency" /\ g.flag \in {Unset, "same"}

\* Where the value in force comes from.
Effective(cmd, k, g) ==
  CASE ScanFloor(cmd, k, g) -> "pipeline"
    [] k \in Forced(cmd) /\ ~ScanFloor(cmd, k, g) -> IF Given(g) THEN "flag" ELSE "clap"
    [] k \in Flags(cmd) \cap Options -> IF Given(g) THEN "flag" ELSE Layered(cmd, k, g)
    [] k = "speedtest_concurrency" /\ cmd = "speedtest" /\ ~Seen(g)
       /\ Layered(cmd, k, g) = "default" /\ g.concurrency -> "concurrency"
    [] OTHER -> IF k \in Flags(cmd) /\ Seen(g) THEN "flag" ELSE Layered(cmd, k, g)

\* A switch is on if the layers turn it on or its flag is there; the speedtest
\* command turns two of them on itself.
On(cmd, k, g) ==
  \/ Given(g)
  \/ Layered(cmd, k, g) = "env" /\ g.env = "on"
  \/ Layered(cmd, k, g) = "file" /\ g.file = "on"
  \/ cmd = "speedtest" /\ k \in {"speedtest", "speedtest_only"}

\* What the layers may give for key k of a command, with or without a file.
Settings(cmd, k, file) ==
  [env : IF k \in Switches THEN {Unset, "on", "off"} ELSE {Unset, "on"},
   file : IF ~file THEN {Unset} ELSE IF k \in Switches THEN {Unset, "on", "off"} ELSE {Unset, "on"},
   flag : IF k \notin Flags(cmd) THEN {Unset}
          ELSE IF k \in Switches THEN {Unset, "on"}
          ELSE {Unset, "on", "same"} \cup (IF k \in ShortFlags(cmd) THEN {"attached"} ELSE {}),
   concurrency : BOOLEAN]

-----------------------------------------------------------------------------

\* The help of --config: without a flag the environment decides, and
\* without both the file.
LayersDecide(cmd, k, g) ==
  k \notin Switches /\ ~Given(g) =>
    /\ g.env # Unset => Effective(cmd, k, g) = "env"
    /\ g.env = Unset /\ g.file # Unset => Effective(cmd, k, g) = "file"
================================================================================
