------------------------------- MODULE Settings -------------------------------
(***************************************************************************)
(* The settings: ConfigLoader (runtime/src/config.rs) reads and merges     *)
(* five files for the permission mode at the start and for every turn,     *)
(* while the Config tool, of the turn or of a sub-agent, and the plugin    *)
(* manager rewrite two of them.                                            *)
(*                                                                         *)
(* The keys of a file are a function from their paths to values.  A load   *)
(* reads file by file; a file is rewritten by truncating it first.         *)
(***************************************************************************)
EXTENDS Integers, FiniteSetsExt, Functions, Sequences

CONSTANTS
  Writers,   \* "turn", for the turn's own tools, and others that run beside it, as sub-agents do
  Starts,    \* the files that the user may have written, with how often settings are set
             \* and everything is cut off after that
  MaxTurns   \* bound

VARIABLES
  files,
  load,     \* the load under way: what for, the file it is at, what it has merged
  program,  \* its phase, the mode asked for, its permission mode, its settings
  still,    \* no file has changed since the load began, and since the start
  tools,    \* of each writer: where it stands, what it read and what it sets
  owed,     \* the values that were set, by file and path
  overlap,  \* two writers were at one file at once, or one was cut off
  turns,
  sets, cuts  \* how many are still to come

vars == <<files, load, program, still, tools, owed, overlap, turns, sets, cuts>>

Kinds == {"none", "torn", "list", "object"}  \* absent, not JSON, not an object
Absent == [kind |-> "none", keys |-> <<>>]
Object(keys) == [kind |-> "object", keys |-> keys]

-----------------------------------------------------------------------------
\* discover: ~/.claw.json, its settings.json, .claw.json, .claw/settings.json and
\* .claw/settings.local.json of the project.
Order == 1..5
Legacy == {1, 3}
Global == 2
Local == 5

\* The paths of one server; its name and its other fields are left out.
Server == {"server.command", "server.env"}
OldPath(p) == "enabledPlugins." \o p
NewPath(p) == "plugins.enabled." \o p
Plugins == {"p", "q"}

\* read_optional_json_object: nothing is there, or a legacy file without an object.
Skipped(i, c) == c.kind = "none" \/ (i \in Legacy /\ c.kind \in {"torn", "list"})

\* Another file without an object, and what validate_config_file or
\* parse_mcp_server_config refuses: "theme" stands for the unknown keys.
Refused(c) ==
  \/ c.kind \in {"torn", "list"}
  \/ "theme" \in DOMAIN c.keys
  \/ "model" \in DOMAIN c.keys /\ c.keys["model"] = "a number"
  \/ Server \cap DOMAIN c.keys = {"server.env"}

\* The keys of both, with those of the first where they meet.
Over(keys, under) ==
  [p \in DOMAIN keys \cup DOMAIN under |-> IF p \in DOMAIN keys THEN keys[p] ELSE under[p]]

\* Mutant of Merged: a later file only adds what the earlier ones do not have.
MergedFirst(merged, keys) == Over(merged, keys)

\* deep_merge_objects, by path.
Merged(merged, keys) == Over(keys, merged)

\* Mutant of MergedServer: the definition of a server is merged like everything else.
MergedServerDeep(server, keys) == Over(Restrict(keys, Server \cap DOMAIN keys), server)

\* merge_mcp_servers: a file that has the server has all of it.
MergedServer(server, keys) ==
  IF Server \cap DOMAIN keys = {} THEN server ELSE Restrict(keys, Server \cap DOMAIN keys)

\* Mutant of ModeOf: permissions.defaultMode is asked first.
ModeOfNewFirst(merged) ==
  CASE "permissions.defaultMode" \in DOMAIN merged -> merged["permissions.defaultMode"]
    [] "permissionMode" \in DOMAIN merged -> merged["permissionMode"]
    [] OTHER -> "unset"

\* parse_optional_permission_mode: the deprecated key comes first.
ModeOf(merged) ==
  IF "permissionMode" \in DOMAIN merged THEN merged["permissionMode"]
  ELSE IF "permissions.defaultMode" \in DOMAIN merged THEN merged["permissions.defaultMode"]
  ELSE "unset"

\* parse_permission_mode_label, for one of the words of each mode.
Label(mode) ==
  CASE mode = "default" -> "read-only" [] mode = "acceptEdits" -> "workspace-write"
    [] mode = "dontAsk" -> "danger-full-access" [] OTHER -> mode

\* parse_optional_plugin_config: plugins.enabled, when there is one, is all there is.
Enabled(merged) ==
  LET Path(p) == IF \E q \in Plugins : NewPath(q) \in DOMAIN merged THEN NewPath(p) ELSE OldPath(p) IN
  {p \in Plugins : Path(p) \in DOMAIN merged /\ merged[Path(p)]}

Failure == [ok |-> FALSE]
Loaded(mode, model, enabled, server) ==
  [ok |-> TRUE, mode |-> Label(mode), model |-> model, plugins |-> enabled, server |-> server]

\* The end of load: what the program takes from the merged settings.
Parsed(merged, server) ==
  IF ModeOf(merged) = "nonsense" THEN Failure
  ELSE Loaded(ModeOf(merged), IF "model" \in DOMAIN merged THEN merged["model"] ELSE "unset",
              Enabled(merged), server)

-----------------------------------------------------------------------------
Begin(for) == [for |-> for, at |-> 1, merged |-> <<>>, server |-> <<>>]
NoLoad == [for |-> "none", at |-> 0]
NoTool == [at |-> "none"]
Off == [phase |-> "off", asked |-> "unset", mode |-> "unset", settings |-> Failure]

Init ==
  /\ \E s \in Starts : files = s.files /\ sets = s.sets /\ cuts = s.cuts
  /\ load = NoLoad /\ program = Off /\ still = [load |-> FALSE, start |-> FALSE]
  /\ tools = [w \in Writers |-> NoTool] /\ owed = <<>> /\ overlap = FALSE /\ turns = 0

\* parse_args: without a mode on the command line or in the environment the settings
\* are loaded for it, and once more by build_runtime.
Start ==
  /\ program.phase \in {"off", "ended"}
  /\ \E asked \in {"unset", "read-only"} :
       /\ program' = [Off EXCEPT !.phase = "start", !.asked = asked, !.mode = asked]
       /\ load' = Begin(IF asked = "unset" THEN "mode" ELSE "build")
  /\ still' = [load |-> TRUE, start |-> TRUE]
  /\ UNCHANGED <<files, tools, owed, overlap, turns, sets, cuts>>

\* A turn begins with prepare_turn_runtime, which loads them again.
Turn ==
  /\ program.phase = "idle" /\ turns < MaxTurns /\ turns' = turns + 1
  /\ load' = Begin("build") /\ still' = [still EXCEPT !.load = TRUE]
  /\ program' = [program EXCEPT !.phase = "turn"]
  /\ UNCHANGED <<files, tools, owed, overlap, sets, cuts>>

TurnEnds ==
  /\ program.phase = "turn" /\ load = NoLoad /\ tools["turn"] = NoTool
  /\ program' = [program EXCEPT !.phase = "idle"]
  /\ UNCHANGED <<files, load, still, tools, owed, overlap, turns, sets, cuts>>

\* Mutant of Default: a program that cannot know its mode may only read.
DefaultReadOnly(settings) ==
  IF settings.ok /\ settings.mode # "unset" THEN settings.mode ELSE "read-only"

\* default_permission_mode: no settings and no mode in them are the same.
Default(settings) ==
  IF settings.ok /\ settings.mode # "unset" THEN settings.mode ELSE "danger-full-access"

\* The load for the mode is followed by the one of build_runtime; when that fails the
\* program ends, at its start and in a later turn alike.
End(settings) ==
  IF load.for = "mode"
  THEN /\ program' = [program EXCEPT !.mode = Default(settings)]
       /\ load' = Begin("build") /\ still' = [still EXCEPT !.load = TRUE]
  ELSE /\ program' = [program EXCEPT !.settings = settings,
            !.phase = IF ~settings.ok THEN "ended" ELSE IF @ = "start" THEN "idle" ELSE @]
       /\ load' = NoLoad /\ UNCHANGED still

\* load: the next file, or the end.
Load ==
  /\ load # NoLoad
  /\ IF load.at \notin Order THEN End(Parsed(load.merged, load.server))
     ELSE LET c == files[load.at] IN
       CASE Skipped(load.at, c) -> load' = [load EXCEPT !.at = @ + 1] /\ UNCHANGED <<program, still>>
         [] ~Skipped(load.at, c) /\ Refused(c) -> End(Failure)
         [] OTHER ->
              /\ load' = [load EXCEPT !.at = @ + 1, !.merged = Merged(@, c.keys),
                                      !.server = MergedServer(@, c.keys)]
              /\ UNCHANGED <<program, still>>
  /\ UNCHANGED <<files, tools, owed, overlap, turns, sets, cuts>>

-----------------------------------------------------------------------------
\* supported_config_setting with normalize_config_value; write_enabled_state of plugins.
Supported ==
  {[file |-> Global, path |-> "theme", value |-> "dark"],
   [file |-> Local, path |-> "model", value |-> "a name"],
   [file |-> Local, path |-> "model", value |-> "a number"],
   [file |-> Local, path |-> "permissions.defaultMode", value |-> "default"],
   [file |-> Global, path |-> OldPath("p"), value |-> TRUE]}

Changed == still' = [load |-> FALSE, start |-> FALSE]

\* execute_config, update_settings_json: a file that is not an object is an error.
Read(w) ==
  /\ tools[w] = NoTool /\ sets > 0 /\ sets' = sets - 1
  /\ w = "turn" => program.phase = "turn" /\ load = NoLoad
  /\ \E s \in Supported :
       /\ files[s.file].kind \in {"none", "object"}
       /\ tools' = [tools EXCEPT ![w] = [at |-> "read", keys |-> files[s.file].keys, set |-> s]]
       /\ overlap' = (overlap \/ \E v \in Writers : tools[v] # NoTool /\ tools[v].set.file = s.file)
  /\ UNCHANGED <<files, load, program, still, owed, turns, cuts>>

Truncate(w) ==
  /\ tools[w].at = "read" /\ tools' = [tools EXCEPT ![w].at = "truncated"]
  /\ files' = [files EXCEPT ![tools[w].set.file] = Object(<<>>)] /\ Changed
  /\ UNCHANGED <<load, program, owed, overlap, turns, sets, cuts>>

\* Mutant of With: only what was set is written.
WithOnly(keys, s) == [p \in {s.path} |-> s.value]

\* set_nested_value.
With(keys, s) == Over([p \in {s.path} |-> s.value], keys)

Write(w) ==
  /\ tools[w].at = "truncated" /\ tools' = [tools EXCEPT ![w] = NoTool]
  /\ LET s == tools[w].set IN
       /\ files' = [files EXCEPT ![s.file] = Object(With(tools[w].keys, s))]
       /\ owed' = Over([at \in {<<s.file, s.path>>} |-> s.value], owed)
  /\ Changed /\ UNCHANGED <<load, program, overlap, turns, sets, cuts>>

\* Everything is cut off; a file that was being written is empty or torn.
Cut ==
  /\ cuts > 0 /\ cuts' = cuts - 1
  /\ LET hit == {tools[w].set.file : w \in {v \in Writers : tools[v].at = "truncated"}} IN
       /\ files' \in {[i \in Order |-> IF i \in hit THEN c ELSE files[i]] :
                        c \in {Object(<<>>), [Absent EXCEPT !.kind = "torn"]}}
       /\ overlap' = (overlap \/ hit # {})
  /\ program' = Off /\ load' = NoLoad /\ tools' = [w \in Writers |-> NoTool] /\ Changed
  /\ UNCHANGED <<owed, turns, sets>>

Next ==
  \/ Start \/ Turn \/ TurnEnds \/ Load
  \/ \E w \in Writers : Read(w) \/ Truncate(w) \/ Write(w)
  \/ Cut

-----------------------------------------------------------------------------
TypeOK ==
  /\ files = [i \in Order |-> [kind |-> files[i].kind, keys |-> files[i].keys]]
  /\ \A i \in Order : files[i].kind \in Kinds /\ (files[i].kind # "object" => files[i].keys = <<>>)
  /\ program = [phase |-> program.phase, asked |-> program.asked, mode |-> program.mode,
                 settings |-> program.settings]
  /\ program.phase \in {"off", "start", "idle", "turn", "ended"}
  /\ load # NoLoad =>
       /\ load = [for |-> load.for, at |-> load.at, merged |-> load.merged, server |-> load.server]
       /\ load.for \in {"mode", "build"} /\ load.at \in 1..6
  /\ still \in [load : BOOLEAN, start : BOOLEAN]
  /\ tools = [w \in Writers |-> tools[w]]
  /\ \A w \in {v \in Writers : tools[v] # NoTool} :
       /\ tools[w] = [at |-> tools[w].at, keys |-> tools[w].keys, set |-> tools[w].set]
       /\ tools[w].at \in {"read", "truncated"} /\ tools[w].set \in Supported
  /\ DOMAIN owed \subseteq {<<s.file, s.path>> : s \in Supported}
  /\ overlap \in BOOLEAN

\* The last file that has a path, and its value.
Last(fs, path) == Max({i \in Order : path \in DOMAIN fs[i].keys} \cup {0})
Value(fs, path) == IF Last(fs, path) = 0 THEN "unset" ELSE fs[Last(fs, path)].keys[path]

(* What the files say: each path is that of the last file that has it, but *)
(* for a server, of which the last file says everything; the deprecated    *)
(* name of the mode in any file comes before the new one, the new name of  *)
(* the plugins' flags in any file before the deprecated one.               *)
Said(fs) ==
  LET mode == IF Last(fs, "permissionMode") # 0 THEN Value(fs, "permissionMode")
              ELSE Value(fs, "permissions.defaultMode")
      server == Max({0} \cup {Last(fs, path) : path \in Server})
      named == \E p \in Plugins : Last(fs, NewPath(p)) # 0
      on == {p \in Plugins : LET path == IF named THEN NewPath(p) ELSE OldPath(p) IN
                               Last(fs, path) # 0 /\ Value(fs, path)} IN
  IF mode = "nonsense" \/ \E i \in Order : ~Skipped(i, fs[i]) /\ Refused(fs[i]) THEN Failure
  ELSE Loaded(mode, Value(fs, "model"), on,
              IF server = 0 THEN <<>> ELSE Restrict(fs[server].keys, Server \cap DOMAIN fs[server].keys))

\* A load beside which nothing is written gives what the files say.
LoadIsExact == load = NoLoad /\ still.load => program.settings = Said(files)

\* A program that runs has the mode asked for, or else the mode that the files say; full
\* access only when they say that, or no mode.
ModeIsNamed ==
  still.start /\ program.phase \in {"idle", "turn"} =>
    program.mode = IF program.asked # "unset" THEN program.asked
                   ELSE IF Said(files).mode = "unset" THEN "danger-full-access" ELSE Said(files).mode

\* What was set stays set, whatever else is set in whichever file.
SetsAreKept ==
  ~overlap => \A at \in DOMAIN owed :
    \/ \E w \in Writers : tools[w].at = "truncated" /\ tools[w].set.file = at[1]
    \/ at[2] \in DOMAIN files[at[1]].keys /\ files[at[1]].keys[at[2]] = owed[at]

(* Why it is.  A load beside which nothing is written has merged the files *)
(* before the one it is at, so that each path has the last of its values.  *)
MergedSoFar ==
  LET before == 1..(load.at - 1) IN
  load # NoLoad /\ still.load =>
    /\ \A i \in before : Skipped(i, files[i]) \/ ~Refused(files[i])
    /\ DOMAIN load.merged = UNION {DOMAIN files[i].keys : i \in before}
    /\ \A i \in before : \A p \in DOMAIN files[i].keys :
         (\A j \in before : j > i => p \notin DOMAIN files[j].keys) => load.merged[p] = files[i].keys[p]
    /\ (\A i \in before : Server \cap DOMAIN files[i].keys = {}) => load.server = <<>>
    /\ \A i \in before :
         Server \cap DOMAIN files[i].keys # {} /\ (\A j \in before : j > i => Server \cap DOMAIN files[j].keys = {})
           => load.server = Restrict(files[i].keys, Server \cap DOMAIN files[i].keys)

\* The mode is what the first load said, and later ones that meet the same files say it too.
ModeFollows ==
  /\ still.start => still.load
  /\ load.for = "mode" => program.asked = "unset" /\ program.phase = "start"
  /\ load # NoLoad => program.phase \in {"start", "turn"}
  /\ load = NoLoad => program.phase # "start"
  /\ program.asked # "unset" => program.mode = program.asked
  /\ still.start /\ program.asked = "unset" /\ (program.phase \in {"idle", "turn"} \/ load.for = "build")
       => program.mode = Default(Said(files))
  /\ still.start /\ program.phase \in {"idle", "turn"} => Said(files).ok

\* Writers that are not at one file find in it, and write again, what was set before.
WritersKeep ==
  ~overlap => \A w \in {v \in Writers : tools[v] # NoTool} :
    /\ \A v \in Writers \ {w} : tools[v] # NoTool => tools[v].set.file # tools[w].set.file
    /\ tools[w].at = "read" => files[tools[w].set.file].keys = tools[w].keys
    /\ \A at \in DOMAIN owed : at[1] = tools[w].set.file =>
         at[2] \in DOMAIN tools[w].keys /\ tools[w].keys[at[2]] = owed[at]

Inv == TypeOK /\ MergedSoFar /\ LoadIsExact /\ ModeFollows /\ WritersKeep /\ SetsAreKept

SettingsAreSound == LoadIsExact /\ ModeIsNamed /\ SetsAreKept

\* A setting that is set with success does not stop the program from loading its settings.
StaysLoadable ==
  \A w \in Writers :
    tools[w].at = "truncated" /\ tools'[w].at = "none" /\ cuts' = cuts
      /\ Said([files EXCEPT ![tools[w].set.file] = Object(tools[w].keys)]).ok
    => Said(files').ok
===============================================================================
