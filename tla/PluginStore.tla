----------------------------- MODULE PluginStore -----------------------------
(***************************************************************************)
(* PluginManager of plugins/src/lib.rs: the installed directories, the     *)
(* registry file that records them and the settings file that enables      *)
(* them.  No operation is atomic: it is a sequence of calls of the file    *)
(* system, each of which may be cut off by an error or by the end of the   *)
(* program, and the next operation starts from what is left.               *)
(*                                                                         *)
(* A plugin stands for its id, its directory and its source.  A version is *)
(* a number; what else the manifest holds is left out.                     *)
(***************************************************************************)
EXTENDS Naturals, Sequences

CONSTANTS
  External,       \* plugins a user installs from a source
  Bundled,        \* plugins that come with the program
  Versions,       \* bound: the versions of a source are 1..Versions
  MaxOps,         \* bound: operations
  MaxCuts         \* bound: operations that are cut off

VARIABLES
  source,    \* the version of a plugin at its source
  dir,       \* its directory under install_root
  registry,  \* the registry file
  settings,  \* the settings file
  op,        \* the operation in progress: what is left of it
  last,      \* the operation that ended last
  off,       \* plugins the user disabled, and has not enabled since
  torn,      \* a write of the settings file has been cut off
  ops, cuts  \* counters of the bounds

vars == <<source, dir, registry, settings, op, last, off, torn, ops, cuts>>

Plugin == External \union Bundled

\* A directory is "absent", has no manifest, does not load, or holds a version.
Dir == [kind : {"absent", "bare", "broken"}, version : {0}]
         \union [kind : {"whole"}, version : 1..Versions]
Gone(k) == [kind |-> k, version |-> 0]
Whole(v) == [kind |-> "whole", version |-> v]

\* A file that was cut off while it was written is empty or does not parse.
FileState == {"read", "empty", "garbled"}

NoRecords == [p \in Plugin |-> 0]
NoFlags == [p \in Plugin |-> "unset"]

Idle == [kind |-> "none", plugin |-> CHOOSE p \in Plugin : TRUE, todo |-> <<>>]

Init ==
  /\ source = [p \in Plugin |-> 1]
  /\ dir = [p \in Plugin |-> Gone("absent")]
  /\ registry = [state |-> "read", records |-> NoRecords]
  /\ settings = [state |-> "read", flags |-> NoFlags]
  /\ op = Idle
  /\ last = [kind |-> "none", plugin |-> Idle.plugin, result |-> "none"]
  /\ off = {}
  /\ torn = FALSE
  /\ ops = 0 /\ cuts = 0

-----------------------------------------------------------------------------
(* What the files say.                                                     *)

\* load_registry: an empty file is a registry without records.
Records == IF registry.state = "read" THEN registry.records ELSE NoRecords

Flags == IF settings.state = "read" THEN settings.flags ELSE NoFlags

\* is_enabled: external plugins are off by default; the bundled one here is on by default.
is_enabled(p) == IF Flags[p] = "unset" THEN p \in Bundled ELSE Flags[p] = "on"

\* sync_bundled_plugins: the copy of a bundled plugin is missing, stale or does not load.
NeedsSync(p) == Records[p] # source[p] \/ dir[p].kind # "whole"

Loads(p) == dir[p].kind = "whole"

\* plugin_registry: one plugin that does not load fails the whole call.
RegistryLoads == \A p \in Plugin : dir[p].kind # "broken"

\* Records whose directory has gone or lost its manifest.
Stale == {p \in Plugin : Records[p] # 0 /\ dir[p].kind \in {"absent", "bare"}}

-----------------------------------------------------------------------------
(* Operations: each is the sequence of its steps.                          *)

\* What plugin_registry_report does before it answers.
Report == <<"sync", "recorded", "prune", "load">>

install == <<"fetch", "remove", "copy", "record", "on">>

\* Mutant of update: an update turns the plugin on, as an installation does.
update_enables == <<"known", "fetch", "remove", "copy", "record", "on">>

update == <<"known", "fetch", "remove", "copy", "record">>

\* Mutant of uninstall: the flag in the settings is forgotten.
uninstall_keeps_flag == <<"known", "remove", "forget">>

uninstall == <<"known", "remove", "forget", "unset">>

Steps(k) ==
  CASE k = "install" -> install [] k = "update" -> update [] k = "uninstall" -> uninstall
    [] k = "enable" -> Report \o <<"on">> [] k = "disable" -> Report \o <<"off">>
    [] k = "report" -> Report

Begin ==
  /\ op.kind = "none" /\ ops < MaxOps
  /\ ops' = ops + 1
  /\ \E k \in {"install", "update", "uninstall", "enable", "disable", "report"}, p \in Plugin :
       /\ k = "install" => p \in External
       /\ op' = [kind |-> k, plugin |-> p, todo |-> Steps(k)]
       /\ off' = IF k \in {"install", "enable"} THEN off \ {p} ELSE off
  /\ UNCHANGED <<source, dir, registry, settings, last, torn, cuts>>

Return(r) == op' = Idle /\ last' = [kind |-> op.kind, plugin |-> op.plugin, result |-> r]
GoOn == op' = [op EXCEPT !.todo = Tail(@)] /\ UNCHANGED last
At(s) == op.kind # "none" /\ op.todo # <<>> /\ Head(op.todo) = s
Cut == cuts < MaxCuts /\ cuts' = cuts + 1 /\ Return("cut")

Finish ==
  /\ op.kind # "none" /\ op.todo = <<>>
  /\ Return("ok")
  /\ off' = IF op.kind = "disable" THEN off \union {op.plugin} ELSE off
  /\ UNCHANGED <<source, dir, registry, settings, torn, ops, cuts>>

-----------------------------------------------------------------------------
(* Steps.  Each either goes on, returns an error, or is cut off.           *)

\* The source is cloned or found, and its manifest loads; nothing is changed yet.
Fetch ==
  /\ At("fetch")
  /\ \/ GoOn \/ Return("error")
  /\ UNCHANGED <<source, dir, registry, settings, off, torn, ops, cuts>>

\* load_registry and the checks of uninstall and update.
Known ==
  /\ At("known")
  /\ IF registry.state = "garbled" \/ Records[op.plugin] = 0 THEN Return("error")
     ELSE IF op.kind = "uninstall" /\ op.plugin \in Bundled THEN Return("error")
     ELSE GoOn
  /\ UNCHANGED <<source, dir, registry, settings, off, torn, ops, cuts>>

\* A directory that is half removed or half copied.
Partial == {Gone("bare"), Gone("broken")}

\* remove_dir_all, when there is something to remove.
Remove ==
  /\ At("remove")
  /\ \/ GoOn /\ dir' = [dir EXCEPT ![op.plugin] = Gone("absent")] /\ UNCHANGED cuts
     \/ /\ dir[op.plugin].kind # "absent" /\ Cut
        /\ \E d \in Partial : dir' = [dir EXCEPT ![op.plugin] = d]
  /\ UNCHANGED <<source, registry, settings, off, torn, ops>>

\* copy_dir_all
Copy ==
  /\ At("copy")
  /\ \/ GoOn /\ dir' = [dir EXCEPT ![op.plugin] = Whole(source[op.plugin])] /\ UNCHANGED cuts
     \/ /\ Cut
        /\ \E d \in Partial : dir' = [dir EXCEPT ![op.plugin] = d]
  /\ UNCHANGED <<source, registry, settings, off, torn, ops>>

\* store_registry of the records r; fs::write first empties the file.
Store(r) ==
  \/ GoOn /\ registry' = [state |-> "read", records |-> r] /\ UNCHANGED cuts
  \/ /\ Cut
     /\ \E s \in {"empty", "garbled"} : registry' = [state |-> s, records |-> NoRecords]

\* The record of an installation or an update; the registry has to parse.
Record ==
  /\ At("record")
  /\ IF registry.state = "garbled" THEN Return("error") /\ UNCHANGED <<registry, cuts>>
     ELSE Store([Records EXCEPT ![op.plugin] = source[op.plugin]])
  /\ UNCHANGED <<source, dir, settings, off, torn, ops>>

Forget ==
  /\ At("forget")
  /\ Store([Records EXCEPT ![op.plugin] = 0])
  /\ UNCHANGED <<source, dir, settings, off, torn, ops>>

\* sync_bundled_plugins: one bundled plugin is copied again.
Sync ==
  /\ At("sync")
  /\ IF registry.state = "garbled" THEN Return("error") /\ UNCHANGED <<dir, cuts>>
     ELSE \/ /\ GoOn /\ UNCHANGED cuts
             /\ dir' = [p \in Plugin |-> IF p \in Bundled /\ NeedsSync(p) THEN Whole(source[p]) ELSE dir[p]]
          \/ /\ Cut
             /\ \E p \in Bundled, d \in Partial : NeedsSync(p) /\ dir' = [dir EXCEPT ![p] = d]
  /\ UNCHANGED <<source, registry, settings, off, torn, ops>>

\* Mutant of Recorded: a bundled plugin whose version is on record is not recorded again.
RecordedUnwritten ==
  /\ At("recorded")
  /\ GoOn
  /\ UNCHANGED <<source, dir, registry, settings, off, torn, ops, cuts>>

\* The end of sync_bundled_plugins: the registry is stored if something was copied.
Recorded ==
  /\ At("recorded")
  /\ LET synced == [p \in Plugin |-> IF p \in Bundled THEN source[p] ELSE Records[p]] IN
     IF synced = Records THEN GoOn /\ UNCHANGED <<registry, cuts>> ELSE Store(synced)
  /\ UNCHANGED <<source, dir, settings, off, torn, ops>>

\* discover_installed_plugins_with_failures drops the stale records.
Prune ==
  /\ At("prune")
  /\ IF Stale = {} THEN GoOn /\ UNCHANGED <<registry, cuts>>
     ELSE Store([p \in Plugin |-> IF p \in Stale THEN 0 ELSE Records[p]])
  /\ UNCHANGED <<source, dir, settings, off, torn, ops>>

\* into_registry; enable and disable go on only for a plugin that is found.
Load ==
  /\ At("load")
  /\ IF RegistryLoads /\ (op.kind = "report" \/ Loads(op.plugin)) THEN GoOn ELSE Return("error")
  /\ UNCHANGED <<source, dir, registry, settings, off, torn, ops, cuts>>

\* write_enabled_state: the whole settings file is read, changed and written in place.
WriteFlag(s, flag) ==
  /\ At(s)
  /\ IF settings.state = "garbled" THEN Return("error") /\ UNCHANGED <<settings, torn, cuts>>
     ELSE \/ /\ GoOn /\ UNCHANGED <<torn, cuts>>
             /\ settings' = [state |-> "read", flags |-> [Flags EXCEPT ![op.plugin] = flag]]
          \/ /\ Cut /\ torn' = TRUE
             /\ \E x \in {"empty", "garbled"} :
                  settings' = [state |-> x, flags |-> NoFlags]
  /\ UNCHANGED <<source, dir, registry, off, ops>>

Enable == WriteFlag("on", "on")
Disable == WriteFlag("off", "off")
Unset == WriteFlag("unset", "unset")

\* The program ends between two steps.
Crash ==
  /\ op.kind # "none" /\ Cut
  /\ UNCHANGED <<source, dir, registry, settings, off, torn, ops>>

\* A source gets a new version.
Release ==
  /\ op.kind = "none"
  /\ \E p \in Plugin : source[p] < Versions /\ source' = [source EXCEPT ![p] = @ + 1]
  /\ UNCHANGED <<dir, registry, settings, op, last, off, torn, ops, cuts>>

\* Somebody repairs a file that does not parse by deleting it.
Repair ==
  /\ op.kind = "none"
  /\ \/ registry.state = "garbled" /\ registry' = [registry EXCEPT !.state = "empty"] /\ UNCHANGED settings
     \/ settings.state = "garbled" /\ settings' = [settings EXCEPT !.state = "empty"] /\ UNCHANGED registry
  /\ UNCHANGED <<source, dir, op, last, off, torn, ops, cuts>>

Next ==
  \/ Begin \/ Finish \/ Fetch \/ Known \/ Remove \/ Copy \/ Record \/ Forget \/ Sync \/ Recorded
  \/ Prune \/ Load \/ Enable \/ Disable \/ Unset \/ Crash \/ Release \/ Repair

Spec == Init /\ [][Next]_vars

-----------------------------------------------------------------------------
(* Properties.                                                             *)

\* Types of the files and of the operation.
TypeOK ==
  /\ source \in [Plugin -> 1..Versions]
  /\ dir \in [Plugin -> Dir]
  /\ registry \in [state : FileState, records : [Plugin -> 0..Versions]]
  /\ settings \in [state : FileState, flags : [Plugin -> {"unset", "on", "off"}]]
  /\ off \subseteq Plugin

Ended(k) == op.kind = "none" /\ last.kind = k /\ last.result = "ok"

(* An operation that reports success did all of it, from whatever an       *)
(* earlier one that was cut off had left: an installed plugin is whole,    *)
(* recorded and enabled (at the version it was installed from), one that   *)
(* was uninstalled has left neither files nor record nor flag behind.      *)
SuccessIsWhole ==
  LET p == last.plugin IN
  /\ Ended("install") => Loads(p) /\ Records[p] = dir[p].version /\ Flags[p] = "on"
  /\ Ended("update") => Loads(p) /\ Records[p] = dir[p].version
  /\ Ended("uninstall") => dir[p].kind = "absent" /\ Records[p] = 0 /\ Flags[p] = "unset"

(* After the registry was loaded every record has a plugin that loads, and *)
(* the bundled ones are whole, whatever had been cut off before.           *)
LoadedMeansWhole ==
  Ended("report") =>
    /\ \A p \in Plugin : Records[p] # 0 => Loads(p)
    /\ \A b \in Bundled : Records[b] = dir[b].version

(* A plugin the user disabled is off until the user installs or enables    *)
(* it: no update, synchronisation or failure turns it on.  (A settings     *)
(* file that is cut off while it is written forgets what it held.)         *)
DisabledStaysOff == \A p \in off : is_enabled(p) => torn

\* The three promises of the manager.
StoreIsSound == SuccessIsWhole /\ LoadedMeansWhole /\ DisabledStaysOff

-----------------------------------------------------------------------------
(* What all this follows from.                                             *)

\* How many steps the operation has left.
Left == Len(op.todo)

(* A version on record was at the source once, and no directory that loads *)
(* is older than its record: what is copied is what the source has then.   *)
Files ==
  /\ TypeOK
  /\ \A p \in Plugin :
       /\ Records[p] <= source[p]
       /\ Loads(p) => Records[p] <= dir[p].version /\ dir[p].version <= source[p]

Step == {"known", "fetch", "remove", "copy", "record", "forget", "sync", "recorded", "prune", "load",
         "on", "off", "unset"}

\* What is left of an operation is an end of its steps.
Operation ==
  /\ op = [kind |-> op.kind, plugin |-> op.plugin, todo |-> op.todo]
  /\ op.kind # "none" =>
       /\ op.kind \in {"install", "update", "uninstall", "enable", "disable", "report"}
       /\ op.plugin \in Plugin
       /\ op.todo \in Seq(Step) /\ Left <= Len(Steps(op.kind))
       /\ \A i \in 1..Left : op.todo[i] = Steps(op.kind)[i + (Len(Steps(op.kind)) - Left)]

\* What the steps of an installation, an update and a removal have done so far.
Installing ==
  op.kind = "install" =>
    /\ Left <= 2 => dir[op.plugin] = Whole(source[op.plugin])
    /\ Left <= 1 => Records[op.plugin] = source[op.plugin]
    /\ Left <= 0 => Flags[op.plugin] = "on"

Updating ==
  op.kind = "update" =>
    /\ Left <= 1 => dir[op.plugin] = Whole(source[op.plugin])
    /\ Left <= 0 => Records[op.plugin] = source[op.plugin]

Uninstalling ==
  op.kind = "uninstall" =>
    /\ Left <= 3 => op.plugin \notin Bundled
    /\ Left <= 2 => dir[op.plugin].kind = "absent"
    /\ Left <= 1 => Records[op.plugin] = 0
    /\ Left <= 0 => Flags[op.plugin] = "unset"

\* How much is left of a report, which enable and disable make first.
ReportLeft == IF op.kind = "report" THEN Left ELSE Left - 1

Reporting ==
  op.kind \in {"enable", "disable", "report"} =>
    /\ ReportLeft <= 3 => \A b \in Bundled : dir[b] = Whole(source[b])
    /\ ReportLeft <= 2 => \A b \in Bundled : Records[b] = source[b]
    /\ ReportLeft <= 1 => Stale = {}
    /\ ReportLeft <= 0 => RegistryLoads

\* Who is off has its flag off, or none and is not on by default; the plugin that is being
\* turned on is not among them.
Flagged ==
  /\ \A p \in off : torn \/ Flags[p] = "off" \/ (Flags[p] = "unset" /\ p \notin Bundled)
  /\ op.kind \in {"install", "enable"} => op.plugin \notin off
  /\ op.kind = "disable" /\ Left <= 0 => Flags[op.plugin] = "off"

Progress == Installing /\ Updating /\ Uninstalling /\ Reporting

Inv == Files /\ Operation /\ Progress /\ Flagged /\ SuccessIsWhole /\ LoadedMeansWhole
==============================================================================
