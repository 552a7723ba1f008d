---------------------------- MODULE PluginLoader ----------------------------
(***************************************************************************)
(* The plugin loader (agents/loader): installer, discovery and validator   *)
(* on the directories below agents/, and the bridge that takes a           *)
(* discovered manifest through policy into a capability store and a tool   *)
(* registry.                                                               *)
(*                                                                         *)
(* Files.  A file is modelled by the package it was copied from, and a     *)
(* directory by its path.  The name in a manifest is any string and is     *)
(* joined to a path as it is; as a path it goes up some levels and then    *)
(* down again, or starts at the root.  The installer's calls are           *)
(* synchronous; the file system may fail in the middle of a copy or of a   *)
(* removal and leave any part of it done.                                  *)
(*                                                                         *)
(* Bridge.  register and unregister await the policy and the store.  These *)
(* and the tool registry are the callers' objects: they do what they are   *)
(* asked, a second registration taking the place of the first, or raise.   *)
(* Other calls run while one awaits.                                       *)
(***************************************************************************)
EXTENDS Integers, Sequences, FiniteSets

CONSTANTS
  Packages,   \* source directories: records name, plugin_type, files, wrong
  NoFile,
  Ops         \* calls of register and unregister

\* A name is a record: absolute or not, the levels it goes up, and the parts
\* it then goes down (names that go up past the directory the root is in are left out).
\* "wrong" is the set of manifest fields that do not pass
\* validate_manifest ("null" being a capabilities key without a value),
\* "files" what the directory holds besides manifest.yaml.
Fields == {"name", "version", "plugin_type", "runtime_type", "author", "entrypoint",
           "capabilities", "null", "permissions", "dependencies"}

PluginType == {"agent", "tool", "model", "framework"}

ASSUME LoaderAssumption ==
  /\ \A p \in Packages : p.plugin_type \in PluginType /\ p.wrong \subseteq Fields
  /\ \A p \in Packages : "manifest.yaml" \notin p.files
  /\ \A p \in Packages : /\ p.name.absolute \in BOOLEAN /\ p.name.up \in 0 .. 3
                         /\ p.name.parts \in Seq(STRING)
  /\ NoFile \notin Packages

Names == {p.name : p \in Packages}
Files == (UNION {p.files : p \in Packages}) \cup {"manifest.yaml"}

\* PLUGIN_DIRS
PLUGIN_DIRS == {"tools", "frameworks", "models"}

\* A plugin directory, below the project's root.
plugin_dir(subdir) == <<"root", "agents", subdir>>

\* The type and an "s", agents being kept with the tools.
type_dir(p) ==
  CASE p.plugin_type \in {"agent", "tool"} -> "tools"
    [] p.plugin_type = "model" -> "models"
    [] p.plugin_type = "framework" -> "frameworks"

\* _plugin_dest: an absolute name takes the place of the whole path.
plugin_dest(p) ==
  IF p.name.absolute THEN p.name.parts
  ELSE SubSeq(plugin_dir(type_dir(p)), 1, 3 - p.name.up) \o p.name.parts

Dirs == {plugin_dest(p) : p \in Packages}

\* The directories the scan looks at: one level below those of PLUGIN_DIRS.
Components == UNION {{p.name.parts[i] : i \in 1 .. Len(p.name.parts)} : p \in Packages}
ScannedDirs ==
  {d \in Dirs : \E subdir \in PLUGIN_DIRS, entry \in Components :
                  d = plugin_dir(subdir) \o <<entry>>}

VARIABLES
  disk,       \* the package each file of each plugin directory comes from
  good,       \* history: the package last installed, if nothing failed since
  op,         \* each call of the bridge: what it does, for whom, where it is
  caps,       \* capability store: the package whose capabilities it holds
  registry,   \* tool registry: the package whose entrypoint it holds
  disturbed   \* history: names with an overlap of calls or a call that raised

files == <<disk, good>>
bridge == <<op, caps, registry, disturbed>>
loaderVars == <<disk, good, op, caps, registry, disturbed>>

Idle == [kind |-> "none", plugin |-> NoFile, at |-> "idle"]

LoaderTypeOK ==
  /\ disk \in [Dirs -> [Files -> Packages \cup {NoFile}]]
  /\ good \in [Dirs -> Packages \cup {NoFile}]
  /\ op \in [Ops -> [kind : {"none", "register", "unregister"}, plugin : Packages \cup {NoFile},
                     at : {"idle", "policy", "store", "stored", "over"}]]
  /\ caps \in [Names -> Packages \cup {NoFile}]
  /\ registry \in [Names -> Packages \cup {NoFile}]
  /\ disturbed \subseteq Names

LoaderInit ==
  /\ disk = [d \in Dirs |-> [f \in Files |-> NoFile]]
  /\ good = [d \in Dirs |-> NoFile]
  /\ op = [o \in Ops |-> Idle]
  /\ caps = [n \in Names |-> NoFile]
  /\ registry = [n \in Names |-> NoFile]
  /\ disturbed = {}

-----------------------------------------------------------------------------
(* Installer and discovery.                                                *)

\* The errors of all fields are collected and raised as one ValidationError;
\* the loop over capabilities raises TypeError when there is no list.
validate_manifest(p) ==
  IF "null" \in p.wrong THEN "TypeError"
  ELSE IF p.wrong # {} THEN "ValidationError" ELSE "valid"

\* The manifests the scan of PLUGIN_DIRS meets, with their directories.
Scanned == {x \in ScannedDirs \X Packages : disk[x[1]]["manifest.yaml"] = x[2]}

\* Only ValidationError is handled in the loop: a manifest that raises it is
\* logged and skipped, any other exception ends the scan.
discovery_raises == \E x \in Scanned : validate_manifest(x[2]) = "TypeError"

discover_plugins ==
  IF discovery_raises THEN {} ELSE {x \in Scanned : validate_manifest(x[2]) = "valid"}

Listed == {x[2] : x \in discover_plugins}

Content(p) == p.files \cup {"manifest.yaml"}

\* Mutant: files that are there already are kept.
OverlayKeeping(d, p, copied) ==
  [disk EXCEPT ![d] = [f \in Files |-> IF f \in copied /\ @[f] = NoFile THEN p ELSE @[f]]]

Overlay(d, p, copied) ==
  [disk EXCEPT ![d] = [f \in Files |-> IF f \in copied THEN p ELSE @[f]]]

\* copytree over the directory that may be there already.
install_from_path(p) ==
  /\ validate_manifest(p) = "valid"
  /\ LET d == plugin_dest(p)
     IN  /\ disk' = Overlay(d, p, Content(p))
         /\ good' = [good EXCEPT ![d] = p]
  /\ UNCHANGED bridge

\* Some files cannot be copied: OSError after the others were.
InstallRaises(p) ==
  /\ validate_manifest(p) = "valid"
  /\ LET d == plugin_dest(p)
     IN  /\ \E copied \in SUBSET Content(p) :
              copied # Content(p) /\ disk' = Overlay(d, p, copied)
         /\ good' = [good EXCEPT ![d] = NoFile]
  /\ UNCHANGED bridge

\* remove takes the first manifest of that name (tools, then frameworks,
\* then models) and deletes the directory it would be installed to.
First(n) ==
  LET found == {x \in discover_plugins : x[2].name = n}
      In(subdir) == {x \in found : x[1][3] = subdir}
  IN  IF In("tools") # {} THEN In("tools")
      ELSE IF In("frameworks") # {} THEN In("frameworks") ELSE In("models")

\* d and the directories in it.
Below(d) == {e \in Dirs : Len(d) <= Len(e) /\ SubSeq(e, 1, Len(d)) = d}

\* rmtree takes what is below the directory too, and may fail with any part of
\* it deleted.
Delete(d) ==
  /\ \E gone \in SUBSET {x \in Below(d) \X Files : disk[x[1]][x[2]] # NoFile} :
       disk' = [e \in Dirs |->
                  [f \in Files |-> IF <<e, f>> \in gone THEN NoFile ELSE disk[e][f]]]
  /\ good' = [e \in Dirs |-> IF e \in Below(d) THEN NoFile ELSE good[e]]

remove(n) ==
  /\ \E x \in First(n) :
       /\ disk[plugin_dest(x[2])] # [f \in Files |-> NoFile]
       /\ Delete(plugin_dest(x[2]))
  /\ UNCHANGED bridge

\* Somebody edits the manifest of an installed plugin by hand.
Edited(p) ==
  LET d == plugin_dest(p)
  IN  /\ good[d] # NoFile
      /\ disk' = Overlay(d, p, {"manifest.yaml"})
      /\ good' = [good EXCEPT ![d] = NoFile]
      /\ UNCHANGED bridge

-----------------------------------------------------------------------------
(* The bridge.                                                             *)

Active(n) == {o \in Ops : op[o].at \in {"policy", "store", "stored"} /\ op[o].plugin.name = n}

\* Bookkeeping of disturbed: a second call for the same name has begun.
Begins(n) == disturbed' = IF Active(n) = {} THEN disturbed ELSE disturbed \cup {n}

\* A package that stands for a name.
Named(n) == CHOOSE p \in Packages : p.name = n

Moves(o, at) == op' = [op EXCEPT ![o].at = at]

\* The manifest comes from discovery; with a policy evaluator its verdict is
\* awaited first.
bridge_register(o, p) ==
  /\ op[o] = Idle
  /\ p \in Listed
  /\ \E at \in {"policy", "store"} : op' = [op EXCEPT ![o] = [kind |-> "register", plugin |-> p, at |-> at]]
  /\ Begins(p.name)
  /\ UNCHANGED <<files, caps, registry>>

\* Rejected by policy: a RegistrationResult without success.
PolicyAnswers(o) ==
  /\ op[o].at = "policy"
  /\ \E at \in {"store", "over"} : Moves(o, at)
  /\ UNCHANGED <<files, caps, registry, disturbed>>

\* Called with a name, registered or not.
bridge_unregister(o, n) ==
  /\ op[o] = Idle
  /\ op' = [op EXCEPT ![o] = [kind |-> "unregister", plugin |-> Named(n), at |-> "store"]]
  /\ Begins(n)
  /\ UNCHANGED <<files, caps, registry>>

\* The store does what add_capabilities or remove_capabilities asks; its
\* answer is still to come.
StoreActs(o) ==
  LET p == op[o].plugin
  IN  /\ op[o].at = "store"
      /\ caps' = [caps EXCEPT ![p.name] = IF op[o].kind = "register" THEN p ELSE NoFile]
      /\ Moves(o, "stored")
      /\ UNCHANGED <<files, registry, disturbed>>

\* The store, the policy or the registry raises, or the task is cancelled: the
\* call ends where it is, and nothing is taken back.
BridgeRaises(o) ==
  /\ op[o].at \in {"policy", "store", "stored"}
  /\ Moves(o, "over")
  /\ disturbed' = disturbed \cup {op[o].plugin.name}
  /\ UNCHANGED <<files, caps, registry>>

\* Mutant: register_tool comes before the capabilities are stored.
RegisterToolEarly(o) ==
  LET p == op[o].plugin
  IN  /\ op[o].at = "store"
      /\ op[o].kind = "register"
      /\ registry' = [registry EXCEPT ![p.name] = p]
      /\ Moves(o, "over")
      /\ UNCHANGED <<files, caps, disturbed>>

\* Mutant: a name that is registered keeps its old entrypoint.
RegisterToolOnce(o) ==
  LET p == op[o].plugin
  IN  /\ op[o].at = "stored"
      /\ op[o].kind = "register"
      /\ registry' = [registry EXCEPT ![p.name] = IF @ = NoFile THEN p ELSE @]
      /\ Moves(o, "over")
      /\ UNCHANGED <<files, caps, disturbed>>

\* The store has answered: register_tool, over what the name may hold.
RegisterTool(o) ==
  LET p == op[o].plugin
  IN  /\ op[o].at = "stored"
      /\ op[o].kind = "register"
      /\ registry' = [registry EXCEPT ![p.name] = p]
      /\ Moves(o, "over")
      /\ UNCHANGED <<files, caps, disturbed>>

\* unregister_tool, of a name that need not be registered.
UnregisterTool(o) ==
  LET p == op[o].plugin
  IN  /\ op[o].at = "stored"
      /\ op[o].kind = "unregister"
      /\ registry' = [registry EXCEPT ![p.name] = NoFile]
      /\ Moves(o, "over")
      /\ UNCHANGED <<files, caps, disturbed>>

LoaderNext ==
  \/ \E p \in Packages : install_from_path(p) \/ InstallRaises(p) \/ Edited(p)
  \/ \E n \in Names : remove(n)
  \/ \E o \in Ops, p \in Packages : bridge_register(o, p)
  \/ \E o \in Ops, n \in Names : bridge_unregister(o, n)
  \/ \E o \in Ops : PolicyAnswers(o) \/ StoreActs(o) \/ BridgeRaises(o) \/ RegisterTool(o)
                    \/ UnregisterTool(o)

LoaderSpec == LoaderInit /\ [][LoaderNext]_loaderVars

-----------------------------------------------------------------------------
(* Properties.                                                             *)

\* A name that is one path component, as those of all plugins in the tree.
one_component(name) == ~name.absolute /\ name.up = 0 /\ Len(name.parts) = 1

\* A plugin whose last install succeeded and that nothing has touched since
\* is whole: every file of the package comes from it, whatever was in the
\* directory before, a half-copied or half-removed plugin included.  If its
\* name is one path component, a scan that does not raise lists it, from the
\* directory that remove would delete; of other names, which the validator
\* lets pass too, nothing is said.  It is never the one that makes the scan
\* raise.
InstalledIsListed ==
  \A d \in Dirs : good[d] # NoFile =>
    /\ \A f \in Content(good[d]) : disk[d][f] = good[d]
    /\ plugin_dest(good[d]) = d
    /\ one_component(good[d].name) =>
         <<d, good[d]>> \in discover_plugins \/ discovery_raises
    /\ validate_manifest(good[d]) # "TypeError"

\* If the calls of register and unregister for a plugin name neither overlap
\* nor raise, the capability store and the tool registry hold the same
\* plugin, or neither holds any, whenever no call is under way: also after a
\* plugin was registered over another of its name, policy has rejected one, or
\* a name was unregistered that was never registered.
SequentialUseAgrees ==
  \A n \in Names : (n \notin disturbed /\ Active(n) = {}) => caps[n] = registry[n]

\* However calls of register overlap, fail or are refused by policy, a tool
\* is never registered without capabilities of its plugin in the store,
\* unless somebody has called unregister for that name.
CapabilitiesFirst ==
  \A n \in Names :
    (registry[n] # NoFile /\ ~\E o \in Ops : op[o].kind = "unregister" /\ op[o].plugin.name = n)
      => caps[n] # NoFile
=============================================================================
