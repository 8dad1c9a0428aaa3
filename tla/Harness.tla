------------------------------- MODULE Harness -------------------------------
(* install-harness and its --uninstall, for one harness of one user: skill  *)
(* and agent files, hook groups (or one named hook) in a settings file the  *)
(* user and other tools also write, suite variables, and opencode's plugin. *)
(* A manifest, written last, records what was installed and its hash.  The  *)
(* run can die, or raise, between any two writes, and the user edits what   *)
(* is on disk at any moment.                                                *)
EXTENDS Naturals, Sequences

CONSTANTS
  Harnesses,  \* the harnesses to consider
  Skill, Agent, Event, Key,
  Ships,      \* per release: text of each file and hook, the retired keys
  Envs,       \* the suite environments an install can meet: [Key -> Value]
  UserText,   \* what a user writes into a file or a hook group
  Value,      \* values of variables
  None,
  MaxEdits    \* bound: edits the user makes

OurFiles    == Skill \cup Agent
Tracked  == OurFiles \cup Event
Editions == DOMAIN Ships
Texts    == UserText \cup ({Ships[r].text[i] : r \in Editions, i \in Tracked} \ {None})

ASSUME HarnessAssumption ==
  /\ Harnesses \subseteq {"claude", "codex", "agy", "hermes", "opencode"}
  /\ Editions = 1..Len(Ships) /\ Editions # {}
  /\ \A r \in Editions : /\ Ships[r].retired \subseteq Key
                         /\ \A e \in Event : Ships[r].text[e] # None
                         /\ \A i \in Tracked : Ships[r].text[i] \notin UserText
  /\ OurFiles \cap Event = {} /\ Tracked \cap Key = {}
  /\ None \notin UserText \cup Value
  /\ Envs \subseteq [Key -> Value \cup {None}]
  /\ MaxEdits \in Nat

VARIABLES
  harness, edition,
  disk,       \* [OurFiles -> <<>> or <<text>>]
  groups,     \* [Event -> the groups of the settings file with our command]
  keys,       \* [Key -> value]: settings' env, or the lines outside the block
  block,      \* [Key -> value]: hermes' managed block
  plugin,     \* opencode: release of the copied package, entry in the config
  manifest,
  step, prev,   \* where the run is; the manifest it read
  next,       \* the manifest it will write
  copy,       \* the settings it loaded
  todo,       \* files it has still to deal with
  env, conflict,
  ours,       \* history: tracked items and keys this tool put where they are
  theirs,     \* history: what the user keeps under a name that is not ours
  quiet,      \* history: the user did nothing during this run
  crashed, raced, \* history: a run died; the user saved settings a run held
  edits

places == <<disk, groups, keys, block, plugin>>
held   == <<prev, next, copy, todo, env, conflict>>
past   == <<ours, theirs, quiet, crashed, raced, edits>>
harnessVars   == <<harness, edition, places, manifest, step, held, past>>

Items == Tracked \cup Key
Blank == [written |-> FALSE, text |-> [i \in Tracked |-> None], keys |-> {},
          plugin |-> FALSE]
Nothing(S) == [i \in S |-> <<>>]
Unset      == [k \in Key |-> None]
Fresh ==
  /\ prev' = Blank /\ next' = Blank /\ todo' = {} /\ env' = Unset /\ conflict' = FALSE
  /\ copy' = [groups |-> Nothing(Event), keys |-> Unset]

Hooked     == harness # "opencode"
Present(m) == {k \in Key : m[k] # None}
ShippedText(i) ==
  IF (i \in Agent /\ harness # "opencode") \/ (i \in Event /\ ~Hooked)
  THEN None ELSE Ships[edition].text[i]

HarnessInit ==
  /\ harness \in Harnesses /\ edition = 1
  /\ disk = Nothing(OurFiles) /\ groups = Nothing(Event)
  /\ keys = Unset /\ block = Unset
  /\ plugin = [files |-> 0, entry |-> FALSE]
  /\ manifest = Blank
  /\ step = "idle" /\ prev = Blank /\ next = Blank
  /\ copy = [groups |-> Nothing(Event), keys |-> Unset]
  /\ todo = {} /\ env = Unset /\ conflict = FALSE
  /\ ours = {} /\ theirs = [i \in Items |-> None]
  /\ quiet = TRUE /\ crashed = FALSE /\ raced = FALSE /\ edits = 0

(* What an item becomes, what the manifest says of it and whether that is  *)
(* a conflict, from what is there, what was recorded and what is shipped.  *)
Outcome(there, said, clash) == [there |-> there, said |-> said, clash |-> clash]

(* Mutant: content equal to the payload is taken as owned. *)
InstallAdopting(there, recorded, new) ==
  CASE there = <<>>                         -> Outcome(<<new>>, new, FALSE)
    [] there = <<new>>                      -> Outcome(there, new, FALSE)
    [] there # <<>> /\ recorded = None      -> Outcome(there, None, TRUE)
    [] there \notin {<<>>, <<new>>, <<recorded>>} /\ recorded # None
                                            -> Outcome(there, recorded, TRUE)
    [] OTHER                                -> Outcome(<<new>>, new, FALSE)

InstallTracked(there, recorded, new) ==
  CASE there = <<>>                         -> Outcome(<<new>>, new, FALSE)
    [] there # <<>> /\ recorded = None      -> Outcome(there, None, TRUE)
    [] there = <<new>> /\ recorded # None   -> Outcome(there, new, FALSE)
    [] there \notin {<<>>, <<new>>, <<recorded>>} /\ recorded # None
                                            -> Outcome(there, recorded, TRUE)
    [] there = <<recorded>> /\ recorded \notin {new, None}
                                            -> Outcome(<<new>>, new, FALSE)

(* Mutant: a recorded event with a duplicate counts as installed. *)
MergeFirstGroup(there, recorded, new) ==
  IF Len(there) > 1 THEN Outcome(there, recorded, recorded = None)
  ELSE InstallTracked(there, recorded, new)

(* Claude's and Codex's groups: a duplicate is a conflict too, whichever   *)
(* of the two is ours.                                                     *)
MergeOwnedGroups(there, recorded, new) ==
  IF Len(there) > 1 THEN Outcome(there, recorded, TRUE)
  ELSE InstallTracked(there, recorded, new)

WireAgyHook(there, recorded, new)    == InstallTracked(there, recorded, new)
WireHermesHook(there, recorded, new) == InstallTracked(there, recorded, new)

WireHook(there, recorded, new) ==
  CASE harness \in {"claude", "codex"} -> MergeOwnedGroups(there, recorded, new)
    [] harness = "agy"                 -> WireAgyHook(there, recorded, new)
    [] harness = "hermes"              -> WireHermesHook(there, recorded, new)

(* The one group, and no other, that is as recorded. *)
OnlyMatch(there, recorded, n) ==
  n \in DOMAIN there /\ {m \in DOMAIN there : there[m] = recorded} = {n}

RemoveOwnedGroups(there, recorded) ==
  IF \E n \in DOMAIN there : OnlyMatch(there, recorded, n)
  THEN LET n == CHOOSE n \in DOMAIN there : OnlyMatch(there, recorded, n)
       IN Outcome(SubSeq(there, 1, n - 1) \o SubSeq(there, n + 1, Len(there)), None, FALSE)
  ELSE IF there = <<>> THEN Outcome(there, None, FALSE) ELSE Outcome(there, recorded, TRUE)

UnwireAgyHook(there, recorded)    == RemoveOwnedGroups(there, recorded)
UnwireHermesHook(there, recorded) == RemoveOwnedGroups(there, recorded)

UnwireHook(there, recorded) ==
  CASE harness \in {"claude", "codex"} -> RemoveOwnedGroups(there, recorded)
    [] harness = "agy"                 -> UnwireAgyHook(there, recorded)
    [] harness = "hermes"              -> UnwireHermesHook(there, recorded)

Touched(i, was, o) ==
  IF o.there = was THEN ours ELSE IF o.there = <<>> THEN ours \ {i} ELSE ours \cup {i}
-----------------------------------------------------------------------------
(* INSTALL: files, hermes' block, settings, plugin, manifest, in order.    *)

Go(here, there) == step = here /\ step' = there

InstallStart ==
  /\ Go("idle", "files")
  /\ prev' = manifest
  /\ next' = [Blank EXCEPT !.written = TRUE]
  /\ todo' = {f \in OurFiles : ShippedText(f) # None \/ manifest.text[f] # None}
  /\ env' \in Envs
  /\ conflict' = FALSE /\ quiet' = TRUE
  /\ UNCHANGED <<harness, edition, places, manifest, copy, ours, theirs, crashed, raced, edits>>

(* Skills go before agents, on the way in; after them, on the way out. *)
Turn(f, first) == f \in todo /\ (f \in first \/ todo \cap first = {}) /\ todo' = todo \ {f}

Place(f) ==
  /\ step = "files" /\ Turn(f, Skill) /\ ShippedText(f) # None
  /\ LET o == InstallTracked(disk[f], prev.text[f], ShippedText(f)) IN
       /\ disk' = [disk EXCEPT ![f] = o.there]
       /\ next' = [next EXCEPT !.text[f] = o.said]
       /\ conflict' = (conflict \/ o.clash)
       /\ ours' = Touched(f, disk[f], o)
  /\ UNCHANGED <<harness, edition, groups, keys, block, plugin, manifest, step, prev, copy,
                 env, theirs, quiet, crashed, raced, edits>>

InstallSkill(f) == f \in Skill /\ Place(f)
InstallAgent(f) == f \in Agent /\ Place(f)

(* Mutant: what the release no longer ships is forgotten. *)
ForgetOrphan(f) ==
  /\ step = "files" /\ Turn(f, Skill) /\ ShippedText(f) = None
  /\ UNCHANGED <<harness, edition, places, manifest, step, prev, next, copy, env, conflict, past>>

(* A file the release no longer ships stays on record while it is there. *)
KeepOrphan(f) ==
  /\ step = "files" /\ Turn(f, Skill) /\ ShippedText(f) = None
  /\ next' = IF disk[f] = <<>> THEN next ELSE [next EXCEPT !.text[f] = prev.text[f]]
  /\ UNCHANGED <<harness, edition, places, manifest, step, prev, copy, env, conflict, past>>

RetiredKeys == Ships[edition].retired
Wanted      == Present(env) \ RetiredKeys

RetireEnvHermes == [k \in Key |-> IF k \in RetiredKeys THEN None ELSE block[k]]

(* hermes: the block's keys are ours by where they are.  A rewrite keeps   *)
(* an outside line only when the block did not have its key.  .env is read *)
(* and rewritten twice, to retire and to wire; here both are one step, so  *)
(* that neither a death nor a user's edit comes between.                   *)
WireBlock ==
  /\ harness = "hermes" /\ todo = {} /\ Go("files", "block")
  /\ LET kept    == RetireEnvHermes
         outside == [k \in Key |-> IF kept[k] # None THEN None ELSE keys[k]]
         new     == {k \in Wanted : outside[k] = None /\ kept[k] # env[k]}
         match   == {k \in Wanted \ new : outside[k] \in {None, env[k]}}
     IN /\ block' = [k \in Key |-> IF k \in new THEN env[k] ELSE kept[k]]
        /\ keys' = IF new = {} THEN keys ELSE outside
        /\ next' = [next EXCEPT !.keys = (new \cup (match \cap prev.keys) \cup Present(block'))
                                            \ RetiredKeys]
        /\ ours' = (ours \cup new) \ (Key \ Present(block'))
  /\ UNCHANGED <<harness, edition, disk, groups, plugin, manifest, prev, copy, todo, env,
                 conflict, theirs, quiet, crashed, raced, edits>>

LoadSettings ==
  /\ todo = {}
  /\ IF harness = "hermes" THEN Go("block", "save") ELSE Go("files", "save")
  /\ copy' = [groups |-> groups, keys |-> keys]
  /\ UNCHANGED <<harness, edition, places, manifest, prev, next, todo, env, conflict, past>>

RetireEnvClaude(loaded) ==
  [k \in Key |-> IF k \in prev.keys \cap RetiredKeys THEN None ELSE loaded[k]]
RetireConfigOpencode(loaded) == RetireEnvClaude(loaded)

(* A variable that is set is left alone, whatever its value. *)
WireEnvClaude(loaded) ==
  [k \in Key |-> IF k \in Wanted /\ loaded[k] = None THEN env[k] ELSE loaded[k]]
WireEnvOpencode(loaded) == WireEnvClaude(loaded)

(* Mutant: a key that has our value is managed, whoever set it. *)
ManagedMatching(loaded) ==
  {k \in Key \ RetiredKeys :
     \/ k \in Wanted /\ loaded[k] \in {None, env[k]}
     \/ k \in prev.keys /\ loaded[k] # None}

(* The keys that go on record: those now written, and those on record that *)
(* are still set.                                                          *)
Managed(loaded) ==
  {k \in Key \ RetiredKeys :
     \/ k \in Wanted /\ loaded[k] = None
     \/ k \in prev.keys /\ loaded[k] # None}

(* The loaded settings go back with the hooks wired and these keys; a file *)
(* that holds hooks alone is saved only when one changed.                  *)
Save(newKeys, managed, keysOurs, always) ==
  LET hook    == [e \in Event |-> WireHook(copy.groups[e], prev.text[e], ShippedText(e))]
      changed == {e \in Event : Hooked /\ hook[e].there # copy.groups[e]}
  IN /\ keys' = newKeys
     /\ groups' = IF Hooked /\ (always \/ changed # {})
                  THEN [e \in Event |-> hook[e].there] ELSE groups
     /\ next' = [next EXCEPT
          !.keys = managed,
          !.text = [i \in Tracked |-> IF i \in Event /\ Hooked THEN hook[i].said ELSE @[i]]]
     /\ conflict' = (conflict \/ (Hooked /\ \E e \in Event : hook[e].clash))
     /\ ours' = (ours \ Key) \cup keysOurs \cup changed
     /\ UNCHANGED <<harness, edition, disk, block, plugin, manifest, prev, copy, todo, env,
                    theirs, quiet, crashed, raced, edits>>

Owned(loaded, newKeys) ==
  {k \in Key : newKeys[k] # None /\ (k \in ours \/ newKeys[k] # loaded[k])}

SaveClaude ==
  /\ harness = "claude" /\ Go("save", "manifest")
  /\ LET loaded == RetireEnvClaude(copy.keys)
         new    == WireEnvClaude(loaded)
     IN Save(new, Managed(loaded), Owned(loaded, new), TRUE)

SaveOpencode ==
  /\ harness = "opencode" /\ Go("save", "plugin")
  /\ LET loaded == RetireConfigOpencode(copy.keys)
         new    == WireEnvOpencode(loaded)
     IN Save(new, Managed(loaded), Owned(loaded, new), TRUE)

SaveHooks ==
  /\ harness \in {"codex", "agy", "hermes"} /\ Go("save", "manifest")
  /\ Save(keys, next.keys, ours \cap Key, FALSE)

(* opencode: the package, then its entry in the config. *)
InstallPlugin ==
  /\ Go("plugin", "register")
  /\ plugin' = [plugin EXCEPT !.files = edition]
  /\ next' = [next EXCEPT !.plugin = plugin.files # edition]
  /\ UNCHANGED <<harness, edition, disk, groups, keys, block, manifest, prev, copy, todo,
                 env, conflict, past>>

WirePlugin ==
  /\ Go("register", "manifest")
  /\ plugin' = [plugin EXCEPT !.entry = TRUE]
  /\ next' = [next EXCEPT !.plugin = @ \/ ~plugin.entry \/ prev.plugin]
  /\ UNCHANGED <<harness, edition, disk, groups, keys, block, manifest, prev, copy, todo,
                 env, conflict, past>>

WriteManifest ==
  /\ Go("manifest", "idle")
  /\ manifest' = next
  /\ Fresh /\ UNCHANGED <<harness, edition, places, past>>
-----------------------------------------------------------------------------
(* UNINSTALL: settings, hermes' block, plugin, agents, skills, manifest.   *)

UninstallStart ==
  /\ manifest.written
  /\ Go("idle", "u_load")
  /\ prev' = [manifest EXCEPT !.plugin = @ \/ plugin.entry]
  /\ next' = Blank
  /\ todo' = {f \in OurFiles : manifest.text[f] # None}
  /\ conflict' = FALSE /\ quiet' = TRUE
  /\ UNCHANGED <<harness, edition, places, manifest, copy, env, ours, theirs, crashed, raced, edits>>

UninstallLoad ==
  /\ Go("u_load", "u_save")
  /\ copy' = [groups |-> groups, keys |-> keys]
  /\ UNCHANGED <<harness, edition, places, manifest, prev, next, todo, env, conflict, past>>

(* The loaded settings go back without these keys and the hooks that are   *)
(* as recorded, if anything is to go.                                      *)
SaveWithout(gone) ==
  LET recorded == {e \in Event : prev.text[e] # None}
      hook     == [e \in Event |-> UnwireHook(copy.groups[e], prev.text[e])]
      changed  == {e \in recorded : hook[e].there # copy.groups[e]}
      saved    == changed # {} \/ gone \cap Present(copy.keys) # {}
  IN /\ groups' = [e \in Event |-> IF ~saved THEN groups[e]
                                    ELSE IF e \in changed THEN hook[e].there ELSE copy.groups[e]]
     /\ keys' = [k \in Key |-> IF ~saved \/ harness = "hermes" THEN keys[k]
                                ELSE IF k \in gone THEN None ELSE copy.keys[k]]
     /\ next' = [next EXCEPT !.text =
          [i \in Tracked |-> IF i \in recorded THEN hook[i].said ELSE @[i]]]
     /\ conflict' = (\E e \in recorded : hook[e].clash)
     /\ ours' = ours \ (gone \cup changed)
     /\ UNCHANGED <<harness, edition, disk, block, plugin, manifest, prev, copy, todo, env,
                    theirs, quiet, crashed, raced, edits>>

(* Every recorded key goes, whatever its value. *)
UnwireClaude ==
  harness = "claude" /\ Go("u_save", "u_files") /\ SaveWithout(prev.keys)

UnwireOpencode ==
  harness = "opencode" /\ Go("u_save", "u_plugin") /\ SaveWithout(prev.keys)

UnwireHooks ==
  /\ IF harness = "hermes" THEN Go("u_save", "u_block") ELSE Go("u_save", "u_files")
  /\ harness \in {"codex", "agy", "hermes"}
  /\ SaveWithout({})

RemoveBlock ==
  /\ Go("u_block", "u_files")
  /\ block' = Unset
  /\ ours' = ours \ Present(block)
  /\ UNCHANGED <<harness, edition, disk, groups, keys, plugin, manifest, held, theirs, quiet,
                 crashed, raced, edits>>

UnregisterPlugin ==
  /\ IF prev.plugin THEN Go("u_plugin", "u_package") ELSE Go("u_plugin", "u_files")
  /\ plugin' = [plugin EXCEPT !.entry = @ /\ ~prev.plugin]
  /\ UNCHANGED <<harness, edition, disk, groups, keys, block, manifest, held, past>>

RemovePlugin ==
  /\ Go("u_package", "u_files")
  /\ plugin' = [plugin EXCEPT !.files = 0]
  /\ UNCHANGED <<harness, edition, disk, groups, keys, block, manifest, held, past>>

RemoveFile(f) ==
  /\ step = "u_files" /\ Turn(f, Agent)
  /\ LET edited == disk[f] \notin {<<>>, <<prev.text[f]>>} IN
       /\ disk' = IF edited THEN disk ELSE [disk EXCEPT ![f] = <<>>]
       /\ next' = IF edited THEN [next EXCEPT !.text[f] = prev.text[f]] ELSE next
       /\ conflict' = (conflict \/ edited)
       /\ ours' = IF edited THEN ours ELSE ours \ {f}
  /\ UNCHANGED <<harness, edition, groups, keys, block, plugin, manifest, step, prev, copy, env,
                 theirs, quiet, crashed, raced, edits>>

(* What was preserved stays on record, without keys or plugin. *)
UninstallManifest ==
  /\ todo = {} /\ Go("u_files", "idle")
  /\ manifest' = [next EXCEPT !.written = \E i \in Tracked : next.text[i] # None]
  /\ Fresh /\ UNCHANGED <<harness, edition, places, past>>
-----------------------------------------------------------------------------
(* THE USER, THE NETWORK OF TOOLS AND FAILURE *)

Running  == step # "idle"
Unlisted(i) ==
  IF i \in Key THEN i \notin manifest.keys \cup next.keys \cup prev.keys
  ELSE manifest.text[i] = None /\ (Running => next.text[i] = None)

(* Under a name the tool has not recorded everything is the user's; under  *)
(* one it has, what differs from anything shipped.                         *)
Left(i, x) == [theirs EXCEPT ![i] = IF x \in UserText \/ Unlisted(i) THEN x ELSE None]

UserEdits(i) == /\ edits < MaxEdits /\ edits' = edits + 1
                /\ quiet' = (quiet /\ ~Running) /\ ours' = ours \ {i}
                /\ UNCHANGED <<harness, edition, block, manifest, step, held, crashed>>

UserFile(f) ==
  /\ UserEdits(f)
  /\ \/ \E t \in Texts : disk' = [disk EXCEPT ![f] = <<t>>] /\ theirs' = Left(f, t)
     \/ /\ disk' = [disk EXCEPT ![f] = <<>>]
        /\ theirs' = [theirs EXCEPT ![f] = None]
  /\ UNCHANGED <<groups, keys, plugin, raced>>

HoldsSettings == step \in {"save", "u_save"}

(* Another group beside ours, an edit of the one there, or all removed. *)
UserGroup(e) ==
  /\ Hooked /\ UserEdits(e)
  /\ \/ \E t \in Texts :
          /\ \/ groups' = [groups EXCEPT ![e] = <<t>>]
             \/ /\ Len(groups[e]) = 1 /\ harness \in {"claude", "codex"}
                /\ groups' = [groups EXCEPT ![e] = Append(@, t)]
          /\ theirs' = Left(e, t)
     \/ /\ groups' = [groups EXCEPT ![e] = <<>>]
        /\ theirs' = [theirs EXCEPT ![e] = None]
  /\ raced' = (raced \/ HoldsSettings)
  /\ UNCHANGED <<disk, keys, plugin>>

UserKey(k) ==
  /\ harness \in {"claude", "opencode", "hermes"} /\ UserEdits(k)
  /\ \E v \in Value \cup {None} :
       /\ keys' = [keys EXCEPT ![k] = v]
       /\ theirs' = [theirs EXCEPT ![k] = IF Unlisted(k) /\ block[k] = None THEN v ELSE None]
  /\ raced' = (raced \/ (HoldsSettings /\ harness # "hermes"))
  /\ UNCHANGED <<disk, groups, plugin>>

UserPlugin ==
  /\ harness = "opencode" /\ UserEdits("plugin")
  /\ plugin' = [plugin EXCEPT !.entry = ~@]
  /\ UNCHANGED <<disk, groups, keys, theirs, raced>>

Upgrade ==
  /\ ~Running /\ edition < Len(Ships)
  /\ edition' = edition + 1
  /\ UNCHANGED <<harness, places, manifest, step, held, past>>

(* The process dies, or a later step raises: a settings file that is not   *)
(* an object, a plugin package that is missing.                            *)
BreaksOff ==
  /\ Running /\ step' = "idle" /\ crashed' = TRUE
  /\ Fresh /\ UNCHANGED <<harness, edition, places, manifest, ours, theirs, quiet, raced, edits>>

Install ==
  \/ InstallStart \/ WireBlock \/ LoadSettings
  \/ SaveClaude \/ SaveOpencode \/ SaveHooks
  \/ InstallPlugin \/ WirePlugin \/ WriteManifest
  \/ \E f \in OurFiles : InstallSkill(f) \/ InstallAgent(f) \/ KeepOrphan(f)

Uninstall ==
  \/ UninstallStart \/ UninstallLoad
  \/ UnwireClaude \/ UnwireOpencode \/ UnwireHooks \/ RemoveBlock
  \/ UnregisterPlugin \/ RemovePlugin \/ UninstallManifest
  \/ \E f \in OurFiles : RemoveFile(f)

User ==
  \/ \E f \in OurFiles : UserFile(f)
  \/ \E e \in Event : UserGroup(e)
  \/ \E k \in Key : UserKey(k)
  \/ UserPlugin

HarnessNext == Install \/ Uninstall \/ User \/ Upgrade \/ BreaksOff

HarnessSpec == HarnessInit /\ [][HarnessNext]_harnessVars
-----------------------------------------------------------------------------
(* What the user keeps - a file, a hook group or a variable under a name   *)
(* that is not the tool's, or an edit of one of the tool's files or hook   *)
(* groups - stands through every install, upgrade, uninstall and death of a *)
(* run, whatever it holds.  Excepted are a settings file that was saved    *)
(* while a run held its own copy, and a value given to a variable that is  *)
(* on record as the tool's or in its block: the tool takes that for its    *)
(* own.                                                                    *)
Stands(i) ==
  CASE i \in OurFiles -> disk[i] = <<theirs[i]>>
    [] i \in Event -> \E n \in DOMAIN groups[i] : groups[i][n] = theirs[i]
    [] i \in Key   -> keys[i] = theirs[i] /\ i \notin manifest.keys

TheirsStand == raced \/ \A i \in Items : theirs[i] # None => Stands(i)

(* Between runs that completed, everything the tool put on disk is on      *)
(* record, so an uninstall finds it; after an uninstall nothing is left.   *)
OnRecord(i) == IF i \in Key THEN i \in manifest.keys ELSE manifest.text[i] # None

NothingLeaks ==
  ~Running /\ ~crashed /\ ~raced =>
    /\ \A i \in ours : OnRecord(i)
    /\ ~manifest.written => plugin.files = 0

(* A run that reports no conflict, undisturbed, has everything its release *)
(* ships in place and on record.                                           *)
InstalledMeansInstalled ==
  step = "manifest" /\ quiet /\ ~conflict =>
    /\ \A f \in OurFiles : ShippedText(f) # None =>
         disk[f] = <<ShippedText(f)>> /\ next.text[f] = ShippedText(f)
    /\ Hooked => \A e \in Event :
         groups[e] = <<ShippedText(e)>> /\ next.text[e] = ShippedText(e)
    /\ harness \in {"claude", "opencode", "hermes"} =>
         \A k \in Wanted : keys[k] # None \/ block[k] # None
    /\ harness = "opencode" => plugin = [files |-> edition, entry |-> TRUE]
=============================================================================
