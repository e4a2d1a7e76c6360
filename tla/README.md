# A TLA+ model of cg-rs

cg-rs reimplements the useful parts of libcgroup for cgroup v2. This directory
holds TLA+ modules for its core, the TLC configurations that check them on small
instances, and TLAPS proofs of the properties that matter most. Source paths are
relative to the repository's root.

## 1. The system

### Components, their state and their operations

| component | state | operations |
|---|---|---|
| `cgconfig` parsers (`cgconfig.rs`, `cgrules.rs`, `load.rs`) | none; return a `ConfigFile` and `Rules` | parse `cgconfig.conf`; parse `cgrules.conf` (ditto `%`, escapes, options); read a drop-in directory in file-name order |
| `cgconfig::model`, `cgconfig::v2` | none | `first_rule_names`, `Template::expand`, `is_safe_relative_path`, `plan_destination` |
| `cgconfig` Display (`display.rs`) | none | write a `ConfigFile` back |
| `cgcore` | none | NSS lookups, `resolve_plan`, `apply_plan` |
| `cgfs` (`hierarchy.rs`, `mount.rs`) | a directory descriptor of the mount; all other state is the kernel's tree | `discover`, `apply`, `attach`, `enable_subtree_control`, `delete_leaf`, `delete_tree`, `list_groups`, control-file reads and writes |
| `cgrulesd` (`main.rs`, `enforce.rs`) | `last_loaded`, `tracked_templates`; within a pass the scanned rows | `load`, `gather`, `enforce_once`, `still_same_process`, `reap_idle_templates`, sleep; `--once` |
| `pam_cgroup` | none | at login: place the session process along the configured steps, then classify it by the rules; `fail_closed` |
| `cgctl` | none | `config`, `ls`, `get`, `set`, `classify`, `exec`, `delete [-r]`, `snapshot` |

### How they interact

All of them act on one shared, unlocked state: the cgroup v2 tree and the
process table. `cgrulesd`, any number of PAM sessions and `cgctl` commands run
at the same time, and processes fork, exec, change user and exit at any moment.
There is no lock and no message between them; what one read may be false when it
acts. Inside `cgrulesd` the order is fixed: load both files, compare with the
last pair, discover the mount, scan `/proc` once, handle the rows one after the
other, then reap.

### What is hard here

* **Stale rows.** The pass works from one scan. A pid can be recycled, a process
  can fork, exec, change user, turn real-time or be moved before its turn comes.
* **Check, then act by path.** The fallback checks the owner of a directory and
  then walks the path again; the reaper reads `cgroup.procs` and then calls
  `rmdir`; `apply` opens each control file by path after the walk.
* **Half-done work.** `apply` makes directories before it can fail, and the
  daemon's record of them is only in memory: reloads and crashes lose it.
* **Failures that must not end the daemon**: an invalid file, a lost mount.
* **The kernel's rules**: `rmdir` of a populated cgroup is refused, and a cgroup
  that distributes domain controllers takes no members.

### What makes each component correct

* Rule matching: the rule used matches, is first in its class, and a
  process-specific rule beats every other.
* Pass: moves the process it scanned, into a directory it may use; leaves
  ignored and real-time processes alone; eventually places everybody.
* Reaper: removes template destinations only, and loses none.
* Loop: survives failures; `--once` ends and reaps nothing.
* `cgfs`: a failed call leaves a tree that the next call repairs; `delete_tree`
  removes a tree nobody else uses.
* PAM: `fail_closed` admits no login that was not placed; without it nobody is
  refused.
* Loader: the rules are those of whole files, in the order promised, whatever
  `readdir` returns and whoever edits meanwhile.
* Parsers and Display: parsing what Display wrote gives the same value.
* Snapshot: describes what was there, misses nothing that stayed, and brings back
  the tree it was taken of.

The hazards of `PROJECT.json` list these at their lines.

## 2. Modules

| module | models |
|---|---|
| `Policy` | what the configuration says about one process: `first_rule_names`, `plan_destination`. Pure |
| `CgroupKernel` | the process table and the cgroup tree, external: what system calls do and answer, and what others do to both |
| `Cgrulesd` | the daemon, composed with `CgroupKernel` and `Policy` |
| `CgrulesdProperties` | its properties and the invariants of the proofs |
| `CgroupTree` | the cgroup tree as file system calls see it, external: incarnations of directories, owners, modes, control files, controllers, members |
| `Cgfs` | the library at work for several callers at once, composed with `CgroupTree`: PAM place steps, `cgctl config`, `classify`, `exec` and `delete` as sequences of `cgfs` calls |
| `CgfsProperties` | its properties and the invariant of the type proof |
| `PamSession` | `pam_cgroup`: several logins opening their session, composed with `CgroupKernel` and `Policy` |
| `PamSessionProperties` | its properties and the invariant of the proofs |
| `Placement` | what the daemon promises, as an authority that makes, delegates, places and reaps one directory at a time. Abstract; `Cgrulesd` implements it |
| `Templates` | destinations as text: escapes, expansion, the safety checks. Pure |
| `RuleFiles` | `load_cgrules`: the main file and the drop-ins, read one by one while they are edited, composed with `Policy` and `Templates` |
| `RuleFilesProperties` | its properties |
| `ConfigText` | `cgconfig.conf`: the parser and Display. Pure |
| `Snapshot` | `cgctl snapshot`, `ls` and `config` on a tree that others change, composed with `ConfigText` |
| `ConfigTextProperties` | what a file written and read again ought to be. Pure |
| `SnapshotProperties` | the properties of `Snapshot` and of the round trip |
| `ConfigTools` | `RuleFiles` or `Snapshot`, whichever tool runs; they share no state |
| `SequenceLemmas`, `KernelProofs`, `CgrulesdProofs`, `CgfsProofs`, `PamSessionProofs`, `RuleFilesProofs`, `TextProofs`, `SnapshotProofs` | theorems and proofs: of sequences, of `Policy` and `CgroupKernel`, of each component, and of `ConfigText` |
| `MCCgrulesd`, `MCCgfs`, `MCPamSession`, `MCConfigTools` | the instances the configurations check |

`Cgrulesd` and `Cgfs` model the same library at two grains. The daemon's model
takes the walk of `apply` as one step and looks at what changes around the calls
of a pass; `Cgfs` leaves the daemon out and interleaves callers at every system
call. `PamSession` uses the daemon's grain for the cgfs calls of a login.

### How `Cgrulesd` corresponds to the code

`pc` is the position in `run`. One action stands for one system call, or for a
group of calls between which the environment can change nothing that the group
looks at twice; between two actions any environment event may happen.

| action | code |
|---|---|
| `LoadOk`, `LoadFail` | `load`, the `changed` test and the clearing of `tracked_templates` |
| `DiscoverOk`, `DiscoverFail` | `Hierarchy::discover` |
| `Gather(p)` | one `/proc` entry of `gather`; the order of `readdir` is free |
| `SkipRow`, `MatchRow` | `enforce_once` up to the already-placed test, with `leaf_spec` and `is_rt_task` looking at the world as it is now; the destination is tracked before that test |
| `Revalidate` | `still_same_process` |
| `Open` | `open_dir_for_apply`: the leaf and its missing ancestors, owned by root |
| `SetOwner` | the chown loop over the control files; the files are opened by path and may be gone |
| `Enable` | `enable_subtree_control` |
| `Attach` | the write to `cgroup.procs`: it moves whichever process has the pid now |
| `EndPass` | the end of `enforce_once` and the `--once` test |
| `ReapRead`, `ReapRmdir`, `EndReap` | `reap_idle_templates`, one tracked path at a time |
| `Wake` | the end of the sleep |

State: `loaded` is `last_loaded`, `tracked` is `tracked_templates`, `rows` the
scanned rows not handled yet, `cur` the row in hand with what `leaf_spec`
returned for it, `reapq` and `victim` the `retain` loop of the reaper. `made`
(directories made for a template match) and `drift` (what changed about the row
in hand since it was checked: the process's identity, its scheduling, or the
destination, removed or given to another account) are history variables: no guard
reads them.

Environment events: spawn, fork, exit, execve, prctl, setuid (`process`),
`sched_setscheduler` (`sched`), somebody else's `mkdir`, `rmdir` and move
(a PAM session, `cgctl`, a user in a delegated subtree), a `cgroup.procs` given to
another account (`chown`) and controllers enabled (`enable`), both of which
`Cgroup::apply` called by others does to a leaf that exists, an edit of the
configuration or a broken file (`config`), a lost mount (`mount`), and the death
of the daemon (`crash`, after which all it knew is gone).

`Placement` has no passes, scans, rows or loop. Its state is the tree, the
processes, the configuration on disk, the one adopted and the set of template
directories answered for; the refinement maps `loaded` to the adopted
configuration and `tracked` to that set (`Placing` in `CgrulesdProperties`). A step of
the daemon is one step of the authority or none: each makes, delegates,
distributes, places or reaps only where the adopted configuration sends somebody,
or drops a record of a directory that is gone. What the daemon decides from a
stale row is therefore always something the configuration in force allows. The
authority's `Place` asks that the configuration sends somebody to the directory; that
the process moved is the one meant is `MovesVerified`.

### Abstractions

* A user is the (uid, gid) pair and its name; `getgrouplist` is the constant
  function `MemberOf`.
* A name stands for a `comm`, and for an executable by its base name. A process
  pattern is the set of names it accepts.
* A destination is a raw value; `Expand` gives the expanded, trimmed path, or
  `Unsafe` when `is_safe_relative_path` refuses it. Expansions that depend on
  `%g` or `%P` are not distinguished.
* A node keeps what the daemon's behaviour depends on: whose `cgroup.procs` it
  asks for (the effective `task_uid`, which falls back on the admin uid) and
  whether it lists controllers. Modes and parameters are left out. All controllers
  are one, a domain controller (the threaded ones, such as `cpu`, are exempt from the
  no-internal-process rule): a directory can enable it where every directory above
  offers it and no member is in the way. The root offers it; `Delegating` are the
  directories that offer it beforehand.
* The daemon is root and its `fchown` succeeds.
* The fields of one `/proc` entry are read in one step. A row mixing two
  incarnations of a pid is refused or accepted by `still_same_process` like any
  other stale row.
* The walk of `open_dir_for_apply` is one step; two walkers meeting on the same
  path are in `Cgfs`.

### How `Cgfs` corresponds to the code

`pc[c]` is where caller `c` is within a call, `ip[c]` which call of its script
it is in. Every action is one system call (with the code up to the next one),
so others act between any two. An error ends the script, as the loops of
`place.rs` and of `cgctl config` do with `?`.

| action | code (`cgfs/src/hierarchy.rs`) |
|---|---|
| `Begin` | the caller's next `apply`, `attach`, `exec`, `delete_leaf` or `delete_tree` |
| `OpenChild` | the first `openat2` of a component in `open_dir_for_apply` |
| `MakeChild` | `mkdirat`; `EEXIST` counts as success, and only a directory really made is `fresh` |
| `ReopenChild` | the second `openat2`, by name again |
| `ChmodChild` | `fchmod` of an ancestor the walk made, with `ancestor_dperm` |
| `ChownLeaf`, `ChmodLeaf` | `fchown` and `fchmod` of the leaf, made or found |
| `HandOver` | one control file of the chown loop, opened by path from the root |
| `EnableControllers` | `enable_subtree_control` |
| `AttachPid` | `attach`, alone or as the end of `apply` |
| `OpenProcs`, `Enter` | `cgctl exec` (`cgctl/src/main.rs`): `cgroup.procs` is opened by path, and written through that descriptor by the hook before `execve` |
| `ListDir` | one turn of the listing loop of `delete_tree` |
| `Unlink` | one turn of its removal loop, and `delete_leaf` |
| `Kill` | a caller dies between two system calls |
| `ProcessExits` | a placed process exits |

`fd[c]` is the descriptor the walk has reached: a path and an incarnation. A
directory removed and made again is another incarnation, on which an old
descriptor has no effect. `hit` is a history variable: what others made, changed
or removed on the path of the call a caller is in.

Abstractions of `Cgfs`:

* An owner is an account, uid and gid together. A mode is the permissions of
  group and others, `write` and `search`; `ancestor_dperm` takes the first away
  and adds the second. `NoMode` and `Keep` are fields a `LeafSpec` leaves out.
* File modes (`fperm`, `task_fperm`) are left out: they go with the owners of
  the same three files. Missing optional control files are left out.
* All controllers are one: a directory lists them in `cgroup.subtree_control` or
  does not.
* The callers are root, so nothing is refused for lack of permission. Symbolic
  links and mount points inside the tree, which `openat2` refuses, do not occur.
* The umask is the same for all callers.
* A caller of `exec` writes its own pid; a refused write is its failure, whether
  the process had exited or the directory is no longer the one opened.

### How `PamSession` corresponds to the code

`pc[s]` is where login `s` is in `open_session`, `layout[s]` the `Config` it
loaded, `target[s]` the cgfs call it is in: the place it is for, 0 for the one of
`classify`, and the fields of its `LeafSpec`. `Verdict` is what an error makes of
the session.

| action | code |
|---|---|
| `LoadLayout` | `Config::load`; a file that is not there is no error with `cgrules=` |
| `RereadLayout` | `cfg_fail_closed`, the second read and parse, with what the file holds by then |
| `OpenHierarchy` | `Hierarchy::open` or `discover` |
| `Lookup` | `pam_user`, `User::from_name` and `Config::plan`: nothing is touched before every place resolves |
| `Walk`, `Own`, `Enable`, `AttachSelf` | `Cgroup::apply`, of a place or of a rule's destination; `StepDone` is the loop of `place::apply`, `StepFails` its `?` and what `open_session` does with the error |
| `Classify` | `classify` up to `target.apply`: the rules are loaded, the first is chosen, `leaf_spec` finds its plan or the user's own directory |

`moved` and `touched` are history variables: the logins somebody else moved, and
the paths somebody else removed or gave to another owner since a login has its
plan.

Abstractions of `PamSession`:

* A layout's mount is the only one. Of a place the path, whether its uid and gid
  are root's, the user's or unknown, whether it lists controllers and `attach`
  are kept; modes are in `Cgfs`.
* `ExpandPlace` is `expand` followed by `CgroupPath::parse`; `Unsafe` is a path
  that is refused, the hierarchy root included.
* `cgrules.conf`, its drop-ins and `cgconfig.conf` are read as one file. The
  login's own `comm`, executable and scheduling do not change while it is in PAM.
* Controllers can be enabled where every directory above offers them and no
  member is in the way. `Delegating` are the directories that offer them
  beforehand; the example configuration without any is run `first_login`.
* A panic, which is a refusal whatever `fail_closed` says, does not occur.

### How `RuleFiles` corresponds to the code

`load` is where `load_cgrules` is, `etc` what every name holds now, `rules` what
has been read. `held`, a history variable, collects what each name has held since
the load began.

| action | code (`cgconfig/src/load.rs`) |
|---|---|
| `ReadMain` | reading and parsing `cgrules.conf` |
| `OpenDir` | `read_dir` of `cgrules.d`; one that is not there is empty |
| `ListEntry`, `EndOfDir` | one entry, in any order, with the tests for a regular file and a leading dot; the sort at the end |
| `ReadDropIn`, `EndLoad` | reading, parsing and appending the next file |
| `Edit` | an administrator or a package manager replaces, adds or removes a file |

`RulesOf` is `Rules::from_source` by lines: comments, lines that do not parse,
`%` for the subject of the line before. `Templates` works on characters:
`DestToken` is the reading of a destination, with `\%` the only escape; `Expand`
is `Template::expand`; `SafePath` and `ParsesAsPath` are the two checks,
`is_safe_relative_path` and `CgroupPath::parse`; `PlanPath` is the path
`plan_destination` and `apply_plan` arrive at. An assumption of `RuleFiles`,
evaluated by TLC, says that what `Policy` takes as the constant `Expand` is what
`Templates` computes.

Abstractions: a file is replaced whole. A line is a comment, a bad line or a rule
whose fields are read; the texts of user names and pids are given.

### How `Snapshot` corresponds to the code

`tool` is the command, `step` where it is. `todo`, `here`, `part`, `unread` and
`groups` are the walk, the directory in hand, what has been read of it, the control
files listed and not yet read, and what has been described; `text`, `conf` and
`queue` the configuration text, what the parser made of it and what is left to apply.
`seen` and `lost` are history variables: what every path has been since the tool
started, and the paths that were removed while the walk had them in `todo` or in
hand.

A cgroup has an owner, the owner of its `cgroup.procs`, the modes of both, its
`cgroup.subtree_control`, the contents of its other control files (`knobs`, for the
files `ControlFiles`; `CtlOf` is a file's controller, `Skipped` what `is_param`
refuses, `Tables` a content of several lines) and whether it has processes (`busy`).
`Valid` is `validate_spec`: modes of no bit above 0o7777 (`Legal`), controllers made
of lower-case letters, digits and underscores (`ControllerNames`). `Enables` is what
the kernel takes: controllers the directory above offers, and beside processes none
of `Domain`.

| action | code |
|---|---|
| `List` | `entries` of the directory in hand (`cgctl/src/snapshot.rs`, `cgfs` `entries`, `list_groups`) |
| `Visit`, `EndWalk` | the loop of `walk` |
| `Meta` | the `metadata` of the directory |
| `Procs` | the owner of `cgroup.procs` |
| `Controllers` | `cgroup.subtree_control` |
| `Params` | `collect_params` lists the control files and sorts out those `is_param` refuses |
| `ReadParam` | one of the listed files is opened and read; one that is gone, unreadable or has not a single line is left out |
| `PermStep` | the mode of the control files, and the owners' names from passwd |
| `Render` | the output; refused as a whole when a word has no representation |
| `ReadConfig` | `cgctl config` reads and parses, sorts by depth and skips `group .` |
| `ApplyNode`, `EndConfig` | one group, with `effective_perm`, the owners' lookup, `validate_spec` and `apply`; owners and modes are set by the time a controller is refused |

`OtherChange` and `OtherRmdir` are other users of the tree (a `mkdir`, a `chown` or
`chmod`, a write to a control file, processes that come and go, an `rmdir`), `Userdel`
removes an account, `Reboot` empties the tree between a snapshot and the `config` that
restores it. `ConfigText` has the parser (`Parse`), with the choice between the
two kinds of block and its backtracking, the merging of `perm` blocks and modes,
and `Display`, with the grouping of parameters and the words it quotes or
refuses.

Abstractions:

* A text is a sequence of sections, blocks and rows. What matters of a word is
  whether it needs quotes, holds a quote, or is a numeral.
* Group owners go the way of owners, and the mode of `cgroup.procs` that of its
  owner. White space, comments, and the wording and places of errors are left
  out, as are parameters of `cgctl config`, which the code does not apply.
* Names that are not UTF-8, which `to_string_lossy` would merge, do not occur, nor
  do control files without a dot in their name.
* `cgctl config` is one step for each group: nobody else changes the tree between
  the calls of one `apply` (`Cgfs` interleaves these).
* The root's controllers are restored by whoever sets up the tree after a reboot.

## 3. Properties and runs

| run | checks | result |
|---|---|---|
| `daemon_safety` | `TypeOK`, `ReapsOnlyTemplates`, `OnlyReloadForgets`, `MovesVerified`, `RealtimeLeftAlone`, `FallbackOwnUnlessChanged`, `PlacementImplemented` | holds |
| `daemon_converges` | `Placed`, `AnsweredFor`, `TrackedReaped` | holds |
| `daemon_once` | `OnceExits`, `OnceNeverReaps` | holds |
| `fallback_race` | `FallbackReachesOwn` | violated |
| `reload_orphans` | `IdleReaped` | violated |
| `controllers_refused` | `ControllersPlaced` | violated |
| `fs_callers` | `TypeOK`, `AncestorsClosed`, `Searchable`, `OwnersStand`, `ApplyDelivers`, `WalkersMeet`, `DeleteTreeCompletes` | holds |
| `modes_race` | `ModesStand` | violated |
| `first_login` | `LoginPlaced` | violated |
| `pam_sessions` | `TypeOK`, `AdmittedPlaced`, `PlacesDelivered`, `BadLayoutMovesNobody`, `NeverLockedOut` | holds |
| `config_tools` | `LoadIsOrdered`, `LoadFailsForCause`, `DropInDecides`, `AppliedWhereCompared`, `WalkFindsAll`, `DescribedAsSeen`, `SnapshotFailsForCause`, `RestoreFaithful`, `ConfigDelivers`, `RoundTrip` | holds |
| `display_unequal` | `DisplayedIsEqual` | violated |

What the passing runs show:

* The reaper removes a directory only when it is a template destination of the
  configuration the pass runs under and none of its groups, although edits turn
  templates into groups and back (`ReapsOnlyTemplates`). The clear on reload is
  what makes it true: without it TLC finds the violation.
* A directory the daemon made for a template match is never lost to the reaper
  but by a reload or the death of the daemon (`OnlyReloadForgets`, which lets a reload
  forget anything). What either forgot, the daemon answers for again as long as a
  process of the template's is there, although that process needs no move
  (`AnsweredFor`): it is tracked before the already-placed test. And what it answers
  for does not stay idle for ever, through edits, crashes, failed applies and refused
  `rmdir`s (`TrackedReaped`). Both are checked, not proved.
* The process moved is the one scanned, unless it changed inside `apply`
  itself (`MovesVerified`): starttime is what tells two processes of one user
  and one name apart. `RealtimeLeftAlone` is the same for `ignore_rt`, whose
  test is made earlier, at match time.
* The fallback attaches only to a directory that is its user's
  (`FallbackOwnUnlessChanged`), unless between its check and the attach the directory
  was removed or given to another account; a change before the check is no excuse.
* `Placed`: after the last disturbance everybody with a plan gets to its
  destination, through stale rows, failed loads, lost mounts and crashes.
* `--once` ends on every path and removes nothing.
* The daemon implements `Placement` (`PlacementImplemented`): a change of the
  files between the match of a row and its attach, a stale row or a crash never
  makes a step the adopted configuration does not allow.
* However walks meet, group and others can write only where some `LeafSpec` said
  so (`AncestorsClosed`), and a directory the umask left unsearchable has its
  `fchmod` still to come, unless its caller was killed there (`Searchable`).
* An `apply` that reports success has delivered all of its `LeafSpec`, whatever
  it found, unless somebody changed or removed the leaf meanwhile
  (`ApplyDelivers`); the owner it gave stays when others walk through
  (`OwnersStand`). A `classify` that succeeds has moved its process. A command of
  `cgctl exec` runs in the cgroup its path names or not at all, even where the
  directory is removed and made again between the open and the write.
* A walk fails only if a directory on its path was removed (`WalkersMeet`), and
  `delete_tree` only if somebody interfered, the tree is in use or it is not
  there (`DeleteTreeCompletes`).
* With `fail_closed` a login that is admitted is where its rule or its last
  attaching place puts it, whichever step failed or was skipped, unless somebody
  moved it (`AdmittedPlaced`), and finds every place made, owned and with its
  controllers as the layout says, although another login made it as another's
  (`PlacesDelivered`). A place that cannot be used, however late in the list,
  moves nobody (`BadLayoutMovesNobody`).
* While no layout on disk says `fail_closed` every login gets in, whatever fails
  (`NeverLockedOut`).
* A load that succeeds has read whole versions of the files, the main one first
  and the drop-ins by name, none twice and none missed that stood throughout
  (`LoadIsOrdered`); it fails only for a file that could not be read or parsed, or
  that was not there at some time during the load (`LoadFailsForCause`; a drop-in
  merely added meanwhile counts as one).
* A drop-in changes the rule of a process only where it names the process and no
  earlier file does, or where no earlier file matches (`DropInDecides`).
* A process is moved to the path it is then compared with, so the next pass leaves
  it alone (`AppliedWhereCompared`), unless a percent sign is left in the
  destination: an escape is undone when the rule is read, and what is left is
  expanded.
* A walk of `snapshot` or `ls` that completes has everything that stood, once,
  parents first, and nothing that never was (`WalkFindsAll`). Every value it
  prints is one the cgroup had during the walk, and the owners or the controllers are
  missing only for a cgroup that was gone for a time, although errors after the
  first call are swallowed. Parameters are read file by file and may be of different
  times, but each is one its file had, none is there twice, and none is missing
  whose file was there with a single line all along (`DescribedAsSeen`).
* `snapshot` and `ls` fail only at a base that is not there, at a directory that was
  there when they listed it and was removed before they came to it, or over a name
  the syntax cannot express (`SnapshotFailsForCause`): what is made or removed
  elsewhere meanwhile, and a control file that goes away, fails neither.
* A snapshot of the whole of a quiet tree, applied after a reboot or at once, never
  fails where Display can write it, cgroups with processes included, and restores it
  but for processes, parameters and the setuid, setgid and sticky bits
  (`RestoreFaithful`).
* `cgctl config` delivers every group of a file that can be applied in full,
  whatever the order of its groups, and no later group undoes an earlier one
  (`ConfigDelivers`). `Applicable` says which files these are: every group names a
  path, once; its owners resolve; its modes and the names of its controllers pass
  `validate_spec`; it asks only for controllers its parent lists already or is itself
  declared to list (`Offered`) and, where the cgroup has processes, for no domain
  controller it does not list yet.
* Parsing what Display writes gives back a file whose parameters stand grouped by
  controller; a snapshot is read back exactly; Display refuses, of what the parser
  accepted, only controller blocks with a hash in their name (`RoundTrip`, which
  leaves out the two cases of `display_unequal`).

What the violated runs show (the findings of `PROJECT.json`):

* `reload_orphans`: the comment at `cgrulesd/src/main.rs:169-175` says that
  clearing the tracked set costs one pass of rediscovery. Rediscovery starts
  from a live process; a directory that is idle when the file changes is never
  rediscovered and never reaped, though its template is unchanged. A crash does
  the same.
* `fallback_race`: the fallback of `leaf_spec` is meant to reach only a cgroup
  that was already its user's. A directory removed between the check and `apply`
  is made anew, as root's, and the process attached. A `chown` in between has the
  same effect; `FallbackOwnUnlessChanged` shows there is no other way.
* `controllers_refused`: below a directory that offers the controllers, `apply`
  enables them on the leaf and then attaches to the same leaf, which the kernel
  refuses. A destination with (domain) controllers never gets its process; with a
  template the daemon makes and reaps the directory again on every pass. (Where the
  directory above offers nothing, the write to `cgroup.subtree_control` fails
  already.)
* `modes_race`: between the `mkdirat` of an ancestor and its `fchmod` another
  caller can configure that directory as its leaf. The `fchmod` then overrides
  the mode that caller was told is applied, although an existing ancestor is not
  to be touched by a traversal. Owners are safe, since the walk never sets them.
* `first_login`: the example configuration of `pam_cgroup` asks for controllers
  on `users/$USER`, but nothing enables them on `users`, which the walk itself
  makes. The first step fails and the login is never placed.
* `display_unequal`: `display.rs:3` promises that parsing the output yields an equal
  file, provided every value is representable. The parameters of two controllers in
  turns are representable but come back grouped. And a controller block named `perm`
  whose first parameter is a quoted `"task"` or `"admin"` is read as a controller;
  Display writes that word without quotes, and the parser then takes the block for
  owners and refuses the file.

### Bounds

Two users (one in a group), two process names, three raw destinations, four
paths, two of them below a third. `MCConfigs` holds four configurations: a
template with a user-owned `cgroup.procs` next to a group under a
process-specific `ignore_rt` rule; the template's destination declared as a
group, leaving the other user on the fallback; unusable destinations (an unsafe
expansion, an unknown owner, an ignored process); a template with controllers.

`MaxEvents` bounds the environment events of a behaviour: two in the safety and
convergence runs, one in the `--once` run. Each hazard
listed needs at most two (a pid recycled is an exit and a spawn; a removed
directory made anew is one `rmdir`); the daemon's own steps and passes are not
bounded, and with no events left the daemon keeps running, which is what the
liveness properties are about. `Home` is the set of directories that exist
beforehand, `Delegating` those of them that offer controllers, `Events` the kinds of
events admitted. Runs that need only one
process use one pid. The clock grows with the events. The pids are symmetric in
the safety run; liveness runs use no symmetry.

`fs_callers` has three callers on a chain of three paths, none of which exists at
the start: a login by the two place steps of the example configuration or by a
single step, `cgctl config` of the topmost or of the middle directory or an
`exec`, and one of two `delete -r`, a `delete` and a `classify`. Three paths give
an ancestor that is somebody's leaf and a leaf that is somebody's ancestor; two
makers and a remover are what any of the hazards listed needs. The umask takes all
of group's and others' permissions, the strictest; the login may be killed.
Callers end, so deadlock is not checked in the `Cgfs` runs. The run has about 1.9
million states.

`pam_sessions` has two logins of one user, one with `cgrules=`, real-time or not,
below a directory that delegates controllers. The five layouts are the example's
two places closed, optional and as root's, and two with an unusable second place
(unknown owner, path outside); the three rule files have a template under
`ignore_rt`, a destination without a plan, and one that escapes. Initially each
file may be any of them or broken, the layout also missing; a passwd lookup may
fail. One environment event of any kind may happen at any point: two logins
already give the interference the places are exposed to, and an edit gives them
two layouts. With two events all properties hold as well, in 1.1 million states.
Logins end; the final states stutter (`Done`).

`config_tools` has one main file, two visible and one hidden drop-in and six
texts: rules with a group subject, a wildcard, an escape, a ditto, a ditto with
nothing before it, a bad destination and a bad line. Two edits (`MaxEdits`) may
happen at any point of a load: a file removed and made again needs two, and the
directory may also be missing or no directory. Two users and three process names,
one of them `..` and one with a percent sign in it. The tree has four cgroups, two
nested, one with a space and one with a double quote in its name; five trees to
begin with, among them an owner without an account, special bits, cgroups with
processes and a parameter that holds a double quote; four control files, two of one
controller next to each other, one a gauge and one a table. Two changes
(`MaxChanges`) by others: a directory removed and made again, or a cgroup
written to twice between two reads. Twelve files for `cgctl config`, written so that every
branch of the parser that differs from Display's output is taken, and every refusal of
`apply`: children before parents, a second `perm` block, an empty one, a controller
named `perm`, one with a quoted `task` in it, a hash, a word for a mode, a mode above
0o7777, a controller with a capital letter, a domain controller for a cgroup with
processes, an unknown owner, a trailing slash, controllers not offered. The tools end.
The run has about 460 000 states.

`display_unequal` is the same instance without changes by others.

That the mutants of `PROJECT.json` are found is the evidence that the bounds
reach the interesting cases: each property fails under a plausible change of the
code it is about.

### Fairness

`FairSpec` assumes weak fairness of the daemon's steps taken together (every
system call returns and the sleep ends; the loop has no other way to wait), of
`Restart` (a supervisor restarts a dead daemon) and of `Remount`. Nothing is
assumed of other processes, nor of the order in which rows are handled: one step
of the pass handles some row and the set shrinks. Environment events other than
`Remount` and `Restart` are finitely many, by `MaxEvents`: the liveness
properties say what happens once the world stands still. The `FairSpec` of
`PamSession` assumes weak fairness of each login's own steps: each is a call that
returns, and no login waits for another.

## 4. Proofs

TLAPS proves, for every value of the constants that satisfies the modules'
named assumptions (any number of pids, users, paths, configurations, events,
callers and scripts):

| theorem of the daemon | says |
|---|---|
| `TypeCorrect` | `Spec => []TypeOK` |
| `ReaperSpares` | `Spec => ReapsOnlyTemplates` |
| `NothingElseForgets` | `Spec => OnlyReloadForgets` |
| `AttachIsVerified` | `Spec => MovesVerified` |
| `AttachSparesRealtime` | `Spec => RealtimeLeftAlone` |
| `AttachReachesOwn` | `Spec => FallbackOwnUnlessChanged` |
| `OnceReapsNothing` | `Spec => OnceNeverReaps`, if `Once` |
| `DaemonImplementsPlacement` | `Spec => PlacementImplemented` |
| `FirstRuleIsFirst` | the rule used matches, is the first of its class, and a process-specific one wins |

| theorem of `Cgfs` | says |
|---|---|
| `TypeCorrect` | `Spec => []TypeOK`: among others, the tree is closed under parents |
| `AncestorsStayClosed` | `Spec => []AncestorsClosed`, if the umask takes write bits |
| `UmaskRepaired` | `Spec => []Searchable`, whatever the umask |
| `WalksGetThrough` | `Spec => WalkersMeet` |
| `AppliesDeliver` | `Spec => ApplyDelivers` |
| `OwnersStay` | `Spec => []OwnersStand` |
| `DeleteTreesComplete` | `Spec => DeleteTreeCompletes` |

| theorem of `PamSession` | says |
|---|---|
| `SessionsTyped` | `Spec => []TypeOK` |
| `BadLayoutHarmless` | `Spec => []BadLayoutMovesNobody` |
| `ClosedIsPlaced` | `Spec => []AdmittedPlaced` |
| `ClosedIsDelivered` | `Spec => []PlacesDelivered` |

| theorem of the configuration tools | says |
|---|---|
| `LoadStaysWhole` | `Spec => []Inv`, the inductive invariant of a load |
| `LoadIsAlwaysOrdered` | `Spec => []LoadIsOrdered` |
| `LoadAlwaysFailsForCause` | `Spec => []LoadFailsForCause` |
| `DropInsDecideRightly` | `Spec => DropInDecides` |
| `AppliedAlwaysWhereCompared` | `Spec => []AppliedWhereCompared` |
| `WalkStaysTrue` | `Spec => []WalkInv`, the inductive invariant of a walk |
| `WalkAlwaysFindsAll` | `Spec => []WalkFindsAll` |
| `AlwaysDescribedAsSeen` | `Spec => []DescribedAsSeen` |
| `SnapshotAlwaysFailsForCause` | `Spec => []SnapshotFailsForCause` |
| `ReadFileSurvives` | what the parser made of any text survives being written and read, and is then written alike |
| `TextStaysTrue` | `Spec => []TextInv`: what `cgctl config` reads is the snapshot as described, or a well-formed file |
| `RoundTripAlways` | `Spec => []RoundTrip` |
| `DeliveryStaysTrue` | `Spec => []DeliverInv`, the inductive invariant of `cgctl config` |
| `ConfigAlwaysDelivers` | `Spec => []ConfigDelivers` |
| `RestoreStaysTrue` | `Spec => []RestoreInv` |
| `RestoreAlwaysFaithful` | `Spec => []RestoreFaithful` |

Every safety property that a passing run checks is thereby also proved.

The assumptions are what the operating system and the parsers guarantee:
accounts and groups are told apart by the subject's syntax, `Above` is a
transitive ancestor relation, the configurations are well formed; in `Cgfs`,
`Walk[p]` is the path of `p` from the root, component by component, so that the
path of a directory extends its parent's. For the configuration tools: the tree
has finitely many paths, a name names one of them and no directory is called `.`;
uids have distinct numerals, accounts distinct names that are not numerals
(`uid_from_name` takes what parses for a uid); the modes the parser accepts are
those Display has numerals for, and the keywords of the syntax are plain words; a
text is made of sections, which is what the lexical part of the parser leaves; the
control files of a controller stand together, since `entries` sorts by name and
every name has a dot, and no controller is called `perm`; the kernel has finitely
many controllers, enables none in a new cgroup and no domain controller in one, other
than the root, that has processes; the ancestors' modes and the 0o777 bits of a mode
are modes of no bit above 0o7777; in a tree the tools start from a cgroup has its
ancestors, and lists only controllers its parent lists.

The argument. `TypeOK` alone is not inductive: `Attach` needs a row in hand.
`Hands` adds when `cur` and `victim` are set, and that a pass has a loaded
configuration; `TypeInv == TypeOK /\ Hands` is inductive. `Bookkeeping` says
that every tracked path is a template destination of the loaded configuration
and none of its groups, that the reaper's queue comes from the tracked set, and
that a template destination in hand is tracked; the lemma `GroupPlansAreNotTemplates`
gives the first part at a match, the clear keeps it at a reload. The attach
properties rest on three statements about the row in hand: `InHandVerified`,
`InHandRealtime` and `InHandOwned`, each "the check still holds or the change is
on record". Only `InHandRealtime` needs more: the process may be recycled
between the match and the re-validation, and is then told apart because
starttimes grow (`Clocked`).

In `Cgfs` the type invariant needs to know what a caller has at hand at each
location (`AtHand`): the descriptor of a walk is of the parent of what it opens
next, the leaf's descriptor is of the leaf, the two work lists of `delete_tree`
are not empty where the code takes their last element. `AncestorsClosed` is
inductive once said of every path, existing or not (`WritableAsked`): the only
step that gives a write bit is the leaf's `fchmod`. `Searchable` is inductive as
it stands; its proof shows that the step of another caller loses no pending
`fchmod`, because a directory that exists keeps its parent from being removed,
and so the descriptor of the walk that has just made it stays valid.
`WalkersMeet` rests on `WalkInv`: until something on its path is removed a
walk's descriptor is live, and what it has just made or found made exists.

`ApplyDelivers` rests on `LeafInv`: from the location where a call reaches its
leaf, and until somebody removed it, the leaf is there; and what the calls so
far gave it is still as given, or a change by another caller is on record.
`OwnersStand` rests on `OwnerInv`: where nobody deletes, what was made stays,
and the only step that changes the owner of an existing directory is the
`fchmod`/`fchown` of a call whose leaf it is; an ancestor's repair leaves owners
alone. `DeleteTreeCompletes` rests on `SweepInv`: what `delete_tree` has listed
and what it has still to list are together the whole tree under its path, each
directory once and after its parent. So the directory listed last has no child
when it is removed, and `rmdir` refuses only over processes or over a directory
that another caller made, which is then on record.

In `PamSession`, `PamInv` adds to the type invariant the course of a session
(`Courses`): with which layout and target in hand it may be where, that no place
is in hand before all of them resolve, and that nothing has moved the login
until one is. `BadLayoutMovesNobody` follows from it. `AdmittedPlaced` and
`PlacesDelivered` need `Turns`, which under `fail_closed` says that no place is
passed over, that the login stands at the last attaching one of the places
reached, and that each of these is made, owned and enabled as the layout says
unless another touched it; the step of another session takes nothing of this
away.

In `RuleFiles`, `LoadInv` says that the rules read so far are those of whole
versions of the main file and of some drop-ins, each read before whatever is still
to be read, and that a drop-in which stood all along is among those read or still
ahead. `DropInDecides` needs two facts about appending rules to a list, of which
`FirstRuleIsFirst` is one half. Facts about `FlattenSeq`, by which the modules
concatenate what each file, section or row yields, are in `SequenceLemmas`:
where an induction over the length is needed, it is made by taking the least
length that fails.

In `Snapshot`, `WalkInv` says of a walk under way: what is found lies below the
base, each once and after its parent (`FoundInOrder`); what is still to be visited
lies right below a directory already listed, and nothing found so far lies below
the one listed next (`TodoAhead`); whatever stood right below a listed directory is
found or to be visited (`ListedWhole`); what is listed or in hand and no longer there
is in `lost` (`LossNoted`); and what `describe` holds so far is what
the directory was at some time (`PartAsSeen`). Of parameters read halfway it says, by
`HalfRead`, that those read and the files still to read follow one another in name
order and that whatever stood all along is in one of the two; the order is what makes
the parameters of a controller stand together, and no file come twice. When nothing is left to visit,
whatever stood with its ancestors is found, by taking the shallowest path that is
not.

`ReadFileSurvives` and `RoundTrip` rest on `TextProofs`. What the parser yields has
the shape `IsFile`: no unwritable word, modes with a numeral, blocks whose heads are
bare words. Of such a file each part that Display writes is shown to be read back:
a set's rows (`SetOf` of `SetRows`), the two blocks of owners, the controllers
without parameters, the parameters under their controllers, and the sections of
each kind. Parameters of one controller that stand together are already grouped,
which is why a snapshot comes back exactly. `TextInv` carries this along: the text
of a snapshot is what Display wrote, and what `cgctl config` read of it is what the
walk described.

`DeliverInv` says that the queue of `cgctl config` is in order of depth and that
every declared group is in the queue or delivered. A group in hand finds its
controllers at its parent, because the parent's group is shallower and so already
delivered; and no later group undoes an earlier one, because a walk changes nothing
that exists and two groups have two paths. A step enables only what is declared, so
what is applicable afterwards was so before. `BusyKnown` says that a cgroup with
processes had them when the tool started, and lists at least what it listed then: so
the kernel refuses it no controller that `Applicable` allows. `RestoreInv` adds that, while nobody
else changes anything, the tree is part of the one the walk saw: then every group
says what its cgroup is, the file is applicable (`SnapshotApplies`), every step of
`cgctl config` goes through, and it makes only what was there.

The refinement maps `config` to `loaded` and `kept` to `tracked` of the daemon;
the other variables are shared. `DaemonImplementsPlacement` shows that a step of
the daemon is one step of `Placement`'s authority or a stutter: `Attach` is a
placement because the row in hand was placeable under the loaded configuration
when it was matched (`InHandPlanned`), `ReapRmdir` a removal of something kept
(`Bookkeeping`), `LoadOk` and `Crash` forget what was kept.

`TypeInv`, the strengthened invariants and the properties were first checked by
TLC.

Only model-checked: the liveness properties (`Placed`, `AnsweredFor`,
`TrackedReaped`, `OnceExits`, `NeverLockedOut`), which need fairness and are out of the prover's
reach. That the text operators of `Templates` compute what the code does
(`Expand` as a constant of `Policy` against `ExpandText` on characters) is an
assumption evaluated by TLC on the instance.

## 5. Not modelled, and the plan

Not modelled: logging and counters, diagnostics, argument parsing, build and
release scripts, the NSS library, the command line of `pam_cgroup` (the same
`apply` and `classify` without PAM), `cgctl set` and `get` (one control file
each, no state kept), the choice among several cgroup2 mounts.

Within what is modelled, four cases are left out of a property, because what the code
does there is not what the property promises or cannot be told apart by it:

* A destination with an escaped percent sign left in it, which is compared under one
  name and applied under another on every pass (`AppliedWhereCompared` excludes it).
* The snapshot of a subtree, which does not describe its base; restored, the base is
  made as root's and without controllers, and a child that asks for some fails
  (`RestoreFaithful` is about the root, `Applicable` excludes such a file).
* A rule chosen by the executable's name, applied after an `execve` that keeps `comm`:
  `still_same_process` does not compare it; the next pass corrects the place.
* A login whose classification failed and was taken for one without a rule:
  `AdmittedPlaced` derives the destination from what the session recorded.

What is left, in order:

1. An abstract tree (make, delegate, move, remove as single steps) which `Cgfs`
   implements, next to `Placement` for the daemon.
2. Writing control files: `cgctl set`, and the parameters `apply` writes, one
   after the other, with what a failure halfway leaves.
3. The choice of the mount (`cgfs/src/mount.rs`) and the daemon's reaction to a
   hierarchy that comes back elsewhere.
