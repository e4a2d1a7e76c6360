------------------------------ MODULE Snapshot ------------------------------
(***************************************************************************)
(* cgctl snapshot (and ls): a walk that describes a cgroup tree which      *)
(* others change under it, one system call at a time; the text it prints;  *)
(* and cgctl config, which builds a tree from such a text or from one the  *)
(* administrator wrote, possibly after a reboot.                           *)
(*                                                                         *)
(* A cgroup is [owner, task, mode, fmode, ctl, knobs, busy]: the owners of *)
(* the directory and of cgroup.procs, the modes of the directory and of    *)
(* its control files, its cgroup.subtree_control, the contents of its      *)
(* other control files, and whether it has processes.  Group owners go the *)
(* way of owner, the mode of cgroup.procs that of task.                    *)
(***************************************************************************)
EXTENDS ConfigText, FiniteSets

CONSTANTS
    Tree,       \* the paths below the root, sequences of components
    NameOf,     \* a path as text, to_string_lossy of its components
    PathOf,     \* what a group name is split into at its slashes
    Accounts,   \* uids with a passwd entry when the tool starts
    LoginOf,    \* a uid's account name
    Numeral,    \* a uid in digits
    RootUid,    \* the uid the tools run with
    ControllerNames, \* words of lower-case letters, digits and underscores
    Domain,     \* controllers the kernel keeps apart from processes
    Legal,      \* the modes of no bit above 0o7777
    Low,        \* the 0o777 bits of a mode
    AncestorMode, \* ancestor_dperm
    ControlFiles, \* the names of control files, in name order
    CtlOf,      \* a control file's name up to its first dot
    Skipped,    \* the names is_param refuses
    Tables,     \* contents of no line or several, or not to be read
    Fresh,      \* what mkdir makes for the tools: a cgroup of RootUid
    Absent,     \* in place of a cgroup: no directory
    Trees,      \* the trees considered when the tool starts
    Others,     \* the cgroups other users make in the tree
    Scripts,    \* the texts an administrator gives to cgctl config
    Bases,      \* the cgroups cgctl snapshot or ls is asked for
    MaxChanges  \* bound on what others do to the tree and the accounts

Root == <<>>
Nodes == Tree \cup {Root}
Parent(p) == Front(p)
Within(p, base) == IsPrefix(base, p)

VARIABLES
    tree,       \* every path to its cgroup or Absent
    accounts,   \* the uids passwd knows
    tool,       \* "snapshot", "ls" or "config"
    step,       \* where the tool is
    base,       \* the cgroup it was given
    todo,       \* directories found and not yet visited, next first
    here,       \* the directory in hand
    part,       \* what describe has read of it
    unread,     \* the control files it has listed and still has to read
    groups,     \* the nodes described so far; for ls the paths found
    text,       \* the configuration text, once there is one
    conf,       \* what cgctl config parsed
    queue,      \* the nodes it still has to apply
    seen,       \* what every path has been since the tool started
    lost,       \* the paths removed while they were in todo or in hand
    changes     \* the changes others have made

toolVars == <<tool, step, base, todo, here, part, unread, groups, text, conf,
              queue>>
worldVars == <<tree, accounts, seen, lost, changes>>
snapVars == <<toolVars, worldVars>>

(* What describe can say of an owner: a name, no group, two modes.         *)
OwnerWords == {LoginOf[u] : u \in Accounts} \cup {Numeral[u] : u \in DOMAIN Numeral}
Modes == DOMAIN Digits \cup {NoVal}
OwnerSets == [uid : OwnerWords, gid : {NoVal}, dperm : Modes, fperm : Modes]

(* The cgroups there may be below the root, and with the root's own and    *)
(* those the tools make.                                                   *)
Cgroups == (Others \cup {t[p] : t \in Trees, p \in Tree}) \ {Absent}
AnyCgroups == Cgroups \cup {t[Root] : t \in Trees} \cup {Fresh}
Kernel == UNION {r.ctl : r \in AnyCgroups}
CgroupRecords ==
    [owner : DOMAIN Numeral, task : DOMAIN Numeral,
     mode : Legal, fmode : Legal, ctl : SUBSET Kernel,
     knobs : {r.knobs : r \in AnyCgroups}, busy : BOOLEAN]

ASSUME SnapshotAssumption ==
    /\ IsFiniteSet(Tree)
    /\ \A p \in Tree : /\ p \in Seq(ToSet(p)) /\ p # Root
                       /\ Parent(p) \in Nodes
                       /\ NameOf[p] \in DOMAIN PathOf /\ PathOf[NameOf[p]] = p
    /\ <<".">> \notin Tree
    /\ \A w \in DOMAIN PathOf : PathOf[w] \in Tree => NameOf[PathOf[w]] = w
    /\ MaxChanges \in Nat
    /\ \A t \in Scripts : AreSections(t)
    /\ RootUid \in Accounts
    /\ Bases \subseteq Nodes
    /\ \A t \in Trees : /\ DOMAIN t = Nodes
                        /\ \A p \in Tree : t[p] # Absent =>
                              /\ t[Parent(p)] # Absent
                              /\ t[p].ctl \subseteq t[Parent(p)].ctl

(* Every uid has digits, with no quote among them, and every mode a        *)
(* numeral; the kernel has finitely many controllers, with plain names,    *)
(* enables none of them in a new cgroup and none of Domain in one, below   *)
(* the root, that has processes (the rest are the threaded ones).          *)
ASSUME CgroupAssumption ==
    /\ AnyCgroups \subseteq CgroupRecords
    /\ Absent \notin CgroupRecords
    /\ ControllerNames \cap (Special \cup Unwritable) = {}
    /\ IsFiniteSet(Kernel) /\ Kernel \subseteq ControllerNames
    /\ Fresh.ctl = {} /\ ~ Fresh.busy
    /\ \A r \in Cgroups : r.busy => r.ctl \cap Domain = {}
    /\ Legal \subseteq DOMAIN Digits
    /\ Low \in [Legal -> Legal] /\ \A m \in Legal : Low[Low[m]] = Low[m]
    /\ AncestorMode \in [Legal -> Legal]
    /\ PathOf["."] = <<".">>
    /\ ({Numeral[u] : u \in DOMAIN Numeral} \cup {NoVal}) \cap Unwritable = {}
    /\ NoVal \notin DOMAIN Numeral
    /\ NoVal \notin [task : OwnerSets, admin : OwnerSets]
    /\ NoVal \notin DOMAIN Digits

(* An account has one name and no two have the same, nor is one a number:  *)
(* uid_from_name takes what parses for a uid.                              *)
ASSUME AccountsAssumption ==
    /\ \A u, v \in DOMAIN Numeral : Numeral[u] = Numeral[v] => u = v
    /\ \A u, v \in Accounts : LoginOf[u] = LoginOf[v] => u = v
    /\ \A u \in Accounts, v \in DOMAIN Numeral : LoginOf[u] # Numeral[v]
    /\ NoVal \notin OwnerWords

Exists(p) == tree[p] # Absent
ChildrenOf(t, p) == {q \in Tree : t[q] # Absent /\ Parent(q) = p}

-----------------------------------------------------------------------------
(* cgctl snapshot and ls: the walk.                                        *)

(* entries() sorts by name; the order of Tree's elements stands for it.    *)
Sorted(paths) == SetToSeq(paths)

SnapInit ==
    /\ tree \in Trees
    /\ accounts = Accounts
    /\ seen = [p \in Nodes |-> {tree[p]}]
    /\ changes = 0
    /\ lost = {}
    /\ todo = <<>> /\ part = <<>> /\ unread = <<>> /\ groups = <<>>
    /\ conf = Unreadable /\ queue = <<>>
    /\ \/ /\ tool \in {"snapshot", "ls"}
          /\ step = "list"
          /\ base \in Bases
          /\ here = base
          /\ text = <<>>
       \/ /\ tool = "config"
          /\ step = "saved"
          /\ base = Root /\ here = Root
          /\ text \in Scripts

Fail == /\ step' = "failed"
        /\ UNCHANGED <<tool, base, todo, here, part, unread, groups, text, conf,
                       queue>>

(* Mutant: the directories still to visit are forgotten.                   *)
ListDeeper ==
    /\ step = "list"
    /\ IF Exists(here)
       THEN /\ todo' = IF ChildrenOf(tree, here) = {} THEN todo
                       ELSE Sorted(ChildrenOf(tree, here))
            /\ step' = "next"
            /\ UNCHANGED <<tool, base, here, part, unread, groups, text, conf,
                           queue>>
       ELSE Fail
    /\ UNCHANGED worldVars

(* read_dir of the directory in hand: it must be there.                    *)
List ==
    /\ step = "list"
    /\ IF Exists(here)
       THEN /\ todo' = Sorted(ChildrenOf(tree, here)) \o todo
            /\ step' = "next"
            /\ UNCHANGED <<tool, base, here, part, unread, groups, text, conf,
                           queue>>
       ELSE Fail
    /\ UNCHANGED worldVars

(* ls only lists what it finds; snapshot describes it first.               *)
Visit ==
    /\ step = "next"
    /\ todo # <<>>
    /\ here' = Head(todo)
    /\ todo' = Tail(todo)
    /\ IF tool = "ls"
       THEN groups' = Append(groups, Head(todo)) /\ step' = "list"
       ELSE step' = "meta" /\ UNCHANGED groups
    /\ UNCHANGED <<tool, base, part, unread, text, conf, queue, worldVars>>

EndWalk ==
    /\ step = "next"
    /\ todo = <<>>
    /\ step' = IF tool = "ls" THEN "done" ELSE "render"
    /\ UNCHANGED <<tool, base, todo, here, part, unread, groups, text, conf,
                   queue, worldVars>>

(* describe, call by call.  Only the first one must find the directory.    *)
Describe(from, to, fields) ==
    /\ step = from
    /\ part' = fields
    /\ step' = to
    /\ UNCHANGED <<tool, base, todo, here, unread, groups, text, conf, queue,
                   worldVars>>

Meta ==
    IF Exists(here)
    THEN Describe("meta", "procs", <<tree[here].owner, Low[tree[here].mode]>>)
    ELSE /\ step = "meta" /\ Fail /\ UNCHANGED worldVars

Procs ==
    Describe("procs", "controllers",
             Append(part, IF Exists(here) THEN tree[here].task ELSE NoVal))

Controllers ==
    Describe("controllers", "params",
             Append(part, IF Exists(here) THEN tree[here].ctl ELSE {}))

(* Every name has a dot, so that in name order the files of a controller   *)
(* stand together.  No controller is called perm.                          *)
ASSUME FilesAssumption ==
    /\ ControlFiles \in Seq(ToSet(ControlFiles)) /\ IsInjective(ControlFiles)
    /\ DOMAIN CtlOf = ToSet(ControlFiles)
    /\ \A i, k \in DOMAIN ControlFiles : \A j \in i .. k :
          CtlOf[ControlFiles[i]] = CtlOf[ControlFiles[k]]
              => CtlOf[ControlFiles[j]] = CtlOf[ControlFiles[k]]
    /\ "perm" \notin Kernel \cup Range(CtlOf)
    /\ \A r \in Cgroups : DOMAIN r.knobs = ToSet(ControlFiles)

HasFile(cgroup, f) == cgroup.knobs[f] # NoVal

(* collect_params lists the directory, without a word if it is gone, ...   *)
Params ==
    /\ step = "params"
    /\ part' = Append(part, <<>>)
    /\ unread' = IF Exists(here)
                 THEN Those(ControlFiles,
                            LAMBDA f : f \notin Skipped /\ HasFile(tree[here], f))
                 ELSE <<>>
    /\ step' = "read"
    /\ UNCHANGED <<tool, base, todo, here, groups, text, conf, queue, worldVars>>

(* Mutant: a file that is gone has an empty value.                         *)
ReadParamGone ==
    /\ step = "read"
    /\ unread # <<>>
    /\ LET f     == Head(unread)
           value == IF Exists(here) THEN tree[here].knobs[f] ELSE NoVal
       IN  part' = IF value \in Tables THEN part
                   ELSE [part EXCEPT ![5] = Append(@, <<CtlOf[f], f, value>>)]
    /\ unread' = Tail(unread)
    /\ UNCHANGED <<tool, step, base, todo, here, groups, text, conf, queue,
                   worldVars>>

(* Mutant: a file that went away ends the snapshot.                        *)
ReadParamStrict ==
    /\ step = "read"
    /\ unread # <<>>
    /\ LET f     == Head(unread)
           value == IF Exists(here) THEN tree[here].knobs[f] ELSE NoVal
       IN  IF value = NoVal
           THEN Fail
           ELSE /\ part' = IF value \in Tables THEN part
                           ELSE [part EXCEPT ![5] =
                                     Append(@, <<CtlOf[f], f, value>>)]
                /\ unread' = Tail(unread)
                /\ UNCHANGED <<tool, step, base, todo, here, groups, text, conf,
                               queue>>
    /\ UNCHANGED worldVars

(* ... and reads the files one by one.  One that is gone, or has no single *)
(* line, is left out.                                                      *)
ReadParam ==
    /\ step = "read"
    /\ unread # <<>>
    /\ LET f     == Head(unread)
           value == IF Exists(here) THEN tree[here].knobs[f] ELSE NoVal
       IN  part' = IF value \in Tables \cup {NoVal} THEN part
                   ELSE [part EXCEPT ![5] = Append(@, <<CtlOf[f], f, value>>)]
    /\ unread' = Tail(unread)
    /\ UNCHANGED <<tool, step, base, todo, here, groups, text, conf, queue,
                   worldVars>>

(* name_from_uid.                                                          *)
OwnerWord(uid) == IF uid \in accounts THEN LoginOf[uid] ELSE Numeral[uid]

OwnerSet(uid, dperm, fperm) ==
    [uid |-> OwnerWord(uid), gid |-> NoVal, dperm |-> dperm, fperm |-> fperm]

PermRead(fields, fmode) ==
    IF fields[3] = NoVal THEN NoVal
    ELSE [task  |-> OwnerSet(fields[3], NoVal, NoVal),
          admin |-> OwnerSet(fields[1], fields[2], fmode)]

(* The last of describe: the mode of the control files, then the names.    *)
PermStep ==
    /\ step = "read"
    /\ unread = <<>>
    /\ groups' = Append(groups,
           [name        |-> NameOf[here],
            perm        |-> PermRead(part, IF Exists(here)
                                           THEN Low[tree[here].fmode] ELSE NoVal),
            controllers |-> Sorted(part[4]),
            params      |-> part[5]])
    /\ step' = "list"
    /\ part' = <<>>
    /\ UNCHANGED <<tool, base, todo, here, unread, text, conf, queue, worldVars>>

Described == [mounts |-> <<>>, default |-> NoVal,
              groups |-> groups, templates |-> <<>>]

(* snapshot_cmd: rendered whole before a byte of it is written.            *)
Render ==
    /\ step = "render"
    /\ IF Display(Described) = Unwritten
       THEN Fail
       ELSE /\ text' = Display(Described)
            /\ step' = "saved"
            /\ UNCHANGED <<tool, base, todo, here, part, unread, groups, conf,
                           queue>>
    /\ UNCHANGED worldVars

-----------------------------------------------------------------------------
(* cgctl config.                                                           *)

(* Mutant: the order of the file.                                          *)
InFileOrder(nodes) == nodes

(* sort_by_key is stable.                                                  *)
ByDepth(nodes) ==
    LET depth(n) == Len(PathOf[n.name])
        deepest  == Max({0} \cup {depth(n) : n \in ToSet(nodes)})
    IN  FlattenSeq([d \in 1 .. deepest |->
                       Those(nodes, LAMBDA n : depth(n) = d)])

ReadConfig ==
    /\ step = "saved"
    /\ IF Parse(text) = Unreadable
       THEN Fail
       ELSE /\ conf' = Parse(text)
            /\ queue' = Those(ByDepth(Parse(text).groups),
                              LAMBDA n : n.name # ".")
            /\ step' = "apply"
            /\ UNCHANGED <<tool, base, todo, here, part, unread, groups, text>>
    /\ UNCHANGED worldVars

(* ConfigFile::effective_perm.                                             *)
EffectivePerm(c, n) ==
    CASE n.perm # NoVal                       -> n.perm
      [] n.perm = NoVal /\ c.default # NoVal  -> c.default
      [] OTHER                                -> EmptyPerm

(* Mutant: a number is looked up like a name.                              *)
OwnerOfLogin(word) ==
    {u \in accounts : LoginOf[u] = word}

(* resolve_owner: none for a name without an account.                      *)
OwnerOf(word) ==
    {u \in DOMAIN Numeral : \/ Numeral[u] = word
                            \/ u \in accounts /\ LoginOf[u] = word}

Resolves(set) == set.uid = NoVal \/ OwnerOf(set.uid) # {}

Or(value, otherwise) == IF value = NoVal THEN otherwise ELSE value

OneOf(uids) == CHOOSE u \in uids : TRUE

OwnerOr(word, otherwise) ==
    IF word = NoVal THEN otherwise ELSE OneOf(OwnerOf(word))

(* The missing directories on the way to p.                                *)
WithAncestors(p, dperm) ==
    [q \in Nodes |->
        IF Within(p, q) /\ ~ Exists(q)
        THEN [Fresh EXCEPT !.mode = IF dperm = NoVal \/ q = p THEN @
                                    ELSE AncestorMode[dperm]]
        ELSE tree[q]]

(* Cgroup::apply up to the control files.                                  *)
Owned(cgroup, perm) ==
    [cgroup EXCEPT
        !.owner   = OwnerOr(perm.admin.uid, @),
        !.mode    = Or(perm.admin.dperm, @),
        !.fmode   = Or(perm.admin.fperm, @),
        !.task    = OwnerOr(perm.task.uid, OwnerOr(perm.admin.uid, @))]

(* validate_spec.                                                          *)
Valid(perm, want) ==
    /\ {perm.admin.dperm, perm.admin.fperm, perm.task.fperm}
           \subseteq Legal \cup {NoVal}
    /\ want \subseteq ControllerNames

(* The kernel enables a controller only where the parent offers it, and    *)
(* beside processes only one of the threaded ones.                         *)
Enables(cgroup, above, want) ==
    /\ want \subseteq above.ctl
    /\ cgroup.busy => want \cap Domain \subseteq cgroup.ctl

(* One node: resolve_plan and validate_spec, then apply.  The owners are   *)
(* set by the time the kernel refuses a controller.                        *)
ApplyNode ==
    /\ step = "apply"
    /\ queue # <<>>
    /\ LET n    == Head(queue)
           p    == PathOf[n.name]
           perm == EffectivePerm(conf, n)
           made == WithAncestors(p, perm.admin.dperm)
           want == ToSet(n.controllers)
           done == [made EXCEPT ![p] = Owned(@, perm)]
       IN  IF /\ p \in Tree /\ Resolves(perm.task) /\ Resolves(perm.admin)
              /\ Valid(perm, want)
           THEN IF Enables(made[p], made[Parent(p)], want)
                THEN /\ tree' = [done EXCEPT ![p].ctl = @ \cup want]
                     /\ queue' = Tail(queue)
                     /\ UNCHANGED <<tool, step, base, todo, here, part, unread,
                                    groups, text, conf>>
                ELSE tree' = done /\ Fail
           ELSE Fail /\ UNCHANGED tree
    /\ UNCHANGED <<accounts, seen, lost, changes>>

EndConfig ==
    /\ step = "apply"
    /\ queue = <<>>
    /\ step' = "done"
    /\ UNCHANGED <<tool, base, todo, here, part, unread, groups, text, conf,
                   queue, worldVars>>

-----------------------------------------------------------------------------
(* The others.                                                             *)

Running == step \notin {"done", "failed"}

Change(p, cgroup) ==
    /\ Running
    /\ changes < MaxChanges
    /\ tree' = [tree EXCEPT ![p] = cgroup]
    /\ seen' = [seen EXCEPT ![p] = @ \cup {cgroup}]
    /\ lost' = IF cgroup = Absent /\ p \in ToSet(todo) \cup {here}
               THEN lost \cup {p} ELSE lost
    /\ changes' = changes + 1
    /\ UNCHANGED <<accounts, toolVars>>

Fits(p, cgroup) ==
    /\ Exists(Parent(p))
    /\ cgroup.ctl \subseteq tree[Parent(p)].ctl
    /\ \A q \in ChildrenOf(tree, p) : tree[q].ctl \subseteq cgroup.ctl

(* mkdir, a chown, chmod or write to a control file, or processes coming   *)
(* and going.                                                              *)
OtherChange(p, cgroup) == tree[p] # cgroup /\ Fits(p, cgroup) /\ Change(p, cgroup)

OtherRmdir(p) ==
    Exists(p) /\ ChildrenOf(tree, p) = {} /\ Change(p, Absent)

Userdel(u) ==
    /\ Running
    /\ u # RootUid
    /\ changes < MaxChanges
    /\ accounts' = accounts \ {u}
    /\ changes' = changes + 1
    /\ UNCHANGED <<tree, seen, lost, toolVars>>

(* The tree is gone and the root delegates what it did before.             *)
Reboot ==
    /\ tool = "snapshot" /\ step = "saved"
    /\ tree' = [p \in Nodes |-> IF p = Root THEN tree[Root] ELSE Absent]
    /\ UNCHANGED <<accounts, seen, lost, changes, toolVars>>

OtherStep ==
    \/ \E p \in Tree, cgroup \in Others : OtherChange(p, cgroup)
    \/ \E p \in Tree : OtherRmdir(p)
    \/ \E u \in accounts : Userdel(u)
    \/ Reboot

ToolStep ==
    \/ List \/ Visit \/ EndWalk
    \/ Meta \/ Procs \/ Controllers \/ Params \/ ReadParam \/ PermStep \/ Render
    \/ ReadConfig \/ ApplyNode \/ EndConfig

SnapNext == ToolStep \/ OtherStep
=============================================================================
