-------------------------------- MODULE Cgfs --------------------------------
(***************************************************************************)
(* cgfs at work for several callers at once: PAM sessions placing a login, *)
(* cgctl config, classify, exec and delete, each a sequence of calls that  *)
(* stops at the first error.  No lock is held; between two system calls of *)
(* one caller the others act.                                              *)
(***************************************************************************)
EXTENDS CgroupTree

CONSTANTS
    Callers,    \* processes calling cgfs
    Scripts,    \* caller -> the sequences of calls it may be running
    Keep,       \* an owner the LeafSpec leaves out
    NoPid,      \* no process to attach
    Home,       \* the directories that exist beforehand
    Mortal      \* bound: callers that may be killed halfway

(* A mode the LeafSpec leaves out.                                         *)
NoMode == {"default"}

Calls == [kind : {"apply", "attach", "exec", "delete_leaf", "delete_tree"},
          path : Paths,
          uid : Owners \cup {Keep}, task_uid : Owners \cup {Keep},
          dperm : (SUBSET Permissions) \cup {NoMode},
          controllers : BOOLEAN,
          pid : Pids \cup {NoPid}]

ASSUME CgfsAssumption ==
    /\ Keep \notin Owners
    /\ NoPid \notin Pids
    /\ \A c \in Callers : Scripts[c] \subseteq Seq(Calls) \ {<<>>}
    /\ \A c \in Callers : \A s \in Scripts[c] : \A i \in DOMAIN s :
            s[i].kind \in {"attach", "exec"} => s[i].pid # NoPid
    /\ Home \subseteq Dirs /\ Root \in Home
    /\ \A p \in Home \cap Paths : Parent[p] \in Home
    /\ Mortal \subseteq Callers

VARIABLES
    script,     \* caller -> what it runs, chosen once
    ip,         \* caller -> the call it is in
    pc,         \* caller -> where in the call
    fd,         \* caller -> the descriptor the walk has reached
    level,      \* caller -> which component of the path is opened next
    fresh,      \* caller -> the walk made the directory it opens next
    file,       \* caller -> which control file is handed over next
    pending,    \* caller -> directories delete_tree has not listed yet
    order,      \* caller -> directories listed, parents before children
    dead,       \* callers killed
    hit         \* history: what others did about the path of a running call

callVars == <<script, ip, pc, fd, level, fresh, file, pending, order, dead>>
vars == <<treeVars, script, ip, pc, fd, level, fresh, file, pending, order,
          dead, hit>>

Locations == {"start", "open", "make", "reopen", "chmod", "own", "mode",
              "control", "enable", "attach", "procs", "enter", "list",
              "unlink", "done", "failed"}

Idle == {"start", "done", "failed"}

ControlOrder == <<"cgroup.procs", "cgroup.subtree_control", "cgroup.threads">>

RootFd == [dir |-> Root, inc |-> 1]

Init ==
    /\ dirs = [d \in Dirs |-> IF d \in Home THEN 1 ELSE 0]
    /\ born = 2
    /\ attr = [p \in Paths |->
                 AsMade(IF p \in Home THEN {"search"} ELSE {})]
    /\ subtree = {Root}
    /\ cg = [q \in Pids |-> Root]
    /\ script \in [Callers -> UNION {Scripts[c] : c \in Callers}]
    /\ \A c \in Callers : script[c] \in Scripts[c]
    /\ ip = [c \in Callers |-> 1]
    /\ pc = [c \in Callers |-> "start"]
    /\ fd = [c \in Callers |-> RootFd]
    /\ level = [c \in Callers |-> 1]
    /\ fresh = [c \in Callers |-> FALSE]
    /\ file = [c \in Callers |-> 1]
    /\ pending = [c \in Callers |-> <<>>]
    /\ order = [c \in Callers |-> <<>>]
    /\ dead = {}
    /\ hit = [c \in Callers |-> {}]

-----------------------------------------------------------------------------
(* Where a caller is.                                                      *)

Call(c) == script[c][ip[c]]

At(c, l) == c \notin dead /\ pc[c] = l

(* The component the walk is about to open, and whether it is the leaf.    *)
Child(c) == Walk[Call(c).path][level[c]]

AtLeaf(c) == level[c] = Len(Walk[Call(c).path])

Goto(c, l) == pc' = [pc EXCEPT ![c] = l]

(* The call returns an error and the caller gives up.                      *)
Fail(c) ==
    /\ Goto(c, "failed")
    /\ UNCHANGED <<treeVars, script, ip, fd, level, fresh, file, pending,
                   order, dead, hit>>

(* On to the next system call, or past the last one of the call.           *)
Proceed(c, l) ==
    IF l = "return"
    THEN /\ ip' = [ip EXCEPT ![c] = ip[c] + 1]
         /\ Goto(c, IF ip[c] = Len(script[c]) THEN "done" ELSE "start")
    ELSE Goto(c, l) /\ UNCHANGED ip

(* What another caller's step on p means to the call b is in.              *)
Concerns(kind, p, q) ==
    CASE kind = "changed" -> p = q
      [] kind = "made"    -> Under(p, q)
      [] kind = "removed" -> Under(p, q) \/ Under(q, p)

Note(c, kind, p) ==
    hit' = [b \in Callers |->
              IF b # c /\ pc[b] \notin Idle /\ Concerns(kind, p, Call(b).path)
              THEN hit[b] \cup {kind} ELSE hit[b]]

NoteChange(c, fdc) ==
    IF Live(fdc) THEN Note(c, "changed", fdc.dir) ELSE UNCHANGED hit

Begin(c) ==
    /\ At(c, "start")
    /\ hit' = [hit EXCEPT ![c] = {}]
    /\ LET call == Call(c) IN
        \/ /\ call.kind = "apply"
           /\ Goto(c, "open")
           /\ fd' = [fd EXCEPT ![c] = RootFd]
           /\ level' = [level EXCEPT ![c] = 1]
           /\ UNCHANGED <<pending, order>>
        \/ /\ call.kind = "attach"
           /\ Goto(c, "attach")
           /\ UNCHANGED <<fd, level, pending, order>>
        \/ /\ call.kind = "exec"
           /\ Goto(c, "procs")
           /\ UNCHANGED <<fd, level, pending, order>>
        \/ /\ call.kind = "delete_leaf"
           /\ Goto(c, "unlink")
           /\ order' = [order EXCEPT ![c] = <<call.path>>]
           /\ UNCHANGED <<fd, level, pending>>
        \/ /\ call.kind = "delete_tree"
           /\ Goto(c, "list")
           /\ pending' = [pending EXCEPT ![c] = <<call.path>>]
           /\ order' = [order EXCEPT ![c] = <<>>]
           /\ UNCHANGED <<fd, level>>
    /\ UNCHANGED <<treeVars, script, ip, fresh, file, dead>>

-----------------------------------------------------------------------------
(* Cgroup::apply: open_dir_for_apply, one component at a time.             *)

(* Mutant: an ancestor gets the leaf's write bits.                         *)
AncestorModeWritable(mode) == mode \cup {"search"}

AncestorMode(mode) == (mode \ {"write"}) \cup {"search"}

(* The mode passed to mkdirat.                                             *)
MakeMode(c) ==
    LET mode == Call(c).dperm
    IN  IF mode = NoMode THEN Permissions
        ELSE IF AtLeaf(c) THEN mode ELSE AncestorMode(mode)

(* The walk goes down one level, or has its leaf.                          *)
Descend(c) ==
    IF AtLeaf(c)
    THEN Goto(c, "own") /\ UNCHANGED level
    ELSE Goto(c, "open") /\ level' = [level EXCEPT ![c] = level[c] + 1]

OpenedChild(c) == [dir |-> Child(c), inc |-> dirs[Child(c)]]

(* openat2; ENOENT, also when the directory opened before is gone.         *)
OpenChild(c) ==
    /\ At(c, "open")
    /\ IF Live(fd[c]) /\ Exists(Child(c))
       THEN fd' = [fd EXCEPT ![c] = OpenedChild(c)] /\ Descend(c)
       ELSE Goto(c, "make") /\ UNCHANGED <<fd, level>>
    /\ UNCHANGED <<treeVars, script, ip, fresh, file, pending, order, dead,
                   hit>>

(* Mutant: EEXIST, another caller having made it meanwhile, is an error.   *)
MakeChildExclusive(c) ==
    /\ At(c, "make")
    /\ IF ~ Live(fd[c]) \/ Exists(Child(c))
       THEN Fail(c)
       ELSE /\ Mkdir(Child(c), MakeMode(c))
            /\ fresh' = [fresh EXCEPT ![c] = TRUE]
            /\ Note(c, "made", Child(c))
            /\ Goto(c, "reopen")
            /\ UNCHANGED <<script, ip, fd, level, file, pending, order, dead>>

(* mkdirat.                                                                *)
MakeChild(c) ==
    /\ At(c, "make")
    /\ IF ~ Live(fd[c])
       THEN Fail(c)
       ELSE /\ fresh' = [fresh EXCEPT ![c] = ~ Exists(Child(c))]
            /\ IF Exists(Child(c))
               THEN UNCHANGED <<treeVars, hit>>
               ELSE /\ Mkdir(Child(c), MakeMode(c))
                    /\ Note(c, "made", Child(c))
            /\ Goto(c, "reopen")
            /\ UNCHANGED <<script, ip, fd, level, file, pending, order, dead>>

(* Mutant: mkdirat's mode is trusted, whatever the umask took from it.     *)
ReopenTrustingMkdir(c) ==
    /\ At(c, "reopen")
    /\ IF Live(fd[c]) /\ Exists(Child(c))
       THEN /\ fd' = [fd EXCEPT ![c] = OpenedChild(c)]
            /\ Descend(c)
            /\ UNCHANGED <<treeVars, script, ip, fresh, file, pending, order,
                           dead, hit>>
       ELSE Fail(c)

(* The second openat2, by name again.                                      *)
ReopenChild(c) ==
    /\ At(c, "reopen")
    /\ IF Live(fd[c]) /\ Exists(Child(c))
       THEN /\ fd' = [fd EXCEPT ![c] = OpenedChild(c)]
            /\ IF fresh[c] /\ ~ AtLeaf(c) /\ Call(c).dperm # NoMode
               THEN Goto(c, "chmod") /\ UNCHANGED level
               ELSE Descend(c)
            /\ UNCHANGED <<treeVars, script, ip, fresh, file, pending, order,
                           dead, hit>>
       ELSE Fail(c)

(* Mutant: an ancestor is given to the leaf's owner as well.               *)
ChmodAndOwnChild(c) ==
    /\ At(c, "chmod")
    /\ attr' = IF Live(fd[c])
               THEN [attr EXCEPT ![fd[c].dir].mode = AncestorMode(Call(c).dperm),
                                 ![fd[c].dir].uid = Call(c).uid]
               ELSE attr
    /\ NoteChange(c, fd[c])
    /\ Descend(c)
    /\ UNCHANGED <<dirs, born, subtree, cg, script, ip, fd, fresh, file,
                   pending, order, dead>>

(* fchmod of an ancestor this walk has made.                               *)
ChmodChild(c) ==
    /\ At(c, "chmod")
    /\ Chmod(fd[c], AncestorMode(Call(c).dperm))
    /\ NoteChange(c, fd[c])
    /\ Descend(c)
    /\ UNCHANGED <<script, ip, fd, fresh, file, pending, order, dead>>

-----------------------------------------------------------------------------
(* Cgroup::apply: the leaf.                                                *)

(* Mutant: like libcgroup, an existing cgroup keeps its owner.             *)
ChownLeafIfMade(c) ==
    /\ At(c, "own")
    /\ IF Call(c).uid = Keep \/ ~ fresh[c]
       THEN UNCHANGED <<treeVars, hit>>
       ELSE Chown(fd[c], Call(c).uid) /\ NoteChange(c, fd[c])
    /\ Goto(c, IF Call(c).dperm = NoMode THEN "control" ELSE "mode")
    /\ UNCHANGED <<script, ip, fd, level, fresh, file, pending, order, dead>>

(* fchown of the leaf, made or found.                                      *)
ChownLeaf(c) ==
    /\ At(c, "own")
    /\ IF Call(c).uid = Keep
       THEN UNCHANGED <<treeVars, hit>>
       ELSE Chown(fd[c], Call(c).uid) /\ NoteChange(c, fd[c])
    /\ Goto(c, IF Call(c).dperm = NoMode THEN "control" ELSE "mode")
    /\ UNCHANGED <<script, ip, fd, level, fresh, file, pending, order, dead>>

(* fchmod of the leaf.                                                     *)
ChmodLeaf(c) ==
    /\ At(c, "mode")
    /\ Chmod(fd[c], Call(c).dperm)
    /\ NoteChange(c, fd[c])
    /\ Goto(c, "control")
    /\ UNCHANGED <<script, ip, fd, level, fresh, file, pending, order, dead>>

(* Who a control file is given to: the task owner, if there is one, for    *)
(* the two files that take processes.                                      *)
FileOwner(call, f) ==
    IF f # "cgroup.subtree_control" /\ call.task_uid # Keep
    THEN call.task_uid ELSE call.uid

AfterControls(call) ==
    IF call.controllers THEN "enable"
    ELSE IF call.pid # NoPid THEN "attach" ELSE "return"

(* Mutant: the index of the control file runs past the last one.           *)
HandOverPastLast(c) ==
    /\ At(c, "control")
    /\ LET call == Call(c)
           f    == ControlOrder[file[c]]
       IN  IF ~ Exists(call.path)
           THEN Fail(c)
           ELSE /\ IF FileOwner(call, f) = Keep
                   THEN UNCHANGED <<treeVars, hit>>
                   ELSE /\ ChownControl(call.path, f, FileOwner(call, f))
                        /\ Note(c, "changed", call.path)
                /\ file' = [file EXCEPT ![c] = file[c] + 1]
                /\ IF file[c] < Len(ControlOrder)
                   THEN UNCHANGED <<pc, ip>>
                   ELSE Proceed(c, AfterControls(call))
                /\ UNCHANGED <<script, fd, level, fresh, pending, order, dead>>

(* One control file, opened by its path from the root, not through fd.     *)
HandOver(c) ==
    /\ At(c, "control")
    /\ LET call == Call(c)
           f    == ControlOrder[file[c]]
       IN  IF ~ Exists(call.path)
           THEN Fail(c)
           ELSE /\ IF FileOwner(call, f) = Keep
                   THEN UNCHANGED <<treeVars, hit>>
                   ELSE /\ ChownControl(call.path, f, FileOwner(call, f))
                        /\ Note(c, "changed", call.path)
                /\ IF file[c] < Len(ControlOrder)
                   THEN /\ file' = [file EXCEPT ![c] = file[c] + 1]
                        /\ UNCHANGED <<pc, ip>>
                   ELSE /\ file' = [file EXCEPT ![c] = 1]
                        /\ Proceed(c, AfterControls(call))
                /\ UNCHANGED <<script, fd, level, fresh, pending, order, dead>>

(* enable_subtree_control.                                                 *)
EnableControllers(c) ==
    /\ At(c, "enable")
    /\ IF CanEnable(Call(c).path)
       THEN /\ Enable(Call(c).path)
            /\ Proceed(c, IF Call(c).pid # NoPid THEN "attach" ELSE "return")
            /\ UNCHANGED <<script, fd, level, fresh, file, pending, order,
                           dead, hit>>
       ELSE Fail(c)

(* Cgroup::attach, the end of apply and all of classify.                   *)
AttachPid(c) ==
    /\ At(c, "attach")
    /\ IF CanAttach(Call(c).pid, Call(c).path)
       THEN /\ Attach(Call(c).pid, Call(c).path)
            /\ Proceed(c, "return")
            /\ UNCHANGED <<script, fd, level, fresh, file, pending, order,
                           dead, hit>>
       ELSE Fail(c)

-----------------------------------------------------------------------------
(* cgctl exec: cgroup.procs is opened first and written when the command   *)
(* is about to take the caller's place.                                    *)

OpenProcs(c) ==
    /\ At(c, "procs")
    /\ LET path == Call(c).path
       IN  IF ~ Exists(path)
           THEN Fail(c)
           ELSE /\ fd' = [fd EXCEPT ![c] = [dir |-> path, inc |-> dirs[path]]]
                /\ Goto(c, "enter")
                /\ UNCHANGED <<treeVars, script, ip, level, fresh, file,
                               pending, order, dead, hit>>

(* Mutant: the result of the write is not looked at.                       *)
EnterUnchecked(c) ==
    /\ At(c, "enter")
    /\ IF Live(fd[c]) /\ CanAttach(Call(c).pid, Call(c).path)
       THEN Attach(Call(c).pid, Call(c).path)
       ELSE UNCHANGED treeVars
    /\ Proceed(c, "return")
    /\ UNCHANGED <<script, fd, level, fresh, file, pending, order, dead, hit>>

(* The hook before execve: refused where the cgroup is no longer there,    *)
(* whatever its path leads to by then.                                     *)
Enter(c) ==
    /\ At(c, "enter")
    /\ IF Live(fd[c]) /\ CanAttach(Call(c).pid, Call(c).path)
       THEN /\ Attach(Call(c).pid, Call(c).path)
            /\ Proceed(c, "return")
            /\ UNCHANGED <<script, fd, level, fresh, file, pending, order,
                           dead, hit>>
       ELSE Fail(c)

-----------------------------------------------------------------------------
(* Cgroup::delete_tree and delete_leaf.                                    *)

(* The orders in which a directory's entries can be read.                  *)
Listings(S) == {s \in [1..Cardinality(S) -> S] :
                  \A i, j \in DOMAIN s : s[i] = s[j] => i = j}

(* One turn of the listing loop: pop a path, remember it, list it.         *)
ListDir(c) ==
    /\ At(c, "list")
    /\ LET n    == Len(pending[c])
           path == pending[c][n]
       IN  IF ~ Exists(path)
           THEN Fail(c)
           ELSE \E found \in Listings(Children(path)) :
                /\ order' = [order EXCEPT ![c] = Append(order[c], path)]
                /\ pending' = [pending EXCEPT ![c] =
                                 SubSeq(pending[c], 1, n - 1) \o found]
                /\ Goto(c, IF n = 1 /\ found = <<>> THEN "unlink" ELSE "list")
                /\ UNCHANGED <<treeVars, script, ip, fd, level, fresh, file,
                               dead, hit>>

(* Mutant: the directories are removed in the order they were listed.      *)
UnlinkInListOrder(c) ==
    /\ At(c, "unlink")
    /\ LET path == Head(order[c])
       IN  IF ~ Exists(path) \/ ~ Removable(path)
           THEN Fail(c)
           ELSE /\ Rmdir(path)
                /\ Note(c, "removed", path)
                /\ order' = [order EXCEPT ![c] = Tail(order[c])]
                /\ Proceed(c, IF Len(order[c]) = 1 THEN "return" ELSE "unlink")
                /\ UNCHANGED <<script, fd, level, fresh, file, pending, dead>>

(* One turn of the removal loop, last listed first.                        *)
Unlink(c) ==
    /\ At(c, "unlink")
    /\ LET n    == Len(order[c])
           path == order[c][n]
       IN  IF ~ Exists(path) \/ ~ Removable(path)
           THEN Fail(c)
           ELSE /\ Rmdir(path)
                /\ Note(c, "removed", path)
                /\ order' = [order EXCEPT ![c] = SubSeq(order[c], 1, n - 1)]
                /\ Proceed(c, IF n = 1 THEN "return" ELSE "unlink")
                /\ UNCHANGED <<script, fd, level, fresh, file, pending, dead>>

-----------------------------------------------------------------------------
(* A caller is killed, a placed process exits.                             *)

Kill(c) ==
    /\ c \in Mortal \ dead
    /\ pc[c] \notin {"done", "failed"}
    /\ dead' = dead \cup {c}
    /\ UNCHANGED <<treeVars, script, ip, pc, fd, level, fresh, file, pending,
                   order, hit>>

ProcessExits(q) ==
    /\ Exit(q)
    /\ UNCHANGED <<callVars, hit>>

Step(c) ==
    \/ Begin(c)
    \/ OpenChild(c) \/ MakeChild(c) \/ ReopenChild(c) \/ ChmodChild(c)
    \/ ChownLeaf(c) \/ ChmodLeaf(c) \/ HandOver(c)
    \/ EnableControllers(c) \/ AttachPid(c)
    \/ OpenProcs(c) \/ Enter(c)
    \/ ListDir(c) \/ Unlink(c)

Next ==
    \/ \E c \in Callers : Step(c) \/ Kill(c)
    \/ \E q \in Pids : ProcessExits(q)

Spec == Init /\ [][Next]_vars
=============================================================================
