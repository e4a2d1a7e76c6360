------------------------------ MODULE Cgrulesd ------------------------------
(***************************************************************************)
(* cgrulesd, the enforcement daemon: the poll loop of cgrulesd/src/main.rs *)
(* with the pass (enforce_once) and the reaper (reap_idle_templates) of    *)
(* cgrulesd/src/enforce.rs, and the cgfs calls they make, one action per   *)
(* system call whose answer the environment can change.                    *)
(***************************************************************************)
EXTENDS CgroupKernel

CONSTANTS
    Invalid,    \* the configuration on disk does not parse or is missing
    None,       \* no configuration loaded yet; no row, no path in hand
    Once,       \* the --once flag
    Events,     \* which kinds of environment event a run admits
    MaxEvents,  \* bound: environment events in one behaviour
    Home,       \* the directories that exist before the daemon starts
    Delegating  \* those of them that offer their children the controllers

EventKinds == {"process", "sched", "mkdir", "rmdir", "move", "chown", "enable",
               "config", "mount", "crash"}

(* A row of the /proc scan, and a resolved destination for one.           *)
Row == [pid : Pids, user : Users, comm : Names, exe : Names, start : Nat,
        cgroup : Paths \cup {Root}]

Target == [row : Row, path : Paths, task : {"keep", "user"},
           controllers : BOOLEAN, tmpl : BOOLEAN, planned : BOOLEAN]

ASSUME CgrulesdAssumption ==
    /\ Invalid \notin Configs /\ None \notin Configs
    /\ None \notin Paths /\ None \notin Target
    /\ Once \in BOOLEAN
    /\ Events \subseteq EventKinds
    /\ MaxEvents \in Nat
    /\ Home \subseteq Paths
    /\ \A d \in Home : Above[d] \subseteq Home
    /\ Delegating \subseteq Home
    /\ Configs # {}

VARIABLES
    disk,       \* what load() would find: a configuration or Invalid
    mounted,    \* Hierarchy::discover finds a usable cgroup2 mount
    pc,         \* where the loop of run() is
    loaded,     \* last_loaded
    tracked,    \* tracked_templates
    unread,     \* pids gather() has not read yet
    rows,       \* scanned rows the pass has not handled yet
    cur,        \* the row being applied and its resolved destination
    reapq,      \* tracked destinations the reaper has not visited yet
    victim,     \* the destination the reaper found empty
    budget,     \* environment events left
    made,       \* history: existing directories made for a template match
    drift       \* history: what changed about `cur` since it was checked

daemonVars == <<loaded, tracked, unread, rows, cur, reapq, victim>>
history    == <<made, drift>>
vars == <<proc, cg, rt, clock, dirs, owner, subtree, disk, mounted, pc,
          loaded, tracked, unread, rows, cur, reapq, victim, budget,
          made, drift>>

Locations == {"load", "discover", "gather", "match", "check", "open", "perm",
              "enable", "attach", "reap", "rmdir", "sleep", "exit", "down"}

Applying == {"open", "perm", "enable", "attach"}

InHand == {"check"} \cup Applying

TypeOK ==
    /\ KernelTypeOK
    /\ disk \in Configs \cup {Invalid}
    /\ mounted \in BOOLEAN
    /\ pc \in Locations
    /\ loaded \in Configs \cup {None}
    /\ tracked \subseteq Paths
    /\ unread \subseteq Pids
    /\ rows \subseteq Row
    /\ cur \in Target \cup {None}
    /\ reapq \subseteq Paths
    /\ victim \in Paths \cup {None}
    /\ budget \in 0..MaxEvents
    /\ made \subseteq dirs
    /\ drift \subseteq {"identity", "sched", "target"}

Init ==
    /\ proc \in [Pids -> {Absent} \cup
            {[user |-> u, comm |-> n, exe |-> n, start |-> 0] :
                u \in Users, n \in Names}]
    /\ cg = [p \in Pids |-> Root]
    /\ rt = {}
    /\ clock = 1
    /\ dirs = Home
    /\ owner = [d \in Paths |-> RootUser]
    /\ subtree = Delegating
    /\ disk \in Configs
    /\ mounted = TRUE
    /\ pc = "load"
    /\ loaded = None /\ tracked = {} /\ unread = {} /\ rows = {}
    /\ cur = None /\ reapq = {} /\ victim = None
    /\ budget = MaxEvents
    /\ made = {} /\ drift = {}

-----------------------------------------------------------------------------
(* run(): load, compare with last_loaded, discover, gather.                *)

(* Mutant: --once is only honoured on the success path.                    *)
AfterPassIgnoringOnce == "sleep"

AfterPass == IF Once THEN "exit" ELSE "sleep"

(* Mutant: the tracked set survives a changed configuration.               *)
LoadOkKeepingTracked ==
    /\ pc = "load" /\ disk # Invalid
    /\ loaded' = disk
    /\ pc' = "discover"
    /\ UNCHANGED <<procVars, treeVars, disk, mounted, tracked, unread, rows,
                   cur, reapq, victim, budget, history>>

LoadOk ==
    /\ pc = "load" /\ disk # Invalid
    /\ tracked' = IF disk # loaded THEN {} ELSE tracked
    /\ loaded' = disk
    /\ pc' = "discover"
    /\ UNCHANGED <<procVars, treeVars, disk, mounted, unread, rows, cur,
                   reapq, victim, budget, history>>

(* Mutant: a configuration that does not load ends the daemon.             *)
LoadFailFatal ==
    /\ pc = "load" /\ disk = Invalid
    /\ pc' = "exit"
    /\ UNCHANGED <<procVars, treeVars, disk, mounted, daemonVars, budget,
                   history>>

LoadFail ==
    /\ pc = "load" /\ disk = Invalid
    /\ pc' = AfterPass
    /\ UNCHANGED <<procVars, treeVars, disk, mounted, daemonVars, budget,
                   history>>

DiscoverOk ==
    /\ pc = "discover" /\ mounted
    /\ unread' = Pids
    /\ pc' = "gather"
    /\ UNCHANGED <<procVars, treeVars, disk, mounted, loaded, tracked, rows,
                   cur, reapq, victim, budget, history>>

DiscoverFail ==
    /\ pc = "discover" /\ ~ mounted
    /\ pc' = AfterPass
    /\ UNCHANGED <<procVars, treeVars, disk, mounted, daemonVars, budget,
                   history>>

RowOf(p) == [pid |-> p, user |-> proc[p].user, comm |-> proc[p].comm,
             exe |-> proc[p].exe, start |-> proc[p].start, cgroup |-> cg[p]]

(* One /proc entry; a process whose files are gone yields no row.          *)
Gather(p) ==
    /\ pc = "gather" /\ p \in unread
    /\ unread' = unread \ {p}
    /\ rows' = IF Alive(p) THEN rows \cup {RowOf(p)} ELSE rows
    /\ pc' = IF unread' = {} THEN "match" ELSE "gather"
    /\ UNCHANGED <<procVars, treeVars, disk, mounted, loaded, tracked, cur,
                   reapq, victim, budget, history>>

-----------------------------------------------------------------------------
(* enforce_once(): one row.                                                *)

(* Mutant: ignore_rt is not looked at.                                     *)
IgnoredWithoutRt(row) == "ignore" \in FirstRule(loaded, row).options

(* An ignore rule, or an ignore_rt rule and a real-time task:              *)
(* sched_getscheduler is asked about the pid, now.                         *)
Ignored(row) ==
    LET options == FirstRule(loaded, row).options
    IN  "ignore" \in options \/ ("ignore_rt" \in options /\ row.pid \in rt)

(* Mutant: any existing directory will do.                                 *)
OwnedByAnyone(d, u) == d \in dirs

OwnedBy(d, u) == d \in dirs /\ owner[d] = u

(* leaf_spec: Some, None or Err.  Without a plan an existing directory     *)
(* whose cgroup.procs the user owns will do; an owner no passwd entry has  *)
(* is an error, reported like a missing destination.                       *)
Resolves(row) ==
    LET d == Dest(loaded, row)
        plan == Plan(loaded, row)
    IN  /\ d # Unsafe
        /\ IF plan = NoPlan THEN OwnedBy(d, row.user)
                            ELSE plan.task # "unknown"

(* enforce_once goes on with the row, past the four early continues.       *)
Placeable(row) == HasRule(loaded, row) /\ ~ Ignored(row) /\ Resolves(row)

LeafSpec(row) ==
    LET plan == Plan(loaded, row)
    IN  [row |-> row, path |-> Dest(loaded, row),
         task |-> IF plan = NoPlan THEN "keep" ELSE plan.task,
         controllers |-> plan # NoPlan /\ plan.controllers,
         tmpl |-> plan # NoPlan /\ plan.tmpl,
         planned |-> plan # NoPlan]

SkipRow(row) ==
    /\ pc = "match" /\ row \in rows
    /\ ~ Placeable(row)
    /\ rows' = rows \ {row}
    /\ UNCHANGED <<procVars, treeVars, disk, mounted, pc, loaded, tracked,
                   unread, cur, reapq, victim, budget, history>>

(* Mutant: every destination is tracked, groups among them.                *)
TrackAlways(leaf) == tracked \cup {leaf.path}

(* A template destination is tracked before the already-placed test and    *)
(* before apply.                                                           *)
Track(leaf) == IF leaf.tmpl THEN tracked \cup {leaf.path} ELSE tracked

(* Mutant: a destination is tracked when its process has yet to move.      *)
MatchRowTrackingMoves(row) ==
    /\ pc = "match" /\ row \in rows
    /\ Placeable(row)
    /\ rows' = rows \ {row}
    /\ IF row.cgroup = Dest(loaded, row)
       THEN UNCHANGED <<pc, cur, tracked>>
       ELSE pc' = "check" /\ cur' = LeafSpec(row) /\ tracked' = Track(cur')
    /\ UNCHANGED <<procVars, treeVars, disk, mounted, loaded, unread, reapq,
                   victim, budget, history>>

MatchRow(row) ==
    /\ pc = "match" /\ row \in rows
    /\ Placeable(row)
    /\ tracked' = Track(LeafSpec(row))
    /\ rows' = rows \ {row}
    /\ IF row.cgroup = Dest(loaded, row)
       THEN UNCHANGED <<pc, cur>>
       ELSE pc' = "check" /\ cur' = LeafSpec(row)
    /\ UNCHANGED <<procVars, treeVars, disk, mounted, loaded, unread, reapq,
                   victim, budget, history>>

(* Mutant: starttime is not compared.                                      *)
SameProcessAnyStart(row) ==
    /\ Alive(row.pid)
    /\ proc[row.pid].user = row.user
    /\ proc[row.pid].comm = row.comm

(* still_same_process: uid, gid, comm and starttime, not the executable.   *)
SameProcess(row) ==
    /\ Alive(row.pid)
    /\ proc[row.pid].user = row.user
    /\ proc[row.pid].comm = row.comm
    /\ proc[row.pid].start = row.start

(* The row is done with: moved, vanished or failed.                        *)
NextRow == pc' = "match" /\ cur' = None /\ drift' = {}

Revalidate ==
    /\ pc = "check"
    /\ IF SameProcess(cur.row)
       THEN pc' = "open" /\ UNCHANGED <<cur, drift>>
       ELSE NextRow
    /\ UNCHANGED <<procVars, treeVars, disk, mounted, loaded, tracked, unread,
                   rows, reapq, victim, budget, made>>

-----------------------------------------------------------------------------
(* Cgroup::apply and Cgroup::attach.                                       *)

(* Mutant: only the leaf is made, not the ancestors walked through.        *)
OpenLeafOnly ==
    /\ pc = "open"
    /\ dirs' = dirs \cup {cur.path}
    /\ made' = IF cur.tmpl /\ cur.path \notin dirs
               THEN made \cup {cur.path} ELSE made
    /\ pc' = "perm"
    /\ UNCHANGED <<procVars, owner, subtree, disk, mounted, loaded, tracked,
                   unread, rows, cur, reapq, victim, budget, drift>>

(* open_dir_for_apply: walk to the leaf, making what is missing.           *)
Open ==
    /\ pc = "open"
    /\ MakeDirs(cur.path, RootUser)
    /\ made' = IF cur.tmpl /\ cur.path \notin dirs
               THEN made \cup {cur.path} ELSE made
    /\ pc' = "perm"
    /\ UNCHANGED <<procVars, disk, mounted, loaded, tracked, unread, rows,
                   cur, reapq, victim, budget, drift>>

(* The control files are opened by path: ENOENT when the directory went.   *)
SetOwner ==
    /\ pc = "perm"
    /\ IF cur.path \in dirs
       THEN /\ owner' = IF cur.task = "user"
                        THEN [owner EXCEPT ![cur.path] = cur.row.user]
                        ELSE owner
            /\ pc' = IF cur.controllers THEN "enable" ELSE "attach"
            /\ UNCHANGED <<cur, drift>>
       ELSE NextRow /\ UNCHANGED owner
    /\ UNCHANGED <<procVars, dirs, subtree, disk, mounted, loaded, tracked,
                   unread, rows, reapq, victim, budget, made>>

(* enable_subtree_control: ENOENT when gone or when the directory above    *)
(* offers no controllers, EBUSY when it has members.                       *)
Enable ==
    /\ pc = "enable"
    /\ IF CanEnable(cur.path)
       THEN /\ subtree' = subtree \cup {cur.path}
            /\ pc' = "attach"
            /\ UNCHANGED <<cur, drift>>
       ELSE NextRow /\ UNCHANGED subtree
    /\ UNCHANGED <<procVars, dirs, owner, disk, mounted, loaded, tracked,
                   unread, rows, reapq, victim, budget, made>>

(* The pid is written to cgroup.procs: ENOENT, ESRCH, EBUSY or a move of   *)
(* whichever process has the pid now.                                      *)
Attaches ==
    cur.path \in dirs /\ Alive(cur.row.pid) /\ AcceptsMembers(cur.path)

Attach ==
    /\ pc = "attach"
    /\ cg' = IF Attaches THEN [cg EXCEPT ![cur.row.pid] = cur.path] ELSE cg
    /\ NextRow
    /\ UNCHANGED <<proc, rt, clock, treeVars, disk, mounted, loaded, tracked,
                   unread, rows, reapq, victim, budget, made>>

(* Mutant: the test of --once is the wrong way round.                      *)
EndPassReapingOnce ==
    /\ pc = "match" /\ rows = {}
    /\ IF Once THEN pc' = "reap" /\ reapq' = tracked
               ELSE pc' = "sleep" /\ UNCHANGED reapq
    /\ UNCHANGED <<procVars, treeVars, disk, mounted, loaded, tracked, unread,
                   rows, cur, victim, budget, history>>

(* Mutant: --once reaps before it returns.                                 *)
EndPassAlwaysReaping ==
    /\ pc = "match" /\ rows = {}
    /\ pc' = "reap" /\ reapq' = tracked
    /\ UNCHANGED <<procVars, treeVars, disk, mounted, loaded, tracked, unread,
                   rows, cur, victim, budget, history>>

(* The pass is over; --once returns without reaping.                       *)
EndPass ==
    /\ pc = "match" /\ rows = {}
    /\ IF Once THEN pc' = "exit" /\ UNCHANGED reapq
               ELSE pc' = "reap" /\ reapq' = tracked
    /\ UNCHANGED <<procVars, treeVars, disk, mounted, loaded, tracked, unread,
                   rows, cur, victim, budget, history>>

-----------------------------------------------------------------------------
(* reap_idle_templates().                                                  *)

(* cgroup.procs is read; a file that cannot be read counts as empty.       *)
ReapRead(d) ==
    /\ pc = "reap" /\ d \in reapq
    /\ reapq' = reapq \ {d}
    /\ IF d \in dirs /\ Members(d) # {}
       THEN UNCHANGED <<pc, victim>>
       ELSE pc' = "rmdir" /\ victim' = d
    /\ UNCHANGED <<procVars, treeVars, disk, mounted, loaded, tracked, unread,
                   rows, cur, budget, history>>

(* Mutant: a destination is untracked whatever rmdir answered.             *)
ReapRmdirForgettingBusy ==
    /\ pc = "rmdir"
    /\ IF victim \in dirs /\ ~ Occupied(victim)
       THEN RemoveDir(victim) /\ made' = made \ {victim}
       ELSE UNCHANGED <<treeVars, made>>
    /\ tracked' = tracked \ {victim}
    /\ pc' = "reap" /\ victim' = None
    /\ UNCHANGED <<procVars, disk, mounted, loaded, unread, rows, cur, reapq,
                   budget, drift>>

(* delete_leaf: removed, already gone, or EBUSY (kept for the next pass).  *)
ReapRmdir ==
    /\ pc = "rmdir"
    /\ \/ /\ victim \in dirs /\ ~ Occupied(victim)
          /\ RemoveDir(victim)
          /\ tracked' = tracked \ {victim}
          /\ made' = made \ {victim}
       \/ /\ victim \notin dirs
          /\ tracked' = tracked \ {victim}
          /\ UNCHANGED <<treeVars, made>>
       \/ /\ victim \in dirs /\ Occupied(victim)
          /\ UNCHANGED <<treeVars, tracked, made>>
    /\ pc' = "reap" /\ victim' = None
    /\ UNCHANGED <<procVars, disk, mounted, loaded, unread, rows, cur, reapq,
                   budget, drift>>

EndReap ==
    /\ pc = "reap" /\ reapq = {}
    /\ pc' = "sleep"
    /\ UNCHANGED <<procVars, treeVars, disk, mounted, daemonVars, budget,
                   history>>

Wake ==
    /\ pc = "sleep"
    /\ pc' = "load"
    /\ UNCHANGED <<procVars, treeVars, disk, mounted, daemonVars, budget,
                   history>>

Daemon ==
    \/ LoadOk \/ LoadFail \/ DiscoverOk \/ DiscoverFail
    \/ \E p \in Pids : Gather(p)
    \/ \E row \in rows : SkipRow(row) \/ MatchRow(row)
    \/ Revalidate \/ Open \/ SetOwner \/ Enable \/ Attach \/ EndPass
    \/ \E d \in reapq : ReapRead(d)
    \/ ReapRmdir \/ EndReap \/ Wake

-----------------------------------------------------------------------------
(* The environment, bounded by MaxEvents.                                  *)

Event(kind) == kind \in Events /\ budget > 0 /\ budget' = budget - 1

NoDaemonStep == UNCHANGED <<pc, daemonVars, made>>

(* History: the identity of the process being applied changed after        *)
(* still_same_process, its scheduling after is_rt_task, or its destination *)
(* was removed or given to another account after leaf_spec looked.         *)
Drifts(what, hit) == drift' = IF hit THEN drift \cup {what} ELSE drift

ProcessEvent(p) ==
    /\ Event("process")
    /\ \/ \E u \in Users, n \in Names : Spawn(p, u, n)
       \/ \E q \in Pids : Fork(q, p)
       \/ Exit(p)
       \/ \E u \in Users, c, e \in Names : Reidentify(p, u, c, e)
    /\ Drifts("identity", pc \in Applying /\ cur.row.pid = p)
    /\ UNCHANGED <<treeVars, disk, mounted>> /\ NoDaemonStep

SchedEvent(p) ==
    /\ Event("sched")
    /\ Chrt(p)
    /\ Drifts("sched", pc \in InHand /\ cur.row.pid = p)
    /\ UNCHANGED <<treeVars, disk, mounted>> /\ NoDaemonStep

MkdirEvent(d, u) ==
    /\ Event("mkdir")
    /\ OtherMkdir(d, u)
    /\ UNCHANGED <<disk, mounted, drift>> /\ NoDaemonStep

RmdirEvent(d) ==
    /\ Event("rmdir")
    /\ OtherRmdir(d)
    /\ made' = made \ {d}
    /\ Drifts("target", pc \in InHand /\ cur.path = d)
    /\ UNCHANGED <<disk, mounted, pc, daemonVars>>

MoveEvent(p, d) ==
    /\ Event("move")
    /\ OtherMove(p, d)
    /\ UNCHANGED <<disk, mounted, drift>> /\ NoDaemonStep

ChownEvent(d, u) ==
    /\ Event("chown")
    /\ OtherChown(d, u)
    /\ Drifts("target", pc \in InHand /\ cur.path = d)
    /\ UNCHANGED <<disk, mounted>> /\ NoDaemonStep

EnableEvent(d) ==
    /\ Event("enable")
    /\ OtherEnable(d)
    /\ UNCHANGED <<disk, mounted, drift>> /\ NoDaemonStep

ConfigEvent(c) ==
    /\ Event("config")
    /\ disk' = c /\ c # disk
    /\ UNCHANGED <<procVars, treeVars, mounted, drift>> /\ NoDaemonStep

Unmount ==
    /\ Event("mount")
    /\ mounted /\ mounted' = FALSE
    /\ UNCHANGED <<procVars, treeVars, disk, drift>> /\ NoDaemonStep

Remount ==
    /\ ~ mounted /\ mounted' = TRUE
    /\ UNCHANGED <<procVars, treeVars, disk, budget, drift>> /\ NoDaemonStep

(* The daemon is killed: all it knew was in memory.                        *)
Crash ==
    /\ Event("crash")
    /\ pc \notin {"down", "exit"}
    /\ pc' = "down"
    /\ loaded' = None /\ tracked' = {} /\ unread' = {} /\ rows' = {}
    /\ cur' = None /\ reapq' = {} /\ victim' = None /\ drift' = {}
    /\ UNCHANGED <<procVars, treeVars, disk, mounted, made>>

Restart ==
    /\ pc = "down"
    /\ pc' = "load"
    /\ UNCHANGED <<procVars, treeVars, disk, mounted, daemonVars, budget,
                   history>>

Environment ==
    \/ \E p \in Pids : ProcessEvent(p) \/ SchedEvent(p)
    \/ \E d \in Paths, u \in Users \cup {RootUser} : MkdirEvent(d, u)
    \/ \E d \in Paths : RmdirEvent(d)
    \/ \E p \in Pids, d \in Paths \cup {Root} : MoveEvent(p, d)
    \/ \E d \in Paths, u \in Users \cup {RootUser} : ChownEvent(d, u)
    \/ \E d \in Paths : EnableEvent(d)
    \/ \E c \in Configs \cup {Invalid} : ConfigEvent(c)
    \/ Unmount \/ Remount \/ Crash \/ Restart

Exited == pc = "exit" /\ UNCHANGED vars

Next == Daemon \/ Environment \/ Exited

Spec == Init /\ [][Next]_vars

(* The loop never blocks for ever: every call it makes returns and the     *)
(* sleep ends.  A supervisor restarts a dead daemon and a mount comes back. *)
FairSpec == Spec /\ WF_vars(Daemon) /\ WF_vars(Restart) /\ WF_vars(Remount)
=============================================================================
