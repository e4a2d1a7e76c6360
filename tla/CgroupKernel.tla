---------------------------- MODULE CgroupKernel ----------------------------
(***************************************************************************)
(* The world cgrulesd acts on: the processes of /proc and the cgroup v2    *)
(* tree.  External to the repository; modelled from the calls the code     *)
(* makes (mkdirat, unlinkat(AT_REMOVEDIR), fchown, writes to cgroup.procs  *)
(* and cgroup.subtree_control) and the errors it distinguishes (ENOENT,    *)
(* ESRCH, EBUSY).                                                          *)
(***************************************************************************)
EXTENDS Policy

CONSTANTS
    Pids,       \* process identifiers, recycled by the kernel
    Root,       \* the hierarchy root cgroup
    RootUser,   \* the owner of what root creates
    Absent,     \* the process entry of a pid that is not in use
    Above       \* the proper ancestors of a path, the root left out

ASSUME KernelAssumption ==
    /\ Root \notin Paths
    /\ RootUser \notin Users
    /\ Absent \notin [user : Users, comm : Names, exe : Names, start : Nat]
    /\ Above \in [Paths -> SUBSET Paths]
    /\ \A d \in Paths : d \notin Above[d]
    /\ \A d \in Paths : \A a \in Above[d] : Above[a] \subseteq Above[d]

VARIABLES
    proc,       \* pid -> the process that has it; start is its starttime
    cg,         \* pid -> the cgroup the process is in
    rt,         \* the pids scheduled SCHED_FIFO or SCHED_RR
    clock,      \* the next starttime
    dirs,       \* the cgroup directories that exist
    owner,      \* path -> the owner of its cgroup.procs
    subtree     \* the directories with controllers in cgroup.subtree_control

procVars == <<proc, cg, rt, clock>>
treeVars == <<dirs, owner, subtree>>

Process == [user : Users, comm : Names, exe : Names, start : Nat]

KernelTypeOK ==
    /\ proc \in [Pids -> Process \cup {Absent}]
    /\ cg \in [Pids -> Paths \cup {Root}]
    /\ rt \subseteq Pids
    /\ clock \in Nat
    /\ dirs \subseteq Paths
    /\ owner \in [Paths -> Users \cup {RootUser}]
    /\ subtree \subseteq dirs
    /\ \A d \in dirs : Above[d] \subseteq dirs

Alive(p) == proc[p] # Absent

Members(d) == {p \in Pids : Alive(p) /\ cg[p] = d}

HasChild(d) == \E e \in dirs : d \in Above[e]

(* What makes rmdir answer EBUSY.                                          *)
Occupied(d) == Members(d) # {} \/ HasChild(d)

-----------------------------------------------------------------------------
(* Directory operations.                                                   *)

(* mkdir of a path and of every missing ancestor, owned by the caller.     *)
MakeDirs(d, u) ==
    /\ dirs' = dirs \cup Above[d] \cup {d}
    /\ owner' = [e \in Paths |->
                    IF e \in (Above[d] \cup {d}) \ dirs THEN u ELSE owner[e]]
    /\ UNCHANGED subtree

RemoveDir(d) ==
    /\ dirs' = dirs \ {d}
    /\ subtree' = subtree \ {d}
    /\ owner' = [owner EXCEPT ![d] = RootUser]

(* The no-internal-process rule: a cgroup that distributes controllers to  *)
(* its children takes no members.                                          *)
AcceptsMembers(d) == d \notin subtree

(* What subtree_control takes: controllers that every directory above      *)
(* offers (ENOENT), the root does, and no members beside them (EBUSY).     *)
CanEnable(d) == d \in dirs /\ Above[d] \subseteq subtree /\ Members(d) = {}

-----------------------------------------------------------------------------
(* What processes do by themselves.                                        *)

(* A login or a service start: a new process, reusing a free pid, placed   *)
(* by its parent in the root cgroup.                                       *)
Spawn(p, u, n) ==
    /\ ~ Alive(p)
    /\ proc' = [proc EXCEPT ![p] =
                  [user |-> u, comm |-> n, exe |-> n, start |-> clock]]
    /\ cg' = [cg EXCEPT ![p] = Root]
    /\ rt' = rt \ {p}
    /\ clock' = clock + 1

(* The child starts where its parent is, which may no longer be where the  *)
(* daemon saw the parent.                                                  *)
Fork(q, p) ==
    /\ Alive(q) /\ ~ Alive(p)
    /\ proc' = [proc EXCEPT ![p] = [proc[q] EXCEPT !.start = clock]]
    /\ cg' = [cg EXCEPT ![p] = cg[q]]
    /\ rt' = IF q \in rt THEN rt \cup {p} ELSE rt \ {p}
    /\ clock' = clock + 1

Exit(p) ==
    /\ Alive(p)
    /\ proc' = [proc EXCEPT ![p] = Absent]
    /\ cg' = [cg EXCEPT ![p] = Root]
    /\ rt' = rt \ {p}
    /\ UNCHANGED clock

(* execve, prctl(PR_SET_NAME) and setuid: the pid and starttime stay.      *)
Reidentify(p, u, c, e) ==
    /\ Alive(p)
    /\ \/ u = proc[p].user /\ c = e                           \* execve
       \/ u = proc[p].user /\ e = proc[p].exe                 \* prctl
       \/ u # proc[p].user /\ c = proc[p].comm /\ e = proc[p].exe
    /\ proc' = [proc EXCEPT ![p] =
                  [user |-> u, comm |-> c, exe |-> e, start |-> proc[p].start]]
    /\ proc' # proc
    /\ UNCHANGED <<cg, rt, clock>>

Chrt(p) ==
    /\ Alive(p)
    /\ rt' = IF p \in rt THEN rt \ {p} ELSE rt \cup {p}
    /\ UNCHANGED <<proc, cg, clock>>

-----------------------------------------------------------------------------
(* What other cgroup users do: an administrator with cgctl, a PAM session. *)

OtherMkdir(d, u) ==
    /\ d \notin dirs /\ Above[d] \subseteq dirs
    /\ MakeDirs(d, u)
    /\ UNCHANGED procVars

OtherRmdir(d) ==
    /\ d \in dirs /\ ~ Occupied(d)
    /\ RemoveDir(d)
    /\ UNCHANGED procVars

OtherMove(p, d) ==
    /\ Alive(p) /\ d \in dirs \cup {Root} /\ d # cg[p]
    /\ AcceptsMembers(d)
    /\ cg' = [cg EXCEPT ![p] = d]
    /\ UNCHANGED <<proc, rt, clock, dirs, owner, subtree>>

(* Cgroup::apply by others: the leaf and its control files are given away  *)
(* although it exists, and controllers are enabled in it.                  *)
OtherChown(d, u) ==
    /\ d \in dirs /\ owner[d] # u
    /\ owner' = [owner EXCEPT ![d] = u]
    /\ UNCHANGED <<procVars, dirs, subtree>>

OtherEnable(d) ==
    /\ CanEnable(d) /\ d \notin subtree
    /\ subtree' = subtree \cup {d}
    /\ UNCHANGED <<procVars, dirs, owner>>
=============================================================================
