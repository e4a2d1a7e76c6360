----------------------------- MODULE CgroupTree -----------------------------
(***************************************************************************)
(* The cgroup v2 tree as the file system the library cgfs sees: which      *)
(* directories exist, who owns them, their mode, their control files and   *)
(* their members.  External to the repository; modelled from the system    *)
(* calls cgfs makes and the errors it gets.                                *)
(*                                                                         *)
(* An open directory descriptor names an incarnation: a directory removed  *)
(* and made again under the same path is another directory.                *)
(***************************************************************************)
EXTENDS Naturals, Sequences, FiniteSets

CONSTANTS
    Paths,      \* cgroup paths below the hierarchy root
    Root,       \* the hierarchy root
    Parent,     \* path -> the directory it is in
    Walk,       \* path -> its prefixes, from the top one down to itself
    Owners,     \* accounts a file can be given to
    RootUser,   \* root, who owns what the callers make
    Pids,       \* processes to be placed
    Gone,       \* the cgroup of a process that has exited
    Umask       \* permissions mkdir(2) takes from the requested mode

Dirs == Paths \cup {Root}

(* The permissions of group and other on a directory; its owner has all.   *)
Permissions == {"write", "search"}

ControlFiles == {"cgroup.procs", "cgroup.subtree_control", "cgroup.threads"}

ASSUME TreeAssumption ==
    /\ IsFiniteSet(Paths)
    /\ Root \notin Paths /\ Gone \notin Dirs
    /\ Parent \in [Paths -> Dirs]
    /\ Walk \in [Paths -> Seq(Paths)]
    /\ \A p \in Paths :
        /\ Len(Walk[p]) > 0
        /\ Walk[p][Len(Walk[p])] = p
        /\ Parent[Walk[p][1]] = Root
        /\ \A i \in 1..(Len(Walk[p]) - 1) : Parent[Walk[p][i + 1]] = Walk[p][i]
        /\ \A i, j \in DOMAIN Walk[p] : Walk[p][i] = Walk[p][j] => i = j
        /\ Parent[p] # Root => Walk[p] = Append(Walk[Parent[p]], p)
    /\ RootUser \in Owners
    /\ Umask \subseteq Permissions

VARIABLES
    dirs,       \* directory -> its incarnation, 0 when there is none
    born,       \* the next incarnation
    attr,       \* path -> owner and mode of the directory, owner of its files
    subtree,    \* the directories whose subtree_control lists the controllers
    cg          \* process -> the cgroup it is in

treeVars == <<dirs, born, attr, subtree, cg>>

Attributes == [uid : Owners, mode : SUBSET Permissions,
               files : [ControlFiles -> Owners]]

AsMade(mode) == [uid |-> RootUser, mode |-> mode,
                 files |-> [f \in ControlFiles |-> RootUser]]

Exists(d) == dirs[d] # 0

(* The directory that a descriptor was opened on is still in the tree.     *)
Live(fd) == dirs[fd.dir] = fd.inc

Children(d) == {p \in Paths : Exists(p) /\ Parent[p] = d}

Members(d) == {q \in Pids : cg[q] = d}

(* p is d or is below it.                                                  *)
Under(p, d) == \E i \in DOMAIN Walk[p] : Walk[p][i] = d

TreeTypeOK ==
    /\ dirs \in [Dirs -> Nat]
    /\ born \in Nat \ {0}
    /\ attr \in [Paths -> Attributes]
    /\ subtree \subseteq {d \in Dirs : Exists(d)}
    /\ cg \in [Pids -> Dirs \cup {Gone}]
    /\ Exists(Root)
    /\ \A d \in Dirs : dirs[d] < born
    /\ \A p \in Paths : Exists(p) => Exists(Parent[p])
    /\ \A q \in Pids : cg[q] # Gone => Exists(cg[q])

-----------------------------------------------------------------------------
(* System calls that succeed.                                              *)

Mkdir(p, mode) ==
    /\ dirs' = [dirs EXCEPT ![p] = born]
    /\ born' = born + 1
    /\ attr' = [attr EXCEPT ![p] = AsMade(mode \ Umask)]
    /\ UNCHANGED <<subtree, cg>>

(* rmdir refuses, with EBUSY, a cgroup that has members or children.       *)
Removable(p) == Members(p) = {} /\ Children(p) = {}

Rmdir(p) ==
    /\ dirs' = [dirs EXCEPT ![p] = 0]
    /\ attr' = [attr EXCEPT ![p] = AsMade({})]
    /\ subtree' = subtree \ {p}
    /\ UNCHANGED <<born, cg>>

(* fchown and fchmod through a descriptor: no trace in the tree when the   *)
(* directory is no longer in it.                                           *)
Chown(fd, uid) ==
    /\ attr' = IF Live(fd) THEN [attr EXCEPT ![fd.dir].uid = uid] ELSE attr
    /\ UNCHANGED <<dirs, born, subtree, cg>>

Chmod(fd, mode) ==
    /\ attr' = IF Live(fd) THEN [attr EXCEPT ![fd.dir].mode = mode] ELSE attr
    /\ UNCHANGED <<dirs, born, subtree, cg>>

ChownControl(p, file, uid) ==
    /\ attr' = [attr EXCEPT ![p].files[file] = uid]
    /\ UNCHANGED <<dirs, born, subtree, cg>>

(* A cgroup offers its children the controllers its subtree_control lists; *)
(* one with members may not distribute any (EBUSY), one that distributes   *)
(* them takes no members (EBUSY).                                          *)
CanEnable(p) == Exists(p) /\ Parent[p] \in subtree /\ Members(p) = {}

Enable(p) ==
    /\ subtree' = subtree \cup {p}
    /\ UNCHANGED <<dirs, born, attr, cg>>

CanAttach(q, p) == Exists(p) /\ p \notin subtree /\ cg[q] # Gone

Attach(q, p) ==
    /\ cg' = [cg EXCEPT ![q] = p]
    /\ UNCHANGED <<dirs, born, attr, subtree>>

(* A process exits.                                                        *)
Exit(q) ==
    /\ cg[q] # Gone
    /\ cg' = [cg EXCEPT ![q] = Gone]
    /\ UNCHANGED <<dirs, born, attr, subtree>>
=============================================================================
