--------------------------- MODULE CgfsProperties ---------------------------
(***************************************************************************)
(* What cgfs promises its callers, alone and against each other.           *)
(***************************************************************************)
EXTENDS Cgfs

CallTypeOK ==
    /\ script \in [Callers -> Seq(Calls)]
    /\ \A c \in Callers : script[c] \in Scripts[c]
    /\ ip \in [Callers -> Nat \ {0}]
    /\ pc \in [Callers -> Locations]
    /\ \A c \in Callers : pc[c] # "done" => ip[c] \in DOMAIN script[c]
    /\ fd \in [Callers -> [dir : Dirs, inc : Nat \ {0}]]
    /\ level \in [Callers -> Nat \ {0}]
    /\ fresh \in [Callers -> BOOLEAN]
    /\ file \in [Callers -> 1..3]
    /\ pending \in [Callers -> Seq(Paths)]
    /\ order \in [Callers -> Seq(Paths)]
    /\ dead \subseteq Callers
    /\ hit \in [Callers -> SUBSET {"made", "changed", "removed"}]

(* The variables stay within their types, the tree is closed under         *)
(* parents, and no process is in a cgroup that does not exist.             *)
TypeOK == TreeTypeOK /\ CallTypeOK

(* What a caller at each location has at hand: TypeOK is not inductive     *)
(* without it.                                                             *)
Walking(c) ==
    /\ level[c] \in DOMAIN Walk[Call(c).path]
    /\ pc[c] # "chmod" => fd[c].dir = Parent[Child(c)]
    /\ pc[c] = "chmod" =>
         fd[c].dir = Child(c) /\ ~ AtLeaf(c) /\ Call(c).dperm # NoMode

AtHand(c) ==
    /\ pc[c] \in {"open", "make", "reopen", "chmod", "own", "mode",
                  "control", "enable"} => Call(c).kind = "apply"
    /\ pc[c] \in {"open", "make", "reopen", "chmod"} => Walking(c)
    /\ pc[c] \in {"own", "mode"} => fd[c].dir = Call(c).path
    /\ pc[c] = "mode" => Call(c).dperm # NoMode
    /\ pc[c] \in {"attach", "procs", "enter"} => Call(c).pid # NoPid
    /\ pc[c] = "attach" => Call(c).kind \in {"apply", "attach"}
    /\ pc[c] \in {"procs", "enter"} => Call(c).kind = "exec"
    /\ pc[c] = "enter" => fd[c].dir = Call(c).path
    /\ pc[c] = "list" => pending[c] # <<>> /\ Call(c).kind = "delete_tree"
    /\ pc[c] = "unlink" =>
         order[c] # <<>> /\ Call(c).kind \in {"delete_leaf", "delete_tree"}

TypeInv == TypeOK /\ \A c \in Callers : AtHand(c)

-----------------------------------------------------------------------------
(* Modes.                                                                  *)

(* Some caller asks for mode m on p itself.                                *)
Asked(p, m) ==
    \E c \in Callers : \E i \in DOMAIN script[c] :
        LET call == script[c][i]
        IN  call.kind = "apply" /\ call.path = p /\ call.dperm = m

(* A directory that group or others can write to is one some caller asked  *)
(* to be so, as a leaf: neither the walk of open_dir_for_apply nor a race  *)
(* of several gives an ancestor write bits (cgfs/README.md:37).  The       *)
(* callers' umask is assumed to take them from what mkdirat makes.         *)
AncestorsClosed ==
    \A p \in Paths :
        Exists(p) /\ "write" \in attr[p].mode
        => \E m \in SUBSET Permissions : "write" \in m /\ Asked(p, m)

(* A caller has yet to give p the mode it needs.                           *)
ModePending(c, p) ==
    \/ /\ pc[c] = "reopen" /\ Child(c) = p /\ Live(fd[c])
       /\ fresh[c] \/ AtLeaf(c)
    \/ /\ pc[c] = "chmod"
       /\ fd[c] = [dir |-> p, inc |-> dirs[p]]
    \/ /\ pc[c] \in {"own", "mode"} /\ Call(c).path = p
       /\ fd[c] = [dir |-> p, inc |-> dirs[p]]

(* Some caller makes p or what is below it without giving a mode, or asks  *)
(* for p to be closed.                                                     *)
NotMeantOpen(p) ==
    \E c \in Callers : \E i \in DOMAIN script[c] :
        LET call == script[c][i]
        IN  /\ call.kind = "apply"
            /\ \/ call.dperm = NoMode /\ Under(call.path, p)
               \/ call.dperm # NoMode /\ "search" \notin call.dperm
                  /\ call.path = p

(* Whatever the umask, a directory that others cannot search is on its way *)
(* to be opened, or a caller was killed there: the fchmod after mkdirat    *)
(* repairs what the umask took, however many walks meet on the path.       *)
Searchable ==
    \A p \in Paths :
        Exists(p) /\ "search" \notin attr[p].mode
        => NotMeantOpen(p) \/ \E c \in Callers : ModePending(c, p)

-----------------------------------------------------------------------------
(* Calls.                                                                  *)

(* The call c is in ends well.                                             *)
Returns(c) == ip'[c] = ip[c] + 1

Fails(c) == pc[c] # "failed" /\ pc'[c] = "failed"

(* The cgroup is as the LeafSpec says, and the process in it.              *)
Delivered(call) ==
    LET p == call.path IN
    /\ Exists(p)
    /\ call.pid # NoPid => cg[call.pid] = p
    /\ call.kind = "apply" =>
         /\ call.uid # Keep => attr[p].uid = call.uid
         /\ call.dperm # NoMode => attr[p].mode = call.dperm
         /\ \A f \in ControlFiles :
              FileOwner(call, f) # Keep => attr[p].files[f] = FileOwner(call, f)
         /\ call.controllers => p \in subtree

(* When apply reports success, all it was asked for is true of its leaf,   *)
(* whatever was there before, unless another caller removed the path or    *)
(* changed the leaf meanwhile: application is idempotent and re-applied to *)
(* an existing cgroup (cgfs/src/lib.rs:23-25), also by the calls a killed  *)
(* or a failed caller left half done.  A classify that succeeds has moved  *)
(* the process, and a command of cgctl exec runs in the cgroup its path    *)
(* names or not at all, whatever others do.                                *)
ApplyDelivers ==
    [][\A c \in Callers : \A i \in DOMAIN script[c] :
          /\ i = ip[c] /\ script[c][i].kind \in {"apply", "attach", "exec"}
          /\ Returns(c)
          /\ script[c][i].kind = "apply" =>
                hit[c] \cap {"changed", "removed"} = {}
          => Delivered(script[c][i])']_vars

(* The walk of apply fails only if somebody removed a directory on its     *)
(* path while it ran: several callers making the same directories at once  *)
(* all get through.                                                        *)
WalkersMeet ==
    [][\A c \in Callers :
          pc[c] \in {"open", "make", "reopen"} /\ Fails(c)
          => "removed" \in hit[c]]_vars

(* delete_tree leaves a tree behind only if somebody else made or removed  *)
(* a directory in it meanwhile, or has processes in it, or it is not       *)
(* there: the order of removal is always children first.                   *)
DeleteTreeCompletes ==
    [][\A c \in Callers :
          /\ Fails(c) /\ Call(c).kind = "delete_tree"
          /\ hit[c] \cap {"made", "removed"} = {}
          => \/ \E p \in Paths : Under(p, Call(c).path) /\ Members(p) # {}
             \/ ~ Exists(Call(c).path)]_vars

-----------------------------------------------------------------------------
(* What several callers leave behind.                                      *)

(* c is the only one that ever applies the path of its call i, and nobody  *)
(* deletes anything.                                                       *)
SoleApplier(c, i) ==
    \A b \in Callers : \A j \in DOMAIN script[b] :
        /\ script[b][j].kind \notin {"delete_leaf", "delete_tree"}
        /\ script[b][j].kind = "apply" /\ script[b][j].path = script[c][i].path
           => b = c /\ j = i

(* Call i of c has returned successfully.                                  *)
Applied(c, i) == script[c][i].kind = "apply" /\ i < ip[c]

(* The owner an apply gave its leaf stays, although others walk through    *)
(* the directory on the way to theirs: ancestors that exist are never      *)
(* re-owned because they were traversed (cgfs/src/hierarchy.rs:402-403).   *)
OwnersStand ==
    \A c \in Callers : \A i \in DOMAIN script[c] :
        Applied(c, i) /\ SoleApplier(c, i) /\ script[c][i].uid # Keep
        => attr[script[c][i].path].uid = script[c][i].uid

(* The same of the mode.  Not true: the walk that made the directory sets  *)
(* an ancestor's mode on it afterwards.                                    *)
ModesStand ==
    \A c \in Callers : \A i \in DOMAIN script[c] :
        Applied(c, i) /\ SoleApplier(c, i) /\ script[c][i].dperm # NoMode
        => attr[script[c][i].path].mode = script[c][i].dperm

(* A session whose configuration attaches it ends in the cgroup it names,  *)
(* if nobody interferes.  Not true of the example configuration on a fresh *)
(* tree: the directory made for users offers no controllers.               *)
LoginPlaced ==
    \A c \in Callers : \A i \in DOMAIN script[c] :
        LET call == script[c][i]
        IN  pc[c] \in {"done", "failed"} /\ call.pid # NoPid
            => cg[call.pid] \in {call.path, Gone}
=============================================================================
