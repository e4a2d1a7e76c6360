------------------------- MODULE SnapshotProperties -------------------------
(***************************************************************************)
(* What a snapshot of a changing tree is worth, what cgctl config makes of *)
(* a text, and that a text survives being read and written.                *)
(***************************************************************************)
EXTENDS Snapshot, ConfigTextProperties

Walk == tool \in {"snapshot", "ls"}

Found == IF tool = "ls" THEN groups
         ELSE [i \in DOMAIN groups |-> PathOf[groups[i].name]]

Complete == Walk /\ step \in {"render", "saved", "apply", "done"}

(* The cgroups p has been since the tool started.                          *)
Was(p) == seen[p] \ {Absent}
Stood(p) == Absent \notin seen[p]
StoodBelow(p) ==
    \A q \in Tree : q # base /\ Within(q, base) /\ Within(p, q) => Stood(q)

(* WalkFindsAll: a walk that completes has every cgroup below its base     *)
(* that stood with its ancestors from beginning to end, once, parents      *)
(* first, and nothing that never was, whatever else was made or removed    *)
(* meanwhile (walk, list_groups).                                          *)
WalkFindsAll ==
    Complete =>
        /\ \A p \in Tree : Within(p, base) /\ p # base /\ StoodBelow(p)
               => p \in ToSet(Found)
        /\ \A i \in DOMAIN Found :
              /\ Was(Found[i]) # {}
              /\ \A j \in 1 .. i - 1 : Found[j] # Found[i]
              /\ Parent(Found[i]) # base
                     => \E j \in 1 .. i - 1 : Found[j] = Parent(Found[i])

(* What a group says of the cgroup p is what p was at some time, or        *)
(* nothing if it was gone for a time.                                      *)
Named(word, uid) == \/ word = Numeral[uid]
                    \/ uid \in Accounts /\ word = LoginOf[uid]

PermAsSeen(perm, p) ==
    IF perm = NoVal
    THEN ~ Stood(p)
    ELSE /\ \E r \in Was(p) : /\ Named(perm.admin.uid, r.owner)
                              /\ perm.admin.dperm = Low[r.mode]
         /\ \E r \in Was(p) : Named(perm.task.uid, r.task)
         /\ \/ \E r \in Was(p) : perm.admin.fperm = Low[r.fmode]
            \/ perm.admin.fperm = NoVal /\ ~ Stood(p)

(* The parameters of a cgroup: control files of a single line that is_param *)
(* accepts.                                                                *)
HasParam(r, f) == f \notin Skipped /\ r.knobs[f] \notin Tables \cup {NoVal}
Knob(r, f)     == <<CtlOf[f], f, r.knobs[f]>>
Knobs(r)       == {Knob(r, f) : f \in {g \in ToSet(ControlFiles) : HasParam(r, g)}}

ParamsAsSeen(params, p) ==
    /\ \A i \in DOMAIN params : \E r \in Was(p) : params[i] \in Knobs(r)
    /\ \A i, j \in DOMAIN params : params[i][2] = params[j][2] => i = j
    /\ \A f \in ToSet(ControlFiles) :
          Stood(p) /\ (\A r \in Was(p) : HasParam(r, f))
              => \E i \in DOMAIN params : params[i][2] = f

AsSeen(n, p) ==
    /\ PermAsSeen(n.perm, p)
    /\ \/ \E r \in Was(p) : ToSet(n.controllers) = r.ctl
       \/ n.controllers = <<>> /\ ~ Stood(p)
    /\ ParamsAsSeen(n.params, p)

(* DescribedAsSeen: every value in a snapshot is one the cgroup had during *)
(* the walk, the owner and mode of the directory at one and the same time; *)
(* a perm section or the controllers are missing only for a cgroup that    *)
(* was gone for a time (describe's .ok() and unwrap_or_default hide just   *)
(* that).  Parameters are read one file after the other while they are     *)
(* written, and may be of different times: each is one its file had, once, *)
(* and none is missing that was there all the while; counters and gauges   *)
(* are never among them.                                                   *)
DescribedAsSeen ==
    Complete /\ tool = "snapshot" =>
        \A i \in DOMAIN groups : AsSeen(groups[i], PathOf[groups[i].name])

(* A cgroup the configuration syntax cannot say.                           *)
Unsayable(r) ==
    LET knobs == Knobs(r)
    IN  \/ (r.ctl \cup {k[1] : k \in knobs}) \cap (Special \cup Unwritable) # {}
        \/ (UNION {{k[2], k[3]} : k \in knobs}) \cap Unwritable # {}
        \/ {LoginOf[u] : u \in {r.owner, r.task} \cap Accounts} \cap Unwritable # {}

(* The directory in hand is gone: the base, or one that was removed after  *)
(* the walk had listed it.                                                 *)
Lost == ~ Exists(here) /\ (here = base \/ here \in lost)

(* The walk is over, and the syntax has no way to say what it found.       *)
Beyond(n) ==
    \/ n.name \in Unwritable
    \/ \E r \in Was(PathOf[n.name]) : Unsayable(r)

Inexpressible ==
    tool = "snapshot" /\ todo = <<>> /\ \E i \in DOMAIN groups : Beyond(groups[i])

(* SnapshotFailsForCause: snapshot and ls fail only when the directory     *)
(* they are at is the missing base or was removed after they had listed    *)
(* it, never because of a cgroup made, or a file changed, meanwhile; or    *)
(* when a group they describe has a name, an owner, a controller or a      *)
(* parameter that the syntax cannot represent ("provided every value is    *)
(* representable", display.rs).                                            *)
SnapshotFailsForCause ==
    Walk /\ step = "failed" /\ text = <<>> => Lost \/ Inexpressible

(* RestoreFaithful: a snapshot of the root of a tree nobody touched, given *)
(* to cgctl config after a reboot or right away, brings back every cgroup  *)
(* with its owners, modes and controllers, and no other, even below        *)
(* cgroups with processes; only the processes, the parameters and the      *)
(* setuid, setgid and sticky bits are lost ("Faithful to layout,           *)
(* ownership, modes, enabled controllers", snapshot.rs).                   *)
SameCore(c, r) ==
    /\ c.owner = r.owner /\ c.task = r.task /\ c.ctl = r.ctl
    /\ c.mode = Low[r.mode] /\ c.fmode = Low[r.fmode]

RestoreFaithful ==
    tool = "snapshot" /\ base = Root /\ changes = 0
    /\ step \in {"done", "failed"} /\ Display(Described) # Unwritten
    => /\ step = "done"
       /\ \A p \in Tree : /\ Exists(p) <=> Was(p) # {}
                          /\ \A r \in Was(p) : SameCore(tree[p], r)

-----------------------------------------------------------------------------
(* The declared groups, the root apart.                                    *)
Declared == {n \in ToSet(conf.groups) : n.name # "."}

(* The controllers p lists in the end or is declared to list.              *)
Offered(p) == (IF Exists(p) THEN tree[p].ctl ELSE {})
              \cup UNION {ToSet(n.controllers) :
                            n \in {m \in Declared : PathOf[m.name] = p}}

(* A file an administrator may expect to be applied in full: names,        *)
(* owners, modes and controllers the tool takes, offered from above, none  *)
(* of Domain for a cgroup with processes, and no group twice.              *)
Applicable ==
    \A n \in Declared :
        LET p    == PathOf[n.name]
            perm == EffectivePerm(conf, n)
        IN  /\ n.name \in DOMAIN PathOf /\ p \in Tree
            /\ Resolves(perm.task) /\ Resolves(perm.admin)
            /\ Valid(perm, ToSet(n.controllers))
            /\ ToSet(n.controllers) \subseteq Offered(Parent(p))
            /\ \A r \in Was(p) :
                  r.busy => ToSet(n.controllers) \cap Domain \subseteq r.ctl
            /\ \A m \in Declared : m.name = n.name => m = n

(* ConfigDelivers: left alone, cgctl config applies every group of such a  *)
(* file, in whatever order the file has them: controllers reach a child    *)
(* because its parent comes first ("Shallow-first so parents exist before  *)
(* children re-assert on them", main.rs), and no later group undoes the    *)
(* owner or mode of an earlier one.                                        *)
ConfigDelivers ==
    step \in {"done", "failed"} /\ conf # Unreadable /\ changes = 0
    /\ Applicable =>
        /\ step = "done"
        /\ \A n \in Declared :
              LET p    == PathOf[n.name]
                  perm == EffectivePerm(conf, n)
              IN  /\ Exists(p)
                  /\ tree[p] = Owned(tree[p], perm)
                  /\ ToSet(n.controllers) \subseteq tree[p].ctl

-----------------------------------------------------------------------------
(* DisplayedIsEqual: "parsing the output of Display yields an equal        *)
(* ConfigFile, provided every value is representable" (display.rs), of a   *)
(* file that Display does write.                                           *)
DisplayedIsEqual ==
    conf # Unreadable /\ Display(conf) # Unwritten => Parse(Display(conf)) = conf

(* RoundTrip: how far that goes.  Display refuses a file the parser        *)
(* accepted only for a controller block with a hash in its name; a file    *)
(* whose parameters are grouped by controller, none of them looking like   *)
(* owners, is read back as it was; and what cgctl snapshot printed is read *)
(* back as what it described, whatever was written to the tree meanwhile.  *)
RoundTrip ==
    conf # Unreadable =>
        /\ Display(conf) = Unwritten => BlockHeads(conf) \cap Hashed # {}
        /\ Display(conf) # Unwritten /\ Normal(conf) = conf
           /\ (\A n \in ToSet(conf.groups) \cup ToSet(conf.templates) :
                   ~ LooksLikeOwners(n))
               => Parse(Display(conf)) = conf
        /\ tool = "snapshot" => conf = Described
=============================================================================
