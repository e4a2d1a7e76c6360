--------------------------- MODULE SnapshotProofs ---------------------------
(***************************************************************************)
(* For every tree, every base and every change others make meanwhile: a    *)
(* walk finds all that stood, describes what it saw and fails for a cause. *)
(***************************************************************************)
EXTENDS ConfigTools, TextProofs

Describing == step \in {"meta", "procs", "controllers", "params", "read"}
Walking == Describing \/ step \in {"list", "next"}

(* The directories found so far, the one in hand included.                 *)
Visited == IF Describing THEN Append(Found, here) ELSE Found

Below == {p \in Tree : Within(p, base) /\ p # base}

-----------------------------------------------------------------------------
(* The inductive invariant of a walk.                                      *)

WalkTypeOK ==
    /\ base \in Nodes
    /\ step \in {"list", "next", "meta", "procs", "controllers", "params", "read",
                 "render", "saved", "apply", "done", "failed"}
    /\ tool = "ls" => step \in {"list", "next", "done", "failed"}
    /\ accounts \subseteq Accounts
    /\ DOMAIN seen = Nodes
    /\ \A p \in Tree : seen[p] \subseteq Cgroups \cup {Absent}
    /\ groups \in Seq(ToSet(groups))
    /\ Walking \/ step = "render" => text = <<>>
    /\ step = "render" => todo = <<>>

(* What stands now has been seen.                                          *)
TreeSeen == DOMAIN tree = Nodes /\ \A p \in Nodes : tree[p] \in seen[p]

(* What is found was there below the base, once, after its parent.         *)
ParentsFirst(s) ==
    \A i \in DOMAIN s :
        Parent(s[i]) # base => \E j \in 1..(i - 1) : s[j] = Parent(s[i])

FoundInOrder ==
    /\ Visited \in Seq(Below)
    /\ IsInjective(Visited)
    /\ \A p \in ToSet(Visited) : Was(p) # {}
    /\ ParentsFirst(Visited)

(* What is still to be visited lies right below a directory listed before, *)
(* and nothing found so far lies below the one that is listed next.        *)
TodoAhead ==
    /\ todo \in Seq(Below)
    /\ IsInjective(todo)
    /\ ToSet(todo) \cap ToSet(Visited) = {}
    /\ here \in {base} \cup ToSet(Visited)
    /\ \A p \in ToSet(todo) : /\ Was(p) # {}
                              /\ Parent(p) \in {base} \cup ToSet(Visited)
    /\ step # "next" => \A p \in ToSet(todo) \cup ToSet(Visited) : Parent(p) # here

(* Whatever stood right below a directory already listed is found.         *)
ListedWhole ==
    \A p \in Tree :
        /\ Stood(p)
        /\ Parent(p) \in {base} \cup ToSet(Visited)
        /\ step = "next" \/ Parent(p) # here
        => p \in ToSet(Visited) \cup ToSet(todo)

(* A directory listed that is no longer there was removed since.           *)
LossNoted ==
    \A p \in ToSet(todo) \cup {here} : Exists(p) \/ p \in lost \/ p = base

(* A control file's place in name order.                                   *)
Files == ToSet(ControlFiles)
Place == CHOOSE m \in [Files -> Nat] :
             \A i \in DOMAIN ControlFiles : m[ControlFiles[i]] = i

(* What describe may have read of p, nothing only if p was gone.           *)
Tasks(p) == {r.task : r \in Was(p)} \cup (IF Stood(p) THEN {} ELSE {NoVal})
Controls(p) == {r.ctl : r \in Was(p)} \cup (IF Stood(p) THEN {} ELSE {{}})
KnobsSeen(p) == UNION {Knobs(r) : r \in Was(p)}

(* The parameters k read of p, the files u still to read: each of a time   *)
(* p had it, in name order, and none left out that was there all along.    *)
FilesAscend(k, u) ==
    /\ \A i, j \in DOMAIN k : i < j => Place[k[i][2]] < Place[k[j][2]]
    /\ \A i, j \in DOMAIN u : i < j => Place[u[i]] < Place[u[j]]
    /\ \A i \in DOMAIN k, j \in DOMAIN u : Place[k[i][2]] < Place[u[j]]

NoneLeftOut(k, u, p) ==
    \A f \in Files :
        Stood(p) /\ (\A r \in Was(p) : HasParam(r, f))
            => f \in ToSet(u) \/ \E i \in DOMAIN k : k[i][2] = f

HalfRead(k, u, p) ==
    /\ k \in Seq(KnobsSeen(p)) /\ u \in Seq(Files \ Skipped)
    /\ FilesAscend(k, u)
    /\ NoneLeftOut(k, u, p)

PartAsSeen ==
    /\ step = "procs" => \E r \in Was(here) : part = <<r.owner, Low[r.mode]>>
    /\ step = "controllers" =>
           \E r \in Was(here), t \in Tasks(here) : part = <<r.owner, Low[r.mode], t>>
    /\ step = "params" =>
           \E r \in Was(here), t \in Tasks(here), c \in Controls(here) :
               part = <<r.owner, Low[r.mode], t, c>>
    /\ step = "read" =>
           \E r \in Was(here), t \in Tasks(here), c \in Controls(here),
              k \in Seq(KnobsSeen(here)) :
               part = <<r.owner, Low[r.mode], t, c, k>> /\ HalfRead(k, unread, here)

(* A group is a cgroup as it was seen, and can be written unless the       *)
(* cgroup is one the syntax cannot say.                                    *)
Describes(n, p) ==
    /\ n.name = NameOf[p]
    /\ AsSeen(n, p)
    /\ n.perm # NoVal => n.perm.task.fperm = NoVal
    /\ \/ WritableNode(n)
       \/ NameOf[p] \in Unwritable
       \/ \E r \in Was(p) : Unsayable(r)

GroupsAsSeen ==
    \A i \in DOMAIN groups : \E p \in Tree : Was(p) # {} /\ Describes(groups[i], p)

(* Nothing is applied of an empty text.                                    *)
NothingFromNothing == step = "apply" /\ text = <<>> => queue = <<>>

WalkInv ==
    Walk => /\ WalkTypeOK
            /\ step # "failed" => FoundInOrder
            /\ tool = "snapshot" => GroupsAsSeen
            /\ Walking => TreeSeen /\ TodoAhead /\ ListedWhole /\ PartAsSeen /\ LossNoted
            /\ NothingFromNothing
            /\ WalkFindsAll
            /\ SnapshotFailsForCause

-----------------------------------------------------------------------------
(* Cgroups.                                                                *)

LEMMA CgroupFacts ==
    ASSUME NEW r \in Cgroups
    PROVE  /\ IsFiniteSet(r.ctl) /\ r.ctl \subseteq Kernel
           /\ {r.owner, r.task} \subseteq DOMAIN Numeral
           /\ {r.mode, r.fmode, Low[r.mode], Low[r.fmode]} \subseteq Legal
           /\ Legal \subseteq DOMAIN Digits
<1>1. r \in CgroupRecords
  BY CgroupAssumption DEF AnyCgroups
<1>2. r.ctl \subseteq Kernel /\ IsFiniteSet(Kernel)
  BY <1>1, CgroupAssumption DEF CgroupRecords
<1>3. r.mode \in Legal /\ r.fmode \in Legal /\ {r.owner, r.task} \subseteq DOMAIN Numeral
  BY <1>1 DEF CgroupRecords
<1>4. QED  BY <1>2, <1>3, CgroupAssumption, FS_Subset

-----------------------------------------------------------------------------
(* Paths.                                                                  *)

LEMMA PathUp ==
    ASSUME NEW p \in Tree, NEW b \in Nodes
    PROVE  /\ Within(p, p)
           /\ Within(Parent(p), b) <=> Within(p, b) /\ p # b
           /\ Len(p) \in Nat /\ Len(p) >= 1 /\ Len(Parent(p)) = Len(p) - 1
<1>1. PICK S : S = ToSet(p) \cup ToSet(b)
  OBVIOUS
<1>2. p \in Seq(ToSet(p)) /\ b \in Seq(ToSet(b)) /\ p # <<>>
  <2>1. Root \in Seq(ToSet(Root))
    BY DEF Root
  <2>2. QED  BY <2>1, SnapshotAssumption DEF Nodes, Root
<1>3. p \in Seq(S) /\ b \in Seq(S)
  BY <1>1, <1>2
<1>4. Within(p, p)
  BY <1>3, PrefixPointwise DEF Within
<1>5. QED  BY <1>2, <1>3, <1>4, PrefixOfFront, FrontOfPath DEF Within, Parent

LEMMA UpFromBelow ==
    ASSUME NEW p \in Tree, base \in Nodes, Within(p, base), p # base, Parent(p) # base
    PROVE  Parent(p) \in Below
<1>1. Within(Parent(p), base) /\ Parent(p) \in Nodes
  BY PathUp, SnapshotAssumption
<1>2. Parent(p) # Root
  <2>1. SUFFICES ASSUME Parent(p) = Root, base # Root PROVE FALSE
    BY <1>1
  <2>2. base \in Seq(ToSet(base)) /\ base # <<>>
    BY <2>1, SnapshotAssumption DEF Nodes, Root
  <2>3. Len(base) <= Len(Root)
    BY <1>1, <2>1 DEF Within, IsPrefix
  <2>4. QED  BY <2>2, <2>3 DEF Root
<1>3. QED  BY <1>1, <1>2 DEF Below, Nodes

-----------------------------------------------------------------------------
(* Others only add to what has been seen.                                  *)

MoreSeen == /\ DOMAIN seen' = Nodes
            /\ \A p \in Nodes : seen[p] \subseteq seen'[p]

LEMMA SeenStaysSeen ==
    ASSUME MoreSeen, NEW p \in Nodes
    PROVE  /\ Was(p) \subseteq Was(p)'
           /\ Was(p) # {} => Was(p)' # {}
           /\ Stood(p)' => Stood(p)
           /\ Tasks(p) \subseteq Tasks(p)'
           /\ Controls(p) \subseteq Controls(p)'
           /\ KnobsSeen(p) \subseteq KnobsSeen(p)'
<1>1. Was(p) \subseteq Was(p)' /\ (Stood(p)' => Stood(p))
  BY DEF MoreSeen, Was, Stood
<1>2. Tasks(p) \subseteq Tasks(p)'
  BY <1>1 DEF Tasks
<1>3. Controls(p) \subseteq Controls(p)'
  BY <1>1 DEF Controls
<1>4. KnobsSeen(p) \subseteq KnobsSeen(p)'
  BY <1>1 DEF KnobsSeen
<1>5. QED  BY <1>1, <1>2, <1>3, <1>4

LEMMA HalfReadStays ==
    ASSUME MoreSeen, NEW p \in Nodes, NEW k, NEW u, HalfRead(k, u, p)
    PROVE  k \in Seq(KnobsSeen(p))' /\ HalfRead(k, u, p)'
<1>1. /\ Was(p) \subseteq Was(p)' /\ (Stood(p)' => Stood(p))
      /\ KnobsSeen(p) \subseteq KnobsSeen(p)'
  BY SeenStaysSeen
<1>2. k \in Seq(KnobsSeen(p)) /\ u \in Seq(Files \ Skipped) /\ FilesAscend(k, u)
  BY DEF HalfRead
<1>3. k \in Seq(KnobsSeen(p)')
  BY <1>1, <1>2
<1>4. NoneLeftOut(k, u, p)'
  BY <1>1 DEF HalfRead, NoneLeftOut
<1>5. QED  BY <1>2, <1>3, <1>4 DEF HalfRead

LEMMA DescribedStaysSeen ==
    ASSUME MoreSeen, NEW p \in Nodes, NEW n, Describes(n, p)
    PROVE  Describes(n, p)'
<1>1. Was(p) \subseteq Was(p)' /\ (Stood(p)' => Stood(p))
  BY SeenStaysSeen
<1>2. AsSeen(n, p) => AsSeen(n, p)'
  <2>1. PermAsSeen(n.perm, p) => PermAsSeen(n.perm, p)'
    BY <1>1 DEF PermAsSeen
  <2>2. ParamsAsSeen(n.params, p) => ParamsAsSeen(n.params, p)'
    BY <1>1 DEF ParamsAsSeen
  <2>3. QED  BY <1>1, <2>1, <2>2 DEF AsSeen
<1>3. QED  BY <1>1, <1>2 DEF Describes

(* A step of others, or of the tool once the walk is over, that leaves     *)
(* what the walk found alone.                                              *)
LEMMA FoundStaysFound ==
    ASSUME WalkInv, Walk, MoreSeen, UNCHANGED <<tool, base, groups>>
    PROVE  /\ tool = "snapshot" => GroupsAsSeen'
           /\ Walk' /\ Found' = Found
           /\ ToSet(groups)' = ToSet(groups)
           /\ \A p \in Tree : StoodBelow(p)' => StoodBelow(p)
           /\ Complete => WalkFindsAll'
<1>1. Walk' /\ Found' = Found /\ ToSet(groups)' = ToSet(groups)
  BY DEF Walk, Found
<1>2. \A p \in Tree : StoodBelow(p)' => StoodBelow(p)
  BY SeenStaysSeen DEF StoodBelow, Nodes
<1>3. ASSUME tool = "snapshot" PROVE GroupsAsSeen'
  <2>1. SUFFICES ASSUME NEW i \in DOMAIN groups
                 PROVE  \E p \in Tree : (Was(p) # {} /\ Describes(groups[i], p))'
    BY DEF GroupsAsSeen
  <2>2. PICK n : n = groups[i]
    OBVIOUS
  <2>3. PICK p \in Tree : Was(p) # {} /\ Describes(n, p)
    BY <1>3, <2>2 DEF WalkInv, GroupsAsSeen
  <2>4. (Was(p) # {})' /\ Describes(n, p)'
    BY <2>3, SeenStaysSeen, DescribedStaysSeen DEF Nodes
  <2>5. (groups[i] = n)'
    BY <2>2
  <2>6. QED  BY <2>4, <2>5 DEF Describes
<1>4. ASSUME Complete PROVE WalkFindsAll'
  <2>1. PICK f : f = Found
    OBVIOUS
  <2>2. /\ \A p \in Tree : Within(p, base) /\ p # base /\ StoodBelow(p) => p \in ToSet(f)
        /\ \A i \in DOMAIN f :
              /\ Was(f[i]) # {}
              /\ \A j \in 1 .. i - 1 : f[j] # f[i]
              /\ Parent(f[i]) # base => \E j \in 1 .. i - 1 : f[j] = Parent(f[i])
    BY <1>4, <2>1 DEF WalkInv, WalkFindsAll
  <2>3. \A i \in DOMAIN f : f[i] \in Nodes
    <3>1. step # "failed" /\ ~ Describing
      BY <1>4 DEF Complete, Describing
    <3>2. f \in Seq(Below)
      BY <2>1, <3>1 DEF WalkInv, FoundInOrder, Visited
    <3>3. QED  BY <3>2 DEF Below, Nodes
  <2>4. \A i \in DOMAIN f : Was(f[i])' # {}
    BY <2>2, <2>3, SeenStaysSeen
  <2>5. Found' = f
    BY <1>1, <2>1
  <2>6. \A p \in Tree : (Within(p, base) /\ p # base /\ StoodBelow(p))' => p \in ToSet(f)
    BY <1>2, <2>2
  <2>7. QED  BY <2>2, <2>4, <2>5, <2>6 DEF WalkFindsAll
<1>5. QED  BY <1>1, <1>2, <1>3, <1>4

(* What makes a walk fail stays so.                                        *)
LEMMA CauseStaysCause ==
    ASSUME MoreSeen, \A i \in DOMAIN groups : PathOf[groups[i].name] \in Nodes,
           UNCHANGED <<tool, base, todo, here, groups>>,
           (Lost /\ UNCHANGED <<tree, lost>>) \/ Inexpressible
    PROVE  Lost' \/ Inexpressible'
<1>1. CASE Lost /\ UNCHANGED <<tree, lost>>
  BY <1>1 DEF Lost, Exists
<1>2. CASE Inexpressible
  <2>1. PICK i \in DOMAIN groups : Beyond(groups[i])
    BY <1>2 DEF Inexpressible
  <2>2. PICK n : n = groups[i]
    OBVIOUS
  <2>3. Was(PathOf[n.name]) \subseteq Was(PathOf[n.name])'
    BY <2>2, SeenStaysSeen
  <2>4. Beyond(n)'
    BY <2>1, <2>2, <2>3 DEF Beyond
  <2>5. Beyond(groups[i])'
    BY <2>2, <2>4 DEF Beyond
  <2>6. QED  BY <1>2, <2>5 DEF Inexpressible
<1>3. QED  BY <1>1, <1>2

(* A group's name leads to a cgroup of the tree.                           *)
LEMMA GroupsInTree ==
    ASSUME WalkInv, Walk, tool = "snapshot"
    PROVE  \A i \in DOMAIN groups : PathOf[groups[i].name] \in Nodes
<1>1. GroupsAsSeen
  BY DEF WalkInv
<1>2. SUFFICES ASSUME NEW i \in DOMAIN groups PROVE PathOf[groups[i].name] \in Nodes
  OBVIOUS
<1>3. PICK p \in Tree : groups[i].name = NameOf[p]
  BY <1>1 DEF GroupsAsSeen, Describes
<1>4. QED  BY <1>3, SnapshotAssumption DEF Nodes

(* Others act: the tool stands still.                                      *)
LEMMA OthersKeepWalkInv ==
    ASSUME WalkInv, Walk, MoreSeen, UNCHANGED toolVars, accounts' \subseteq accounts,
           \A p \in Tree : seen'[p] \subseteq Cgroups \cup {Absent},
           Walking => TreeSeen' /\ LossNoted',
           step = "failed" => UNCHANGED <<tree, lost>>
    PROVE  WalkInv'
<1> USE DEF toolVars
<1>1. /\ WalkTypeOK /\ Walk' /\ Found' = Found /\ Visited' = Visited
      /\ Describing' = Describing /\ Walking' = Walking
  BY FoundStaysFound DEF WalkInv, Visited, Describing, Walking
<1>2. \A p \in Nodes : (Was(p) # {} => Was(p)' # {}) /\ (Stood(p)' => Stood(p))
  BY SeenStaysSeen
<1>3. base \in Nodes
  BY <1>1 DEF WalkTypeOK
<1>4. WalkTypeOK'
  <2>1. (DOMAIN seen = Nodes)' /\ accounts' \subseteq Accounts
    BY <1>1 DEF MoreSeen, WalkTypeOK
  <2>2. (groups \in Seq(ToSet(groups)))'
    BY <1>1 DEF WalkTypeOK
  <2>3. QED  BY <1>1, <2>1, <2>2 DEF WalkTypeOK
<1>5. Below' = Below
  BY DEF Below
<1>6. ASSUME FoundInOrder PROVE FoundInOrder'
  <2>1. PICK v : v = Visited
    OBVIOUS
  <2>2. /\ v \in Seq(Below) /\ IsInjective(v) /\ ParentsFirst(v)
        /\ \A p \in ToSet(v) : Was(p) # {}
    BY <1>6, <2>1 DEF FoundInOrder
  <2>3. \A p \in ToSet(v) : p \in Nodes
    BY <2>2 DEF ToSet, Below, Nodes
  <2>4. \A p \in ToSet(v) : Was(p)' # {}
    BY <1>2, <2>2, <2>3
  <2>5. ParentsFirst(v)'
    BY <2>2 DEF ParentsFirst
  <2>6. Visited' = v
    BY <1>1, <2>1
  <2>7. QED  BY <1>5, <2>2, <2>4, <2>5, <2>6 DEF FoundInOrder, ParentsFirst
<1>7. ASSUME TodoAhead PROVE TodoAhead'
  <2>1. \A p \in ToSet(todo) : p \in Nodes
    BY <1>7 DEF TodoAhead, ToSet, Below, Nodes
  <2>2. \A p \in ToSet(todo) : Was(p)' # {}
    BY <1>2, <1>7, <2>1 DEF TodoAhead
  <2>3. QED  BY <1>1, <1>5, <1>7, <2>2 DEF TodoAhead
<1>8. ASSUME ListedWhole PROVE ListedWhole'
  BY <1>1, <1>2, <1>8 DEF ListedWhole, Nodes
<1>9. ASSUME Describing, PartAsSeen, here \in Nodes PROVE PartAsSeen'
  <2>1. PICK p : p = here
    OBVIOUS
  <2>2. /\ Was(p) \subseteq Was(p)' /\ Tasks(p) \subseteq Tasks(p)'
        /\ Controls(p) \subseteq Controls(p)'
    BY <1>9, <2>1, SeenStaysSeen
  <2>3. (Was(here) = Was(p) /\ Tasks(here) = Tasks(p) /\ Controls(here) = Controls(p)
         /\ KnobsSeen(here) = KnobsSeen(p))'
    BY <2>1
  <2>4. CASE step # "read"
    BY <1>9, <2>1, <2>2, <2>3, <2>4 DEF PartAsSeen
  <2>5. CASE step = "read"
    <3>1. PICK r \in Was(p), t \in Tasks(p), c \in Controls(p), k \in Seq(KnobsSeen(p)) :
              part = <<r.owner, Low[r.mode], t, c, k>> /\ HalfRead(k, unread, p)
      BY <1>9, <2>1, <2>5 DEF PartAsSeen
    <3>2. PICK u : u = unread
      OBVIOUS
    <3>3. k \in Seq(KnobsSeen(p))' /\ HalfRead(k, u, p)'
      BY <1>9, <2>1, <3>1, <3>2, HalfReadStays
    <3>4. (HalfRead(k, unread, here) <=> HalfRead(k, u, p))'
      BY <2>1, <3>2
    <3>5. QED  BY <2>2, <2>3, <2>5, <3>1, <3>3, <3>4 DEF PartAsSeen
  <2>6. QED  BY <2>4, <2>5
<1>10. ~ Describing => PartAsSeen'
  BY DEF PartAsSeen, Describing
<1>11. Walking => here \in Nodes
  BY <1>3 DEF WalkInv, TodoAhead, FoundInOrder, Below, Nodes, ToSet, Walking, Describing
<1>12. NothingFromNothing'
  BY DEF WalkInv, NothingFromNothing
<1>13. WalkFindsAll'
  <2>1. CASE Complete
    BY <2>1, FoundStaysFound
  <2>2. CASE ~ Complete
    BY <2>2 DEF WalkFindsAll, Complete, Walk
  <2>3. QED  BY <2>1, <2>2
<1>14. SnapshotFailsForCause'
  <2>1. CASE step = "failed" /\ text = <<>>
    <3>1. Lost \/ Inexpressible
      BY <2>1 DEF WalkInv, SnapshotFailsForCause
    <3>2. CASE Lost
      BY <2>1, <3>2 DEF SnapshotFailsForCause, Lost, Exists
    <3>3. CASE Inexpressible
      <4>1. \A i \in DOMAIN groups : PathOf[groups[i].name] \in Nodes
        BY <3>3, GroupsInTree DEF Inexpressible
      <4>2. QED  BY <3>3, <4>1, CauseStaysCause DEF SnapshotFailsForCause
    <3>4. QED  BY <3>1, <3>2, <3>3
  <2>2. QED  BY <2>1 DEF SnapshotFailsForCause
<1>15. QED
  BY <1>1, <1>4, <1>6, <1>7, <1>8, <1>9, <1>10, <1>11, <1>12, <1>13, <1>14, FoundStaysFound
     DEF WalkInv

LEMMA ChangeKeepsWalkInv ==
    ASSUME WalkInv, Walk, NEW p \in Tree, NEW cgroup \in Others \cup {Absent}, Change(p, cgroup)
    PROVE  WalkInv'
<1>1. DOMAIN seen = Nodes /\ \A q \in Tree : seen[q] \subseteq Cgroups \cup {Absent}
  BY DEF WalkInv, WalkTypeOK
<1>2. MoreSeen
  BY <1>1 DEF MoreSeen, Change
<1>3. \A q \in Tree : seen'[q] \subseteq Cgroups \cup {Absent}
  BY <1>1 DEF Change, Cgroups
<1>4. ASSUME Walking PROVE TreeSeen'
  <2>1. TreeSeen
    BY <1>4 DEF WalkInv
  <2>2. QED  BY <1>1, <2>1 DEF TreeSeen, Change, Nodes
<1>5. UNCHANGED toolVars /\ accounts' = accounts /\ step # "failed"
  BY DEF Change, Running
<1>6. ASSUME Walking PROVE LossNoted'
  <2>1. /\ \A q \in ToSet(todo) \cup {here} : Exists(q) \/ q \in lost \/ q = base
        /\ DOMAIN tree = Nodes
    BY <1>6 DEF WalkInv, LossNoted, TreeSeen
  <2>2. /\ tree' = [tree EXCEPT ![p] = cgroup] /\ UNCHANGED <<todo, here, base>>
        /\ lost' = IF cgroup = Absent /\ p \in ToSet(todo) \cup {here}
                   THEN lost \cup {p} ELSE lost
    BY <1>5 DEF Change, toolVars
  <2>3. SUFFICES ASSUME NEW q \in ToSet(todo) \cup {here}, tree'[q] = Absent, q # base
                 PROVE  q \in lost'
    BY <2>2 DEF LossNoted, Exists
  <2>4. CASE q = p
    <3>1. CASE cgroup = Absent
      BY <2>2, <2>3, <2>4, <3>1
    <3>2. CASE cgroup # Absent
      BY <2>1, <2>2, <2>3, <2>4, <3>2 DEF Exists, Nodes
    <3>3. QED  BY <3>1, <3>2
  <2>5. CASE q # p
    BY <2>1, <2>2, <2>3, <2>5 DEF Exists
  <2>6. QED  BY <2>4, <2>5
<1>7. QED  BY <1>2, <1>3, <1>4, <1>5, <1>6, OthersKeepWalkInv

LEMMA OtherStepKeepsWalkInv ==
    ASSUME WalkInv, Walk, OtherStep
    PROVE  WalkInv'
<1>1. ASSUME NEW p \in Tree, NEW cgroup \in Others, OtherChange(p, cgroup) PROVE WalkInv'
  BY <1>1, ChangeKeepsWalkInv DEF OtherChange
<1>2. ASSUME NEW p \in Tree, OtherRmdir(p) PROVE WalkInv'
  BY <1>2, ChangeKeepsWalkInv DEF OtherRmdir
<1>3. ASSUME UNCHANGED <<seen, lost>>, UNCHANGED toolVars, accounts' \subseteq accounts,
             UNCHANGED tree \/ step = "saved"
      PROVE  WalkInv'
  <2>1. DOMAIN seen = Nodes /\ \A q \in Tree : seen[q] \subseteq Cgroups \cup {Absent}
    BY DEF WalkInv, WalkTypeOK
  <2>2. MoreSeen /\ \A q \in Tree : seen'[q] \subseteq Cgroups \cup {Absent}
    BY <1>3, <2>1 DEF MoreSeen
  <2>3. Walking => TreeSeen' /\ LossNoted'
    BY <1>3 DEF WalkInv, TreeSeen, LossNoted, Exists, Walking, Describing, toolVars
  <2>4. QED  BY <1>3, <2>2, <2>3, OthersKeepWalkInv
<1>4. ASSUME NEW u \in accounts, Userdel(u) PROVE WalkInv'
  BY <1>3, <1>4 DEF Userdel
<1>5. ASSUME Reboot PROVE WalkInv'
  BY <1>3, <1>5 DEF Reboot
<1>6. QED  BY <1>1, <1>2, <1>4, <1>5 DEF OtherStep

-----------------------------------------------------------------------------
(* The walk begins.                                                        *)

LEMMA StartsInWalkInv ==
    ASSUME SnapInit
    PROVE  WalkInv
<1> SUFFICES ASSUME Walk PROVE WalkInv
  BY DEF WalkInv
<1>1. /\ tool \in {"snapshot", "ls"} /\ step = "list" /\ base \in Bases /\ here = base
      /\ text = <<>> /\ todo = <<>> /\ groups = <<>> /\ queue = <<>>
      /\ tree \in Trees /\ accounts = Accounts /\ seen = [p \in Nodes |-> {tree[p]}]
  BY DEF SnapInit, Walk
<1>2. ToSet(<<>>) = {} /\ IsInjective(<<>>) /\ \A S : <<>> \in Seq(S)
  BY DEF ToSet, IsInjective
<1>3. Found = <<>>
  BY <1>1 DEF Found
<1>4. Visited = <<>> /\ Walking /\ ~ Describing
  BY <1>1, <1>3 DEF Visited, Describing, Walking
<1>5. WalkTypeOK
  <2>1. \A p \in Tree : tree[p] \in Cgroups \cup {Absent}
    BY <1>1 DEF Cgroups
  <2>2. \A p \in Tree : seen[p] \subseteq Cgroups \cup {Absent}
    BY <1>1, <2>1 DEF Nodes
  <2>3. base \in Nodes
    BY <1>1, SnapshotAssumption
  <2>4. QED  BY <1>1, <1>2, <2>2, <2>3 DEF WalkTypeOK
<1>6. TreeSeen
  BY <1>1, SnapshotAssumption DEF TreeSeen
<1>7. FoundInOrder
  BY <1>2, <1>4 DEF FoundInOrder, ParentsFirst
<1>8. TodoAhead /\ ListedWhole
  BY <1>1, <1>2, <1>4 DEF TodoAhead, ListedWhole
<1>9. PartAsSeen /\ NothingFromNothing /\ GroupsAsSeen
  BY <1>1 DEF PartAsSeen, NothingFromNothing, GroupsAsSeen
<1>10. WalkFindsAll /\ SnapshotFailsForCause /\ LossNoted
  BY <1>1, <1>2 DEF WalkFindsAll, Complete, SnapshotFailsForCause, LossNoted
<1>11. QED  BY <1>5, <1>6, <1>7, <1>8, <1>9, <1>10 DEF WalkInv

-----------------------------------------------------------------------------
(* The steps of the walk.                                                  *)

LEMMA SameSeen ==
    ASSUME WalkInv, Walk, UNCHANGED seen
    PROVE  /\ MoreSeen
           /\ \A p \in Tree : seen'[p] \subseteq Cgroups \cup {Absent}
           /\ \A p \in Nodes : Was(p)' = Was(p) /\ Stood(p)' = Stood(p)
BY DEF WalkInv, WalkTypeOK, MoreSeen, Was, Stood

LEMMA FailKeepsWalkInv ==
    ASSUME WalkInv, Walk, Fail, UNCHANGED <<accounts, seen>>,
           (Lost /\ UNCHANGED <<tree, lost>>) \/ Inexpressible \/ text # <<>>
    PROVE  WalkInv'
<1>1. MoreSeen /\ WalkTypeOK
  BY SameSeen DEF WalkInv
<1>2. step' = "failed" /\ UNCHANGED <<tool, base, todo, here, groups, text>>
  BY DEF Fail
<1>3. /\ tool = "snapshot" => GroupsAsSeen'
      /\ Walk' /\ ToSet(groups)' = ToSet(groups)
  BY <1>1, <1>2, FoundStaysFound
<1>4. WalkTypeOK'
  BY <1>1, <1>2, <1>3 DEF WalkTypeOK, Walking, Describing
<1>5. SnapshotFailsForCause'
  <2>1. CASE text # <<>>
    BY <1>2, <2>1 DEF SnapshotFailsForCause
  <2>2. CASE Lost /\ UNCHANGED <<tree, lost>>
    BY <1>2, <2>2 DEF SnapshotFailsForCause, Lost, Exists
  <2>3. CASE Inexpressible
    <3>1. \A i \in DOMAIN groups : PathOf[groups[i].name] \in Nodes
      BY <2>3, GroupsInTree DEF Inexpressible
    <3>2. QED  BY <1>1, <1>2, <2>3, <3>1, CauseStaysCause DEF SnapshotFailsForCause
  <2>4. QED  BY <2>1, <2>2, <2>3
<1>6. NothingFromNothing' /\ WalkFindsAll'
  BY <1>2 DEF NothingFromNothing, WalkFindsAll, Complete
<1>7. QED
  BY <1>2, <1>3, <1>4, <1>5, <1>6 DEF WalkInv, Walking, Describing

LEMMA HereIsKnown ==
    ASSUME WalkInv, Walk, Walking
    PROVE  /\ here \in Nodes /\ Within(here, base)
           /\ here = base \/ (here \in Tree /\ here \in ToSet(Visited) /\ Was(here) # {})
           /\ ~ Exists(here) => Lost /\ ~ Stood(here)
<1>1. /\ base \in Nodes /\ Visited \in Seq(Below) /\ here \in {base} \cup ToSet(Visited)
      /\ TreeSeen /\ LossNoted /\ \A p \in ToSet(Visited) : Was(p) # {}
  BY DEF WalkInv, WalkTypeOK, FoundInOrder, TodoAhead, Walking, Describing
<1>2. Within(base, base)
  <2>1. base \in Seq(ToSet(base))
    <3>1. Root \in Seq(ToSet(Root))
      BY DEF Root
    <3>2. QED  BY <1>1, <3>1, SnapshotAssumption DEF Nodes
  <2>2. QED  BY <2>1, PrefixPointwise DEF Within
<1>3. ToSet(Visited) \subseteq Below
  BY <1>1 DEF ToSet
<1>4. /\ here \in Nodes /\ Within(here, base)
      /\ here = base \/ (here \in Tree /\ here \in ToSet(Visited) /\ Was(here) # {})
  BY <1>1, <1>2, <1>3 DEF Below, Nodes
<1>5. ASSUME ~ Exists(here) PROVE Lost /\ ~ Stood(here)
  <2>1. Absent \in seen[here]
    BY <1>1, <1>4, <1>5 DEF TreeSeen, Exists
  <2>2. here \in lost \/ here = base
    BY <1>1, <1>5 DEF LossNoted
  <2>3. QED  BY <1>5, <2>1, <2>2 DEF Lost, Stood
<1>6. QED  BY <1>4, <1>5

LEMMA ChildrenAreBelow ==
    ASSUME WalkInv, Walk, step = "list", NEW C, C = ChildrenOf(tree, here)
    PROVE  /\ C \subseteq Below /\ IsFiniteSet(C)
           /\ \A q \in C : Was(q) # {} /\ Parent(q) = here
           /\ \A q \in Tree : Parent(q) = here /\ Stood(q) => q \in C
<1>1. /\ TreeSeen /\ base \in Nodes /\ here \in Nodes /\ Within(here, base)
  BY HereIsKnown DEF WalkInv, WalkTypeOK, Walking
<1>2. C \subseteq Tree /\ IsFiniteSet(C)
  BY SnapshotAssumption, FS_Subset DEF ChildrenOf
<1>3. \A q \in C : Was(q) # {} /\ Parent(q) = here
  BY <1>1 DEF ChildrenOf, TreeSeen, Nodes, Was
<1>4. \A q \in C : Within(q, base) /\ q # base
  BY <1>1, <1>2, <1>3, PathUp
<1>5. \A q \in Tree : Parent(q) = here /\ Stood(q) => q \in C
  BY <1>1 DEF ChildrenOf, TreeSeen, Nodes, Stood
<1>6. QED  BY <1>2, <1>3, <1>4, <1>5 DEF Below

LEMMA WalkGoesOn ==
    ASSUME WalkInv, Walk, Walking, UNCHANGED <<tool, base, text, worldVars>>,
           Walking', tool = "ls" => step' \in {"list", "next"},
           (groups \in Seq(ToSet(groups)))', tool = "snapshot" => GroupsAsSeen',
           FoundInOrder', TodoAhead', ListedWhole', PartAsSeen',
           \A p \in (ToSet(todo) \cup {here})' :
               p \in ToSet(todo) \cup {here} \/ Exists(p)
    PROVE  WalkInv'
<1>1. WalkTypeOK /\ TreeSeen /\ LossNoted
  BY DEF WalkInv
<1>2. WalkTypeOK'
  BY <1>1 DEF WalkTypeOK, worldVars, Walking, Describing
<1>3. TreeSeen' /\ LossNoted'
  BY <1>1 DEF TreeSeen, LossNoted, Exists, worldVars
<1>4. step' \notin {"failed", "apply", "render", "saved", "done"}
  BY DEF Walking, Describing
<1>5. NothingFromNothing' /\ WalkFindsAll' /\ SnapshotFailsForCause'
  BY <1>4 DEF NothingFromNothing, WalkFindsAll, Complete, SnapshotFailsForCause
<1>6. QED  BY <1>2, <1>3, <1>5 DEF WalkInv

(* What the parts of the invariant say of every step of the walk.          *)
LEMMA WalkFacts ==
    ASSUME WalkInv, Walk, Walking
    PROVE  /\ WalkTypeOK /\ FoundInOrder /\ TreeSeen /\ TodoAhead /\ ListedWhole /\ PartAsSeen
           /\ tool = "snapshot" => GroupsAsSeen
           /\ ToSet(Visited) \subseteq Below /\ ToSet(todo) \subseteq Below
<1>1. /\ WalkTypeOK /\ FoundInOrder /\ TreeSeen /\ TodoAhead /\ ListedWhole /\ PartAsSeen
      /\ tool = "snapshot" => GroupsAsSeen
  BY DEF WalkInv, Walking, Describing
<1>2. Visited \in Seq(Below) /\ todo \in Seq(Below)
  BY <1>1 DEF FoundInOrder, TodoAhead
<1>3. QED  BY <1>1, <1>2 DEF ToSet

LEMMA ListKeepsWalkInv ==
    ASSUME WalkInv, Walk, List
    PROVE  WalkInv'
<1>1. Walking /\ ~ Describing /\ step = "list" /\ UNCHANGED worldVars
  BY DEF List, Walking, Describing
<1>2. CASE ~ Exists(here)
  <2>1. Fail /\ Lost
    BY <1>1, <1>2, HereIsKnown DEF List
  <2>2. QED  BY <1>1, <2>1, FailKeepsWalkInv DEF worldVars
<1>3. CASE Exists(here)
  <2>1. PICK C : C = ChildrenOf(tree, here)
    OBVIOUS
  <2>2. PICK s : s = Sorted(C)
    OBVIOUS
  <2>3. /\ todo' = s \o todo /\ step' = "next"
        /\ UNCHANGED <<tool, base, here, part, groups, text>>
    BY <1>3, <2>1, <2>2 DEF List
  <2>4. /\ FoundInOrder /\ TodoAhead /\ ListedWhole /\ WalkTypeOK
        /\ tool = "snapshot" => GroupsAsSeen
        /\ ToSet(Visited) \subseteq Below /\ ToSet(todo) \subseteq Below
    BY <1>1, WalkFacts
  <2>5. /\ C \subseteq Below /\ IsFiniteSet(C)
        /\ \A q \in C : Was(q) # {} /\ Parent(q) = here
        /\ \A q \in Tree : Parent(q) = here /\ Stood(q) => q \in C
    BY <1>1, <2>1, ChildrenAreBelow
  <2>6. s \in Seq(C) /\ ToSet(s) = C /\ IsInjective(s)
    BY <2>2, <2>5, ElementsOfSet DEF Sorted
  <2>7. s \in Seq(Below) /\ todo \in Seq(Below) /\ IsInjective(todo)
    BY <2>4, <2>5, <2>6 DEF TodoAhead
  <2>8. ToSet(s) \cap (ToSet(todo) \cup ToSet(Visited)) = {}
    BY <1>1, <2>4, <2>5, <2>6 DEF TodoAhead
  <2>9. /\ todo' \in Seq(Below) /\ ToSet(todo') = C \cup ToSet(todo) /\ IsInjective(todo')
    BY <2>3, <2>6, <2>7, <2>8, ElementsOfJoin
  <2>10. /\ Found' = Found /\ Visited' = Visited /\ Walking' /\ ~ Describing'
         /\ Below' = Below
    BY <1>1, <2>3 DEF Found, Visited, Walking, Describing, Below
  <2>11. MoreSeen /\ \A p \in Nodes : Was(p)' = Was(p) /\ Stood(p)' = Stood(p)
    BY <1>1, SameSeen DEF worldVars
  <2>12. Below \subseteq Nodes
    BY DEF Below, Nodes
  <2>13. \A p \in ToSet(todo') \cup ToSet(Visited) : Was(p)' # {}
    <3>1. \A p \in ToSet(todo') \cup ToSet(Visited) : Was(p) # {} /\ p \in Nodes
      BY <2>4, <2>5, <2>9, <2>12 DEF TodoAhead, FoundInOrder
    <3>2. QED  BY <2>11, <3>1
  <2>14. FoundInOrder'
    BY <2>3, <2>4, <2>10, <2>13 DEF FoundInOrder, ParentsFirst
  <2>15. TodoAhead'
    <3>1. \A p \in ToSet(todo') : Parent(p) \in {base} \cup ToSet(Visited)
      BY <2>4, <2>5, <2>9 DEF TodoAhead
    <3>2. ToSet(todo') \cap ToSet(Visited) = {}
      BY <2>4, <2>6, <2>8, <2>9 DEF TodoAhead
    <3>3. here \in {base} \cup ToSet(Visited)
      BY <2>4 DEF TodoAhead
    <3>4. QED  BY <2>3, <2>9, <2>10, <2>13, <3>1, <3>2, <3>3 DEF TodoAhead
  <2>16. ListedWhole'
    <3>1. SUFFICES ASSUME NEW p \in Tree, Stood(p),
                          Parent(p) \in {base} \cup ToSet(Visited)
                   PROVE  p \in ToSet(Visited) \cup ToSet(todo')
      BY <2>3, <2>10, <2>11 DEF ListedWhole, Nodes
    <3>2. CASE Parent(p) = here
      BY <2>5, <2>9, <3>1, <3>2
    <3>3. CASE Parent(p) # here
      BY <2>4, <2>9, <3>1, <3>3 DEF ListedWhole
    <3>4. QED  BY <3>2, <3>3
  <2>17. PartAsSeen'
    BY <2>3 DEF PartAsSeen
  <2>18. /\ tool = "snapshot" => GroupsAsSeen'
         /\ (groups \in Seq(ToSet(groups)))'
    <3>1. tool = "snapshot" => GroupsAsSeen'
      BY <2>3, <2>11, FoundStaysFound
    <3>2. QED  BY <2>3, <2>4, <3>1 DEF WalkTypeOK
  <2>19. \A p \in (ToSet(todo) \cup {here})' :
             p \in ToSet(todo) \cup {here} \/ Exists(p)
    BY <2>1, <2>3, <2>9 DEF ChildrenOf, Exists
  <2>20. QED
    BY <1>1, <2>3, <2>10, <2>14, <2>15, <2>16, <2>17, <2>18, <2>19, WalkGoesOn
<1>4. QED  BY <1>2, <1>3

LEMMA VisitKeepsWalkInv ==
    ASSUME WalkInv, Walk, Visit
    PROVE  WalkInv'
<1>1. /\ Walking /\ ~ Describing /\ step = "next" /\ todo # <<>>
      /\ UNCHANGED <<tool, base, part, text, worldVars>>
  BY DEF Visit, Walking, Describing
<1>2. PICK h : h = Head(todo)
  OBVIOUS
<1>3. /\ here' = h /\ todo' = Tail(todo)
      /\ \/ tool = "ls" /\ groups' = Append(groups, h) /\ step' = "list"
         \/ tool = "snapshot" /\ groups' = groups /\ step' = "meta"
  BY <1>2 DEF Visit, Walk
<1>4. /\ FoundInOrder /\ TodoAhead /\ ListedWhole /\ WalkTypeOK
      /\ tool = "snapshot" => GroupsAsSeen
      /\ ToSet(Visited) \subseteq Below /\ ToSet(todo) \subseteq Below
  BY <1>1, WalkFacts
<1>5. PICK v : v = Visited
  OBVIOUS
<1>6. v \in Seq(Below) /\ todo \in Seq(Below)
  BY <1>4, <1>5 DEF FoundInOrder, TodoAhead
<1>7. /\ h \in Below /\ Tail(todo) \in Seq(Below) /\ h \in ToSet(todo)
      /\ ToSet(todo) = {h} \cup ToSet(Tail(todo))
      /\ IsInjective(Tail(todo)) /\ h \notin ToSet(Tail(todo))
  BY <1>1, <1>2, <1>4, <1>6, ElementsOfRest DEF TodoAhead
<1>8. Visited' = Append(v, h)
  <2>1. CASE tool = "ls"
    BY <1>1, <1>3, <1>5, <2>1 DEF Visited, Found, Describing
  <2>2. CASE tool = "snapshot"
    BY <1>1, <1>3, <1>5, <2>2 DEF Visited, Found, Describing
  <2>3. QED  BY <1>3, <2>1, <2>2
<1>9. PICK w : w = Append(v, h)
  OBVIOUS
<1>10. /\ w \in Seq(Below) /\ ToSet(w) = ToSet(v) \cup {h} /\ Len(w) = Len(v) + 1
       /\ w[Len(v) + 1] = h /\ \A i \in 1..Len(v) : w[i] = v[i]
       /\ Len(v) \in Nat /\ DOMAIN v = 1..Len(v) /\ DOMAIN w = 1..(Len(v) + 1)
  BY <1>6, <1>7, <1>9, ElementsOfAppend
<1>11. /\ h \notin ToSet(v) /\ Was(h) # {} /\ Parent(h) \in {base} \cup ToSet(v)
       /\ h # base
  BY <1>4, <1>5, <1>7 DEF TodoAhead, Below
<1>12. \A p \in Nodes : Was(p)' = Was(p) /\ Stood(p)' = Stood(p)
  BY <1>1, SameSeen DEF worldVars
<1>13. Below' = Below /\ Walking' /\ Below \subseteq Nodes
  BY <1>1, <1>3 DEF Below, Walking, Describing, Nodes
<1>14. IsInjective(w)
  <2>1. SUFFICES ASSUME NEW i \in 1..(Len(v) + 1), NEW j \in 1..(Len(v) + 1), w[i] = w[j]
                 PROVE  i = j
    BY <1>10 DEF IsInjective
  <2>2. \A k \in 1..(Len(v) + 1) : k \in 1..Len(v) \/ k = Len(v) + 1
    BY <1>10
  <2>3. \A k \in 1..Len(v) : w[k] # h
    BY <1>10, <1>11 DEF ToSet
  <2>4. \A a, b \in 1..Len(v) : v[a] = v[b] => a = b
    BY <1>4, <1>5, <1>10 DEF FoundInOrder, IsInjective
  <2>5. QED  BY <1>10, <2>1, <2>2, <2>3, <2>4
<1>15. \A i \in 1..(Len(v) + 1) :
           Parent(w[i]) # base => \E j \in 1..(i - 1) : w[j] = Parent(w[i])
  <2>1. SUFFICES ASSUME NEW i \in 1..(Len(v) + 1), Parent(w[i]) # base
                 PROVE  \E j \in 1..(i - 1) : w[j] = Parent(w[i])
    OBVIOUS
  <2>2. CASE i \in 1..Len(v)
    <3>1. PICK j \in 1..(i - 1) : v[j] = Parent(v[i])
      BY <1>4, <1>5, <1>10, <2>1, <2>2 DEF FoundInOrder, ParentsFirst
    <3>2. j \in 1..Len(v)
      BY <1>10, <2>2
    <3>3. QED  BY <1>10, <2>2, <3>1, <3>2
  <2>3. CASE i = Len(v) + 1
    <3>1. PICK j \in 1..Len(v) : v[j] = Parent(h)
      BY <1>10, <1>11, <2>1, <2>3 DEF ToSet
    <3>2. j \in 1..(i - 1)
      BY <1>10, <2>3
    <3>3. QED  BY <1>10, <2>3, <3>1, <3>2
  <2>4. QED  BY <1>10, <2>2, <2>3
<1>16. FoundInOrder'
  <2>1. \A p \in ToSet(w) : Was(p)' # {}
    BY <1>4, <1>5, <1>7, <1>10, <1>11, <1>12, <1>13 DEF FoundInOrder
  <2>2. Visited' = w
    BY <1>8, <1>9
  <2>3. ParentsFirst(w)'
    BY <1>1, <1>10, <1>15 DEF ParentsFirst
  <2>4. ParentsFirst(Visited)'
    BY <2>2, <2>3 DEF ParentsFirst
  <2>5. QED  BY <1>10, <1>13, <1>14, <2>1, <2>2, <2>4 DEF FoundInOrder
<1>17. TodoAhead'
  <2>1. \A p \in ToSet(todo') : Was(p)' # {} /\ Parent(p) \in {base} \cup ToSet(w)
    BY <1>3, <1>4, <1>5, <1>7, <1>10, <1>12, <1>13 DEF TodoAhead
  <2>2. ToSet(todo') \cap ToSet(w) = {} /\ h \in ToSet(w)
    BY <1>3, <1>4, <1>5, <1>7, <1>10 DEF TodoAhead
  <2>3. \A p \in ToSet(v) : Parent(p) \in {base} \cup ToSet(v)
    <3>1. SUFFICES ASSUME NEW i \in 1..Len(v), Parent(v[i]) # base
                   PROVE  Parent(v[i]) \in ToSet(v)
      BY <1>10 DEF ToSet
    <3>2. PICK j \in 1..(i - 1) : v[j] = Parent(v[i])
      BY <1>4, <1>5, <1>10, <3>1 DEF FoundInOrder, ParentsFirst
    <3>3. j \in 1..Len(v)
      BY <1>10
    <3>4. QED  BY <1>10, <3>2, <3>3 DEF ToSet
  <2>4. \A p \in ToSet(todo) : Parent(p) \in {base} \cup ToSet(v)
    BY <1>4, <1>5 DEF TodoAhead
  <2>5. \A p \in ToSet(todo') \cup ToSet(w) : Parent(p) # h
    BY <1>3, <1>7, <1>10, <1>11, <2>3, <2>4
  <2>6. Visited' = w
    BY <1>8, <1>9
  <2>7. QED  BY <1>1, <1>3, <1>7, <1>13, <2>1, <2>2, <2>5, <2>6 DEF TodoAhead
<1>18. ListedWhole'
  <2>1. SUFFICES ASSUME NEW p \in Tree, Stood(p), Parent(p) \in {base} \cup ToSet(w),
                        Parent(p) # h
                 PROVE  p \in ToSet(w) \cup ToSet(Tail(todo))
    BY <1>1, <1>3, <1>8, <1>9, <1>12 DEF ListedWhole, Nodes
  <2>2. p \in ToSet(v) \cup ToSet(todo)
    BY <1>1, <1>4, <1>5, <1>10, <2>1 DEF ListedWhole
  <2>3. QED  BY <1>7, <1>10, <2>2
<1>19. PartAsSeen'
  BY <1>3 DEF PartAsSeen
<1>20. (groups \in Seq(ToSet(groups)))'
  <2>1. CASE groups' = groups
    BY <1>4, <2>1 DEF WalkTypeOK
  <2>2. CASE groups' = Append(groups, h)
    <3>1. PICK A : A = ToSet(groups) \cup {h}
      OBVIOUS
    <3>2. groups \in Seq(A) /\ h \in A
      BY <1>4, <3>1 DEF WalkTypeOK
    <3>3. Append(groups, h) \in Seq(A) /\ ToSet(Append(groups, h)) = A
      BY <3>1, <3>2, ElementsOfAppend
    <3>4. QED  BY <2>2, <3>3
  <2>3. QED  BY <1>3, <2>1, <2>2
<1>21. tool = "snapshot" => GroupsAsSeen'
  <2>1. MoreSeen
    BY <1>1, SameSeen DEF worldVars
  <2>2. QED  BY <1>1, <1>3, <2>1, FoundStaysFound
<1>22. \A p \in (ToSet(todo) \cup {here})' : p \in ToSet(todo)
  BY <1>3, <1>7
<1>23. QED
  BY <1>1, <1>3, <1>13, <1>16, <1>17, <1>18, <1>19, <1>20, <1>21, <1>22, WalkGoesOn

(* With nothing left to visit, what stood all the way down from the base   *)
(* is found, one level after the other.                                    *)
LEMMA NothingLeftOut ==
    ASSUME WalkInv, Walk, step = "next", todo = <<>>, NEW p \in Below, StoodBelow(p)
    PROVE  p \in ToSet(Found)
<1> DEFINE S == {n \in Nat : \A q \in Below : Len(q) = n /\ StoodBelow(q) => q \in ToSet(Found)}
<1>1. ListedWhole /\ WalkTypeOK /\ Visited = Found
  BY WalkFacts DEF Walking, Describing, Visited
<1>2. ToSet(todo) = {}
  BY DEF ToSet
<1>3. \A q \in Below : q \in Tree /\ Within(q, base) /\ q # base
  BY DEF Below
<1>4. 0 \in S
  BY <1>1, <1>3, PathUp DEF WalkTypeOK
<1>5. ASSUME NEW n \in Nat, n \in S PROVE n + 1 \in S
  <2>1. SUFFICES ASSUME NEW q \in Below, Len(q) = n + 1, StoodBelow(q)
                 PROVE  q \in ToSet(Found)
    OBVIOUS
  <2>2. Stood(q)
    <3>1. Within(q, q)
      BY <1>1, <1>3, PathUp DEF WalkTypeOK
    <3>2. QED  BY <1>3, <2>1, <3>1 DEF StoodBelow
  <2>3. CASE Parent(q) = base
    BY <1>1, <1>2, <1>3, <2>2, <2>3 DEF ListedWhole
  <2>4. CASE Parent(q) # base
    <3>1. Parent(q) \in Below
      BY <1>1, <1>3, <2>4, UpFromBelow DEF WalkTypeOK
    <3>2. Len(Parent(q)) = n
      BY <1>1, <1>3, <2>1, PathUp DEF WalkTypeOK
    <3>3. \A x \in Tree : Within(Parent(q), x) => Within(q, x)
      BY <1>3, PathUp DEF Nodes
    <3>4. StoodBelow(Parent(q))
      BY <2>1, <3>3 DEF StoodBelow
    <3>5. Parent(q) \in ToSet(Found)
      BY <1>5, <3>1, <3>2, <3>4
    <3>6. QED  BY <1>1, <1>2, <1>3, <2>2, <3>5 DEF ListedWhole
  <2>5. QED  BY <2>3, <2>4
<1> HIDE DEF S
<1>6. Nat \subseteq S
  BY <1>4, <1>5, Induction
<1>7. Len(p) \in Nat
  BY <1>1, <1>3, PathUp DEF WalkTypeOK
<1>8. QED  BY <1>6, <1>7 DEF S

LEMMA EndWalkKeepsWalkInv ==
    ASSUME WalkInv, Walk, EndWalk
    PROVE  WalkInv'
<1>1. /\ Walking /\ ~ Describing /\ step = "next" /\ todo = <<>>
      /\ UNCHANGED <<tool, base, todo, here, part, groups, text, queue, worldVars>>
      /\ step' = IF tool = "ls" THEN "done" ELSE "render"
  BY DEF EndWalk, Walking, Describing
<1>2. WalkTypeOK /\ FoundInOrder /\ TreeSeen /\ Visited = Found /\ ToSet(Found) \subseteq Below
  BY <1>1, WalkFacts DEF Visited
<1>3. MoreSeen /\ \A p \in Nodes : Was(p)' = Was(p) /\ Stood(p)' = Stood(p)
  BY <1>1, SameSeen DEF worldVars
<1>4. /\ tool = "snapshot" => GroupsAsSeen'
      /\ Walk' /\ Found' = Found /\ ToSet(groups)' = ToSet(groups)
      /\ \A p \in Tree : StoodBelow(p)' => StoodBelow(p)
  BY <1>1, <1>3, FoundStaysFound
<1>5. Below' = Below /\ Visited' = Found /\ ~ Walking' /\ step' # "failed" /\ step' # "apply"
  BY <1>1, <1>4 DEF Below, Visited, Walking, Describing
<1>6. WalkTypeOK'
  <2>1. tool' = "ls" => step' = "done"
    BY <1>1
  <2>2. step' \in {"done", "render"} /\ text' = <<>> /\ todo' = <<>>
    BY <1>1, <1>2 DEF WalkTypeOK
  <2>3. (groups \in Seq(ToSet(groups)))' /\ (DOMAIN seen = Nodes)' /\ base' \in Nodes
        /\ accounts' \subseteq Accounts /\ \A p \in Tree : seen'[p] \subseteq Cgroups \cup {Absent}
    BY <1>1, <1>2, <1>4 DEF WalkTypeOK, worldVars
  <2>4. QED  BY <2>1, <2>2, <2>3 DEF WalkTypeOK
<1>7. \A p \in ToSet(Found) : p \in Nodes /\ Was(p) # {} /\ Was(p)' # {}
  BY <1>2, <1>3 DEF FoundInOrder, Below, Nodes
<1>8. PICK f : f = Found
  OBVIOUS
<1>9. f \in Seq(Below) /\ IsInjective(f) /\ ParentsFirst(f)
  BY <1>2, <1>8 DEF FoundInOrder
<1>10. FoundInOrder'
  <2>1. ParentsFirst(f)'
    BY <1>1, <1>9 DEF ParentsFirst
  <2>2. ParentsFirst(Visited)'
    BY <1>5, <1>8, <2>1 DEF ParentsFirst
  <2>3. QED  BY <1>5, <1>7, <1>8, <1>9, <2>2 DEF FoundInOrder
<1>11. WalkFindsAll'
  <2>1. \A p \in Tree : Within(p, base) /\ p # base /\ StoodBelow(p)' => p \in ToSet(f)
    <3>1. SUFFICES ASSUME NEW p \in Tree, Within(p, base), p # base, StoodBelow(p)
                   PROVE  p \in ToSet(f)
      BY <1>4
    <3>2. p \in Below
      BY <3>1 DEF Below
    <3>3. QED  BY <1>1, <1>8, <3>1, <3>2, NothingLeftOut
  <2>2. ASSUME NEW i \in DOMAIN f
        PROVE  /\ Was(f[i])' # {}
               /\ \A j \in 1 .. i - 1 : f[j] # f[i]
               /\ Parent(f[i]) # base => \E j \in 1 .. i - 1 : f[j] = Parent(f[i])
    <3>1. DOMAIN f = 1..Len(f) /\ Len(f) \in Nat
      BY <1>9
    <3>2. \A j \in 1 .. i - 1 : f[j] # f[i]
      BY <1>9, <3>1 DEF IsInjective
    <3>3. f[i] \in ToSet(f)
      BY DEF ToSet
    <3>4. QED  BY <1>7, <1>8, <1>9, <3>2, <3>3 DEF ParentsFirst
  <2>3. Found' = f /\ base' = base
    BY <1>1, <1>4, <1>8
  <2>4. \A p \in Tree : (Within(p, base) /\ p # base /\ StoodBelow(p))' => p \in ToSet(f)
    BY <1>1, <2>1
  <2>5. QED  BY <2>2, <2>3, <2>4 DEF WalkFindsAll
<1>12. NothingFromNothing' /\ SnapshotFailsForCause'
  BY <1>5 DEF NothingFromNothing, SnapshotFailsForCause
<1>13. QED
  BY <1>1, <1>4, <1>5, <1>6, <1>10, <1>11, <1>12 DEF WalkInv

LEMMA DescribeKeepsWalkInv ==
    ASSUME WalkInv, Walk, Describing, Describing', PartAsSeen',
           UNCHANGED <<tool, base, todo, here, groups, text, conf, queue, worldVars>>
    PROVE  WalkInv'
<1>1. Walking /\ Walking' /\ step # "next" /\ step' # "next"
  BY DEF Walking, Describing
<1>2. /\ FoundInOrder /\ TodoAhead /\ ListedWhole /\ WalkTypeOK
      /\ tool = "snapshot" => GroupsAsSeen
  BY <1>1, WalkFacts
<1>3. MoreSeen /\ \A p \in Nodes : Was(p)' = Was(p) /\ Stood(p)' = Stood(p)
  BY SameSeen DEF worldVars
<1>4. /\ Found' = Found /\ (tool = "snapshot" => GroupsAsSeen')
      /\ (groups \in Seq(ToSet(groups)))'
  BY <1>2, <1>3, FoundStaysFound DEF WalkTypeOK
<1>5. Visited' = Visited /\ Below' = Below
  BY <1>4 DEF Visited, Below
<1>6. \A p \in ToSet(Visited) \cup ToSet(todo) : Was(p)' # {}
  <2>1. \A p \in ToSet(Visited) \cup ToSet(todo) : Was(p) # {} /\ p \in Nodes
    BY <1>1, <1>2, WalkFacts DEF FoundInOrder, TodoAhead, Below, Nodes
  <2>2. QED  BY <1>3, <2>1
<1>7. FoundInOrder'
  BY <1>2, <1>5, <1>6 DEF FoundInOrder, ParentsFirst
<1>8. TodoAhead'
  BY <1>1, <1>2, <1>5, <1>6 DEF TodoAhead
<1>9. ListedWhole'
  BY <1>1, <1>2, <1>3, <1>5 DEF ListedWhole, Nodes
<1>10. tool # "ls"
  BY <1>2 DEF WalkTypeOK, Describing
<1>11. QED
  BY <1>1, <1>4, <1>7, <1>8, <1>9, <1>10, WalkGoesOn

(* The directory in hand is one that stands or is gone, as it was seen.    *)
LEMMA ReadAsSeen ==
    ASSUME WalkInv, Walk, Walking
    PROVE  /\ here \in Nodes
           /\ Exists(here) => tree[here] \in Was(here)
           /\ (IF Exists(here) THEN tree[here].task ELSE NoVal) \in Tasks(here)
           /\ (IF Exists(here) THEN tree[here].ctl ELSE {}) \in Controls(here)
           /\ ~ Exists(here) => ~ Stood(here)
<1>1. here \in Nodes /\ tree[here] \in seen[here]
  BY HereIsKnown DEF WalkInv, TreeSeen
<1>2. (Exists(here) => tree[here] \in Was(here)) /\ (~ Exists(here) => ~ Stood(here))
  BY <1>1 DEF Exists, Was, Stood
<1>3. QED  BY <1>1, <1>2 DEF Tasks, Controls

(* A cgroup is in hand while it is described.                              *)
LEMMA HereInHand ==
    ASSUME WalkInv, Walk, Describing
    PROVE  /\ tool = "snapshot" /\ here \in Tree /\ Was(here) # {}
           /\ Was(here) \subseteq Cgroups
<1>1. WalkTypeOK /\ FoundInOrder
  BY DEF WalkInv, Describing
<1>2. tool = "snapshot"
  BY <1>1 DEF WalkTypeOK, Walk, Describing
<1>3. groups \in Seq(ToSet(groups))
  BY <1>1 DEF WalkTypeOK
<1>4. PICK n : n = Len(groups)
  OBVIOUS
<1>5. n \in Nat /\ DOMAIN groups = 1..n
  BY <1>3, <1>4
<1>6. PICK f : f = Found
  OBVIOUS
<1>7. f = [i \in 1..n |-> PathOf[groups[i].name]]
  BY <1>2, <1>5, <1>6 DEF Found
<1>8. PICK A : A = {f[i] : i \in 1..n} \cup {here}
  OBVIOUS
<1>9. f \in [1..n -> A]
  BY <1>7, <1>8
<1>10. f \in Seq(A) /\ here \in A
  BY <1>5, <1>8, <1>9
<1>11. ToSet(Append(f, here)) = ToSet(f) \cup {here}
  BY <1>10, ElementsOfAppend
<1>12. here \in ToSet(Visited)
  BY <1>6, <1>11 DEF Visited
<1>13. here \in Below /\ Was(here) # {}
  BY <1>1, <1>12 DEF FoundInOrder, ToSet
<1>14. Was(here) \subseteq Cgroups
  BY <1>1, <1>13 DEF WalkTypeOK, Was, Below
<1>15. QED  BY <1>2, <1>13, <1>14 DEF Below

LEMMA DescribeStepsKeepWalkInv ==
    ASSUME WalkInv, Walk, Meta \/ Procs \/ Controllers
    PROVE  WalkInv'
<1>1. /\ Describing /\ Walking /\ UNCHANGED worldVars
  BY DEF Meta, Procs, Controllers, Describe, Describing, Walking
<1>2. /\ here \in Nodes
      /\ Exists(here) => tree[here] \in Was(here)
      /\ (IF Exists(here) THEN tree[here].task ELSE NoVal) \in Tasks(here)
      /\ (IF Exists(here) THEN tree[here].ctl ELSE {}) \in Controls(here)
  BY <1>1, ReadAsSeen
<1>3. \A p \in Nodes : Was(p)' = Was(p) /\ Stood(p)' = Stood(p)
  BY <1>1, SameSeen DEF worldVars
<1>4. PICK p : p = here
  OBVIOUS
<1>5. p \in Nodes /\ Was(p)' = Was(p) /\ Tasks(p)' = Tasks(p) /\ Controls(p)' = Controls(p)
  BY <1>2, <1>3, <1>4 DEF Tasks, Controls
<1>6. PartAsSeen
  BY <1>1, WalkFacts
<1>7. ASSUME ~ Exists(here), Meta PROVE WalkInv'
  <2>1. Lost
    BY <1>1, <1>7, HereIsKnown
  <2>2. QED  BY <1>1, <1>7, <2>1, FailKeepsWalkInv DEF Meta, worldVars
<1>8. ASSUME NEW to \in {"procs", "controllers", "params"}, NEW from, NEW fields,
             Describe(from, to, fields),
             to = "procs" => \E r \in Was(p) : fields = <<r.owner, Low[r.mode]>>,
             to = "controllers" =>
                 \E r \in Was(p), t \in Tasks(p) : fields = <<r.owner, Low[r.mode], t>>,
             to = "params" =>
                 \E r \in Was(p), t \in Tasks(p), c \in Controls(p) :
                     fields = <<r.owner, Low[r.mode], t, c>>
      PROVE  WalkInv'
  <2>1. here' = p /\ part' = fields /\ step' = to /\ Describing'
    BY <1>4, <1>8 DEF Describe, Describing
  <2>2. (Was(here) = Was(p) /\ Tasks(here) = Tasks(p) /\ Controls(here) = Controls(p))'
    BY <2>1
  <2>3. PartAsSeen'
    BY <1>5, <1>8, <2>1, <2>2 DEF PartAsSeen
  <2>4. QED  BY <1>1, <1>8, <2>1, <2>3, DescribeKeepsWalkInv DEF Describe
<1>9. ASSUME Exists(here), Meta PROVE WalkInv'
  <2>1. Describe("meta", "procs", <<tree[here].owner, Low[tree[here].mode]>>)
    BY <1>9 DEF Meta
  <2>2. \E r \in Was(p) :
            <<tree[here].owner, Low[tree[here].mode]>> = <<r.owner, Low[r.mode]>>
    BY <1>2, <1>4, <1>9
  <2>3. QED  BY <1>8, <2>1, <2>2
<1>10. ASSUME Procs PROVE WalkInv'
  <2>1. PICK t \in Tasks(p) : t = IF Exists(here) THEN tree[here].task ELSE NoVal
    BY <1>2, <1>4
  <2>2. PICK r \in Was(p) : part = <<r.owner, Low[r.mode]>>
    BY <1>4, <1>6, <1>10 DEF PartAsSeen, Procs, Describe
  <2>3. Append(part, t) = <<r.owner, Low[r.mode], t>>
    BY <2>2, AppendToPair
  <2>4. Describe("procs", "controllers", <<r.owner, Low[r.mode], t>>)
    BY <1>10, <2>1, <2>3 DEF Procs
  <2>5. QED  BY <1>8, <2>4
<1>11. ASSUME Controllers PROVE WalkInv'
  <2>1. PICK c \in Controls(p) : c = IF Exists(here) THEN tree[here].ctl ELSE {}
    BY <1>2, <1>4
  <2>2. PICK r \in Was(p), t \in Tasks(p) : part = <<r.owner, Low[r.mode], t>>
    BY <1>4, <1>6, <1>11 DEF PartAsSeen, Controllers, Describe
  <2>3. Append(part, c) = <<r.owner, Low[r.mode], t, c>>
    BY <2>2, AppendToTriple
  <2>4. Describe("controllers", "params", <<r.owner, Low[r.mode], t, c>>)
    BY <1>11, <2>1, <2>3 DEF Controllers
  <2>5. QED  BY <1>8, <2>4
<1>12. QED  BY <1>7, <1>9, <1>10, <1>11

-----------------------------------------------------------------------------
(* The control files, one by one.                                          *)

LEMMA PlaceOfFile ==
    /\ Place \in [Files -> Nat]
    /\ \A i \in DOMAIN ControlFiles : Place[ControlFiles[i]] = i
    /\ \A f, g \in Files : Place[f] = Place[g] => f = g
<1>1. PICK n \in Nat : DOMAIN ControlFiles = 1..n /\ ControlFiles \in Seq(Files)
  BY FilesAssumption DEF Files
<1>2. \A f \in Files : \E i \in 1..n : ControlFiles[i] = f
  BY <1>1 DEF Files, ToSet
<1>3. \A i, j \in 1..n : ControlFiles[i] = ControlFiles[j] => i = j
  BY <1>1, FilesAssumption DEF IsInjective
<1> DEFINE m == [f \in Files |-> CHOOSE i \in 1..n : ControlFiles[i] = f]
<1>4. \A f \in Files : m[f] \in 1..n /\ ControlFiles[m[f]] = f
  BY <1>2
<1>5. m \in [Files -> Nat]
  BY <1>4
<1>6. \A i \in 1..n : m[ControlFiles[i]] = i
  <2>1. SUFFICES ASSUME NEW i \in 1..n PROVE m[ControlFiles[i]] = i
    OBVIOUS
  <2>2. ControlFiles[i] \in Files
    BY <1>1
  <2>3. QED  BY <1>3, <1>4, <2>2
<1> HIDE DEF m
<1>7. Place \in [Files -> Nat] /\ \A i \in DOMAIN ControlFiles : Place[ControlFiles[i]] = i
  BY <1>1, <1>5, <1>6 DEF Place
<1>8. QED  BY <1>1, <1>2, <1>7

(* What a parameter seen is made of.                                       *)
LEMMA KnobFacts ==
    ASSUME NEW p, Was(p) \subseteq Cgroups, NEW y \in KnobsSeen(p)
    PROVE  /\ y = <<y[1], y[2], y[3]>> /\ y[2] \in Files
           /\ y[1] = CtlOf[y[2]] /\ y[1] # "perm"
           /\ \E r \in Was(p) : y \in Knobs(r)
<1>1. PICK r \in Was(p) : y \in Knobs(r)
  BY DEF KnobsSeen
<1>2. PICK f \in Files : y = <<CtlOf[f], f, r.knobs[f]>>
  BY <1>1 DEF Knobs, Knob, Files
<1>3. DOMAIN CtlOf = Files
  BY FilesAssumption DEF Files
<1>4. CtlOf[f] \in Range(CtlOf)
  BY <1>2, <1>3 DEF Range
<1>5. CtlOf[f] # "perm"
  BY <1>4, FilesAssumption
<1>6. QED  BY <1>1, <1>2, <1>5

(* The files of a set, in name order.                                      *)
LEMMA FilesInOrder ==
    ASSUME NEW S, S \subseteq Files \ Skipped, NEW u, u = Kept(ControlFiles, S)
    PROVE  /\ u \in Seq(Files \ Skipped) /\ ToSet(u) = S
           /\ FilesAscend(<<>>, u)
<1>1. PICK cs \in Seq(Files) : cs = ControlFiles
  BY FilesAssumption DEF Files
<1>2. ToSet(cs) = Files /\ IsInjective(cs)
  BY <1>1, FilesAssumption DEF Files
<1>3. u = Kept(cs, S)
  BY <1>1
<1>4. u \in Seq(Files) /\ ToSet(u) = ToSet(cs) \cap S
  BY <1>3, KeptElements
<1>5. ToSet(u) = S
  BY <1>2, <1>4
<1>6. u \in Seq(Files \ Skipped)
  <2>1. PICK R : R = Files \ Skipped
    OBVIOUS
  <2>2. ToSet(u) \subseteq R
    BY <1>5, <2>1
  <2>3. u \in Seq(R)
    BY <1>4, <2>2, NarrowSeq
  <2>4. QED  BY <2>1, <2>3
<1>7. PICK n \in Nat : DOMAIN u = 1..n
  BY <1>4
<1>8. IsInjective(u)
  BY <1>2, <1>3, KeptInjective DEF KeptOnce
<1>9. Ascends(u, Place)
  <2>1. Place \in [Files -> Nat] /\ \A i \in DOMAIN cs : Place[cs[i]] = i
    BY <1>1, PlaceOfFile
  <2>2. \A i \in DOMAIN cs : i \in Nat
    BY <1>1
  <2>3. Ascends(cs, Place)
    BY <2>1, <2>2 DEF Ascends
  <2>4. QED  BY <1>3, <2>1, <2>3, AscendsKept
<1>10. \A i, j \in DOMAIN u : i < j => Place[u[i]] < Place[u[j]]
  <2>1. SUFFICES ASSUME NEW i \in 1..n, NEW j \in 1..n, i < j PROVE Place[u[i]] < Place[u[j]]
    BY <1>7
  <2>2. u[i] \in Files /\ u[j] \in Files /\ u[i] # u[j]
    BY <1>4, <1>7, <1>8, <2>1 DEF IsInjective
  <2>3. Place[u[i]] <= Place[u[j]]
    BY <1>7, <1>9, <2>1 DEF Ascends
  <2>4. Place[u[i]] # Place[u[j]] /\ Place[u[i]] \in Nat /\ Place[u[j]] \in Nat
    BY <2>2, PlaceOfFile
  <2>5. QED  BY <2>3, <2>4
<1>11. QED  BY <1>5, <1>6, <1>10 DEF FilesAscend

(* The listing: the files there are, in name order.                        *)
LEMMA ListedHalfRead ==
    ASSUME NEW p, NEW r, NEW u,
           u = Those(ControlFiles, LAMBDA f : f \notin Skipped /\ HasFile(r, f)),
           r \in Was(p)
    PROVE  HalfRead(<<>>, u, p)
<1>1. PICK S : S = {f \in Files : f \notin Skipped /\ HasFile(r, f)}
  OBVIOUS
<1>2. u = Kept(ControlFiles, S)
  <2>1. DOMAIN ControlFiles = 1..Len(ControlFiles)
        /\ \A i \in 1..Len(ControlFiles) : ControlFiles[i] \in Files
    BY FilesAssumption DEF Files
  <2>2. QED  BY <1>1, <2>1 DEF Those, Kept, KeptParts
<1>3. S \subseteq Files \ Skipped
  BY <1>1
<1>4. u \in Seq(Files \ Skipped) /\ ToSet(u) = S /\ FilesAscend(<<>>, u)
  BY <1>2, <1>3, FilesInOrder
<1>5. NoneLeftOut(<<>>, u, p)
  <2>1. SUFFICES ASSUME NEW f \in Files, HasParam(r, f) PROVE f \in ToSet(u)
    BY DEF NoneLeftOut
  <2>2. f \in S
    BY <1>1, <2>1 DEF HasParam, HasFile
  <2>3. QED  BY <1>4, <2>2
<1>6. <<>> \in Seq(KnobsSeen(p))
  OBVIOUS
<1>7. QED  BY <1>4, <1>5, <1>6 DEF HalfRead

(* A directory that is gone has no files.                                  *)
LEMMA NothingHalfRead ==
    ASSUME NEW p, ~ Stood(p)
    PROVE  HalfRead(<<>>, <<>>, p)
BY DEF HalfRead, FilesAscend, NoneLeftOut

(* The next file is left out: it may be gone, or not be a parameter.       *)
LEMMA FileLeftOut ==
    ASSUME NEW p, NEW k, NEW u, HalfRead(k, u, p), u # <<>>,
           Stood(p) => \E r \in Was(p) : ~ HasParam(r, Head(u))
    PROVE  HalfRead(k, Tail(u), p)
<1>1. /\ k \in Seq(KnobsSeen(p)) /\ u \in Seq(Files \ Skipped)
      /\ FilesAscend(k, u) /\ NoneLeftOut(k, u, p)
  BY DEF HalfRead
<1>2. /\ Tail(u) \in Seq(Files \ Skipped) /\ ToSet(u) = {Head(u)} \cup ToSet(Tail(u))
  BY <1>1, ElementsOfRest
<1>3. PICK v \in Seq(Files \ Skipped) : v = Tail(u)
  BY <1>2
<1>4. PICK n \in Nat : /\ DOMAIN u = 1..(n + 1) /\ DOMAIN v = 1..n
                       /\ \A i \in 1..n : v[i] = u[i + 1] /\ i + 1 \in 1..(n + 1)
  <2>1. Len(u) \in Nat /\ Len(u) # 0 /\ DOMAIN u = 1..Len(u)
    BY <1>1
  <2>2. PICK n \in Nat : Len(u) = n + 1
    <3>0. PICK w : w = Len(u)
      OBVIOUS
    <3>1. w \in Nat /\ w = Len(u) /\ w # 0
      BY <2>1, <3>0
    <3>2. PICK n \in Nat : w = n + 1
      <4>1. w - 1 \in Nat /\ w = (w - 1) + 1
        BY <3>1
      <4>2. QED  BY <4>1
    <3>3. QED  BY <3>1, <3>2
  <2>3. Len(v) = n /\ DOMAIN v = 1..n /\ \A i \in 1..n : v[i] = u[i + 1]
    BY <1>1, <1>3, <2>2
  <2>4. \A i \in 1..n : i + 1 \in 1..(n + 1)
    OBVIOUS
  <2>5. QED  BY <2>1, <2>2, <2>3, <2>4
<1>5. FilesAscend(k, v)
  <2>1. \A i, j \in 1..n : i < j => Place[v[i]] < Place[v[j]]
    <3>1. SUFFICES ASSUME NEW i \in 1..n, NEW j \in 1..n, i < j
                   PROVE  Place[v[i]] < Place[v[j]]
      OBVIOUS
    <3>2. i + 1 < j + 1 /\ i + 1 \in DOMAIN u /\ j + 1 \in DOMAIN u
      BY <1>4, <3>1
    <3>3. Place[u[i + 1]] < Place[u[j + 1]]
      BY <1>1, <3>2 DEF FilesAscend
    <3>4. QED  BY <1>4, <3>3
  <2>2. \A i \in DOMAIN k, j \in 1..n : Place[k[i][2]] < Place[v[j]]
    BY <1>1, <1>4 DEF FilesAscend
  <2>3. QED  BY <1>1, <1>4, <2>1, <2>2 DEF FilesAscend
<1>6. NoneLeftOut(k, v, p)
  BY <1>1, <1>2, <1>3 DEF NoneLeftOut
<1>7. QED  BY <1>1, <1>3, <1>5, <1>6 DEF HalfRead

(* The next file is read.                                                  *)
LEMMA FileRead ==
    ASSUME NEW p, Was(p) \subseteq Cgroups, NEW k, NEW u, HalfRead(k, u, p), u # <<>>,
           NEW r \in Was(p), HasParam(r, Head(u)), NEW y, y = Knob(r, Head(u))
    PROVE  Append(k, y) \in Seq(KnobsSeen(p)) /\ HalfRead(Append(k, y), Tail(u), p)
<1>1. /\ k \in Seq(KnobsSeen(p)) /\ u \in Seq(Files \ Skipped)
      /\ FilesAscend(k, u) /\ NoneLeftOut(k, u, p)
  BY DEF HalfRead
<1>2. Head(u) \in Files /\ ToSet(u) = {Head(u)} \cup ToSet(Tail(u))
      /\ Tail(u) \in Seq(Files \ Skipped)
  BY <1>1, ElementsOfRest
<1>3. y \in Knobs(r) /\ y[2] = Head(u)
  BY <1>2 DEF Knobs, Knob, Files
<1>4. y \in KnobsSeen(p)
  BY <1>3 DEF KnobsSeen
<1>5. PICK l : l = Append(k, y)
  OBVIOUS
<1>6. PICK m \in Nat : m = Len(k) /\ DOMAIN k = 1..m
  BY <1>1
<1>7. /\ l \in Seq(KnobsSeen(p)) /\ DOMAIN l = 1..(m + 1)
      /\ l[m + 1] = y /\ \A i \in 1..m : l[i] = k[i]
  BY <1>1, <1>4, <1>5, <1>6, ElementsOfAppend
<1>8. PICK v \in Seq(Files \ Skipped) : v = Tail(u)
  BY <1>2
<1>9. PICK n \in Nat : /\ DOMAIN u = 1..(n + 1) /\ DOMAIN v = 1..n /\ Head(u) = u[1]
                       /\ \A i \in 1..n : v[i] = u[i + 1] /\ i + 1 \in 1..(n + 1)
  <2>1. Len(u) \in Nat /\ Len(u) # 0 /\ DOMAIN u = 1..Len(u) /\ Head(u) = u[1]
    BY <1>1
  <2>2. PICK n \in Nat : Len(u) = n + 1
    <3>0. PICK w : w = Len(u)
      OBVIOUS
    <3>1. w \in Nat /\ w = Len(u) /\ w # 0
      BY <2>1, <3>0
    <3>2. PICK n \in Nat : w = n + 1
      <4>1. w - 1 \in Nat /\ w = (w - 1) + 1
        BY <3>1
      <4>2. QED  BY <4>1
    <3>3. QED  BY <3>1, <3>2
  <2>3. Len(v) = n /\ DOMAIN v = 1..n /\ \A i \in 1..n : v[i] = u[i + 1]
    BY <1>1, <1>8, <2>2
  <2>4. \A i \in 1..n : i + 1 \in 1..(n + 1)
    OBVIOUS
  <2>5. QED  BY <2>1, <2>2, <2>3, <2>4
<1>10. \A i \in 1..(m + 1) : i \in 1..m \/ i = m + 1
  OBVIOUS
<1>11. 1 \in DOMAIN u /\ \A i \in 1..n : i + 1 \in DOMAIN u /\ 1 < i + 1
  BY <1>9
<1>12. FilesAscend(l, v)
  <2>1. \A i, j \in 1..(m + 1) : i < j => Place[l[i][2]] < Place[l[j][2]]
    <3>1. SUFFICES ASSUME NEW i \in 1..(m + 1), NEW j \in 1..(m + 1), i < j
                   PROVE  Place[l[i][2]] < Place[l[j][2]]
      OBVIOUS
    <3>2. i \in 1..m
      BY <3>1
    <3>3. CASE j \in 1..m
      BY <1>1, <1>6, <1>7, <3>1, <3>2, <3>3 DEF FilesAscend
    <3>4. CASE j = m + 1
      <4>1. Place[k[i][2]] < Place[u[1]]
        BY <1>1, <1>6, <1>11, <3>2 DEF FilesAscend
      <4>2. QED  BY <1>3, <1>7, <1>9, <3>2, <3>4, <4>1
    <3>5. QED  BY <1>10, <3>3, <3>4
  <2>2. \A i, j \in 1..n : i < j => Place[v[i]] < Place[v[j]]
    <3>1. SUFFICES ASSUME NEW i \in 1..n, NEW j \in 1..n, i < j
                   PROVE  Place[v[i]] < Place[v[j]]
      OBVIOUS
    <3>2. i + 1 < j + 1 /\ i + 1 \in DOMAIN u /\ j + 1 \in DOMAIN u
      BY <1>9, <3>1
    <3>3. Place[u[i + 1]] < Place[u[j + 1]]
      BY <1>1, <3>2 DEF FilesAscend
    <3>4. QED  BY <1>9, <3>3
  <2>3. \A i \in 1..(m + 1), j \in 1..n : Place[l[i][2]] < Place[v[j]]
    <3>1. SUFFICES ASSUME NEW i \in 1..(m + 1), NEW j \in 1..n
                   PROVE  Place[l[i][2]] < Place[v[j]]
      OBVIOUS
    <3>2. j + 1 \in DOMAIN u /\ 1 \in DOMAIN u /\ 1 < j + 1 /\ v[j] = u[j + 1]
      BY <1>9, <1>11
    <3>3. CASE i \in 1..m
      <4>1. Place[k[i][2]] < Place[u[j + 1]]
        BY <1>1, <1>6, <3>2, <3>3 DEF FilesAscend
      <4>2. QED  BY <1>7, <3>2, <3>3, <4>1
    <3>4. CASE i = m + 1
      <4>1. Place[u[1]] < Place[u[j + 1]]
        BY <1>1, <3>2 DEF FilesAscend
      <4>2. QED  BY <1>3, <1>7, <1>9, <3>2, <3>4, <4>1
    <3>5. QED  BY <1>10, <3>3, <3>4
  <2>4. QED  BY <1>7, <1>9, <2>1, <2>2, <2>3 DEF FilesAscend
<1>13. NoneLeftOut(l, v, p)
  <2>1. SUFFICES ASSUME NEW f \in Files, Stood(p), \A x \in Was(p) : HasParam(x, f)
                 PROVE  f \in ToSet(v) \/ \E i \in DOMAIN l : l[i][2] = f
    BY DEF NoneLeftOut
  <2>2. f \in ToSet(u) \/ \E i \in DOMAIN k : k[i][2] = f
    BY <1>1, <2>1 DEF NoneLeftOut
  <2>3. CASE f = Head(u)
    <3>1. m + 1 \in DOMAIN l
      BY <1>7
    <3>2. QED  BY <1>3, <1>7, <2>3, <3>1
  <2>4. CASE \E i \in DOMAIN k : k[i][2] = f
    <3>1. PICK i \in 1..m : k[i][2] = f
      BY <1>6, <2>4
    <3>2. i \in DOMAIN l
      BY <1>7
    <3>3. QED  BY <1>7, <3>1, <3>2
  <2>5. QED  BY <1>2, <1>8, <2>2, <2>3, <2>4
<1>14. HalfRead(l, v, p)
  BY <1>7, <1>8, <1>12, <1>13 DEF HalfRead
<1>15. QED  BY <1>5, <1>7, <1>8, <1>14

(* All read: what AsSeen asks, and what a file needs to be read back.      *)
LEMMA AllRead ==
    ASSUME NEW p, Was(p) \subseteq Cgroups, NEW k, HalfRead(k, <<>>, p)
    PROVE  /\ ParamsAsSeen(k, p)
           /\ k \in Seq(ToSet(k)) /\ StandTogether(k)
           /\ \A y \in ToSet(k) : y = <<y[1], y[2], y[3]>> /\ y[1] # "perm"
<1>1. k \in Seq(KnobsSeen(p)) /\ FilesAscend(k, <<>>) /\ NoneLeftOut(k, <<>>, p)
  BY DEF HalfRead
<1>2. PICK n \in Nat : DOMAIN k = 1..n /\ \A i \in 1..n : k[i] \in KnobsSeen(p)
  BY <1>1
<1>3. \A i \in 1..n : /\ k[i][2] \in Files /\ k[i][1] = CtlOf[k[i][2]]
                      /\ k[i] = <<k[i][1], k[i][2], k[i][3]>> /\ k[i][1] # "perm"
                      /\ \E r \in Was(p) : k[i] \in Knobs(r)
  BY <1>2, KnobFacts
<1>4. \A f \in Files : Place[f] \in Nat
  BY PlaceOfFile
<1>5. \A i, j \in 1..n : i < j => Place[k[i][2]] < Place[k[j][2]]
  BY <1>1, <1>2 DEF FilesAscend
<1>6. ParamsAsSeen(k, p)
  <2>1. \A i, j \in 1..n : k[i][2] = k[j][2] => i = j
    <3>1. SUFFICES ASSUME NEW i \in 1..n, NEW j \in 1..n, k[i][2] = k[j][2], i # j
                   PROVE  FALSE
      OBVIOUS
    <3>2. i < j \/ j < i
      BY <3>1
    <3>3. Place[k[i][2]] < Place[k[i][2]]
      BY <1>5, <3>1, <3>2
    <3>4. QED  BY <1>3, <1>4, <3>3
  <2>2. ToSet(<<>>) = {}
    BY NoneAtAll
  <2>3. QED  BY <1>1, <1>2, <1>3, <2>1, <2>2 DEF ParamsAsSeen, NoneLeftOut, Files
<1>7. StandTogether(k)
  <2>1. SUFFICES ASSUME NEW i \in 1..n, NEW l \in 1..n, NEW j \in i..l, k[i][1] = k[l][1]
                 PROVE  k[j][1] = k[l][1]
    BY <1>2 DEF StandTogether
  <2>2. j \in 1..n
    BY <2>1
  <2>3. \A f \in Files : \E a \in DOMAIN ControlFiles : ControlFiles[a] = f /\ Place[f] = a
    BY PlaceOfFile DEF Files, ToSet
  <2>4. PICK a \in DOMAIN ControlFiles : ControlFiles[a] = k[i][2] /\ Place[k[i][2]] = a
    BY <1>3, <2>3
  <2>5. PICK b \in DOMAIN ControlFiles : ControlFiles[b] = k[j][2] /\ Place[k[j][2]] = b
    BY <1>3, <2>2, <2>3
  <2>6. PICK c \in DOMAIN ControlFiles : ControlFiles[c] = k[l][2] /\ Place[k[l][2]] = c
    BY <1>3, <2>3
  <2>7. a \in Nat /\ b \in Nat /\ c \in Nat
    BY <1>3, <1>4, <2>2, <2>4, <2>5, <2>6
  <2>8. a <= b
    <3>1. CASE i = j
      BY <2>4, <2>5, <2>7, <3>1
    <3>2. CASE i < j
      BY <1>5, <2>2, <2>4, <2>5, <2>7, <3>2
    <3>3. i = j \/ i < j
      BY <2>1
    <3>4. QED  BY <3>1, <3>2, <3>3
  <2>9. b <= c
    <3>1. CASE j = l
      BY <2>5, <2>6, <2>7, <3>1
    <3>2. CASE j < l
      BY <1>5, <2>2, <2>5, <2>6, <2>7, <3>2
    <3>3. j = l \/ j < l
      BY <2>1
    <3>4. QED  BY <3>1, <3>2, <3>3
  <2>10. b \in a..c
    BY <2>7, <2>8, <2>9
  <2>11. CtlOf[ControlFiles[a]] = CtlOf[ControlFiles[c]]
    BY <1>3, <2>1, <2>4, <2>6
  <2>12. CtlOf[ControlFiles[b]] = CtlOf[ControlFiles[c]]
    BY <2>10, <2>11, FilesAssumption
  <2>13. QED  BY <1>3, <2>2, <2>5, <2>6, <2>12
<1>8. ToSet(k) \subseteq KnobsSeen(p) /\ \A y \in ToSet(k) : \E i \in 1..n : y = k[i]
  BY <1>2 DEF ToSet
<1>9. k \in Seq(ToSet(k))
  BY <1>1, NarrowSeq
<1>10. QED  BY <1>3, <1>6, <1>7, <1>8, <1>9

LEMMA ParamsKeepsWalkInv ==
    ASSUME WalkInv, Walk, Params
    PROVE  WalkInv'
<1>1. /\ Describing /\ Walking /\ UNCHANGED worldVars /\ step = "params" /\ step' = "read"
      /\ UNCHANGED <<tool, base, todo, here, groups, text, conf, queue>>
  BY DEF Params, Describing, Walking
<1>2. PICK p : p = here
  OBVIOUS
<1>3. p \in Nodes
  BY <1>1, <1>2, ReadAsSeen
<1>4. MoreSeen /\ Was(p)' = Was(p)
  BY <1>1, <1>3, SameSeen DEF worldVars
<1>5. PartAsSeen
  BY <1>1, WalkFacts
<1>6. PICK r \in Was(p), t \in Tasks(p), c \in Controls(p) :
          part = <<r.owner, Low[r.mode], t, c>>
  BY <1>1, <1>2, <1>5 DEF PartAsSeen
<1>7. PICK k : k = <<>>
  OBVIOUS
<1>8. part' = <<r.owner, Low[r.mode], t, c, k>>
  BY <1>6, <1>7, AppendToQuadruple DEF Params
<1>9. PICK u : u = unread'
  OBVIOUS
<1>10. HalfRead(k, u, p)
  <2>1. CASE Exists(here)
    <3>1. tree[here] \in Was(p)
      BY <1>1, <1>2, <2>1, ReadAsSeen
    <3>2. u = Those(ControlFiles, LAMBDA f : f \notin Skipped /\ HasFile(tree[here], f))
      BY <1>9, <2>1 DEF Params
    <3>3. QED  BY <1>7, <3>1, <3>2, ListedHalfRead
  <2>2. CASE ~ Exists(here)
    <3>1. ~ Stood(p) /\ u = <<>>
      BY <1>1, <1>2, <1>9, <2>2, ReadAsSeen DEF Params
    <3>2. QED  BY <1>7, <3>1, NothingHalfRead
  <2>3. QED  BY <2>1, <2>2
<1>11. k \in Seq(KnobsSeen(p))' /\ HalfRead(k, u, p)'
  BY <1>3, <1>4, <1>10, HalfReadStays
<1>12. Tasks(p) \subseteq Tasks(p)' /\ Controls(p) \subseteq Controls(p)'
  BY <1>3, <1>4, SeenStaysSeen
<1>13. PartAsSeen'
  <2>1. /\ (Was(here) = Was(p) /\ Tasks(here) = Tasks(p) /\ Controls(here) = Controls(p))'
        /\ (KnobsSeen(here) = KnobsSeen(p))'
        /\ (HalfRead(k, unread, here) <=> HalfRead(k, u, p))'
    BY <1>1, <1>2, <1>9
  <2>2. r \in Was(p)' /\ t \in Tasks(p)' /\ c \in Controls(p)'
    BY <1>4, <1>12
  <2>3. QED  BY <1>1, <1>8, <1>11, <2>1, <2>2 DEF PartAsSeen
<1>14. Describing'
  BY <1>1 DEF Describing
<1>15. QED  BY <1>1, <1>13, <1>14, DescribeKeepsWalkInv

LEMMA ReadParamKeepsWalkInv ==
    ASSUME WalkInv, Walk, ReadParam
    PROVE  WalkInv'
<1>1. /\ Describing /\ Walking /\ UNCHANGED worldVars /\ step = "read" /\ step' = "read"
      /\ UNCHANGED <<tool, base, todo, here, groups, text, conf, queue>>
      /\ unread # <<>>
  BY DEF ReadParam, Describing, Walking
<1>2. PICK p : p = here
  OBVIOUS
<1>3. p \in Nodes /\ p \in Tree /\ Was(p) \subseteq Cgroups
  BY <1>1, <1>2, ReadAsSeen, HereInHand
<1>4. MoreSeen /\ Was(p)' = Was(p)
  BY <1>1, <1>3, SameSeen DEF worldVars
<1>5. PartAsSeen
  BY <1>1, WalkFacts
<1>6. PICK r \in Was(p), t \in Tasks(p), c \in Controls(p), k \in Seq(KnobsSeen(p)) :
          part = <<r.owner, Low[r.mode], t, c, k>> /\ HalfRead(k, unread, p)
  BY <1>1, <1>2, <1>5 DEF PartAsSeen
<1>7. PICK f : f = Head(unread)
  OBVIOUS
<1>8. PICK value : value = IF Exists(here) THEN tree[here].knobs[f] ELSE NoVal
  OBVIOUS
<1>9. PICK u : u = unread'
  OBVIOUS
<1>10. u = Tail(unread)
  BY <1>9 DEF ReadParam
<1>11. PICK x : x = unread
  OBVIOUS
<1>12. x \in Seq(Files \ Skipped) /\ x # <<>> /\ f = Head(x) /\ u = Tail(x) /\ HalfRead(k, x, p)
  BY <1>1, <1>6, <1>7, <1>10, <1>11 DEF HalfRead
<1>13. f \in Files \ Skipped
  BY <1>12, ElementsOfRest
<1>14. \E l : /\ part' = <<r.owner, Low[r.mode], t, c, l>>
              /\ l \in Seq(KnobsSeen(p)) /\ HalfRead(l, u, p)
  <2>1. CASE value \in Tables \cup {NoVal}
    <3>1. part' = part
      BY <1>7, <1>8, <2>1 DEF ReadParam
    <3>2. Stood(p) => \E y \in Was(p) : ~ HasParam(y, f)
      <4>1. SUFFICES ASSUME Stood(p) PROVE \E y \in Was(p) : ~ HasParam(y, f)
        OBVIOUS
      <4>2. Exists(here) /\ tree[here] \in Was(p)
        BY <1>1, <1>2, <4>1, ReadAsSeen
      <4>3. ~ HasParam(tree[here], f)
        BY <1>8, <2>1, <4>2 DEF HasParam
      <4>4. QED  BY <4>2, <4>3
    <3>3. HalfRead(k, u, p)
      BY <1>12, <3>2, FileLeftOut
    <3>4. QED  BY <1>6, <3>1, <3>3
  <2>2. CASE value \notin Tables \cup {NoVal}
    <3>1. Exists(here)
      BY <1>8, <2>2
    <3>2. PICK y \in Was(p) : y = tree[here]
      BY <1>1, <1>2, <3>1, ReadAsSeen
    <3>3. HasParam(y, f) /\ <<CtlOf[f], f, value>> = Knob(y, f)
      BY <1>8, <1>13, <2>2, <3>1, <3>2 DEF HasParam, Knob
    <3>4. PICK z : z = Knob(y, f)
      OBVIOUS
    <3>5. part' = [part EXCEPT ![5] = Append(@, z)]
      BY <1>7, <1>8, <2>2, <3>3, <3>4 DEF ReadParam
    <3>6. part' = <<r.owner, Low[r.mode], t, c, Append(k, z)>>
      BY <1>6, <3>5, FifthReplaced
    <3>7. Append(k, z) \in Seq(KnobsSeen(p)) /\ HalfRead(Append(k, z), u, p)
      BY <1>3, <1>12, <3>3, <3>4, FileRead
    <3>8. QED  BY <3>6, <3>7
  <2>3. QED  BY <2>1, <2>2
<1>15. PICK l : /\ part' = <<r.owner, Low[r.mode], t, c, l>>
                /\ l \in Seq(KnobsSeen(p)) /\ HalfRead(l, u, p)
  BY <1>14
<1>16. l \in Seq(KnobsSeen(p))' /\ HalfRead(l, u, p)'
  BY <1>3, <1>4, <1>15, HalfReadStays
<1>17. Tasks(p) \subseteq Tasks(p)' /\ Controls(p) \subseteq Controls(p)'
  BY <1>3, <1>4, SeenStaysSeen
<1>18. PartAsSeen'
  <2>1. /\ (Was(here) = Was(p) /\ Tasks(here) = Tasks(p) /\ Controls(here) = Controls(p))'
        /\ (KnobsSeen(here) = KnobsSeen(p))'
        /\ (HalfRead(l, unread, here) <=> HalfRead(l, u, p))'
    BY <1>1, <1>2, <1>9
  <2>2. r \in Was(p)' /\ t \in Tasks(p)' /\ c \in Controls(p)'
    BY <1>4, <1>17
  <2>3. QED  BY <1>1, <1>15, <1>16, <2>1, <2>2 DEF PartAsSeen
<1>19. Describing'
  BY <1>1 DEF Describing
<1>20. QED  BY <1>1, <1>18, <1>19, DescribeKeepsWalkInv

-----------------------------------------------------------------------------
(* A group is made of what describe read.                                  *)

LEMMA OwnerWordNames ==
    ASSUME accounts \subseteq Accounts, NEW uid \in DOMAIN Numeral
    PROVE  /\ OwnerWord(uid) \in OwnerWords /\ Named(OwnerWord(uid), uid)
           /\ OwnerWord(uid) \notin Unwritable
              \/ (uid \in Accounts /\ LoginOf[uid] \in Unwritable)
BY CgroupAssumption DEF OwnerWord, OwnerWords, Named

(* The perm section.                                                       *)
LEMMA PermReadAsSeen ==
    ASSUME accounts \subseteq Accounts, NEW p \in Tree, Was(p) \subseteq Cgroups,
           NEW r \in Was(p), NEW t \in Tasks(p), NEW fields,
           fields[1] = r.owner, fields[2] = Low[r.mode], fields[3] = t,
           NEW fm, (\E x \in Was(p) : fm = Low[x.fmode]) \/ (fm = NoVal /\ ~ Stood(p))
    PROVE  /\ PermAsSeen(PermRead(fields, fm), p)
           /\ WritablePerm(PermRead(fields, fm)) \/ \E x \in Was(p) : Unsayable(x)
<1>1. /\ \A x \in Was(p) : /\ {x.owner, x.task} \subseteq DOMAIN Numeral
                           /\ {Low[x.mode], Low[x.fmode]} \subseteq DOMAIN Digits
      /\ NoVal \notin DOMAIN Numeral /\ NoVal \notin [task : OwnerSets, admin : OwnerSets]
      /\ NoVal \notin Unwritable
  BY CgroupAssumption, CgroupFacts
<1>2. CASE t = NoVal
  <2>1. ~ Stood(p)
    BY <1>1, <1>2 DEF Tasks
  <2>2. PermRead(fields, fm) = NoVal
    BY <1>2 DEF PermRead
  <2>3. QED  BY <2>1, <2>2 DEF PermAsSeen, WritablePerm
<1>3. CASE t # NoVal
  <2>1. PICK x \in Was(p) : t = x.task
    BY <1>3 DEF Tasks
  <2>2. t \in DOMAIN Numeral /\ r.owner \in DOMAIN Numeral
    BY <1>1, <2>1
  <2>3. fm \in Modes /\ Low[r.mode] \in Modes /\ NoVal \in Modes
    BY <1>1 DEF Modes
  <2>4. PICK a : a = OwnerSet(r.owner, Low[r.mode], fm)
    OBVIOUS
  <2>5. PICK b : b = OwnerSet(t, NoVal, NoVal)
    OBVIOUS
  <2>6. /\ OwnerWord(t) \in OwnerWords /\ Named(OwnerWord(t), t)
        /\ OwnerWord(t) \notin Unwritable \/ (t \in Accounts /\ LoginOf[t] \in Unwritable)
        /\ OwnerWord(r.owner) \in OwnerWords /\ Named(OwnerWord(r.owner), r.owner)
        /\ OwnerWord(r.owner) \notin Unwritable
           \/ (r.owner \in Accounts /\ LoginOf[r.owner] \in Unwritable)
    BY <2>2, OwnerWordNames
  <2>7. a \in OwnerSets /\ b \in OwnerSets
    BY <2>3, <2>4, <2>5, <2>6 DEF OwnerSets, OwnerSet
  <2>8. PICK perm : perm = [task |-> b, admin |-> a]
    OBVIOUS
  <2>9. PermRead(fields, fm) = perm
    BY <1>3, <2>4, <2>5, <2>8 DEF PermRead
  <2>10. perm # NoVal
    BY <1>1, <2>7, <2>8
  <2>11. /\ perm.admin.uid = OwnerWord(r.owner) /\ perm.admin.gid = NoVal
         /\ perm.admin.dperm = Low[r.mode] /\ perm.admin.fperm = fm
         /\ perm.task.uid = OwnerWord(t) /\ perm.task.gid = NoVal
    BY <2>4, <2>5, <2>8 DEF OwnerSet
  <2>12. PermAsSeen(perm, p)
    <3>1. \E y \in Was(p) : Named(perm.admin.uid, y.owner) /\ perm.admin.dperm = Low[y.mode]
      BY <2>6, <2>11
    <3>2. \E y \in Was(p) : Named(perm.task.uid, y.task)
      BY <2>1, <2>6, <2>11
    <3>3. \/ \E y \in Was(p) : perm.admin.fperm = Low[y.fmode]
          \/ perm.admin.fperm = NoVal /\ ~ Stood(p)
      BY <2>11
    <3>4. QED  BY <2>10, <3>1, <3>2, <3>3 DEF PermAsSeen
  <2>13. ASSUME \A y \in Was(p) : ~ Unsayable(y) PROVE WritablePerm(perm)
    <3>1. {LoginOf[u] : u \in {r.owner, r.task} \cap Accounts} \cap Unwritable = {}
      BY <2>13 DEF Unsayable
    <3>2. {LoginOf[u] : u \in {x.owner, x.task} \cap Accounts} \cap Unwritable = {}
      BY <2>13 DEF Unsayable
    <3>3. OwnerWord(r.owner) \notin Unwritable /\ OwnerWord(t) \notin Unwritable
      BY <2>1, <2>6, <3>1, <3>2
    <3>4. QED  BY <1>1, <2>11, <3>3 DEF WritablePerm, WritableSet
  <2>14. QED  BY <2>9, <2>12, <2>13
<1>4. QED  BY <1>2, <1>3

LEMMA SortedControllers ==
    ASSUME NEW p \in Tree, Was(p) \subseteq Cgroups, NEW c \in Controls(p)
    PROVE  /\ ToSet(Sorted(c)) = c
           /\ (\E r \in Was(p) : c = r.ctl) \/ (Sorted(c) = <<>> /\ ~ Stood(p))
<1>1. ASSUME NEW r \in Was(p), c = r.ctl PROVE ToSet(Sorted(c)) = c
  <2>1. IsFiniteSet(c)
    BY <1>1, CgroupFacts
  <2>2. QED  BY <2>1, ElementsOfSet DEF Sorted
<1>2. ASSUME c = {} PROVE ToSet(Sorted(c)) = c /\ Sorted(c) = <<>>
  <2>1. IsFiniteSet(c)
    BY <1>2, FS_EmptySet
  <2>2. Sorted(c) \in Seq({}) /\ ToSet(Sorted(c)) = c
    BY <1>2, <2>1, ElementsOfSet DEF Sorted
  <2>3. QED  BY <2>2
<1>3. QED  BY <1>1, <1>2 DEF Controls

LEMMA DescribesWhatItRead ==
    ASSUME accounts \subseteq Accounts, NEW p \in Tree, Was(p) \subseteq Cgroups,
           NEW r \in Was(p), NEW t \in Tasks(p), NEW c \in Controls(p),
           NEW k, HalfRead(k, <<>>, p),
           NEW fields, fields = <<r.owner, Low[r.mode], t, c, k>>,
           NEW fm, (\E x \in Was(p) : fm = Low[x.fmode]) \/ (fm = NoVal /\ ~ Stood(p)),
           NEW n, n = [name |-> NameOf[p], perm |-> PermRead(fields, fm),
                       controllers |-> Sorted(fields[4]), params |-> fields[5]]
    PROVE  Describes(n, p)
<1>1. /\ fields[1] = r.owner /\ fields[2] = Low[r.mode] /\ fields[3] = t
      /\ fields[4] = c /\ fields[5] = k
  OBVIOUS
<1>2. /\ n.name = NameOf[p] /\ n.perm = PermRead(fields, fm)
      /\ n.controllers = Sorted(c) /\ n.params = k
  BY <1>1
<1>3. /\ PermAsSeen(n.perm, p)
      /\ WritablePerm(n.perm) \/ \E x \in Was(p) : Unsayable(x)
  BY <1>1, <1>2, PermReadAsSeen
<1>4. /\ ToSet(n.controllers) = c
      /\ (\E x \in Was(p) : c = x.ctl) \/ (n.controllers = <<>> /\ ~ Stood(p))
  BY <1>2, SortedControllers
<1>5. ParamsAsSeen(n.params, p)
  BY <1>2, AllRead
<1>6. AsSeen(n, p)
  BY <1>3, <1>4, <1>5 DEF AsSeen
<1>7. ASSUME n.name \notin Unwritable, \A x \in Was(p) : ~ Unsayable(x)
      PROVE  WritableNode(n)
  <2>1. ToSet(n.controllers) \cap (Special \cup Unwritable) = {}
    <3>1. CASE c = {}
      BY <1>4, <3>1
    <3>2. ASSUME NEW x \in Was(p), c = x.ctl PROVE c \cap (Special \cup Unwritable) = {}
      BY <1>7, <3>2 DEF Unsayable
    <3>3. n.controllers = <<>> => c = {}
      BY <1>4 DEF ToSet
    <3>4. QED  BY <1>4, <3>1, <3>2, <3>3
  <2>2. ASSUME NEW i \in DOMAIN n.params
        PROVE  /\ n.params[i][1] \notin Special \cup Unwritable
               /\ {n.params[i][2], n.params[i][3]} \cap Unwritable = {}
    <3>1. PICK x \in Was(p) : n.params[i] \in Knobs(x)
      BY <1>5, <2>2 DEF ParamsAsSeen
    <3>2. PICK y : y = n.params[i]
      OBVIOUS
    <3>3. y \in Knobs(x)
      BY <3>1, <3>2
    <3>4. /\ (x.ctl \cup {z[1] : z \in Knobs(x)}) \cap (Special \cup Unwritable) = {}
          /\ (UNION {{z[2], z[3]} : z \in Knobs(x)}) \cap Unwritable = {}
      BY <1>7 DEF Unsayable
    <3>5. y[1] \notin Special \cup Unwritable
      BY <3>3, <3>4
    <3>6. PICK words : words = UNION {{z[2], z[3]} : z \in Knobs(x)}
      OBVIOUS
    <3>7. words \cap Unwritable = {}
      BY <3>4, <3>6, Zenon
    <3>8. {y[2], y[3]} \subseteq words
      <4>1. {y[2], y[3]} \in {{z[2], z[3]} : z \in Knobs(x)}
        BY <3>3
      <4>2. QED  BY <3>6, <4>1
    <3>9. QED  BY <3>2, <3>5, <3>7, <3>8
  <2>3. QED  BY <1>3, <1>7, <2>1, <2>2 DEF WritableNode
<1>8. n.perm # NoVal => n.perm.task.fperm = NoVal
  <2>1. SUFFICES ASSUME PermRead(fields, fm) # NoVal PROVE PermRead(fields, fm).task.fperm = NoVal
    BY <1>2
  <2>2. PermRead(fields, fm) = [task  |-> OwnerSet(fields[3], NoVal, NoVal),
                                admin |-> OwnerSet(fields[1], fields[2], fm)]
    BY <2>1 DEF PermRead
  <2>3. OwnerSet(fields[3], NoVal, NoVal).fperm = NoVal
    BY DEF OwnerSet
  <2>4. QED  BY <2>2, <2>3
<1>9. QED  BY <1>2, <1>6, <1>7, <1>8 DEF Describes

LEMMA PermStepKeepsWalkInv ==
    ASSUME WalkInv, Walk, PermStep
    PROVE  WalkInv'
<1>1. /\ Walking /\ Describing /\ step = "read" /\ step' = "list" /\ ~ Describing' /\ Walking'
      /\ unread = <<>>
      /\ UNCHANGED <<tool, base, todo, here, text, worldVars>>
  BY DEF PermStep, Walking, Describing
<1>2. PICK p : p = here
  OBVIOUS
<1>3. tool = "snapshot" /\ p \in Tree /\ Was(p) # {} /\ Was(p) \subseteq Cgroups
  BY <1>1, <1>2, HereInHand
<1>4. /\ FoundInOrder /\ TodoAhead /\ ListedWhole /\ WalkTypeOK /\ PartAsSeen /\ GroupsAsSeen
      /\ accounts \subseteq Accounts
  BY <1>1, <1>3, WalkFacts DEF WalkTypeOK
<1>5. MoreSeen /\ \A q \in Nodes : Was(q)' = Was(q) /\ Stood(q)' = Stood(q)
  BY <1>1, SameSeen DEF worldVars
<1>6. PICK r \in Was(p), t \in Tasks(p), c \in Controls(p), k \in Seq(KnobsSeen(p)) :
          part = <<r.owner, Low[r.mode], t, c, k>> /\ HalfRead(k, <<>>, p)
  BY <1>1, <1>2, <1>4 DEF PartAsSeen
<1>7. PICK fm : fm = IF Exists(here) THEN Low[tree[here].fmode] ELSE NoVal
  OBVIOUS
<1>8. (\E x \in Was(p) : fm = Low[x.fmode]) \/ (fm = NoVal /\ ~ Stood(p))
  <2>1. CASE Exists(here)
    BY <1>1, <1>2, <1>7, <2>1, ReadAsSeen
  <2>2. CASE ~ Exists(here)
    BY <1>1, <1>2, <1>7, <2>2, HereIsKnown
  <2>3. QED  BY <2>1, <2>2
<1>9. PICK n : n = [name |-> NameOf[p], perm |-> PermRead(part, fm),
                    controllers |-> Sorted(part[4]), params |-> part[5]]
  OBVIOUS
<1>10. Describes(n, p)
  BY <1>3, <1>4, <1>6, <1>8, <1>9, DescribesWhatItRead
<1>11. groups' = Append(groups, n)
  BY <1>2, <1>7, <1>9 DEF PermStep
<1>12. PICK A : A = ToSet(groups) \cup {n}
  OBVIOUS
<1>13. groups \in Seq(A) /\ n \in A
  BY <1>4, <1>12 DEF WalkTypeOK
<1>14. PICK g : g = Append(groups, n)
  OBVIOUS
<1>15. /\ g \in Seq(A) /\ ToSet(g) = A /\ Len(g) = Len(groups) + 1
       /\ g[Len(groups) + 1] = n /\ \A i \in 1..Len(groups) : g[i] = groups[i]
       /\ Len(groups) \in Nat /\ DOMAIN groups = 1..Len(groups)
       /\ DOMAIN g = 1..(Len(groups) + 1)
  BY <1>12, <1>13, <1>14, ElementsOfAppend
<1>16. \A i \in 1..(Len(groups) + 1) : i \in 1..Len(groups) \/ i = Len(groups) + 1
  BY <1>15
<1>17. (groups \in Seq(ToSet(groups)))'
  BY <1>11, <1>14, <1>15
<1>18. GroupsAsSeen'
  <2>1. SUFFICES ASSUME NEW i \in 1..(Len(groups) + 1)
                 PROVE  \E q \in Tree : Was(q)' # {} /\ Describes(g[i], q)'
    BY <1>11, <1>14, <1>15 DEF GroupsAsSeen, Describes
  <2>2. PICK m : m = g[i]
    OBVIOUS
  <2>3. PICK q \in Tree : Was(q) # {} /\ Describes(m, q)
    BY <1>3, <1>4, <1>10, <1>15, <1>16, <2>2 DEF GroupsAsSeen
  <2>4. Was(q)' # {} /\ Describes(m, q)'
    BY <1>5, <2>3, SeenStaysSeen, DescribedStaysSeen DEF Nodes
  <2>5. QED  BY <1>15, <2>2, <2>4
<1>19. Visited' = Visited
  <2>1. PICK f : f = Found
    OBVIOUS
  <2>2. f = [i \in 1..Len(groups) |-> PathOf[groups[i].name]]
    BY <1>3, <1>15, <2>1 DEF Found
  <2>3. Found' = [i \in 1..(Len(groups) + 1) |-> PathOf[g[i].name]]
    BY <1>1, <1>3, <1>11, <1>14, <1>15 DEF Found
  <2>4. PICK B : B = {f[i] : i \in 1..Len(groups)} \cup {p}
    OBVIOUS
  <2>5. f \in Seq(B) /\ Len(f) = Len(groups) /\ p \in B
    BY <1>15, <2>2, <2>4
  <2>6. PathOf[n.name] = p
    BY <1>3, <1>9, SnapshotAssumption
  <2>7. PICK w : w = Found'
    OBVIOUS
  <2>8. w \in Seq(B) /\ Len(w) = Len(f) + 1 /\ w[Len(w)] = p
        /\ \A i \in 1..Len(f) : w[i] = f[i]
    <3>1. \A i \in 1..Len(groups) : i \in 1..(Len(groups) + 1) /\ w[i] = f[i]
      BY <1>15, <2>2, <2>3, <2>7
    <3>2. w[Len(groups) + 1] = p
      BY <1>15, <2>3, <2>6, <2>7
    <3>3. w \in [1..(Len(groups) + 1) -> B]
      BY <1>16, <2>3, <2>4, <2>7, <3>1, <3>2
    <3>4. w \in Seq(B) /\ Len(w) = Len(groups) + 1
      BY <1>15, <3>3
    <3>5. QED  BY <1>15, <2>5, <3>1, <3>2, <3>4
  <2>9. Append(f, p) = w
    BY <2>5, <2>8, AppendsTo
  <2>10. QED  BY <1>1, <1>2, <2>1, <2>7, <2>9 DEF Visited
<1>20. Below' = Below
  BY <1>1 DEF Below
<1>21. \A q \in ToSet(Visited) \cup ToSet(todo) : Was(q)' # {}
  <2>1. \A q \in ToSet(Visited) \cup ToSet(todo) : Was(q) # {} /\ q \in Nodes
    BY <1>1, <1>4, WalkFacts DEF FoundInOrder, TodoAhead, Below, Nodes
  <2>2. QED  BY <1>5, <2>1
<1>22. FoundInOrder'
  BY <1>1, <1>4, <1>19, <1>20, <1>21 DEF FoundInOrder, ParentsFirst
<1>23. TodoAhead'
  BY <1>1, <1>4, <1>19, <1>20, <1>21 DEF TodoAhead
<1>24. ListedWhole'
  BY <1>1, <1>4, <1>5, <1>19 DEF ListedWhole, Nodes
<1>25. PartAsSeen'
  BY <1>1 DEF PartAsSeen
<1>26. \A q \in (ToSet(todo) \cup {here})' : q \in ToSet(todo) \cup {here}
  BY <1>1
<1>27. QED
  BY <1>1, <1>17, <1>18, <1>22, <1>23, <1>24, <1>25, <1>26, WalkGoesOn

-----------------------------------------------------------------------------
(* The text.                                                               *)

(* An empty file parses and asks for nothing.                              *)
LEMMA NothingIsRead ==
    /\ Parse(<<>>) # Unreadable
    /\ Those(ByDepth(Parse(<<>>).groups), LAMBDA n : n.name # ".") = <<>>
<1>1. DOMAIN <<>> = {} /\ 1..0 = {} /\ <<>> \in Seq({<<>>})
  OBVIOUS
<1>2. \A f : f \in [{} -> {<<>>}] => f \in Seq({<<>>})
  <2>1. SUFFICES ASSUME NEW f \in [1..0 -> {<<>>}] PROVE f \in Seq({<<>>})
    BY <1>1
  <2>2. 0 \in Nat
    OBVIOUS
  <2>3. QED  BY <2>1, <2>2
<1>3. \A f : f \in [{} -> {<<>>}] => f = <<>>
  BY <1>1
<1>4. \A kw : NodesOf(<<>>, kw) = <<>>
  <2>1. SUFFICES ASSUME NEW kw PROVE NodesOf(<<>>, kw) = <<>>
    OBVIOUS
  <2>2. PICK ss : ss = SectionsOf(<<>>, kw)
    OBVIOUS
  <2>3. PICK e : e = [i \in DOMAIN <<>> |-> IF <<>>[i].kw = kw THEN <<<<>>[i]>> ELSE <<>>]
    OBVIOUS
  <2>4. e \in [{} -> {<<>>}]
    BY <1>1, <2>3
  <2>5. FlattenSeq(e) = <<>>
    BY <1>2, <2>4, FlattenEmpties
  <2>6. ss = <<>>
    BY <2>2, <2>3, <2>5 DEF Those, SectionsOf
  <2>7. [i \in DOMAIN ss |-> NodeOf(ss[i])] \in [{} -> {<<>>}]
    BY <1>1, <2>6
  <2>8. QED  BY <1>3, <2>2, <2>7 DEF NodesOf
<1>5. Parse(<<>>) = [mounts |-> MountsOf(<<>>), default |-> DefaultOf(<<>>),
                     groups |-> NodesOf(<<>>, "group"),
                     templates |-> NodesOf(<<>>, "template")]
  BY <1>1 DEF Parse
<1>6. Parse(<<>>) # Unreadable
  BY <1>5 DEF Unreadable
<1>7. Parse(<<>>).groups = <<>>
  BY <1>4, <1>5
<1>8. ByDepth(<<>>) = <<>>
  <2>1. \A d : Those(<<>>, LAMBDA n : Len(PathOf[n.name]) = d) = <<>>
    <3>1. SUFFICES ASSUME NEW d PROVE Those(<<>>, LAMBDA n : Len(PathOf[n.name]) = d) = <<>>
      OBVIOUS
    <3>2. PICK e : e = [i \in DOMAIN <<>> |-> IF Len(PathOf[<<>>[i].name]) = d
                                             THEN <<<<>>[i]>> ELSE <<>>]
      OBVIOUS
    <3>3. e \in [{} -> {<<>>}]
      BY <1>1, <3>2
    <3>4. FlattenSeq(e) = <<>>
      BY <1>2, <3>3, FlattenEmpties
    <3>5. QED  BY <3>2, <3>4 DEF Those
  <2>2. PICK m : m = Max({0} \cup {Len(PathOf[n.name]) : n \in ToSet(<<>>)})
    OBVIOUS
  <2>3. m = 0
    <3>1. {0} \cup {Len(PathOf[n.name]) : n \in ToSet(<<>>)} = {0}
      BY <1>1 DEF ToSet
    <3>2. QED  BY <2>2, <3>1 DEF Max
  <2>4. PICK e : e = [d \in 1..m |-> Those(<<>>, LAMBDA n : Len(PathOf[n.name]) = d)]
    OBVIOUS
  <2>5. e \in [{} -> {<<>>}]
    BY <1>1, <2>3, <2>4
  <2>6. FlattenSeq(e) = <<>>
    BY <1>2, <2>5, FlattenEmpties
  <2>7. QED  BY <2>2, <2>4, <2>6 DEF ByDepth
<1>9. Those(<<>>, LAMBDA n : n.name # ".") = <<>>
  <2>1. PICK e : e = [i \in DOMAIN <<>> |-> IF <<>>[i].name # "." THEN <<<<>>[i]>> ELSE <<>>]
    OBVIOUS
  <2>2. e \in [{} -> {<<>>}]
    BY <1>1, <2>1
  <2>3. FlattenSeq(e) = <<>>
    BY <1>2, <2>2, FlattenEmpties
  <2>4. QED  BY <2>1, <2>3 DEF Those
<1>10. QED  BY <1>6, <1>7, <1>8, <1>9

(* What is not written holds a group that cannot be.                       *)
LEMMA UnwrittenForCause ==
    ASSUME WalkInv, Walk, tool = "snapshot", step = "render", Display(Described) = Unwritten
    PROVE  Inexpressible
<1>1. WalkTypeOK /\ GroupsAsSeen
  BY DEF WalkInv
<1>2. DOMAIN <<>> = {}
  OBVIOUS
<1>3. /\ Described.mounts = <<>> /\ Described.default = NoVal
      /\ Described.groups = groups /\ Described.templates = <<>>
  BY DEF Described
<1>4. ASSUME Writable(Described) PROVE FALSE
  <2>1. PICK n : n = Len(groups)
    OBVIOUS
  <2>2. n \in Nat /\ DOMAIN groups = 1..n
    BY <1>1, <2>1 DEF WalkTypeOK
  <2>3. PICK g : g = NodeSections("group", groups)
    OBVIOUS
  <2>4. g = [i \in 1..n |-> Section("group", Write(groups[i].name), <<>>, NodeBlocks(groups[i]))]
    BY <2>2, <2>3 DEF NodeSections
  <2>5. g \in Seq({g[i] : i \in 1..n}) /\ DOMAIN g = 1..n
    BY <2>2, <2>4
  <2>6. NodeSections("template", <<>>) = <<>>
    BY <1>2 DEF NodeSections
  <2>7. Sections(Described) = g
    BY <1>3, <2>3, <2>5, <2>6 DEF Sections
  <2>8. g = <<[kw |-> "error"]>>
    BY <1>4, <2>7 DEF Display, Unwritten
  <2>9. 1 \in DOMAIN g /\ g[1].kw = "error"
    BY <2>8
  <2>10. g[1].kw = "group"
    BY <2>4, <2>5, <2>9 DEF Section
  <2>11. QED  BY <2>9, <2>10
<1>5. PICK i \in DOMAIN groups : ~ WritableNode(groups[i])
  BY <1>2, <1>3, <1>4 DEF Writable, WritablePerm
<1>6. PICK n : n = groups[i]
  OBVIOUS
<1>7. PICK p \in Tree : Was(p) # {} /\ Describes(n, p)
  BY <1>1, <1>6 DEF GroupsAsSeen
<1>8. PathOf[n.name] = p
  BY <1>7, SnapshotAssumption DEF Describes
<1>9. Beyond(n)
  BY <1>5, <1>6, <1>7, <1>8 DEF Describes, Beyond
<1>10. Beyond(groups[i])
  BY <1>6, <1>9
<1>11. QED  BY <1>1, <1>10 DEF WalkTypeOK, Inexpressible

(* Once the walk is over the tool only reads, parses and applies.          *)
LEMMA AfterTheWalk ==
    ASSUME WalkInv, Walk, step \in {"render", "saved", "apply"},
           step' \in {"saved", "apply", "done"}, NothingFromNothing',
           UNCHANGED <<tool, base, groups, accounts, seen>>
    PROVE  WalkInv'
<1>1. /\ WalkTypeOK /\ FoundInOrder /\ tool = "snapshot" /\ Complete /\ Visited = Found
  BY DEF WalkInv, WalkTypeOK, Walk, Complete, Visited, Describing
<1>2. MoreSeen /\ \A p \in Nodes : Was(p)' = Was(p)
  BY SameSeen
<1>3. /\ GroupsAsSeen' /\ Walk' /\ Found' = Found /\ ToSet(groups)' = ToSet(groups)
      /\ WalkFindsAll'
  BY <1>1, <1>2, FoundStaysFound
<1>4. Below' = Below /\ Visited' = Visited /\ ~ Walking' /\ ~ Describing'
  BY <1>1, <1>3 DEF Below, Visited, Walking, Describing
<1>5. WalkTypeOK'
  BY <1>1, <1>3, <1>4 DEF WalkTypeOK
<1>6. FoundInOrder'
  <2>1. \A p \in ToSet(Visited) : Was(p) # {} /\ p \in Nodes
    BY <1>1 DEF FoundInOrder, ToSet, Below, Nodes
  <2>2. \A p \in ToSet(Visited) : Was(p)' # {}
    BY <1>2, <2>1
  <2>3. QED  BY <1>1, <1>4, <2>2 DEF FoundInOrder, ParentsFirst
<1>7. SnapshotFailsForCause'
  BY DEF SnapshotFailsForCause
<1>8. QED  BY <1>3, <1>4, <1>5, <1>6, <1>7 DEF WalkInv

(* What cgctl config leaves alone when it applies a node.                  *)
LEMMA ApplyNodeLeaves ==
    ASSUME ApplyNode
    PROVE  /\ step = "apply" /\ queue # <<>>
           /\ UNCHANGED <<accounts, seen, lost, changes>>
           /\ Fail \/ UNCHANGED <<tool, step, base, todo, here, part, unread, groups, text,
                                  conf>>
<1>1. step = "apply" /\ queue # <<>> /\ UNCHANGED <<accounts, seen, lost, changes>>
  BY Zenon DEF ApplyNode
<1>2. Fail \/ UNCHANGED <<tool, step, base, todo, here, part, unread, groups, text, conf>>
  BY Zenon DEF ApplyNode
<1>3. QED  BY <1>1, <1>2

LEMMA TextStepsKeepWalkInv ==
    ASSUME WalkInv, Walk, Render \/ ReadConfig \/ ApplyNode \/ EndConfig
    PROVE  WalkInv'
<1>1. ASSUME Render PROVE WalkInv'
  <2>1. tool = "snapshot"
    BY <1>1 DEF WalkInv, WalkTypeOK, Walk, Render
  <2>2. CASE Display(Described) = Unwritten
    <3>1. Inexpressible
      BY <1>1, <2>1, <2>2, UnwrittenForCause DEF Render
    <3>2. QED  BY <1>1, <2>2, <3>1, FailKeepsWalkInv DEF Render, worldVars
  <2>3. CASE Display(Described) # Unwritten
    BY <1>1, <2>3, AfterTheWalk DEF Render, worldVars, NothingFromNothing
  <2>4. QED  BY <2>2, <2>3
<1>2. ASSUME ReadConfig PROVE WalkInv'
  <2>1. CASE Parse(text) = Unreadable
    <3>1. text # <<>>
      BY <2>1, NothingIsRead
    <3>2. QED  BY <1>2, <2>1, <3>1, FailKeepsWalkInv DEF ReadConfig, worldVars
  <2>2. CASE Parse(text) # Unreadable
    <3>1. /\ step = "saved" /\ step' = "apply" /\ text' = text
          /\ UNCHANGED <<tool, base, groups, accounts, seen>>
      BY <1>2, <2>2 DEF ReadConfig, worldVars
    <3>2. queue' = Those(ByDepth(Parse(text).groups), LAMBDA n : n.name # ".")
      BY <1>2, <2>2 DEF ReadConfig
    <3>3. NothingFromNothing'
      BY <3>1, <3>2, NothingIsRead DEF NothingFromNothing
    <3>4. QED  BY <3>1, <3>3, AfterTheWalk
  <2>3. QED  BY <2>1, <2>2
<1>3. ASSUME ApplyNode PROVE WalkInv'
  <2>1. step = "apply" /\ text # <<>> /\ UNCHANGED <<accounts, seen>>
    BY <1>3, ApplyNodeLeaves DEF WalkInv, NothingFromNothing
  <2>2. CASE Fail
    BY <2>1, <2>2, FailKeepsWalkInv
  <2>3. CASE UNCHANGED <<tool, step, base, groups, text>>
    BY <2>1, <2>3, AfterTheWalk DEF NothingFromNothing
  <2>4. Fail \/ UNCHANGED <<tool, step, base, groups, text>>
    BY <1>3, ApplyNodeLeaves
  <2>5. QED  BY <2>2, <2>3, <2>4
<1>4. ASSUME EndConfig PROVE WalkInv'
  BY <1>4, AfterTheWalk DEF EndConfig, worldVars, NothingFromNothing
<1>5. QED  BY <1>1, <1>2, <1>3, <1>4

-----------------------------------------------------------------------------
(* The theorems.                                                           *)

LEMMA StepKeepsWalkInv ==
    ASSUME WalkInv, [Next]_vars
    PROVE  WalkInv'
<1>1. CASE UNCHANGED snapVars
  <2>1. (tool' = tool) /\ (Walk' => Walk)
    BY <1>1 DEF snapVars, toolVars, Walk
  <2>2. SUFFICES ASSUME Walk PROVE WalkInv'
    BY <2>1 DEF WalkInv
  <2>3. UNCHANGED toolVars /\ UNCHANGED <<accounts, seen, tree, lost>>
    BY <1>1 DEF snapVars, worldVars
  <2>4. MoreSeen /\ \A p \in Tree : seen'[p] \subseteq Cgroups \cup {Absent}
    BY <2>2, <2>3, SameSeen
  <2>5. Walking => TreeSeen' /\ LossNoted'
    BY <2>2, <2>3 DEF WalkInv, TreeSeen, LossNoted, Exists, toolVars
  <2>6. QED  BY <2>2, <2>3, <2>4, <2>5, OthersKeepWalkInv
<1>2. CASE SnapNext
  <2>1. tool' = tool
    BY <1>2, ApplyNodeLeaves
       DEF SnapNext, ToolStep, OtherStep, List, Visit, EndWalk, Meta, Procs, Controllers,
                Params, ReadParam, PermStep, Render, ReadConfig, EndConfig, Describe, Fail,
                OtherChange, OtherRmdir, Change, Userdel, Reboot, toolVars
  <2>2. SUFFICES ASSUME Walk PROVE WalkInv'
    BY <2>1 DEF WalkInv, Walk
  <2>3. CASE ToolStep
    BY <2>2, <2>3, ListKeepsWalkInv, VisitKeepsWalkInv, EndWalkKeepsWalkInv,
       DescribeStepsKeepWalkInv, ParamsKeepsWalkInv, ReadParamKeepsWalkInv,
       PermStepKeepsWalkInv, TextStepsKeepWalkInv DEF ToolStep
  <2>4. CASE OtherStep
    BY <2>2, <2>4, OtherStepKeepsWalkInv
  <2>5. QED  BY <1>2, <2>3, <2>4 DEF SnapNext
<1>3. QED  BY <1>1, <1>2 DEF Next, vars

(* WalkStaysTrue: the inductive invariant of cgctl snapshot and ls, over   *)
(* every tree and whatever others do to it.                                *)
THEOREM WalkStaysTrue == Spec => []WalkInv
<1>1. Init => WalkInv
  BY StartsInWalkInv DEF Init, CgctlRests, WalkInv, Walk
<1>2. WalkInv /\ [Next]_vars => WalkInv'
  BY StepKeepsWalkInv
<1>3. QED  BY <1>1, <1>2, PTL DEF Spec

(* WalkAlwaysFindsAll: a walk that completes has found every cgroup that   *)
(* stood all along, once, parents first, and none that never was.          *)
THEOREM WalkAlwaysFindsAll == Spec => []WalkFindsAll
<1>1. WalkInv => WalkFindsAll
  BY DEF WalkInv, WalkFindsAll, Complete
<1>2. QED  BY <1>1, WalkStaysTrue, PTL

(* AlwaysDescribedAsSeen: every value of a finished snapshot is one the    *)
(* cgroup had during the walk; an owner, a mode or the controllers are     *)
(* missing only if the cgroup was gone, a parameter only if at some time   *)
(* it was not there to be read.                                            *)
THEOREM AlwaysDescribedAsSeen == Spec => []DescribedAsSeen
<1>1. WalkInv => DescribedAsSeen
  <2>1. SUFFICES ASSUME WalkInv, Complete, tool = "snapshot", NEW i \in DOMAIN groups
                 PROVE  AsSeen(groups[i], PathOf[groups[i].name])
    BY DEF DescribedAsSeen
  <2>2. PICK p \in Tree : Describes(groups[i], p)
    BY <2>1 DEF WalkInv, Complete, GroupsAsSeen
  <2>3. PathOf[groups[i].name] = p
    BY <2>2, SnapshotAssumption DEF Describes
  <2>4. QED  BY <2>2, <2>3 DEF Describes
<1>2. QED  BY <1>1, WalkStaysTrue, PTL

(* SnapshotAlwaysFailsForCause: a snapshot or ls that fails does so for    *)
(* the directory in hand, the base or one removed after it was listed, or  *)
(* for a group it described that the syntax cannot say.                    *)
THEOREM SnapshotAlwaysFailsForCause == Spec => []SnapshotFailsForCause
<1>1. WalkInv => SnapshotFailsForCause
  BY DEF WalkInv, SnapshotFailsForCause
<1>2. QED  BY <1>1, WalkStaysTrue, PTL

-----------------------------------------------------------------------------
(* What is written of a walk, and of any file, is read back.               *)

(* A group as describe makes it.                                           *)
Shaped(n) ==
    /\ n = [name |-> n.name, perm |-> n.perm, controllers |-> n.controllers,
            params |-> n.params]
    /\ n.perm # NoVal => n.perm \in [task : OwnerSets, admin : OwnerSets]
    /\ n.controllers \in Seq(ToSet(n.controllers)) /\ IsInjective(n.controllers)
    /\ "perm" \notin ToSet(n.controllers)
    /\ n.params \in Seq(ToSet(n.params)) /\ StandTogether(n.params)
    /\ \A p \in ToSet(n.params) : p = <<p[1], p[2], p[3]>> /\ p[1] # "perm"

AreShaped(nodes) == nodes \in Seq(ToSet(nodes)) /\ \A n \in ToSet(nodes) : Shaped(n)

ConfRead == step \in {"apply", "done", "failed"}

TextInv ==
    /\ tool \in {"snapshot", "ls", "config"} \/ job = "load"
    /\ tool = "config" => text \in Scripts /\ (step = "saved" \/ ConfRead)
    /\ tool = "ls" => conf = Unreadable /\ ~ (step \in {"render", "saved", "apply"})
    /\ tool = "snapshot" =>
           /\ AreShaped(groups)
           /\ step \in {"saved", "apply"} =>
                  text = Display(Described) /\ Display(Described) # Unwritten
    /\ conf # Unreadable => /\ IsFile(conf) /\ ConfRead
                            /\ tool = "snapshot" => conf = Described

LEMMA ShapedIsNode ==
    ASSUME NEW n, Shaped(n), WritableNode(n)
    PROVE  IsNode(n) /\ Regrouped(n) = n
<1>1. Regrouped(n) = n
  BY TogetherIsRegrouped DEF Shaped
<1>2. IsPerm(n.perm)
  <2>1. SUFFICES ASSUME n.perm # NoVal PROVE IsPerm(n.perm)
    BY DEF IsPerm
  <2>2. PICK p \in [task : OwnerSets, admin : OwnerSets] : p = n.perm
    BY <2>1 DEF Shaped
  <2>3. WritableSet(p.task) /\ WritableSet(p.admin)
    BY <2>1, <2>2 DEF WritableNode, WritablePerm
  <2>4. ASSUME NEW s \in OwnerSets, WritableSet(s) PROVE IsSet(s)
    <3>1. /\ s = [uid |-> s.uid, gid |-> s.gid, dperm |-> s.dperm, fperm |-> s.fperm]
          /\ {s.dperm, s.fperm} \subseteq DOMAIN Digits \cup {NoVal}
      BY DEF OwnerSets, Modes
    <3>2. s.uid \notin Unwritable /\ s.gid \notin Unwritable
      BY <2>4 DEF WritableSet
    <3>3. QED  BY <3>1, <3>2 DEF IsSet
  <2>5. p = [task |-> p.task, admin |-> p.admin] /\ p.task \in OwnerSets /\ p.admin \in OwnerSets
    OBVIOUS
  <2>6. QED  BY <2>2, <2>3, <2>4, <2>5 DEF IsPerm
<1>3. \A c \in ToSet(n.controllers) : PlainHead(c) /\ c # "perm"
  BY DEF Shaped, WritableNode, PlainHead
<1>4. ASSUME NEW p \in ToSet(n.params) PROVE IsParam(p)
  <2>1. PICK i \in DOMAIN n.params : p = n.params[i]
    BY DEF ToSet
  <2>2. p[1] \notin Special \cup Unwritable /\ {p[2], p[3]} \cap Unwritable = {}
    BY <2>1 DEF WritableNode
  <2>3. p = <<p[1], p[2], p[3]>>
    BY DEF Shaped
  <2>4. QED  BY <2>2, <2>3 DEF IsParam, PlainHead
<1>5. n.name \notin Unwritable
  BY DEF WritableNode
<1>6. QED  BY <1>1, <1>2, <1>3, <1>4, <1>5 DEF Shaped, IsNode

(* A snapshot that is written is a file, with nothing to regroup.          *)
LEMMA DescribedIsFile ==
    ASSUME AreShaped(groups), Display(Described) # Unwritten
    PROVE  IsFile(Described) /\ Normal(Described) = Described
<1>1. /\ Described.mounts = <<>> /\ Described.default = NoVal
      /\ Described.groups = groups /\ Described.templates = <<>>
      /\ Described = [mounts |-> Described.mounts, default |-> Described.default,
                      groups |-> Described.groups, templates |-> Described.templates]
  BY DEF Described
<1>2. \A i \in DOMAIN groups : WritableNode(groups[i])
  BY <1>1 DEF Display, Writable
<1>3. \A n \in ToSet(groups) : WritableNode(n)
  BY <1>2 DEF ToSet
<1>4. AreNodes(groups)
  BY <1>3, ShapedIsNode DEF AreShaped, AreNodes
<1>5. ToSet(<<>>) = {} /\ <<>> \in Seq(ToSet(<<>>))
  BY NoneAtAll
<1>6. AreNodes(<<>>) /\ AreMounts(<<>>) /\ IsPerm(NoVal)
  BY <1>5 DEF AreNodes, AreMounts, IsPerm
<1>7. IsFile(Described)
  BY <1>1, <1>4, <1>6 DEF IsFile
<1>8. [i \in DOMAIN groups |-> Regrouped(groups[i])] = groups
  <2>1. \A i \in DOMAIN groups : Regrouped(groups[i]) = groups[i]
    <3>1. SUFFICES ASSUME NEW i \in DOMAIN groups PROVE Regrouped(groups[i]) = groups[i]
      OBVIOUS
    <3>2. PICK n \in ToSet(groups) : n = groups[i]
      BY DEF ToSet
    <3>3. QED  BY <1>3, <3>2, ShapedIsNode DEF AreShaped
  <2>2. PICK m \in Nat : DOMAIN groups = 1..m /\ groups = [i \in 1..m |-> groups[i]]
    BY DEF AreShaped
  <2>3. QED  BY <2>1, <2>2
<1>9. [i \in DOMAIN <<>> |-> Regrouped(<<>>[i])] = <<>>
  BY NoneAtAll
<1>10. Normal(Described) = [Described EXCEPT !.groups = groups, !.templates = <<>>]
  BY <1>1, <1>8, <1>9 DEF Normal
<1>11. QED  BY <1>1, <1>7, <1>10

(* A group is shaped by what describe read.                                *)
LEMMA PermStepShapes ==
    ASSUME WalkInv, Walk, AreShaped(groups), PermStep
    PROVE  AreShaped(groups)'
<1>1. Describing /\ Walking /\ step = "read" /\ unread = <<>>
  BY DEF PermStep, Walking, Describing
<1>2. PICK p : p = here
  OBVIOUS
<1>3. p \in Tree /\ Was(p) # {} /\ Was(p) \subseteq Cgroups
  BY <1>1, <1>2, HereInHand
<1>4. PartAsSeen /\ accounts \subseteq Accounts
  BY <1>1, WalkFacts DEF WalkTypeOK
<1>5. PICK r \in Was(p), t \in Tasks(p), c \in Controls(p), k \in Seq(KnobsSeen(p)) :
          part = <<r.owner, Low[r.mode], t, c, k>> /\ HalfRead(k, <<>>, p)
  BY <1>1, <1>2, <1>4 DEF PartAsSeen
<1>6. PICK fm : fm = IF Exists(here) THEN Low[tree[here].fmode] ELSE NoVal
  OBVIOUS
<1>7. \A x \in Was(p) : /\ {x.owner, x.task} \subseteq DOMAIN Numeral
                        /\ {Low[x.mode], Low[x.fmode]} \subseteq DOMAIN Digits
                        /\ IsFiniteSet(x.ctl) /\ x.ctl \subseteq Kernel
  BY <1>3, CgroupFacts
<1>8. fm \in Modes /\ Low[r.mode] \in Modes /\ NoVal \in Modes
  <2>1. CASE Exists(here)
    <3>1. \E x \in Was(p) : fm = Low[x.fmode]
      BY <1>1, <1>2, <1>6, <2>1, ReadAsSeen
    <3>2. QED  BY <1>7, <3>1 DEF Modes
  <2>2. QED  BY <1>6, <1>7, <2>1 DEF Modes
<1>9. PICK n : n = [name |-> NameOf[p], perm |-> PermRead(part, fm),
                    controllers |-> Sorted(part[4]), params |-> part[5]]
  OBVIOUS
<1>10. groups' = Append(groups, n)
  BY <1>2, <1>6, <1>9 DEF PermStep
<1>11. /\ n = [name |-> n.name, perm |-> n.perm, controllers |-> n.controllers,
               params |-> n.params]
       /\ n.perm = PermRead(part, fm) /\ n.controllers = Sorted(c) /\ n.params = k
       /\ part[1] = r.owner /\ part[2] = Low[r.mode] /\ part[3] = t
  BY <1>5, <1>9
<1>12. n.perm # NoVal => n.perm \in [task : OwnerSets, admin : OwnerSets]
  <2>1. SUFFICES ASSUME t # NoVal PROVE n.perm \in [task : OwnerSets, admin : OwnerSets]
    BY <1>11 DEF PermRead
  <2>2. t \in DOMAIN Numeral /\ r.owner \in DOMAIN Numeral
    BY <1>7, <2>1 DEF Tasks
  <2>3. OwnerWord(t) \in OwnerWords /\ OwnerWord(r.owner) \in OwnerWords
    BY <1>4, <2>2, OwnerWordNames
  <2>4. /\ OwnerSet(t, NoVal, NoVal) \in OwnerSets
        /\ OwnerSet(r.owner, Low[r.mode], fm) \in OwnerSets
    BY <1>8, <2>3 DEF OwnerSets, OwnerSet
  <2>5. n.perm = [task  |-> OwnerSet(t, NoVal, NoVal),
                  admin |-> OwnerSet(r.owner, Low[r.mode], fm)]
    BY <1>11, <2>1 DEF PermRead
  <2>6. QED  BY <2>4, <2>5
<1>13. IsFiniteSet(c) /\ "perm" \notin c
  <2>1. CASE c = {}
    BY <2>1, FS_EmptySet
  <2>2. ASSUME NEW x \in Was(p), c = x.ctl PROVE IsFiniteSet(c) /\ "perm" \notin c
    BY <1>7, <2>2, FilesAssumption
  <2>3. QED  BY <2>1, <2>2 DEF Controls
<1>14. /\ n.controllers \in Seq(ToSet(n.controllers)) /\ IsInjective(n.controllers)
       /\ "perm" \notin ToSet(n.controllers)
  <2>1. Sorted(c) \in Seq(c) /\ ToSet(Sorted(c)) = c /\ IsInjective(Sorted(c))
    BY <1>13, ElementsOfSet DEF Sorted
  <2>2. QED  BY <1>11, <1>13, <2>1
<1>15. /\ k \in Seq(ToSet(k)) /\ StandTogether(k)
       /\ \A x \in ToSet(k) : x = <<x[1], x[2], x[3]>> /\ x[1] # "perm"
  BY <1>3, <1>5, AllRead
<1>16. Shaped(n)
  BY <1>11, <1>12, <1>14, <1>15 DEF Shaped
<1>17. PICK A : A = ToSet(groups) \cup {n}
  OBVIOUS
<1>18. groups \in Seq(A) /\ n \in A
  <2>1. groups \in Seq(ToSet(groups))
    BY DEF AreShaped
  <2>2. QED  BY <1>17, <2>1
<1>19. PICK g : g = Append(groups, n)
  OBVIOUS
<1>20. g \in Seq(A) /\ ToSet(g) = A
  BY <1>17, <1>18, <1>19, ElementsOfAppend
<1>21. AreShaped(g)
  BY <1>16, <1>17, <1>20 DEF AreShaped
<1>22. QED  BY <1>10, <1>19, <1>21

LEMMA ReadConfigReads ==
    ASSUME WalkInv, TextInv, job = "cgctl", ReadConfig
    PROVE  conf' # Unreadable => /\ IsFile(conf') /\ ConfRead'
                                 /\ tool = "snapshot" => conf' = Described
<1>1. step = "saved" /\ ~ ConfRead /\ conf = Unreadable
  BY DEF ReadConfig, TextInv, ConfRead
<1>2. SUFFICES ASSUME conf' # Unreadable
               PROVE  IsFile(conf') /\ ConfRead' /\ (tool = "snapshot" => conf' = Described)
  OBVIOUS
<1>3. Parse(text) # Unreadable /\ conf' = Parse(text) /\ step' = "apply"
  BY <1>1, <1>2 DEF ReadConfig, Fail
<1>4. ConfRead'
  BY <1>3 DEF ConfRead
<1>5. tool \in {"snapshot", "config"}
  BY <1>1 DEF TextInv
<1>6. CASE tool = "config"
  <2>1. AreSections(text)
    BY <1>6, SnapshotAssumption DEF TextInv
  <2>2. IsFile(Parse(text))
    BY <1>3, <2>1, FileIsRead
  <2>3. QED  BY <1>3, <1>4, <1>6, <2>2
<1>7. CASE tool = "snapshot"
  <2>1. AreShaped(groups) /\ text = Display(Described) /\ Display(Described) # Unwritten
    BY <1>1, <1>7 DEF TextInv
  <2>2. IsFile(Described) /\ Normal(Described) = Described
    BY <2>1, DescribedIsFile
  <2>3. PICK c : c = Described
    OBVIOUS
  <2>4. Parse(Display(c)) = Unreadable \/ Parse(Display(c)) = Normal(c)
    BY <2>1, <2>2, <2>3, WrittenIsReadBack
  <2>5. Parse(text) = Described
    BY <1>3, <2>1, <2>2, <2>3, <2>4
  <2>6. QED  BY <1>3, <1>4, <2>2, <2>5
<1>8. QED  BY <1>5, <1>6, <1>7

LEMMA StepKeepsTextInv ==
    ASSUME WalkInv, TextInv, [Next]_vars
    PROVE  TextInv'
<1>1. ASSUME UNCHANGED <<job, snapVars>> PROVE TextInv'
  BY <1>1 DEF TextInv, snapVars, toolVars, ConfRead, AreShaped, Shaped, Described
<1>2. CASE UNCHANGED vars
  BY <1>1, <1>2 DEF vars
<1>3. CASE job = "load"  /\ LoadNext /\ UNCHANGED <<job, snapVars>>
  BY <1>1, <1>3
<1>4. ASSUME job = "cgctl", UNCHANGED job, SnapNext PROVE TextInv'
  <2>1. /\ tool \in {"snapshot", "ls", "config"}
        /\ tool = "config" => text \in Scripts /\ (step = "saved" \/ ConfRead)
        /\ tool = "ls" => conf = Unreadable /\ ~ (step \in {"render", "saved", "apply"})
        /\ tool = "snapshot" => AreShaped(groups)
        /\ tool = "snapshot" /\ step \in {"saved", "apply"} =>
               text = Display(Described) /\ Display(Described) # Unwritten
        /\ conf # Unreadable => /\ IsFile(conf) /\ ConfRead
                                /\ tool = "snapshot" => conf = Described
    BY <1>4 DEF TextInv
  <2>2. ASSUME UNCHANGED <<tool, groups>> PROVE Described' = Described /\ (AreShaped(groups)' <=> AreShaped(groups))
    BY <2>2 DEF Described, AreShaped, Shaped
  <2>3. ASSUME UNCHANGED <<tool, groups, text, conf>>,
               step' = step \/ step' \in {"failed", "done"}
               \/ (step \notin {"saved", "apply"} /\ step' \notin {"saved", "apply"} /\ ~ ConfRead),
               tool = "ls" => step' \notin {"render", "saved", "apply"}
        PROVE  TextInv'
    BY <1>4, <2>1, <2>2, <2>3 DEF TextInv, ConfRead
  <2>4. ASSUME Fail PROVE TextInv'
    BY <2>3, <2>4 DEF Fail
  <2>5. CASE OtherStep
    BY <2>1, <2>3, <2>5 DEF OtherStep, OtherChange, OtherRmdir, Change, Userdel, Reboot, toolVars
  <2>6. ASSUME \/ List \/ Visit \/ EndWalk
               \/ Meta \/ Procs \/ Controllers \/ Params \/ ReadParam,
               tool # "ls" \/ ~ Visit
        PROVE TextInv'
    BY <2>1, <2>3, <2>4, <2>6
       DEF List, Visit, EndWalk, Meta, Procs, Controllers, Params, ReadParam, Describe, ConfRead
  <2>7. ASSUME Visit, tool = "ls" PROVE TextInv'
    BY <1>4, <2>1, <2>7 DEF Visit, TextInv, ConfRead
  <2>8. CASE PermStep
    <3>1. ~ ConfRead /\ step = "read" /\ step' = "list" /\ UNCHANGED <<tool, text, conf>>
      BY <2>8 DEF PermStep, ConfRead
    <3>2. tool = "snapshot" => AreShaped(groups)'
      BY <2>1, <2>8, PermStepShapes DEF Walk
    <3>3. QED  BY <1>4, <2>1, <3>1, <3>2 DEF TextInv
  <2>9. CASE Render
    <3>1. step = "render" /\ ~ ConfRead
      BY <2>9 DEF Render, ConfRead
    <3>2. tool = "snapshot"
      BY <2>1, <3>1
    <3>3. CASE Display(Described) = Unwritten
      BY <2>4, <2>9, <3>3 DEF Render
    <3>4. CASE Display(Described) # Unwritten
      <4>1. text' = Display(Described) /\ step' = "saved" /\ UNCHANGED <<tool, groups, conf>>
        BY <2>9, <3>4 DEF Render
      <4>2. QED  BY <1>4, <2>1, <2>2, <3>1, <3>2, <3>4, <4>1 DEF TextInv
    <3>5. QED  BY <3>3, <3>4
  <2>10. CASE ReadConfig
    <3>1. step = "saved" /\ UNCHANGED <<tool, groups, text>>
          /\ step' \in {"apply", "failed"}
      BY <2>10 DEF ReadConfig, Fail
    <3>2. conf' # Unreadable => /\ IsFile(conf') /\ ConfRead'
                                /\ tool = "snapshot" => conf' = Described
      BY <1>4, <2>10, ReadConfigReads
    <3>3. QED  BY <1>4, <2>1, <2>2, <3>1, <3>2 DEF TextInv, ConfRead
  <2>11. CASE ApplyNode
    <3>1. step = "apply" /\ (Fail \/ UNCHANGED <<tool, step, groups, text, conf>>)
      BY <2>11, ApplyNodeLeaves
    <3>2. QED  BY <2>1, <2>3, <2>4, <3>1
  <2>12. CASE EndConfig
    BY <2>1, <2>3, <2>12 DEF EndConfig
  <2>13. QED
    BY <1>4, <2>5, <2>6, <2>7, <2>8, <2>9, <2>10, <2>11, <2>12 DEF SnapNext, ToolStep
<1>5. QED  BY <1>2, <1>3, <1>4 DEF Next

(* TextStaysTrue: what cgctl config reads is the file the walk described,  *)
(* or one the parser made of an administrator's text.                      *)
THEOREM TextStaysTrue == Spec => []TextInv
<1>1. Init => TextInv
  <2>1. AreShaped(<<>>)
    BY NoneAtAll DEF AreShaped
  <2>2. QED  BY <2>1 DEF Init, CgctlRests, SnapInit, TextInv, ConfRead
<1>2. TextInv /\ WalkInv /\ [Next]_vars => TextInv'
  BY StepKeepsTextInv
<1>3. QED  BY <1>1, <1>2, WalkStaysTrue, PTL DEF Spec

(* RoundTripAlways: of whatever cgctl config reads, Display refuses only   *)
(* what has a hash in a block's name; what it writes reads as an equal     *)
(* file where the parameters stand together by controller and none looks   *)
(* like owners; a snapshot is read back exactly.                           *)
THEOREM RoundTripAlways == Spec => []RoundTrip
<1>1. TextInv => RoundTrip
  <2>1. SUFFICES ASSUME TextInv, conf # Unreadable PROVE RoundTrip
    BY DEF RoundTrip
  <2>2. IsFile(conf) /\ (tool = "snapshot" => conf = Described)
    BY <2>1 DEF TextInv
  <2>3. PICK c : c = conf
    OBVIOUS
  <2>4. IF Display(c) = Unwritten
        THEN BlockHeads(c) \cap Hashed # {}
        ELSE IF \E n \in ToSet(c.groups) \cup ToSet(c.templates) : LooksLikeOwners(n)
        THEN Parse(Display(c)) = Unreadable
        ELSE Parse(Display(c)) = Normal(c) /\ Display(Normal(c)) = Display(c)
    BY <2>2, <2>3, WrittenIsReadBack
  <2>5. PICK d : d = Display(c)
    OBVIOUS
  <2>6. d = Unwritten => BlockHeads(c) \cap Hashed # {}
    BY <2>4, <2>5
  <2>7. d # Unwritten /\ Normal(c) = c
        /\ (\A n \in ToSet(c.groups) \cup ToSet(c.templates) : ~ LooksLikeOwners(n))
        => Parse(d) = c
    BY <2>4, <2>5
  <2>8. QED  BY <2>1, <2>2, <2>3, <2>5, <2>6, <2>7 DEF RoundTrip
<1>2. QED  BY <1>1, TextStaysTrue, PTL

-----------------------------------------------------------------------------
(* cgctl config: the queue holds every declared group, shallow ones first. *)

LEMMA BoundedList ==
    ASSUME NEW m \in Nat, NEW f \in [1..m -> Nat]
    PROVE  \E b \in Nat : \A i \in 1..m : f[i] <= b
<1> DEFINE Bounds(n) == \E b \in Nat : \A i \in 1..n : f[i] <= b
           S == {n \in 0..m : Bounds(n)}
<1>1. 0 \in S
  <2>1. Bounds(0)
    <3>1. 0 \in Nat /\ \A i \in 1..0 : f[i] <= 0
      OBVIOUS
    <3>2. QED  BY <3>1
  <2>2. QED  BY <2>1
<1>2. ASSUME NEW n \in 0..(m - 1), n \in S PROVE n + 1 \in S
  <2>1. PICK b \in Nat : \A i \in 1..n : f[i] <= b
    BY <1>2
  <2>2. PICK c \in Nat : c = IF f[n + 1] <= b THEN b ELSE f[n + 1]
    OBVIOUS
  <2>3. \A i \in 1..(n + 1) : f[i] <= c
    <3>1. SUFFICES ASSUME NEW i \in 1..(n + 1) PROVE f[i] <= c
      OBVIOUS
    <3>2. i \in 1..n \/ i = n + 1
      OBVIOUS
    <3>3. f[i] \in Nat /\ f[n + 1] \in Nat
      OBVIOUS
    <3>4. QED  BY <2>1, <2>2, <3>2, <3>3
  <2>4. QED  BY <2>3, SMTT(20)
<1> HIDE DEF Bounds
<1>3. \A n \in 0..(m - 1) : n \in S => n + 1 \in S
  BY <1>2
<1> HIDE DEF S
<1>4. 0..m \subseteq S
  BY <1>1, <1>3, InductionUpTo
<1>5. Bounds(m)
  BY <1>4 DEF S
<1>6. QED  BY <1>5 DEF Bounds

LEMMA GreatestNumber ==
    ASSUME NEW S, S \subseteq Nat, S # {}, NEW b \in Nat, \A x \in S : x <= b
    PROVE  Max(S) \in S /\ \A x \in S : x <= Max(S)
<1>1. PICK U : U = {u \in Nat : \A x \in S : x <= u}
  OBVIOUS
<1>2. PICK u \in U : \A v \in U : u <= v
  <2>1. U \subseteq Nat /\ U # {}
    BY <1>1
  <2>2. QED  BY <2>1, FirstPosition
<1>3. u \in S
  <2>1. SUFFICES ASSUME u \notin S PROVE FALSE
    OBVIOUS
  <2>2. u \in Nat /\ \A x \in S : x <= u /\ x # u /\ x \in Nat
    BY <1>1, <1>2, <2>1
  <2>3. u # 0
    <3>1. PICK x \in S : TRUE
      OBVIOUS
    <3>2. QED  BY <2>2, <3>1
  <2>4. u - 1 \in U
    BY <1>1, <2>2, <2>3
  <2>5. QED  BY <1>2, <2>2, <2>4
<1>4. \A x \in S : u >= x
  BY <1>1, <1>2
<1>5. Max(S) \in S /\ \A y \in S : Max(S) >= y
  BY <1>3, <1>4 DEF Max
<1>6. QED  BY <1>5

HasDepth(nodes, m) ==
    /\ m \in [ToSet(nodes) -> Nat]
    /\ \A n \in ToSet(nodes) : m[n] = Len(PathOf[n.name]) /\ m[n] >= 1

LEMMA AtDepthKept ==
    ASSUME NEW A, NEW s \in Seq(A), NEW d
    PROVE  Those(s, LAMBDA n : Len(PathOf[n.name]) = d)
           = Kept(s, {n \in A : Len(PathOf[n.name]) = d})
<1>1. \A i \in DOMAIN s : s[i] \in A
  OBVIOUS
<1>2. QED  BY <1>1 DEF Those, Kept, KeptParts

LEMMA RootLeftOut ==
    ASSUME NEW A, NEW s \in Seq(A)
    PROVE  Those(s, LAMBDA n : n.name # ".") = Kept(s, {n \in A : n.name # "."})
<1>1. \A i \in DOMAIN s : s[i] \in A
  OBVIOUS
<1>2. QED  BY <1>1 DEF Those, Kept, KeptParts

LEMMA SortedByDepth ==
    ASSUME NEW nodes, nodes \in Seq(ToSet(nodes)), NEW m, HasDepth(nodes, m)
    PROVE  /\ ByDepth(nodes) \in Seq(ToSet(nodes)) /\ ToSet(ByDepth(nodes)) = ToSet(nodes)
           /\ Ascends(ByDepth(nodes), m)
<1>1. PICK A : A = ToSet(nodes)
  OBVIOUS
<1>2. PICK s \in Seq(A) : s = nodes
  BY <1>1
<1>3. m \in [A -> Nat] /\ \A n \in A : m[n] = Len(PathOf[n.name]) /\ m[n] >= 1
  BY <1>1 DEF HasDepth
<1>4. PICK D : D = {0} \cup {Len(PathOf[n.name]) : n \in A}
  OBVIOUS
<1>5. D \subseteq Nat /\ D # {}
  BY <1>3, <1>4
<1>6. PICK b \in Nat : \A x \in D : x <= b
  <2>1. PICK l \in Nat : l = Len(s) /\ DOMAIN s = 1..l
    OBVIOUS
  <2>2. [i \in 1..l |-> m[s[i]]] \in [1..l -> Nat]
    BY <1>3, <2>1
  <2>3. PICK b \in Nat : \A i \in 1..l : [j \in 1..l |-> m[s[j]]][i] <= b
    BY <2>2, BoundedList
  <2>4. \A i \in 1..l : m[s[i]] <= b
    BY <2>3
  <2>5. \A n \in A : \E i \in 1..l : n = s[i]
    BY <1>1, <1>2, <2>1 DEF ToSet
  <2>6. \A n \in A : Len(PathOf[n.name]) <= b
    BY <1>3, <2>4, <2>5, ZenonT(25)
  <2>7. \A x \in D : x = 0 \/ \E n \in A : x = Len(PathOf[n.name])
    BY <1>4
  <2>8. \A x \in D : x <= b
    BY ONLY <2>6, <2>7, b \in Nat
  <2>9. QED  BY <2>8
<1>7. PICK deepest \in Nat : deepest = Max(D) /\ \A x \in D : x <= deepest
  <2>1. Max(D) \in D /\ \A x \in D : x <= Max(D)
    BY <1>5, <1>6, GreatestNumber
  <2>2. QED  BY <1>5, <2>1
<1> DEFINE K(d) == {n \in A : Len(PathOf[n.name]) = d}
           t == [d \in 1..deepest |-> Kept(s, K(d))]
<1>8. \A d : Those(s, LAMBDA n : Len(PathOf[n.name]) = d) = Kept(s, K(d))
  BY AtDepthKept
<1>9. ByDepth(nodes) = FlattenSeq(t)
  BY <1>1, <1>2, <1>4, <1>7, <1>8 DEF ByDepth
<1>10. \A d \in 1..deepest : /\ Kept(s, K(d)) \in Seq(A)
                             /\ ToSet(Kept(s, K(d))) = A \cap K(d)
  BY <1>1, <1>2, KeptElements
<1>11. \A d, n : n \in K(d) <=> n \in A /\ m[n] = d
  BY <1>3
<1> HIDE DEF K
<1>12. t \in [1..deepest -> Seq(A)] /\ \A d \in 1..deepest : t[d] = Kept(s, K(d))
  BY <1>10
<1> HIDE DEF t
<1>13. t \in Seq(Seq(A)) /\ Len(t) = deepest /\ DOMAIN t = 1..deepest
  BY <1>12, ListedIsSeq
<1>14. \A d \in 1..deepest : \A x \in ToSet(t[d]) : x \in A /\ m[x] = d
  BY <1>10, <1>11, <1>12
<1>15. FlattenSeq(t) \in Seq(A)
  BY <1>13, FlattenType
<1>16. ToSet(FlattenSeq(t)) = A
  <2>1. ToSet(FlattenSeq(t)) = UNION {ToSet(t[d]) : d \in 1..deepest}
    BY <1>13, ElementsOfFlatten
  <2>2. ASSUME NEW n \in A PROVE \E d \in 1..deepest : n \in ToSet(t[d])
    <3>1. m[n] \in 1..deepest
      <4>1. Len(PathOf[n.name]) \in D
        BY <1>4
      <4>2. m[n] \in Nat /\ m[n] >= 1 /\ m[n] <= deepest
        BY <1>3, <1>7, <4>1
      <4>3. QED  BY ONLY <4>2, deepest \in Nat
    <3>2. n \in ToSet(t[m[n]])
      BY <1>10, <1>11, <1>12, <3>1
    <3>3. QED  BY <3>1, <3>2
  <2>3. QED  BY <1>14, <2>1, <2>2
<1>17. Ascends(FlattenSeq(t), m)
  <2>1. ASSUME NEW d \in DOMAIN t PROVE Ascends(t[d], m)
    <3>1. PICK v \in Seq(A) : v = t[d] /\ \A x \in ToSet(v) : m[x] = d
      BY <1>13, <1>14
    <3>2. \A i \in DOMAIN v : m[v[i]] = d
      BY <3>1 DEF ToSet
    <3>3. d \in Nat
      BY <1>13
    <3>4. QED  BY <3>1, <3>2, <3>3 DEF Ascends
  <2>2. \A i, j \in DOMAIN t : \A x \in ToSet(t[i]), y \in ToSet(t[j]) :
            i < j => m[x] <= m[y]
    BY <1>13, <1>14
  <2>3. QED  BY <1>3, <1>13, <2>1, <2>2, AscendsFlatten
<1>18. QED  BY <1>1, <1>9, <1>15, <1>16, <1>17

-----------------------------------------------------------------------------
(* cgctl config: what applying one node does to the tree.                  *)

(* t is a tree of cgroups.                                                 *)
IsTree(t) == DOMAIN t = Nodes /\ \A p \in Nodes : t[p] \in CgroupRecords \cup {Absent}

TreeKept == IsTree(tree)

ListedIn(t, p) == IF t[p] # Absent THEN t[p].ctl ELSE {}

(* The owners and modes of a node that can be applied.                     *)
GoodPerm(perm) == /\ IsSet(perm.task) /\ IsSet(perm.admin)
                  /\ Resolves(perm.task) /\ Resolves(perm.admin)
                  /\ {perm.admin.dperm, perm.admin.fperm} \subseteq Legal \cup {NoVal}

LEMMA OwnerIsUid ==
    ASSUME NEW word, NEW u \in DOMAIN Numeral, word = NoVal \/ OwnerOf(word) # {}
    PROVE  OwnerOr(word, u) \in DOMAIN Numeral
BY DEF OwnerOr, OwnerOf, OneOf

(* A cgroup with the fields an Owned one gets, and what they come from.    *)
Cgroup(o, w, m, s, f, k, g) ==
    [owner |-> o, task |-> w, mode |-> m, fmode |-> f, ctl |-> k, knobs |-> g, busy |-> s]

OwnedTo(c, perm, o, w, m, s, f) ==
    /\ OwnerOr(perm.admin.uid, c.owner) = o
    /\ OwnerOr(perm.task.uid, OwnerOr(perm.admin.uid, c.task)) = w
    /\ Or(perm.admin.dperm, c.mode) = m /\ Or(perm.admin.fperm, c.fmode) = f
    /\ c.busy = s

LEMMA IsRecord ==
    ASSUME NEW o \in DOMAIN Numeral, NEW w \in DOMAIN Numeral, NEW m \in Legal,
           NEW s \in BOOLEAN, NEW f \in Legal, NEW k \in SUBSET Kernel,
           NEW g \in {r.knobs : r \in AnyCgroups}
    PROVE  Cgroup(o, w, m, s, f, k, g) \in CgroupRecords
BY DEF CgroupRecords, Cgroup

LEMMA OwnedAs ==
    ASSUME NEW c \in CgroupRecords, NEW perm, NEW o, NEW w, NEW m, NEW s \in BOOLEAN, NEW f,
           OwnedTo(c, perm, o, w, m, s, f)
    PROVE  Owned(c, perm) = Cgroup(o, w, m, s, f, c.ctl, c.knobs)
<1>1. c = Cgroup(c.owner, c.task, c.mode, c.busy, c.fmode, c.ctl, c.knobs)
  BY DEF CgroupRecords, Cgroup
<1>2. c = Cgroup(c.owner, c.task, c.mode, s, c.fmode, c.ctl, c.knobs)
  BY <1>1, Zenon DEF OwnedTo
<1>3. Owned(c, perm) = [c EXCEPT !.owner = o, !.mode = m, !.fmode = f, !.task = w]
  BY Zenon DEF Owned, OwnedTo
<1>4. PICK a, b, d, h, k, g : c = Cgroup(a, b, d, s, h, k, g) /\ k = c.ctl /\ g = c.knobs
  BY <1>2
<1>5. Owned(c, perm) = Cgroup(o, w, m, s, f, k, g)
  BY ONLY <1>3, <1>4, s \in BOOLEAN DEF Cgroup
<1>6. QED  BY <1>4, <1>5

(* e is c with no less in cgroup.subtree_control, and no more processes.   *)
Grown(e, c) == (e.busy => c.busy) /\ c.ctl \subseteq e.ctl

LEMMA OwnedIsKept ==
    ASSUME NEW c \in CgroupRecords, NEW perm, GoodPerm(perm), NEW K, K \subseteq Kernel,
           NEW e, e = [Owned(c, perm) EXCEPT !.ctl = @ \cup K]
    PROVE  /\ Owned(c, perm) \in CgroupRecords /\ Owned(c, perm).ctl = c.ctl
           /\ e \in CgroupRecords /\ e = Owned(e, perm) /\ e.ctl = c.ctl \cup K
           /\ Grown(e, c) /\ Grown(Owned(c, perm), c)
<1>1. /\ IsSet(perm.task) /\ IsSet(perm.admin) /\ Resolves(perm.task) /\ Resolves(perm.admin)
  BY DEF GoodPerm
<1>2. /\ c.owner \in DOMAIN Numeral /\ c.task \in DOMAIN Numeral
      /\ c.mode \in Legal /\ c.busy \in BOOLEAN /\ c.fmode \in Legal
      /\ c.ctl \in SUBSET Kernel /\ c.knobs \in {r.knobs : r \in AnyCgroups}
  BY DEF CgroupRecords
<1>3. PICK o : OwnerOr(perm.admin.uid, c.owner) = o
  OBVIOUS
<1>4. PICK w : OwnerOr(perm.task.uid, OwnerOr(perm.admin.uid, c.task)) = w
  OBVIOUS
<1>5. PICK m : Or(perm.admin.dperm, c.mode) = m
  OBVIOUS
<1>6. PICK f : Or(perm.admin.fperm, c.fmode) = f
  OBVIOUS
<1>7. PICK s \in BOOLEAN : c.busy = s
  BY <1>2
<1>8. Owned(c, perm) = Cgroup(o, w, m, s, f, c.ctl, c.knobs)
  <2>1. OwnedTo(c, perm, o, w, m, s, f)
    BY <1>3, <1>4, <1>5, <1>6, <1>7, Zenon DEF OwnedTo
  <2>2. QED  BY <2>1, OwnedAs
<1>9. o \in DOMAIN Numeral /\ w \in DOMAIN Numeral
  <2>1. /\ perm.admin.uid = NoVal \/ OwnerOf(perm.admin.uid) # {}
        /\ perm.task.uid = NoVal \/ OwnerOf(perm.task.uid) # {}
    BY <1>1 DEF Resolves
  <2>2. OwnerOr(perm.admin.uid, c.task) \in DOMAIN Numeral
    BY <1>2, <2>1, OwnerIsUid
  <2>3. QED  BY <1>2, <1>3, <1>4, <2>1, <2>2, OwnerIsUid
<1>10. m \in Legal /\ f \in Legal
  BY <1>2, <1>5, <1>6 DEF GoodPerm, Or
<1>11. Owned(c, perm) \in CgroupRecords
  BY <1>2, <1>7, <1>8, <1>9, <1>10, IsRecord
<1>12. Owned(c, perm).ctl = c.ctl
  BY <1>8 DEF Cgroup
<1>13. PICK k \in SUBSET Kernel : k = c.ctl \cup K
  BY <1>2
<1>14. e = Cgroup(o, w, m, s, f, k, c.knobs)
  BY <1>8, <1>13 DEF Cgroup
<1>15. e \in CgroupRecords
  <2>1. Cgroup(o, w, m, s, f, k, c.knobs) \in CgroupRecords
    BY ONLY <1>2, <1>7, <1>9, <1>10, <1>13, IsRecord
  <2>2. QED  BY <1>14, <2>1, Zenon
<1>16. /\ e.owner = o /\ e.task = w /\ e.mode = m /\ e.busy = s /\ e.fmode = f
       /\ e.ctl = k /\ e.knobs = c.knobs
  BY <1>14 DEF Cgroup
<1>17. OwnedTo(e, perm, o, w, m, s, f)
  <2>1. /\ OwnerOr(perm.admin.uid, e.owner) = o
        /\ OwnerOr(perm.task.uid, OwnerOr(perm.admin.uid, e.task)) = w
        /\ Or(perm.admin.dperm, e.mode) = m /\ Or(perm.admin.fperm, e.fmode) = f
    BY <1>3, <1>4, <1>5, <1>6, <1>16 DEF OwnerOr, Or
  <2>2. e.busy = s
    BY <1>16
  <2>3. QED  BY <2>1, <2>2, Zenon DEF OwnedTo
<1>18. Grown(e, c) /\ Grown(Owned(c, perm), c)
  <2>1. Owned(c, perm).busy = s
    BY <1>8 DEF Cgroup
  <2>2. (e.busy => c.busy) /\ (Owned(c, perm).busy => c.busy)
    BY ONLY <1>7, <1>16, <2>1, Zenon
  <2>3. QED  BY <1>12, <1>13, <1>16, <2>2 DEF Grown
<1>19. Owned(e, perm) = Cgroup(o, w, m, s, f, e.ctl, e.knobs)
  BY ONLY <1>7, <1>15, <1>17, OwnedAs
<1>20. Owned(e, perm) = e
  BY <1>14, <1>16, <1>19, Zenon
<1>21. QED  BY <1>11, <1>12, <1>13, <1>15, <1>16, <1>18, <1>20

(* A cgroup as mkdir made it.                                              *)
IsNew(c) == c.ctl = {} /\ ~ c.busy

(* The way to p is there and nothing that was there is touched.            *)
LEMMA AncestorsMade ==
    ASSUME TreeKept, NEW p \in Tree, NEW mode \in Legal \cup {NoVal},
           NEW made, made = WithAncestors(p, mode)
    PROVE  /\ IsTree(made)
           /\ made[p] \in CgroupRecords /\ made[Parent(p)] \in CgroupRecords
           /\ p \in Nodes /\ Parent(p) \in Nodes
           /\ \A q \in Nodes : Exists(q) => made[q] = tree[q]
           /\ \A q \in Nodes : ~ Exists(q) => \/ made[q] = Absent
                                              \/ IsNew(made[q]) /\ Within(p, q)
<1>1. p \in Nodes /\ Parent(p) \in Nodes
  BY SnapshotAssumption DEF Nodes
<1>2. Fresh \in CgroupRecords /\ Fresh.ctl = {} /\ Absent \notin CgroupRecords
      /\ Fresh.busy = FALSE
  BY CgroupAssumption DEF AnyCgroups
<1> DEFINE fresh(q) == [Fresh EXCEPT !.mode = IF mode = NoVal \/ q = p THEN @
                                              ELSE AncestorMode[mode]]
<1>3. ASSUME NEW q PROVE fresh(q) \in CgroupRecords /\ IsNew(fresh(q))
  <2>1. mode # NoVal => AncestorMode[mode] \in Legal
    BY CgroupAssumption
  <2>2. PICK m : m = IF mode = NoVal \/ q = p THEN Fresh.mode ELSE AncestorMode[mode]
    OBVIOUS
  <2>3. PICK c \in CgroupRecords : c = Fresh
    BY <1>2
  <2>4. m \in Legal /\ fresh(q) = [c EXCEPT !.mode = m]
    BY <2>1, <2>2, <2>3 DEF CgroupRecords
  <2>5. [c EXCEPT !.mode = m] \in CgroupRecords
    BY <2>4 DEF CgroupRecords
  <2>6. [c EXCEPT !.mode = m].ctl = {} /\ [c EXCEPT !.mode = m].busy = FALSE
    BY <1>2, <2>3 DEF CgroupRecords
  <2>7. QED  BY <2>4, <2>5, <2>6 DEF IsNew
<1>4. made = [q \in Nodes |-> IF Within(p, q) /\ ~ Exists(q) THEN fresh(q) ELSE tree[q]]
  BY DEF WithAncestors
<1> HIDE DEF fresh
<1>5. \A q \in Nodes : tree[q] \in CgroupRecords \cup {Absent}
  BY DEF TreeKept, IsTree
<1>6. IsTree(made)
  BY <1>3, <1>4, <1>5 DEF IsTree
<1>7. \A q \in Nodes : Exists(q) => made[q] = tree[q]
  BY <1>4
<1>8. \A q \in Nodes : ~ Exists(q) => \/ made[q] = Absent
                                      \/ IsNew(made[q]) /\ Within(p, q)
  BY <1>3, <1>4 DEF Exists
<1>9. ASSUME NEW q \in Nodes, Within(p, q) PROVE made[q] \in CgroupRecords
  BY <1>3, <1>4, <1>5, <1>9 DEF Exists
<1>10. Within(p, p) /\ Within(p, Parent(p))
  <2>1. Within(p, p)
    BY <1>1, PathUp
  <2>2. p \in Seq(ToSet(p)) /\ p # <<>>
    BY SnapshotAssumption DEF Root
  <2>3. PICK S : S = ToSet(p)
    OBVIOUS
  <2>4. p \in Seq(S) /\ Front(p) \in Seq(S) /\ Len(Front(p)) = Len(p) - 1
        /\ Len(p) \in Nat /\ \A i \in 1..(Len(p) - 1) : Front(p)[i] = p[i]
    BY <2>2, <2>3, FrontOfPath
  <2>5. IsPrefix(Front(p), p)
    BY <2>4, PrefixPointwise
  <2>6. QED  BY <2>1, <2>5 DEF Within, Parent
<1>11. QED  BY <1>1, <1>6, <1>7, <1>8, <1>9, <1>10

(* The node in hand, and what applying it makes of the tree.               *)
HeadPath == PathOf[Head(queue).name]
HeadPerm == EffectivePerm(conf, Head(queue))
HeadWants == ToSet(Head(queue).controllers)
Made == WithAncestors(HeadPath, HeadPerm.admin.dperm)
Done == [Made EXCEPT ![HeadPath] = Owned(@, HeadPerm)]

Acceptable ==
    /\ HeadPath \in Tree /\ Resolves(HeadPerm.task) /\ Resolves(HeadPerm.admin)
    /\ Valid(HeadPerm, HeadWants)

GoesThrough ==
    Acceptable /\ Enables(Made[HeadPath], Made[Parent(HeadPath)], HeadWants)

LEMMA ApplyNodeAs ==
    ASSUME ApplyNode
    PROVE  /\ step = "apply" /\ queue # <<>> /\ UNCHANGED <<accounts, seen, changes, conf>>
           /\ GoesThrough =>
                  /\ tree' = [Done EXCEPT ![HeadPath].ctl = @ \cup HeadWants]
                  /\ queue' = Tail(queue) /\ step' = "apply"
           /\ ~ GoesThrough => Fail /\ (tree' = tree \/ (tree' = Done /\ Acceptable))
<1>1. IF Acceptable
      THEN IF Enables(Made[HeadPath], Made[Parent(HeadPath)], HeadWants)
           THEN /\ tree' = [Done EXCEPT ![HeadPath].ctl = @ \cup HeadWants]
                /\ queue' = Tail(queue)
                /\ UNCHANGED <<tool, step, base, todo, here, part, unread,
                               groups, text, conf>>
           ELSE tree' = Done /\ Fail
      ELSE Fail /\ UNCHANGED tree
  BY Zenon DEF ApplyNode, Acceptable, Made, Done, HeadPath, HeadPerm, HeadWants
<1>2. step = "apply" /\ queue # <<>> /\ UNCHANGED <<accounts, seen, changes>>
  BY ApplyNodeLeaves
<1>3. CASE GoesThrough
  BY <1>1, <1>2, <1>3 DEF GoesThrough
<1>4. CASE ~ GoesThrough
  BY <1>1, <1>2, <1>4 DEF GoesThrough, Fail
<1>5. QED  BY <1>3, <1>4

LEMMA PermOfNode ==
    ASSUME NEW c, IsFile(c), NEW n \in ToSet(c.groups)
    PROVE  IsSet(EffectivePerm(c, n).task) /\ IsSet(EffectivePerm(c, n).admin)
<1>1. IsPerm(n.perm) /\ IsPerm(c.default)
  BY DEF IsFile, AreNodes, IsNode
<1>2. IsSet(EmptySet) /\ EmptyPerm.task = EmptySet /\ EmptyPerm.admin = EmptySet
  BY ConfigTextAssumption DEF IsSet, EmptySet, EmptyPerm
<1>3. QED  BY <1>1, <1>2 DEF EffectivePerm, IsPerm

New == [Done EXCEPT ![HeadPath].ctl = @ \cup HeadWants]

LEMMA HeadIsMade ==
    ASSUME TreeKept, HeadPath \in Tree, GoodPerm(HeadPerm)
    PROVE  /\ IsTree(Made) /\ IsTree(Done)
           /\ Made[HeadPath] \in CgroupRecords /\ Made[Parent(HeadPath)] \in CgroupRecords
           /\ HeadPath \in Nodes /\ Parent(HeadPath) \in Nodes
           /\ \A q \in Nodes : Exists(q) => Made[q] = tree[q]
           /\ \A q \in Nodes : ~ Exists(q) => /\ ListedIn(Made, q) = {}
                                              /\ \/ Made[q] = Absent
                                                 \/ IsNew(Made[q]) /\ Within(HeadPath, q)
           /\ \A q \in Nodes : ListedIn(Done, q) = ListedIn(Made, q)
           /\ Grown(Done[HeadPath], Made[HeadPath])
           /\ \A q \in Nodes : q # HeadPath => Done[q] = Made[q]
           /\ HeadWants \subseteq Kernel =>
                 /\ IsTree(New) /\ New[HeadPath] # Absent
                 /\ Grown(New[HeadPath], Made[HeadPath])
                 /\ New[HeadPath] = Owned(New[HeadPath], HeadPerm)
                 /\ New[HeadPath].ctl = Made[HeadPath].ctl \cup HeadWants
                 /\ \A q \in Nodes : q # HeadPath => New[q] = Made[q]
<1>1. PICK p \in Tree : p = HeadPath
  OBVIOUS
<1>2. PICK perm : perm = HeadPerm
  OBVIOUS
<1>3. PICK made : made = Made
  OBVIOUS
<1>4. PICK mode \in Legal \cup {NoVal} : mode = perm.admin.dperm
  BY <1>2 DEF GoodPerm
<1>5. made = WithAncestors(p, mode)
  BY <1>1, <1>2, <1>3, <1>4 DEF Made
<1>6. /\ IsTree(made)
      /\ made[p] \in CgroupRecords /\ made[Parent(p)] \in CgroupRecords
      /\ p \in Nodes /\ Parent(p) \in Nodes
      /\ \A q \in Nodes : Exists(q) => made[q] = tree[q]
      /\ \A q \in Nodes : ~ Exists(q) => \/ made[q] = Absent
                                         \/ IsNew(made[q]) /\ Within(p, q)
  BY <1>5, AncestorsMade
<1>7. \A q \in Nodes : ~ Exists(q) => /\ ListedIn(made, q) = {}
                                      /\ \/ made[q] = Absent
                                         \/ IsNew(made[q]) /\ Within(p, q)
  BY <1>6 DEF ListedIn, IsNew
<1>8. Absent \notin CgroupRecords
  BY CgroupAssumption
<1>9. PICK o : o = Owned(made[p], perm)
  OBVIOUS
<1>10. GoodPerm(perm)
  BY <1>2
<1>11. o \in CgroupRecords /\ o.ctl = made[p].ctl /\ Grown(o, made[p])
  <2>1. PICK c \in CgroupRecords : c = made[p]
    BY <1>6
  <2>2. PICK e : e = [Owned(c, perm) EXCEPT !.ctl = @ \cup {}]
    OBVIOUS
  <2>3. /\ Owned(c, perm) \in CgroupRecords /\ Owned(c, perm).ctl = c.ctl
        /\ Grown(Owned(c, perm), c)
    BY <1>10, <2>2, OwnedIsKept
  <2>4. QED  BY <1>9, <2>1, <2>3
<1>12. PICK d : d = Done
  OBVIOUS
<1>13. d = [made EXCEPT ![p] = o]
  BY <1>1, <1>2, <1>3, <1>9, <1>12 DEF Done
<1>14. DOMAIN made = Nodes /\ DOMAIN d = Nodes /\ d[p] = o
       /\ \A q \in Nodes : q # p => d[q] = made[q]
  BY <1>6, <1>13 DEF IsTree
<1>15. IsTree(d)
  BY <1>6, <1>11, <1>14 DEF IsTree
<1>16. \A q \in Nodes : ListedIn(d, q) = ListedIn(made, q)
  BY <1>6, <1>8, <1>11, <1>14 DEF ListedIn
<1>17. ASSUME HeadWants \subseteq Kernel
       PROVE  /\ IsTree(New) /\ New[p] # Absent /\ Grown(New[p], made[p])
              /\ New[p] = Owned(New[p], perm)
              /\ New[p].ctl = made[p].ctl \cup HeadWants
              /\ \A q \in Nodes : q # p => New[q] = made[q]
  <2>1. PICK want : want = HeadWants /\ want \subseteq Kernel
    BY <1>17
  <2>2. PICK e : e = [o EXCEPT !.ctl = @ \cup want]
    OBVIOUS
  <2>3. PICK new : new = New
    OBVIOUS
  <2>4. new = [d EXCEPT ![p] = e]
    BY <1>1, <1>12, <1>14, <2>1, <2>2, <2>3 DEF New
  <2>5. /\ e \in CgroupRecords /\ e = Owned(e, perm) /\ e.ctl = made[p].ctl \cup want
        /\ Grown(e, made[p])
    <3>1. PICK c \in CgroupRecords : c = made[p]
      BY <1>6
    <3>2. e = [Owned(c, perm) EXCEPT !.ctl = @ \cup want]
      BY <1>9, <2>2, <3>1
    <3>3. QED  BY <1>10, <2>1, <3>1, <3>2, OwnedIsKept
  <2>6. /\ DOMAIN new = Nodes /\ new[p] = e
        /\ \A q \in Nodes : q # p => new[q] = made[q]
    BY <1>6, <1>14, <2>4
  <2>7. IsTree(new)
    BY <1>6, <2>5, <2>6 DEF IsTree
  <2>8. QED  BY <1>8, <2>1, <2>3, <2>5, <2>6, <2>7
<1>18. QED  BY <1>1, <1>2, <1>3, <1>6, <1>7, <1>11, <1>12, <1>14, <1>15, <1>16, <1>17

-----------------------------------------------------------------------------
(* cgctl config delivers what a file declares.                             *)

InTree == \A n \in Declared : n.name \in DOMAIN PathOf /\ PathOf[n.name] \in Tree

DepthOf == [n \in ToSet(conf.groups) |-> Len(PathOf[n.name])]

Delivered(n) == LET p    == PathOf[n.name]
                    perm == EffectivePerm(conf, n)
                IN  /\ Exists(p)
                    /\ tree[p] = Owned(tree[p], perm)
                    /\ ToSet(n.controllers) \subseteq tree[p].ctl

(* What is still to apply are declared groups, shallow ones first.         *)
ShallowFirst == queue \in Seq(Declared) /\ Ascends(queue, DepthOf)

(* Every declared group is still to apply or has what it declares.         *)
Delivering == /\ step \in {"apply", "done"} /\ (step = "done" => queue = <<>>)
              /\ \A n \in Declared : n \in ToSet(queue) \/ Delivered(n)

(* A cgroup of t that has processes had them, and no more controllers,     *)
(* when the tool started.                                                  *)
BusyKnown(t) ==
    \A p \in Tree : t[p] # Absent /\ t[p].busy
                       => \E r \in Was(p) : r.busy /\ r.ctl \subseteq t[p].ctl

DeliverInv ==
    /\ changes \in Nat
    /\ step = "apply" => conf # Unreadable
    /\ job = "cgctl" /\ changes = 0 /\ (conf # Unreadable => InTree)
           => TreeKept /\ BusyKnown(tree)
    /\ conf # Unreadable /\ InTree => ShallowFirst
    /\ conf # Unreadable /\ changes = 0 /\ Applicable => Delivering

LEMMA HeadIsLeast ==
    ASSUME NEW A, NEW m \in [A -> Nat], NEW s \in Seq(A), s # <<>>, Ascends(s, m)
    PROVE  /\ Tail(s) \in Seq(A) /\ Ascends(Tail(s), m)
           /\ \A x \in ToSet(s) : m[Head(s)] <= m[x]
<1>1. PICK l \in Nat : l = Len(s) /\ DOMAIN s = 1..l /\ l >= 1
  OBVIOUS
<1>2. PICK h \in A : h = Head(s) /\ h = s[1]
  OBVIOUS
<1>3. PICK t \in Seq(A) : /\ t = Tail(s) /\ DOMAIN t = 1..(l - 1)
                          /\ \A i \in 1..(l - 1) : t[i] = s[i + 1]
  <2>1. PICK t : t = Tail(s)
    OBVIOUS
  <2>2. t \in Seq(A) /\ Len(t) = l - 1 /\ \A i \in 1..(l - 1) : t[i] = s[i + 1]
    BY <1>1, <2>1
  <2>3. DOMAIN t = 1..(l - 1)
    BY <2>2
  <2>4. QED  BY <2>1, <2>2, <2>3
<1>4. Ascends(t, m)
  <2>1. SUFFICES ASSUME NEW i \in 1..(l - 1), NEW j \in 1..(l - 1), i < j
                 PROVE  m[t[i]] <= m[t[j]]
    BY <1>3 DEF Ascends
  <2>2. i + 1 \in DOMAIN s /\ j + 1 \in DOMAIN s /\ i + 1 < j + 1
    <3>1. i + 1 \in 1..l /\ j + 1 \in 1..l /\ i + 1 < j + 1
      BY <2>1
    <3>2. QED  BY <1>1, <3>1
  <2>3. QED  BY <1>3, <2>2 DEF Ascends
<1>5. ASSUME NEW x \in ToSet(s) PROVE m[h] <= m[x]
  <2>1. PICK i \in DOMAIN s : x = s[i]
    BY DEF ToSet
  <2>2. CASE i = 1
    BY <1>2, <2>1, <2>2
  <2>3. CASE i # 1
    <3>1. 1 \in DOMAIN s /\ 1 < i
      BY <1>1, <2>3
    <3>2. QED  BY <1>2, <2>1, <3>1 DEF Ascends
  <2>4. QED  BY <2>2, <2>3
<1>6. QED  BY <1>2, <1>3, <1>4, <1>5

(* The paths of the declared groups are as deep as they are long.          *)
PathsKnown(c) == \A n \in ToSet(c.groups) : n.name # "." => PathOf[n.name] \in Tree

LEMMA DepthsOfFile ==
    ASSUME NEW c, IsFile(c), PathsKnown(c),
           NEW m, m = [n \in ToSet(c.groups) |-> Len(PathOf[n.name])]
    PROVE  /\ HasDepth(c.groups, m) /\ c.groups \in Seq(ToSet(c.groups))
           /\ m \in [ToSet(c.groups) -> Nat]
<1>1. c.groups \in Seq(ToSet(c.groups))
  BY DEF IsFile, AreNodes
<1>2. ASSUME NEW n \in ToSet(c.groups)
      PROVE  Len(PathOf[n.name]) \in Nat /\ Len(PathOf[n.name]) >= 1
  <2>1. CASE n.name = "."
    <3>1. PathOf[n.name] = <<".">>
      BY <2>1, CgroupAssumption
    <3>2. QED  BY <3>1
  <2>2. CASE n.name # "."
    <3>1. PathOf[n.name] \in Tree /\ Root \in Nodes
      BY <2>2 DEF PathsKnown, Nodes
    <3>2. QED  BY <3>1, PathUp
  <2>3. QED  BY <2>1, <2>2
<1>3. QED  BY <1>1, <1>2 DEF HasDepth

LEMMA DepthsKnown ==
    ASSUME InTree, IsFile(conf)
    PROVE  /\ DepthOf \in [ToSet(conf.groups) -> Nat]
           /\ Declared \subseteq ToSet(conf.groups)
<1>1. PICK c : c = conf
  OBVIOUS
<1>2. PICK m : m = DepthOf
  OBVIOUS
<1>3. PathsKnown(c) /\ IsFile(c)
  BY <1>1 DEF PathsKnown, InTree, Declared
<1>4. m = [n \in ToSet(c.groups) |-> Len(PathOf[n.name])]
  BY <1>1, <1>2 DEF DepthOf
<1>5. m \in [ToSet(c.groups) -> Nat]
  BY <1>3, <1>4, DepthsOfFile
<1>6. QED  BY <1>1, <1>2, <1>5 DEF Declared

LEMMA QueueOfFile ==
    ASSUME NEW c, IsFile(c), PathsKnown(c),
           NEW m, m = [n \in ToSet(c.groups) |-> Len(PathOf[n.name])],
           NEW q, q = Those(ByDepth(c.groups), LAMBDA n : n.name # "."),
           NEW D, D = {n \in ToSet(c.groups) : n.name # "."}
    PROVE  q \in Seq(D) /\ ToSet(q) = D /\ Ascends(q, m)
<1>1. PICK g : g = c.groups
  OBVIOUS
<1>2. PICK A : A = ToSet(g)
  OBVIOUS
<1>3. g \in Seq(A) /\ HasDepth(g, m) /\ m \in [A -> Nat]
  BY <1>1, <1>2, DepthsOfFile
<1>4. ByDepth(g) \in Seq(A) /\ ToSet(ByDepth(g)) = A /\ Ascends(ByDepth(g), m)
  BY <1>2, <1>3, SortedByDepth
<1>5. PICK s \in Seq(A) : s = ByDepth(g)
  BY <1>4
<1>6. q = Kept(s, D)
  <2>1. Those(s, LAMBDA n : n.name # ".") = Kept(s, {n \in A : n.name # "."})
    BY RootLeftOut
  <2>2. QED  BY <1>1, <1>2, <1>5, <2>1
<1>7. D \subseteq A
  BY <1>1, <1>2
<1>8. Kept(s, D) \in Seq(A \cap D) /\ ToSet(Kept(s, D)) = ToSet(s) \cap D
  BY KeptType, KeptElements
<1>9. Ascends(Kept(s, D), m)
  BY <1>3, <1>4, <1>5, AscendsKept
<1>10. A \cap D = D
  BY <1>7
<1>11. QED  BY <1>4, <1>5, <1>6, <1>8, <1>9, <1>10

(* The node n asks for nothing that its cgroup cannot have for having had  *)
(* processes.                                                              *)
StillBusy(n) ==
    \A r \in Was(PathOf[n.name]) :
        r.busy => ToSet(n.controllers) \cap Domain \subseteq r.ctl

(* What is yet to be applied is declared, so that a step that only takes   *)
(* over what is declared makes no more files applicable.                   *)
LEMMA StillApplicable ==
    ASSUME UNCHANGED <<conf, accounts, seen>>, Applicable',
           \A q \in Nodes : ListedIn(tree', q) \subseteq Offered(q)
    PROVE  Applicable
<1> SUFFICES ASSUME NEW n \in Declared
             PROVE  /\ n.name \in DOMAIN PathOf /\ PathOf[n.name] \in Tree
                    /\ Resolves(EffectivePerm(conf, n).task)
                    /\ Resolves(EffectivePerm(conf, n).admin)
                    /\ Valid(EffectivePerm(conf, n), ToSet(n.controllers))
                    /\ ToSet(n.controllers) \subseteq Offered(Parent(PathOf[n.name]))
                    /\ StillBusy(n)
                    /\ \A m \in Declared : m.name = n.name => m = n
  BY DEF Applicable, StillBusy
<1>1. Declared' = Declared
  BY DEF Declared
<1>2. PICK perm : perm = EffectivePerm(conf, n)
  OBVIOUS
<1>3. PICK r : r = Parent(PathOf[n.name])
  OBVIOUS
<1>4. /\ n.name \in DOMAIN PathOf /\ PathOf[n.name] \in Tree
      /\ Resolves(perm.task)' /\ Resolves(perm.admin)'
      /\ Valid(perm, ToSet(n.controllers))
      /\ ToSet(n.controllers) \subseteq Offered(r)'
      /\ StillBusy(n)
      /\ \A m \in Declared : m.name = n.name => m = n
  BY <1>1, <1>2, <1>3 DEF Applicable, StillBusy, Was
<1>5. Resolves(perm.task) /\ Resolves(perm.admin)
  BY <1>4 DEF Resolves, OwnerOf
<1>6. r \in Nodes
  BY <1>3, <1>4, SnapshotAssumption
<1>7. Offered(r)' \subseteq Offered(r)
  <2>1. PICK D : D = UNION {ToSet(m.controllers) : m \in {k \in Declared : PathOf[k.name] = r}}
    OBVIOUS
  <2>2. Offered(r)' = ListedIn(tree', r) \cup D /\ Offered(r) = ListedIn(tree, r) \cup D
    BY <1>1, <2>1 DEF Offered, ListedIn, Exists
  <2>3. QED  BY <1>6, <2>2
<1>8. QED  BY <1>2, <1>3, <1>4, <1>5, <1>7

LEMMA ApplicableInTree ==
    ASSUME Applicable
    PROVE  InTree
BY DEF Applicable, InTree

(* The node in hand is declared, and below the declared groups that were   *)
(* applied before it.                                                      *)
LEMMA HeadFacts ==
    ASSUME InTree, ShallowFirst, IsFile(conf), queue # <<>>
    PROVE  /\ Head(queue) \in Declared /\ HeadPath \in Tree
           /\ Acceptable => GoodPerm(HeadPerm)
           /\ Tail(queue) \in Seq(Declared) /\ Ascends(Tail(queue), DepthOf)
           /\ ToSet(queue) = {Head(queue)} \cup ToSet(Tail(queue))
           /\ \A m \in Declared : PathOf[m.name] = Parent(HeadPath) => m \notin ToSet(queue)
<1>1. queue \in Seq(Declared) /\ Ascends(queue, DepthOf)
  BY DEF ShallowFirst
<1>2. /\ Head(queue) \in Declared /\ Tail(queue) \in Seq(Declared)
      /\ ToSet(queue) = {Head(queue)} \cup ToSet(Tail(queue))
  BY <1>1, ElementsOfRest
<1>3. /\ DepthOf \in [ToSet(conf.groups) -> Nat] /\ Declared \subseteq ToSet(conf.groups)
  BY DepthsKnown
<1>4. Ascends(Tail(queue), DepthOf) /\ \A x \in ToSet(queue) : DepthOf[Head(queue)] <= DepthOf[x]
  <2>1. PICK A : A = ToSet(conf.groups)
    OBVIOUS
  <2>2. PICK m \in [A -> Nat] : m = DepthOf
    BY <1>3, <2>1
  <2>3. PICK s \in Seq(A) : s = queue
    BY <1>1, <1>3, <2>1
  <2>4. QED  BY <1>1, <2>2, <2>3, HeadIsLeast
<1>5. HeadPath \in Tree
  BY <1>2 DEF InTree, HeadPath
<1>6. IsSet(HeadPerm.task) /\ IsSet(HeadPerm.admin)
  <2>1. PICK c : c = conf
    OBVIOUS
  <2>2. PICK n \in ToSet(c.groups) : n = Head(queue)
    BY <1>2, <1>3, <2>1
  <2>3. IsFile(c)
    BY <2>1
  <2>4. IsSet(EffectivePerm(c, n).task) /\ IsSet(EffectivePerm(c, n).admin)
    BY <2>2, <2>3, PermOfNode
  <2>5. QED  BY <2>1, <2>2, <2>4 DEF HeadPerm
<1>7. ASSUME NEW m \in Declared, PathOf[m.name] = Parent(HeadPath), m \in ToSet(queue)
      PROVE  FALSE
  <2>1. DepthOf[Head(queue)] = Len(HeadPath) /\ DepthOf[m] = Len(Parent(HeadPath))
    BY <1>2, <1>3, <1>7 DEF DepthOf, HeadPath
  <2>2. DepthOf[Head(queue)] <= DepthOf[m]
    BY <1>4, <1>7
  <2>3. Root \in Nodes
    BY DEF Nodes
  <2>4. Len(HeadPath) \in Nat /\ Len(Parent(HeadPath)) = Len(HeadPath) - 1
    BY <1>5, <2>3, PathUp
  <2>5. QED  BY <2>1, <2>2, <2>4
<1>8. QED  BY <1>2, <1>4, <1>5, <1>6, <1>7 DEF GoodPerm, Acceptable, Valid

(* A node of an applicable file goes through.                              *)
LEMMA HeadGoesThrough ==
    ASSUME TreeKept, BusyKnown(tree), IsFile(conf), ShallowFirst, Applicable, Delivering,
           queue # <<>>
    PROVE  GoesThrough
<1>1. InTree
  BY ApplicableInTree
<1>2. /\ Head(queue) \in Declared /\ HeadPath \in Tree
      /\ Acceptable => GoodPerm(HeadPerm)
      /\ \A m \in Declared : PathOf[m.name] = Parent(HeadPath) => m \notin ToSet(queue)
  BY <1>1, HeadFacts
<1>3. /\ Acceptable
      /\ HeadWants \subseteq Offered(Parent(HeadPath))
      /\ \A r \in Was(HeadPath) : r.busy => HeadWants \cap Domain \subseteq r.ctl
  BY <1>2 DEF Applicable, Acceptable, HeadPerm, HeadPath, HeadWants
<1>4. /\ Made[Parent(HeadPath)] \in CgroupRecords /\ Made[HeadPath] \in CgroupRecords
      /\ Parent(HeadPath) \in Nodes /\ HeadPath \in Nodes
      /\ \A q \in Nodes : Exists(q) => Made[q] = tree[q]
      /\ \A q \in Nodes : ~ Exists(q) => Made[q] = Absent \/ IsNew(Made[q])
  BY <1>2, <1>3, HeadIsMade
<1>5. ASSUME NEW m \in Declared, PathOf[m.name] = Parent(HeadPath)
      PROVE  /\ Exists(Parent(HeadPath))
             /\ ToSet(m.controllers) \subseteq tree[Parent(HeadPath)].ctl
  BY <1>2, <1>5 DEF Delivering, Delivered
<1>6. Offered(Parent(HeadPath)) \subseteq Made[Parent(HeadPath)].ctl
  <2>1. PICK r : r = Parent(HeadPath)
    OBVIOUS
  <2>2. PICK D : D = UNION {ToSet(m.controllers) : m \in {k \in Declared : PathOf[k.name] = r}}
    OBVIOUS
  <2>3. Offered(r) = (IF Exists(r) THEN tree[r].ctl ELSE {}) \cup D
    BY <2>2 DEF Offered
  <2>4. \A c \in D : Exists(r) /\ c \in tree[r].ctl
    BY <1>5, <2>1, <2>2
  <2>5. Exists(r) => Made[r] = tree[r]
    BY <1>4, <2>1
  <2>6. QED  BY <2>1, <2>3, <2>4, <2>5
<1>7. HeadWants \subseteq Made[Parent(HeadPath)].ctl
  BY <1>3, <1>6
<1>8. ASSUME Made[HeadPath].busy PROVE HeadWants \cap Domain \subseteq Made[HeadPath].ctl
  <2>1. Made[HeadPath] # Absent
    BY <1>4, CgroupAssumption
  <2>2. Exists(HeadPath)
    BY <1>4, <1>8, <2>1 DEF IsNew
  <2>3. PICK r \in Was(HeadPath) : r.busy /\ r.ctl \subseteq Made[HeadPath].ctl
    BY <1>2, <1>4, <1>8, <2>1, <2>2 DEF BusyKnown
  <2>4. QED  BY <1>3, <2>3
<1>9. QED  BY <1>3, <1>7, <1>8 DEF GoesThrough, Enables

(* Two declared groups of an applicable file have two paths.               *)
LEMMA OneGroupAPath ==
    ASSUME Applicable, NEW n \in Declared, NEW m \in Declared, PathOf[n.name] = PathOf[m.name]
    PROVE  m = n
<1>1. /\ n.name \in DOMAIN PathOf /\ PathOf[n.name] \in Tree
      /\ m.name \in DOMAIN PathOf /\ PathOf[m.name] \in Tree
      /\ m.name = n.name => m = n
  BY DEF Applicable
<1>2. NameOf[PathOf[n.name]] = n.name /\ NameOf[PathOf[m.name]] = m.name
  BY <1>1, SnapshotAssumption
<1>3. QED  BY <1>1, <1>2

(* A step that makes the way to p and gives p no processes leaves every    *)
(* cgroup with processes one that had them.                                *)
LEMMA StaysKnown ==
    ASSUME BusyKnown(tree), NEW p \in Tree, NEW made, NEW new,
           made[p] \in CgroupRecords, Grown(new[p], made[p]),
           \A q \in Nodes : q # p => new[q] = made[q],
           \A q \in Nodes : Exists(q) => made[q] = tree[q],
           \A q \in Nodes : ~ Exists(q) => made[q] = Absent \/ IsNew(made[q])
    PROVE  BusyKnown(new)
<1>1. SUFFICES ASSUME NEW q \in Tree, new[q] # Absent, new[q].busy
               PROVE  \E r \in Was(q) : r.busy /\ r.ctl \subseteq new[q].ctl
  BY DEF BusyKnown
<1>2. q \in Nodes /\ p \in Nodes
  BY DEF Nodes
<1>3. made[q] # Absent /\ Grown(new[q], made[q])
  BY <1>1, <1>2, CgroupAssumption DEF Grown
<1>4. made[q].busy /\ made[q].ctl \subseteq new[q].ctl
  BY <1>1, <1>3 DEF Grown
<1>5. Exists(q) /\ made[q] = tree[q]
  BY <1>2, <1>3, <1>4 DEF IsNew
<1>6. PICK r \in Was(q) : r.busy /\ r.ctl \subseteq tree[q].ctl
  BY <1>4, <1>5 DEF BusyKnown, Exists
<1>7. QED  BY <1>4, <1>5, <1>6

LEMMA ApplyKeepsTree ==
    ASSUME TreeKept, BusyKnown(tree), IsFile(conf), InTree, ShallowFirst, ApplyNode
    PROVE  TreeKept' /\ BusyKnown(tree')
<1>1. /\ queue # <<>>
      /\ GoesThrough => tree' = New
      /\ ~ GoesThrough => tree' = tree \/ (tree' = Done /\ Acceptable)
  BY ApplyNodeAs DEF New
<1>2. CASE tree' = tree
  BY <1>2 DEF TreeKept
<1>3. ASSUME Acceptable
      PROVE  /\ IsTree(Done) /\ BusyKnown(Done)
             /\ GoesThrough => IsTree(New) /\ BusyKnown(New)
  <2>1. GoodPerm(HeadPerm) /\ HeadPath \in Tree
    BY <1>1, <1>3, HeadFacts DEF Acceptable
  <2>2. /\ IsTree(Done) /\ Made[Parent(HeadPath)] \in CgroupRecords
        /\ Made[HeadPath] \in CgroupRecords /\ Grown(Done[HeadPath], Made[HeadPath])
        /\ \A q \in Nodes : q # HeadPath => Done[q] = Made[q]
        /\ \A q \in Nodes : Exists(q) => Made[q] = tree[q]
        /\ \A q \in Nodes : ~ Exists(q) => Made[q] = Absent \/ IsNew(Made[q])
        /\ HeadWants \subseteq Kernel =>
              /\ IsTree(New) /\ Grown(New[HeadPath], Made[HeadPath])
              /\ \A q \in Nodes : q # HeadPath => New[q] = Made[q]
    BY <2>1, HeadIsMade
  <2>3. GoesThrough => HeadWants \subseteq Kernel
    BY <2>2 DEF GoesThrough, Enables, CgroupRecords
  <2>4. BusyKnown(Done)
    BY <2>1, <2>2, StaysKnown
  <2>5. GoesThrough => BusyKnown(New)
    BY <2>1, <2>2, <2>3, StaysKnown
  <2>6. QED  BY <2>2, <2>3, <2>4, <2>5
<1>4. CASE GoesThrough
  BY <1>1, <1>3, <1>4 DEF GoesThrough, TreeKept
<1>5. QED  BY <1>1, <1>2, <1>3, <1>4 DEF TreeKept

(* Whichever way it ends, a node adds only what is declared.               *)
LEMMA ApplyAddsDeclared ==
    ASSUME TreeKept, IsFile(conf), InTree, ShallowFirst, ApplyNode, NEW q \in Nodes
    PROVE  ListedIn(tree', q) \subseteq Offered(q)
<1>1. /\ queue # <<>>
      /\ GoesThrough => tree' = New
      /\ ~ GoesThrough => tree' = tree \/ (tree' = Done /\ Acceptable)
  BY ApplyNodeAs DEF New
<1>2. ListedIn(tree, q) \subseteq Offered(q)
  BY DEF ListedIn, Offered, Exists
<1>3. CASE tree' = tree
  BY <1>2, <1>3
<1>4. ASSUME Acceptable
      PROVE  /\ ListedIn(Done, q) \subseteq Offered(q)
             /\ GoesThrough => ListedIn(New, q) \subseteq Offered(q)
  <2>1. GoodPerm(HeadPerm) /\ Head(queue) \in Declared /\ HeadPath \in Tree
    BY <1>1, <1>4, HeadFacts
  <2>2. /\ IsTree(Made) /\ Made[Parent(HeadPath)] \in CgroupRecords
        /\ Exists(q) => Made[q] = tree[q]
        /\ ~ Exists(q) => ListedIn(Made, q) = {}
        /\ ListedIn(Done, q) = ListedIn(Made, q)
        /\ Made[HeadPath] \in CgroupRecords
        /\ HeadWants \subseteq Kernel =>
              /\ New[HeadPath].ctl = Made[HeadPath].ctl \cup HeadWants
              /\ New[HeadPath] # Absent
              /\ q # HeadPath => New[q] = Made[q]
    BY <2>1, HeadIsMade
  <2>3. GoesThrough => HeadWants \subseteq Kernel
    BY <2>2 DEF GoesThrough, Enables, CgroupRecords
  <2>4. ListedIn(Made, q) \subseteq Offered(q)
    BY <1>2, <2>2 DEF ListedIn
  <2>5. HeadWants \subseteq Offered(HeadPath)
    <3>1. Head(queue) \in {m \in Declared : PathOf[m.name] = HeadPath}
      BY <2>1 DEF HeadPath
    <3>2. QED  BY <3>1 DEF HeadWants, Offered
  <2>6. Made[HeadPath] # Absent
    BY <2>2, CgroupAssumption
  <2>7. CASE q = HeadPath
    BY <2>2, <2>3, <2>4, <2>5, <2>6, <2>7 DEF ListedIn
  <2>8. CASE q # HeadPath
    BY <2>2, <2>3, <2>4, <2>8 DEF ListedIn
  <2>9. QED  BY <2>7, <2>8
<1>5. CASE GoesThrough
  BY <1>1, <1>4, <1>5 DEF GoesThrough
<1>6. QED  BY <1>1, <1>3, <1>4, <1>5

LEMMA ApplyDelivers ==
    ASSUME TreeKept, BusyKnown(tree), IsFile(conf), ShallowFirst, Applicable, Delivering,
           ApplyNode
    PROVE  Delivering'
<1>1. InTree /\ step = "apply" /\ queue # <<>> /\ UNCHANGED conf
  BY ApplicableInTree, ApplyNodeAs
<1>2. GoesThrough
  BY <1>1, HeadGoesThrough
<1>3. tree' = New /\ queue' = Tail(queue) /\ step' = "apply"
  BY <1>2, ApplyNodeAs DEF New
<1>4. /\ Head(queue) \in Declared /\ HeadPath \in Tree /\ GoodPerm(HeadPerm)
      /\ ToSet(queue) = {Head(queue)} \cup ToSet(Tail(queue))
  BY <1>1, <1>2, HeadFacts DEF GoesThrough
<1>5. Made[Parent(HeadPath)] \in CgroupRecords
  BY <1>4, HeadIsMade
<1>6. HeadWants \subseteq Kernel
  BY <1>2, <1>5 DEF GoesThrough, Enables, CgroupRecords
<1>7. /\ New[HeadPath] # Absent
      /\ New[HeadPath] = Owned(New[HeadPath], HeadPerm)
      /\ HeadWants \subseteq New[HeadPath].ctl
      /\ \A q \in Nodes : q # HeadPath => New[q] = Made[q]
      /\ \A q \in Nodes : Exists(q) => Made[q] = tree[q]
  BY <1>4, <1>6, HeadIsMade
<1>8. Declared' = Declared
  BY <1>1 DEF Declared
<1>10. UNCHANGED accounts
  BY ApplyNodeAs
<1>11. ASSUME NEW n \in Declared, n \in ToSet(queue) \/ Delivered(n)
       PROVE  n \in ToSet(queue') \/ Delivered(n)'
  <2>1. PICK p : p = PathOf[n.name]
    OBVIOUS
  <2>2. PICK perm : perm = EffectivePerm(conf, n) /\ perm = EffectivePerm(conf', n)
    BY <1>1
  <2>3. Delivered(n) <=> /\ Exists(p) /\ tree[p] = Owned(tree[p], perm)
                         /\ ToSet(n.controllers) \subseteq tree[p].ctl
    BY <2>1, <2>2 DEF Delivered
  <2>4. PICK c : c = tree'[p]
    OBVIOUS
  <2>5. Owned(tree[p], perm)' = Owned(c, perm)
    <3>1. \A word : OwnerOf(word)' = OwnerOf(word)
      BY <1>10 DEF OwnerOf
    <3>2. \A word, u : OwnerOr(word, u)' = OwnerOr(word, u)
      BY <3>1 DEF OwnerOr
    <3>3. QED  BY <2>4, <3>2, Zenon DEF Owned
  <2>6. Delivered(n)' <=> /\ c # Absent /\ c = Owned(c, perm)
                          /\ ToSet(n.controllers) \subseteq c.ctl
    BY <2>1, <2>2, <2>4, <2>5 DEF Delivered, Exists
  <2>7. CASE n = Head(queue)
    <3>1. p = HeadPath /\ perm = HeadPerm /\ ToSet(n.controllers) = HeadWants
      BY <2>1, <2>2, <2>7 DEF HeadPath, HeadPerm, HeadWants
    <3>2. QED  BY <1>3, <1>7, <2>4, <2>6, <3>1
  <2>8. CASE n # Head(queue) /\ n \in ToSet(queue)
    BY <1>3, <1>4, <2>8
  <2>9. CASE n # Head(queue) /\ Delivered(n)
    <3>1. p # HeadPath /\ p \in Tree
      BY <1>1, <1>4, <2>1, <2>9, OneGroupAPath DEF HeadPath, InTree
    <3>2. p \in Nodes /\ Exists(p)
      BY <2>3, <2>9, <3>1 DEF Nodes
    <3>3. tree'[p] = tree[p]
      BY <1>3, <1>7, <3>1, <3>2
    <3>4. QED  BY <2>3, <2>4, <2>6, <2>9, <3>2, <3>3 DEF Exists
  <2>10. QED  BY <1>11, <2>7, <2>8, <2>9
<1>12. \A n \in Declared : n \in ToSet(queue') \/ Delivered(n)'
  BY <1>11 DEF Delivering
<1>13. QED  BY <1>3, <1>8, <1>12 DEF Delivering

LEMMA ReadSorts ==
    ASSUME TextInv, ReadConfig, conf' # Unreadable, IsFile(conf'), InTree'
    PROVE  /\ ShallowFirst' /\ step' = "apply"
           /\ \A n \in Declared' : n \in ToSet(queue')
<1>1. step = "saved" /\ conf = Unreadable
  BY DEF ReadConfig, TextInv, ConfRead
<1>2. /\ Parse(text) # Unreadable /\ conf' = Parse(text) /\ step' = "apply"
      /\ queue' = Those(ByDepth(Parse(text).groups), LAMBDA n : n.name # ".")
  BY <1>1 DEF ReadConfig, Fail
<1>3. PICK c : c = conf'
  OBVIOUS
<1>4. PICK q : q = queue'
  OBVIOUS
<1>5. q = Those(ByDepth(c.groups), LAMBDA n : n.name # ".")
  BY <1>2, <1>3, <1>4
<1>6. PICK D : D = Declared' /\ D = {n \in ToSet(c.groups) : n.name # "."}
  BY <1>3 DEF Declared
<1>7. PICK m : m = DepthOf' /\ m = [n \in ToSet(c.groups) |-> Len(PathOf[n.name])]
  BY <1>3 DEF DepthOf
<1>8. IsFile(c) /\ PathsKnown(c)
  BY <1>3, <1>6 DEF InTree, PathsKnown
<1>9. q \in Seq(D) /\ ToSet(q) = D /\ Ascends(q, m)
  BY <1>5, <1>6, <1>7, <1>8, QueueOfFile
<1>10. QED  BY <1>2, <1>4, <1>6, <1>7, <1>9 DEF ShallowFirst

LEMMA SameWorldDelivers ==
    ASSUME DeliverInv, UNCHANGED <<job, tree, accounts, seen, changes, conf, queue>>,
           \/ UNCHANGED step
           \/ conf = Unreadable /\ step' # "apply"
           \/ step = "apply" /\ step' = "done" /\ queue = <<>>
    PROVE  DeliverInv'
<1>1. Declared' = Declared /\ DepthOf' = DepthOf
  BY DEF Declared, DepthOf
<1>2. /\ InTree' <=> InTree
      /\ ShallowFirst' <=> ShallowFirst
      /\ TreeKept' /\ BusyKnown(tree)' <=> TreeKept /\ BusyKnown(tree)
  BY <1>1 DEF InTree, ShallowFirst, TreeKept, BusyKnown, Was
<1>3. Applicable' <=> Applicable
  BY <1>1 DEF Applicable, Offered, Exists, Resolves, OwnerOf, Declared, Was
<1>4. \A n : Delivered(n)' <=> Delivered(n)
  <2>1. \A word, u : OwnerOr(word, u)' = OwnerOr(word, u)
    <3>1. \A word : OwnerOf(word)' = OwnerOf(word)
      BY DEF OwnerOf
    <3>2. QED  BY <3>1 DEF OwnerOr
  <2>2. \A p, perm : Owned(tree[p], perm)' = Owned(tree[p], perm)
    <3>1. SUFFICES ASSUME NEW p, NEW perm PROVE Owned(tree[p], perm)' = Owned(tree[p], perm)
      OBVIOUS
    <3>2. PICK c : c = tree[p] /\ c = tree'[p]
      OBVIOUS
    <3>3. Owned(tree[p], perm)' = Owned(c, perm)
      BY <2>1, <3>2, Zenon DEF Owned
    <3>4. QED  BY <3>2, <3>3
  <2>3. QED  BY <2>2 DEF Delivered, Exists
<1>5. CASE conf = Unreadable
  BY <1>1, <1>2, <1>5 DEF DeliverInv
<1>6. CASE conf # Unreadable
  <2>1. (step' = "apply" => step = "apply") /\ conf' # Unreadable
    BY <1>6
  <2>2. Delivering => Delivering'
    BY <1>1, <1>4, <1>6 DEF Delivering
  <2>3. QED  BY <1>1, <1>2, <1>3, <1>6, <2>1, <2>2 DEF DeliverInv
<1>7. QED  BY <1>5, <1>6

LEMMA ChangeKeepsDeliverInv ==
    ASSUME DeliverInv, changes' = changes + 1, UNCHANGED <<step, conf, queue>>
    PROVE  DeliverInv'
<1>1. Declared' = Declared /\ DepthOf' = DepthOf
  BY DEF Declared, DepthOf
<1>2. (InTree' <=> InTree) /\ (ShallowFirst' <=> ShallowFirst)
  BY <1>1 DEF InTree, ShallowFirst
<1>3. changes' \in Nat /\ changes' # 0
  BY DEF DeliverInv
<1>4. QED  BY <1>2, <1>3 DEF DeliverInv

LEMMA ReadKeepsDeliverInv ==
    ASSUME WalkInv, TextInv, DeliverInv, job = "cgctl", UNCHANGED job, ReadConfig
    PROVE  DeliverInv'
<1>1. step = "saved" /\ conf = Unreadable /\ UNCHANGED <<tree, accounts, seen, changes>>
  BY DEF ReadConfig, TextInv, ConfRead, worldVars
<1>2. CASE Parse(text) = Unreadable
  <2>1. Fail
    BY <1>2 DEF ReadConfig
  <2>2. QED  BY <1>1, <2>1, SameWorldDelivers DEF Fail
<1>3. CASE Parse(text) # Unreadable
  <2>1. conf' = Parse(text) /\ conf' # Unreadable
    BY <1>3 DEF ReadConfig
  <2>2. IsFile(conf')
    BY <2>1, ReadConfigReads
  <2>3. InTree' => /\ ShallowFirst' /\ step' = "apply"
                   /\ \A n \in Declared' : n \in ToSet(queue')
    BY <2>1, <2>2, ReadSorts
  <2>4. Applicable' => InTree'
    BY DEF Applicable, InTree
  <2>5. Applicable' => Delivering'
    BY <2>3, <2>4 DEF Delivering
  <2>6. changes = 0 => TreeKept' /\ BusyKnown(tree)'
    BY <1>1 DEF DeliverInv, TreeKept, BusyKnown, Was
  <2>7. QED  BY <1>1, <2>1, <2>3, <2>5, <2>6 DEF DeliverInv
<1>4. QED  BY <1>2, <1>3

LEMMA ApplyKeepsDeliverInv ==
    ASSUME TextInv, DeliverInv, job = "cgctl", UNCHANGED job, ApplyNode
    PROVE  DeliverInv'
<1>1. /\ step = "apply" /\ queue # <<>> /\ UNCHANGED <<accounts, seen, changes, conf>>
      /\ GoesThrough => /\ tree' = New /\ queue' = Tail(queue) /\ step' = "apply"
      /\ ~ GoesThrough => Fail
  BY ApplyNodeAs DEF New
<1>2. conf # Unreadable /\ IsFile(conf) /\ changes \in Nat
  BY <1>1 DEF DeliverInv, TextInv
<1>3. Declared' = Declared /\ DepthOf' = DepthOf
  BY <1>1 DEF Declared, DepthOf
<1>4. InTree' <=> InTree
  BY <1>3 DEF InTree
<1>5. InTree => ShallowFirst
  BY <1>2 DEF DeliverInv
<1>6. InTree => ShallowFirst'
  <2>1. SUFFICES ASSUME InTree PROVE ShallowFirst'
    OBVIOUS
  <2>2. Tail(queue) \in Seq(Declared) /\ Ascends(Tail(queue), DepthOf)
    BY <1>1, <1>2, <1>5, <2>1, HeadFacts
  <2>3. ~ GoesThrough => UNCHANGED queue
    BY <1>1 DEF Fail
  <2>4. QED  BY <1>1, <1>3, <1>5, <2>1, <2>2, <2>3 DEF ShallowFirst
<1>7. changes = 0 /\ InTree => /\ TreeKept /\ BusyKnown(tree)
                               /\ TreeKept' /\ BusyKnown(tree)'
  <2>1. changes = 0 /\ InTree => /\ TreeKept /\ BusyKnown(tree)
                                 /\ TreeKept' /\ BusyKnown(tree')
    BY <1>1, <1>2, <1>5, ApplyKeepsTree DEF DeliverInv
  <2>2. BusyKnown(tree)' <=> BusyKnown(tree')
    BY <1>1 DEF BusyKnown, Was
  <2>3. QED  BY <2>1, <2>2
<1>8. changes = 0 /\ Applicable' => Delivering'
  <2>1. SUFFICES ASSUME changes = 0, Applicable' PROVE Delivering'
    OBVIOUS
  <2>2. InTree
    BY <1>4, <2>1 DEF Applicable, InTree
  <2>3. TreeKept /\ BusyKnown(tree) /\ ShallowFirst
    BY <1>5, <1>7, <2>1, <2>2
  <2>4. Applicable
    BY <1>1, <1>2, <2>1, <2>2, <2>3, ApplyAddsDeclared, StillApplicable
  <2>5. Delivering
    BY <1>2, <2>1, <2>4 DEF DeliverInv
  <2>6. QED  BY <1>2, <2>3, <2>4, <2>5, ApplyDelivers
<1>9. step' = "apply" => conf' # Unreadable
  BY <1>1, <1>2
<1>10. QED  BY <1>1, <1>2, <1>4, <1>6, <1>7, <1>8, <1>9 DEF DeliverInv

LEMMA StepKeepsDeliverInv ==
    ASSUME WalkInv, TextInv, DeliverInv, [Next]_vars
    PROVE  DeliverInv'
<1>1. CASE UNCHANGED <<job, snapVars>>
  BY <1>1, SameWorldDelivers DEF snapVars, toolVars, worldVars
<1>2. ASSUME job = "cgctl", UNCHANGED job, SnapNext PROVE DeliverInv'
  <2>1. CASE List \/ Visit \/ EndWalk \/ Meta \/ Procs \/ Controllers \/ Params \/ ReadParam
             \/ PermStep \/ Render
    <3>1. /\ ~ ConfRead /\ step' # "apply"
          /\ UNCHANGED <<tree, accounts, seen, changes, conf, queue>>
      BY <2>1 DEF List, Visit, EndWalk, Meta, Procs, Controllers, Params, ReadParam, PermStep,
                  Render, Describe, Fail, worldVars, ConfRead
    <3>2. conf = Unreadable
      BY <3>1 DEF TextInv
    <3>3. QED  BY <1>2, <3>1, <3>2, SameWorldDelivers
  <2>2. CASE ReadConfig
    BY <1>2, <2>2, ReadKeepsDeliverInv
  <2>3. CASE ApplyNode
    BY <1>2, <2>3, ApplyKeepsDeliverInv
  <2>4. CASE EndConfig
    BY <1>2, <2>4, SameWorldDelivers DEF EndConfig, worldVars
  <2>5. CASE \/ \E p \in Tree, cgroup \in Others : OtherChange(p, cgroup)
             \/ \E p \in Tree : OtherRmdir(p)
             \/ \E u \in accounts : Userdel(u)
    <3>1. changes' = changes + 1 /\ UNCHANGED <<step, conf, queue>>
      BY <2>5 DEF OtherChange, OtherRmdir, Change, Userdel, toolVars
    <3>2. QED  BY <3>1, ChangeKeepsDeliverInv
  <2>6. CASE Reboot
    <3>1. /\ step = "saved" /\ UNCHANGED <<step, accounts, seen, changes, conf, queue>>
          /\ tree' = [p \in Nodes |-> IF p = Root THEN tree[Root] ELSE Absent]
      BY <2>6 DEF Reboot, toolVars
    <3>2. conf = Unreadable
      BY <3>1 DEF TextInv, ConfRead
    <3>3. (TreeKept => TreeKept') /\ BusyKnown(tree)'
      <4>1. Root \in Nodes /\ \A p \in Tree : tree'[p] = Absent
        BY <3>1, SnapshotAssumption DEF Nodes
      <4>2. QED  BY <3>1, <4>1 DEF TreeKept, IsTree, Nodes, BusyKnown
    <3>4. QED  BY <1>2, <3>1, <3>2, <3>3 DEF DeliverInv
  <2>7. QED  BY <1>2, <2>1, <2>2, <2>3, <2>4, <2>5, <2>6 DEF SnapNext, ToolStep, OtherStep
<1>3. QED  BY <1>1, <1>2 DEF Next, vars

(* DeliveryStaysTrue: while nobody interferes, every declared group of a   *)
(* file that can be applied in full is either still in the queue, which is *)
(* in order of depth, or in the tree as declared.                          *)
THEOREM DeliveryStaysTrue == Spec => []DeliverInv
<1>1. Init => DeliverInv
  <2>1. ASSUME SnapInit PROVE TreeKept /\ BusyKnown(tree)
    <3>1. tree \in Trees
      BY <2>1 DEF SnapInit
    <3>2. DOMAIN tree = Nodes
      BY <3>1, SnapshotAssumption
    <3>3. \A p \in Tree : tree[p] \in Cgroups \cup {Absent}
      BY <3>1 DEF Cgroups
    <3>4. tree[Root] \in AnyCgroups
      BY <3>1 DEF AnyCgroups
    <3>5. Cgroups \subseteq AnyCgroups /\ AnyCgroups \subseteq CgroupRecords
      BY CgroupAssumption DEF AnyCgroups
    <3>6. TreeKept
      BY <3>2, <3>3, <3>4, <3>5 DEF TreeKept, IsTree, Nodes
    <3>7. \A p \in Tree : tree[p] # Absent => tree[p] \in Was(p)
      BY <2>1 DEF SnapInit, Was, Nodes
    <3>8. QED  BY <3>6, <3>7 DEF BusyKnown
  <2>2. QED  BY <2>1 DEF Init, CgctlRests, SnapInit, DeliverInv
<1>2. TextInv /\ WalkInv /\ DeliverInv /\ [Next]_vars => DeliverInv'
  BY StepKeepsDeliverInv
<1>3. QED  BY <1>1, <1>2, WalkStaysTrue, TextStaysTrue, PTL DEF Spec

(* ConfigAlwaysDelivers: left alone, cgctl config applies every group of a *)
(* file whose groups name paths, have owners that resolve and modes of no  *)
(* bit above 0o7777, and ask only for controllers their parent has or      *)
(* declares and, of those the kernel keeps apart from processes, for none  *)
(* that a cgroup with processes has not, in whatever order the file has    *)
(* them.                                                                   *)
THEOREM ConfigAlwaysDelivers == Spec => []ConfigDelivers
<1>1. DeliverInv => ConfigDelivers
  <2>1. SUFFICES ASSUME DeliverInv, step \in {"done", "failed"}, conf # Unreadable,
                        changes = 0, Applicable
                 PROVE  step = "done" /\ \A n \in Declared : Delivered(n)
    BY Zenon DEF ConfigDelivers, Delivered
  <2>2. Delivering
    BY <2>1 DEF DeliverInv
  <2>3. step = "done" /\ ToSet(queue) = {}
    BY <2>1, <2>2, NoneAtAll DEF Delivering
  <2>4. QED  BY <2>2, <2>3 DEF Delivering
<1>2. QED  BY <1>1, DeliveryStaysTrue, PTL

-----------------------------------------------------------------------------
(* A snapshot of the root of a tree nobody touches.                        *)

LEMMA LengthOfPath ==
    ASSUME NEW p \in Nodes
    PROVE  /\ p \in Seq(ToSet(p)) /\ Len(p) \in Nat /\ Within(p, Root)
           /\ p # Root => p \in Tree
<1>1. Root \in Seq(ToSet(Root)) /\ Len(Root) = 0
  BY DEF Root
<1>2. p \in Seq(ToSet(p)) /\ (p # Root => p \in Tree)
  BY <1>1, SnapshotAssumption DEF Nodes
<1>3. IsPrefix(Root, p)
  <2>1. PICK S : S = ToSet(p)
    OBVIOUS
  <2>2. p \in Seq(S) /\ Root \in Seq(S) /\ Len(Root) <= Len(p)
    BY <1>1, <1>2, <2>1 DEF Root
  <2>3. \A i \in 1..Len(Root) : Root[i] = p[i]
    BY <1>1
  <2>4. QED  BY <2>2, <2>3, PrefixPointwise
<1>4. QED  BY <1>2, <1>3 DEF Within

(* Whatever is on the way to a cgroup of a tree is in it.                  *)
LEMMA AncestorsStand ==
    ASSUME NEW t \in Trees, NEW p \in Tree, t[p] # Absent, NEW q \in Nodes, Within(p, q)
    PROVE  t[q] # Absent
<1> DEFINE S == {n \in Nat : \E x \in Nodes : t[x] # Absent /\ Within(x, q) /\ Len(x) = n}
<1>1. p \in Nodes
  BY DEF Nodes
<1>2. S # {}
  BY <1>1, LengthOfPath
<1>3. PICK n \in S : \A k \in S : n <= k
  <2>1. S \subseteq Nat
    OBVIOUS
  <2>2. QED  BY <1>2, <2>1, FirstPosition
<1>4. PICK x \in Nodes : t[x] # Absent /\ Within(x, q) /\ Len(x) = n
  OBVIOUS
<1>5. CASE x = q
  BY <1>4, <1>5
<1>6. CASE x = Root /\ x # q
  <2>1. q \in Seq(ToSet(q)) /\ IsPrefix(q, Root) /\ Len(Root) = 0
    BY <1>4, <1>6, LengthOfPath DEF Within, Root
  <2>2. Len(q) <= 0
    BY <2>1 DEF IsPrefix
  <2>3. q = Root
    BY <2>1, <2>2 DEF Root
  <2>4. QED  BY <1>6, <2>3
<1>7. CASE x # Root /\ x # q
  <2>1. x \in Tree
    BY <1>7, LengthOfPath
  <2>2. PICK y \in Nodes : y = Parent(x)
    BY <2>1, SnapshotAssumption
  <2>3. Within(y, q) /\ Len(y) = Len(x) - 1 /\ Len(x) \in Nat /\ Len(x) >= 1
    BY <1>4, <1>7, <2>1, <2>2, PathUp
  <2>4. t[y] # Absent
    BY <1>4, <2>1, <2>2, SnapshotAssumption
  <2>5. n - 1 \in S
    BY <1>4, <2>3, <2>4
  <2>6. n \in Nat /\ n <= n - 1
    BY <1>3, <2>5
  <2>7. QED  BY <2>6
<1>8. QED  BY <1>5, <1>6, <1>7

(* A described group cannot be taken for owners, so a snapshot is read.    *)
LEMMA NotOwners ==
    ASSUME NEW n, Shaped(n)
    PROVE  ~ LooksLikeOwners(n)
<1>1. PICK A : A = ToSet(n.params)
  OBVIOUS
<1>2. PICK s \in Seq(A) : s = n.params /\ ToSet(s) = A
  BY <1>1 DEF Shaped
<1>3. \A x \in A : x[1] # "perm"
  BY <1>1 DEF Shaped
<1>4. Under(s, "perm") = Kept(s, {x \in A : x[1] = "perm"})
  BY UnderKept
<1>5. ToSet(s) \cap {x \in A : x[1] = "perm"} = {}
  BY <1>3
<1>6. Kept(s, {x \in A : x[1] = "perm"}) = <<>>
  BY <1>5, KeptNone
<1>7. QED  BY <1>2, <1>4, <1>6 DEF LooksLikeOwners

LEMMA SnapshotIsRead ==
    ASSUME TextInv, tool = "snapshot", step = "saved"
    PROVE  Parse(text) # Unreadable
<1>1. AreShaped(groups) /\ text = Display(Described) /\ Display(Described) # Unwritten
  BY DEF TextInv
<1>2. IsFile(Described) /\ Normal(Described) = Described
  BY <1>1, DescribedIsFile
<1>3. PICK c : c = Described
  OBVIOUS
<1>4. c.groups = groups /\ c.templates = <<>> /\ c # Unreadable
  <2>1. DOMAIN c = {"mounts", "default", "groups", "templates"}
    BY <1>3 DEF Described
  <2>2. DOMAIN Unreadable = {"error"}
    BY DEF Unreadable
  <2>3. QED  BY <1>3, <2>1, <2>2 DEF Described
<1>5. \A n \in ToSet(c.groups) \cup ToSet(c.templates) : ~ LooksLikeOwners(n)
  <2>1. ToSet(c.templates) = {}
    BY <1>4, NoneAtAll
  <2>2. \A n \in ToSet(groups) : ~ LooksLikeOwners(n)
    BY <1>1, NotOwners DEF AreShaped
  <2>3. QED  BY <1>4, <2>1, <2>2
<1>6. Parse(Display(c)) = Normal(c)
  BY <1>1, <1>2, <1>3, <1>5, WrittenIsReadBack
<1>7. QED  BY <1>1, <1>2, <1>3, <1>4, <1>6

(* What describe writes for an owner stands for nobody else.               *)
LEMMA OneOwner ==
    ASSUME NEW word, NEW u \in DOMAIN Numeral, Named(word, u), accounts = Accounts
    PROVE  word # NoVal /\ OwnerOf(word) # {} /\ OneOf(OwnerOf(word)) = u
<1>1. word # NoVal
  BY AccountsAssumption DEF Named, OwnerWords
<1>2. OwnerOf(word) = {u}
  <2>1. u \in OwnerOf(word)
    BY DEF Named, OwnerOf
  <2>2. ASSUME NEW v \in OwnerOf(word) PROVE v = u
    BY <2>2, AccountsAssumption DEF Named, OwnerOf
  <2>3. QED  BY <2>1, <2>2
<1>3. OneOf({u}) = u
  BY DEF OneOf
<1>4. QED  BY <1>1, <1>2, <1>3

(* t is what the walk saw: nobody touched it, and what the tool or a       *)
(* reboot made of the tree since is part of it.                            *)
PartOf(s, t) ==
    /\ s[Root] = t[Root]
    /\ \A p \in Nodes : s[p] # Absent => t[p] # Absent /\ s[p].ctl \subseteq t[p].ctl

Untouched(t) ==
    /\ accounts = Accounts
    /\ \A p \in Nodes : seen[p] = {t[p]}
    /\ PartOf(tree, t)

Restoring == tool = "snapshot" /\ base = Root /\ changes = 0

RestoreInv ==
    /\ tool = "snapshot" => job = "cgctl"
    /\ Restoring =>
          /\ \E t \in Trees : Untouched(t)
          /\ step = "failed" => Display(Described) = Unwritten
          /\ step = "done" => conf # Unreadable

(* The group n says what the cgroup r at p is.                             *)
Depicts(n, p, r) ==
    /\ r \in CgroupRecords
    /\ n.name = NameOf[p] /\ PathOf[n.name] = p /\ n.name \in DOMAIN PathOf
    /\ n.name # "."
    /\ n.perm # NoVal
    /\ Named(n.perm.admin.uid, r.owner) /\ Named(n.perm.task.uid, r.task)
    /\ n.perm.admin.dperm = Low[r.mode] /\ n.perm.admin.fperm = Low[r.fmode]
    /\ n.perm.task.fperm = NoVal
    /\ ToSet(n.controllers) = r.ctl

LEMMA WasInTree ==
    ASSUME NEW t \in Trees, Untouched(t), NEW p \in Nodes
    PROVE  /\ t[p] # Absent => Was(p) = {t[p]} /\ Stood(p)
           /\ Was(p) # {} => t[p] # Absent
           /\ t[p] # Absent => t[p] \in CgroupRecords
           /\ t[Root] # Absent /\ Root \in Nodes
<1>1. seen[p] = {t[p]}
  BY DEF Untouched
<1>2. Root \in Nodes /\ t[Root] \in AnyCgroups
  BY DEF Nodes, AnyCgroups
<1>3. t[Root] \in CgroupRecords /\ t[Root] # Absent
  BY <1>2, CgroupAssumption
<1>4. ASSUME t[p] # Absent PROVE t[p] \in CgroupRecords
  <2>1. p # Root => t[p] \in AnyCgroups
    BY <1>4 DEF AnyCgroups, Cgroups, Nodes
  <2>2. QED  BY <1>3, <2>1, CgroupAssumption
<1>5. QED  BY <1>1, <1>2, <1>3, <1>4 DEF Was, Stood

LEMMA GroupDepicts ==
    ASSUME WalkInv, tool = "snapshot", NEW t \in Trees, Untouched(t), NEW n \in ToSet(groups)
    PROVE  \E p \in Tree : t[p] # Absent /\ Depicts(n, p, t[p])
<1>1. PICK i \in DOMAIN groups : groups[i] = n
  BY DEF ToSet
<1>2. PICK p \in Tree : Was(p) # {} /\ Describes(n, p)
  BY <1>1 DEF WalkInv, Walk, GroupsAsSeen
<1>3. p \in Nodes
  BY DEF Nodes
<1>4. Was(p) = {t[p]} /\ Stood(p) /\ t[p] # Absent /\ t[p] \in CgroupRecords
  BY <1>2, <1>3, WasInTree
<1>5. PICK r \in CgroupRecords : r = t[p]
  BY <1>4
<1>6. n.name = NameOf[p] /\ PathOf[n.name] = p /\ n.name \in DOMAIN PathOf /\ n.name # "."
  <2>1. n.name = NameOf[p]
    BY <1>2 DEF Describes
  <2>2. QED  BY <2>1, SnapshotAssumption, CgroupAssumption
<1>7. AsSeen(n, p) /\ Was(p) = {r} /\ Stood(p)
  BY <1>2, <1>4, <1>5 DEF Describes
<1>8. /\ n.perm # NoVal
      /\ Named(n.perm.admin.uid, r.owner) /\ Named(n.perm.task.uid, r.task)
      /\ n.perm.admin.dperm = Low[r.mode] /\ n.perm.admin.fperm = Low[r.fmode]
      /\ n.perm.task.fperm = NoVal
  <2>1. n.perm # NoVal => n.perm.task.fperm = NoVal
    BY <1>2 DEF Describes
  <2>2. QED  BY <1>7, <2>1, Zenon DEF AsSeen, PermAsSeen
<1>9. ToSet(n.controllers) = r.ctl
  BY <1>7 DEF AsSeen
<1>10. QED  BY <1>4, <1>5, <1>6, <1>8, <1>9 DEF Depicts

LEMMA EveryGroup ==
    ASSUME WalkInv, tool = "snapshot", base = Root, Complete,
           NEW t \in Trees, Untouched(t), NEW p \in Tree, t[p] # Absent
    PROVE  \E n \in ToSet(groups) : Depicts(n, p, t[p])
<1>1. Within(p, base) /\ p # base /\ p \in Nodes
  BY LengthOfPath, SnapshotAssumption DEF Nodes
<1>2. StoodBelow(p)
  <2>1. SUFFICES ASSUME NEW q \in Tree, Within(p, q) PROVE Stood(q)
    BY DEF StoodBelow
  <2>2. q \in Nodes
    BY DEF Nodes
  <2>3. t[q] # Absent
    BY <2>1, <2>2, AncestorsStand
  <2>4. QED  BY <2>2, <2>3, WasInTree
<1>3. p \in ToSet(Found)
  BY <1>1, <1>2 DEF WalkInv, Complete, WalkFindsAll
<1>4. PICK i \in DOMAIN groups : p = PathOf[groups[i].name]
  BY <1>3 DEF Found, ToSet
<1>5. PICK n \in ToSet(groups) : n = groups[i]
  BY DEF ToSet
<1>6. PICK q \in Tree : Depicts(n, q, t[q])
  BY GroupDepicts
<1>7. q = p
  BY <1>4, <1>5, <1>6 DEF Depicts
<1>8. QED  BY <1>6, <1>7

(* What was described is what cgctl config applies.                        *)
LEMMA DescribedIsDeclared ==
    ASSUME conf = Described
    PROVE  /\ Declared = {n \in ToSet(groups) : n.name # "."}
           /\ \A n : n.perm # NoVal => EffectivePerm(conf, n) = n.perm
           /\ conf # Unreadable
<1>1. conf.groups = groups
  BY DEF Described
<1>2. conf # Unreadable
  <2>1. DOMAIN conf = {"mounts", "default", "groups", "templates"}
    BY DEF Described
  <2>2. DOMAIN Unreadable = {"error"}
    BY DEF Unreadable
  <2>3. QED  BY <2>1, <2>2
<1>3. QED  BY <1>1, <1>2 DEF Declared, EffectivePerm

LEMMA DepictedOwners ==
    ASSUME accounts = Accounts, NEW n, NEW p, NEW r, Depicts(n, p, r)
    PROVE  /\ Resolves(n.perm.task) /\ Resolves(n.perm.admin)
           /\ \A u : OwnerOr(n.perm.admin.uid, u) = r.owner
           /\ \A u : OwnerOr(n.perm.task.uid, u) = r.task
           /\ Valid(n.perm, ToSet(n.controllers))
<1>1. r.owner \in DOMAIN Numeral /\ r.task \in DOMAIN Numeral
  BY DEF Depicts, CgroupRecords
<1>2. Named(n.perm.admin.uid, r.owner) /\ Named(n.perm.task.uid, r.task)
  BY DEF Depicts
<1>3. /\ n.perm.admin.uid # NoVal /\ OwnerOf(n.perm.admin.uid) # {}
      /\ OneOf(OwnerOf(n.perm.admin.uid)) = r.owner
  BY <1>1, <1>2, OneOwner
<1>4. /\ n.perm.task.uid # NoVal /\ OwnerOf(n.perm.task.uid) # {}
      /\ OneOf(OwnerOf(n.perm.task.uid)) = r.task
  BY <1>1, <1>2, OneOwner
<1>5. Valid(n.perm, ToSet(n.controllers))
  <2>1. Low[r.mode] \in Legal /\ Low[r.fmode] \in Legal /\ r.ctl \subseteq ControllerNames
    BY CgroupAssumption DEF Depicts, CgroupRecords
  <2>2. QED  BY <2>1 DEF Depicts, Valid
<1>6. QED  BY <1>3, <1>4, <1>5 DEF Resolves, OwnerOr

LEMMA OneGroupACgroup ==
    ASSUME WalkInv, tool = "snapshot", Complete,
           NEW n \in ToSet(groups), NEW m \in ToSet(groups), m.name = n.name
    PROVE  m = n
<1>1. PICK l \in Nat : DOMAIN groups = 1..l
  <2>1. groups \in Seq(ToSet(groups))
    BY DEF WalkInv, Walk, WalkTypeOK
  <2>2. QED  BY <2>1
<1>2. PICK i \in 1..l : n = groups[i]
  BY <1>1 DEF ToSet
<1>3. PICK k \in 1..l : m = groups[k]
  BY <1>1 DEF ToSet
<1>4. /\ DOMAIN Found = 1..l /\ Found[i] = PathOf[n.name] /\ Found[k] = PathOf[m.name]
  BY <1>1, <1>2, <1>3 DEF Found
<1>5. \A a \in 1..l : \A b \in 1..a - 1 : Found[b] # Found[a]
  BY <1>4 DEF WalkInv, Complete, WalkFindsAll
<1>6. i = k
  <2>1. Found[i] = Found[k]
    BY <1>4
  <2>2. ~ (k \in 1..i - 1) /\ ~ (i \in 1..k - 1)
    BY <1>5, <2>1
  <2>3. QED  BY <2>2
<1>7. QED  BY <1>2, <1>3, <1>6

(* A snapshot of an untouched tree can be applied in full.                 *)
LEMMA SnapshotApplies ==
    ASSUME WalkInv, tool = "snapshot", base = Root, Complete,
           NEW t \in Trees, Untouched(t), conf = Described
    PROVE  Applicable
<1> SUFFICES ASSUME NEW n \in Declared
             PROVE  /\ n.name \in DOMAIN PathOf /\ PathOf[n.name] \in Tree
                    /\ Resolves(EffectivePerm(conf, n).task)
                    /\ Resolves(EffectivePerm(conf, n).admin)
                    /\ Valid(EffectivePerm(conf, n), ToSet(n.controllers))
                    /\ ToSet(n.controllers) \subseteq Offered(Parent(PathOf[n.name]))
                    /\ StillBusy(n)
                    /\ \A m \in Declared : m.name = n.name => m = n
  BY DEF Applicable, StillBusy
<1>1. Declared = {m \in ToSet(groups) : m.name # "."}
  BY DescribedIsDeclared
<1>2. PICK p \in Tree : t[p] # Absent /\ Depicts(n, p, t[p])
  BY <1>1, GroupDepicts
<1>3. PICK r : r = t[p] /\ Depicts(n, p, r)
  BY <1>2
<1>4. n.name \in DOMAIN PathOf /\ PathOf[n.name] = p /\ ToSet(n.controllers) = r.ctl
      /\ n.perm # NoVal
  BY <1>3 DEF Depicts
<1>5. /\ Resolves(EffectivePerm(conf, n).task) /\ Resolves(EffectivePerm(conf, n).admin)
      /\ Valid(EffectivePerm(conf, n), ToSet(n.controllers))
  <2>1. EffectivePerm(conf, n) = n.perm
    BY <1>4, DescribedIsDeclared
  <2>2. accounts = Accounts
    BY DEF Untouched
  <2>3. QED  BY <1>3, <2>1, <2>2, DepictedOwners
<1>6. PICK q \in Nodes : q = Parent(p)
  BY SnapshotAssumption
<1>7. t[q] # Absent /\ r.ctl \subseteq t[q].ctl
  BY <1>2, <1>3, <1>6, SnapshotAssumption
<1>8. t[q].ctl \subseteq Offered(q)
  <2>1. CASE q = Root
    <3>1. tree[q] = t[q]
      BY <2>1 DEF Untouched, PartOf
    <3>2. QED  BY <1>7, <3>1 DEF Offered, Exists
  <2>2. CASE q # Root
    <3>1. q \in Tree
      BY <2>2, LengthOfPath
    <3>2. PICK m \in ToSet(groups) : Depicts(m, q, t[q])
      BY <1>7, <3>1, EveryGroup
    <3>3. m \in Declared /\ PathOf[m.name] = q /\ ToSet(m.controllers) = t[q].ctl
      BY <1>1, <3>2 DEF Depicts
    <3>4. QED  BY <3>3 DEF Offered
  <2>3. QED  BY <2>1, <2>2
<1>9. \A m \in Declared : m.name = n.name => m = n
  BY <1>1, OneGroupACgroup
<1>10. StillBusy(n)
  <2>1. Was(p) = {r} /\ p \in Nodes
    BY <1>2, <1>3, WasInTree DEF Nodes
  <2>2. QED  BY <1>4, <2>1 DEF StillBusy
<1>11. QED  BY <1>4, <1>5, <1>6, <1>7, <1>8, <1>9, <1>10

(* A step of cgctl config makes nothing that was not there.                *)
LEMMA ApplyKeepsPart ==
    ASSUME TreeKept, NEW t \in Trees, Untouched(t), GoesThrough, GoodPerm(HeadPerm),
           t[HeadPath] # Absent, HeadWants \subseteq t[HeadPath].ctl
    PROVE  PartOf(New, t)
<1>1. PICK p \in Tree : p = HeadPath
  BY DEF GoesThrough, Acceptable
<1>2. PICK made : made = Made
  OBVIOUS
<1>3. /\ made[Parent(p)] \in CgroupRecords
      /\ \A q \in Nodes : Exists(q) => made[q] = tree[q]
      /\ \A q \in Nodes : ~ Exists(q) => /\ ListedIn(made, q) = {}
                                         /\ \/ made[q] = Absent
                                            \/ IsNew(made[q]) /\ Within(p, q)
      /\ made[p] \in CgroupRecords
      /\ HeadWants \subseteq Kernel =>
            /\ New[p].ctl = made[p].ctl \cup HeadWants
            /\ \A q \in Nodes : q # p => New[q] = made[q]
  BY <1>1, <1>2, HeadIsMade
<1>4. HeadWants \subseteq Kernel
  BY <1>1, <1>2, <1>3 DEF GoesThrough, Enables, CgroupRecords
<1>5. PartOf(tree, t)
  BY DEF Untouched
<1>6. ASSUME NEW q \in Nodes, made[q] # Absent
      PROVE  t[q] # Absent /\ made[q].ctl \subseteq t[q].ctl
  <2>1. CASE Exists(q)
    BY <1>3, <1>5, <2>1 DEF PartOf, Exists
  <2>2. CASE ~ Exists(q)
    <3>1. made[q].ctl = {} /\ Within(p, q)
      BY <1>3, <1>6, <2>2 DEF ListedIn
    <3>2. QED  BY <1>1, <3>1, AncestorsStand
  <2>3. QED  BY <2>1, <2>2
<1>7. p \in Nodes /\ Root \in Nodes /\ p # Root /\ made[p] # Absent
  BY <1>3, SnapshotAssumption, CgroupAssumption DEF Nodes
<1>8. New[Root] = t[Root]
  <2>1. Exists(Root)
    BY <1>5, <1>7, WasInTree DEF PartOf, Exists
  <2>2. QED  BY <1>3, <1>4, <1>5, <1>7, <2>1 DEF PartOf
<1>9. ASSUME NEW q \in Nodes, New[q] # Absent
      PROVE  t[q] # Absent /\ New[q].ctl \subseteq t[q].ctl
  <2>1. CASE q = p
    BY <1>1, <1>3, <1>4, <1>6, <1>7, <2>1
  <2>2. CASE q # p
    BY <1>3, <1>4, <1>6, <1>9, <2>2
  <2>3. QED  BY <2>1, <2>2
<1>10. QED  BY <1>8, <1>9 DEF PartOf

LEMMA SameUntouched ==
    ASSUME NEW t \in Trees, Untouched(t), UNCHANGED <<accounts, seen>>,
           \/ UNCHANGED tree
           \/ PartOf(tree', t)
    PROVE  Untouched(t)'
<1>1. PartOf(tree', t)
  BY DEF Untouched
<1>2. PICK s : s = tree'
  OBVIOUS
<1>3. PartOf(s, t) /\ (PartOf(tree, t)' <=> PartOf(s, t))
  BY <1>1, <1>2 DEF PartOf
<1>4. QED  BY <1>3 DEF Untouched

(* A walk over an untouched tree finds every directory it knows of.        *)
LEMMA UntouchedIsThere ==
    ASSUME WalkInv, Restoring, Walking, NEW t \in Trees, Untouched(t)
    PROVE  Exists(here)
<1>1. Walk /\ base = Root
  BY DEF Restoring, Walk
<1>2. here \in Nodes /\ (here = base \/ Was(here) # {}) /\ TreeSeen
  BY <1>1, HereIsKnown, WalkFacts
<1>3. t[here] # Absent
  BY <1>1, <1>2, WasInTree
<1>4. tree[here] = t[here]
  BY <1>2 DEF TreeSeen, Untouched
<1>5. QED  BY <1>3, <1>4 DEF Exists

(* The node in hand of a snapshot goes through.                            *)
LEMMA ApplyRestores ==
    ASSUME WalkInv, TextInv, DeliverInv, job = "cgctl", Restoring, ApplyNode,
           NEW t \in Trees, Untouched(t)
    PROVE  GoesThrough /\ Untouched(t)'
<1>1. /\ step = "apply" /\ queue # <<>> /\ UNCHANGED <<accounts, seen, changes, conf>>
      /\ GoesThrough => tree' = New
  BY ApplyNodeAs DEF New
<1>2. tool = "snapshot" /\ base = Root /\ changes = 0 /\ Complete
  BY <1>1 DEF Restoring, Complete, Walk
<1>3. conf # Unreadable /\ IsFile(conf) /\ conf = Described
  BY <1>1, <1>2 DEF DeliverInv, TextInv
<1>4. Applicable
  BY <1>2, <1>3, SnapshotApplies
<1>5. InTree
  BY <1>4, ApplicableInTree
<1>6. TreeKept /\ BusyKnown(tree) /\ ShallowFirst /\ Delivering
  BY <1>2, <1>3, <1>4, <1>5 DEF DeliverInv
<1>7. GoesThrough
  BY <1>1, <1>3, <1>4, <1>6, HeadGoesThrough
<1>8. Head(queue) \in Declared /\ GoodPerm(HeadPerm)
  BY <1>1, <1>3, <1>5, <1>6, <1>7, HeadFacts DEF GoesThrough
<1>9. PICK n \in ToSet(groups) : n = Head(queue)
  BY <1>3, <1>8, DescribedIsDeclared
<1>10. PICK p \in Tree : t[p] # Absent /\ Depicts(n, p, t[p])
  BY <1>2, GroupDepicts
<1>11. p = HeadPath /\ HeadWants = t[p].ctl
  BY <1>9, <1>10 DEF Depicts, HeadPath, HeadWants
<1>12. PartOf(New, t)
  BY <1>6, <1>7, <1>8, <1>10, <1>11, ApplyKeepsPart
<1>13. Untouched(t)'
  BY <1>1, <1>7, <1>12, SameUntouched
<1>14. QED  BY <1>7, <1>13

LEMMA StartsUntouched ==
    ASSUME SnapInit
    PROVE  \E t \in Trees : Untouched(t)
<1>1. PICK t \in Trees : t = tree
  BY DEF SnapInit
<1>2. accounts = Accounts /\ \A p \in Nodes : seen[p] = {t[p]}
  BY <1>1 DEF SnapInit
<1>3. PartOf(tree, t)
  BY <1>1 DEF PartOf, Nodes
<1>4. QED  BY <1>2, <1>3 DEF Untouched

(* Nothing but what the walk itself could not write makes it fail.         *)
LEMMA ToolStepRestores ==
    ASSUME WalkInv, TextInv, DeliverInv, job = "cgctl", Restoring, ToolStep,
           NEW t \in Trees, Untouched(t),
           step = "failed" => Display(Described) = Unwritten,
           step = "done" => conf # Unreadable
    PROVE  /\ Untouched(t)'
           /\ step' = "failed" => (Display(Described) = Unwritten)'
           /\ step' = "done" => conf' # Unreadable
<1>1. Walking => Exists(here)
  BY UntouchedIsThere
<1>2. ASSUME UNCHANGED <<accounts, seen, tree>>, step' \notin {"failed", "done"}
      PROVE  /\ Untouched(t)'
             /\ step' = "failed" => (Display(Described) = Unwritten)'
             /\ step' = "done" => conf' # Unreadable
  BY <1>2, SameUntouched
<1>3. tool = "snapshot"
  BY DEF Restoring
<1>4. CASE List \/ Meta
  <2>1. Walking
    BY <1>4 DEF List, Meta, Describe, Walking, Describing
  <2>2. UNCHANGED <<accounts, seen, tree>> /\ step' \notin {"failed", "done"}
    BY <1>1, <1>4, <2>1 DEF List, Meta, Describe, worldVars
  <2>3. QED  BY <1>2, <2>2
<1>5. CASE Visit \/ EndWalk \/ Procs \/ Controllers \/ Params \/ ReadParam \/ PermStep
  <2>1. UNCHANGED <<accounts, seen, tree>> /\ step' \notin {"failed", "done"}
    BY <1>3, <1>5 DEF Visit, EndWalk, Procs, Controllers, Params, ReadParam, PermStep, Describe,
                      worldVars
  <2>2. QED  BY <1>2, <2>1
<1>6. CASE Render
  <2>1. UNCHANGED <<accounts, seen, tree, groups>> /\ step' # "done"
        /\ (Display(Described) # Unwritten => step' # "failed")
    BY <1>6 DEF Render, Fail, worldVars
  <2>2. Described' = Described
    BY <2>1 DEF Described
  <2>3. QED  BY <2>1, <2>2, SameUntouched
<1>7. CASE ReadConfig
  <2>1. Parse(text) # Unreadable
    BY <1>3, <1>7, SnapshotIsRead DEF ReadConfig
  <2>2. UNCHANGED <<accounts, seen, tree>> /\ step' \notin {"failed", "done"}
    BY <1>7, <2>1 DEF ReadConfig, worldVars
  <2>3. QED  BY <1>2, <2>2
<1>8. CASE ApplyNode
  <2>1. GoesThrough /\ Untouched(t)'
    BY <1>8, ApplyRestores
  <2>2. step' = "apply"
    BY <1>8, <2>1, ApplyNodeAs
  <2>3. QED  BY <2>1, <2>2
<1>9. CASE EndConfig
  <2>1. step = "apply" /\ step' = "done" /\ UNCHANGED <<accounts, seen, tree, conf>>
    BY <1>9 DEF EndConfig, worldVars
  <2>2. conf # Unreadable
    BY <2>1 DEF DeliverInv
  <2>3. QED  BY <2>1, <2>2, SameUntouched
<1>10. QED  BY <1>4, <1>5, <1>6, <1>7, <1>8, <1>9 DEF ToolStep

LEMMA StepKeepsRestoreInv ==
    ASSUME WalkInv, TextInv, DeliverInv, RestoreInv, [Next]_vars
    PROVE  RestoreInv'
<1>1. UNCHANGED <<job, tool, base>>
  <2>1. ApplyNode => UNCHANGED <<tool, base>>
    BY ApplyNodeLeaves DEF Fail
  <2>2. SnapNext => UNCHANGED <<tool, base>>
    BY <2>1 DEF toolVars, SnapNext, ToolStep, OtherStep, List, Visit, EndWalk, Meta, Procs,
                Controllers, Params, ReadParam, PermStep, Render, Describe, Fail, ReadConfig,
                EndConfig, OtherChange, OtherRmdir, Change, Userdel, Reboot
  <2>3. QED  BY <2>2 DEF Next, vars, snapVars, toolVars
<1>2. SUFFICES ASSUME Restoring'
               PROVE  /\ \E t \in Trees : Untouched(t)'
                      /\ step' = "failed" => (Display(Described) = Unwritten)'
                      /\ step' = "done" => conf' # Unreadable
  BY <1>1 DEF RestoreInv
<1>3. job = "cgctl"
  BY <1>1, <1>2 DEF RestoreInv, Restoring
<1>4. ASSUME Restoring, UNCHANGED <<step, accounts, seen, groups, conf>>,
             NEW t \in Trees, Untouched(t), PartOf(tree', t)
      PROVE  /\ \E u \in Trees : Untouched(u)'
             /\ step' = "failed" => (Display(Described) = Unwritten)'
             /\ step' = "done" => conf' # Unreadable
  <2>1. Untouched(t)'
    BY <1>4, SameUntouched
  <2>2. Described' = Described
    BY <1>4 DEF Described
  <2>3. QED  BY <1>4, <2>1, <2>2 DEF RestoreInv
<1>5. CASE UNCHANGED snapVars
  <2>1. Restoring
    BY <1>2, <1>5 DEF Restoring, snapVars, toolVars, worldVars
  <2>2. PICK t \in Trees : Untouched(t)
    BY <2>1 DEF RestoreInv
  <2>3. PartOf(tree', t)
    BY <1>5, <2>2 DEF Untouched, snapVars, worldVars
  <2>4. QED  BY <1>4, <1>5, <2>1, <2>2, <2>3 DEF snapVars, toolVars, worldVars
<1>6. CASE ToolStep
  <2>1. changes' = changes
    BY <1>6, ApplyNodeLeaves
       DEF ToolStep, List, Visit, EndWalk, Meta, Procs, Controllers, Params, ReadParam, PermStep,
           Render, Describe, ReadConfig, EndConfig, worldVars
  <2>2. Restoring
    BY <1>1, <1>2, <2>1 DEF Restoring
  <2>3. PICK t \in Trees : Untouched(t)
    BY <2>2 DEF RestoreInv
  <2>4. /\ step = "failed" => Display(Described) = Unwritten
        /\ step = "done" => conf # Unreadable
    BY <2>2 DEF RestoreInv
  <2>5. QED  BY <1>3, <1>6, <2>2, <2>3, <2>4, ToolStepRestores
<1>7. CASE \/ \E p \in Tree, cgroup \in Others : OtherChange(p, cgroup)
           \/ \E p \in Tree : OtherRmdir(p)
           \/ \E u \in accounts : Userdel(u)
  <2>1. changes' = changes + 1 /\ changes \in Nat
    BY <1>7 DEF OtherChange, OtherRmdir, Change, Userdel, DeliverInv
  <2>2. QED  BY <1>2, <2>1 DEF Restoring
<1>8. CASE Reboot
  <2>1. /\ UNCHANGED <<step, accounts, seen, changes, groups, conf>>
        /\ tree' = [p \in Nodes |-> IF p = Root THEN tree[Root] ELSE Absent]
    BY <1>8 DEF Reboot, toolVars
  <2>2. Restoring
    BY <1>1, <1>2, <2>1 DEF Restoring
  <2>3. PICK t \in Trees : Untouched(t)
    BY <2>2 DEF RestoreInv
  <2>4. PartOf(tree', t)
    <3>1. Root \in Nodes /\ t[Root] # Absent
      BY <2>3, WasInTree DEF Nodes
    <3>2. tree'[Root] = t[Root]
      BY <2>1, <2>3, <3>1 DEF Untouched, PartOf
    <3>3. \A p \in Nodes : p # Root => tree'[p] = Absent
      BY <2>1
    <3>4. QED  BY <3>1, <3>2, <3>3 DEF PartOf
  <2>5. QED  BY <1>4, <2>1, <2>2, <2>3, <2>4
<1>9. QED  BY <1>3, <1>5, <1>6, <1>7, <1>8 DEF Next, vars, SnapNext, OtherStep

(* RestoreStaysTrue: while nobody touches the tree, what stands is part of *)
(* what the walk saw, and a snapshot of the root fails only where the      *)
(* syntax has no words for what it saw.                                    *)
THEOREM RestoreStaysTrue == Spec => []RestoreInv
<1>1. Init => RestoreInv
  <2>1. ASSUME SnapInit, job = "cgctl" PROVE RestoreInv
    <3>1. \E t \in Trees : Untouched(t)
      BY <2>1, StartsUntouched
    <3>2. step # "failed" /\ step # "done"
      BY <2>1 DEF SnapInit
    <3>3. QED  BY <2>1, <3>1, <3>2 DEF RestoreInv
  <2>2. CgctlRests => RestoreInv
    BY DEF CgctlRests, RestoreInv, Restoring
  <2>3. QED  BY <2>1, <2>2 DEF Init
<1>2. WalkInv /\ TextInv /\ DeliverInv /\ RestoreInv /\ [Next]_vars => RestoreInv'
  BY StepKeepsRestoreInv
<1>3. QED  BY <1>1, <1>2, WalkStaysTrue, TextStaysTrue, DeliveryStaysTrue, PTL DEF Spec

(* What was applied for a described cgroup is that cgroup.                 *)
LEMMA OwnedIsDepicted ==
    ASSUME accounts = Accounts, NEW c \in CgroupRecords, NEW n, NEW p, NEW r, Depicts(n, p, r),
           c = Owned(c, n.perm), c.ctl = r.ctl
    PROVE  SameCore(c, r)
<1>1. /\ \A u : OwnerOr(n.perm.admin.uid, u) = r.owner
      /\ \A u : OwnerOr(n.perm.task.uid, u) = r.task
  BY DepictedOwners
<1>2. /\ n.perm.admin.dperm = Low[r.mode] /\ n.perm.admin.fperm = Low[r.fmode]
      /\ Low[r.mode] # NoVal /\ Low[r.fmode] # NoVal
  BY CgroupAssumption DEF Depicts, CgroupRecords
<1>3. PICK perm : perm = n.perm
  OBVIOUS
<1>4. PICK m : m = Low[r.mode]
  OBVIOUS
<1>5. PICK f : f = Low[r.fmode]
  OBVIOUS
<1>6. PICK s \in BOOLEAN : c.busy = s
  BY DEF CgroupRecords
<1>7. OwnedTo(c, perm, r.owner, r.task, m, s, f)
  <2>1. /\ OwnerOr(perm.admin.uid, c.owner) = r.owner
        /\ OwnerOr(perm.task.uid, OwnerOr(perm.admin.uid, c.task)) = r.task
        /\ Or(perm.admin.dperm, c.mode) = m /\ Or(perm.admin.fperm, c.fmode) = f
    BY <1>1, <1>2, <1>3, <1>4, <1>5 DEF Or
  <2>2. QED  BY <1>6, <2>1, Zenon DEF OwnedTo
<1>8. Owned(c, perm) = Cgroup(r.owner, r.task, m, s, f, c.ctl, c.knobs)
  BY ONLY <1>6, <1>7, OwnedAs, c \in CgroupRecords
<1>9. c = Cgroup(r.owner, r.task, m, s, f, c.ctl, c.knobs)
  BY <1>3, <1>8
<1>10. c.owner = r.owner /\ c.task = r.task /\ c.mode = m /\ c.fmode = f
  BY <1>6, <1>9 DEF Cgroup
<1>11. QED  BY <1>4, <1>5, <1>10 DEF SameCore

LEMMA Restored ==
    ASSUME WalkInv, TextInv, DeliverInv, RestoreInv, Restoring, step = "done"
    PROVE  \A p \in Tree : /\ Exists(p) <=> Was(p) # {}
                           /\ \A r \in Was(p) : SameCore(tree[p], r)
<1>1. PICK t \in Trees : Untouched(t)
  BY DEF RestoreInv
<1>2. /\ tool = "snapshot" /\ base = Root /\ changes = 0 /\ Complete /\ job = "cgctl"
      /\ conf # Unreadable
  BY DEF Restoring, Complete, Walk, RestoreInv
<1>3. conf = Described
  BY <1>2 DEF TextInv
<1>4. Applicable
  BY <1>1, <1>2, <1>3, SnapshotApplies
<1>5. TreeKept /\ Delivering /\ InTree
  BY <1>2, <1>4, ApplicableInTree DEF DeliverInv
<1>6. \A n \in Declared : Delivered(n)
  <2>1. ToSet(queue) = {}
    BY <1>5, NoneAtAll DEF Delivering
  <2>2. QED  BY <1>5, <2>1 DEF Delivering
<1>7. SUFFICES ASSUME NEW p \in Tree
               PROVE  /\ Exists(p) <=> Was(p) # {}
                      /\ \A r \in Was(p) : SameCore(tree[p], r)
  OBVIOUS
<1>8. p \in Nodes
  BY DEF Nodes
<1>9. /\ t[p] # Absent => Was(p) = {t[p]}
      /\ Was(p) # {} => t[p] # Absent
  BY <1>1, <1>8, WasInTree
<1>10. Exists(p) => t[p] # Absent /\ tree[p].ctl \subseteq t[p].ctl
  BY <1>1, <1>8 DEF Untouched, PartOf, Exists
<1>11. ASSUME t[p] # Absent
       PROVE  Exists(p) /\ SameCore(tree[p], t[p])
  <2>1. PICK n \in ToSet(groups) : Depicts(n, p, t[p])
    BY <1>1, <1>2, <1>11, EveryGroup
  <2>2. PICK r : r = t[p] /\ Depicts(n, p, r)
    BY <2>1
  <2>3. /\ PathOf[n.name] = p /\ n.name # "." /\ n.perm # NoVal
        /\ ToSet(n.controllers) = r.ctl
    BY <2>2 DEF Depicts
  <2>4. n \in Declared /\ EffectivePerm(conf, n) = n.perm
    BY <1>3, <2>3, DescribedIsDeclared
  <2>5. Exists(p) /\ tree[p] = Owned(tree[p], n.perm) /\ r.ctl \subseteq tree[p].ctl
    BY <1>6, <2>3, <2>4 DEF Delivered
  <2>6. PICK c \in CgroupRecords : c = tree[p]
    BY <1>5, <1>8, <2>5 DEF TreeKept, IsTree, Exists
  <2>7. c.ctl = r.ctl
    <3>1. tree[p].ctl \subseteq r.ctl
      BY <1>10, <2>2, <2>5, Zenon
    <3>2. r.ctl \subseteq tree[p].ctl
      BY <2>5, Zenon
    <3>3. tree[p].ctl = r.ctl
      BY <3>1, <3>2, Zenon
    <3>4. QED  BY <2>6, <3>3, Zenon
  <2>8. accounts = Accounts /\ c = Owned(c, n.perm)
    BY <1>1, <2>5, <2>6 DEF Untouched
  <2>9. SameCore(c, r)
    BY <2>2, <2>7, <2>8, OwnedIsDepicted
  <2>10. QED  BY <2>2, <2>5, <2>6, <2>9
<1>12. QED  BY <1>9, <1>10, <1>11

(* RestoreAlwaysFaithful: a snapshot of the root of a tree nobody touches, *)
(* given to cgctl config after a reboot or right away, brings back every   *)
(* cgroup with its owners, its controllers and the 0o777 bits of its       *)
(* modes, and no other, whichever cgroups have processes.                  *)
THEOREM RestoreAlwaysFaithful == Spec => []RestoreFaithful
<1>1. WalkInv /\ TextInv /\ DeliverInv /\ RestoreInv => RestoreFaithful
  <2>1. SUFFICES ASSUME WalkInv, TextInv, DeliverInv, RestoreInv, Restoring,
                        step \in {"done", "failed"}, Display(Described) # Unwritten
                 PROVE  /\ step = "done"
                        /\ \A p \in Tree :
                              /\ Exists(p) <=> Was(p) # {}
                              /\ \A r \in Was(p) : SameCore(tree[p], r)
    BY Zenon DEF RestoreFaithful, Restoring
  <2>2. step = "done"
    BY <2>1 DEF RestoreInv
  <2>3. QED  BY <2>1, <2>2, Restored
<1>2. QED
  BY <1>1, WalkStaysTrue, TextStaysTrue, DeliveryStaysTrue, RestoreStaysTrue, PTL
=============================================================================
