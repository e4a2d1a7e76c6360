----------------------------- MODULE CgfsProofs -----------------------------
(***************************************************************************)
(* Type correctness of cgfs's callers; the modes of the directories they   *)
(* make: nobody opens an ancestor to writers, and what a umask closed is   *)
(* opened again; and what the calls promise when they meet: the walk of    *)
(* apply fails only where somebody removed a directory under it, a call    *)
(* that reports success delivers, owners stay, and delete_tree leaves      *)
(* nothing behind.  For any tree of paths, any number of callers and any   *)
(* scripts.                                                                *)
(***************************************************************************)
EXTENDS CgfsProperties, FiniteSetTheorems, TLAPS

(* What the proofs need most of the assumptions.                           *)
LEMMA PathFacts ==
    Root \notin Paths /\ Gone \notin Dirs /\ Parent \in [Paths -> Dirs]
BY TreeAssumption

-----------------------------------------------------------------------------
(* System calls keep the tree well typed.                                  *)

LEMMA AsMadeType ==
    ASSUME NEW m \in SUBSET Permissions
    PROVE  AsMade(m \ Umask) \in Attributes /\ AsMade({}) \in Attributes
BY TreeAssumption DEF AsMade, Attributes

LEMMA MkdirType ==
    ASSUME TreeTypeOK, NEW p \in Paths, ~ Exists(p), Exists(Parent[p]),
           NEW m \in SUBSET Permissions, Mkdir(p, m)
    PROVE  TreeTypeOK'
<1>1. attr' \in [Paths -> Attributes]
  BY AsMadeType DEF Mkdir, TreeTypeOK
<1>2. dirs' \in [Dirs -> Nat] /\ born' \in Nat \ {0}
  BY DEF Mkdir, TreeTypeOK, Dirs
<1>3. \A d \in Dirs : Exists(d)' <=> Exists(d) \/ d = p
  BY PathFacts DEF Mkdir, TreeTypeOK, Exists, Dirs
<1>4. \A d \in Dirs : dirs'[d] < born'
  BY PathFacts DEF Mkdir, TreeTypeOK, Dirs
<1>5. Exists(Root)'
  BY PathFacts, <1>3 DEF TreeTypeOK, Dirs
<1>6. \A q \in Paths : Exists(q)' => Exists(Parent[q])'
  BY PathFacts, <1>3 DEF TreeTypeOK, Dirs
<1>7. subtree' \subseteq {d \in Dirs : Exists(d)'}
  BY PathFacts, <1>3 DEF TreeTypeOK, Mkdir
<1>8. cg' = cg
  BY DEF Mkdir
<1>9. cg' \in [Pids -> Dirs \cup {Gone}]
  BY <1>8 DEF TreeTypeOK
<1>10. \A q \in Pids : cg'[q] # Gone => dirs'[cg'[q]] # 0
  <2> SUFFICES ASSUME NEW q \in Pids, cg[q] # Gone PROVE dirs'[cg[q]] # 0
    BY <1>8
  <2> cg[q] \in Dirs /\ dirs[cg[q]] # 0
    BY DEF TreeTypeOK, Exists
  <2> QED  BY <1>3 DEF Exists
<1>11. QED
  BY <1>1, <1>2, <1>4, <1>5, <1>6, <1>7, <1>9, <1>10 DEF TreeTypeOK, Exists

LEMMA RmdirType ==
    ASSUME TreeTypeOK, NEW p \in Paths, Exists(p), Removable(p), Rmdir(p)
    PROVE  TreeTypeOK'
<1>1. attr' \in [Paths -> Attributes]
  BY AsMadeType DEF Rmdir, TreeTypeOK
<1>2. dirs' \in [Dirs -> Nat] /\ born' = born
  BY PathFacts DEF Rmdir, TreeTypeOK
<1>3. \A d \in Dirs : Exists(d)' <=> Exists(d) /\ d # p
  BY PathFacts DEF Rmdir, TreeTypeOK, Exists, Dirs
<1>4. \A d \in Dirs : dirs'[d] < born'
  BY PathFacts DEF Rmdir, TreeTypeOK, Dirs
<1>5. Exists(Root)'
  BY PathFacts, <1>3 DEF TreeTypeOK, Dirs
<1>6. \A q \in Paths : Exists(q)' => Exists(Parent[q])'
  BY PathFacts, <1>3 DEF TreeTypeOK, Dirs, Removable, Children
<1>7. subtree' \subseteq {d \in Dirs : Exists(d)'}
  BY PathFacts, <1>3 DEF TreeTypeOK, Rmdir
<1>8. cg' = cg
  BY DEF Rmdir
<1>9. cg' \in [Pids -> Dirs \cup {Gone}]
  BY <1>8 DEF TreeTypeOK
<1>10. \A q \in Pids : cg'[q] # Gone => dirs'[cg'[q]] # 0
  <2> SUFFICES ASSUME NEW q \in Pids, cg[q] # Gone PROVE dirs'[cg[q]] # 0
    BY <1>8
  <2> cg[q] \in Dirs /\ dirs[cg[q]] # 0 /\ cg[q] # p
    BY DEF TreeTypeOK, Exists, Removable, Members
  <2> QED  BY <1>3 DEF Exists
<1>11. QED
  BY <1>1, <1>2, <1>4, <1>5, <1>6, <1>7, <1>9, <1>10 DEF TreeTypeOK, Exists

(* The calls that change neither the directories nor the members.          *)
LEMMA AttrType ==
    ASSUME TreeTypeOK, attr' \in [Paths -> Attributes],
           UNCHANGED <<dirs, born, subtree, cg>>
    PROVE  TreeTypeOK'
BY DEF TreeTypeOK, Exists

LEMMA ChownType ==
    ASSUME TreeTypeOK, NEW f \in [dir : Paths, inc : Nat], NEW u \in Owners,
           Chown(f, u)
    PROVE  TreeTypeOK'
<1>1. [attr EXCEPT ![f.dir].uid = u] \in [Paths -> Attributes]
  BY DEF TreeTypeOK, Attributes
<1>2. QED  BY <1>1, AttrType DEF Chown, TreeTypeOK

LEMMA ChmodType ==
    ASSUME TreeTypeOK, NEW f \in [dir : Paths, inc : Nat],
           NEW m \in SUBSET Permissions, Chmod(f, m)
    PROVE  TreeTypeOK'
<1>1. [attr EXCEPT ![f.dir].mode = m] \in [Paths -> Attributes]
  BY DEF TreeTypeOK, Attributes
<1>2. QED  BY <1>1, AttrType DEF Chmod, TreeTypeOK

LEMMA ChownControlType ==
    ASSUME TreeTypeOK, NEW p \in Paths, NEW f \in ControlFiles,
           NEW u \in Owners, ChownControl(p, f, u)
    PROVE  TreeTypeOK'
<1>1. [attr EXCEPT ![p].files[f] = u] \in [Paths -> Attributes]
  BY DEF TreeTypeOK, Attributes
<1>2. QED  BY <1>1, AttrType DEF ChownControl

LEMMA MembersType ==
    ASSUME TreeTypeOK,
           \/ \E p \in Paths : Exists(p) /\ Enable(p)
           \/ \E q \in Pids, p \in Paths : Exists(p) /\ Attach(q, p)
           \/ \E q \in Pids : Exit(q)
    PROVE  TreeTypeOK'
<1>1. CASE \E p \in Paths : Exists(p) /\ Enable(p)
  BY PathFacts, <1>1 DEF TreeTypeOK, Exists, Enable, Dirs
<1>2. CASE \E q \in Pids, p \in Paths : Exists(p) /\ Attach(q, p)
  BY PathFacts, <1>2 DEF TreeTypeOK, Exists, Attach, Dirs
<1>3. CASE \E q \in Pids : Exit(q)
  BY PathFacts, <1>3 DEF TreeTypeOK, Exists, Exit
<1>4. QED  BY <1>1, <1>2, <1>3

-----------------------------------------------------------------------------
(* What a caller has at hand.                                              *)

LEMMA WalkFacts ==
    ASSUME NEW p \in Paths
    PROVE  /\ Walk[p] \in Seq(Paths)
           /\ Len(Walk[p]) \in Nat /\ DOMAIN Walk[p] = 1..Len(Walk[p])
           /\ 1 \in DOMAIN Walk[p]
           /\ Parent[Walk[p][1]] = Root
           /\ Walk[p][Len(Walk[p])] = p
           /\ \A i \in DOMAIN Walk[p] : Walk[p][i] \in Paths
           /\ \A i \in DOMAIN Walk[p] : i # Len(Walk[p]) =>
                i + 1 \in DOMAIN Walk[p] /\ Parent[Walk[p][i + 1]] = Walk[p][i]
<1>1. Walk[p] \in Seq(Paths) /\ Len(Walk[p]) > 0
  BY TreeAssumption
<1>2. /\ Walk[p][Len(Walk[p])] = p
      /\ Parent[Walk[p][1]] = Root
      /\ \A i \in 1..(Len(Walk[p]) - 1) : Parent[Walk[p][i + 1]] = Walk[p][i]
  BY TreeAssumption
<1>3. QED  BY <1>1, <1>2

LEMMA CallType ==
    ASSUME CallTypeOK, NEW c \in Callers, pc[c] # "done"
    PROVE  /\ Call(c) \in Calls
           /\ ip[c] \in Nat \ {0}
           /\ ip[c] # Len(script[c]) => ip[c] + 1 \in DOMAIN script[c]
           /\ Call(c).kind \in {"attach", "exec"} => Call(c).pid # NoPid
<1>1. script[c] \in Seq(Calls) /\ ip[c] \in DOMAIN script[c]
      /\ script[c] \in Scripts[c]
  BY DEF CallTypeOK
<1>2. Call(c).kind \in {"attach", "exec"} => Call(c).pid # NoPid
  BY <1>1, CgfsAssumption DEF Call
<1>3. QED  BY <1>1, <1>2 DEF Call

LEMMA NoteType ==
    ASSUME CallTypeOK, NEW c, NEW p,
           NEW k \in {"made", "changed", "removed"}, Note(c, k, p)
    PROVE  hit' \in [Callers -> SUBSET {"made", "changed", "removed"}]
BY DEF Note, CallTypeOK

(* Nothing changes for the callers other than c.                           *)
OnlyFor(c) ==
    /\ script' = script
    /\ \A b \in Callers \ {c} :
        /\ ip'[b] = ip[b] /\ pc'[b] = pc[b]
        /\ fd'[b] = fd[b] /\ level'[b] = level[b] /\ fresh'[b] = fresh[b]
        /\ pending'[b] = pending[b] /\ order'[b] = order[b]

LEMMA OthersKeep ==
    ASSUME NEW c \in Callers, OnlyFor(c), NEW b \in Callers \ {c}, AtHand(b)
    PROVE  AtHand(b)'
BY DEF OnlyFor, AtHand, Walking, Call, Child, AtLeaf

(* The counters that move together: where a caller is, and in which call.  *)
Position ==
    /\ ip \in [Callers -> Nat \ {0}]
    /\ pc \in [Callers -> Locations]
    /\ \A c \in Callers : pc[c] # "done" => ip[c] \in DOMAIN script[c]

LEMMA GotoType ==
    ASSUME CallTypeOK, NEW c \in Callers, pc[c] # "done",
           NEW l \in Locations \ {"done"}, Goto(c, l), UNCHANGED <<script, ip>>
    PROVE  Position' /\ pc'[c] = l /\ \A b \in Callers \ {c} : pc'[b] = pc[b]
BY DEF CallTypeOK, Position, Goto

LEMMA ProceedType ==
    ASSUME CallTypeOK, NEW c \in Callers, pc[c] # "done",
           NEW l \in {"enable", "attach", "unlink", "return"}, Proceed(c, l),
           script' = script
    PROVE  /\ Position'
           /\ l = "return" => pc'[c] \in {"start", "done"}
           /\ l # "return" => pc'[c] = l /\ ip' = ip
           /\ \A b \in Callers \ {c} : pc'[b] = pc[b] /\ ip'[b] = ip[b]
<1>1. CASE l = "return"
  <2>1. ip' = [ip EXCEPT ![c] = ip[c] + 1]
        /\ pc' = [pc EXCEPT ![c] =
                    IF ip[c] = Len(script[c]) THEN "done" ELSE "start"]
    BY <1>1 DEF Proceed, Goto
  <2>2. ip[c] # Len(script[c]) => ip[c] + 1 \in DOMAIN script[c]
    BY CallType
  <2>3. QED  BY <1>1, <2>1, <2>2 DEF CallTypeOK, Position, Locations
<1>2. CASE l # "return"
  <2>1. Goto(c, l) /\ ip' = ip
    BY <1>2 DEF Proceed
  <2>2. l \in Locations \ {"done"}
    BY <1>2 DEF Locations
  <2>3. QED  BY <1>2, <2>1, <2>2, GotoType
<1>3. QED  BY <1>1, <1>2

LEMMA FailType ==
    ASSUME TypeInv, NEW c \in Callers, pc[c] # "done", Fail(c)
    PROVE  TypeInv'
<1>1. TreeTypeOK'
  BY DEF TypeInv, TypeOK, TreeTypeOK, Exists, Fail, treeVars
<1>2. Position' /\ pc'[c] = "failed"
      /\ \A b \in Callers \ {c} : pc'[b] = pc[b]
  BY GotoType DEF TypeInv, TypeOK, Fail, Locations
<1>3. CallTypeOK'
  BY <1>2 DEF TypeInv, TypeOK, CallTypeOK, Position, Fail
<1>4. OnlyFor(c)
  BY <1>2 DEF OnlyFor, Fail
<1>5. AtHand(c)'
  BY <1>2 DEF AtHand
<1>6. QED  BY <1>1, <1>3, <1>4, <1>5, OthersKeep DEF TypeInv, TypeOK

-----------------------------------------------------------------------------
(* One step per action.                                                    *)

LEMMA DescendType ==
    ASSUME TypeInv, NEW c \in Callers, pc[c] # "done",
           Call(c).kind = "apply", level[c] \in DOMAIN Walk[Call(c).path],
           fd' \in [Callers -> [dir : Dirs, inc : Nat \ {0}]],
           fd'[c].dir = Child(c),
           Descend(c), UNCHANGED <<script, ip>>
    PROVE  /\ Position' /\ AtHand(c)'
           /\ level' \in [Callers -> Nat \ {0}]
           /\ \A b \in Callers \ {c} : pc'[b] = pc[b] /\ level'[b] = level[b]
<1>1. Call(c) \in Calls /\ Call(c).path \in Paths /\ CallTypeOK
  BY CallType DEF TypeInv, TypeOK, Calls
<1>2. Call(c)' = Call(c)
  BY DEF Call
<1>3. CASE AtLeaf(c)
  <2>1. Position' /\ pc'[c] = "own" /\ \A b \in Callers \ {c} : pc'[b] = pc[b]
    BY <1>1, <1>3, GotoType DEF Descend, Locations
  <2>2. Child(c) = Call(c).path
    BY <1>1, <1>3, WalkFacts DEF Child, AtLeaf
  <2>3. QED  BY <1>1, <1>2, <1>3, <2>1, <2>2 DEF Descend, AtHand, CallTypeOK
<1>4. CASE ~ AtLeaf(c)
  <2>1. Position' /\ pc'[c] = "open" /\ \A b \in Callers \ {c} : pc'[b] = pc[b]
    BY <1>1, <1>4, GotoType DEF Descend, Locations
  <2>2. level'[c] = level[c] + 1 /\ level' \in [Callers -> Nat \ {0}]
        /\ \A b \in Callers \ {c} : level'[b] = level[b]
    <3>1. level' = [level EXCEPT ![c] = level[c] + 1]
      BY <1>4 DEF Descend
    <3>2. level \in [Callers -> Nat \ {0}]
      BY <1>1 DEF CallTypeOK
    <3>3. QED  BY <3>1, <3>2
  <2>3. /\ level'[c] \in DOMAIN Walk[Call(c).path]
        /\ Parent[Walk[Call(c).path][level'[c]]] = Child(c)
    BY <1>1, <1>4, <2>2, WalkFacts DEF Child, AtLeaf
  <2>4. Walking(c)'
    BY <1>2, <2>1, <2>3 DEF Walking, Child
  <2>5. QED  BY <1>2, <2>1, <2>2, <2>4 DEF AtHand
<1>5. QED  BY <1>3, <1>4

LEMMA BeginType ==
    ASSUME TypeInv, NEW c \in Callers, Begin(c)
    PROVE  TypeInv'
<1> DEFINE call == Call(c)
<1>1. CallTypeOK /\ TreeTypeOK /\ pc[c] = "start"
  BY DEF TypeInv, TypeOK, Begin, At
<1>2. call \in Calls /\ call.path \in Paths
  BY <1>1, CallType DEF Calls
<1>3. TreeTypeOK'
  BY <1>1 DEF TreeTypeOK, Exists, Begin, treeVars
<1>4. Call(c)' = call /\ script' = script /\ ip' = ip /\ fresh' = fresh
  BY DEF Begin, Call
<1>5. hit' \in [Callers -> SUBSET {"made", "changed", "removed"}]
  BY <1>1 DEF Begin, CallTypeOK
<1>6. CASE call.kind = "apply" /\ Goto(c, "open")
           /\ fd' = [fd EXCEPT ![c] = RootFd]
           /\ level' = [level EXCEPT ![c] = 1] /\ UNCHANGED <<pending, order>>
  <2>1. Position' /\ pc'[c] = "open" /\ \A b \in Callers \ {c} : pc'[b] = pc[b]
    BY <1>1, <1>4, <1>6, GotoType DEF Locations
  <2>2. /\ fd' \in [Callers -> [dir : Dirs, inc : Nat \ {0}]]
        /\ level' \in [Callers -> Nat \ {0}]
        /\ fd'[c].dir = Root /\ level'[c] = 1
    BY <1>1, <1>6 DEF CallTypeOK, RootFd, Dirs
  <2>3. CallTypeOK'
    BY <1>1, <1>4, <1>5, <1>6, <2>1, <2>2 DEF CallTypeOK, Position, Begin
  <2>4. OnlyFor(c)
    BY <1>4, <1>6, <2>1 DEF OnlyFor
  <2>5. Walking(c)'
    BY <1>2, <1>4, <2>1, <2>2, WalkFacts DEF Walking, Child
  <2>6. AtHand(c)'
    BY <1>4, <1>6, <2>1, <2>5 DEF AtHand
  <2>7. QED  BY <1>3, <2>3, <2>4, <2>6, OthersKeep DEF TypeInv, TypeOK
<1>7. CASE call.kind = "attach" /\ Goto(c, "attach")
           /\ UNCHANGED <<fd, level, pending, order>>
  <2>1. Position' /\ pc'[c] = "attach"
        /\ \A b \in Callers \ {c} : pc'[b] = pc[b]
    BY <1>1, <1>4, <1>7, GotoType DEF Locations
  <2>2. CallTypeOK'
    BY <1>1, <1>4, <1>5, <1>7, <2>1 DEF CallTypeOK, Position, Begin
  <2>3. OnlyFor(c)
    BY <1>4, <1>7, <2>1 DEF OnlyFor
  <2>4. AtHand(c)'
    BY <1>1, <1>4, <1>7, <2>1, CallType DEF AtHand
  <2>5. QED  BY <1>3, <2>2, <2>3, <2>4, OthersKeep DEF TypeInv, TypeOK
<1>7a. CASE call.kind = "exec" /\ Goto(c, "procs")
            /\ UNCHANGED <<fd, level, pending, order>>
  <2>1. Position' /\ pc'[c] = "procs"
        /\ \A b \in Callers \ {c} : pc'[b] = pc[b]
    BY <1>1, <1>4, <1>7a, GotoType DEF Locations
  <2>2. CallTypeOK'
    BY <1>1, <1>4, <1>5, <1>7a, <2>1 DEF CallTypeOK, Position, Begin
  <2>3. OnlyFor(c)
    BY <1>4, <1>7a, <2>1 DEF OnlyFor
  <2>4. AtHand(c)'
    BY <1>1, <1>4, <1>7a, <2>1, CallType DEF AtHand
  <2>5. QED  BY <1>3, <2>2, <2>3, <2>4, OthersKeep DEF TypeInv, TypeOK
<1>8. CASE call.kind = "delete_leaf" /\ Goto(c, "unlink")
           /\ order' = [order EXCEPT ![c] = <<call.path>>]
           /\ UNCHANGED <<fd, level, pending>>
  <2>1. Position' /\ pc'[c] = "unlink"
        /\ \A b \in Callers \ {c} : pc'[b] = pc[b]
    BY <1>1, <1>4, <1>8, GotoType DEF Locations
  <2>2. order' \in [Callers -> Seq(Paths)] /\ order'[c] # <<>>
    BY <1>1, <1>2, <1>8 DEF CallTypeOK
  <2>3. CallTypeOK'
    BY <1>1, <1>4, <1>5, <1>8, <2>1, <2>2 DEF CallTypeOK, Position, Begin
  <2>4. OnlyFor(c)
    BY <1>4, <1>8, <2>1 DEF OnlyFor
  <2>5. AtHand(c)'
    BY <1>4, <1>8, <2>1, <2>2 DEF AtHand
  <2>6. QED  BY <1>3, <2>3, <2>4, <2>5, OthersKeep DEF TypeInv, TypeOK
<1>9. CASE call.kind = "delete_tree" /\ Goto(c, "list")
           /\ pending' = [pending EXCEPT ![c] = <<call.path>>]
           /\ order' = [order EXCEPT ![c] = <<>>] /\ UNCHANGED <<fd, level>>
  <2>1. Position' /\ pc'[c] = "list" /\ \A b \in Callers \ {c} : pc'[b] = pc[b]
    BY <1>1, <1>4, <1>9, GotoType DEF Locations
  <2>2. /\ pending' \in [Callers -> Seq(Paths)] /\ pending'[c] # <<>>
        /\ order' \in [Callers -> Seq(Paths)]
    BY <1>1, <1>2, <1>9 DEF CallTypeOK
  <2>3. CallTypeOK'
    BY <1>1, <1>4, <1>5, <1>9, <2>1, <2>2 DEF CallTypeOK, Position, Begin
  <2>4. OnlyFor(c)
    BY <1>4, <1>9, <2>1 DEF OnlyFor
  <2>5. AtHand(c)'
    BY <1>4, <1>9, <2>1, <2>2 DEF AtHand
  <2>6. QED  BY <1>3, <2>3, <2>4, <2>5, OthersKeep DEF TypeInv, TypeOK
<1>10. QED  BY <1>6, <1>7, <1>7a, <1>8, <1>9 DEF Begin

(* What every step of the walk starts from.                                *)
LEMMA WalkerType ==
    ASSUME TypeInv, NEW c \in Callers, pc[c] \in {"open", "make", "reopen", "chmod"}
    PROVE  /\ CallTypeOK /\ TreeTypeOK /\ pc[c] # "done"
           /\ Call(c) \in Calls /\ Call(c).kind = "apply"
           /\ Call(c).path \in Paths
           /\ level[c] \in DOMAIN Walk[Call(c).path]
           /\ Child(c) \in Paths
           /\ Walking(c)
<1>1. CallTypeOK /\ TreeTypeOK /\ pc[c] # "done" /\ Walking(c)
      /\ Call(c).kind = "apply"
  BY DEF TypeInv, TypeOK, AtHand
<1>2. Call(c) \in Calls /\ Call(c).path \in Paths
  BY <1>1, CallType DEF Calls
<1>3. QED  BY <1>1, <1>2, WalkFacts DEF Walking, Child

LEMMA OpenedType ==
    ASSUME TreeTypeOK, NEW c, Child(c) \in Paths, Exists(Child(c))
    PROVE  OpenedChild(c) \in [dir : Dirs, inc : Nat \ {0}]
           /\ OpenedChild(c).dir = Child(c)
BY DEF TreeTypeOK, OpenedChild, Exists, Dirs

LEMMA OpenType ==
    ASSUME TypeInv, NEW c \in Callers, OpenChild(c)
    PROVE  TypeInv'
<1>1. pc[c] = "open" /\ CallTypeOK /\ TreeTypeOK /\ Child(c) \in Paths
      /\ level[c] \in DOMAIN Walk[Call(c).path] /\ Call(c).kind = "apply"
  BY WalkerType DEF OpenChild, At
<1>2. TreeTypeOK'
  BY <1>1 DEF TreeTypeOK, Exists, OpenChild, treeVars
<1>3. CASE Live(fd[c]) /\ Exists(Child(c))
  <2>1. fd' = [fd EXCEPT ![c] = OpenedChild(c)] /\ Descend(c)
    BY <1>3 DEF OpenChild
  <2>2. fd' \in [Callers -> [dir : Dirs, inc : Nat \ {0}]]
        /\ fd'[c].dir = Child(c)
    BY <1>1, <1>3, <2>1, OpenedType DEF CallTypeOK
  <2>3. script' = script /\ ip' = ip
    BY DEF OpenChild
  <2>4. /\ Position' /\ AtHand(c)'
        /\ level' \in [Callers -> Nat \ {0}]
        /\ \A b \in Callers \ {c} : pc'[b] = pc[b] /\ level'[b] = level[b]
    BY <1>1, <2>1, <2>2, <2>3, DescendType
  <2>5. CallTypeOK'
    BY <1>1, <2>2, <2>4 DEF CallTypeOK, Position, OpenChild
  <2>6. OnlyFor(c)
    BY <2>1, <2>4 DEF OnlyFor, OpenChild
  <2>7. QED  BY <1>2, <2>4, <2>5, <2>6, OthersKeep DEF TypeInv, TypeOK
<1>4. CASE ~ (Live(fd[c]) /\ Exists(Child(c)))
  <2>1. Goto(c, "make") /\ fd' = fd /\ level' = level
        /\ script' = script /\ ip' = ip
    BY <1>4 DEF OpenChild
  <2>2. Position' /\ pc'[c] = "make" /\ \A b \in Callers \ {c} : pc'[b] = pc[b]
    BY <1>1, <2>1, GotoType DEF Locations
  <2>3. CallTypeOK'
    BY <1>1, <2>1, <2>2 DEF CallTypeOK, Position, OpenChild
  <2>4. OnlyFor(c)
    BY <2>1, <2>2 DEF OnlyFor, OpenChild
  <2>5. AtHand(c)'
    BY <1>1, <2>1, <2>2 DEF AtHand, TypeInv, Walking, Call, Child
  <2>6. QED  BY <1>2, <2>3, <2>4, <2>5, OthersKeep DEF TypeInv, TypeOK
<1>5. QED  BY <1>3, <1>4

LEMMA MakeModeType ==
    ASSUME NEW c, Call(c) \in Calls
    PROVE  MakeMode(c) \in SUBSET Permissions
BY DEF MakeMode, AncestorMode, Calls, Permissions

LEMMA MakeType ==
    ASSUME TypeInv, NEW c \in Callers, MakeChild(c)
    PROVE  TypeInv'
<1>1. pc[c] = "make" /\ CallTypeOK /\ TreeTypeOK /\ Child(c) \in Paths
      /\ Call(c) \in Calls /\ Call(c).kind = "apply" /\ Walking(c)
  BY WalkerType DEF MakeChild, At
<1>2. CASE ~ Live(fd[c])
  BY <1>1, <1>2, FailType DEF MakeChild
<1>3. CASE Live(fd[c])
  <2>1. /\ Goto(c, "reopen")
        /\ UNCHANGED <<script, ip, fd, level, file, pending, order, dead>>
        /\ fresh' = [fresh EXCEPT ![c] = ~ Exists(Child(c))]
    BY <1>3 DEF MakeChild
  <2>2. TreeTypeOK'
        /\ hit' \in [Callers -> SUBSET {"made", "changed", "removed"}]
    <3>1. CASE Exists(Child(c))
      BY <1>1, <1>3, <3>1 DEF MakeChild, treeVars, TreeTypeOK, Exists, CallTypeOK
    <3>2. CASE ~ Exists(Child(c))
      <4>1. Mkdir(Child(c), MakeMode(c)) /\ Note(c, "made", Child(c))
        BY <1>3, <3>2 DEF MakeChild
      <4>2. Exists(Parent[Child(c)])
        BY <1>1, <1>3 DEF Walking, Live, Exists, CallTypeOK
      <4>3. QED  BY <1>1, <3>2, <4>1, <4>2, MakeModeType, MkdirType, NoteType
    <3>3. QED  BY <3>1, <3>2
  <2>3. Position' /\ pc'[c] = "reopen"
        /\ \A b \in Callers \ {c} : pc'[b] = pc[b]
    BY <1>1, <2>1, GotoType DEF Locations
  <2>4. fresh' \in [Callers -> BOOLEAN]
        /\ \A b \in Callers \ {c} : fresh'[b] = fresh[b]
    BY <1>1, <2>1 DEF CallTypeOK, Exists
  <2>5. CallTypeOK'
    BY <1>1, <2>1, <2>2, <2>3, <2>4 DEF CallTypeOK, Position
  <2>6. OnlyFor(c)
    BY <2>1, <2>3, <2>4 DEF OnlyFor
  <2>7. AtHand(c)'
    BY <1>1, <2>1, <2>3 DEF AtHand, Walking, Call, Child
  <2>8. QED  BY <2>2, <2>5, <2>6, <2>7, OthersKeep DEF TypeInv, TypeOK
<1>4. QED  BY <1>2, <1>3

LEMMA ReopenType ==
    ASSUME TypeInv, NEW c \in Callers, ReopenChild(c)
    PROVE  TypeInv'
<1>1. pc[c] = "reopen" /\ CallTypeOK /\ TreeTypeOK /\ Child(c) \in Paths
      /\ level[c] \in DOMAIN Walk[Call(c).path] /\ Call(c).kind = "apply"
  BY WalkerType DEF ReopenChild, At
<1>2. CASE ~ (Live(fd[c]) /\ Exists(Child(c)))
  BY <1>1, <1>2, FailType DEF ReopenChild
<1>3. CASE Live(fd[c]) /\ Exists(Child(c))
  <2>1. /\ UNCHANGED <<treeVars, script, ip, fresh, file, pending, order,
                       dead, hit>>
        /\ fd' = [fd EXCEPT ![c] = OpenedChild(c)]
    BY <1>3 DEF ReopenChild
  <2>2. fd' \in [Callers -> [dir : Dirs, inc : Nat \ {0}]]
        /\ fd'[c].dir = Child(c) /\ \A b \in Callers \ {c} : fd'[b] = fd[b]
    BY <1>1, <1>3, <2>1, OpenedType DEF CallTypeOK
  <2>3. TreeTypeOK'
    BY <1>1, <2>1 DEF TreeTypeOK, Exists, treeVars
  <2>4. /\ Position' /\ AtHand(c)'
        /\ level' \in [Callers -> Nat \ {0}]
        /\ \A b \in Callers \ {c} : pc'[b] = pc[b] /\ level'[b] = level[b]
    <3>1. CASE fresh[c] /\ ~ AtLeaf(c) /\ Call(c).dperm # NoMode
      <4>1. Goto(c, "chmod") /\ level' = level
        BY <1>3, <3>1 DEF ReopenChild
      <4>2. Position' /\ pc'[c] = "chmod"
            /\ \A b \in Callers \ {c} : pc'[b] = pc[b]
        BY <1>1, <2>1, <4>1, GotoType DEF Locations
      <4>3. AtHand(c)'
        BY <1>1, <2>1, <2>2, <3>1, <4>1, <4>2
        DEF AtHand, Walking, Call, Child, AtLeaf
      <4>4. QED  BY <1>1, <4>1, <4>2, <4>3 DEF CallTypeOK
    <3>2. CASE ~ (fresh[c] /\ ~ AtLeaf(c) /\ Call(c).dperm # NoMode)
      <4>1. Descend(c)
        BY <1>3, <3>2 DEF ReopenChild
      <4>2. QED  BY <1>1, <2>1, <2>2, <4>1, DescendType
    <3>3. QED  BY <3>1, <3>2
  <2>5. CallTypeOK'
    BY <1>1, <2>1, <2>2, <2>4 DEF CallTypeOK, Position
  <2>6. OnlyFor(c)
    BY <2>1, <2>2, <2>4 DEF OnlyFor
  <2>7. QED  BY <2>3, <2>4, <2>5, <2>6, OthersKeep DEF TypeInv, TypeOK
<1>4. QED  BY <1>2, <1>3

LEMMA NoteChangeType ==
    ASSUME CallTypeOK, NEW c, NEW f, NoteChange(c, f)
    PROVE  hit' \in [Callers -> SUBSET {"made", "changed", "removed"}]
<1>1. CASE Live(f)
  BY <1>1, NoteType DEF NoteChange
<1>2. CASE ~ Live(f)
  BY <1>2 DEF NoteChange, CallTypeOK
<1>3. QED  BY <1>1, <1>2

LEMMA AncestorModeType ==
    ASSUME NEW m \in SUBSET Permissions
    PROVE  AncestorMode(m) \in SUBSET Permissions
BY DEF AncestorMode, Permissions

LEMMA ChmodChildType ==
    ASSUME TypeInv, NEW c \in Callers, ChmodChild(c)
    PROVE  TypeInv'
<1>1. pc[c] = "chmod" /\ CallTypeOK /\ TreeTypeOK /\ Child(c) \in Paths
      /\ level[c] \in DOMAIN Walk[Call(c).path] /\ Call(c).kind = "apply"
      /\ Walking(c) /\ Call(c) \in Calls
  BY WalkerType DEF ChmodChild, At
<1>2. /\ fd[c] \in [dir : Paths, inc : Nat] /\ fd[c].dir = Child(c)
      /\ fd \in [Callers -> [dir : Dirs, inc : Nat \ {0}]]
      /\ Call(c).dperm \in SUBSET Permissions
  BY <1>1 DEF Walking, CallTypeOK, Calls
<1>3. /\ Chmod(fd[c], AncestorMode(Call(c).dperm)) /\ NoteChange(c, fd[c])
      /\ Descend(c)
      /\ UNCHANGED <<script, ip, fd, fresh, file, pending, order, dead>>
  BY DEF ChmodChild
<1>4. TreeTypeOK'
  BY <1>1, <1>2, <1>3, ChmodType, AncestorModeType
<1>5. hit' \in [Callers -> SUBSET {"made", "changed", "removed"}]
  BY <1>1, <1>3, NoteChangeType
<1>6. /\ Position' /\ AtHand(c)'
      /\ level' \in [Callers -> Nat \ {0}]
      /\ \A b \in Callers \ {c} : pc'[b] = pc[b] /\ level'[b] = level[b]
  BY <1>1, <1>2, <1>3, DescendType
<1>7. CallTypeOK'
  BY <1>1, <1>3, <1>5, <1>6 DEF CallTypeOK, Position
<1>8. OnlyFor(c)
  BY <1>3, <1>6 DEF OnlyFor
<1>9. QED  BY <1>4, <1>6, <1>7, <1>8, OthersKeep DEF TypeInv, TypeOK

(* What every later step of a call starts from.                            *)
LEMMA CallerType ==
    ASSUME TypeInv, NEW c \in Callers, pc[c] # "done"
    PROVE  /\ CallTypeOK /\ TreeTypeOK /\ AtHand(c)
           /\ Call(c) \in Calls /\ Call(c).path \in Paths
           /\ Call(c).uid \in Owners \cup {Keep}
           /\ Call(c).task_uid \in Owners \cup {Keep}
           /\ Call(c).dperm \in (SUBSET Permissions) \cup {NoMode}
           /\ Call(c).pid \in Pids \cup {NoPid}
BY CallType DEF TypeInv, TypeOK, Calls

LEMMA ChownLeafType ==
    ASSUME TypeInv, NEW c \in Callers, ChownLeaf(c)
    PROVE  TypeInv'
<1>1. pc[c] = "own" /\ CallTypeOK /\ TreeTypeOK /\ AtHand(c)
      /\ Call(c).path \in Paths /\ Call(c).uid \in Owners \cup {Keep}
  BY CallerType DEF ChownLeaf, At
<1>2. fd[c] \in [dir : Paths, inc : Nat] /\ Call(c).kind = "apply"
      /\ fd[c].dir = Call(c).path
  BY <1>1 DEF AtHand, CallTypeOK
<1>3. /\ Goto(c, IF Call(c).dperm = NoMode THEN "control" ELSE "mode")
      /\ UNCHANGED <<script, ip, fd, level, fresh, file, pending, order, dead>>
  BY DEF ChownLeaf
<1>4. TreeTypeOK' /\ hit' \in [Callers -> SUBSET {"made", "changed", "removed"}]
  <2>1. CASE Call(c).uid = Keep
    BY <1>1, <2>1 DEF ChownLeaf, treeVars, TreeTypeOK, Exists, CallTypeOK
  <2>2. CASE Call(c).uid # Keep
    BY <1>1, <1>2, <2>2, ChownType, NoteChangeType DEF ChownLeaf
  <2>3. QED  BY <2>1, <2>2
<1>5. Position' /\ pc'[c] \in {"control", "mode"}
      /\ (pc'[c] = "mode" => Call(c).dperm # NoMode)
      /\ \A b \in Callers \ {c} : pc'[b] = pc[b]
  BY <1>1, <1>3, GotoType DEF Locations
<1>6. CallTypeOK'
  BY <1>1, <1>3, <1>4, <1>5 DEF CallTypeOK, Position
<1>7. OnlyFor(c)
  BY <1>3, <1>5 DEF OnlyFor
<1>8. AtHand(c)'
  BY <1>2, <1>3, <1>5 DEF AtHand, Call
<1>9. QED  BY <1>4, <1>6, <1>7, <1>8, OthersKeep DEF TypeInv, TypeOK

LEMMA ChmodLeafType ==
    ASSUME TypeInv, NEW c \in Callers, ChmodLeaf(c)
    PROVE  TypeInv'
<1>1. pc[c] = "mode" /\ CallTypeOK /\ TreeTypeOK /\ AtHand(c)
      /\ Call(c).path \in Paths
      /\ Call(c).dperm \in (SUBSET Permissions) \cup {NoMode}
  BY CallerType DEF ChmodLeaf, At
<1>2. fd[c] \in [dir : Paths, inc : Nat] /\ Call(c).kind = "apply"
      /\ Call(c).dperm \in SUBSET Permissions
  BY <1>1 DEF AtHand, CallTypeOK
<1>3. /\ Goto(c, "control") /\ Chmod(fd[c], Call(c).dperm)
      /\ NoteChange(c, fd[c])
      /\ UNCHANGED <<script, ip, fd, level, fresh, file, pending, order, dead>>
  BY DEF ChmodLeaf
<1>4. TreeTypeOK' /\ hit' \in [Callers -> SUBSET {"made", "changed", "removed"}]
  BY <1>1, <1>2, <1>3, ChmodType, NoteChangeType
<1>5. Position' /\ pc'[c] = "control"
      /\ \A b \in Callers \ {c} : pc'[b] = pc[b]
  BY <1>1, <1>3, GotoType DEF Locations
<1>6. CallTypeOK'
  BY <1>1, <1>3, <1>4, <1>5 DEF CallTypeOK, Position
<1>7. OnlyFor(c)
  BY <1>3, <1>5 DEF OnlyFor
<1>8. AtHand(c)'
  BY <1>2, <1>3, <1>5 DEF AtHand, Call
<1>9. QED  BY <1>4, <1>6, <1>7, <1>8, OthersKeep DEF TypeInv, TypeOK

(* The end of a system call after which the caller proceeds: only its      *)
(* position, and perhaps its file, pending and order, have changed.        *)
LEMMA ProceedKeeps ==
    ASSUME TypeInv, NEW c \in Callers, pc[c] # "done", TreeTypeOK',
           hit' \in [Callers -> SUBSET {"made", "changed", "removed"}],
           file' \in [Callers -> 1..3],
           order' \in [Callers -> Seq(Paths)],
           \A b \in Callers \ {c} : order'[b] = order[b],
           NEW l \in {"enable", "attach", "unlink", "return"}, Proceed(c, l),
           l = "enable" => Call(c).kind = "apply",
           l = "attach" => Call(c).pid # NoPid /\ Call(c).kind = "apply",
           l = "unlink" => order'[c] # <<>> /\ pc[c] = "unlink",
           UNCHANGED <<script, fd, level, fresh, pending, dead>>
    PROVE  TypeInv'
<1>1. CallTypeOK
  BY DEF TypeInv, TypeOK
<1>2. /\ Position'
      /\ l = "return" => pc'[c] \in {"start", "done"}
      /\ l # "return" => pc'[c] = l /\ ip' = ip
      /\ \A b \in Callers \ {c} : pc'[b] = pc[b] /\ ip'[b] = ip[b]
  BY <1>1, ProceedType
<1>3. CallTypeOK'
  BY <1>1, <1>2 DEF CallTypeOK, Position
<1>4. OnlyFor(c)
  BY <1>2 DEF OnlyFor
<1>5. AtHand(c)'
  BY <1>2 DEF TypeInv, AtHand, Call
<1>6. QED  BY <1>3, <1>4, <1>5, OthersKeep DEF TypeInv, TypeOK

LEMMA HandOverType ==
    ASSUME TypeInv, NEW c \in Callers, HandOver(c)
    PROVE  TypeInv'
<1> DEFINE call == Call(c)
           f    == ControlOrder[file[c]]
<1>1. /\ pc[c] = "control" /\ CallTypeOK /\ TreeTypeOK /\ AtHand(c)
      /\ call \in Calls /\ call.path \in Paths
      /\ call.uid \in Owners \cup {Keep} /\ call.task_uid \in Owners \cup {Keep}
  BY CallerType DEF HandOver, At
<1>2. call.kind = "apply"
  BY <1>1 DEF AtHand
<1>3. CASE ~ Exists(call.path)
  BY <1>1, <1>3, FailType DEF HandOver
<1>4. CASE Exists(call.path)
  <2>1. UNCHANGED <<script, fd, level, fresh, pending, order, dead>>
    BY <1>4 DEF HandOver
  <2>2. file[c] \in 1..3 /\ f \in ControlFiles
    BY <1>1 DEF CallTypeOK, ControlOrder, ControlFiles
  <2>3. TreeTypeOK'
        /\ hit' \in [Callers -> SUBSET {"made", "changed", "removed"}]
    <3>1. CASE FileOwner(call, f) = Keep
      <4>1. UNCHANGED <<treeVars, hit>>
        BY <1>4, <3>1 DEF HandOver
      <4>2. QED  BY <1>1, <4>1 DEF treeVars, TreeTypeOK, Exists, CallTypeOK
    <3>2. CASE FileOwner(call, f) # Keep
      <4>1. ChownControl(call.path, f, FileOwner(call, f))
            /\ Note(c, "changed", call.path)
        BY <1>4, <3>2 DEF HandOver
      <4>2. FileOwner(call, f) \in Owners
        BY <1>1, <3>2 DEF FileOwner
      <4>3. QED  BY <1>1, <2>2, <4>1, <4>2, ChownControlType, NoteType
    <3>3. QED  BY <3>1, <3>2
  <2>4. CASE file[c] < Len(ControlOrder)
    <3>1. file' = [file EXCEPT ![c] = file[c] + 1] /\ pc' = pc /\ ip' = ip
      BY <1>4, <2>4 DEF HandOver
    <3>2. file' \in [Callers -> 1..3]
      BY <1>1, <2>2, <2>4, <3>1 DEF CallTypeOK, ControlOrder
    <3>3. CallTypeOK'
      BY <1>1, <2>1, <2>3, <3>1, <3>2 DEF CallTypeOK
    <3>4. OnlyFor(c)
      BY <2>1, <3>1 DEF OnlyFor
    <3>5. AtHand(c)'
      BY <1>1, <2>1, <3>1 DEF AtHand, Walking, Call, Child, AtLeaf
    <3>6. QED  BY <2>3, <3>3, <3>4, <3>5, OthersKeep DEF TypeInv, TypeOK
  <2>5. CASE ~ (file[c] < Len(ControlOrder))
    <3>1. file' = [file EXCEPT ![c] = 1] /\ Proceed(c, AfterControls(call))
      BY <1>4, <2>5 DEF HandOver
    <3>2. file' \in [Callers -> 1..3]
      BY <1>1, <3>1 DEF CallTypeOK
    <3>3. AfterControls(call) \in {"enable", "attach", "return"}
          /\ (AfterControls(call) = "attach" => call.pid # NoPid)
      BY DEF AfterControls
    <3>4. order' \in [Callers -> Seq(Paths)]
          /\ \A b \in Callers \ {c} : order'[b] = order[b]
      BY <1>1, <2>1 DEF CallTypeOK
    <3>5. QED
      BY <1>1, <1>2, <2>1, <2>3, <3>1, <3>2, <3>3, <3>4, ProceedKeeps
  <2>6. QED  BY <2>4, <2>5
<1>5. QED  BY <1>3, <1>4

LEMMA EnableType ==
    ASSUME TypeInv, NEW c \in Callers, EnableControllers(c)
    PROVE  TypeInv'
<1>1. pc[c] = "enable" /\ CallTypeOK /\ TreeTypeOK /\ Call(c).path \in Paths
      /\ Call(c).kind = "apply"
  BY CallerType DEF EnableControllers, At, AtHand
<1>2. CASE ~ CanEnable(Call(c).path)
  BY <1>1, <1>2, FailType DEF EnableControllers
<1>3. CASE CanEnable(Call(c).path)
  <2>1. /\ Enable(Call(c).path)
        /\ Proceed(c, IF Call(c).pid # NoPid THEN "attach" ELSE "return")
        /\ UNCHANGED <<script, fd, level, fresh, file, pending, order, dead,
                       hit>>
    BY <1>3 DEF EnableControllers
  <2>2. TreeTypeOK'
    BY <1>1, <1>3, <2>1, MembersType DEF CanEnable
  <2>3. /\ hit' \in [Callers -> SUBSET {"made", "changed", "removed"}]
        /\ file' \in [Callers -> 1..3] /\ order' \in [Callers -> Seq(Paths)]
        /\ \A b \in Callers \ {c} : order'[b] = order[b]
    BY <1>1, <2>1 DEF CallTypeOK
  <2>4. QED  BY <1>1, <2>1, <2>2, <2>3, ProceedKeeps
<1>4. QED  BY <1>2, <1>3

LEMMA AttachType ==
    ASSUME TypeInv, NEW c \in Callers, AttachPid(c)
    PROVE  TypeInv'
<1>1. pc[c] = "attach" /\ CallTypeOK /\ TreeTypeOK /\ Call(c).path \in Paths
      /\ AtHand(c) /\ Call(c).pid \in Pids \cup {NoPid}
  BY CallerType DEF AttachPid, At
<1>2. Call(c).pid \in Pids
  BY <1>1 DEF AtHand
<1>3. CASE ~ CanAttach(Call(c).pid, Call(c).path)
  BY <1>1, <1>3, FailType DEF AttachPid
<1>4. CASE CanAttach(Call(c).pid, Call(c).path)
  <2>1. /\ Attach(Call(c).pid, Call(c).path) /\ Proceed(c, "return")
        /\ UNCHANGED <<script, fd, level, fresh, file, pending, order, dead,
                       hit>>
    BY <1>4 DEF AttachPid
  <2>2. TreeTypeOK'
    BY <1>1, <1>2, <1>4, <2>1, MembersType DEF CanAttach
  <2>3. /\ hit' \in [Callers -> SUBSET {"made", "changed", "removed"}]
        /\ file' \in [Callers -> 1..3] /\ order' \in [Callers -> Seq(Paths)]
        /\ \A b \in Callers \ {c} : order'[b] = order[b]
    BY <1>1, <2>1 DEF CallTypeOK
  <2>4. QED  BY <1>1, <2>1, <2>2, <2>3, ProceedKeeps
<1>5. QED  BY <1>3, <1>4

LEMMA ProcsType ==
    ASSUME TypeInv, NEW c \in Callers, OpenProcs(c)
    PROVE  TypeInv'
<1>1. pc[c] = "procs" /\ CallTypeOK /\ TreeTypeOK /\ Call(c).path \in Paths
      /\ AtHand(c)
  BY CallerType DEF OpenProcs, At
<1>2. CASE ~ Exists(Call(c).path)
  BY <1>1, <1>2, FailType DEF OpenProcs
<1>3. CASE Exists(Call(c).path)
  <2>1. /\ fd' = [fd EXCEPT ![c] = [dir |-> Call(c).path,
                                    inc |-> dirs[Call(c).path]]]
        /\ Goto(c, "enter")
        /\ UNCHANGED <<treeVars, script, ip, level, fresh, file, pending,
                       order, dead, hit>>
    BY <1>3 DEF OpenProcs
  <2>2. Position' /\ pc'[c] = "enter"
        /\ \A b \in Callers \ {c} : pc'[b] = pc[b]
    BY <1>1, <2>1, GotoType DEF Locations
  <2>3. /\ fd' \in [Callers -> [dir : Dirs, inc : Nat \ {0}]]
        /\ fd'[c].dir = Call(c).path
        /\ \A b \in Callers \ {c} : fd'[b] = fd[b]
    BY <1>1, <1>3, <2>1 DEF CallTypeOK, TreeTypeOK, Exists, Dirs
  <2>4. CallTypeOK'
    BY <1>1, <2>1, <2>2, <2>3 DEF CallTypeOK, Position
  <2>5. OnlyFor(c) /\ Call(c)' = Call(c)
    BY <2>1, <2>2, <2>3 DEF OnlyFor, Call
  <2>6. AtHand(c)'
    BY <1>1, <2>2, <2>3, <2>5 DEF AtHand
  <2>7. TreeTypeOK'
    BY <1>1, <2>1 DEF TreeTypeOK, Exists, treeVars
  <2>8. QED  BY <2>4, <2>5, <2>6, <2>7, OthersKeep DEF TypeInv, TypeOK
<1>4. QED  BY <1>2, <1>3

LEMMA EnterType ==
    ASSUME TypeInv, NEW c \in Callers, Enter(c)
    PROVE  TypeInv'
<1>1. pc[c] = "enter" /\ CallTypeOK /\ TreeTypeOK /\ Call(c).path \in Paths
      /\ AtHand(c) /\ Call(c).pid \in Pids \cup {NoPid}
  BY CallerType DEF Enter, At
<1>2. Call(c).pid \in Pids
  BY <1>1 DEF AtHand
<1>3. CASE ~ (Live(fd[c]) /\ CanAttach(Call(c).pid, Call(c).path))
  BY <1>1, <1>3, FailType DEF Enter
<1>4. CASE Live(fd[c]) /\ CanAttach(Call(c).pid, Call(c).path)
  <2>1. /\ Attach(Call(c).pid, Call(c).path) /\ Proceed(c, "return")
        /\ UNCHANGED <<script, fd, level, fresh, file, pending, order, dead,
                       hit>>
    BY <1>4 DEF Enter
  <2>2. TreeTypeOK'
    BY <1>1, <1>2, <1>4, <2>1, MembersType DEF CanAttach
  <2>3. /\ hit' \in [Callers -> SUBSET {"made", "changed", "removed"}]
        /\ file' \in [Callers -> 1..3] /\ order' \in [Callers -> Seq(Paths)]
        /\ \A b \in Callers \ {c} : order'[b] = order[b]
    BY <1>1, <2>1 DEF CallTypeOK
  <2>4. QED  BY <1>1, <2>1, <2>2, <2>3, ProceedKeeps
<1>5. QED  BY <1>3, <1>4

LEMMA PopType ==
    ASSUME NEW s \in Seq(Paths), s # <<>>
    PROVE  /\ Len(s) \in Nat \ {0} /\ s[Len(s)] \in Paths
           /\ SubSeq(s, 1, Len(s) - 1) \in Seq(Paths)
           /\ Len(SubSeq(s, 1, Len(s) - 1)) = Len(s) - 1
           /\ Len(s) # 1 => SubSeq(s, 1, Len(s) - 1) # <<>>
<1>1. /\ Len(s) \in Nat \ {0} /\ s[Len(s)] \in Paths
      /\ SubSeq(s, 1, Len(s) - 1) \in Seq(Paths)
      /\ Len(SubSeq(s, 1, Len(s) - 1)) = Len(s) - 1
  OBVIOUS
<1>2. ASSUME SubSeq(s, 1, Len(s) - 1) = <<>> PROVE Len(s) - 1 = 0
  BY <1>1, <1>2
<1>3. QED  BY <1>1, <1>2

LEMMA JoinType ==
    ASSUME NEW s \in Seq(Paths), NEW t \in Seq(Paths), s # <<>> \/ t # <<>>
    PROVE  s \o t # <<>>
<1>1. Len(s \o t) = Len(s) + Len(t) /\ Len(s) \in Nat /\ Len(t) \in Nat
  OBVIOUS
<1>2. ASSUME s \o t = <<>> PROVE s = <<>> /\ t = <<>>
  BY <1>1, <1>2
<1>3. QED  BY <1>2

LEMMA ListingsType ==
    ASSUME NEW d \in Dirs, NEW found \in Listings(Children(d))
    PROVE  found \in Seq(Paths)
<1>1. IsFiniteSet(Children(d)) /\ Children(d) \subseteq Paths
  BY TreeAssumption, FS_Subset DEF Children
<1>2. Cardinality(Children(d)) \in Nat
  BY <1>1, FS_CardinalityType
<1>3. found \in [1..Cardinality(Children(d)) -> Paths]
  BY <1>1 DEF Listings
<1>4. QED  BY <1>2, <1>3

LEMMA ListType ==
    ASSUME TypeInv, NEW c \in Callers, ListDir(c)
    PROVE  TypeInv'
<1> DEFINE n    == Len(pending[c])
           path == pending[c][n]
<1>1. pc[c] = "list" /\ CallTypeOK /\ TreeTypeOK /\ AtHand(c)
  BY CallerType DEF ListDir, At
<1>2. pending[c] \in Seq(Paths) /\ pending[c] # <<>> /\ order[c] \in Seq(Paths)
  BY <1>1 DEF AtHand, CallTypeOK
<1>3. n \in Nat \ {0} /\ path \in Paths
      /\ SubSeq(pending[c], 1, n - 1) \in Seq(Paths)
      /\ Len(SubSeq(pending[c], 1, n - 1)) = n - 1
  BY <1>2, PopType
<1>4. CASE ~ Exists(path)
  BY <1>1, <1>4, FailType DEF ListDir
<1>5. CASE Exists(path)
  <2>1. PICK found \in Listings(Children(path)) :
          /\ order' = [order EXCEPT ![c] = Append(order[c], path)]
          /\ pending' = [pending EXCEPT ![c] =
                           SubSeq(pending[c], 1, n - 1) \o found]
          /\ Goto(c, IF n = 1 /\ found = <<>> THEN "unlink" ELSE "list")
          /\ UNCHANGED <<treeVars, script, ip, fd, level, fresh, file, dead,
                         hit>>
    BY <1>5 DEF ListDir
  <2>2. found \in Seq(Paths)
    BY <1>3, ListingsType DEF Dirs
  <2>3. order' \in [Callers -> Seq(Paths)] /\ order'[c] # <<>>
        /\ \A b \in Callers \ {c} : order'[b] = order[b]
    <3>1. PICK longer \in Seq(Paths) : longer = Append(order[c], path) /\ longer # <<>>
      <4>1. \A s \in Seq(Paths), x \in Paths :
               Append(s, x) \in Seq(Paths) /\ Append(s, x) # <<>>
        OBVIOUS
      <4> HIDE DEF path
      <4>2. Append(order[c], path) \in Seq(Paths) /\ Append(order[c], path) # <<>>
        BY <4>1, <1>2, <1>3
      <4>3. QED  BY <4>2
    <3>2. order \in [Callers -> Seq(Paths)] /\ order' = [order EXCEPT ![c] = longer]
      BY <1>1, <2>1, <3>1 DEF CallTypeOK
    <3>3. QED  BY <3>1, <3>2
  <2>4. pending' \in [Callers -> Seq(Paths)]
        /\ \A b \in Callers \ {c} : pending'[b] = pending[b]
    BY <1>1, <1>3, <2>1, <2>2 DEF CallTypeOK
  <2>5. ~ (n = 1 /\ found = <<>>) => pending'[c] # <<>>
    <3>1. pending'[c] = SubSeq(pending[c], 1, n - 1) \o found
      BY <1>1, <2>1 DEF CallTypeOK
    <3>2. CASE found # <<>>
      BY <1>3, <2>2, <3>1, <3>2, JoinType
    <3>3. CASE n # 1
      <4>1. SubSeq(pending[c], 1, n - 1) # <<>>
        BY <1>2, <3>3, PopType
      <4>2. QED  BY <1>3, <2>2, <3>1, <4>1, JoinType
    <3>4. QED  BY <3>2, <3>3
  <2>6. TreeTypeOK'
    BY <1>1, <2>1 DEF TreeTypeOK, Exists, treeVars
  <2>7. Position' /\ pc'[c] \in {"list", "unlink"}
        /\ (pc'[c] = "list" => pending'[c] # <<>>)
        /\ \A b \in Callers \ {c} : pc'[b] = pc[b]
    <3> DEFINE l == IF n = 1 /\ found = <<>> THEN "unlink" ELSE "list"
    <3>1. l \in Locations \ {"done"} /\ UNCHANGED <<script, ip>>
      BY <2>1 DEF Locations
    <3>2. Goto(c, l)
      BY <2>1
    <3>3. Position' /\ pc'[c] = l /\ \A b \in Callers \ {c} : pc'[b] = pc[b]
      <4> HIDE DEF l
      <4>1. QED  BY <1>1, <3>1, <3>2, GotoType
    <3>4. QED  BY <2>5, <3>3
  <2>8. CallTypeOK'
    BY <1>1, <2>1, <2>3, <2>4, <2>7 DEF CallTypeOK, Position
  <2>9. OnlyFor(c)
    BY <2>1, <2>3, <2>4, <2>7 DEF OnlyFor
  <2>10. AtHand(c)'
    BY <1>1, <2>1, <2>3, <2>7 DEF AtHand, Call
  <2>11. QED  BY <2>6, <2>8, <2>9, <2>10, OthersKeep DEF TypeInv, TypeOK
<1>6. QED  BY <1>4, <1>5

LEMMA UnlinkType ==
    ASSUME TypeInv, NEW c \in Callers, Unlink(c)
    PROVE  TypeInv'
<1> DEFINE n    == Len(order[c])
           path == order[c][n]
<1>1. pc[c] = "unlink" /\ CallTypeOK /\ TreeTypeOK /\ AtHand(c)
  BY CallerType DEF Unlink, At
<1>2. order[c] \in Seq(Paths) /\ order[c] # <<>>
  BY <1>1 DEF AtHand, CallTypeOK
<1>3. n \in Nat \ {0} /\ path \in Paths
      /\ SubSeq(order[c], 1, n - 1) \in Seq(Paths)
      /\ Len(SubSeq(order[c], 1, n - 1)) = n - 1
  BY <1>2, PopType
<1>4. CASE ~ Exists(path) \/ ~ Removable(path)
  BY <1>1, <1>4, FailType DEF Unlink
<1>5. CASE Exists(path) /\ Removable(path)
  <2>1. /\ Rmdir(path) /\ Note(c, "removed", path)
        /\ order' = [order EXCEPT ![c] = SubSeq(order[c], 1, n - 1)]
        /\ Proceed(c, IF n = 1 THEN "return" ELSE "unlink")
        /\ UNCHANGED <<script, fd, level, fresh, file, pending, dead>>
    BY <1>5 DEF Unlink
  <2>2. TreeTypeOK'
        /\ hit' \in [Callers -> SUBSET {"made", "changed", "removed"}]
    BY <1>1, <1>3, <1>5, <2>1, RmdirType, NoteType
  <2>3. order' \in [Callers -> Seq(Paths)]
        /\ \A b \in Callers \ {c} : order'[b] = order[b]
    BY <1>1, <1>3, <2>1 DEF CallTypeOK
  <2>4. n # 1 => order'[c] # <<>>
    <3>1. order'[c] = SubSeq(order[c], 1, n - 1)
      BY <1>1, <2>1 DEF CallTypeOK
    <3>2. Len(order'[c]) = n - 1
      BY <1>3, <3>1
    <3>3. order'[c] = <<>> => Len(order'[c]) = 0
      OBVIOUS
    <3>4. QED  BY <1>3, <3>2, <3>3
  <2>5. file' \in [Callers -> 1..3] /\ pc[c] # "done"
    BY <1>1, <2>1 DEF CallTypeOK
  <2>6. QED  BY <1>1, <2>1, <2>2, <2>3, <2>4, <2>5, ProceedKeeps
<1>6. QED  BY <1>4, <1>5

LEMMA KillType == ASSUME TypeInv, NEW c \in Callers, Kill(c) PROVE TypeInv'
<1>1. TreeTypeOK'
  BY DEF TypeInv, TypeOK, TreeTypeOK, Exists, Kill, treeVars
<1>2. CallTypeOK'
  BY DEF TypeInv, TypeOK, CallTypeOK, Kill
<1>3. \A b \in Callers : AtHand(b)'
  BY SMTT(20) DEF TypeInv, AtHand, Walking, Call, Child, AtLeaf, Kill
<1>4. QED  BY <1>1, <1>2, <1>3 DEF TypeInv, TypeOK

LEMMA ExitType == ASSUME TypeInv, NEW q \in Pids, ProcessExits(q) PROVE TypeInv'
<1>1. TreeTypeOK'
  BY MembersType DEF TypeInv, TypeOK, ProcessExits
<1>2. CallTypeOK'
  BY DEF TypeInv, TypeOK, CallTypeOK, ProcessExits, callVars
<1>3. \A b \in Callers : AtHand(b)'
  BY SMTT(20) DEF TypeInv, AtHand, Walking, Call, Child, AtLeaf, ProcessExits, callVars
<1>4. QED  BY <1>1, <1>2, <1>3 DEF TypeInv, TypeOK

LEMMA StutterType == ASSUME TypeInv, UNCHANGED vars PROVE TypeInv'
<1>1. TreeTypeOK'
  BY DEF TypeInv, TypeOK, TreeTypeOK, Exists, vars, treeVars
<1>2. CallTypeOK'
  BY DEF TypeInv, TypeOK, CallTypeOK, vars
<1>3. \A b \in Callers : AtHand(b)'
  BY DEF TypeInv, AtHand, Walking, Call, Child, AtLeaf, vars
<1>4. QED  BY <1>1, <1>2, <1>3 DEF TypeInv, TypeOK

LEMMA TypeInit == Init => TypeInv
<1> SUFFICES ASSUME Init PROVE TypeInv
  OBVIOUS
<1>1. TreeTypeOK
  <2>1. attr \in [Paths -> Attributes]
    BY TreeAssumption DEF Init, AsMade, Attributes, Permissions
  <2>2. dirs \in [Dirs -> Nat] /\ \A d \in Dirs : Exists(d) <=> d \in Home
    BY DEF Init, Exists
  <2>3. Exists(Root) /\ \A p \in Paths : Exists(p) => Exists(Parent[p])
    BY <2>2, PathFacts, CgfsAssumption DEF Dirs
  <2>4. cg \in [Pids -> Dirs \cup {Gone}] /\ subtree = {Root}
        /\ \A q \in Pids : cg[q] = Root
    BY DEF Init, Dirs
  <2>5. born = 2 /\ \A d \in Dirs : dirs[d] < born
    BY DEF Init
  <2>6. QED  BY <2>1, <2>2, <2>3, <2>4, <2>5 DEF TreeTypeOK, Dirs
<1>2. CallTypeOK
  <2>1. \A c \in Callers : script[c] \in Seq(Calls) /\ script[c] # <<>>
    BY CgfsAssumption DEF Init
  <2>2. script \in [Callers -> Seq(Calls)]
        /\ \A c \in Callers : script[c] \in Scripts[c]
    BY <2>1 DEF Init
  <2>3. \A c \in Callers : ip[c] \in DOMAIN script[c]
    BY <2>1 DEF Init
  <2>4. fd \in [Callers -> [dir : Dirs, inc : Nat \ {0}]]
    BY DEF Init, RootFd, Dirs
  <2>5. QED  BY <2>2, <2>3, <2>4 DEF Init, CallTypeOK, Locations
<1>3. \A c \in Callers : AtHand(c)
  BY DEF Init, AtHand
<1>4. QED  BY <1>1, <1>2, <1>3 DEF TypeInv, TypeOK

LEMMA TypeNext == TypeInv /\ [Next]_vars => TypeInv'
<1> SUFFICES ASSUME TypeInv, [Next]_vars PROVE TypeInv'
  OBVIOUS
<1>1. CASE UNCHANGED vars
  BY <1>1, StutterType
<1>2. ASSUME NEW c \in Callers, Step(c) PROVE TypeInv'
  BY <1>2, BeginType, OpenType, MakeType, ReopenType, ChmodChildType,
     ChownLeafType, ChmodLeafType, HandOverType, EnableType, AttachType,
     ProcsType, EnterType,
     ListType, UnlinkType DEF Step
<1>3. ASSUME NEW c \in Callers, Kill(c) PROVE TypeInv'
  BY <1>3, KillType
<1>4. ASSUME NEW q \in Pids, ProcessExits(q) PROVE TypeInv'
  BY <1>4, ExitType
<1>5. QED  BY <1>1, <1>2, <1>3, <1>4 DEF Next

(* In every behaviour the callers and the tree stay well typed: the tree   *)
(* is closed under parents and no process is in a cgroup that is gone.     *)
THEOREM TypeCorrect == Spec => []TypeOK
<1>1. TypeInv => TypeOK
  BY DEF TypeInv
<1>2. QED  BY <1>1, TypeInit, TypeNext, PTL DEF Spec

-----------------------------------------------------------------------------
(* A step that leaves the directories and their modes alone.               *)
SameModes ==
    UNCHANGED dirs /\ \A p \in Paths : attr'[p].mode = attr[p].mode

LEMMA OwnerModes ==
    ASSUME TreeTypeOK,
           \/ \E f, u : f.dir \in Paths /\ Chown(f, u)
           \/ \E q \in Paths : \E f, u : ChownControl(q, f, u)
    PROVE  SameModes
<1>1. ASSUME NEW f, NEW u, f.dir \in Paths, Chown(f, u) PROVE SameModes
  BY <1>1 DEF Chown, TreeTypeOK, Attributes, SameModes
<1>2. ASSUME NEW q \in Paths, NEW f, NEW u, ChownControl(q, f, u)
      PROVE  SameModes
  BY <1>2 DEF ChownControl, TreeTypeOK, Attributes, SameModes
<1>3. QED  BY <1>1, <1>2

(* Only the four steps at these locations change directories or modes.     *)
LEMMA StepModes ==
    ASSUME TypeInv, NEW c \in Callers, Step(c),
           pc[c] \notin {"make", "chmod", "mode", "unlink"}
    PROVE  SameModes
<1>1. ASSUME UNCHANGED treeVars PROVE SameModes
  BY <1>1 DEF treeVars, SameModes
<1>2. CASE Begin(c)
  BY <1>1, <1>2 DEF Begin
<1>3. CASE OpenChild(c)
  BY <1>1, <1>3 DEF OpenChild
<1>4. CASE ReopenChild(c)
  BY <1>1, <1>4 DEF ReopenChild, Fail
<1>5. CASE ChownLeaf(c)
  <2>1. pc[c] = "own" /\ TreeTypeOK /\ fd[c].dir \in Paths
    BY <1>5, CallerType DEF ChownLeaf, At, AtHand
  <2>2. UNCHANGED treeVars \/ Chown(fd[c], Call(c).uid)
    BY <1>5 DEF ChownLeaf
  <2>3. QED  BY <1>1, <2>1, <2>2, OwnerModes
<1>6. CASE HandOver(c)
  <2>1. pc[c] = "control" /\ TreeTypeOK /\ Call(c).path \in Paths
    BY <1>6, CallerType DEF HandOver, At
  <2>2. UNCHANGED treeVars
        \/ \E f, u : ChownControl(Call(c).path, f, u)
    BY <1>6 DEF HandOver, Fail
  <2>3. QED  BY <1>1, <2>1, <2>2, OwnerModes
<1>7. CASE EnableControllers(c)
  BY <1>1, <1>7 DEF EnableControllers, Fail, Enable, SameModes
<1>8. CASE AttachPid(c) \/ OpenProcs(c) \/ Enter(c)
  BY <1>1, <1>8 DEF AttachPid, OpenProcs, Enter, Fail, Attach, SameModes
<1>9. CASE ListDir(c)
  BY <1>1, <1>9 DEF ListDir, Fail
<1>10. QED
  BY <1>2, <1>3, <1>4, <1>5, <1>6, <1>7, <1>8, <1>9
     DEF Step, MakeChild, ChmodChild, ChmodLeaf, Unlink, At

(* What the four steps do to the tree, when they succeed.                  *)
LEMMA MakeDoes ==
    ASSUME TypeInv, NEW c \in Callers, MakeChild(c)
    PROVE  \/ UNCHANGED treeVars
           \/ /\ Live(fd[c]) /\ ~ Exists(Child(c))
              /\ Mkdir(Child(c), MakeMode(c))
              /\ fresh' = [fresh EXCEPT ![c] = TRUE]
BY DEF MakeChild, Fail

LEMMA UnlinkDoes ==
    ASSUME TypeInv, NEW c \in Callers, Unlink(c)
    PROVE  \/ UNCHANGED treeVars
           \/ \E p \in Paths : Exists(p) /\ Removable(p) /\ Rmdir(p)
<1>1. pc[c] = "unlink" /\ CallTypeOK /\ AtHand(c)
  BY CallerType DEF Unlink, At
<1>2. order[c] \in Seq(Paths) /\ order[c] # <<>>
  BY <1>1 DEF AtHand, CallTypeOK
<1>3. order[c][Len(order[c])] \in Paths
  BY <1>2, PopType
<1>4. QED  BY <1>3 DEF Unlink, Fail

-----------------------------------------------------------------------------
(* Who may write.                                                          *)

(* Inductive without Exists: what is not there has no mode.                *)
WritableAsked ==
    \A p \in Paths :
        "write" \in attr[p].mode
        => \E m \in SUBSET Permissions : "write" \in m /\ Asked(p, m)

(* A step that gives nobody a write bit.                                   *)
GivesNoWrite ==
    \A p \in Paths : "write" \in attr'[p].mode => "write" \in attr[p].mode

LEMMA WritableKept ==
    ASSUME WritableAsked, GivesNoWrite, script' = script
    PROVE  WritableAsked'
BY DEF WritableAsked, GivesNoWrite, Asked

LEMMA MkdirWrite ==
    ASSUME "write" \in Umask, TreeTypeOK, NEW p \in Paths, NEW m, Mkdir(p, m)
    PROVE  GivesNoWrite
BY DEF Mkdir, AsMade, GivesNoWrite, TreeTypeOK, Attributes

LEMMA ChmodWrite ==
    ASSUME TreeTypeOK, NEW f, f.dir \in Paths, NEW m, "write" \notin m,
           Chmod(f, m)
    PROVE  GivesNoWrite
BY DEF Chmod, GivesNoWrite, TreeTypeOK, Attributes

LEMMA RmdirWrite ==
    ASSUME TreeTypeOK, NEW p \in Paths, Rmdir(p)
    PROVE  GivesNoWrite
BY DEF Rmdir, AsMade, GivesNoWrite, TreeTypeOK, Attributes

LEMMA ScriptKept == ASSUME NEW c \in Callers, Step(c) PROVE script' = script
BY DEF Step, Begin, OpenChild, MakeChild, ReopenChild, ChmodChild, ChownLeaf,
       ChmodLeaf, HandOver, EnableControllers, AttachPid, OpenProcs, Enter, ListDir,
       Unlink, Fail

LEMMA WritableStep ==
    ASSUME "write" \in Umask, TypeInv, WritableAsked, NEW c \in Callers, Step(c)
    PROVE  WritableAsked'
<1>0. TreeTypeOK /\ script' = script
  BY ScriptKept DEF TypeInv, TypeOK
<1>1. CASE pc[c] \notin {"make", "chmod", "mode", "unlink"}
  BY <1>0, <1>1, StepModes, WritableKept DEF SameModes, GivesNoWrite
<1>2. ASSUME UNCHANGED treeVars PROVE WritableAsked'
  BY <1>0, <1>2, WritableKept DEF treeVars, GivesNoWrite
<1>3. CASE MakeChild(c)
  <2>1. Child(c) \in Paths
    BY <1>3, WalkerType DEF MakeChild, At
  <2>2. QED  BY <1>0, <1>2, <1>3, <2>1, MakeDoes, MkdirWrite, WritableKept
<1>4. CASE ChmodChild(c)
  <2>1. Walking(c) /\ Child(c) \in Paths /\ pc[c] = "chmod"
    BY <1>4, WalkerType DEF ChmodChild, At
  <2>2. fd[c].dir \in Paths
    BY <2>1 DEF Walking
  <2>3. "write" \notin AncestorMode(Call(c).dperm)
    BY DEF AncestorMode
  <2>4. Chmod(fd[c], AncestorMode(Call(c).dperm))
    BY <1>4 DEF ChmodChild
  <2>5. QED  BY <1>0, <2>2, <2>3, <2>4, ChmodWrite, WritableKept
<1>5. CASE ChmodLeaf(c)
  <2> DEFINE call == Call(c)
  <2>1. /\ pc[c] = "mode" /\ AtHand(c) /\ CallTypeOK
        /\ call.path \in Paths
        /\ call.dperm \in (SUBSET Permissions) \cup {NoMode}
    BY <1>5, CallerType DEF ChmodLeaf, At
  <2>2. fd[c].dir = call.path /\ call.dperm \in SUBSET Permissions
        /\ call.kind = "apply"
    BY <2>1 DEF AtHand
  <2>3. Chmod(fd[c], call.dperm)
    BY <1>5 DEF ChmodLeaf
  <2>4. CASE "write" \notin call.dperm
    BY <1>0, <2>1, <2>2, <2>3, <2>4, ChmodWrite, WritableKept
  <2>5. CASE "write" \in call.dperm
    <3>1. ip[c] \in DOMAIN script[c]
      BY <2>1 DEF CallTypeOK
    <3>2. Asked(call.path, call.dperm)
      BY <2>2, <3>1 DEF Asked, Call
    <3>3. \A p \in Paths : p # call.path => attr'[p] = attr[p]
      BY <1>0, <2>2, <2>3 DEF Chmod, TreeTypeOK
    <3>4. \A p \in Paths : \A m : Asked(p, m)' <=> Asked(p, m)
      BY <1>0 DEF Asked
    <3>5. QED  BY <2>2, <2>5, <3>2, <3>3, <3>4 DEF WritableAsked
  <2>6. QED  BY <2>4, <2>5
<1>6. CASE Unlink(c)
  BY <1>0, <1>2, <1>6, UnlinkDoes, RmdirWrite, WritableKept
<1>7. QED
  BY <1>1, <1>3, <1>4, <1>5, <1>6
     DEF Step, Begin, OpenChild, ReopenChild, ChownLeaf, HandOver,
         EnableControllers, AttachPid, OpenProcs, Enter, ListDir, At

LEMMA WritableNext ==
    "write" \in Umask /\ TypeInv /\ WritableAsked /\ [Next]_vars
    => WritableAsked'
<1> SUFFICES ASSUME "write" \in Umask, TypeInv, WritableAsked, [Next]_vars
             PROVE  WritableAsked'
  OBVIOUS
<1>1. ASSUME UNCHANGED <<attr, script>> PROVE WritableAsked'
  BY <1>1, WritableKept DEF GivesNoWrite
<1>2. CASE UNCHANGED vars
  BY <1>1, <1>2 DEF vars, treeVars
<1>3. ASSUME NEW c \in Callers, Kill(c) PROVE WritableAsked'
  BY <1>1, <1>3 DEF Kill, treeVars
<1>4. ASSUME NEW q \in Pids, ProcessExits(q) PROVE WritableAsked'
  BY <1>1, <1>4 DEF ProcessExits, Exit, callVars
<1>5. QED  BY <1>2, <1>3, <1>4, WritableStep DEF Next

(* Whatever the callers do and however their walks meet, group and others  *)
(* can write only to a directory some LeafSpec opened to them: the         *)
(* open_dir_for_apply of cgfs gives no ancestor write bits.                *)
THEOREM AncestorsStayClosed ==
    "write" \in Umask => (Spec => []AncestorsClosed)
<1> SUFFICES ASSUME "write" \in Umask PROVE Spec => []AncestorsClosed
  OBVIOUS
<1>1. Init => WritableAsked
  BY DEF Init, AsMade, WritableAsked
<1>2. TypeInv /\ WritableAsked /\ [Next]_vars => WritableAsked'
  BY WritableNext
<1>3. WritableAsked => AncestorsClosed
  BY DEF WritableAsked, AncestorsClosed
<1>4. QED  BY <1>1, <1>2, <1>3, TypeInit, TypeNext, PTL DEF Spec

-----------------------------------------------------------------------------
(* Who may search.                                                         *)

LEMMA StepOthers ==
    ASSUME CallTypeOK, NEW c \in Callers, Step(c) PROVE OnlyFor(c)
<1>1. CASE Begin(c)
  BY <1>1 DEF Begin, OnlyFor, CallTypeOK, Goto
<1>2. CASE OpenChild(c) \/ MakeChild(c) \/ ReopenChild(c) \/ ChmodChild(c)
  BY <1>2 DEF OpenChild, MakeChild, ReopenChild, ChmodChild, Fail, Descend,
              OnlyFor, CallTypeOK, Goto
<1>3. CASE ChownLeaf(c) \/ ChmodLeaf(c)
  BY <1>3 DEF ChownLeaf, ChmodLeaf, OnlyFor, CallTypeOK, Goto
<1>4. CASE HandOver(c)
  BY <1>4 DEF HandOver, Fail, Proceed, OnlyFor, CallTypeOK, Goto
<1>5. CASE EnableControllers(c) \/ AttachPid(c) \/ OpenProcs(c) \/ Enter(c)
  BY <1>5 DEF EnableControllers, AttachPid, OpenProcs, Enter, Fail, Proceed,
              OnlyFor, CallTypeOK, Goto
<1>6. CASE ListDir(c)
  BY <1>6 DEF ListDir, Fail, OnlyFor, CallTypeOK, Goto
<1>7. CASE Unlink(c)
  BY <1>7 DEF Unlink, Fail, Proceed, OnlyFor, CallTypeOK, Goto
<1>8. QED  BY <1>1, <1>2, <1>3, <1>4, <1>5, <1>6, <1>7 DEF Step

(* p stays the directory it is, and in the directory it is in.             *)
Stays(p) == Exists(p) /\ dirs'[p] = dirs[p] /\ dirs'[Parent[p]] = dirs[Parent[p]]

(* What another caller has yet to do it has yet to do.                     *)
LEMMA PendingKept ==
    ASSUME TypeInv, NEW c \in Callers, OnlyFor(c), NEW b \in Callers \ {c},
           NEW p \in Paths, Stays(p), ModePending(b, p)
    PROVE  ModePending(b, p)'
<1>1. /\ pc'[b] = pc[b] /\ fd'[b] = fd[b] /\ fresh'[b] = fresh[b]
      /\ Call(b)' = Call(b) /\ Child(b)' = Child(b)
      /\ AtLeaf(b)' <=> AtLeaf(b)
  BY DEF OnlyFor, Call, Child, AtLeaf
<1>2. CASE pc[b] = "reopen" /\ Child(b) = p /\ Live(fd[b])
           /\ (fresh[b] \/ AtLeaf(b))
  <2>1. fd[b].dir = Parent[p]
    BY <1>2, WalkerType DEF Walking
  <2>2. Live(fd[b])'
    BY <1>1, <1>2, <2>1 DEF Live, Stays
  <2>3. QED  BY <1>1, <1>2, <2>2 DEF ModePending
<1>3. CASE pc[b] # "reopen"
  BY <1>1, <1>3 DEF ModePending, Stays
<1>4. QED  BY <1>2, <1>3 DEF ModePending

(* The step of c opens p, or has settled nothing that it had to do for p.  *)
Settles(c, p) ==
    Exists(p)' /\ "search" \notin attr'[p].mode
    => \/ NotMeantOpen(p)
       \/ ModePending(c, p)'
       \/ Stays(p) /\ "search" \notin attr[p].mode /\ ~ ModePending(c, p)

LEMMA SearchableKept ==
    ASSUME TypeInv, Searchable, NEW c \in Callers, OnlyFor(c),
           \A p \in Paths : Settles(c, p)
    PROVE  Searchable'
<1> SUFFICES ASSUME NEW p \in Paths,
                    Exists(p)', "search" \notin attr'[p].mode
             PROVE  NotMeantOpen(p)' \/ \E b \in Callers : ModePending(b, p)'
  BY DEF Searchable
<1>1. NotMeantOpen(p)' <=> NotMeantOpen(p)
  BY DEF NotMeantOpen, OnlyFor, Under
<1>2. CASE NotMeantOpen(p) \/ ModePending(c, p)'
  BY <1>1, <1>2
<1>3. CASE /\ Stays(p) /\ "search" \notin attr[p].mode
           /\ ~ ModePending(c, p) /\ ~ NotMeantOpen(p)
  <2>1. PICK b \in Callers : ModePending(b, p)
    BY <1>3 DEF Searchable, Stays
  <2>2. ModePending(b, p)'
    BY <1>3, <2>1, PendingKept
  <2>3. QED  BY <2>2
<1>4. QED  BY <1>2, <1>3 DEF Settles

(* Nothing exists in a directory that does not.                            *)
LEMMA ParentThere ==
    ASSUME TreeTypeOK, NEW p \in Paths, Exists(p)
    PROVE  Parent[p] \in Dirs /\ Exists(Parent[p])
BY PathFacts DEF TreeTypeOK

LEMMA SameStays ==
    ASSUME NEW p \in Paths, UNCHANGED dirs, Exists(p)'
    PROVE  Stays(p)
BY DEF Stays, Exists

LEMMA MkdirStays ==
    ASSUME TreeTypeOK, NEW x \in Paths, ~ Exists(x), NEW m, Mkdir(x, m),
           NEW p \in Paths, p # x, Exists(p)'
    PROVE  Stays(p) /\ attr'[p] = attr[p]
<1>1. dirs' = [dirs EXCEPT ![x] = born] /\ attr'[p] = attr[p]
  BY DEF Mkdir, TreeTypeOK
<1>2. Exists(p) /\ dirs'[p] = dirs[p]
  BY <1>1 DEF Exists, TreeTypeOK
<1>3. Parent[p] # x /\ Parent[p] \in Dirs
  BY <1>2, ParentThere
<1>4. QED  BY <1>1, <1>2, <1>3 DEF Stays, TreeTypeOK

LEMMA RmdirStays ==
    ASSUME TreeTypeOK, NEW x \in Paths, Removable(x), Rmdir(x),
           NEW p \in Paths, Exists(p)'
    PROVE  Stays(p) /\ attr'[p] = attr[p]
<1>1. dirs' = [dirs EXCEPT ![x] = 0] /\ x \in Dirs
  BY DEF Rmdir, Dirs
<1>2. p # x /\ Exists(p) /\ dirs'[p] = dirs[p]
  BY <1>1 DEF Exists, TreeTypeOK
<1>3. Parent[p] # x /\ Parent[p] \in Dirs
  BY <1>2, ParentThere DEF Removable, Children
<1>4. attr'[p] = attr[p]
  BY <1>2 DEF Rmdir, TreeTypeOK
<1>5. QED  BY <1>1, <1>2, <1>3, <1>4 DEF Stays, TreeTypeOK

(* A caller that is nowhere near a mode leaves the modes as they are.      *)
LEMMA QuietSearch ==
    ASSUME TypeInv, Searchable, NEW c \in Callers, Step(c),
           pc[c] \notin {"make", "reopen", "chmod", "own", "mode", "unlink"}
    PROVE  Searchable'
<1>1. SameModes /\ OnlyFor(c)
  BY StepModes, StepOthers DEF TypeInv, TypeOK
<1>2. \A p \in Paths : ~ ModePending(c, p)
  BY DEF ModePending
<1>3. QED  BY <1>1, <1>2, SameStays, SearchableKept DEF SameModes, Settles

LEMMA UnderSelf == ASSUME NEW p \in Paths PROVE Under(p, p)
<1>1. Len(Walk[p]) \in DOMAIN Walk[p] /\ Walk[p][Len(Walk[p])] = p
  BY WalkFacts
<1>2. QED  BY <1>1 DEF Under

(* The call c is in makes p closed on purpose, or without saying.          *)
LEMMA CallNotMeantOpen ==
    ASSUME TypeInv, NEW c \in Callers, pc[c] # "done",
           Call(c).kind = "apply", NEW p \in Paths,
           \/ Call(c).dperm = NoMode /\ Under(Call(c).path, p)
           \/ /\ Call(c).dperm # NoMode /\ "search" \notin Call(c).dperm
              /\ Call(c).path = p
    PROVE  NotMeantOpen(p)
<1>1. ip[c] \in DOMAIN script[c]
  BY CallerType DEF CallTypeOK
<1>2. QED  BY <1>1 DEF NotMeantOpen, Call

LEMMA MakeSearch ==
    ASSUME TypeInv, Searchable, NEW c \in Callers, MakeChild(c)
    PROVE  Searchable'
<1> PICK x \in Paths : x = Child(c)
  BY WalkerType DEF MakeChild, At
<1>1. /\ pc[c] = "make" /\ TreeTypeOK /\ CallTypeOK /\ Walking(c)
      /\ Call(c).kind = "apply" /\ x \in Paths
  BY WalkerType DEF MakeChild, At
<1>2. OnlyFor(c) /\ \A p \in Paths : ~ ModePending(c, p)
  BY <1>1, StepOthers DEF Step, ModePending
<1>3. CASE UNCHANGED treeVars
  BY <1>2, <1>3, SameStays, SearchableKept DEF treeVars, Settles
<1>4. CASE /\ Live(fd[c]) /\ ~ Exists(x) /\ Mkdir(x, MakeMode(c))
           /\ fresh' = [fresh EXCEPT ![c] = TRUE]
  <2>1. \A p \in Paths \ {x} : Exists(p)' => Stays(p) /\ attr'[p] = attr[p]
    BY <1>1, <1>4, MkdirStays
  <2>2. CASE Call(c).dperm = NoMode
    <3>1. Under(Call(c).path, x)
      BY <1>1 DEF Walking, Under, Child
    <3>2. NotMeantOpen(x)
      BY <1>1, <2>2, <3>1, CallNotMeantOpen
    <3>3. QED  BY <1>2, <2>1, <3>2, SearchableKept DEF Settles
  <2>3. fd[c] \in [dir : Dirs, inc : Nat \ {0}] /\ fd[c].dir # x
    BY <1>1, <1>4 DEF CallTypeOK, Live, Exists
  <2>4. Live(fd[c])'
    <3>1. fd' = fd /\ dirs' = [dirs EXCEPT ![x] = born]
      BY <1>1, <1>4 DEF MakeChild, Mkdir
    <3>2. QED  BY <1>4, <2>3, <3>1 DEF Live
  <2>5. ModePending(c, x)'
    <3>1. pc'[c] = "reopen" /\ fresh'[c]
      BY <1>1, <1>4 DEF MakeChild, CallTypeOK, Goto
    <3>2. Child(c)' = x
      BY <1>1, <1>4 DEF MakeChild, Child, Call
    <3>3. QED  BY <2>4, <3>1, <3>2 DEF ModePending
  <2>6. QED  BY <1>2, <2>1, <2>5, SearchableKept DEF Settles
<1>5. QED  BY <1>3, <1>4, MakeDoes

LEMMA ReopenSearch ==
    ASSUME TypeInv, Searchable, NEW c \in Callers, ReopenChild(c)
    PROVE  Searchable'
<1> PICK x \in Paths : x = Child(c)
  BY WalkerType DEF ReopenChild, At
<1>1. /\ pc[c] = "reopen" /\ TreeTypeOK /\ CallTypeOK /\ Walking(c)
      /\ Call(c).kind = "apply" /\ x \in Paths /\ Call(c).path \in Paths
  BY WalkerType DEF ReopenChild, At
<1>2. OnlyFor(c)
  BY <1>1, StepOthers DEF Step
<1>3. UNCHANGED <<treeVars, script, ip>>
  BY DEF ReopenChild, Fail
<1>4. \A p \in Paths : Exists(p)' => Stays(p) /\ attr'[p] = attr[p]
  BY <1>3, SameStays DEF treeVars
<1>5. \A p \in Paths \ {x} : ~ ModePending(c, p)
  BY <1>1 DEF ModePending
<1>6. ASSUME ModePending(c, x), Exists(x)
      PROVE  NotMeantOpen(x) \/ ModePending(c, x)'
  <2>1. Live(fd[c]) /\ (fresh[c] \/ AtLeaf(c))
    BY <1>1, <1>6 DEF ModePending
  <2>2. fd'[c] = [dir |-> x, inc |-> dirs'[x]]
    BY <1>1, <1>3, <1>6, <2>1
       DEF ReopenChild, OpenedChild, CallTypeOK, treeVars
  <2>3. CASE AtLeaf(c)
    <3>1. pc'[c] = "own"
      BY <1>1, <1>6, <2>1, <2>3 DEF ReopenChild, Descend, Goto, CallTypeOK
    <3>2. Call(c)'.path = x
      BY <1>1, <1>3, <2>3, WalkFacts DEF Call, Child, AtLeaf
    <3>3. QED  BY <2>2, <3>1, <3>2 DEF ModePending
  <2>4. CASE ~ AtLeaf(c) /\ Call(c).dperm # NoMode
    <3>1. pc'[c] = "chmod"
      BY <1>1, <1>6, <2>1, <2>4 DEF ReopenChild, Goto, CallTypeOK
    <3>2. QED  BY <2>2, <3>1 DEF ModePending
  <2>5. CASE Call(c).dperm = NoMode
    <3>1. Under(Call(c).path, x)
      BY <1>1 DEF Walking, Under, Child
    <3>2. QED  BY <1>1, <2>5, <3>1, CallNotMeantOpen
  <2>6. QED  BY <2>3, <2>4, <2>5
<1>7. QED  BY <1>2, <1>4, <1>5, <1>6, SearchableKept DEF Stays, Settles

(* A chmod through the descriptor c has of the directory it has to set.    *)
LEMMA ChmodSearch ==
    ASSUME TypeInv, Searchable, NEW c \in Callers, Step(c),
           pc[c] \in {"chmod", "mode"}, fd[c].dir \in Paths,
           NEW m, Chmod(fd[c], m),
           "search" \in m \/ NotMeantOpen(fd[c].dir)
    PROVE  Searchable'
<1> PICK x \in Paths : x = fd[c].dir
  OBVIOUS
<1>1. TreeTypeOK /\ CallTypeOK /\ OnlyFor(c)
  BY StepOthers DEF TypeInv, TypeOK
<1>2. UNCHANGED dirs
  BY DEF Chmod
<1>3. \A p \in Paths : Exists(p)' => Stays(p)
  BY <1>2, SameStays
<1>4. \A p \in Paths \ {x} : attr'[p] = attr[p]
  BY <1>1 DEF Chmod, TreeTypeOK
<1>5. \A p \in Paths : ModePending(c, p) => p = x /\ Live(fd[c])
  BY DEF ModePending, Live
<1>6. Live(fd[c]) => attr'[x].mode = m
  BY <1>1 DEF Chmod, TreeTypeOK, Attributes
<1>7. ~ Live(fd[c]) => attr' = attr
  BY DEF Chmod
<1>8. QED  BY <1>1, <1>3, <1>4, <1>5, <1>6, <1>7, SearchableKept DEF Settles

LEMMA OwnSearch ==
    ASSUME TypeInv, Searchable, NEW c \in Callers, ChownLeaf(c)
    PROVE  Searchable'
<1> PICK x \in Paths : x = Call(c).path
  BY CallerType DEF ChownLeaf, At
<1>1. /\ pc[c] = "own" /\ TreeTypeOK /\ CallTypeOK /\ x \in Paths
      /\ Call(c).kind = "apply"
  BY CallerType DEF ChownLeaf, At, AtHand
<1>2. OnlyFor(c) /\ SameModes
  BY <1>1, StepOthers, StepModes DEF Step
<1>3. \A p \in Paths : Exists(p)' => Stays(p)
  BY <1>2, SameStays DEF SameModes
<1>4. \A p \in Paths \ {x} : ~ ModePending(c, p)
  BY <1>1 DEF ModePending
<1>5. ASSUME ModePending(c, x) PROVE NotMeantOpen(x) \/ ModePending(c, x)'
  <2>1. CASE Call(c).dperm = NoMode
    <3>1. Under(x, x)
      BY <1>1, UnderSelf
    <3>2. QED  BY <1>1, <2>1, <3>1, CallNotMeantOpen
  <2>2. CASE Call(c).dperm # NoMode
    <3>1. pc'[c] = "mode" /\ fd' = fd /\ Call(c)' = Call(c)
      BY <1>1, <2>2 DEF ChownLeaf, Goto, CallTypeOK, Call
    <3>2. fd[c] = [dir |-> x, inc |-> dirs[x]]
      BY <1>1, <1>5 DEF ModePending
    <3>3. fd'[c] = [dir |-> x, inc |-> dirs'[x]]
      BY <1>2, <3>1, <3>2 DEF SameModes
    <3>4. QED  BY <3>1, <3>3 DEF ModePending
  <2>3. QED  BY <2>1, <2>2
<1>6. QED  BY <1>2, <1>3, <1>4, <1>5, SearchableKept DEF SameModes, Settles

LEMMA UnlinkSearch ==
    ASSUME TypeInv, Searchable, NEW c \in Callers, Unlink(c)
    PROVE  Searchable'
<1>1. pc[c] = "unlink" /\ TreeTypeOK /\ CallTypeOK
  BY CallerType DEF Unlink, At
<1>2. OnlyFor(c) /\ \A p \in Paths : ~ ModePending(c, p)
  BY <1>1, StepOthers DEF Step, ModePending
<1>3. \A p \in Paths : Exists(p)' => Stays(p) /\ attr'[p] = attr[p]
  <2>1. CASE UNCHANGED treeVars
    BY <2>1, SameStays DEF treeVars
  <2>2. CASE \E x \in Paths : Exists(x) /\ Removable(x) /\ Rmdir(x)
    BY <1>1, <2>2, RmdirStays
  <2>3. QED  BY <2>1, <2>2, UnlinkDoes
<1>4. QED  BY <1>2, <1>3, SearchableKept DEF Settles

LEMMA SearchableStep ==
    ASSUME TypeInv, Searchable, NEW c \in Callers, Step(c)
    PROVE  Searchable'
<1>1. CASE pc[c] \notin {"make", "reopen", "chmod", "own", "mode", "unlink"}
  BY <1>1, QuietSearch
<1>2. CASE ChmodChild(c)
  <2>1. Walking(c) /\ Child(c) \in Paths /\ pc[c] = "chmod"
    BY <1>2, WalkerType DEF ChmodChild, At
  <2>2. fd[c].dir \in Paths /\ Chmod(fd[c], AncestorMode(Call(c).dperm))
    BY <1>2, <2>1 DEF Walking, ChmodChild
  <2>3. "search" \in AncestorMode(Call(c).dperm)
    BY DEF AncestorMode
  <2>4. QED  BY <2>1, <2>2, <2>3, ChmodSearch
<1>3. CASE ChmodLeaf(c)
  <2>1. /\ pc[c] = "mode" /\ AtHand(c) /\ Call(c).path \in Paths
        /\ Chmod(fd[c], Call(c).dperm)
    BY <1>3, CallerType DEF ChmodLeaf, At
  <2>2. /\ fd[c].dir = Call(c).path /\ Call(c).dperm # NoMode
        /\ Call(c).kind = "apply"
    BY <2>1 DEF AtHand
  <2>3. "search" \in Call(c).dperm \/ NotMeantOpen(fd[c].dir)
    BY <2>1, <2>2, CallNotMeantOpen
  <2>4. QED  BY <2>1, <2>2, <2>3, ChmodSearch
<1>4. QED
  BY <1>1, <1>2, <1>3, MakeSearch, ReopenSearch, OwnSearch, UnlinkSearch
     DEF Step, Begin, OpenChild, HandOver, EnableControllers, AttachPid,
         OpenProcs, Enter, ListDir, At

LEMMA SearchableSame ==
    ASSUME Searchable,
           UNCHANGED <<dirs, attr, script, ip, pc, fd, level, fresh>>
    PROVE  Searchable'
BY DEF Searchable, Exists, NotMeantOpen, Under, ModePending, Child, Call,
       AtLeaf, Live

LEMMA SearchableNext == TypeInv /\ Searchable /\ [Next]_vars => Searchable'
<1> SUFFICES ASSUME TypeInv, Searchable, [Next]_vars PROVE Searchable'
  OBVIOUS
<1>1. CASE UNCHANGED vars
  BY <1>1, SearchableSame DEF vars, treeVars
<1>2. ASSUME NEW c \in Callers, Kill(c) PROVE Searchable'
  BY <1>2, SearchableSame DEF Kill, treeVars
<1>3. ASSUME NEW q \in Pids, ProcessExits(q) PROVE Searchable'
  BY <1>3, SearchableSame DEF ProcessExits, Exit, callVars
<1>4. QED  BY <1>1, <1>2, <1>3, SearchableStep DEF Next

(* Whatever the umask, a directory that a walk made and that others cannot *)
(* search has its fchmod still to come (or its caller was killed before):  *)
(* no interleaving of walks, removals and kills loses the repair.          *)
THEOREM UmaskRepaired == Spec => []Searchable
<1>1. Init => Searchable
  <2>1. Init => \A p \in Paths : Exists(p) => attr[p].mode = {"search"}
    BY DEF Init, AsMade, Exists, Dirs
  <2>2. QED  BY <2>1 DEF Searchable
<1>2. QED  BY <1>1, SearchableNext, TypeInit, TypeNext, PTL DEF Spec
-----------------------------------------------------------------------------
(* What the calls promise when they meet.                                  *)

Walkers == {"open", "make", "reopen", "chmod"}

(* Until something on its path is removed, a walk's descriptor is of a     *)
(* directory that is still there, and so is what it has just made or found *)
(* made.                                                                   *)
OnFirmGround(c) ==
    pc[c] \in Walkers /\ "removed" \notin hit[c]
    => Live(fd[c]) /\ (pc[c] = "reopen" => Exists(Child(c)))

WalkInv == dirs[Root] = 1 /\ \A c \in Callers : OnFirmGround(c)

-----------------------------------------------------------------------------
(* The step of another caller.                                             *)

(* Nobody forgets what was done to the path of a call of another.          *)
LEMMA HitGrows ==
    ASSUME CallTypeOK, NEW c \in Callers, Step(c), NEW b \in Callers \ {c}
    PROVE  hit[b] \subseteq hit'[b]
<1>1. ASSUME NEW k, NEW p, Note(c, k, p) PROVE hit[b] \subseteq hit'[b]
  BY <1>1 DEF Note, CallTypeOK
<1>2. ASSUME UNCHANGED hit PROVE hit[b] \subseteq hit'[b]
  BY <1>2
<1>3. ASSUME NEW f, NoteChange(c, f) PROVE hit[b] \subseteq hit'[b]
  BY <1>1, <1>2, <1>3 DEF NoteChange
<1>4. CASE Begin(c)
  BY <1>4 DEF Begin, CallTypeOK
<1>5. CASE OpenChild(c) \/ ReopenChild(c) \/ EnableControllers(c)
           \/ AttachPid(c) \/ OpenProcs(c) \/ Enter(c) \/ ListDir(c)
  BY <1>2, <1>5 DEF OpenChild, ReopenChild, EnableControllers, AttachPid,
                    OpenProcs, Enter, ListDir, Fail
<1>6. CASE MakeChild(c) \/ Unlink(c)
  BY <1>1, <1>2, <1>6 DEF MakeChild, Unlink, Fail
<1>7. CASE ChmodChild(c) \/ ChownLeaf(c) \/ ChmodLeaf(c)
  BY <1>2, <1>3, <1>7 DEF ChmodChild, ChownLeaf, ChmodLeaf
<1>8. CASE HandOver(c)
  BY <1>1, <1>2, <1>8 DEF HandOver, Fail
<1>9. QED  BY <1>4, <1>5, <1>6, <1>7, <1>8 DEF Step

(* A descriptor and a directory survive whatever is made.                  *)
LEMMA MkdirLive ==
    ASSUME TreeTypeOK, NEW x \in Paths, ~ Exists(x), NEW m, Mkdir(x, m)
    PROVE  \A d \in Dirs : Exists(d) => dirs'[d] = dirs[d]
BY DEF Mkdir, TreeTypeOK, Exists

LEMMA RmdirLive ==
    ASSUME TreeTypeOK, NEW x \in Paths, Rmdir(x)
    PROVE  \A d \in Dirs \ {x} : dirs'[d] = dirs[d]
BY DEF Rmdir, TreeTypeOK

(* Where the walk of c is, and what it opens next, is on its path.         *)
LEMMA OnPath ==
    ASSUME TypeInv, NEW c \in Callers, pc[c] \in Walkers
    PROVE  /\ fd[c].dir \in Dirs /\ fd[c].inc \in Nat \ {0}
           /\ Child(c) \in Paths
           /\ fd[c].dir \in Paths => Under(Call(c).path, fd[c].dir)
           /\ Under(Call(c).path, Child(c))
<1> DEFINE w == Walk[Call(c).path]
<1>1. /\ CallTypeOK /\ Call(c).path \in Paths /\ Child(c) \in Paths
      /\ level[c] \in DOMAIN w /\ Walking(c)
  BY WalkerType DEF Walkers
<1>2. fd[c].dir \in Dirs /\ fd[c].inc \in Nat \ {0}
  BY <1>1 DEF CallTypeOK
<1>3. Under(Call(c).path, Child(c))
  BY <1>1 DEF Under, Child
<1>4. ASSUME fd[c].dir \in Paths PROVE Under(Call(c).path, fd[c].dir)
  <2>1. CASE pc[c] = "chmod"
    BY <1>1, <1>3, <2>1 DEF Walking
  <2>2. CASE pc[c] # "chmod"
    <3>1. fd[c].dir = Parent[w[level[c]]]
      BY <1>1, <2>2 DEF Walking, Child
    <3>2. level[c] # 1
      BY <1>1, <1>4, <3>1, WalkFacts, PathFacts
    <3>3. /\ level[c] - 1 \in DOMAIN w
          /\ level[c] - 1 # Len(w) /\ (level[c] - 1) + 1 = level[c]
      BY <1>1, <3>2, WalkFacts
    <3>4. fd[c].dir = w[level[c] - 1]
      BY <1>1, <3>1, <3>3, WalkFacts
    <3>5. QED  BY <3>3, <3>4 DEF Under
  <2>3. QED  BY <2>1, <2>2
<1>5. QED  BY <1>1, <1>2, <1>3, <1>4

(* What the step of a caller does to the tree.                             *)
LEMMA StepTree ==
    ASSUME TypeInv, NEW c \in Callers, Step(c)
    PROVE  \/ UNCHANGED dirs
           \/ \E x \in Paths : \E m : ~ Exists(x) /\ Mkdir(x, m)
           \/ \E x \in Paths : Exists(x) /\ Rmdir(x) /\ Note(c, "removed", x)
<1>1. CASE pc[c] \notin {"make", "chmod", "mode", "unlink"}
  BY <1>1, StepModes DEF SameModes
<1>2. CASE MakeChild(c)
  BY <1>2, WalkerType, MakeDoes DEF MakeChild, At, treeVars
<1>3. CASE ChmodChild(c) \/ ChmodLeaf(c)
  BY <1>3 DEF ChmodChild, ChmodLeaf, Chmod
<1>4. CASE Unlink(c)
  <2>1. pc[c] = "unlink" /\ CallTypeOK /\ AtHand(c)
    BY <1>4, CallerType DEF Unlink, At
  <2>2. order[c][Len(order[c])] \in Paths
    BY <2>1, PopType DEF AtHand, CallTypeOK
  <2>3. QED  BY <1>4, <2>2 DEF Unlink, Fail, treeVars
<1>5. QED
  BY <1>1, <1>2, <1>3, <1>4
     DEF Step, Begin, OpenChild, ReopenChild, ChownLeaf, HandOver,
         EnableControllers, AttachPid, OpenProcs, Enter, ListDir, At

LEMMA OthersGround ==
    ASSUME TypeInv, NEW c \in Callers, Step(c), NEW b \in Callers \ {c},
           OnFirmGround(b)
    PROVE  OnFirmGround(b)'
<1>1. CallTypeOK /\ TreeTypeOK /\ OnlyFor(c) /\ hit[b] \subseteq hit'[b]
  BY StepOthers, HitGrows DEF TypeInv, TypeOK
<1>2. pc'[b] = pc[b] /\ fd'[b] = fd[b] /\ Child(b)' = Child(b)
      /\ Call(b)' = Call(b)
  BY <1>1 DEF OnlyFor, Child, Call
<1> SUFFICES ASSUME pc[b] \in Walkers, "removed" \notin hit'[b]
             PROVE  Live(fd[b])' /\ (pc[b] = "reopen" => Exists(Child(b))')
  BY <1>2 DEF OnFirmGround
<1> PICK x \in Paths : x = Child(b)
  BY OnPath
<1>3. Live(fd[b]) /\ (pc[b] = "reopen" => Exists(x))
  BY <1>1 DEF OnFirmGround
<1>4. /\ fd[b].dir \in Dirs /\ Exists(fd[b].dir) /\ x \in Dirs
      /\ fd[b].dir \in Paths => Under(Call(b).path, fd[b].dir)
      /\ Under(Call(b).path, x)
  BY <1>3, OnPath DEF Live, Exists, Dirs
<1>5. SUFFICES /\ dirs'[fd[b].dir] = dirs[fd[b].dir]
               /\ Exists(x) => dirs'[x] = dirs[x]
  BY <1>2, <1>3 DEF Live, Exists
<1>6. CASE UNCHANGED dirs
  BY <1>6
<1>7. CASE \E y \in Paths : \E m : ~ Exists(y) /\ Mkdir(y, m)
  BY <1>1, <1>4, <1>7, MkdirLive
<1>8. ASSUME NEW y \in Paths, Rmdir(y), Note(c, "removed", y)
      PROVE  /\ dirs'[fd[b].dir] = dirs[fd[b].dir]
             /\ dirs'[x] = dirs[x]
  <2>1. ~ Under(Call(b).path, y)
    BY <1>8 DEF Note, Concerns, Idle, Walkers
  <2>2. y # x /\ y # fd[b].dir
    BY <1>4, <1>8, <2>1
  <2>3. QED  BY <1>1, <1>4, <1>8, <2>2, RmdirLive
<1>9. QED  BY <1>6, <1>7, <1>8, StepTree

-----------------------------------------------------------------------------
(* The step of the walk itself.                                            *)

(* The descriptor just opened, down to the next component or not.          *)
LEMMA OpenedGround ==
    ASSUME TypeInv, NEW c \in Callers, pc[c] \in Walkers, Exists(Child(c)),
           fd' = [fd EXCEPT ![c] = OpenedChild(c)], UNCHANGED dirs,
           pc'[c] # "reopen"
    PROVE  OnFirmGround(c)'
<1>1. fd'[c] = [dir |-> Child(c), inc |-> dirs[Child(c)]]
  BY DEF TypeInv, TypeOK, CallTypeOK, OpenedChild
<1>2. QED  BY <1>1 DEF OnFirmGround, Live

LEMMA OwnGround ==
    ASSUME TypeInv, WalkInv, NEW c \in Callers, Step(c)
    PROVE  OnFirmGround(c)'
<1>0. CallTypeOK /\ TreeTypeOK /\ OnFirmGround(c)
  BY DEF TypeInv, TypeOK, WalkInv
<1>1. ASSUME pc'[c] \notin Walkers PROVE OnFirmGround(c)'
  BY <1>1 DEF OnFirmGround
<1>2. CASE Begin(c)
  <2>1. dirs' = dirs
    BY <1>2 DEF Begin, treeVars
  <2>2. CASE Call(c).kind = "apply"
    <3>1. pc'[c] = "open" /\ fd'[c] = RootFd
      BY <1>0, <1>2, <2>2 DEF Begin, Goto, CallTypeOK
    <3>2. QED  BY <2>1, <3>1 DEF OnFirmGround, RootFd, Live, WalkInv
  <2>3. CASE Call(c).kind # "apply"
    <3>1. pc'[c] \notin Walkers
      BY <1>0, <1>2, <2>3 DEF Begin, Goto, CallTypeOK, Walkers
    <3>2. QED  BY <1>1, <3>1
  <2>4. QED  BY <2>2, <2>3
<1>3. CASE OpenChild(c)
  <2>1. pc[c] = "open" /\ UNCHANGED <<dirs, hit>>
    BY <1>3 DEF OpenChild, At, treeVars
  <2>2. CASE Live(fd[c]) /\ Exists(Child(c))
    <3>1. pc'[c] # "reopen" /\ fd' = [fd EXCEPT ![c] = OpenedChild(c)]
      BY <1>0, <1>3, <2>2 DEF OpenChild, Descend, Goto, CallTypeOK
    <3>2. QED  BY <2>1, <2>2, <3>1, OpenedGround DEF Walkers
  <2>3. CASE ~ (Live(fd[c]) /\ Exists(Child(c)))
    <3>1. pc'[c] = "make" /\ fd' = fd
      BY <1>0, <1>3, <2>3 DEF OpenChild, Goto, CallTypeOK
    <3>2. QED  BY <1>0, <2>1, <3>1 DEF OnFirmGround, Walkers, Live
  <2>4. QED  BY <2>2, <2>3
<1>4. CASE MakeChild(c)
  <2> PICK x \in Paths : x = Child(c)
    BY <1>4, WalkerType DEF MakeChild, At
  <2>1. pc[c] = "make" /\ fd[c].dir \in Dirs /\ fd[c].inc \in Nat \ {0}
    BY <1>4, OnPath DEF MakeChild, At, Walkers
  <2>2. CASE ~ Live(fd[c])
    <3>1. pc'[c] = "failed"
      BY <1>0, <1>4, <2>2 DEF MakeChild, Fail, Goto, CallTypeOK
    <3>2. QED  BY <1>1, <3>1 DEF Walkers
  <2>3. CASE Live(fd[c])
    <3>1. fd' = fd /\ Child(c)' = x
      BY <1>4, <2>3 DEF MakeChild, Child, Call
    <3>2. CASE Exists(x)
      <4>1. dirs' = dirs
        BY <1>4, <2>3, <3>2 DEF MakeChild, treeVars
      <4>2. QED  BY <2>3, <3>1, <3>2, <4>1 DEF OnFirmGround, Live, Exists
    <3>3. CASE ~ Exists(x)
      <4>1. Mkdir(x, MakeMode(c))
        BY <1>4, <2>3, <3>3 DEF MakeChild
      <4>2. dirs' = [dirs EXCEPT ![x] = born] /\ born \in Nat \ {0}
            /\ fd[c].dir # x
        BY <1>0, <2>1, <2>3, <3>3, <4>1 DEF Mkdir, TreeTypeOK, Live, Exists
      <4>3. dirs'[x] # 0 /\ dirs'[fd[c].dir] = fd[c].inc
        BY <1>0, <2>1, <2>3, <4>2 DEF TreeTypeOK, Live, Dirs
      <4>4. QED  BY <3>1, <4>3 DEF OnFirmGround, Live, Exists
    <3>4. QED  BY <3>2, <3>3
  <2>4. QED  BY <2>2, <2>3
<1>5. CASE ReopenChild(c)
  <2>1. pc[c] = "reopen" /\ UNCHANGED dirs
    BY <1>5 DEF ReopenChild, At, treeVars, Fail
  <2>2. CASE Live(fd[c]) /\ Exists(Child(c))
    <3>1. pc'[c] # "reopen" /\ fd' = [fd EXCEPT ![c] = OpenedChild(c)]
      BY <1>0, <1>5, <2>2 DEF ReopenChild, Descend, Goto, CallTypeOK
    <3>2. QED  BY <2>1, <2>2, <3>1, OpenedGround DEF Walkers
  <2>3. CASE ~ (Live(fd[c]) /\ Exists(Child(c)))
    <3>1. pc'[c] = "failed"
      BY <1>0, <1>5, <2>3 DEF ReopenChild, Fail, Goto, CallTypeOK
    <3>2. QED  BY <1>1, <3>1 DEF Walkers
  <2>4. QED  BY <2>2, <2>3
<1>6. CASE ChmodChild(c)
  <2>1. pc[c] = "chmod" /\ pc'[c] # "reopen" /\ UNCHANGED <<dirs, fd>>
    BY <1>0, <1>6 DEF ChmodChild, At, Chmod, Descend, Goto, CallTypeOK
  <2>2. hit'[c] = hit[c]
    BY <1>0, <1>6 DEF ChmodChild, NoteChange, Note, CallTypeOK
  <2>3. QED  BY <1>0, <2>1, <2>2 DEF OnFirmGround, Walkers, Live
<1>7. CASE ChownLeaf(c) \/ ChmodLeaf(c)
  <2>1. pc'[c] \in {"control", "mode"}
    BY <1>0, <1>7 DEF ChownLeaf, ChmodLeaf, Goto, CallTypeOK
  <2>2. QED  BY <1>1, <2>1 DEF Walkers
<1>8. CASE HandOver(c)
  <2>1. pc[c] = "control" /\ pc'[c] \notin Walkers
    BY <1>0, <1>8 DEF HandOver, Fail, Proceed, AfterControls, Goto, CallTypeOK,
                      Walkers, At
  <2>2. QED  BY <1>1, <2>1
<1>9. CASE EnableControllers(c) \/ AttachPid(c) \/ Enter(c) \/ Unlink(c)
  <2>1. pc'[c] \notin Walkers
    BY <1>0, <1>9 DEF EnableControllers, AttachPid, Enter, Unlink, Fail,
                      Proceed, Goto, CallTypeOK, Walkers
  <2>2. QED  BY <1>1, <2>1
<1>10. CASE OpenProcs(c) \/ ListDir(c)
  <2>1. pc'[c] \notin Walkers
    BY <1>0, <1>10 DEF OpenProcs, ListDir, Fail, Goto, CallTypeOK, Walkers
  <2>2. QED  BY <1>1, <2>1
<1>11. QED
  BY <1>2, <1>3, <1>4, <1>5, <1>6, <1>7, <1>8, <1>9, <1>10 DEF Step

-----------------------------------------------------------------------------
LEMMA WalkInit == Init => WalkInv
BY CgfsAssumption DEF Init, WalkInv, OnFirmGround, Walkers, Dirs

LEMMA RootKept ==
    ASSUME TypeInv, NEW c \in Callers, Step(c)
    PROVE  dirs'[Root] = dirs[Root]
<1>1. TreeTypeOK
  BY DEF TypeInv, TypeOK
<1>2. QED  BY <1>1, StepTree, PathFacts DEF Mkdir, Rmdir, TreeTypeOK, Dirs

LEMMA WalkNext == TypeInv /\ WalkInv /\ [Next]_vars => WalkInv'
<1> SUFFICES ASSUME TypeInv, WalkInv, [Next]_vars PROVE WalkInv'
  OBVIOUS
<1>1. ASSUME UNCHANGED <<dirs, pc, fd, hit, script, ip, level>> PROVE WalkInv'
  BY <1>1 DEF WalkInv, OnFirmGround, Live, Exists, Child, Call
<1>2. CASE UNCHANGED vars
  BY <1>1, <1>2 DEF vars, treeVars
<1>3. ASSUME NEW c \in Callers, Step(c) PROVE WalkInv'
  <2>1. dirs'[Root] = 1
    BY <1>3, RootKept DEF WalkInv
  <2>2. \A b \in Callers \ {c} : OnFirmGround(b)'
    BY <1>3, OthersGround DEF WalkInv
  <2>3. QED  BY <1>3, <2>1, <2>2, OwnGround DEF WalkInv
<1>4. ASSUME NEW c \in Callers, Kill(c) PROVE WalkInv'
  BY <1>1, <1>4 DEF Kill, treeVars
<1>5. ASSUME NEW q \in Pids, ProcessExits(q) PROVE WalkInv'
  BY <1>1, <1>5 DEF ProcessExits, Exit, callVars
<1>6. QED  BY <1>2, <1>3, <1>4, <1>5 DEF Next

(* Several callers making the same directories at once all get through:    *)
(* the walk of open_dir_for_apply takes EEXIST and ENOENT for what others  *)
(* did, and fails only if something on its path was removed.               *)
THEOREM WalksGetThrough == Spec => WalkersMeet
<1>1. TypeInv /\ WalkInv /\ [Next]_vars
      => [\A c \in Callers :
            pc[c] \in {"open", "make", "reopen"} /\ Fails(c)
            => "removed" \in hit[c]]_vars
  <2> SUFFICES ASSUME TypeInv, WalkInv, Next, NEW c \in Callers,
                      pc[c] \in {"open", "make", "reopen"}, pc'[c] = "failed"
               PROVE  "removed" \in hit[c]
    BY DEF Fails
  <2>1. CallTypeOK /\ OnFirmGround(c)
    BY DEF TypeInv, TypeOK, WalkInv
  <2>2. Step(c)
    <3>1. ASSUME NEW b \in Callers \ {c}, Step(b) PROVE FALSE
      BY <2>1, <3>1, StepOthers DEF OnlyFor
    <3>2. ASSUME UNCHANGED pc PROVE FALSE
      BY <3>2
    <3>3. QED  BY <3>1, <3>2 DEF Next, Kill, ProcessExits, callVars
  <2>3. CASE OpenChild(c)
    BY <2>1, <2>3 DEF OpenChild, Descend, Goto, CallTypeOK
  <2>4. CASE MakeChild(c)
    BY <2>1, <2>4 DEF MakeChild, Goto, CallTypeOK, OnFirmGround, Walkers
  <2>5. CASE ReopenChild(c)
    <3>1. ~ (Live(fd[c]) /\ Exists(Child(c))) /\ pc[c] = "reopen"
      BY <2>1, <2>5 DEF ReopenChild, Descend, Goto, CallTypeOK, At
    <3>2. QED  BY <2>1, <3>1 DEF OnFirmGround, Walkers
  <2>6. QED
    BY <2>2, <2>3, <2>4, <2>5
       DEF Step, Begin, ChmodChild, ChownLeaf, ChmodLeaf, HandOver,
           EnableControllers, AttachPid, OpenProcs, Enter, ListDir, Unlink, At
<1>2. QED
  BY <1>1, TypeInit, TypeNext, WalkInit, WalkNext, PTL DEF Spec, WalkersMeet

-----------------------------------------------------------------------------
(* What apply has delivered so far.                                        *)

OwnerGiven(call) == call.uid # Keep => attr[call.path].uid = call.uid

ModeGiven(call) == call.dperm # NoMode => attr[call.path].mode = call.dperm

FileGiven(call, f) ==
    FileOwner(call, f) # Keep => attr[call.path].files[f] = FileOwner(call, f)

(* From its leaf on, an apply on whose path nothing was removed works on   *)
(* the leaf that is there, and what it has given the leaf the leaf has,    *)
(* until somebody else changes it.                                         *)
LeafThere(c) ==
    /\ pc[c] \in {"own", "mode"} => Live(fd[c])
    /\ pc[c] \in {"control", "enable", "attach"} => Exists(Call(c).path)
    /\ pc[c] = "attach" /\ Call(c).controllers => Call(c).path \in subtree

LeafGiven(c) ==
    /\ pc[c] \in {"mode", "control", "enable", "attach"} => OwnerGiven(Call(c))
    /\ pc[c] \in {"control", "enable", "attach"} => ModeGiven(Call(c))
    /\ pc[c] = "control"
         => \A i \in 1..(file[c] - 1) : FileGiven(Call(c), ControlOrder[i])
    /\ pc[c] \in {"enable", "attach"}
         => \A f \in ControlFiles : FileGiven(Call(c), f)

LeafHeld(c) ==
    /\ pc[c] \notin {"control", "failed"} => file[c] = 1
    /\ pc[c] # "done" /\ Call(c).kind = "apply" /\ "removed" \notin hit[c]
         => LeafThere(c) /\ ("changed" \notin hit[c] => LeafGiven(c))

LeafInv == \A c \in Callers : LeafHeld(c)

LEMMA UnlinkNotes ==
    ASSUME TypeInv, NEW c \in Callers, Unlink(c)
    PROVE  \/ UNCHANGED treeVars
           \/ \E x \in Paths : Exists(x) /\ Rmdir(x) /\ Note(c, "removed", x)
<1>1. pc[c] = "unlink" /\ CallTypeOK /\ AtHand(c)
  BY CallerType DEF Unlink, At
<1>2. order[c][Len(order[c])] \in Paths
  BY <1>1, PopType DEF AtHand, CallTypeOK
<1>3. QED  BY <1>2 DEF Unlink, Fail

(* A step changes at most one directory's attributes, and says so to those *)
(* who rely on them, unless the directory is new.                          *)
LEMMA StepAttr ==
    ASSUME TypeInv, NEW c \in Callers, Step(c)
    PROVE  \/ UNCHANGED attr
           \/ \E x \in Paths :
                 /\ \A p \in Paths \ {x} : attr'[p] = attr[p]
                 /\ ~ Exists(x) \/ Note(c, "changed", x) \/ Note(c, "removed", x)
<1>0. TreeTypeOK
  BY DEF TypeInv, TypeOK
<1>1. ASSUME UNCHANGED treeVars PROVE UNCHANGED attr
  BY <1>1 DEF treeVars
<1>2. CASE Begin(c) \/ OpenChild(c) \/ ReopenChild(c) \/ EnableControllers(c)
           \/ AttachPid(c) \/ OpenProcs(c) \/ Enter(c) \/ ListDir(c)
  BY <1>1, <1>2 DEF Begin, OpenChild, ReopenChild, EnableControllers, AttachPid,
                    OpenProcs, Enter, ListDir, Fail, Enable, Attach
<1>3. CASE MakeChild(c)
  <2>1. Child(c) \in Paths
    BY <1>3, WalkerType DEF MakeChild, At
  <2>2. QED  BY <1>0, <1>1, <1>3, <2>1, MakeDoes DEF Mkdir, TreeTypeOK
<1>4. ASSUME fd[c].dir \in Paths, NoteChange(c, fd[c]), NEW v,
             Chown(fd[c], v) \/ Chmod(fd[c], v)
      PROVE  \/ UNCHANGED attr
             \/ \E x \in Paths : /\ \A p \in Paths \ {x} : attr'[p] = attr[p]
                                 /\ Note(c, "changed", x)
  BY <1>0, <1>4 DEF NoteChange, Chown, Chmod, TreeTypeOK
<1>5. CASE ChmodChild(c)
  <2>1. Walking(c) /\ Child(c) \in Paths /\ pc[c] = "chmod"
    BY <1>5, WalkerType DEF ChmodChild, At
  <2>2. fd[c].dir \in Paths
    BY <2>1 DEF Walking
  <2>3. QED  BY <1>4, <1>5, <2>2 DEF ChmodChild
<1>6. CASE ChownLeaf(c) \/ ChmodLeaf(c)
  <2>1. pc[c] \in {"own", "mode"} /\ AtHand(c) /\ Call(c).path \in Paths
    BY <1>6, CallerType DEF ChownLeaf, ChmodLeaf, At
  <2>2. fd[c].dir \in Paths
    BY <2>1 DEF AtHand
  <2>3. QED  BY <1>1, <1>4, <1>6, <2>2 DEF ChownLeaf, ChmodLeaf
<1>7. CASE HandOver(c)
  <2>1. Call(c).path \in Paths
    BY <1>7, CallerType DEF HandOver, At
  <2>2. QED
    BY <1>0, <1>1, <1>7, <2>1 DEF HandOver, Fail, ChownControl, TreeTypeOK
<1>8. CASE Unlink(c)
  BY <1>0, <1>1, <1>8, UnlinkNotes DEF Rmdir, TreeTypeOK
<1>9. QED  BY <1>2, <1>3, <1>5, <1>6, <1>7, <1>8 DEF Step

(* What others do leaves the leaf of b alone or is on record with b.       *)
LEMMA LeafStands ==
    ASSUME TypeInv, NEW c \in Callers, Step(c), NEW b \in Callers \ {c},
           pc[b] \notin Idle, "removed" \notin hit'[b], Exists(Call(b).path)
    PROVE  /\ dirs'[Call(b).path] = dirs[Call(b).path]
           /\ Call(b).path \in subtree => Call(b).path \in subtree'
           /\ "changed" \notin hit'[b]
                => attr'[Call(b).path] = attr[Call(b).path]
<1> DEFINE p == Call(b).path
<1>1. CallTypeOK /\ TreeTypeOK /\ p \in Paths
  BY CallerType DEF Idle
<1>2. ASSUME NEW k, NEW x, Note(c, k, x), Concerns(k, x, p) PROVE k \in hit'[b]
  BY <1>2 DEF Note
<1>3. Under(p, p)
  BY <1>1, UnderSelf
<1>4. ASSUME NEW x \in Paths, Note(c, "removed", x) PROVE x # p
  BY <1>2, <1>3, <1>4 DEF Concerns
<1>5. dirs'[p] = dirs[p]
  <2>1. ASSUME NEW x \in Paths, Rmdir(x), Note(c, "removed", x)
        PROVE  dirs'[p] = dirs[p]
    BY <1>1, <1>4, <2>1, RmdirLive DEF Dirs
  <2>2. QED  BY <1>1, <2>1, StepTree, MkdirLive DEF Dirs
<1>6. ASSUME p \in subtree PROVE p \in subtree'
  <2>1. CASE Unlink(c)
    <3>1. UNCHANGED treeVars \/ \E x \in Paths : Exists(x) /\ Rmdir(x)
                                   /\ Note(c, "removed", x)
      BY <2>1, UnlinkNotes
    <3>2. QED  BY <1>4, <1>6, <3>1 DEF treeVars, Rmdir
  <2>2. CASE ~ Unlink(c)
    BY <1>6, <2>2
       DEF Step, Begin, OpenChild, MakeChild, ReopenChild, ChmodChild, ChownLeaf,
           ChmodLeaf, HandOver, EnableControllers, AttachPid, OpenProcs, Enter,
           ListDir, Fail, Mkdir, Chown, Chmod, ChownControl, Enable, Attach,
           treeVars
  <2>3. QED  BY <2>1, <2>2
<1>7. ASSUME "changed" \notin hit'[b] PROVE attr'[p] = attr[p]
  <2>1. ASSUME NEW x \in Paths, Note(c, "changed", x) PROVE x # p
    BY <1>2, <1>7, <2>1 DEF Concerns
  <2>2. QED  BY <1>1, <1>4, <2>1, StepAttr
<1>8. QED  BY <1>5, <1>6, <1>7

LEMMA FileKept ==
    ASSUME CallTypeOK, NEW c \in Callers, Step(c), NEW b \in Callers \ {c}
    PROVE  file'[b] = file[b]
BY DEF Step, Begin, OpenChild, MakeChild, ReopenChild, ChmodChild, ChownLeaf,
       ChmodLeaf, HandOver, EnableControllers, AttachPid, OpenProcs, Enter,
       ListDir, Unlink, Fail, CallTypeOK

LEMMA LeafOthers ==
    ASSUME TypeInv, NEW c \in Callers, Step(c), NEW b \in Callers \ {c},
           LeafHeld(b)
    PROVE  LeafHeld(b)'
<1> DEFINE call == Call(b)
<1>1. CallTypeOK /\ TreeTypeOK /\ OnlyFor(c) /\ hit[b] \subseteq hit'[b]
      /\ file'[b] = file[b]
  BY StepOthers, HitGrows, FileKept DEF TypeInv, TypeOK
<1>2. pc'[b] = pc[b] /\ fd'[b] = fd[b] /\ Call(b)' = call
  BY <1>1 DEF OnlyFor, Call
<1> SUFFICES ASSUME pc[b] # "done", call.kind = "apply", "removed" \notin hit'[b],
                    pc[b] \in {"own", "mode", "control", "enable", "attach"}
             PROVE  LeafThere(b)' /\ ("changed" \notin hit'[b] => LeafGiven(b)')
  BY <1>1, <1>2 DEF LeafHeld, LeafThere, LeafGiven
<1>3. /\ LeafThere(b) /\ ("changed" \notin hit[b] => LeafGiven(b))
      /\ AtHand(b) /\ pc[b] \notin Idle
  BY <1>1 DEF LeafHeld, TypeInv, Idle
<1>4. Exists(call.path)
  BY <1>1, <1>3 DEF LeafThere, Live, AtHand, Exists, CallTypeOK
<1>5. /\ dirs'[call.path] = dirs[call.path]
      /\ call.path \in subtree => call.path \in subtree'
      /\ "changed" \notin hit'[b] => attr'[call.path] = attr[call.path]
  BY <1>3, <1>4, LeafStands
<1>6. LeafThere(b)'
  BY <1>2, <1>3, <1>5 DEF LeafThere, Live, Exists, AtHand
<1>7. ASSUME "changed" \notin hit'[b] PROVE LeafGiven(b)'
  <2>1. LeafGiven(b) /\ attr'[call.path] = attr[call.path]
    BY <1>1, <1>3, <1>5, <1>7
  <2>2. /\ OwnerGiven(call) => OwnerGiven(Call(b))'
        /\ ModeGiven(call) => ModeGiven(Call(b))'
        /\ \A f : FileGiven(call, f) => FileGiven(Call(b), f)'
    BY <1>2, <2>1 DEF OwnerGiven, ModeGiven, FileGiven
  <2>3. QED  BY <1>1, <1>2, <2>1, <2>2 DEF LeafGiven
<1>8. QED  BY <1>6, <1>7

(* One control file handed over, the others and the leaf as before.        *)
LEMMA HandOverDoes ==
    ASSUME TypeInv, NEW c \in Callers, HandOver(c), ~ Fail(c)
    PROVE  LET call == Call(c)
               p    == call.path
               f    == ControlOrder[file[c]]
           IN  /\ pc[c] = "control" /\ call.kind = "apply" /\ p \in Paths
               /\ file[c] \in 1..3 /\ f \in ControlFiles
               /\ Exists(p) /\ script' = script /\ fd' = fd
               /\ \/ /\ file[c] < 3 /\ file' = [file EXCEPT ![c] = file[c] + 1]
                     /\ pc' = pc /\ ip' = ip
                  \/ /\ file[c] = 3 /\ file' = [file EXCEPT ![c] = 1]
                     /\ Proceed(c, AfterControls(call))
               /\ hit'[c] = hit[c] /\ dirs' = dirs /\ subtree' = subtree
               /\ attr'[p].uid = attr[p].uid /\ attr'[p].mode = attr[p].mode
               /\ \A g \in ControlFiles \ {f} :
                     attr'[p].files[g] = attr[p].files[g]
               /\ FileOwner(call, f) # Keep
                    => attr'[p].files[f] = FileOwner(call, f)
<1> DEFINE call == Call(c)
           p    == call.path
           f    == ControlOrder[file[c]]
<1>1. /\ pc[c] = "control" /\ call.kind = "apply" /\ p \in Paths
      /\ CallTypeOK /\ TreeTypeOK
      /\ call.uid \in Owners \cup {Keep} /\ call.task_uid \in Owners \cup {Keep}
  BY CallerType DEF HandOver, At, AtHand
<1>2. file[c] \in 1..3 /\ f \in ControlFiles
  BY <1>1 DEF CallTypeOK, ControlOrder, ControlFiles
<1>3. /\ Exists(p) /\ script' = script /\ fd' = fd
      /\ \/ /\ file[c] < 3 /\ file' = [file EXCEPT ![c] = file[c] + 1]
            /\ pc' = pc /\ ip' = ip
         \/ /\ file[c] = 3 /\ file' = [file EXCEPT ![c] = 1]
            /\ Proceed(c, AfterControls(call))
  BY <1>2 DEF HandOver, ControlOrder
<1>4. \/ FileOwner(call, f) = Keep /\ UNCHANGED <<treeVars, hit>>
      \/ /\ FileOwner(call, f) # Keep
         /\ ChownControl(p, f, FileOwner(call, f)) /\ Note(c, "changed", p)
  BY <1>3 DEF HandOver
<1>5. hit'[c] = hit[c] /\ dirs' = dirs /\ subtree' = subtree
  BY <1>4 DEF Note, ChownControl, treeVars
<1>6. /\ attr'[p].uid = attr[p].uid /\ attr'[p].mode = attr[p].mode
      /\ \A g \in ControlFiles \ {f} : attr'[p].files[g] = attr[p].files[g]
      /\ FileOwner(call, f) # Keep => attr'[p].files[f] = FileOwner(call, f)
  <2>1. attr[p] \in Attributes
    BY <1>1 DEF TreeTypeOK
  <2>2. QED
    BY <1>1, <1>2, <1>4, <2>1 DEF ChownControl, treeVars, TreeTypeOK, Attributes
<1>7. QED  BY <1>1, <1>2, <1>3, <1>5, <1>6

(* After the last one the leaf has all the owners it was to get.           *)
LEMMA HandOverEnds ==
    ASSUME TypeInv, NEW c \in Callers, HandOver(c), ~ Fail(c), LeafHeld(c),
           hit[c] \cap {"changed", "removed"} = {}, file[c] = 3,
           NEW call, call = Call(c)
    PROVE  OwnerGiven(call)' /\ ModeGiven(call)'
           /\ \A f \in ControlFiles : FileGiven(call, f)'
<1>1. LeafGiven(c) /\ pc[c] = "control"
  BY HandOverDoes DEF LeafHeld
<1>2. OwnerGiven(call)' /\ ModeGiven(call)'
  BY <1>1, HandOverDoes DEF LeafGiven, OwnerGiven, ModeGiven
<1>3. ASSUME NEW g \in ControlFiles PROVE FileGiven(call, g)'
  <2>1. CASE g = ControlOrder[3]
    BY <2>1, HandOverDoes DEF FileGiven, FileOwner
  <2>2. CASE g # ControlOrder[3]
    <3>1. PICK i \in 1..2 : g = ControlOrder[i]
      BY <2>2 DEF ControlOrder, ControlFiles
    <3>2. FileGiven(call, g)
      BY <1>1, <3>1 DEF LeafGiven
    <3>3. QED  BY <2>2, <3>2, HandOverDoes DEF FileGiven, FileOwner
  <2>3. QED  BY <2>1, <2>2
<1>4. QED  BY <1>2, <1>3

LEMMA HandOverLeaf ==
    ASSUME TypeInv, NEW c \in Callers, HandOver(c), ~ Fail(c), LeafHeld(c)
    PROVE  LeafHeld(c)'
<1> DEFINE call == Call(c)
           p    == call.path
           f    == ControlOrder[file[c]]
<1>1. /\ pc[c] = "control" /\ call.kind = "apply" /\ CallTypeOK
      /\ file[c] \in 1..3 /\ f \in ControlFiles
      /\ Exists(p) /\ script' = script
      /\ hit'[c] = hit[c] /\ dirs' = dirs /\ subtree' = subtree
  BY HandOverDoes DEF TypeInv, TypeOK
<1>2. /\ attr'[p].uid = attr[p].uid /\ attr'[p].mode = attr[p].mode
      /\ \A g \in ControlFiles \ {f} : attr'[p].files[g] = attr[p].files[g]
      /\ FileOwner(call, f) # Keep => attr'[p].files[f] = FileOwner(call, f)
  BY HandOverDoes
<1>3. CASE file[c] < 3
  <2>1. Call(c)' = call /\ pc'[c] = "control" /\ file'[c] = file[c] + 1
    BY <1>1, <1>3, HandOverDoes, SMTT(20) DEF Call, CallTypeOK
  <2>2. ASSUME "removed" \notin hit[c] PROVE LeafThere(c)'
    BY <1>1, <2>1 DEF LeafThere, Exists
  <2>3. ASSUME "removed" \notin hit[c], "changed" \notin hit[c]
        PROVE LeafGiven(c)'
    <3>1. LeafGiven(c)
      BY <1>1, <2>3 DEF LeafHeld
    <3>2. OwnerGiven(Call(c))' /\ ModeGiven(Call(c))'
      BY <1>1, <1>2, <2>1, <3>1 DEF LeafGiven, OwnerGiven, ModeGiven
    <3>3. ASSUME NEW i \in 1..(file'[c] - 1)
          PROVE  FileGiven(Call(c), ControlOrder[i])'
      <4>1. CASE i = file[c]
        BY <1>2, <2>1, <4>1 DEF FileGiven, FileOwner
      <4>2. CASE i # file[c]
        <5>1. i \in 1..(file[c] - 1)
          BY <1>1, <2>1, <4>2
        <5>2. ControlOrder[i] # f /\ ControlOrder[i] \in ControlFiles
          BY <1>1, <5>1 DEF ControlOrder, ControlFiles
        <5>3. FileGiven(call, ControlOrder[i])
          BY <1>1, <3>1, <5>1 DEF LeafGiven
        <5>4. QED  BY <1>2, <2>1, <5>2, <5>3 DEF FileGiven, FileOwner
      <4>3. QED  BY <4>1, <4>2
    <3>4. QED  BY <2>1, <3>2, <3>3 DEF LeafGiven
  <2>4. QED  BY <1>1, <2>1, <2>2, <2>3 DEF LeafHeld
<1>4. CASE file[c] = 3
  <2>1. file'[c] = 1 /\ Proceed(c, AfterControls(call))
    BY <1>1, <1>4, HandOverDoes DEF CallTypeOK
  <2>2. CASE AfterControls(call) = "return"
    <3>1. pc'[c] \in {"start", "done"}
      BY <1>1, <2>1, <2>2 DEF Proceed, Goto, CallTypeOK
    <3>2. QED  BY <2>1, <3>1 DEF LeafHeld, LeafThere, LeafGiven
  <2>3. CASE AfterControls(call) # "return"
    <3>1. /\ pc'[c] = AfterControls(call) /\ Call(c)' = call
          /\ pc'[c] \in {"enable", "attach"}
          /\ call.controllers => pc'[c] = "enable"
      BY <1>1, <2>1, <2>3 DEF Proceed, Goto, CallTypeOK, Call, AfterControls
    <3>2. LeafThere(c)'
      BY <1>1, <3>1 DEF LeafThere, Exists
    <3>3. ASSUME hit[c] \cap {"changed", "removed"} = {} PROVE LeafGiven(c)'
      <4>1. /\ OwnerGiven(call)' /\ ModeGiven(call)'
            /\ \A g \in ControlFiles : FileGiven(call, g)'
        BY <1>4, <3>1, <3>3, HandOverEnds
           DEF OwnerGiven, ModeGiven, FileGiven, FileOwner
      <4>2. QED  BY <3>1, <4>1 DEF LeafGiven
    <3>4. QED  BY <1>1, <2>1, <3>1, <3>2, <3>3 DEF LeafHeld
  <2>4. QED  BY <2>2, <2>3
<1>5. QED  BY <1>1, <1>3, <1>4

LEMMA OwnHit ==
    ASSUME CallTypeOK, NEW c \in Callers, Step(c), ~ Begin(c)
    PROVE  hit'[c] = hit[c]
<1>1. ASSUME NEW k, NEW x, Note(c, k, x) PROVE hit'[c] = hit[c]
  BY <1>1 DEF Note
<1>2. ASSUME NEW f, NoteChange(c, f) PROVE hit'[c] = hit[c]
  BY <1>1, <1>2 DEF NoteChange
<1>3. QED
  BY <1>1, <1>2
     DEF Step, OpenChild, MakeChild, ReopenChild, ChmodChild, ChownLeaf,
         ChmodLeaf, HandOver, EnableControllers, AttachPid, OpenProcs, Enter,
         ListDir, Unlink, Fail

LEMMA LeafOwn ==
    ASSUME TypeInv, NEW c \in Callers, Step(c), LeafHeld(c)
    PROVE  LeafHeld(c)'
<1> DEFINE call == Call(c)
           p    == call.path
           Late == {"own", "mode", "control", "enable", "attach"}
<1>0. CallTypeOK /\ TreeTypeOK /\ AtHand(c)
  BY DEF TypeInv, TypeOK
<1>1. ASSUME pc'[c] \notin Late, pc[c] \notin {"control", "failed"},
             file'[c] = file[c]
      PROVE  LeafHeld(c)'
  BY <1>1 DEF LeafHeld, LeafThere, LeafGiven
<1>2. ASSUME Fail(c) PROVE LeafHeld(c)'
  BY <1>0, <1>2 DEF Fail, Goto, LeafHeld, LeafThere, LeafGiven, CallTypeOK
<1>3. CASE Begin(c)
  <2>1. file' = file /\ pc[c] = "start" /\ Call(c)' = call
    BY <1>3 DEF Begin, At, Call
  <2>2. pc'[c] \in Late => call.kind # "apply"
    BY <1>0, <1>3 DEF Begin, Goto, CallTypeOK
  <2>3. QED  BY <1>1, <2>1, <2>2 DEF LeafHeld
<1>4. CASE OpenChild(c) \/ ReopenChild(c)
  <2>1. CASE pc'[c] = "own"
    <3>1. /\ fd' = [fd EXCEPT ![c] = OpenedChild(c)]
          /\ UNCHANGED <<treeVars, file>> /\ pc[c] \in {"open", "reopen"}
      BY <1>0, <1>4, <2>1 DEF OpenChild, ReopenChild, Fail, Goto, CallTypeOK, At
    <3>2. Live(fd[c])'
      BY <1>0, <3>1 DEF OpenedChild, Live, treeVars, CallTypeOK
    <3>3. QED  BY <2>1, <3>1, <3>2 DEF LeafHeld, LeafThere, LeafGiven
  <2>2. CASE pc'[c] # "own"
    <3>1. CASE ~ Fail(c)
      <4>1. /\ pc'[c] \in {"make", "chmod", "open"} /\ file' = file
            /\ pc[c] \in {"open", "reopen"}
        BY <1>0, <1>4, <2>2, <3>1
           DEF OpenChild, ReopenChild, Goto, Descend, CallTypeOK, At
      <4>2. QED  BY <1>1, <4>1
    <3>2. QED  BY <1>2, <3>1
  <2>3. QED  BY <2>1, <2>2
<1>5. CASE MakeChild(c)
  <2>1. Fail(c) \/ (pc'[c] = "reopen" /\ file' = file /\ pc[c] = "make")
    BY <1>0, <1>5 DEF MakeChild, Goto, CallTypeOK, At
  <2>2. QED  BY <1>1, <1>2, <2>1
<1>6. CASE ChmodChild(c)
  <2>1. pc[c] = "chmod" /\ ~ AtLeaf(c)
    BY <1>0, <1>6 DEF ChmodChild, At, AtHand, Walking
  <2>2. pc'[c] = "open" /\ file' = file
    BY <1>0, <1>6, <2>1 DEF ChmodChild, Descend, Goto, CallTypeOK
  <2>3. QED  BY <1>1, <2>1, <2>2
<1>7. CASE ChownLeaf(c)
  <2>1. /\ pc[c] = "own" /\ fd[c].dir = p /\ p \in Paths /\ file[c] = 1
        /\ call.uid \in Owners \cup {Keep}
    BY <1>7, CallerType DEF ChownLeaf, At, AtHand, LeafHeld
  <2>2. /\ pc'[c] = IF call.dperm = NoMode THEN "control" ELSE "mode"
        /\ file' = file /\ fd' = fd /\ Call(c)' = call /\ hit'[c] = hit[c]
    BY <1>0, <1>7, OwnHit DEF ChownLeaf, Goto, CallTypeOK, Call, Begin, At
  <2>3. CASE "removed" \notin hit[c] /\ call.kind = "apply"
    <3>1. Live(fd[c])
      BY <2>1, <2>3 DEF LeafHeld, LeafThere
    <3>2. dirs' = dirs /\ OwnerGiven(Call(c))'
      BY <1>0, <1>7, <2>1, <2>2, <3>1
         DEF ChownLeaf, Chown, OwnerGiven, TreeTypeOK, treeVars, Attributes
    <3>3. Live(fd[c])' /\ Exists(p)'
      BY <1>0, <2>1, <2>2, <3>1, <3>2 DEF Live, Exists, CallTypeOK
    <3>4. QED  BY <2>1, <2>2, <3>2, <3>3 DEF LeafHeld, LeafThere, LeafGiven,
                                            ModeGiven
  <2>4. QED  BY <2>1, <2>2, <2>3 DEF LeafHeld
<1>8. CASE ChmodLeaf(c)
  <2>1. /\ pc[c] = "mode" /\ fd[c].dir = p /\ p \in Paths /\ file[c] = 1
    BY <1>8, CallerType DEF ChmodLeaf, At, AtHand, LeafHeld
  <2>2. /\ pc'[c] = "control"
        /\ file' = file /\ fd' = fd /\ Call(c)' = call /\ hit'[c] = hit[c]
    BY <1>0, <1>8, OwnHit DEF ChmodLeaf, Goto, CallTypeOK, Call, Begin, At
  <2>3. CASE "removed" \notin hit[c] /\ call.kind = "apply"
    <3>1. Live(fd[c]) /\ ("changed" \notin hit[c] => OwnerGiven(call))
      BY <2>1, <2>3 DEF LeafHeld, LeafThere, LeafGiven
    <3>2. /\ dirs' = dirs /\ ModeGiven(Call(c))'
          /\ OwnerGiven(call) => OwnerGiven(Call(c))'
      BY <1>0, <1>8, <2>1, <2>2, <3>1
         DEF ChmodLeaf, Chmod, OwnerGiven, ModeGiven, TreeTypeOK, Attributes
    <3>3. Exists(p)'
      BY <1>0, <2>1, <2>2, <3>1, <3>2 DEF Live, Exists, CallTypeOK
    <3>4. QED  BY <2>1, <2>2, <3>1, <3>2, <3>3
                  DEF LeafHeld, LeafThere, LeafGiven
  <2>4. QED  BY <2>1, <2>2, <2>3 DEF LeafHeld
<1>9. CASE HandOver(c)
  BY <1>2, <1>9, HandOverLeaf
<1>10. CASE EnableControllers(c)
  <2>1. pc[c] = "enable" /\ file[c] = 1 /\ p \in Paths
    BY <1>10, CallerType DEF EnableControllers, At, LeafHeld
  <2>2. CASE ~ Fail(c)
    <3>1. /\ Enable(p) /\ file' = file /\ fd' = fd /\ hit' = hit
          /\ script' = script
          /\ Proceed(c, IF call.pid # NoPid THEN "attach" ELSE "return")
      BY <1>10, <2>2 DEF EnableControllers
    <3>2. CASE call.pid # NoPid
      <4>1. pc'[c] = "attach" /\ Call(c)' = call
        BY <1>0, <3>1, <3>2 DEF Proceed, Goto, CallTypeOK, Call
      <4>2. /\ dirs' = dirs /\ attr' = attr /\ p \in subtree'
        BY <3>1 DEF Enable
      <4>3. QED
        BY <2>1, <3>1, <4>1, <4>2
           DEF LeafHeld, LeafThere, LeafGiven, OwnerGiven, ModeGiven,
               FileGiven, Exists
    <3>3. CASE call.pid = NoPid
      <4>1. pc'[c] \in {"start", "done"}
        BY <1>0, <3>1, <3>3 DEF Proceed, Goto, CallTypeOK
      <4>2. QED  BY <1>1, <2>1, <3>1, <4>1
    <3>4. QED  BY <3>2, <3>3
  <2>3. QED  BY <1>2, <2>2
<1>11. CASE AttachPid(c) \/ Enter(c)
  <2>1. \/ Fail(c)
        \/ Proceed(c, "return") /\ file' = file /\ pc[c] \in {"attach", "enter"}
    BY <1>11 DEF AttachPid, Enter, At
  <2>2. Fail(c) \/ (pc'[c] \in {"start", "done"} /\ file'[c] = file[c]
                    /\ pc[c] \in {"attach", "enter"})
    BY <1>0, <2>1 DEF Proceed, Goto, CallTypeOK
  <2>3. QED  BY <1>1, <1>2, <2>2
<1>12. CASE OpenProcs(c) \/ ListDir(c)
  <2>1. \/ Fail(c)
        \/ /\ pc'[c] \in {"enter", "list", "unlink"} /\ file' = file
           /\ pc[c] \in {"procs", "list"}
    BY <1>0, <1>12 DEF OpenProcs, ListDir, Goto, CallTypeOK, At
  <2>2. QED  BY <1>1, <1>2, <2>1
<1>13. CASE Unlink(c)
  <2>1. \/ Fail(c)
        \/ /\ pc'[c] \in {"unlink", "start", "done"} /\ file' = file
           /\ pc[c] = "unlink"
    BY <1>0, <1>13 DEF Unlink, Proceed, Goto, CallTypeOK, At
  <2>2. QED  BY <1>1, <1>2, <2>1
<1>14. QED
  BY <1>3, <1>4, <1>5, <1>6, <1>7, <1>8, <1>9, <1>10, <1>11, <1>12, <1>13
     DEF Step

LEMMA LeafInit == Init => LeafInv
BY DEF Init, LeafInv, LeafHeld, LeafThere, LeafGiven

LEMMA LeafNext == TypeInv /\ LeafInv /\ [Next]_vars => LeafInv'
<1> SUFFICES ASSUME TypeInv, LeafInv, [Next]_vars PROVE LeafInv'
  OBVIOUS
<1>1. ASSUME UNCHANGED <<dirs, attr, subtree, script, ip, pc, fd, file, hit>>
      PROVE  LeafInv'
  BY <1>1 DEF LeafInv, LeafHeld, LeafThere, LeafGiven, OwnerGiven, ModeGiven,
              FileGiven, Live, Exists, Call
<1>2. CASE UNCHANGED vars
  BY <1>1, <1>2 DEF vars, treeVars
<1>3. ASSUME NEW c \in Callers, Step(c) PROVE LeafInv'
  <2>1. \A b \in Callers \ {c} : LeafHeld(b)'
    BY <1>3, LeafOthers DEF LeafInv
  <2>2. QED  BY <1>3, <2>1, LeafOwn DEF LeafInv
<1>4. ASSUME NEW c \in Callers, Kill(c) PROVE LeafInv'
  BY <1>1, <1>4 DEF Kill, treeVars
<1>5. ASSUME NEW q \in Pids, ProcessExits(q) PROVE LeafInv'
  BY <1>1, <1>5 DEF ProcessExits, Exit, callVars
<1>6. QED  BY <1>2, <1>3, <1>4, <1>5 DEF Next

(* The last step of a call that returns.                                   *)
LEMMA ReturnSteps ==
    ASSUME TypeInv, NEW c \in Callers, Step(c), Returns(c)
    PROVE  /\ ~ Fail(c)
           /\ \/ HandOver(c) /\ file[c] = 3 /\ AfterControls(Call(c)) = "return"
              \/ EnableControllers(c) /\ Call(c).pid = NoPid
              \/ AttachPid(c) \/ Enter(c) \/ Unlink(c)
<1>1. CallTypeOK /\ ip[c] \in Nat /\ ip'[c] # ip[c]
  BY DEF TypeInv, TypeOK, CallTypeOK, Returns
<1>2. ~ Fail(c)
  BY <1>1 DEF Fail
<1>3. CASE HandOver(c)
  <2>1. file[c] = 3 /\ Proceed(c, AfterControls(Call(c)))
    BY <1>1, <1>2, <1>3, HandOverDoes
  <2>2. QED  BY <1>1, <1>2, <1>3, <2>1 DEF Proceed
<1>4. CASE EnableControllers(c)
  BY <1>1, <1>2, <1>4 DEF EnableControllers, Proceed
<1>5. QED
  BY <1>1, <1>2, <1>3, <1>4
     DEF Step, Begin, OpenChild, MakeChild, ReopenChild, ChmodChild, ChownLeaf,
         ChmodLeaf, OpenProcs, ListDir

LEMMA ReturnDelivers ==
    ASSUME TypeInv, LeafInv, NEW c \in Callers, Step(c), Returns(c),
           NEW call, call = Call(c), call.kind \in {"apply", "attach", "exec"},
           call.kind = "apply" => hit[c] \cap {"changed", "removed"} = {}
    PROVE  Delivered(call)'
<1> DEFINE p == call.path
<1>1. /\ CallTypeOK /\ TreeTypeOK /\ AtHand(c) /\ LeafHeld(c) /\ ~ Fail(c)
  BY ReturnSteps DEF TypeInv, TypeOK, LeafInv
<1>2. CASE HandOver(c) /\ file[c] = 3 /\ AfterControls(Call(c)) = "return"
  <2>1. call.kind = "apply" /\ Exists(p)'
    BY <1>1, <1>2, HandOverDoes DEF Exists
  <2>2. /\ OwnerGiven(call)' /\ ModeGiven(call)'
        /\ \A f \in ControlFiles : FileGiven(call, f)'
    BY <1>1, <1>2, <2>1, HandOverEnds
  <2>3. call.pid = NoPid /\ ~ call.controllers
    BY <1>2 DEF AfterControls
  <2>4. QED
    BY <2>1, <2>2, <2>3 DEF Delivered, OwnerGiven, ModeGiven, FileGiven
<1>3. CASE EnableControllers(c) /\ Call(c).pid = NoPid
  <2>1. /\ pc[c] = "enable" /\ CanEnable(p) /\ Enable(p)
    BY <1>1, <1>3 DEF EnableControllers, At
  <2>2. call.kind = "apply" /\ LeafGiven(c)
    BY <1>1, <2>1 DEF AtHand, LeafHeld
  <2>3. /\ OwnerGiven(call) /\ ModeGiven(call)
        /\ \A f \in ControlFiles : FileGiven(call, f)
    BY <2>1, <2>2 DEF LeafGiven
  <2>4. QED
    BY <1>3, <2>1, <2>3
       DEF Delivered, Enable, CanEnable, Exists, OwnerGiven, ModeGiven, FileGiven
<1>4. CASE AttachPid(c)
  <2>1. pc[c] = "attach" /\ CanAttach(call.pid, p) /\ Attach(call.pid, p)
    BY <1>1, <1>4 DEF AttachPid, At
  <2>2. call.pid # NoPid /\ call.pid \in Pids
    BY <1>1, <2>1, CallerType DEF AtHand
  <2>3. Exists(p)' /\ cg'[call.pid] = p
    BY <1>1, <2>1, <2>2 DEF CanAttach, Attach, Exists, TreeTypeOK
  <2>4. CASE call.kind = "apply"
    <3>1. /\ OwnerGiven(call) /\ ModeGiven(call)
          /\ \A f \in ControlFiles : FileGiven(call, f)
          /\ call.controllers => p \in subtree
      BY <1>1, <2>1, <2>4 DEF LeafHeld, LeafThere, LeafGiven
    <3>2. QED
      BY <2>1, <2>3, <3>1
         DEF Delivered, Attach, OwnerGiven, ModeGiven, FileGiven
  <2>5. QED  BY <2>3, <2>4 DEF Delivered
<1>5. CASE Enter(c)
  <2>1. pc[c] = "enter" /\ CanAttach(call.pid, p) /\ Attach(call.pid, p)
    BY <1>1, <1>5 DEF Enter, At
  <2>2. call.pid \in Pids /\ call.kind = "exec"
    BY <1>1, <2>1, CallerType DEF AtHand
  <2>3. QED
    BY <1>1, <2>1, <2>2 DEF Delivered, CanAttach, Attach, Exists, TreeTypeOK
<1>6. CASE Unlink(c)
  BY <1>1, <1>6 DEF AtHand, Unlink, At
<1>7. QED  BY <1>2, <1>3, <1>4, <1>5, <1>6, ReturnSteps

(* An apply that reports success has delivered all of its LeafSpec,        *)
(* whatever it found on its way and whatever others did to other           *)
(* directories meanwhile; a classify or an exec has moved its process.     *)
THEOREM AppliesDeliver == Spec => ApplyDelivers
<1>1. TypeInv /\ LeafInv /\ [Next]_vars
      => [\A c \in Callers : \A i \in DOMAIN script[c] :
            /\ i = ip[c] /\ script[c][i].kind \in {"apply", "attach", "exec"}
            /\ Returns(c)
            /\ script[c][i].kind = "apply" =>
                  hit[c] \cap {"changed", "removed"} = {}
            => Delivered(script[c][i])']_vars
  <2> SUFFICES ASSUME TypeInv, LeafInv, Next, NEW c \in Callers,
                      NEW i \in DOMAIN script[c], i = ip[c], Returns(c),
                      script[c][i].kind \in {"apply", "attach", "exec"},
                      script[c][i].kind = "apply" =>
                          hit[c] \cap {"changed", "removed"} = {}
               PROVE  Delivered(script[c][i])'
    OBVIOUS
  <2>1. CallTypeOK /\ ip'[c] # ip[c]
    BY DEF TypeInv, TypeOK, CallTypeOK, Returns
  <2>2. Step(c)
    <3>1. ASSUME NEW b \in Callers \ {c}, Step(b) PROVE FALSE
      BY <2>1, <3>1, StepOthers DEF OnlyFor
    <3>2. QED  BY <2>1, <3>1 DEF Next, Kill, ProcessExits, callVars
  <2>3. PICK call : call = Call(c)
    OBVIOUS
  <2>4. script'[c][i] = call /\ script[c][i] = call
    BY <2>2, <2>3, ScriptKept DEF Call
  <2>5. Delivered(call)'
    BY <2>2, <2>3, <2>4, ReturnDelivers
  <2>6. QED  BY <2>4, <2>5 DEF Delivered
<1>2. QED
  BY <1>1, TypeInit, TypeNext, LeafInit, LeafNext, PTL DEF Spec, ApplyDelivers

-----------------------------------------------------------------------------
(* The owner that stays.                                                   *)

NobodyDeletes ==
    \A b \in Callers : \A j \in DOMAIN script[b] :
        script[b][j].kind \notin {"delete_leaf", "delete_tree"}

(* Without deletions nothing is removed from anybody's path.               *)
NoRemoval == NobodyDeletes => \A c \in Callers : "removed" \notin hit[c]

(* Call i of c has given its leaf the owner.                               *)
Owned(c, i) ==
    \/ i < ip[c]
    \/ i = ip[c] /\ pc[c] \in {"mode", "control", "enable", "attach"}

OwnerStays(c, i) ==
    LET call == script[c][i]
    IN  /\ Owned(c, i) /\ call.kind = "apply" /\ SoleApplier(c, i)
        /\ call.uid # Keep
        => Exists(call.path) /\ attr[call.path].uid = call.uid

OwnerInv ==
    NoRemoval /\ \A c \in Callers : \A i \in DOMAIN script[c] : OwnerStays(c, i)

LEMMA NobodyUnlinks ==
    ASSUME TypeInv, NobodyDeletes, NEW c \in Callers, Step(c)
    PROVE  ~ Unlink(c)
<1> SUFFICES ASSUME Unlink(c) PROVE FALSE
  OBVIOUS
<1>1. pc[c] = "unlink" /\ CallTypeOK /\ AtHand(c)
  BY CallerType DEF Unlink, At
<1>2. ip[c] \in DOMAIN script[c]
  BY <1>1 DEF CallTypeOK
<1>3. QED  BY <1>1, <1>2 DEF AtHand, Call, NobodyDeletes

LEMMA NoRemovalStep ==
    ASSUME TypeInv, NoRemoval, NEW c \in Callers, Step(c)
    PROVE  NoRemoval'
<1> SUFFICES ASSUME NobodyDeletes, NEW b \in Callers PROVE "removed" \notin hit'[b]
  BY ScriptKept DEF NoRemoval, NobodyDeletes
<1>1. CallTypeOK /\ ~ Unlink(c) /\ "removed" \notin hit[b]
  BY NobodyUnlinks DEF TypeInv, TypeOK, NoRemoval
<1>2. ASSUME NEW k \in {"made", "changed"}, NEW x, Note(c, k, x)
      PROVE  "removed" \notin hit'[b]
  BY <1>1, <1>2 DEF Note
<1>3. ASSUME NEW f, NoteChange(c, f) PROVE "removed" \notin hit'[b]
  BY <1>1, <1>2, <1>3 DEF NoteChange
<1>4. CASE Begin(c)
  BY <1>1, <1>4 DEF Begin, CallTypeOK
<1>5. QED
  BY <1>1, <1>2, <1>3, <1>4
     DEF Step, OpenChild, MakeChild, ReopenChild, ChmodChild, ChownLeaf,
         ChmodLeaf, HandOver, EnableControllers, AttachPid, OpenProcs, Enter,
         ListDir, Fail

(* Only the fchown of a leaf gives a directory that exists another owner.  *)
LEMMA UidStep ==
    ASSUME TypeInv, NEW b \in Callers, Step(b), ~ Unlink(b),
           NEW p \in Paths, Exists(p)
    PROVE  /\ Exists(p)'
           /\ \/ attr'[p].uid = attr[p].uid
              \/ /\ ChownLeaf(b) /\ p = Call(b).path /\ Call(b).kind = "apply"
                 /\ attr'[p].uid = Call(b).uid
<1>0. TreeTypeOK /\ attr[p] \in Attributes
  BY DEF TypeInv, TypeOK, TreeTypeOK
<1>1. ASSUME UNCHANGED attr, UNCHANGED dirs
      PROVE Exists(p)' /\ attr'[p].uid = attr[p].uid
  BY <1>1 DEF Exists
<1>2. CASE Begin(b) \/ OpenChild(b) \/ ReopenChild(b) \/ EnableControllers(b)
           \/ AttachPid(b) \/ OpenProcs(b) \/ Enter(b) \/ ListDir(b)
  BY <1>1, <1>2 DEF Begin, OpenChild, ReopenChild, EnableControllers, AttachPid,
                    OpenProcs, Enter, ListDir, Fail, Enable, Attach, treeVars
<1>3. CASE MakeChild(b)
  <2>1. Child(b) \in Paths
    BY <1>3, WalkerType DEF MakeChild, At
  <2>2. CASE UNCHANGED treeVars
    BY <1>1, <2>2 DEF treeVars
  <2>3. CASE ~ Exists(Child(b)) /\ Mkdir(Child(b), MakeMode(b))
    BY <1>0, <2>1, <2>3 DEF Mkdir, TreeTypeOK, Exists
  <2>4. QED  BY <1>3, <2>2, <2>3, MakeDoes
<1>4. ASSUME NEW m, Chmod(fd[b], m), fd[b].dir \in Paths
      PROVE  Exists(p)' /\ attr'[p].uid = attr[p].uid
  BY <1>0, <1>4 DEF Chmod, TreeTypeOK, Exists, Attributes
<1>5. CASE ChmodChild(b)
  <2>1. Walking(b) /\ Child(b) \in Paths /\ pc[b] = "chmod"
    BY <1>5, WalkerType DEF ChmodChild, At
  <2>2. fd[b].dir \in Paths
    BY <2>1 DEF Walking
  <2>3. QED  BY <1>4, <1>5, <2>2 DEF ChmodChild
<1>6. CASE ChmodLeaf(b)
  <2>1. pc[b] = "mode" /\ AtHand(b) /\ Call(b).path \in Paths
    BY <1>6, CallerType DEF ChmodLeaf, At
  <2>2. QED  BY <1>4, <1>6, <2>1 DEF ChmodLeaf, AtHand
<1>7. CASE ChownLeaf(b)
  <2>1. /\ pc[b] = "own" /\ AtHand(b) /\ Call(b).path \in Paths
        /\ Call(b).uid \in Owners \cup {Keep}
    BY <1>7, CallerType DEF ChownLeaf, At
  <2>2. CASE Call(b).uid = Keep
    BY <1>1, <1>7, <2>2 DEF ChownLeaf, treeVars
  <2>3. CASE Chown(fd[b], Call(b).uid)
    BY <1>0, <1>7, <2>1, <2>3 DEF AtHand, Chown, Exists, TreeTypeOK, Attributes
  <2>4. QED  BY <1>7, <2>2, <2>3 DEF ChownLeaf
<1>8. CASE HandOver(b)
  <2>1. Call(b).path \in Paths
    BY <1>8, CallerType DEF HandOver, At
  <2>2. CASE UNCHANGED treeVars
    BY <1>1, <2>2 DEF treeVars
  <2>3. ASSUME NEW f, NEW u, ChownControl(Call(b).path, f, u)
        PROVE  Exists(p)' /\ attr'[p].uid = attr[p].uid
    BY <1>0, <2>1, <2>3 DEF ChownControl, Exists, TreeTypeOK, Attributes
  <2>4. QED  BY <1>8, <2>2, <2>3 DEF HandOver, Fail
<1>9. QED  BY <1>2, <1>3, <1>5, <1>6, <1>7, <1>8 DEF Step

(* The step that makes a call one whose owner is given.                    *)
LEMMA OwnedBy ==
    ASSUME TypeInv, NEW b \in Callers, Step(b), NEW c \in Callers,
           NEW i \in DOMAIN script[c], script[c][i].kind = "apply",
           Owned(c, i)', ~ Owned(c, i)
    PROVE  b = c /\ i = ip[c] /\ ChownLeaf(c)
<1>1. CallTypeOK /\ OnlyFor(b)
  BY StepOthers DEF TypeInv, TypeOK
<1>2. b = c
  BY <1>1 DEF OnlyFor, Owned
<1>3. AtHand(c) /\ i \in Nat /\ ip[c] \in Nat /\ ip'[c] \in {ip[c], ip[c] + 1}
  <2>1. ip'[c] \in {ip[c], ip[c] + 1}
    BY <1>1, <1>2
       DEF Step, Begin, OpenChild, MakeChild, ReopenChild, ChmodChild,
           ChownLeaf, ChmodLeaf, HandOver, EnableControllers, AttachPid,
           OpenProcs, Enter, ListDir, Unlink, Fail, Proceed, CallTypeOK
  <2>2. script[c] \in Seq(Calls)
    BY <1>1 DEF CallTypeOK
  <2>3. QED  BY <1>1, <2>1, <2>2 DEF TypeInv, CallTypeOK
<1>4. CASE ip'[c] = ip[c] + 1
  <2>0. pc'[c] \in {"start", "done"}
    BY <1>1, <1>2, <1>3, <1>4
       DEF Step, Begin, OpenChild, MakeChild, ReopenChild, ChmodChild,
           ChownLeaf, ChmodLeaf, HandOver, EnableControllers, AttachPid,
           OpenProcs, Enter, ListDir, Unlink, Fail, Goto, Proceed, CallTypeOK
  <2>1. i = ip[c] /\ Call(c).kind = "apply"
    BY <1>3, <1>4, <2>0 DEF Owned, Call
  <2>2. HandOver(c) \/ EnableControllers(c) \/ AttachPid(c) \/ Enter(c)
        \/ Unlink(c)
    BY <1>2, <1>4, ReturnSteps DEF Returns
  <2>3. pc[c] \in {"control", "enable", "attach", "enter", "unlink"}
    BY <2>2 DEF HandOver, EnableControllers, AttachPid, Enter, Unlink, At
  <2>4. QED  BY <1>3, <2>1, <2>3 DEF AtHand, Owned
<1>5. CASE ip'[c] = ip[c]
  <2>1. /\ i = ip[c] /\ Call(c).kind = "apply"
        /\ pc'[c] \in {"mode", "control", "enable", "attach"}
        /\ pc[c] \notin {"mode", "control", "enable", "attach"}
    BY <1>3, <1>5 DEF Owned, Call
  <2>2. QED
    BY <1>1, <1>2, <2>1
       DEF Step, Begin, OpenChild, MakeChild, ReopenChild, ChmodChild,
           ChmodLeaf, HandOver, EnableControllers, AttachPid, OpenProcs, Enter,
           ListDir, Unlink, Fail, Proceed, Descend, Goto, At, CallTypeOK
<1>6. QED  BY <1>3, <1>4, <1>5

LEMMA OwnerStep ==
    ASSUME TypeInv, LeafInv, OwnerInv, NEW b \in Callers, Step(b),
           NEW c \in Callers, NEW i \in DOMAIN script[c]
    PROVE  OwnerStays(c, i)'
<1> DEFINE call == script[c][i]
           p    == call.path
<1>1. script' = script /\ CallTypeOK /\ TreeTypeOK
  BY ScriptKept DEF TypeInv, TypeOK
<1> SUFFICES ASSUME Owned(c, i)', call.kind = "apply", SoleApplier(c, i),
                    call.uid # Keep
             PROVE  Exists(p)' /\ attr'[p].uid = call.uid
  BY <1>1 DEF OwnerStays, SoleApplier
<1>2. NobodyDeletes /\ "removed" \notin hit[c] /\ ~ Unlink(b)
  BY NobodyUnlinks DEF SoleApplier, NobodyDeletes, OwnerInv, NoRemoval
<1>3. p \in Paths
  <2>1. script[c] \in Seq(Calls)
    BY <1>1 DEF CallTypeOK
  <2>2. call \in Calls
    BY <2>1
  <2>3. QED  BY <2>2 DEF Calls
<1>4. CASE Owned(c, i)
  <2>1. Exists(p) /\ attr[p].uid = call.uid
    BY <1>4 DEF OwnerInv, OwnerStays
  <2>2. ASSUME ChownLeaf(b), p = Call(b).path, Call(b).kind = "apply"
        PROVE  Call(b) = call
    <3>1. ip[b] \in DOMAIN script[b]
      BY <1>1, <2>2 DEF ChownLeaf, At, CallTypeOK
    <3>2. QED  BY <2>2, <3>1 DEF SoleApplier, Call
  <2>3. PICK q \in Paths : q = p
    BY <1>3
  <2>4. /\ Exists(q)'
        /\ \/ attr'[q].uid = attr[q].uid
           \/ /\ ChownLeaf(b) /\ q = Call(b).path /\ Call(b).kind = "apply"
              /\ attr'[q].uid = Call(b).uid
    BY <1>2, <2>1, <2>3, UidStep
  <2>5. attr'[q].uid = call.uid
    BY <2>1, <2>2, <2>3, <2>4
  <2>6. Exists(p)'
    BY <1>1, <2>3, <2>4 DEF Exists
  <2>7. QED  BY <2>3, <2>5, <2>6
<1>5. CASE ~ Owned(c, i)
  <2>1. ChownLeaf(c) /\ Call(c) = call
    BY <1>5, OwnedBy DEF Call
  <2>2. pc[c] = "own" /\ AtHand(c) /\ Live(fd[c])
    BY <1>2, <2>1 DEF ChownLeaf, At, TypeInv, LeafInv, LeafHeld, LeafThere
  <2>3. fd[c].dir = p /\ Chown(fd[c], call.uid)
    BY <2>1, <2>2 DEF AtHand, ChownLeaf
  <2>4. Exists(p)
    BY <1>1, <2>2, <2>3 DEF Live, Exists, CallTypeOK
  <2>5. QED
    BY <1>1, <1>3, <2>2, <2>3, <2>4
       DEF Chown, Exists, TreeTypeOK, Attributes
<1>6. QED  BY <1>4, <1>5

LEMMA OwnerNext == TypeInv /\ LeafInv /\ OwnerInv /\ [Next]_vars => OwnerInv'
<1> SUFFICES ASSUME TypeInv, LeafInv, OwnerInv, [Next]_vars PROVE OwnerInv'
  OBVIOUS
<1>1. ASSUME UNCHANGED <<dirs, attr, script, ip, pc, hit>> PROVE OwnerInv'
  BY <1>1 DEF OwnerInv, NoRemoval, NobodyDeletes, OwnerStays, Owned,
              SoleApplier, Exists
<1>2. CASE UNCHANGED vars
  BY <1>1, <1>2 DEF vars, treeVars
<1>3. ASSUME NEW c \in Callers, Step(c) PROVE OwnerInv'
  BY <1>3, ScriptKept, NoRemovalStep, OwnerStep DEF OwnerInv
<1>4. ASSUME NEW c \in Callers, Kill(c) PROVE OwnerInv'
  BY <1>1, <1>4 DEF Kill, treeVars
<1>5. ASSUME NEW q \in Pids, ProcessExits(q) PROVE OwnerInv'
  BY <1>1, <1>5 DEF ProcessExits, Exit, callVars
<1>6. QED  BY <1>2, <1>3, <1>4, <1>5 DEF Next

(* The owner an apply gave its leaf stays, whoever walks through the leaf  *)
(* on the way to a directory below it.                                     *)
THEOREM OwnersStay == Spec => []OwnersStand
<1>1. Init => OwnerInv
  <2>1. ASSUME Init, NEW c \in Callers, NEW i \in DOMAIN script[c]
        PROVE  ~ Owned(c, i)
    <3>1. script[c] \in Seq(Calls)
      BY <2>1, CgfsAssumption DEF Init
    <3>2. QED  BY <2>1, <3>1 DEF Init, Owned
  <2>2. QED  BY <2>1 DEF Init, OwnerInv, NoRemoval, OwnerStays
<1>2. OwnerInv => OwnersStand
  BY DEF OwnerInv, OwnersStand, OwnerStays, Owned, Applied
<1>3. QED
  BY <1>1, <1>2, TypeInit, TypeNext, LeafInit, LeafNext, OwnerNext, PTL DEF Spec

-----------------------------------------------------------------------------
(* delete_tree: what it has listed, parents before their children, and     *)
(* what it has yet to list are the whole tree below its path.              *)

In(p, s) == \E i \in DOMAIN s : s[i] = p

NoTwice(s) == \A i, j \in DOMAIN s : s[i] = s[j] => i = j

Swept(top, ls, ws) ==
    /\ 1 \in DOMAIN ls /\ ls[1] = top
    /\ NoTwice(ls) /\ NoTwice(ws)
    /\ \A p \in Paths : In(p, ls) => ~ In(p, ws)
    /\ \A p \in Paths : In(p, ls) \/ In(p, ws) => Exists(p) /\ Under(p, top)
    /\ \A p \in Paths : In(p, ws) => In(Parent[p], ls)
    /\ \A j \in DOMAIN ls :
          j # 1 => \E i \in DOMAIN ls : i < j /\ ls[i] = Parent[ls[j]]
    /\ \A p \in Paths :
          Exists(p) /\ In(Parent[p], ls) => In(p, ls) \/ In(p, ws)

SweepHeld(c) ==
    /\ pc[c] \in {"list", "unlink"} /\ Call(c).kind = "delete_tree"
    /\ hit[c] \cap {"made", "removed"} = {}
    => \/ pc[c] = "list" /\ order[c] = <<>> /\ pending[c] = <<Call(c).path>>
       \/ /\ Swept(Call(c).path, order[c], pending[c])
          /\ pc[c] = "unlink" => pending[c] = <<>>

SweepInv == \A c \in Callers : SweepHeld(c)

(* What is in a directory below top is below top, and is not top.          *)
LEMMA BelowTop ==
    ASSUME NEW top \in Paths, NEW p \in Paths, Parent[p] \in Paths,
           Under(Parent[p], top)
    PROVE  Under(p, top) /\ p # top
<1> DEFINE w == Walk[Parent[p]]
<1>1. w \in Seq(Paths) /\ Walk[p] \in Seq(Paths) /\ Walk[p] = Append(w, p)
      /\ \A i, j \in DOMAIN Walk[p] : Walk[p][i] = Walk[p][j] => i = j
  BY TreeAssumption, PathFacts
<1>2. PICK i \in DOMAIN w : w[i] = top
  BY DEF Under
<1> HIDE DEF w
<1>3. /\ i \in DOMAIN Walk[p] /\ Walk[p][i] = top
      /\ Len(w) + 1 \in DOMAIN Walk[p] /\ Walk[p][Len(w) + 1] = p
      /\ i # Len(w) + 1
  BY <1>1, <1>2
<1>4. QED  BY <1>1, <1>3 DEF Under

(* A listing has every child once.                                         *)
LEMMA ListingsAll ==
    ASSUME NEW d \in Dirs, NEW found \in Listings(Children(d))
    PROVE  /\ found \in Seq(Paths) /\ NoTwice(found)
           /\ \A p \in Paths : In(p, found) <=> Exists(p) /\ Parent[p] = d
<1> DEFINE S == Children(d)
           n == Cardinality(S)
<1>1. IsFiniteSet(S) /\ S \subseteq Paths
  BY TreeAssumption, FS_Subset DEF Children
<1>2. n \in Nat
  BY <1>1, FS_CardinalityType
<1>3. found \in [1..n -> S] /\ NoTwice(found)
  BY DEF Listings, NoTwice
<1>4. found \in Injection(1..n, S)
  BY <1>3 DEF NoTwice, Injection, IsInjective
<1>5. Cardinality(1..n) = n /\ IsFiniteSet(1..n)
  BY <1>2, FS_Interval
<1>6. found \in Surjection(1..n, S)
  BY <1>1, <1>4, <1>5, FS_Injection
<1>7. \A p \in S : \E i \in 1..n : found[i] = p
  BY <1>6 DEF Surjection
<1> HIDE DEF n
<1>8. \A p \in Paths : In(p, found) <=> p \in S
  BY <1>3, <1>7 DEF In
<1>9. QED  BY <1>3, <1>8, ListingsType DEF Children

LEMMA InAppend ==
    ASSUME NEW s \in Seq(Paths), NEW x \in Paths
    PROVE  /\ Append(s, x) \in Seq(Paths)
           /\ \A p \in Paths : In(p, Append(s, x)) <=> In(p, s) \/ p = x
<1>1. /\ Append(s, x) \in Seq(Paths) /\ Len(s) \in Nat
      /\ DOMAIN Append(s, x) = 1..(Len(s) + 1) /\ DOMAIN s = 1..Len(s)
      /\ Append(s, x)[Len(s) + 1] = x
      /\ \A i \in 1..Len(s) : Append(s, x)[i] = s[i]
  OBVIOUS
<1>2. QED  BY <1>1 DEF In

(* Without its last element, and with others in its place.                 *)
LEMMA InPopped ==
    ASSUME NEW s \in Seq(Paths), s # <<>>, NoTwice(s),
           NEW t, t = SubSeq(s, 1, Len(s) - 1)
    PROVE  /\ t \in Seq(Paths) /\ NoTwice(t) /\ Len(t) = Len(s) - 1
           /\ \A i \in DOMAIN t : i \in DOMAIN s /\ t[i] = s[i]
           /\ \A i \in DOMAIN s : i # Len(s) => i \in DOMAIN t
           /\ Len(s) \in DOMAIN s
           /\ \A p \in Paths : In(p, t) <=> In(p, s) /\ p # s[Len(s)]
<1>1. /\ t \in Seq(Paths) /\ Len(t) = Len(s) - 1 /\ Len(s) \in Nat \ {0}
      /\ DOMAIN s = 1..Len(s) /\ DOMAIN t = 1..(Len(s) - 1)
      /\ \A i \in DOMAIN t : t[i] = s[i]
  BY PopType
<1>2. /\ \A i \in DOMAIN t : i \in DOMAIN s /\ i # Len(s)
      /\ \A i \in DOMAIN s : i # Len(s) => i \in DOMAIN t
      /\ Len(s) \in DOMAIN s
  BY <1>1
<1>3. NoTwice(t)
  BY <1>1, <1>2 DEF NoTwice
<1>4. ASSUME NEW p \in Paths PROVE In(p, t) <=> In(p, s) /\ p # s[Len(s)]
  <2>1. ASSUME In(p, t) PROVE In(p, s) /\ p # s[Len(s)]
    BY <1>1, <1>2, <2>1 DEF In, NoTwice
  <2>2. ASSUME In(p, s), p # s[Len(s)] PROVE In(p, t)
    BY <1>1, <1>2, <2>2 DEF In
  <2>3. QED  BY <2>1, <2>2
<1>5. QED  BY <1>1, <1>2, <1>3, <1>4

LEMMA InJoined ==
    ASSUME NEW s \in Seq(Paths), NEW t \in Seq(Paths), NoTwice(s), NoTwice(t),
           \A p \in Paths : ~ (In(p, s) /\ In(p, t))
    PROVE  /\ s \o t \in Seq(Paths) /\ NoTwice(s \o t)
           /\ \A p \in Paths : In(p, s \o t) <=> In(p, s) \/ In(p, t)
<1>1. /\ s \o t \in Seq(Paths) /\ Len(s) \in Nat /\ Len(t) \in Nat
      /\ DOMAIN (s \o t) = 1..(Len(s) + Len(t))
      /\ DOMAIN s = 1..Len(s) /\ DOMAIN t = 1..Len(t)
      /\ \A i \in 1..Len(s) : (s \o t)[i] = s[i]
      /\ \A i \in (Len(s) + 1)..(Len(s) + Len(t)) : (s \o t)[i] = t[i - Len(s)]
      /\ \A i \in 1..Len(t) : (s \o t)[i + Len(s)] = t[i]
  OBVIOUS
<1>2. ASSUME NEW p \in Paths
      PROVE  In(p, s \o t) <=> In(p, s) \/ In(p, t)
  <2>1. ASSUME NEW i \in DOMAIN s, s[i] = p PROVE In(p, s \o t)
    BY <1>1, <2>1 DEF In
  <2>2. ASSUME NEW i \in DOMAIN t, t[i] = p PROVE In(p, s \o t)
    <3>1. i + Len(s) \in DOMAIN (s \o t) /\ (s \o t)[i + Len(s)] = p
      BY <1>1, <2>2
    <3>2. QED  BY <3>1 DEF In
  <2>3. ASSUME NEW i \in DOMAIN (s \o t), (s \o t)[i] = p
        PROVE  In(p, s) \/ In(p, t)
    <3>1. CASE i <= Len(s)
      BY <1>1, <2>3, <3>1 DEF In
    <3>2. CASE i > Len(s)
      <4>1. i - Len(s) \in DOMAIN t /\ t[i - Len(s)] = p
        BY <1>1, <2>3, <3>2
      <4>2. QED  BY <4>1 DEF In
    <3>3. QED  BY <1>1, <3>1, <3>2
  <2>4. QED  BY <2>1, <2>2, <2>3 DEF In
<1>3. ASSUME NEW i \in DOMAIN (s \o t), NEW j \in DOMAIN (s \o t),
             (s \o t)[i] = (s \o t)[j]
      PROVE  i = j
  <2>1. CASE i <= Len(s) /\ j <= Len(s)
    BY <1>1, <1>3, <2>1 DEF NoTwice
  <2>2. CASE i > Len(s) /\ j > Len(s)
    <3>1. i - Len(s) \in DOMAIN t /\ j - Len(s) \in DOMAIN t
          /\ t[i - Len(s)] = t[j - Len(s)]
      BY <1>1, <1>3, <2>2
    <3>2. QED  BY <1>1, <1>3, <3>1 DEF NoTwice
  <2>3. ASSUME NEW k \in 1..Len(s),
               NEW l \in (Len(s) + 1)..(Len(s) + Len(t)),
               (s \o t)[k] = (s \o t)[l]
        PROVE  FALSE
    <3>1. s[k] \in Paths /\ In(s[k], s)
      BY <1>1 DEF In
    <3>2. l - Len(s) \in DOMAIN t /\ t[l - Len(s)] = s[k]
      BY <1>1, <2>3
    <3>3. QED  BY <3>1, <3>2 DEF In
  <2>4. CASE i <= Len(s) /\ j > Len(s)
    <3>1. i \in 1..Len(s) /\ j \in (Len(s) + 1)..(Len(s) + Len(t))
      BY <1>1, <2>4
    <3>2. QED  BY <1>3, <2>3, <3>1
  <2>5. CASE j <= Len(s) /\ i > Len(s)
    <3>1. j \in 1..Len(s) /\ i \in (Len(s) + 1)..(Len(s) + Len(t))
      BY <1>1, <2>5
    <3>2. QED  BY <1>3, <2>3, <3>1
  <2>6. QED  BY <1>1, <2>1, <2>2, <2>4, <2>5
<1>4. QED  BY <1>1, <1>2, <1>3 DEF NoTwice

(* The first listing.                                                      *)
LEMMA SweepBegins ==
    ASSUME NEW top \in Paths, Exists(top),
           NEW found \in Listings(Children(top))
    PROVE  Swept(top, <<top>>, found)
<1>1. /\ NoTwice(found)
      /\ \A p \in Paths : In(p, found) <=> Exists(p) /\ Parent[p] = top
  BY ListingsAll DEF Dirs
<1>2. /\ <<top>> \in Seq(Paths) /\ DOMAIN <<top>> = {1} /\ <<top>>[1] = top
  OBVIOUS
<1>3. NoTwice(<<top>>) /\ \A p : In(p, <<top>>) <=> p = top
  BY <1>2 DEF NoTwice, In
<1>4. \A p \in Paths : Parent[p] = top => Under(p, top) /\ p # top
  BY BelowTop, UnderSelf
<1>5. QED  BY <1>1, <1>2, <1>3, <1>4, UnderSelf DEF Swept

(* A further one.                                                          *)
LEMMA SweepGoesOn ==
    ASSUME NEW top \in Paths, NEW ls \in Seq(Paths), NEW ws \in Seq(Paths),
           ws # <<>>, NEW x, x = ws[Len(ws)], Exists(x), Swept(top, ls, ws),
           NEW found \in Listings(Children(x))
    PROVE  Swept(top, Append(ls, x), SubSeq(ws, 1, Len(ws) - 1) \o found)
<1> DEFINE ls2  == Append(ls, x)
           rest == SubSeq(ws, 1, Len(ws) - 1)
           ws2  == rest \o found
<1>1. x \in Paths /\ In(x, ws) /\ ~ In(x, ls) /\ Under(x, top)
  <2>1. Len(ws) \in DOMAIN ws /\ x \in Paths
    BY PopType
  <2>2. QED  BY <2>1 DEF In, Swept
<1>2. /\ found \in Seq(Paths) /\ NoTwice(found)
      /\ \A p \in Paths : In(p, found) <=> Exists(p) /\ Parent[p] = x
  BY <1>1, ListingsAll DEF Dirs
<1>3. /\ rest \in Seq(Paths) /\ NoTwice(rest)
      /\ \A p \in Paths : In(p, rest) <=> In(p, ws) /\ p # x
  <2>1. NoTwice(ws)
    BY DEF Swept
  <2>2. QED  BY <2>1, InPopped, ZenonT(25)
<1>4. \A p \in Paths : In(p, ls2) <=> In(p, ls) \/ p = x
  BY <1>1, InAppend
<1>5. ASSUME NEW p \in Paths, Exists(p), Parent[p] = x
      PROVE  Under(p, top) /\ ~ In(p, ls) /\ ~ In(p, ws)
  <2>1. Under(p, top) /\ p # top
    BY <1>1, <1>5, BelowTop
  <2>2. ~ In(p, ws)
    BY <1>1, <1>5 DEF Swept
  <2>3. ASSUME In(p, ls) PROVE FALSE
    <3>1. PICK j \in DOMAIN ls : ls[j] = p
      BY <2>3 DEF In
    <3>2. \E i \in DOMAIN ls : ls[i] = x
      BY <1>5, <2>1, <3>1 DEF Swept
    <3>3. QED  BY <1>1, <3>2 DEF In
  <2>4. QED  BY <2>1, <2>2, <2>3
<1>6. /\ NoTwice(ws2)
      /\ \A p \in Paths : In(p, ws2) <=>
            (In(p, ws) /\ p # x) \/ (Exists(p) /\ Parent[p] = x)
  <2>1. \A p \in Paths : ~ (In(p, rest) /\ In(p, found))
    BY <1>2, <1>3, <1>5
  <2>2. /\ NoTwice(ws2)
        /\ \A p \in Paths : In(p, ws2) <=> In(p, rest) \/ In(p, found)
    <3> HIDE DEF rest
    <3>1. QED  BY <1>2, <1>3, <2>1, InJoined
  <2>3. QED  BY <1>2, <1>3, <2>2
<1>7. /\ ls2 \in Seq(Paths) /\ Len(ls) \in Nat
      /\ DOMAIN ls2 = 1..(Len(ls) + 1) /\ DOMAIN ls = 1..Len(ls)
      /\ ls2[Len(ls) + 1] = x /\ \A i \in 1..Len(ls) : ls2[i] = ls[i]
  BY <1>1
<1> HIDE DEF ls2, ws2
<1>8. /\ 1 \in DOMAIN ls2 /\ ls2[1] = top
  BY <1>7 DEF Swept
<1>9. NoTwice(ls2)
  <2>1. \A i \in 1..Len(ls) : ls2[i] # x
    BY <1>1, <1>7 DEF In
  <2>2. \A i, j \in 1..Len(ls) : ls2[i] = ls2[j] => i = j
    BY <1>7 DEF Swept, NoTwice
  <2>3. \A i \in 1..(Len(ls) + 1) : i = Len(ls) + 1 \/ i \in 1..Len(ls)
    BY <1>7
  <2>4. QED  BY <1>7, <2>1, <2>2, <2>3 DEF NoTwice
<1>10. \A p \in Paths : In(p, ls2) => ~ In(p, ws2)
  <2>1. Parent[x] # x
    BY <1>1, BelowTop, UnderSelf
  <2>2. QED  BY <1>1, <1>4, <1>5, <1>6, <2>1 DEF Swept
<1>11. \A p \in Paths : In(p, ls2) \/ In(p, ws2) => Exists(p) /\ Under(p, top)
  BY <1>1, <1>4, <1>5, <1>6 DEF Swept
<1>12. ASSUME NEW p \in Paths, In(p, ws2) PROVE In(Parent[p], ls2)
  <2>1. CASE Parent[p] = x
    BY <1>1, <1>4, <2>1
  <2>2. CASE In(Parent[p], ls)
    <3>1. Parent[p] \in Paths
      <4>1. \A i \in DOMAIN ls : ls[i] \in Paths
        OBVIOUS
      <4>2. QED  BY <2>2, <4>1 DEF In
    <3>2. QED  BY <1>4, <2>2, <3>1
  <2>3. QED  BY <1>6, <1>12, <2>1, <2>2 DEF Swept
<1>13. ASSUME NEW j \in DOMAIN ls2, j # 1
       PROVE  \E i \in DOMAIN ls2 : i < j /\ ls2[i] = Parent[ls2[j]]
  <2>1. CASE j \in 1..Len(ls)
    <3>1. PICK i \in DOMAIN ls : i < j /\ ls[i] = Parent[ls[j]]
      BY <1>7, <1>13, <2>1 DEF Swept
    <3>2. QED  BY <1>7, <2>1, <3>1
  <2>2. CASE j = Len(ls) + 1
    <3>1. PICK i \in DOMAIN ls : ls[i] = Parent[x]
      BY <1>1 DEF Swept, In
    <3>2. i < j /\ i \in DOMAIN ls2 /\ ls2[i] = Parent[ls2[j]]
      BY <1>7, <2>2, <3>1
    <3>3. QED  BY <3>2
  <2>3. QED  BY <1>7, <1>13, <2>1, <2>2
<1>14. ASSUME NEW p \in Paths, Exists(p), In(Parent[p], ls2)
       PROVE  In(p, ls2) \/ In(p, ws2)
  <2>1. CASE Parent[p] = x
    BY <1>6, <1>14, <2>1
  <2>2. CASE In(Parent[p], ls)
    <3>1. In(p, ls) \/ In(p, ws)
      BY <1>14, <2>2 DEF Swept
    <3>2. QED  BY <1>4, <1>6, <3>1
  <2>3. Parent[p] = x \/ In(Parent[p], ls)
    <3>1. \A i \in DOMAIN ls2 : ls2[i] \in Paths
      BY <1>7
    <3>2. Parent[p] \in Paths
      BY <1>14, <3>1 DEF In
    <3>3. QED  BY <1>4, <1>14, <3>2
  <2>4. QED  BY <2>1, <2>2, <2>3
<1>15. Swept(top, ls2, ws2)
  BY <1>6, <1>8, <1>9, <1>10, <1>11, <1>12, <1>13, <1>14 DEF Swept
<1>16. QED  BY <1>15 DEF ls2, ws2

(* The directory listed last has nothing left in it.                       *)
LEMMA LastIsEmpty ==
    ASSUME NEW top \in Paths, NEW ls \in Seq(Paths), ls # <<>>,
           Swept(top, ls, <<>>), NEW x, x = ls[Len(ls)]
    PROVE  /\ x \in Paths /\ Exists(x) /\ Under(x, top)
           /\ Children(x) = {}
<1>1. /\ Len(ls) \in Nat \ {0} /\ Len(ls) \in DOMAIN ls /\ x \in Paths
      /\ DOMAIN ls = 1..Len(ls)
  BY PopType
<1>2. In(x, ls) /\ \A p : ~ In(p, <<>>)
  BY <1>1 DEF In
<1>3. Exists(x) /\ Under(x, top)
  BY <1>1, <1>2 DEF Swept
<1>4. ASSUME NEW p \in Paths, Exists(p), Parent[p] = x PROVE FALSE
  <2>1. PICK j \in DOMAIN ls : ls[j] = p
    BY <1>2, <1>4 DEF Swept, In
  <2>2. p # top
    BY <1>1, <1>3, <1>4, BelowTop
  <2>3. PICK i \in DOMAIN ls : i < j /\ ls[i] = x
    BY <1>4, <2>1, <2>2 DEF Swept
  <2>4. i = Len(ls)
    BY <1>1, <2>3 DEF Swept, NoTwice
  <2>5. QED  BY <1>1, <2>1, <2>3, <2>4
<1>5. QED  BY <1>1, <1>3, <1>4 DEF Children

(* Its removal.                                                            *)
LEMMA SweepRemoves ==
    ASSUME TreeTypeOK, NEW top \in Paths, NEW ls \in Seq(Paths), ls # <<>>,
           Len(ls) # 1, Swept(top, ls, <<>>), NEW x, x = ls[Len(ls)], Rmdir(x)
    PROVE  Swept(top, SubSeq(ls, 1, Len(ls) - 1), <<>>)'
<1> DEFINE rest == SubSeq(ls, 1, Len(ls) - 1)
<1>1. /\ rest \in Seq(Paths) /\ NoTwice(rest)
      /\ \A i \in DOMAIN rest : i \in DOMAIN ls /\ rest[i] = ls[i]
      /\ \A i \in DOMAIN ls : i # Len(ls) => i \in DOMAIN rest
      /\ Len(ls) \in DOMAIN ls
      /\ \A p \in Paths : In(p, rest) <=> In(p, ls) /\ p # x
  <2>1. NoTwice(ls)
    BY DEF Swept
  <2>2. /\ rest \in Seq(Paths) /\ Len(ls) \in Nat \ {0}
        /\ DOMAIN ls = 1..Len(ls) /\ DOMAIN rest = 1..(Len(ls) - 1)
        /\ \A i \in DOMAIN rest : rest[i] = ls[i]
    BY PopType
  <2> HIDE DEF rest
  <2>3. /\ \A i \in DOMAIN rest : i \in DOMAIN ls /\ i # Len(ls)
        /\ \A i \in DOMAIN ls : i # Len(ls) => i \in DOMAIN rest
        /\ Len(ls) \in DOMAIN ls
    BY <2>2
  <2>4. NoTwice(rest)
    BY <2>1, <2>2, <2>3 DEF NoTwice
  <2>5. ASSUME NEW p \in Paths PROVE In(p, rest) <=> In(p, ls) /\ p # x
    <3>1. ASSUME In(p, rest) PROVE In(p, ls) /\ p # x
      BY <2>1, <2>2, <2>3, <3>1 DEF In, NoTwice
    <3>2. ASSUME In(p, ls), p # x PROVE In(p, rest)
      BY <2>2, <2>3, <3>2 DEF In
    <3>3. QED  BY <3>1, <3>2
  <2>6. QED  BY <2>2, <2>3, <2>4, <2>5
<1> HIDE DEF rest
<1>2. \A p : ~ In(p, <<>>)
  BY DEF In
<1>3. x \in Paths /\ Children(x) = {} /\ x # top
  <2>1. x \in Paths /\ Children(x) = {}
    BY LastIsEmpty
  <2>2. QED  BY <1>1, <2>1 DEF Swept, NoTwice
<1>4. \A p \in Paths : Exists(p)' <=> Exists(p) /\ p # x
  BY <1>3 DEF Rmdir, Exists, TreeTypeOK, Dirs
<1>5. 1 \in DOMAIN rest /\ rest[1] = top
  BY <1>1 DEF Swept
<1>6. ASSUME NEW j \in DOMAIN rest, j # 1
      PROVE  \E i \in DOMAIN rest : i < j /\ rest[i] = Parent[rest[j]]
  <2>1. PICK i \in DOMAIN ls : i < j /\ ls[i] = Parent[ls[j]]
    BY <1>1, <1>6 DEF Swept
  <2>2. i # Len(ls)
    <3>1. j \in 1..Len(ls)
      BY <1>1
    <3>2. QED  BY <2>1, <3>1
  <2>3. QED  BY <1>1, <2>1, <2>2
<1>7. ASSUME NEW p \in Paths, Exists(p)', In(Parent[p], rest)
      PROVE  In(p, rest)
  <2>1. In(Parent[p], ls)
    BY <1>1, <1>7 DEF In
  <2>2. QED  BY <1>1, <1>2, <1>4, <1>7, <2>1 DEF Swept
<1>8. \A p \in Paths : In(p, rest) => Exists(p)' /\ Under(p, top)
  BY <1>1, <1>4 DEF Swept
<1>9. Swept(top, rest, <<>>)'
  <2>1. NoTwice(<<>>)
    BY DEF NoTwice
  <2>2. QED  BY <1>1, <1>2, <1>5, <1>6, <1>7, <1>8, <2>1 DEF Swept, Under
<1>10. QED  BY <1>9 DEF rest

(* What does not touch the tree below top.                                 *)
LEMMA SweepStands ==
    ASSUME NEW top \in Paths, NEW ls \in Seq(Paths), NEW ws \in Seq(Paths),
           Swept(top, ls, ws),
           \A p \in Paths : Under(p, top) => (Exists(p)' <=> Exists(p))
    PROVE  Swept(top, ls, ws)'
<1>1. ASSUME NEW p \in Paths, Exists(p)', In(Parent[p], ls)
      PROVE  In(p, ls) \/ In(p, ws)
  <2>1. PICK i \in DOMAIN ls : ls[i] = Parent[p]
    BY <1>1 DEF In
  <2>2. Parent[p] \in Paths
    BY <2>1
  <2>3. Under(Parent[p], top)
    BY <1>1, <2>2 DEF Swept
  <2>4. Exists(p)
    BY <1>1, <2>2, <2>3, BelowTop
  <2>5. QED  BY <1>1, <2>4 DEF Swept
<1>2. \A p \in Paths : In(p, ls) \/ In(p, ws) => Exists(p)' /\ Under(p, top)
  BY DEF Swept
<1>3. QED  BY <1>1, <1>2 DEF Swept, In, NoTwice, Under

(* Another caller makes or removes a directory below the path of a         *)
(* delete_tree only with a note to it.                                     *)
LEMMA SweepOthers ==
    ASSUME TypeInv, NEW c \in Callers, Step(c), NEW b \in Callers \ {c},
           SweepHeld(b)
    PROVE  SweepHeld(b)'
<1>1. CallTypeOK /\ TreeTypeOK /\ OnlyFor(c) /\ hit[b] \subseteq hit'[b]
  BY StepOthers, HitGrows DEF TypeInv, TypeOK
<1>2. /\ pc'[b] = pc[b] /\ order'[b] = order[b] /\ pending'[b] = pending[b]
      /\ Call(b)' = Call(b)
  BY <1>1 DEF OnlyFor, Call
<1> SUFFICES ASSUME pc[b] \in {"list", "unlink"}, Call(b).kind = "delete_tree",
                    hit'[b] \cap {"made", "removed"} = {},
                    Swept(Call(b).path, order[b], pending[b])
             PROVE  Swept(Call(b).path, order[b], pending[b])'
  BY <1>1, <1>2 DEF SweepHeld
<1>3. PICK top \in Paths : top = Call(b).path
  BY CallerType
<1>4. PICK ls \in Seq(Paths), ws \in Seq(Paths) :
         ls = order[b] /\ ws = pending[b]
  BY <1>1 DEF CallTypeOK
<1>5. ASSUME NEW k \in {"made", "removed"}, NEW x \in Paths, Note(c, k, x)
      PROVE  ~ Under(x, top)
  BY <1>3, <1>5 DEF Note, Concerns, Idle
<1>6. \A p \in Paths : Under(p, top) => (Exists(p)' <=> Exists(p))
  <2>1. CASE UNCHANGED dirs
    BY <2>1 DEF Exists
  <2>2. CASE MakeChild(c)
    <3>1. Child(c) \in Paths
      BY <2>2, WalkerType DEF MakeChild, At
    <3>2. CASE Mkdir(Child(c), MakeMode(c)) /\ Note(c, "made", Child(c))
      BY <1>1, <1>5, <3>1, <3>2 DEF Mkdir, Exists, TreeTypeOK, Dirs
    <3>3. QED  BY <2>1, <2>2, <3>2 DEF MakeChild, Fail, treeVars
  <2>3. CASE Unlink(c)
    <3>1. CASE UNCHANGED treeVars
      BY <2>1, <3>1 DEF treeVars
    <3>2. ASSUME NEW x \in Paths, Rmdir(x), Note(c, "removed", x)
          PROVE  \A p \in Paths : Under(p, top) => (Exists(p)' <=> Exists(p))
      BY <1>1, <1>5, <3>2 DEF Rmdir, Exists, TreeTypeOK, Dirs
    <3>3. QED  BY <2>3, <3>1, <3>2, UnlinkNotes
  <2>4. QED
    BY <2>1, <2>2, <2>3
       DEF Step, Begin, OpenChild, ReopenChild, ChmodChild, ChownLeaf,
           ChmodLeaf, HandOver, EnableControllers, AttachPid, OpenProcs, Enter,
           ListDir, Fail, Chown, Chmod, ChownControl, Enable, Attach, treeVars
<1>7. Swept(top, ls, ws)'
  BY <1>3, <1>4, <1>6, SweepStands
<1>8. QED  BY <1>2, <1>3, <1>4, <1>7

(* The steps of the delete_tree itself.                                    *)
LEMMA SweepOwn ==
    ASSUME TypeInv, NEW c \in Callers, Step(c), SweepHeld(c)
    PROVE  SweepHeld(c)'
<1>1. CallTypeOK /\ TreeTypeOK /\ AtHand(c)
  BY DEF TypeInv, TypeOK
<1>2. CASE Begin(c)
  <2>1. Call(c)' = Call(c)
    BY <1>2 DEF Begin, Call
  <2>2. CASE Call(c).kind = "delete_tree"
    <3>1. /\ pc'[c] = "list" /\ pending'[c] = <<Call(c).path>>
          /\ order'[c] = <<>>
      BY <1>1, <1>2, <2>2 DEF Begin, Goto, CallTypeOK
    <3>2. QED  BY <2>1, <3>1 DEF SweepHeld
  <2>3. QED  BY <2>1, <2>2 DEF SweepHeld
<1>3. CASE ListDir(c)
  <2> DEFINE n == Len(pending[c])
             x == pending[c][n]
  <2>1. pc[c] = "list" /\ pending[c] # <<>> /\ Call(c).kind = "delete_tree"
        /\ Call(c).path \in Paths /\ Call(c)' = Call(c)
        /\ pending[c] \in Seq(Paths) /\ order[c] \in Seq(Paths)
    BY <1>1, <1>3, CallerType DEF ListDir, At, AtHand, Call, Fail, CallTypeOK
  <2>2. CASE ~ Exists(x)
    <3>1. pc'[c] = "failed"
      BY <1>1, <1>3, <2>2 DEF ListDir, Fail, Goto, CallTypeOK
    <3>2. QED  BY <3>1 DEF SweepHeld
  <2>3. CASE Exists(x)
    <3>1. PICK found \in Listings(Children(x)) :
            /\ order'[c] = Append(order[c], x)
            /\ pending'[c] = SubSeq(pending[c], 1, n - 1) \o found
            /\ pc'[c] = IF n = 1 /\ found = <<>> THEN "unlink" ELSE "list"
            /\ UNCHANGED <<dirs, hit>>
      BY <1>1, <1>3, <2>3 DEF ListDir, Goto, CallTypeOK, treeVars
    <3>2. n \in Nat \ {0} /\ x \in Paths /\ found \in Seq(Paths)
      <4>1. n \in Nat \ {0} /\ x \in Paths
        BY <2>1, PopType
      <4>2. QED  BY <4>1, ListingsType DEF Dirs
    <3>3. ASSUME n = 1, found = <<>> PROVE pending'[c] = <<>>
      BY <2>1, <3>1, <3>3
    <3>4. ASSUME Swept(Call(c).path, order'[c], pending'[c])
          PROVE  SweepHeld(c)'
      <4>1. order'[c] \in Seq(Paths) /\ pending'[c] \in Seq(Paths)
        BY <2>1, <3>1, <3>2
      <4>2. PICK top \in Paths, ls \in Seq(Paths), ws \in Seq(Paths) :
              top = Call(c).path /\ ls = order'[c] /\ ws = pending'[c]
        BY <2>1, <4>1
      <4>3. Swept(top, ls, ws)'
        BY <3>1, <3>4, <4>2, SweepStands DEF Exists
      <4>4. Swept(Call(c).path, order[c], pending[c])'
        BY <2>1, <4>2, <4>3
      <4>5. QED  BY <2>1, <3>1, <3>3, <4>4 DEF SweepHeld
    <3>5. CASE hit[c] \cap {"made", "removed"} # {}
      BY <3>1, <3>5 DEF SweepHeld
    <3>6. CASE order[c] = <<>> /\ pending[c] = <<Call(c).path>>
      <4>1. n = 1 /\ x = Call(c).path
        BY <3>6
      <4>2. order'[c] = <<x>> /\ pending'[c] = found
        <5>1. SubSeq(pending[c], 1, n - 1) = <<>>
          BY <2>1, <4>1
        <5>2. <<>> \o found = found /\ Append(<<>>, x) = <<x>>
          BY <3>2
        <5>3. QED  BY <3>1, <3>6, <5>1, <5>2
      <4>3. Swept(x, <<x>>, found)
        BY <2>3, <3>2, SweepBegins
      <4>4. QED  BY <3>4, <4>1, <4>2, <4>3
    <3>7. CASE Swept(Call(c).path, order[c], pending[c])
      BY <2>1, <2>3, <3>1, <3>4, <3>7, SweepGoesOn
    <3>8. QED  BY <2>1, <3>5, <3>6, <3>7 DEF SweepHeld
  <2>4. QED  BY <2>2, <2>3
<1>4. CASE Unlink(c)
  <2>1. /\ pc[c] = "unlink" /\ order[c] # <<>> /\ hit'[c] = hit[c]
        /\ order[c] \in Seq(Paths) /\ Call(c).path \in Paths
    BY <1>1, <1>4, OwnHit, CallerType
       DEF Unlink, At, AtHand, CallTypeOK, Begin
  <2> SUFFICES ASSUME pc'[c] = "unlink", Call(c)'.kind = "delete_tree",
                      hit[c] \cap {"made", "removed"} = {}
               PROVE  Swept(Call(c).path, order[c], pending[c])'
                      /\ pending'[c] = <<>>
    <3>1. pc'[c] # "list"
      BY <1>1, <1>4, <2>1 DEF Unlink, Proceed, Goto, Fail, CallTypeOK
    <3>2. QED  BY <2>1, <3>1 DEF SweepHeld
  <2>2. /\ Rmdir(order[c][Len(order[c])]) /\ Len(order[c]) # 1
        /\ order'[c] = SubSeq(order[c], 1, Len(order[c]) - 1)
        /\ pending' = pending /\ Call(c)' = Call(c)
    BY <1>1, <1>4, <2>1 DEF Unlink, Proceed, Goto, Fail, CallTypeOK, Call
  <2>3. Swept(Call(c).path, order[c], <<>>) /\ pending[c] = <<>>
    BY <2>1, <2>2 DEF SweepHeld
  <2>4. PICK top \in Paths, ls \in Seq(Paths) :
           top = Call(c).path /\ ls = order[c]
    BY <2>1
  <2>5. PICK rest \in {SubSeq(ls, 1, Len(ls) - 1)} :
           Swept(top, rest, <<>>)' /\ rest = order'[c]
    BY <1>1, <2>1, <2>2, <2>3, <2>4, SweepRemoves
  <2>6. QED  BY <2>2, <2>3, <2>4, <2>5
<1>5. CASE ~ (Begin(c) \/ ListDir(c) \/ Unlink(c))
  <2>1. ASSUME NEW l, l \notin {"list", "unlink"}, Goto(c, l) \/ Proceed(c, l)
        PROVE  pc'[c] \notin {"list", "unlink"}
    BY <1>1, <2>1 DEF Goto, Proceed, CallTypeOK
  <2>2. ASSUME Fail(c) \/ Descend(c) PROVE pc'[c] \notin {"list", "unlink"}
    BY <2>1, <2>2 DEF Fail, Descend
  <2>3. CASE OpenChild(c) \/ MakeChild(c) \/ ReopenChild(c) \/ ChmodChild(c)
    <3>1. pc'[c] \notin {"list", "unlink"}
      BY <2>1, <2>2, <2>3 DEF OpenChild, MakeChild, ReopenChild, ChmodChild
    <3>2. QED  BY <3>1 DEF SweepHeld
  <2>4. CASE ChownLeaf(c) \/ ChmodLeaf(c) \/ EnableControllers(c)
             \/ AttachPid(c) \/ OpenProcs(c) \/ Enter(c)
    <3>1. pc'[c] \notin {"list", "unlink"}
      BY <2>1, <2>2, <2>4
         DEF ChownLeaf, ChmodLeaf, EnableControllers, AttachPid, OpenProcs, Enter
    <3>2. QED  BY <3>1 DEF SweepHeld
  <2>5. CASE HandOver(c)
    <3>1. pc[c] = "control" /\ AfterControls(Call(c)) \notin {"list", "unlink"}
      BY <2>5 DEF HandOver, At, AfterControls
    <3>2. pc'[c] \notin {"list", "unlink"}
      BY <2>1, <2>2, <2>5, <3>1 DEF HandOver
    <3>3. QED  BY <3>2 DEF SweepHeld
  <2>6. QED  BY <1>5, <2>3, <2>4, <2>5 DEF Step
<1>6. QED  BY <1>2, <1>3, <1>4, <1>5

LEMMA SweepInit == Init => SweepInv
BY DEF Init, SweepInv, SweepHeld

LEMMA SweepNext == TypeInv /\ SweepInv /\ [Next]_vars => SweepInv'
<1> SUFFICES ASSUME TypeInv, SweepInv, [Next]_vars PROVE SweepInv'
  OBVIOUS
<1>1. ASSUME UNCHANGED <<dirs, script, ip, pc, pending, order, hit>>
      PROVE  SweepInv'
  BY <1>1 DEF SweepInv, SweepHeld, Call, Swept, In, NoTwice, Under, Exists
<1>2. CASE UNCHANGED vars
  BY <1>1, <1>2 DEF vars, treeVars
<1>3. ASSUME NEW c \in Callers, Step(c) PROVE SweepInv'
  BY <1>3, SweepOwn, SweepOthers DEF SweepInv
<1>4. ASSUME NEW c \in Callers, Kill(c) PROVE SweepInv'
  BY <1>1, <1>4 DEF Kill, treeVars
<1>5. ASSUME NEW q \in Pids, ProcessExits(q) PROVE SweepInv'
  BY <1>1, <1>5 DEF ProcessExits, Exit, callVars
<1>6. QED  BY <1>2, <1>3, <1>4, <1>5 DEF Next

(* A delete_tree that fails found its path missing or a process below it,  *)
(* or somebody else made or removed something there meanwhile.             *)
THEOREM DeleteTreesComplete == Spec => DeleteTreeCompletes
<1>1. ASSUME TypeInv, SweepInv, Next, NEW c \in Callers, Fails(c),
             Call(c).kind = "delete_tree",
             hit[c] \cap {"made", "removed"} = {}, Exists(Call(c).path)
      PROVE  \E p \in Paths : Under(p, Call(c).path) /\ Members(p) # {}
  <2>1. CallTypeOK /\ AtHand(c) /\ SweepHeld(c)
    BY <1>1 DEF TypeInv, TypeOK, SweepInv
  <2>2. Step(c)
    <3>1. ASSUME NEW b \in Callers, Step(b), b # c PROVE FALSE
      BY <1>1, <2>1, <3>1, StepOthers DEF OnlyFor, Fails
    <3>2. QED
      BY <1>1, <3>1 DEF Next, Fails, Kill, ProcessExits, callVars
  <2>3. ListDir(c) \/ Unlink(c)
    <3>1. ~ Begin(c)
      BY <1>1, <2>1 DEF Begin, Goto, Fails, CallTypeOK
    <3>2. QED
      BY <1>1, <2>1, <2>2, <3>1
         DEF Step, OpenChild, MakeChild, ReopenChild, ChmodChild, ChownLeaf,
             ChmodLeaf, HandOver, EnableControllers, AttachPid, OpenProcs,
             Enter, At, AtHand
  <2>4. PICK top \in Paths : top = Call(c).path
    BY <1>1, <2>3, CallerType DEF ListDir, Unlink, At
  <2>5. CASE ListDir(c)
    <3>1. /\ pc[c] = "list" /\ pending[c] # <<>> /\ pending[c] \in Seq(Paths)
      BY <2>1, <2>5 DEF ListDir, At, AtHand, CallTypeOK
    <3>2. PICK x \in Paths : x = pending[c][Len(pending[c])] /\ In(x, pending[c])
      BY <3>1, PopType DEF In
    <3>3. ~ Exists(x)
      BY <1>1, <2>1, <2>5, <3>2 DEF ListDir, Goto, Fails, CallTypeOK
    <3>4. Exists(x)
      <4>1. CASE pending[c] = <<Call(c).path>>
        BY <1>1, <3>2, <4>1
      <4>2. CASE Swept(Call(c).path, order[c], pending[c])
        BY <3>2, <4>2 DEF Swept
      <4>3. QED  BY <1>1, <2>1, <3>1, <4>1, <4>2 DEF SweepHeld
    <3>5. QED  BY <3>3, <3>4
  <2>6. CASE Unlink(c)
    <3>1. /\ pc[c] = "unlink" /\ order[c] # <<>> /\ order[c] \in Seq(Paths)
      BY <2>1, <2>6 DEF Unlink, At, AtHand, CallTypeOK
    <3>2. Swept(top, order[c], <<>>)
      BY <1>1, <2>1, <2>4, <3>1 DEF SweepHeld
    <3>3. PICK x \in Paths : /\ x = order[c][Len(order[c])] /\ Exists(x)
                             /\ Under(x, top) /\ Children(x) = {}
      BY <3>1, <3>2, LastIsEmpty
    <3>4. ~ Removable(x)
      BY <1>1, <2>1, <2>6, <3>1, <3>3
         DEF Unlink, Proceed, Goto, Fails, CallTypeOK
    <3>5. QED  BY <2>4, <3>3, <3>4 DEF Removable
  <2>7. QED  BY <2>3, <2>5, <2>6
<1>2. TypeInv /\ SweepInv /\ [Next]_vars
      => [\A c \in Callers :
            /\ Fails(c) /\ Call(c).kind = "delete_tree"
            /\ hit[c] \cap {"made", "removed"} = {}
            => \/ \E p \in Paths : Under(p, Call(c).path) /\ Members(p) # {}
               \/ ~ Exists(Call(c).path)]_vars
  BY <1>1
<1>3. QED
  BY <1>2, TypeInit, TypeNext, SweepInit, SweepNext, PTL
     DEF Spec, DeleteTreeCompletes
=============================================================================
