----------------------------- MODULE TextProofs -----------------------------
(***************************************************************************)
(* For every configuration text: what the parser makes of it survives      *)
(* being written and read again.                                           *)
(***************************************************************************)
EXTENDS ConfigTextProperties, SequenceLemmas

-----------------------------------------------------------------------------
(* What a parsed file is.                                                  *)

PlainHead(w) == w \notin Unwritable /\ w \notin Special \ Hashed

IsSet(set) ==
    /\ set = [uid |-> set.uid, gid |-> set.gid,
              dperm |-> set.dperm, fperm |-> set.fperm]
    /\ set.uid \notin Unwritable /\ set.gid \notin Unwritable
    /\ {set.dperm, set.fperm} \subseteq DOMAIN Digits \cup {NoVal}

IsPerm(perm) ==
    perm # NoVal => /\ perm = [task |-> perm.task, admin |-> perm.admin]
                    /\ IsSet(perm.task) /\ IsSet(perm.admin)

IsParam(p) == /\ p = <<p[1], p[2], p[3]>>
              /\ PlainHead(p[1]) /\ p[2] \notin Unwritable /\ p[3] \notin Unwritable

IsNode(n) ==
    /\ n = [name |-> n.name, perm |-> n.perm, controllers |-> n.controllers,
            params |-> n.params]
    /\ n.name \notin Unwritable
    /\ IsPerm(n.perm)
    /\ n.controllers \in Seq(ToSet(n.controllers)) /\ IsInjective(n.controllers)
    /\ \A c \in ToSet(n.controllers) : PlainHead(c) /\ c # "perm"
    /\ n.params \in Seq(ToSet(n.params))
    /\ \A p \in ToSet(n.params) : IsParam(p)

AreNodes(nodes) == /\ nodes \in Seq(ToSet(nodes))
                   /\ \A n \in ToSet(nodes) : IsNode(n)

AreMounts(mounts) ==
    /\ mounts \in Seq(ToSet(mounts))
    /\ \A m \in ToSet(mounts) : /\ m = [controller |-> m.controller, path |-> m.path]
                                /\ m.controller \notin Unwritable
                                /\ m.path \notin Unwritable

IsFile(c) ==
    /\ c = [mounts |-> c.mounts, default |-> c.default,
            groups |-> c.groups, templates |-> c.templates]
    /\ AreMounts(c.mounts) /\ IsPerm(c.default)
    /\ AreNodes(c.groups) /\ AreNodes(c.templates)

-----------------------------------------------------------------------------
(* What is read of a text is such a file.                                  *)

LEMMA PermBlocksKept ==
    ASSUME NEW A, NEW s \in Seq(A)
    PROVE  Those(s, ReadsPerm) = Kept(s, {b \in A : ReadsPerm(b)})
<1>1. \A i \in DOMAIN s : s[i] \in A
  OBVIOUS
<1>2. QED  BY <1>1 DEF Those, Kept, KeptParts

LEMMA ControlBlocksKept ==
    ASSUME NEW A, NEW s \in Seq(A)
    PROVE  Those(s, LAMBDA b : ~ ReadsPerm(b)) = Kept(s, {b \in A : ~ ReadsPerm(b)})
<1>1. \A i \in DOMAIN s : s[i] \in A
  OBVIOUS
<1>2. QED  BY <1>1 DEF Those, Kept, KeptParts

LEMMA MarkersKept ==
    ASSUME NEW A, NEW s \in Seq(A)
    PROVE  Those(s, LAMBDA b : b.rows = <<>>) = Kept(s, {b \in A : b.rows = <<>>})
<1>1. \A i \in DOMAIN s : s[i] \in A
  OBVIOUS
<1>2. QED  BY <1>1 DEF Those, Kept, KeptParts

LEMMA SectionsKept ==
    ASSUME NEW A, NEW t \in Seq(A), NEW kw
    PROVE  SectionsOf(t, kw) = Kept(t, {s \in A : s.kw = kw})
<1>1. \A i \in DOMAIN t : t[i] \in A
  OBVIOUS
<1>2. QED  BY <1>1 DEF SectionsOf, Those, Kept, KeptParts

LEMMA StatedKept ==
    ASSUME NEW A, NEW s \in Seq(A)
    PROVE  Stated(s) = Kept(s, {r \in A : r.value.text # NoVal})
<1>1. \A i \in DOMAIN s : s[i] \in A
  OBVIOUS
<1>2. QED  BY <1>1 DEF Those, Kept, KeptParts, Stated

LEMMA UnderKept ==
    ASSUME NEW A, NEW s \in Seq(A), NEW c
    PROVE  Under(s, c) = Kept(s, {p \in A : p[1] = c})
<1>1. \A i \in DOMAIN s : s[i] \in A
  OBVIOUS
<1>2. QED  BY <1>1 DEF Those, Kept, KeptParts, Under

(* The value a field has in the end is one of the rows'.                   *)
LEMMA LastStatedIsARow ==
    ASSUME NEW R, NEW rows \in Seq(R), NEW field
    PROVE  \/ /\ \A r \in ToSet(rows) : r.key.text # field
              /\ LastStated(rows, field) = NoVal
           \/ \E r \in ToSet(rows) : /\ r.key.text = field
                                     /\ LastStated(rows, field) = r.value.text
<1> DEFINE at == {i \in DOMAIN rows : rows[i].key.text = field}
<1>1. Len(rows) \in Nat /\ DOMAIN rows = 1..Len(rows)
  OBVIOUS
<1>2. ToSet(rows) = {rows[i] : i \in DOMAIN rows}
  BY DEF ToSet
<1>3. CASE at = {}
  BY <1>2, <1>3 DEF LastStated
<1>4. CASE at # {}
  <2>1. Max(at) \in at
    <3>1. PICK S : S = {Len(rows) - i : i \in at}
      OBVIOUS
    <3>2. S \subseteq Nat /\ S # {}
      BY <1>1, <1>4, <3>1
    <3>3. PICK k \in S : \A j \in S : k <= j
      BY <3>2, FirstPosition
    <3>4. PICK i \in at : k = Len(rows) - i
      BY <3>1
    <3>5. \A j \in at : i >= j
      <4>1. SUFFICES ASSUME NEW j \in at PROVE i >= j
        OBVIOUS
      <4>2. Len(rows) - i <= Len(rows) - j /\ i \in Nat /\ j \in Nat
        BY <1>1, <3>1, <3>3, <3>4
      <4>3. QED  BY <1>1, <4>2
    <3>6. \E x \in at : \A y \in at : x >= y
      BY <3>4, <3>5
    <3> HIDE DEF at
    <3>7. QED  BY <3>6 DEF Max
  <2>2. LastStated(rows, field) = rows[Max(at)].value.text
    BY <1>4 DEF LastStated
  <2>3. PICK i \in at : i = Max(at)
    BY <2>1
  <2>4. rows[i] \in ToSet(rows) /\ rows[i].key.text = field
    BY <1>2
  <2> HIDE DEF at
  <2>5. QED  BY <2>2, <2>3, <2>4
<1>5. QED  BY <1>3, <1>4

GoodRow(r) == /\ ReadsToken(r.key) /\ ReadsToken(r.value) /\ ReadsMode(r)

LEMMA ElementsAreIn ==
    ASSUME NEW A, NEW s \in Seq(A)
    PROVE  ToSet(s) \subseteq A
BY DEF ToSet

LEMMA SetIsRead ==
    ASSUME NEW R, NEW rows \in Seq(R), \A r \in R : GoodRow(r)
    PROVE  IsSet(SetOf(rows))
<1>1. ASSUME NEW field
      PROVE  /\ LastStated(rows, field) \notin Unwritable
             /\ field \in {"dperm", "fperm"} =>
                    LastStated(rows, field) = NoVal
                    \/ LastStated(rows, field) \in DOMAIN Octal
  <2>1. CASE LastStated(rows, field) = NoVal
    BY <2>1, ConfigTextAssumption
  <2>2. ASSUME NEW r \in ToSet(rows), r.key.text = field,
               LastStated(rows, field) = r.value.text
        PROVE  /\ LastStated(rows, field) \notin Unwritable
               /\ field \in {"dperm", "fperm"} => LastStated(rows, field) \in DOMAIN Octal
    <3>1. GoodRow(r)
      BY ElementsAreIn
    <3>2. QED  BY <2>2, <3>1 DEF GoodRow, ReadsToken, ReadsBare, ReadsMode
  <2>3. QED  BY <2>1, <2>2, LastStatedIsARow
<1>2. \A w : w = NoVal \/ w \in DOMAIN Octal => ModeOf(w) \in DOMAIN Digits \cup {NoVal}
  BY ConfigTextAssumption DEF ModeOf
<1>3. /\ LastStated(rows, "uid") \notin Unwritable
      /\ LastStated(rows, "gid") \notin Unwritable
      /\ ModeOf(LastStated(rows, "dperm")) \in DOMAIN Digits \cup {NoVal}
      /\ ModeOf(LastStated(rows, "fperm")) \in DOMAIN Digits \cup {NoVal}
  BY <1>1, <1>2
<1>4. QED  BY <1>3 DEF IsSet, SetOf

LEMMA OwnerRowsType ==
    ASSUME NEW R, NEW B, NEW blocks \in Seq(B), NEW who,
           \A b \in B : /\ b.owners \in Seq(ToSet(b.owners))
                        /\ \A o \in ToSet(b.owners) : o.rows \in Seq(R)
    PROVE  RowsOf(blocks, who) \in Seq(R)
<1> DEFINE inner(b) == [j \in DOMAIN b.owners |->
                           IF b.owners[j].who = who THEN b.owners[j].rows ELSE <<>>]
           outer == [i \in DOMAIN blocks |-> FlattenSeq(inner(blocks[i]))]
<1>1. ASSUME NEW b \in B PROVE FlattenSeq(inner(b)) \in Seq(R)
  <2>1. PICK o : o = b.owners
    OBVIOUS
  <2>2. o \in Seq(ToSet(o)) /\ \A x \in ToSet(o) : x.rows \in Seq(R)
    BY <2>1
  <2>3. Len(o) \in Nat /\ DOMAIN o = 1..Len(o) /\ \A j \in DOMAIN o : o[j] \in ToSet(o)
    BY <2>2
  <2>4. \A j \in DOMAIN o : o[j].rows \in Seq(R)
    BY <2>2, <2>3
  <2>5. <<>> \in Seq(R)
    OBVIOUS
  <2>6. [j \in DOMAIN o |-> IF o[j].who = who THEN o[j].rows ELSE <<>>] \in [1..Len(o) -> Seq(R)]
    BY <2>3, <2>4, <2>5
  <2>7. [j \in DOMAIN o |-> IF o[j].who = who THEN o[j].rows ELSE <<>>] \in Seq(Seq(R))
    BY <2>3, <2>6
  <2>8. QED  BY <2>1, <2>7, FlattenType
<1>2. /\ Len(blocks) \in Nat /\ DOMAIN blocks = 1..Len(blocks)
      /\ \A i \in DOMAIN blocks : blocks[i] \in B
  OBVIOUS
<1> HIDE DEF inner
<1>3. outer \in [1..Len(blocks) -> Seq(R)]
  BY <1>1, <1>2
<1>4. outer \in Seq(Seq(R))
  BY <1>2, <1>3
<1>5. FlattenSeq(outer) \in Seq(R)
  BY <1>4, FlattenType
<1>6. QED  BY <1>5 DEF RowsOf, inner

LEMMA PermIsRead ==
    ASSUME NEW B, NEW blocks \in Seq(B), \A b \in B : IsBlock(b)
    PROVE  IsPerm(PermOf(blocks))
<1> DEFINE P == {b \in B : ReadsPerm(b)}
<1>1. PICK perms : perms = Those(blocks, ReadsPerm)
  OBVIOUS
<1>2. perms \in Seq(P)
  <2>1. Kept(blocks, P) \in Seq(B \cap P)
    BY KeptType
  <2>2. B \cap P = P
    OBVIOUS
  <2> HIDE DEF P
  <2>3. QED  BY <1>1, <2>1, <2>2, PermBlocksKept DEF P
<1> DEFINE All == UNION {UNION {ToSet(o.rows) : o \in ToSet(b.owners)} : b \in P}
           R   == {r \in All : GoodRow(r)}
<1>3. \A b \in P : /\ b.owners \in Seq(ToSet(b.owners))
                   /\ \A o \in ToSet(b.owners) : o.rows \in Seq(R)
  <2>1. SUFFICES ASSUME NEW b \in P, NEW o \in ToSet(b.owners)
                 PROVE  b.owners \in Seq(ToSet(b.owners)) /\ o.rows \in Seq(R)
    BY DEF IsBlock
  <2>2. IsBlock(b) /\ ReadsPerm(b)
    OBVIOUS
  <2>3. b.owners \in Seq(ToSet(b.owners)) /\ AreRows(o.rows)
    BY <2>2 DEF IsBlock
  <2>4. PICK rows : rows = o.rows /\ rows \in Seq(ToSet(rows))
    BY <2>3 DEF AreRows
  <2>5. PICK i \in DOMAIN b.owners : o = b.owners[i]
    BY DEF ToSet
  <2>6. ReadsOwner(o)
    BY <2>2, <2>5 DEF ReadsPerm
  <2>7. Len(rows) \in Nat /\ DOMAIN rows = 1..Len(rows) /\ \A k \in 1..Len(rows) : rows[k] \in ToSet(rows)
    BY <2>4
  <2>8. \A k \in 1..Len(rows) : GoodRow(rows[k])
    BY <2>4, <2>6, <2>7 DEF ReadsOwner, ReadsRows, GoodRow
  <2>9. \A x \in ToSet(rows) : x \in All
    BY <2>4
  <2>10. \A k \in 1..Len(rows) : rows[k] \in R
    BY <2>7, <2>8, <2>9
  <2> HIDE DEF R, P
  <2>11. rows \in Seq(R)
    <3>1. ToSet(rows) \subseteq R
      BY <2>7, <2>10 DEF ToSet
    <3>2. QED  BY <2>4, <3>1, NarrowSeq
  <2>12. QED  BY <2>3, <2>4, <2>11
<1>4. \A r \in R : GoodRow(r)
  OBVIOUS
<1> HIDE DEF R, P
<1>5. ASSUME NEW who PROVE IsSet(SetOf(RowsOf(perms, who)))
  <2>1. RowsOf(perms, who) \in Seq(R)
    BY <1>2, <1>3, OwnerRowsType
  <2>2. QED  BY <1>4, <2>1, SetIsRead
<1>6. PermOf(blocks) = IF perms = <<>> THEN NoVal
                       ELSE [task  |-> SetOf(RowsOf(perms, "task")),
                             admin |-> SetOf(RowsOf(perms, "admin"))]
  BY <1>1 DEF PermOf
<1>7. QED  BY <1>5, <1>6 DEF IsPerm

-----------------------------------------------------------------------------
(* Firsts.                                                                 *)

IsFirst(s, i) == \A j \in 1..(i - 1) : s[j] # s[i]
FirstParts(s) == [i \in DOMAIN s |-> IF IsFirst(s, i) THEN <<s[i]>> ELSE <<>>]

AreFirstParts(k, s) ==
    /\ Firsts(s) = FlattenSeq(k) /\ Len(k) = Len(s)
    /\ \A i \in 1..Len(s) : k[i] = IF IsFirst(s, i) THEN <<s[i]>> ELSE <<>>

LEMMA FirstPartsType ==
    ASSUME NEW A, NEW s \in Seq(A)
    PROVE  \E k \in Seq(Seq(A)) : AreFirstParts(k, s)
<1> DEFINE k == FirstParts(s)
<1>1. /\ Len(s) \in Nat /\ DOMAIN s = 1..Len(s) /\ \A i \in 1..Len(s) : s[i] \in A
  OBVIOUS
<1>2. /\ \A i \in 1..Len(s) : k[i] = IF IsFirst(s, i) THEN <<s[i]>> ELSE <<>>
      /\ k = [i \in 1..Len(s) |-> k[i]]
  BY <1>1 DEF FirstParts
<1>3. \A x \in A : <<x>> \in Seq(A)
  OBVIOUS
<1>4. <<>> \in Seq(A)
  OBVIOUS
<1>5. Firsts(s) = FlattenSeq(k)
  BY DEF Firsts, FirstParts, IsFirst
<1> HIDE DEF k
<1>6. \A i \in 1..Len(s) : k[i] \in Seq(A)
  BY <1>1, <1>2, <1>3, <1>4
<1>7. k \in [1..Len(s) -> Seq(A)]
  BY <1>2, <1>6
<1>8. k \in Seq(Seq(A)) /\ Len(k) = Len(s)
  BY <1>1, <1>7
<1>9. QED  BY <1>2, <1>5, <1>8 DEF AreFirstParts

LEMMA FirstsOf ==
    ASSUME NEW A, NEW s \in Seq(A)
    PROVE  /\ Firsts(s) \in Seq(A) /\ IsInjective(Firsts(s))
           /\ ToSet(Firsts(s)) = ToSet(s)
<1>0. PICK m \in Nat : m = Len(s) /\ DOMAIN s = 1..m
  OBVIOUS
<1>1. PICK k \in Seq(Seq(A)) :
          /\ Firsts(s) = FlattenSeq(k) /\ Len(k) = m
          /\ \A i \in 1..m : k[i] = IF IsFirst(s, i) THEN <<s[i]>> ELSE <<>>
  <2>1. PICK k \in Seq(Seq(A)) : AreFirstParts(k, s)
    BY FirstPartsType
  <2>2. QED  BY <1>0, <2>1 DEF AreFirstParts
<1>2. PICK f \in [0..m -> Seq(A)] :
          /\ f[0] = <<>>
          /\ \A i \in 1..m : f[i] = f[i-1] \o k[i]
          /\ f[m] = FlattenSeq(k)
  <2>1. PICK f \in [0..Len(k) -> Seq(A)] :
            /\ f[0] = <<>>
            /\ \A i \in 1..Len(k) : f[i] = f[i-1] \o k[i]
            /\ f[Len(k)] = FlattenSeq(k)
    BY Flattening
  <2>2. Len(k) = m
    BY <1>1
  <2>3. QED  BY <2>1, <2>2, Zenon
<1> DEFINE U(n) == {s[i] : i \in 1..n}
           T == {n \in Nat : IsInjective(f[n]) /\ ToSet(f[n]) = U(n)}
<1>3. 0 \in T
  <2>1. ToSet(<<>>) = {} /\ 1..0 = {} /\ IsInjective(<<>>)
    BY DEF ToSet, IsInjective
  <2>2. QED  BY <1>2, <2>1
<1>4. ASSUME NEW n \in 0..(m - 1), n \in T PROVE n + 1 \in T
  <2>1. /\ n + 1 \in 1..m /\ (n + 1) - 1 = n /\ n + 1 \in Nat /\ n \in 0..m
        /\ 1..(n + 1) = (1..n) \cup {n + 1}
    BY <1>0
  <2>2. PICK x \in Seq(A) : x = f[n] /\ IsInjective(x) /\ ToSet(x) = U(n)
    <3>1. f[n] \in Seq(A)
      BY <1>2, <2>1
    <3>2. QED  BY <1>4, <3>1
  <2>3. PICK e : e = s[n + 1] /\ e \in A
    BY <1>0, <2>1
  <2>4. U(n + 1) = U(n) \cup {e}
    BY <2>1, <2>3
  <2>5. IsFirst(s, n + 1) <=> e \notin U(n)
    BY <2>1, <2>3 DEF IsFirst
  <2>6. CASE e \in U(n)
    <3>1. f[n + 1] = x \o <<>>
      BY <1>1, <1>2, <2>1, <2>2, <2>5, <2>6
    <3>2. x \o <<>> = x
      BY JoinEmpty
    <3>3. U(n + 1) = U(n)
      BY <2>4, <2>6
    <3>4. QED  BY <2>1, <2>2, <3>1, <3>2, <3>3
  <2>7. CASE e \notin U(n)
    <3>1. f[n + 1] = x \o <<e>>
      BY <1>1, <1>2, <2>1, <2>2, <2>3, <2>5, <2>7
    <3>2. PICK y \in Seq(A) : y = <<e>> /\ ToSet(y) = {e} /\ IsInjective(y)
      <4>1. <<e>> \in Seq(A) /\ ToSet(<<e>>) = {e} /\ IsInjective(<<e>>)
        BY <2>3 DEF ToSet, IsInjective
      <4>2. QED  BY <4>1
    <3>3. ToSet(x) \cap ToSet(y) = {}
      BY <2>2, <2>7, <3>2
    <3>4. IsInjective(x \o y) /\ ToSet(x \o y) = ToSet(x) \cup ToSet(y)
      BY <2>2, <3>2, <3>3, ElementsOfJoin
    <3>5. ToSet(x \o y) = U(n + 1)
      BY <2>2, <2>4, <3>2, <3>4
    <3>6. QED  BY <2>1, <3>1, <3>2, <3>4, <3>5
  <2>8. QED  BY <2>6, <2>7
<1>5. 0..m \subseteq T
  <2> HIDE DEF T
  <2>1. QED  BY <1>0, <1>3, <1>4, InductionUpTo
<1>6. m \in T /\ f[m] \in Seq(A)
  <2>1. m \in 0..m
    BY <1>0
  <2>2. QED  BY <1>2, <1>5, <2>1
<1>7. ToSet(s) = U(m)
  BY <1>0 DEF ToSet
<1>8. QED  BY <1>1, <1>2, <1>6, <1>7

LEMMA FirstsOfInjective ==
    ASSUME NEW A, NEW s \in Seq(A), IsInjective(s)
    PROVE  Firsts(s) = s
<1>1. \A i \in DOMAIN s : \A j \in 1..(i - 1) : s[j] # s[i]
  <2>1. SUFFICES ASSUME NEW i \in DOMAIN s, NEW j \in 1..(i - 1) PROVE s[j] # s[i]
    OBVIOUS
  <2>2. j \in DOMAIN s /\ j # i
    OBVIOUS
  <2>3. QED  BY <2>2 DEF IsInjective
<1>2. Firsts(s) = FlattenSeq([i \in DOMAIN s |-> <<s[i]>>])
  BY <1>1 DEF Firsts
<1>3. QED  BY <1>2, FlattenSingles

(* One more word, however often, adds itself once.                         *)
AddsOne(x, y, c) == Firsts(x \o y) = Firsts(x) \o <<c>>

LEMMA FirstsOfOneMore ==
    ASSUME NEW A, NEW x \in Seq(A), NEW y \in Seq(A), NEW c \in A,
           y # <<>>, ToSet(y) = {c}, c \notin ToSet(x)
    PROVE  AddsOne(x, y, c)
<1>0. PICK l \in Nat, m \in Nat \ {0} : /\ l = Len(x) /\ DOMAIN x = 1..l
                                        /\ m = Len(y) /\ DOMAIN y = 1..m
  OBVIOUS
<1>1. PICK b \in Seq(A) : /\ b = x \o y /\ Len(b) = l + m
                          /\ \A i \in 1..l : b[i] = x[i]
                          /\ \A i \in 1..m : b[l + i] = y[i]
  <2>1. PICK b \in Seq(A) : IsJoin(b, x, y)
    BY Joined
  <2>2. QED  BY <1>0, <2>1 DEF IsJoin
<1>2. \A i \in 1..m : y[i] = c
  BY <1>0 DEF ToSet
<1>3. \A i \in 1..l : x[i] # c
  BY <1>0 DEF ToSet
<1>4. PICK p \in Seq(Seq(A)) :
          /\ Firsts(x) = FlattenSeq(p) /\ Len(p) = l
          /\ \A i \in 1..l : p[i] = IF IsFirst(x, i) THEN <<x[i]>> ELSE <<>>
  <2>1. PICK p \in Seq(Seq(A)) : AreFirstParts(p, x)
    BY FirstPartsType
  <2>2. QED  BY <1>0, <2>1 DEF AreFirstParts
<1>5. PICK q \in Seq(Seq(A)) :
          /\ Firsts(b) = FlattenSeq(q) /\ Len(q) = l + m
          /\ \A i \in 1..(l + m) : q[i] = IF IsFirst(b, i) THEN <<b[i]>> ELSE <<>>
  <2>1. PICK q \in Seq(Seq(A)) : AreFirstParts(q, b)
    BY FirstPartsType
  <2>2. QED  BY <1>1, <2>1 DEF AreFirstParts
<1> DEFINE r == [i \in 1..m |-> IF i = 1 THEN <<c>> ELSE <<>>]
<1>6. r \in Seq(Seq(A)) /\ Len(r) = m
      /\ \A i \in 1..m : r[i] = IF i = 1 THEN <<c>> ELSE <<>>
  <2>1. <<c>> \in Seq(A) /\ <<>> \in Seq(A)
    OBVIOUS
  <2>2. r \in [1..m -> Seq(A)]
    BY <2>1
  <2>3. \A i \in 1..m : r[i] = IF i = 1 THEN <<c>> ELSE <<>>
    OBVIOUS
  <2> HIDE DEF r
  <2>4. QED  BY <1>0, <2>2, <2>3, ListedIsSeq
<1> HIDE DEF r
<1>7. FlattenSeq(r) = <<c>>
  <2>1. OnlyAt(r, 1) /\ r[1] = <<c>>
    BY <1>0, <1>6 DEF OnlyAt
  <2>2. FlattenSeq(r) = r[1]
    BY <1>6, <2>1, FlattenAlone
  <2>3. QED  BY <2>1, <2>2
<1>8. PICK d \in Seq(Seq(A)) : /\ d = p \o r /\ Len(d) = l + m
                               /\ \A i \in 1..l : d[i] = p[i]
                               /\ \A i \in 1..m : d[l + i] = r[i]
  <2>1. PICK d \in Seq(Seq(A)) : IsJoin(d, p, r)
    BY <1>6, Joined
  <2>2. QED  BY <1>4, <1>6, <2>1 DEF IsJoin
<1>9. ASSUME NEW i \in 1..(l + m) PROVE q[i] = d[i]
  <2>1. CASE i \in 1..l
    <3>1. \A j \in 1..(i - 1) : b[j] = x[j] /\ b[i] = x[i]
      BY <1>1, <2>1
    <3>2. IsFirst(b, i) <=> IsFirst(x, i)
      BY <3>1 DEF IsFirst
    <3>3. b[i] = x[i]
      BY <1>1, <2>1
    <3>4. QED  BY <1>4, <1>5, <1>8, <2>1, <3>2, <3>3
  <2>2. CASE i = l + 1
    <3>1. 1 \in 1..m /\ b[i] = c
      BY <1>0, <1>1, <1>2, <2>2
    <3>2. \A j \in 1..(i - 1) : j \in 1..l
      BY <2>2
    <3>3. IsFirst(b, i)
      BY <1>1, <1>3, <3>1, <3>2 DEF IsFirst
    <3>4. q[i] = <<c>> /\ d[i] = <<c>>
      BY <1>5, <1>6, <1>8, <2>2, <3>1, <3>3
    <3>5. QED  BY <3>4
  <2>3. CASE i > l + 1
    <3>1. PICK j \in 1..m : i = l + j /\ j # 1
      <4>1. i - l \in 1..m /\ i = l + (i - l) /\ i - l # 1
        BY <2>3
      <4>2. QED  BY <4>1
    <3>2. b[i] = c /\ b[l + 1] = c /\ l + 1 \in 1..(i - 1)
      BY <1>0, <1>1, <1>2, <2>3, <3>1
    <3>3. ~ IsFirst(b, i)
      BY <3>2 DEF IsFirst
    <3>4. q[i] = <<>> /\ d[i] = <<>>
      BY <1>5, <1>6, <1>8, <3>1, <3>3
    <3>5. QED  BY <3>4
  <2>4. QED  BY <2>1, <2>2, <2>3
<1>10. q = d
  BY <1>5, <1>8, <1>9, SamePointwise, ZenonT(25)
<1>11. FlattenSeq(p \o r) = FlattenSeq(p) \o FlattenSeq(r)
  BY <1>6, FlattenJoin
<1>12. QED  BY <1>1, <1>4, <1>5, <1>7, <1>8, <1>10, <1>11 DEF AddsOne

(* Words grouped by the order of their first places.                       *)
AreGroups(s, c) ==
    Len(s) = Len(c) /\ \A i \in DOMAIN c : s[i] # <<>> /\ ToSet(s[i]) = {c[i]}

LEMMA FirstsOfGroups ==
    ASSUME NEW A, NEW c \in Seq(A), IsInjective(c), NEW s \in Seq(Seq(A)),
           AreGroups(s, c)
    PROVE  Firsts(FlattenSeq(s)) = c
<1>0. PICK m \in Nat : m = Len(s) /\ m = Len(c) /\ DOMAIN c = 1..m
  BY DEF AreGroups
<1>1. PICK f \in [0..m -> Seq(A)] :
          /\ f[0] = <<>>
          /\ \A i \in 1..m : f[i] = f[i-1] \o s[i]
          /\ f[m] = FlattenSeq(s)
  <2>1. PICK f \in [0..Len(s) -> Seq(A)] :
            /\ f[0] = <<>>
            /\ \A i \in 1..Len(s) : f[i] = f[i-1] \o s[i]
            /\ f[Len(s)] = FlattenSeq(s)
    BY Flattening
  <2>2. Len(s) = m
    BY <1>0
  <2>3. QED  BY <2>1, <2>2, Zenon
<1> DEFINE u == [i \in DOMAIN c |-> <<c[i]>>]
<1>2. u \in Seq(Seq(A)) /\ Len(u) = m /\ \A i \in 1..m : u[i] = <<c[i]>>
  <2>1. \A i \in 1..m : c[i] \in A
    BY <1>0
  <2>2. \A x \in A : <<x>> \in Seq(A)
    OBVIOUS
  <2>3. u \in [1..m -> Seq(A)] /\ \A i \in 1..m : u[i] = <<c[i]>>
    BY <1>0, <2>1, <2>2
  <2> HIDE DEF u
  <2>4. QED  BY <1>0, <2>3, ListedIsSeq
<1>3. FlattenSeq(u) = c
  BY FlattenSingles
<1> HIDE DEF u
<1>4. PICK g \in [0..m -> Seq(A)] :
          /\ g[0] = <<>>
          /\ \A i \in 1..m : g[i] = g[i-1] \o u[i]
          /\ g[m] = FlattenSeq(u)
  <2>1. PICK g \in [0..Len(u) -> Seq(A)] :
            /\ g[0] = <<>>
            /\ \A i \in 1..Len(u) : g[i] = g[i-1] \o u[i]
            /\ g[Len(u)] = FlattenSeq(u)
    BY <1>2, Flattening
  <2>2. Len(u) = m
    BY <1>2
  <2>3. QED  BY <2>1, <2>2, Zenon
<1> DEFINE U(n) == {c[i] : i \in 1..n}
           T == {n \in Nat : Firsts(f[n]) = g[n] /\ ToSet(f[n]) = U(n)}
<1>5. 0 \in T
  <2>1. ToSet(<<>>) = {} /\ 1..0 = {} /\ IsInjective(<<>>) /\ <<>> \in Seq(A)
    BY DEF ToSet, IsInjective
  <2>2. Firsts(<<>>) = <<>>
    BY <2>1, FirstsOfInjective
  <2>3. QED  BY <1>1, <1>4, <2>1, <2>2
<1>6. ASSUME NEW n \in 0..(m - 1), n \in T PROVE n + 1 \in T
  <2>1. /\ n + 1 \in 1..m /\ (n + 1) - 1 = n /\ n + 1 \in Nat /\ n \in 0..m
        /\ 1..(n + 1) = (1..n) \cup {n + 1}
    BY <1>0
  <2>2. PICK x \in Seq(A), y \in Seq(A), e \in A :
            /\ x = f[n] /\ y = s[n + 1] /\ e = c[n + 1] /\ y # <<>> /\ ToSet(y) = {e}
    <3>1. f[n] \in Seq(A)
      BY <1>1, <2>1
    <3>2. s[n + 1] \in Seq(A) /\ c[n + 1] \in A
      <4>1. DOMAIN s = 1..m
        <5>1. \A x \in Seq(Seq(A)) : DOMAIN x = 1..Len(x)
          OBVIOUS
        <5>2. QED  BY <1>0, <5>1
      <4>2. QED  BY <1>0, <2>1, <4>1
    <3>3. s[n + 1] # <<>> /\ ToSet(s[n + 1]) = {c[n + 1]}
      BY <1>0, <2>1 DEF AreGroups
    <3>4. QED  BY <3>1, <3>2, <3>3
  <2>3. Firsts(x) = g[n] /\ ToSet(x) = U(n)
    BY <1>6, <2>2
  <2>4. e \notin U(n)
    <3>1. SUFFICES ASSUME NEW i \in 1..n, e = c[i] PROVE FALSE
      BY Zenon
    <3>2. i \in DOMAIN c /\ n + 1 \in DOMAIN c /\ i # n + 1
      BY <1>0, <2>1
    <3>3. c[n + 1] = c[i]
      BY <2>2, <3>1
    <3>4. QED  BY <3>2, <3>3 DEF IsInjective
  <2>5. Firsts(x \o y) = g[n] \o <<e>>
    <3>1. e \notin ToSet(x)
      BY <2>3, <2>4
    <3>2. AddsOne(x, y, e)
      BY <2>2, <3>1, FirstsOfOneMore
    <3>3. QED  BY <2>3, <3>2 DEF AddsOne
  <2>6. f[n + 1] = x \o y /\ g[n + 1] = g[n] \o <<e>>
    BY <1>1, <1>2, <1>4, <2>1, <2>2
  <2>7. ToSet(x \o y) = U(n) \cup {e}
    <3>1. ToSet(x \o y) = ToSet(x) \cup ToSet(y)
      BY ElementsOfJoin
    <3>2. QED  BY <2>2, <2>3, <3>1
  <2>8. U(n + 1) = U(n) \cup {e}
    BY <2>1, <2>2
  <2>9. QED  BY <2>1, <2>5, <2>6, <2>7, <2>8
<1>7. 0..m \subseteq T
  <2> HIDE DEF T
  <2>1. QED  BY <1>0, <1>5, <1>6, InductionUpTo
<1>8. m \in T
  <2>1. m \in 0..m
    BY <1>0
  <2>2. QED  BY <1>7, <2>1
<1>9. QED  BY <1>1, <1>3, <1>4, <1>8

-----------------------------------------------------------------------------
(* The nodes, mounts and sections of a text that can be read.              *)

(* What perm_block refuses is a controller's block.                        *)
IsControl(b) ==
    /\ b.owners = <<>> /\ PlainHead(b.head.text)
    /\ b.rows \in Seq(ToSet(b.rows))
    /\ \A r \in ToSet(b.rows) : /\ r.key.text \notin Unwritable
                                /\ r.value.text \notin Unwritable
    /\ b.rows = <<>> => b.head.text # "perm"

LEMMA ControlIsRead ==
    ASSUME NEW b, IsBlock(b), ReadsBlock(b), ~ ReadsPerm(b)
    PROVE  IsControl(b)
<1>1. /\ ReadsBare(b.head) /\ b.owners = <<>> /\ ReadsRows(b.rows)
  BY DEF ReadsBlock, ReadsControl
<1>2. IsToken(b.head) /\ AreRows(b.rows)
  BY DEF IsBlock
<1>3. PlainHead(b.head.text)
  BY <1>1 DEF ReadsBare, PlainHead
<1>4. b.rows \in Seq(ToSet(b.rows))
  BY <1>2 DEF AreRows
<1>5. ASSUME NEW r \in ToSet(b.rows)
      PROVE  r.key.text \notin Unwritable /\ r.value.text \notin Unwritable
  <2>1. PICK i \in DOMAIN b.rows : r = b.rows[i]
    BY DEF ToSet
  <2>2. ReadsToken(r.key) /\ ReadsToken(r.value)
    BY <1>1, <2>1 DEF ReadsRows
  <2>3. QED  BY <2>2 DEF ReadsToken, ReadsBare
<1>6. ASSUME b.rows = <<>>, b.head.text = "perm" PROVE FALSE
  <2>1. b.head.quoted = FALSE
    BY <1>1, <1>2 DEF ReadsBare, IsToken
  <2>2. b.head = Bare("perm")
    BY <1>2, <1>6, <2>1 DEF IsToken, Bare
  <2>3. DOMAIN b.owners = {}
    BY <1>1
  <2>4. QED  BY <1>6, <2>2, <2>3 DEF ReadsPerm
<1>7. QED  BY <1>1, <1>3, <1>4, <1>5, <1>6 DEF IsControl

LEMMA ParamsAreRead ==
    ASSUME NEW b, IsControl(b)
    PROVE  /\ ParamsOf(b) \in Seq(ToSet(ParamsOf(b)))
           /\ \A p \in ToSet(ParamsOf(b)) : IsParam(p)
<1>1. PICK rows : rows = b.rows
  OBVIOUS
<1>2. PICK m \in Nat : m = Len(rows) /\ DOMAIN rows = 1..m
  BY <1>1 DEF IsControl
<1>3. PICK t : t = ParamsOf(b)
  OBVIOUS
<1>4. t = [i \in 1..m |-> <<b.head.text, rows[i].key.text, rows[i].value.text>>]
  BY <1>1, <1>2, <1>3 DEF ParamsOf
<1>5. DOMAIN t = 1..m /\ \A i \in 1..m : t[i] = <<b.head.text, rows[i].key.text, rows[i].value.text>>
  BY <1>4
<1>6. ToSet(t) = {t[i] : i \in 1..m}
  BY <1>5 DEF ToSet
<1>7. t = [i \in 1..m |-> t[i]]
  BY <1>4, <1>5
<1>8. t \in [1..m -> ToSet(t)]
  BY <1>6, <1>7
<1>9. t \in Seq(ToSet(t))
  BY <1>8, ListedIsSeq
<1>10. ASSUME NEW p \in ToSet(t) PROVE IsParam(p)
  <2>1. PICK i \in 1..m : p = <<b.head.text, rows[i].key.text, rows[i].value.text>>
    BY <1>5, <1>6
  <2>2. rows[i] \in ToSet(b.rows)
    BY <1>1, <1>2 DEF ToSet
  <2>3. /\ rows[i].key.text \notin Unwritable /\ rows[i].value.text \notin Unwritable
        /\ PlainHead(b.head.text)
    BY <2>2 DEF IsControl
  <2>4. QED  BY <2>1, <2>3 DEF IsParam
<1>11. QED  BY <1>3, <1>9, <1>10

LEMMA NodeIsRead ==
    ASSUME NEW s, IsSection(s), ReadsSection(s), s.kw \in {"group", "template"}
    PROVE  IsNode(NodeOf(s))
<1> DEFINE B == ToSet(s.blocks)
           C == {b \in B : ~ ReadsPerm(b)}
           M == {b \in C : b.rows = <<>>}
<1>1. PICK blocks \in Seq(B) : blocks = s.blocks
  BY DEF IsSection
<1>2. ReadsToken(s.name) /\ \A i \in DOMAIN s.blocks : ReadsBlock(s.blocks[i])
  BY DEF ReadsSection
<1>3. \A b \in B : IsBlock(b) /\ ReadsBlock(b)
  BY <1>2 DEF IsSection, ToSet
<1>4. \A b \in C : IsControl(b)
  BY <1>3, ControlIsRead
<1>5. \A b \in M : IsControl(b) /\ b.rows = <<>>
  BY <1>4
<1>6. IsPerm(PermOf(s.blocks))
  BY <1>1, <1>3, PermIsRead
<1>7. s.name.text \notin Unwritable
  BY <1>2 DEF ReadsToken, ReadsBare
<1>8. PICK ctl \in Seq(C) : ctl = Those(s.blocks, LAMBDA b : ~ ReadsPerm(b))
  <2>1. Kept(blocks, C) \in Seq(B \cap C)
    BY KeptType
  <2>2. B \cap C = C
    OBVIOUS
  <2>3. Those(blocks, LAMBDA b : ~ ReadsPerm(b)) = Kept(blocks, C)
    BY ControlBlocksKept
  <2> HIDE DEF C
  <2>4. QED  BY <1>1, <2>1, <2>2, <2>3
<1>9. PICK markers \in Seq(M) : markers = Those(ctl, LAMBDA b : b.rows = <<>>)
  <2>1. Kept(ctl, M) \in Seq(C \cap M)
    BY KeptType
  <2>2. C \cap M = M
    OBVIOUS
  <2>3. Those(ctl, LAMBDA b : b.rows = <<>>) = Kept(ctl, M)
    BY MarkersKept
  <2> HIDE DEF M
  <2>4. QED  BY <2>1, <2>2, <2>3
<1> DEFINE names == [i \in DOMAIN markers |-> markers[i].head.text]
           parts == [i \in DOMAIN ctl |-> ParamsOf(ctl[i])]
           H == {b.head.text : b \in M}
           Q == UNION {ToSet(ParamsOf(b)) : b \in C}
<1>10. names \in Seq(H)
  <2>1. PICK m \in Nat : m = Len(markers) /\ DOMAIN markers = 1..m
    OBVIOUS
  <2>2. \A i \in 1..m : markers[i] \in M
    BY <2>1
  <2> HIDE DEF M
  <2>3. names \in [1..m -> H]
    BY <2>1, <2>2
  <2> HIDE DEF names, H
  <2>4. QED  BY <2>3, ListedIsSeq
<1>11. parts \in Seq(Seq(Q))
  <2>1. PICK m \in Nat : m = Len(ctl) /\ DOMAIN ctl = 1..m
    OBVIOUS
  <2>2. \A b \in C : ParamsOf(b) \in Seq(ToSet(ParamsOf(b)))
    BY <1>4, ParamsAreRead
  <2> HIDE DEF C
  <2>3. ASSUME NEW b \in C PROVE ParamsOf(b) \in Seq(Q)
    <3>1. PICK p : p = ParamsOf(b)
      OBVIOUS
    <3>2. p \in Seq(ToSet(p)) /\ ToSet(p) \subseteq Q
      BY <2>2, <3>1
    <3> HIDE DEF Q
    <3>3. QED  BY <3>1, <3>2, NarrowSeq
  <2>4. \A i \in 1..m : ctl[i] \in C
    BY <2>1
  <2> HIDE DEF Q
  <2>5. parts \in [1..m -> Seq(Q)]
    BY <2>1, <2>3, <2>4
  <2> HIDE DEF parts
  <2>6. QED  BY <2>5, ListedIsSeq
<1>12. \A p \in Q : IsParam(p)
  BY <1>4, ParamsAreRead
<1>13. \A w \in H : PlainHead(w) /\ w # "perm"
  BY <1>5 DEF IsControl
<1>14. PICK n : n = NodeOf(s)
  OBVIOUS
<1>15. n = [name |-> s.name.text, perm |-> PermOf(s.blocks),
            controllers |-> Firsts(names), params |-> FlattenSeq(parts)]
  BY <1>8, <1>9, <1>14 DEF NodeOf
<1>16. PICK cs : cs = Firsts(names)
  OBVIOUS
<1>17. PICK ps : ps = FlattenSeq(parts)
  OBVIOUS
<1>18. cs \in Seq(H) /\ IsInjective(cs)
  <2> HIDE DEF names, H
  <2>1. QED  BY <1>10, <1>16, FirstsOf
<1>19. ps \in Seq(Q)
  <2> HIDE DEF parts, Q
  <2>1. QED  BY <1>11, <1>17, FlattenType
<1>20. n.controllers = cs /\ n.params = ps /\ n.perm = PermOf(s.blocks) /\ n.name = s.name.text
  BY <1>15, <1>16, <1>17
<1>21. n = [name |-> n.name, perm |-> n.perm, controllers |-> n.controllers,
            params |-> n.params]
  BY <1>15
<1> HIDE DEF H, Q, names, parts
<1>22. cs \in Seq(ToSet(cs)) /\ ToSet(cs) \subseteq H
  BY <1>18, NarrowSeq, ElementsAreIn
<1>23. ps \in Seq(ToSet(ps)) /\ ToSet(ps) \subseteq Q
  BY <1>19, NarrowSeq, ElementsAreIn
<1>24. /\ \A c \in ToSet(cs) : PlainHead(c) /\ c # "perm"
       /\ \A p \in ToSet(ps) : IsParam(p)
  BY <1>12, <1>13, <1>22, <1>23
<1>25. n.perm = PermOf(s.blocks) /\ IsPerm(n.perm) /\ n.name \notin Unwritable
  BY <1>6, <1>7, <1>20
<1>26. QED  BY <1>14, <1>18, <1>20, <1>21, <1>22, <1>23, <1>24, <1>25 DEF IsNode

LEMMA NodesAreRead ==
    ASSUME NEW t, AreSections(t), \A i \in DOMAIN t : ReadsSection(t[i]),
           NEW kw \in {"group", "template"}
    PROVE  AreNodes(NodesOf(t, kw))
<1> DEFINE A == ToSet(t)
           K == {s \in A : s.kw = kw}
<1>1. t \in Seq(A) /\ \A s \in A : IsSection(s) /\ ReadsSection(s)
  BY DEF AreSections, ToSet
<1>2. PICK ss \in Seq(K) : ss = SectionsOf(t, kw)
  <2>1. Kept(t, K) \in Seq(A \cap K)
    BY <1>1, KeptType
  <2>2. A \cap K = K
    OBVIOUS
  <2>3. SectionsOf(t, kw) = Kept(t, K)
    BY <1>1, SectionsKept
  <2> HIDE DEF K
  <2>4. QED  BY <2>1, <2>2, <2>3
<1>3. \A s \in K : IsNode(NodeOf(s))
  BY <1>1, NodeIsRead
<1>4. PICK m \in Nat : m = Len(ss) /\ DOMAIN ss = 1..m
  OBVIOUS
<1>5. PICK ns : ns = NodesOf(t, kw)
  OBVIOUS
<1>6. ns = [i \in 1..m |-> NodeOf(ss[i])]
  BY <1>2, <1>4, <1>5 DEF NodesOf
<1>7. DOMAIN ns = 1..m /\ ToSet(ns) = {ns[i] : i \in 1..m} /\ ns = [i \in 1..m |-> ns[i]]
  BY <1>6 DEF ToSet
<1>8. ns \in [1..m -> ToSet(ns)]
  BY <1>7
<1>9. ns \in Seq(ToSet(ns))
  BY <1>8, ListedIsSeq
<1>10. ASSUME NEW n \in ToSet(ns) PROVE IsNode(n)
  <2>1. PICK i \in 1..m : n = NodeOf(ss[i])
    BY <1>6, <1>7
  <2>2. ss[i] \in K
    BY <1>4
  <2>3. QED  BY <1>3, <2>1, <2>2
<1>11. QED  BY <1>5, <1>9, <1>10 DEF AreNodes

LEMMA DefaultIsRead ==
    ASSUME NEW t, AreSections(t), \A i \in DOMAIN t : ReadsSection(t[i])
    PROVE  IsPerm(DefaultOf(t))
<1> DEFINE A == ToSet(t)
           K == {s \in A : s.kw = "default"}
<1>1. t \in Seq(A) /\ \A s \in A : IsSection(s)
  BY DEF AreSections
<1>2. PICK ss \in Seq(K) : ss = SectionsOf(t, "default")
  <2>1. Kept(t, K) \in Seq(A \cap K)
    BY <1>1, KeptType
  <2>2. A \cap K = K
    OBVIOUS
  <2>3. SectionsOf(t, "default") = Kept(t, K)
    BY <1>1, SectionsKept
  <2> HIDE DEF K
  <2>4. QED  BY <2>1, <2>2, <2>3
<1>3. CASE ss = <<>>
  BY <1>2, <1>3 DEF DefaultOf, IsPerm
<1>4. CASE ss # <<>>
  <2>1. PICK s : s = Last(ss)
    OBVIOUS
  <2>2. s \in K
    <3> HIDE DEF K
    <3>1. QED  BY <1>4, <2>1 DEF Last
  <2>3. DefaultOf(t) = PermOf(s.blocks)
    BY <1>2, <1>4, <2>1 DEF DefaultOf
  <2>4. IsSection(s)
    BY <1>1, <2>2
  <2>5. s.blocks \in Seq(ToSet(s.blocks)) /\ \A b \in ToSet(s.blocks) : IsBlock(b)
    BY <2>4 DEF IsSection
  <2>6. IsPerm(PermOf(s.blocks))
    BY <2>5, PermIsRead
  <2>7. QED  BY <2>3, <2>6
<1>5. QED  BY <1>3, <1>4

LEMMA MountsAreRead ==
    ASSUME NEW t, AreSections(t), \A i \in DOMAIN t : ReadsSection(t[i])
    PROVE  AreMounts(MountsOf(t))
<1> DEFINE A == ToSet(t)
           K == {s \in A : s.kw = "mount"}
           R == UNION {ToSet(s.rows) : s \in K}
<1>1. t \in Seq(A) /\ \A s \in A : IsSection(s) /\ ReadsSection(s)
  BY DEF AreSections, ToSet
<1>2. PICK ss \in Seq(K) : ss = SectionsOf(t, "mount")
  <2>1. Kept(t, K) \in Seq(A \cap K)
    BY <1>1, KeptType
  <2>2. A \cap K = K
    OBVIOUS
  <2>3. SectionsOf(t, "mount") = Kept(t, K)
    BY <1>1, SectionsKept
  <2> HIDE DEF K
  <2>4. QED  BY <2>1, <2>2, <2>3
<1>3. \A s \in K : AreRows(s.rows) /\ ReadsRows(s.rows)
  BY <1>1 DEF IsSection, ReadsSection
<1>4. \A r \in R : ReadsToken(r.key) /\ ReadsToken(r.value)
  <2>1. SUFFICES ASSUME NEW s \in K, NEW r \in ToSet(s.rows)
                 PROVE  ReadsToken(r.key) /\ ReadsToken(r.value)
    OBVIOUS
  <2>2. PICK i \in DOMAIN s.rows : r = s.rows[i]
    BY DEF ToSet
  <2>3. QED  BY <1>3, <2>2 DEF ReadsRows
<1> DEFINE parts == [i \in DOMAIN ss |-> ss[i].rows]
<1>5. parts \in Seq(Seq(R))
  <2>1. PICK m \in Nat : m = Len(ss) /\ DOMAIN ss = 1..m
    OBVIOUS
  <2>2. ASSUME NEW s \in K PROVE s.rows \in Seq(R)
    <3>1. PICK p : p = s.rows
      OBVIOUS
    <3>2. p \in Seq(ToSet(p)) /\ ToSet(p) \subseteq R
      BY <1>3, <3>1 DEF AreRows
    <3> HIDE DEF R
    <3>3. QED  BY <3>1, <3>2, NarrowSeq
  <2>3. \A i \in 1..m : ss[i] \in K
    BY <2>1
  <2> HIDE DEF R, K
  <2>4. parts \in [1..m -> Seq(R)]
    BY <2>1, <2>2, <2>3
  <2> HIDE DEF parts
  <2>5. QED  BY <2>4, ListedIsSeq
<1> HIDE DEF R
<1>6. PICK rows \in Seq(R) : rows = FlattenSeq(parts)
  <2> HIDE DEF parts
  <2>1. FlattenSeq(parts) \in Seq(R)
    BY <1>5, FlattenType
  <2>2. QED  BY <2>1
<1>7. PICK m \in Nat : m = Len(rows) /\ DOMAIN rows = 1..m
  OBVIOUS
<1>8. PICK ms : ms = MountsOf(t)
  OBVIOUS
<1>9. ms = [i \in 1..m |-> [controller |-> rows[i].key.text, path |-> rows[i].value.text]]
  BY <1>2, <1>6, <1>7, <1>8 DEF MountsOf
<1>10. DOMAIN ms = 1..m /\ ToSet(ms) = {ms[i] : i \in 1..m} /\ ms = [i \in 1..m |-> ms[i]]
  BY <1>9 DEF ToSet
<1>11. ms \in [1..m -> ToSet(ms)]
  BY <1>10
<1>12. ms \in Seq(ToSet(ms))
  BY <1>11, ListedIsSeq
<1>13. ASSUME NEW x \in ToSet(ms)
       PROVE  /\ x = [controller |-> x.controller, path |-> x.path]
              /\ x.controller \notin Unwritable /\ x.path \notin Unwritable
  <2>1. PICK i \in 1..m : x = [controller |-> rows[i].key.text, path |-> rows[i].value.text]
    BY <1>9, <1>10
  <2>2. ReadsToken(rows[i].key) /\ ReadsToken(rows[i].value)
    BY <1>4, <1>7
  <2>3. QED  BY <2>1, <2>2 DEF ReadsToken, ReadsBare
<1>14. QED  BY <1>8, <1>12, <1>13 DEF AreMounts

(* Whatever text is parsed, what comes of it is such a file.               *)
LEMMA FileIsRead ==
    ASSUME NEW t, AreSections(t), Parse(t) # Unreadable
    PROVE  IsFile(Parse(t))
<1>1. \A i \in DOMAIN t : ReadsSection(t[i])
  BY DEF Parse
<1>2. PICK c : c = Parse(t)
  OBVIOUS
<1>3. c = [mounts |-> MountsOf(t), default |-> DefaultOf(t),
           groups |-> NodesOf(t, "group"), templates |-> NodesOf(t, "template")]
  BY <1>1, <1>2 DEF Parse
<1>4. /\ AreMounts(c.mounts) /\ IsPerm(c.default)
      /\ AreNodes(c.groups) /\ AreNodes(c.templates)
  BY <1>1, <1>3, MountsAreRead, DefaultIsRead, NodesAreRead
<1>5. c = [mounts |-> c.mounts, default |-> c.default,
           groups |-> c.groups, templates |-> c.templates]
  BY <1>3
<1>6. QED  BY <1>2, <1>4, <1>5 DEF IsFile

-----------------------------------------------------------------------------
(* What Display refuses.                                                   *)

Controllers1(params) == [i \in DOMAIN params |-> params[i][1]]

LEMMA ControllersOfParams ==
    ASSUME NEW Q, NEW ps \in Seq(Q)
    PROVE  /\ Controllers1(ps) \in Seq({p[1] : p \in ToSet(ps)})
           /\ ParamControllers(ps) \in Seq({p[1] : p \in ToSet(ps)})
           /\ IsInjective(ParamControllers(ps))
           /\ ToSet(ParamControllers(ps)) = {p[1] : p \in ToSet(ps)}
<1> DEFINE H == {p[1] : p \in ToSet(ps)}
<1>1. PICK m \in Nat : m = Len(ps) /\ DOMAIN ps = 1..m
  OBVIOUS
<1>2. PICK w : w = Controllers1(ps)
  OBVIOUS
<1>3. w = [i \in 1..m |-> ps[i][1]]
  BY <1>1, <1>2 DEF Controllers1
<1>4. DOMAIN w = 1..m /\ \A i \in 1..m : w[i] = ps[i][1] /\ ps[i] \in ToSet(ps)
  BY <1>1, <1>3 DEF ToSet
<1>5. w \in [1..m -> H]
  BY <1>3, <1>4
<1>6. ToSet(w) = H
  <2>1. ToSet(w) = {w[i] : i \in 1..m}
    BY <1>4 DEF ToSet
  <2>2. \A p \in ToSet(ps) : \E i \in 1..m : p = ps[i]
    BY <1>1 DEF ToSet
  <2>3. QED  BY <1>4, <2>1, <2>2
<1> HIDE DEF H
<1>7. w \in Seq(H)
  BY <1>5, ListedIsSeq
<1>8. Firsts(w) \in Seq(H) /\ IsInjective(Firsts(w)) /\ ToSet(Firsts(w)) = ToSet(w)
  BY <1>7, FirstsOf
<1>9. ParamControllers(ps) = Firsts(w)
  BY <1>2 DEF ParamControllers, Controllers1
<1>10. QED  BY <1>2, <1>6, <1>7, <1>8, <1>9 DEF H

NodeHeads(n) == ToSet(n.controllers) \cup ToSet(ParamControllers(n.params))

LEMMA RefusedForHash ==
    ASSUME NEW n, IsNode(n), ~ WritableNode(n)
    PROVE  NodeHeads(n) \cap Hashed # {}
<1>1. n.params \in Seq(ToSet(n.params)) /\ \A p \in ToSet(n.params) : IsParam(p)
  BY DEF IsNode
<1>2. ToSet(ParamControllers(n.params)) = {p[1] : p \in ToSet(n.params)}
  BY <1>1, ControllersOfParams
<1>3. n.name \notin Unwritable
  BY DEF IsNode
<1>4. WritablePerm(n.perm)
  BY DEF IsNode, IsPerm, IsSet, WritablePerm, WritableSet
<1>5. CASE ToSet(n.controllers) \cap (Special \cup Unwritable) # {}
  <2>1. PICK c \in ToSet(n.controllers) : c \in Special \cup Unwritable
    BY <1>5
  <2>2. PlainHead(c)
    BY DEF IsNode
  <2>3. c \in Hashed
    BY <2>1, <2>2 DEF PlainHead
  <2>4. QED  BY <2>3 DEF NodeHeads
<1>6. CASE \E i \in DOMAIN n.params :
              \/ n.params[i][1] \in Special \cup Unwritable
              \/ {n.params[i][2], n.params[i][3]} \cap Unwritable # {}
  <2>1. PICK i \in DOMAIN n.params :
              \/ n.params[i][1] \in Special \cup Unwritable
              \/ {n.params[i][2], n.params[i][3]} \cap Unwritable # {}
    BY <1>6
  <2>2. PICK p \in ToSet(n.params) : p = n.params[i]
    BY DEF ToSet
  <2>3. IsParam(p)
    BY <1>1
  <2>4. p[1] \in Hashed
    BY <2>1, <2>2, <2>3 DEF IsParam, PlainHead
  <2>5. p[1] \in NodeHeads(n)
    BY <1>2 DEF NodeHeads
  <2>6. QED  BY <2>4, <2>5
<1>7. QED  BY <1>3, <1>4, <1>5, <1>6 DEF WritableNode

LEMMA HeadsOfNodes ==
    ASSUME NEW c, NEW n \in ToSet(c.groups) \cup ToSet(c.templates)
    PROVE  NodeHeads(n) \subseteq BlockHeads(c)
BY DEF NodeHeads, BlockHeads

LEMMA FileRefusedForHash ==
    ASSUME NEW c, IsFile(c), ~ Writable(c)
    PROVE  BlockHeads(c) \cap Hashed # {}
<1>1. \A i \in DOMAIN c.mounts :
          {c.mounts[i].controller, c.mounts[i].path} \cap Unwritable = {}
  <2>1. SUFFICES ASSUME NEW i \in DOMAIN c.mounts
                 PROVE  {c.mounts[i].controller, c.mounts[i].path} \cap Unwritable = {}
    OBVIOUS
  <2>2. PICK m \in ToSet(c.mounts) : m = c.mounts[i]
    BY DEF ToSet
  <2>3. QED  BY <2>2 DEF IsFile, AreMounts
<1>2. WritablePerm(c.default)
  BY DEF IsFile, IsPerm, IsSet, WritablePerm, WritableSet
<1>3. PICK n \in ToSet(c.groups) \cup ToSet(c.templates) : ~ WritableNode(n)
  <2>1. CASE \E i \in DOMAIN c.groups : ~ WritableNode(c.groups[i])
    BY <2>1 DEF ToSet
  <2>2. CASE \E i \in DOMAIN c.templates : ~ WritableNode(c.templates[i])
    BY <2>2 DEF ToSet
  <2>3. QED  BY <1>1, <1>2, <2>1, <2>2 DEF Writable
<1>4. IsNode(n)
  BY DEF IsFile, AreNodes
<1>5. NodeHeads(n) \cap Hashed # {}
  BY <1>3, <1>4, RefusedForHash
<1>6. QED  BY <1>5, HeadsOfNodes

-----------------------------------------------------------------------------
(* Words and rows as they are written.                                     *)

LEMMA WrittenWord ==
    ASSUME NEW w
    PROVE  /\ Write(w).text = w
           /\ w \notin Unwritable => ReadsToken(Write(w))
           /\ \A r \in Roles : Write(w) = Bare(r) <=> w = r
<1>1. \A r \in Roles : r \notin Special
  BY ConfigTextAssumption DEF Keywords
<1>2. \A r : Quoted(w) # Bare(r)
  BY DEF Quoted, Bare
<1>3. \A r : Bare(w) = Bare(r) => w = r
  BY DEF Bare
<1>4. CASE w \in Special
  BY <1>1, <1>2, <1>4 DEF Write, Quoted, ReadsToken
<1>5. CASE w \notin Special
  BY <1>3, <1>5 DEF Write, Bare, ReadsToken, ReadsBare
<1>6. QED  BY <1>4, <1>5

LEMMA OwnerRows ==
    ASSUME NEW set, IsSet(set)
    PROVE  /\ SetRows(set) \in Seq(ToSet(SetRows(set)))
           /\ \A r \in ToSet(SetRows(set)) : GoodRow(r)
           /\ SetOf(SetRows(set)) = set
<1> DEFINE digits(m) == IF m = NoVal THEN NoVal ELSE Digits[m]
           u == Row(Bare("uid"), Write(set.uid))
           g == Row(Bare("gid"), Write(set.gid))
           d == Row(Bare("dperm"), Bare(digits(set.dperm)))
           f == Row(Bare("fperm"), Bare(digits(set.fperm)))
           A == {u, g, d, f}
           K == {r \in A : r.value.text # NoVal}
<1>1. /\ u.key.text = "uid" /\ u.value.text = set.uid
      /\ g.key.text = "gid" /\ g.value.text = set.gid
      /\ d.key.text = "dperm" /\ d.value.text = digits(set.dperm)
      /\ f.key.text = "fperm" /\ f.value.text = digits(set.fperm)
  BY WrittenWord DEF Row, Bare
<1>2. ASSUME NEW m \in DOMAIN Digits \cup {NoVal}
      PROVE  /\ digits(m) # NoVal => /\ digits(m) \in DOMAIN Octal
                                     /\ ReadsToken(Bare(digits(m)))
             /\ digits(m) = NoVal <=> m = NoVal
             /\ ModeOf(digits(m)) = m
  <2>1. CASE m = NoVal
    BY <2>1 DEF ModeOf
  <2>2. CASE m # NoVal
    BY <2>2, ConfigTextAssumption DEF ModeOf, ReadsToken, ReadsBare, Bare
  <2>3. QED  BY <2>1, <2>2
<1>3. /\ set.dperm \in DOMAIN Digits \cup {NoVal} /\ set.fperm \in DOMAIN Digits \cup {NoVal}
      /\ set.uid \notin Unwritable /\ set.gid \notin Unwritable
  BY DEF IsSet
<1>4. ReadsToken(Bare("uid")) /\ ReadsToken(Bare("gid"))
      /\ ReadsToken(Bare("dperm")) /\ ReadsToken(Bare("fperm"))
  BY ConfigTextAssumption DEF Keywords, ReadsToken, ReadsBare, Bare
<1>5. \A r \in K : GoodRow(r)
  <2>1. GoodRow(u)
    BY <1>1, <1>3, <1>4, WrittenWord DEF GoodRow, ReadsMode, Row
  <2>2. GoodRow(g)
    BY <1>1, <1>3, <1>4, WrittenWord DEF GoodRow, ReadsMode, Row
  <2>3. d \in K => GoodRow(d)
    <3>1. PICK x : x = digits(set.dperm)
      OBVIOUS
    <3>2. d \in K => x \in DOMAIN Octal /\ ReadsToken(Bare(x))
      BY <1>1, <1>2, <1>3, <3>1
    <3>3. d = Row(Bare("dperm"), Bare(x)) /\ d.value.text = x
      BY <1>1, <3>1
    <3> HIDE DEF digits, d
    <3>4. QED  BY <1>4, <3>2, <3>3 DEF GoodRow, ReadsMode, Row
  <2>4. f \in K => GoodRow(f)
    <3>1. PICK x : x = digits(set.fperm)
      OBVIOUS
    <3>2. f \in K => x \in DOMAIN Octal /\ ReadsToken(Bare(x))
      BY <1>1, <1>2, <1>3, <3>1
    <3>3. f = Row(Bare("fperm"), Bare(x)) /\ f.value.text = x
      BY <1>1, <3>1
    <3> HIDE DEF digits, f
    <3>4. QED  BY <1>4, <3>2, <3>3 DEF GoodRow, ReadsMode, Row
  <2>5. \A r \in K : r = u \/ r = g \/ r = d \/ r = f
    OBVIOUS
  <2> HIDE DEF K, u, g, d, f, digits
  <2>6. QED  BY <2>1, <2>2, <2>3, <2>4, <2>5
<1> HIDE DEF u, g, d, f, digits
<1>6. PICK four \in Seq(A) : four = <<u, g, d, f>> /\ ToSet(four) = A
  <2>1. ToSet(<<u, g, d, f>>) = {u, g, d, f}
    BY DEF ToSet
  <2>2. <<u, g, d, f>> \in Seq({u, g, d, f})
    OBVIOUS
  <2>3. QED  BY <2>1, <2>2
<1>7. PICK rows \in Seq(A) : rows = SetRows(set) /\ ToSet(rows) = K
  <2>1. SetRows(set) = Stated(four)
    BY <1>6 DEF SetRows, u, g, d, f, digits
  <2>2. Stated(four) = Kept(four, K)
    BY StatedKept
  <2>3. Kept(four, K) \in Seq(A) /\ ToSet(Kept(four, K)) = ToSet(four) \cap K
    <3> HIDE DEF K, A
    <3>1. QED  BY KeptElements
  <2>4. ToSet(four) \cap K = K
    BY <1>6
  <2> HIDE DEF K
  <2>5. QED  BY <2>1, <2>2, <2>3, <2>4
<1>8. rows \in Seq(ToSet(rows))
  <2> HIDE DEF A
  <2>1. QED  BY NarrowSeq
<1>9. ASSUME NEW x \in A, NEW field, x.key.text = field,
             \A y \in A : y.key.text = field => y = x
      PROVE  LastStated(rows, field) = x.value.text
  <2>1. CASE x.value.text = NoVal
    <3>1. \A r \in ToSet(rows) : r.key.text # field
      BY <1>7, <1>9, <2>1
    <3>2. LastStated(rows, field) = NoVal
      <4>1. ~ \E r \in ToSet(rows) : r.key.text = field
        BY <3>1
      <4> HIDE DEF A, K
      <4>2. QED  BY <4>1, LastStatedIsARow
    <3>3. QED  BY <2>1, <3>2
  <2>2. CASE x.value.text # NoVal
    <3>1. x \in ToSet(rows)
      BY <1>7, <2>2
    <3>2. \A y \in ToSet(rows) : y.key.text = field => y = x
      BY <1>7, <1>9
    <3> HIDE DEF A, K
    <3>3. QED  BY <1>9, <3>1, <3>2, LastStatedIsARow
  <2>3. QED  BY <2>1, <2>2
<1>10. /\ LastStated(rows, "uid") = set.uid /\ LastStated(rows, "gid") = set.gid
       /\ LastStated(rows, "dperm") = digits(set.dperm)
       /\ LastStated(rows, "fperm") = digits(set.fperm)
  <2>1. LastStated(rows, "uid") = u.value.text
    BY <1>1, <1>9
  <2>2. LastStated(rows, "gid") = g.value.text
    BY <1>1, <1>9
  <2>3. LastStated(rows, "dperm") = d.value.text
    BY <1>1, <1>9
  <2>4. LastStated(rows, "fperm") = f.value.text
    BY <1>1, <1>9
  <2>5. QED  BY <1>1, <2>1, <2>2, <2>3, <2>4
<1>11. ModeOf(digits(set.dperm)) = set.dperm /\ ModeOf(digits(set.fperm)) = set.fperm
  BY <1>2, <1>3
<1>12. SetOf(rows) = set
  <2>1. SetOf(rows) = [uid |-> set.uid, gid |-> set.gid,
                       dperm |-> set.dperm, fperm |-> set.fperm]
    BY <1>10, <1>11 DEF SetOf
  <2>2. QED  BY <2>1 DEF IsSet
<1>13. QED  BY <1>5, <1>7, <1>8, <1>12

LEMMA OneOwnersRows ==
    ASSUME NEW R, NEW t \in Seq(R), NEW a \in Seq(R)
    PROVE  LET b == Block(Bare("perm"), <<[who |-> "task", rows |-> t],
                                          [who |-> "admin", rows |-> a]>>, <<>>)
           IN  RowsOf(<<b>>, "task") = t /\ RowsOf(<<b>>, "admin") = a
<1> DEFINE b == Block(Bare("perm"), <<[who |-> "task", rows |-> t],
                                      [who |-> "admin", rows |-> a]>>, <<>>)
           inner(who) == [j \in DOMAIN b.owners |->
                             IF b.owners[j].who = who THEN b.owners[j].rows ELSE <<>>]
<1>1. /\ DOMAIN b.owners = 1..2
      /\ b.owners[1] = [who |-> "task", rows |-> t]
      /\ b.owners[2] = [who |-> "admin", rows |-> a]
  BY DEF Block
<1>2. ASSUME NEW who PROVE RowsOf(<<b>>, who) = FlattenSeq(<<FlattenSeq(inner(who))>>)
  <2>1. RowsOf(<<b>>, who) = FlattenSeq([i \in DOMAIN <<b>> |->
            FlattenSeq([j \in DOMAIN <<b>>[i].owners |->
                IF <<b>>[i].owners[j].who = who
                THEN <<b>>[i].owners[j].rows ELSE <<>>])])
    BY DEF RowsOf
  <2> HIDE DEF b
  <2>2. DOMAIN <<b>> = {1} /\ <<b>>[1] = b
    OBVIOUS
  <2>3. [i \in DOMAIN <<b>> |->
            FlattenSeq([j \in DOMAIN <<b>>[i].owners |->
                IF <<b>>[i].owners[j].who = who
                THEN <<b>>[i].owners[j].rows ELSE <<>>])]
        = [i \in {1} |-> FlattenSeq(inner(who))]
    BY <2>2
  <2>4. \A x : [i \in {1} |-> x] = <<x>>
    OBVIOUS
  <2>5. QED  BY <2>1, <2>3, <2>4
<1>3. \A who : inner(who) = [j \in 1..2 |-> inner(who)[j]]
  BY <1>1
<1>4. /\ inner("task")[1] = t /\ inner("task")[2] = <<>>
      /\ inner("admin")[1] = <<>> /\ inner("admin")[2] = a
  <2>1. /\ b.owners[1].who = "task" /\ b.owners[1].rows = t
        /\ b.owners[2].who = "admin" /\ b.owners[2].rows = a
    BY <1>1
  <2> HIDE DEF b
  <2>2. \A who : \A j \in 1..2 :
            inner(who)[j] = IF b.owners[j].who = who THEN b.owners[j].rows ELSE <<>>
    BY <1>1
  <2> HIDE DEF inner
  <2>3. 1 \in 1..2 /\ 2 \in 1..2
    OBVIOUS
  <2>4. QED  BY <2>1, <2>2, <2>3
<1> HIDE DEF inner, b
<1>5. <<>> \in Seq(R)
  OBVIOUS
<1>6. \A j \in 1..2 : j = 1 \/ j = 2
  OBVIOUS
<1>7. inner("task") \in [1..2 -> Seq(R)] /\ inner("admin") \in [1..2 -> Seq(R)]
  BY <1>3, <1>4, <1>5, <1>6
<1>8. PICK x \in Seq(Seq(R)), y \in Seq(Seq(R)) :
          x = inner("task") /\ y = inner("admin") /\ Len(x) = 2 /\ Len(y) = 2
  BY <1>7, ListedIsSeq
<1>9. FlattenSeq(x) = t
  <2>1. OnlyAt(x, 1)
    <3>1. x[2] = <<>> /\ 1..Len(x) = 1..2 /\ 1 \in 1..2
      <4>1. x[2] = <<>>
        BY <1>4, <1>8, Zenon
      <4>2. 1..Len(x) = 1..2
        BY <1>8, Zenon
      <4>3. QED  BY <4>1, <4>2
    <3>2. \A j \in 1..2 : j # 1 => x[j] = <<>>
      BY <1>6, <3>1, Zenon
    <3>3. QED  BY <3>1, <3>2, Zenon DEF OnlyAt
  <2>2. FlattenSeq(x) = x[1]
    BY <2>1, FlattenAlone
  <2>3. QED  BY <1>4, <1>8, <2>2
<1>10. FlattenSeq(y) = a
  <2>1. OnlyAt(y, 2)
    <3>1. y[1] = <<>> /\ 1..Len(y) = 1..2 /\ 2 \in 1..2
      <4>1. y[1] = <<>>
        BY <1>4, <1>8, Zenon
      <4>2. 1..Len(y) = 1..2
        BY <1>8, Zenon
      <4>3. QED  BY <4>1, <4>2
    <3>2. \A j \in 1..2 : j # 2 => y[j] = <<>>
      BY <1>6, <3>1, Zenon
    <3>3. QED  BY <3>1, <3>2, Zenon DEF OnlyAt
  <2>2. FlattenSeq(y) = y[2]
    BY <2>1, FlattenAlone
  <2>3. QED  BY <1>4, <1>8, <2>2
<1>11. FlattenSeq(<<t>>) = t /\ FlattenSeq(<<a>>) = a
  BY FlattenOne
<1>12. RowsOf(<<b>>, "task") = t /\ RowsOf(<<b>>, "admin") = a
  BY <1>2, <1>8, <1>9, <1>10, <1>11
<1>13. QED  BY <1>12 DEF b

LEMMA PermBlockIsRead ==
    ASSUME NEW perm, IsPerm(perm), perm # NoVal
    PROVE  ReadsPerm(PermBlock(perm)) /\ PermOf(<<PermBlock(perm)>>) = perm
<1>1. /\ perm = [task |-> perm.task, admin |-> perm.admin]
      /\ IsSet(perm.task) /\ IsSet(perm.admin)
  BY DEF IsPerm
<1>2. PICK t : t = SetRows(perm.task)
  OBVIOUS
<1>3. PICK a : a = SetRows(perm.admin)
  OBVIOUS
<1>4. /\ t \in Seq(ToSet(t)) /\ (\A r \in ToSet(t) : GoodRow(r)) /\ SetOf(t) = perm.task
      /\ a \in Seq(ToSet(a)) /\ (\A r \in ToSet(a) : GoodRow(r)) /\ SetOf(a) = perm.admin
  BY <1>1, <1>2, <1>3, OwnerRows
<1>5. PICK R : R = ToSet(t) \cup ToSet(a)
  OBVIOUS
<1>6. t \in Seq(R) /\ a \in Seq(R)
  BY <1>4, <1>5, NarrowSeq
<1>7. PICK b : b = Block(Bare("perm"), <<[who |-> "task", rows |-> t],
                                         [who |-> "admin", rows |-> a]>>, <<>>)
  OBVIOUS
<1>8. b = PermBlock(perm)
  BY <1>2, <1>3, <1>7 DEF PermBlock
<1>9. RowsOf(<<b>>, "task") = t /\ RowsOf(<<b>>, "admin") = a
  BY <1>6, <1>7, OneOwnersRows
<1>10. /\ b.head = Bare("perm") /\ b.rows = <<>> /\ DOMAIN b.owners = 1..2
       /\ b.owners[1].who = "task" /\ b.owners[1].rows = t
       /\ b.owners[2].who = "admin" /\ b.owners[2].rows = a
  BY <1>7 DEF Block
<1>11. ASSUME NEW rows, \A r \in ToSet(rows) : GoodRow(r)
       PROVE  ReadsRows(rows) /\ \A i \in DOMAIN rows : ReadsMode(rows[i])
  <2>1. \A i \in DOMAIN rows : GoodRow(rows[i])
    BY <1>11 DEF ToSet
  <2>2. QED  BY <2>1 DEF GoodRow, ReadsRows
<1>12. ReadsOwner(b.owners[1]) /\ ReadsOwner(b.owners[2])
  BY <1>4, <1>10, <1>11 DEF ReadsOwner, Roles
<1>13. ReadsPerm(b)
  BY <1>10, <1>12 DEF ReadsPerm
<1>14. Those(<<b>>, ReadsPerm) = <<b>>
  <2>1. PICK s \in Seq({b}) : s = <<b>> /\ ToSet(s) = {b} /\ <<b>> # <<>>
    <3>1. <<b>> \in Seq({b}) /\ ToSet(<<b>>) = {b} /\ <<b>> # <<>>
      BY DEF ToSet
    <3>2. QED  BY <3>1
  <2>2. Those(s, ReadsPerm) = Kept(s, {x \in {b} : ReadsPerm(x)})
    BY PermBlocksKept
  <2>3. {x \in {b} : ReadsPerm(x)} = {b}
    BY <1>13
  <2>4. Kept(s, {b}) = s
    BY <2>1, KeptAll
  <2>5. QED  BY <2>1, <2>2, <2>3, <2>4
<1>15. PermOf(<<b>>) = [task |-> SetOf(t), admin |-> SetOf(a)]
  <2>1. <<b>> # <<>>
    OBVIOUS
  <2>2. QED  BY <1>9, <1>14, <2>1 DEF PermOf
<1>16. QED  BY <1>1, <1>4, <1>8, <1>13, <1>15

(* The blocks of a perm section, if there is one.                          *)
LEMMA PermBlocksAreRead ==
    ASSUME NEW perm, IsPerm(perm)
    PROVE  /\ PermBlocks(perm) \in Seq(ToSet(PermBlocks(perm)))
           /\ \A b \in ToSet(PermBlocks(perm)) : ReadsPerm(b)
           /\ PermOf(PermBlocks(perm)) = perm
           /\ Len(PermBlocks(perm)) <= 1
<1>1. CASE perm = NoVal
  <2>1. PICK s \in Seq({}) : s = PermBlocks(perm) /\ s = <<>>
    <3>1. <<>> \in Seq({})
      OBVIOUS
    <3>2. QED  BY <1>1, <3>1 DEF PermBlocks
  <2>2. ToSet(s) = {} /\ Len(s) = 0
    BY <2>1 DEF ToSet
  <2>3. Those(s, ReadsPerm) = <<>>
    <3>1. Those(s, ReadsPerm) = Kept(s, {x \in {} : ReadsPerm(x)})
      BY PermBlocksKept
    <3>2. Kept(s, {x \in {} : ReadsPerm(x)}) = s
      BY <2>2, KeptAll
    <3>3. QED  BY <2>1, <3>1, <3>2
  <2>4. PermOf(s) = NoVal
    BY <2>3 DEF PermOf
  <2>5. s \in Seq(ToSet(s)) /\ Len(s) <= 1
    BY <2>2
  <2>6. QED  BY <1>1, <2>1, <2>2, <2>4, <2>5
<1>2. CASE perm # NoVal
  <2>1. PICK b : b = PermBlock(perm) /\ ReadsPerm(b) /\ PermOf(<<b>>) = perm
    BY <1>2, PermBlockIsRead
  <2>2. PermBlocks(perm) = <<b>>
    BY <1>2, <2>1 DEF PermBlocks
  <2>3. ToSet(<<b>>) = {b}
    BY DEF ToSet
  <2>4. <<b>> \in Seq({b}) /\ Len(<<b>>) <= 1
    OBVIOUS
  <2>5. QED  BY <2>1, <2>2, <2>3, <2>4
<1>3. QED  BY <1>1, <1>2

-----------------------------------------------------------------------------
(* The blocks of a node as they are written.                               *)

LEMMA UnderHas ==
    ASSUME NEW Q, NEW ps \in Seq(Q), NEW c
    PROVE  /\ Under(ps, c) \in Seq(Q)
           /\ ToSet(Under(ps, c)) = {p \in ToSet(ps) : p[1] = c}
<1> DEFINE K == {p \in Q : p[1] = c}
<1>1. Under(ps, c) = Kept(ps, K)
  BY UnderKept
<1>2. ToSet(ps) \subseteq Q
  BY ElementsAreIn
<1>3. ToSet(ps) \cap K = {p \in ToSet(ps) : p[1] = c}
  BY <1>2
<1> HIDE DEF K
<1>4. Kept(ps, K) \in Seq(Q) /\ ToSet(Kept(ps, K)) = ToSet(ps) \cap K
  BY KeptElements
<1>5. QED  BY <1>1, <1>3, <1>4

EmptySeqOnly(u) == u = <<>> <=> Len(u) = 0

LEMMA LengthOfEmpty ==
    ASSUME NEW A, NEW u \in Seq(A)
    PROVE  EmptySeqOnly(u)
BY DEF EmptySeqOnly

(* A controller's parameters, written as the rows of one block.            *)
LEMMA RowsOfParams ==
    ASSUME NEW c, NEW Q, NEW u \in Seq(Q), \A p \in ToSet(u) : IsParam(p) /\ p[1] = c,
           NEW b, b = Block(Bare(c), <<>>, ParamRows(u))
    PROVE  /\ ParamsOf(b) = u
           /\ ReadsRows(b.rows)
           /\ b.head = Bare(c) /\ b.owners = <<>> /\ b.rows = ParamRows(u)
           /\ b.rows = <<>> <=> u = <<>>
           /\ u # <<>> => b.rows[1].key = Write(u[1][2])
<1>1. PICK m \in Nat : m = Len(u) /\ DOMAIN u = 1..m
  OBVIOUS
<1>2. b.head = Bare(c) /\ b.owners = <<>> /\ b.rows = ParamRows(u)
  BY DEF Block
<1>3. PICK rows : rows = b.rows
  OBVIOUS
<1>4. rows = [i \in 1..m |-> Row(Write(u[i][2]), Write(u[i][3]))]
  BY <1>1, <1>2, <1>3 DEF ParamRows
<1>5. /\ DOMAIN rows = 1..m
      /\ \A i \in 1..m : /\ rows[i] = Row(Write(u[i][2]), Write(u[i][3]))
                         /\ rows[i].key = Write(u[i][2])
                         /\ rows[i].value = Write(u[i][3])
                         /\ rows[i].key.text = u[i][2]
                         /\ rows[i].value.text = u[i][3]
  BY <1>4, WrittenWord DEF Row
<1>6. \A i \in 1..m : IsParam(u[i]) /\ u[i][1] = c
  BY <1>1 DEF ToSet
<1>7. ReadsRows(rows)
  BY <1>5, <1>6, WrittenWord DEF ReadsRows, IsParam
<1>8. ParamsOf(b) = u
  <2>1. ParamsOf(b) = [i \in 1..m |-> <<c, rows[i].key.text, rows[i].value.text>>]
    <3>1. b.head.text = c
      BY <1>2 DEF Bare
    <3>2. ParamsOf(b) = [i \in DOMAIN rows |-> <<b.head.text, rows[i].key.text,
                                                rows[i].value.text>>]
      BY <1>3 DEF ParamsOf
    <3>3. DOMAIN rows = 1..m
      BY <1>5
    <3>4. QED  BY <3>1, <3>2, <3>3
  <2>2. \A i \in 1..m : <<c, rows[i].key.text, rows[i].value.text>> = u[i]
    BY <1>5, <1>6 DEF IsParam
  <2>3. [i \in 1..m |-> <<c, rows[i].key.text, rows[i].value.text>>] = [i \in 1..m |-> u[i]]
    BY <2>2
  <2>4. u = [i \in 1..m |-> u[i]]
    BY <1>1
  <2>5. QED  BY <2>1, <2>3, <2>4
<1>9. rows = <<>> <=> u = <<>>
  <2>1. rows \in Seq(ToSet(rows)) /\ Len(rows) = m
    <3>1. rows \in [1..m -> ToSet(rows)]
      BY <1>4, <1>5 DEF ToSet
    <3>2. QED  BY <3>1, ListedIsSeq
  <2>2. EmptySeqOnly(rows) /\ EmptySeqOnly(u)
    BY <2>1, LengthOfEmpty
  <2>3. QED  BY <1>1, <2>1, <2>2 DEF EmptySeqOnly
<1>10. u # <<>> => 1 \in 1..m
  BY <1>1
<1>11. QED  BY <1>2, <1>3, <1>5, <1>7, <1>8, <1>9, <1>10

MarkerBlocks(n) == [i \in DOMAIN n.controllers |-> Block(Bare(n.controllers[i]), <<>>, <<>>)]

ControllerParams(n) ==
    LET cs == ParamControllers(n.params)
    IN  [i \in DOMAIN cs |-> Under(n.params, cs[i])]

ParamBlocks(n) ==
    LET cs == ParamControllers(n.params)
    IN  [i \in DOMAIN cs |->
            Block(Bare(cs[i]), <<>>, ParamRows(Under(n.params, cs[i])))]

LEMMA BlocksOfNode ==
    ASSUME NEW n
    PROVE  NodeBlocks(n) = PermBlocks(n.perm) \o MarkerBlocks(n) \o ParamBlocks(n)
BY DEF NodeBlocks, MarkerBlocks, ParamBlocks

LEMMA MarkersAreRead ==
    ASSUME NEW n, IsNode(n), WritableNode(n)
    PROVE  /\ MarkerBlocks(n) \in Seq(ToSet(MarkerBlocks(n)))
           /\ \A b \in ToSet(MarkerBlocks(n)) :
                 ReadsControl(b) /\ ~ ReadsPerm(b) /\ b.rows = <<>> /\ ParamsOf(b) = <<>>
           /\ Firsts([i \in DOMAIN MarkerBlocks(n) |-> MarkerBlocks(n)[i].head.text])
              = n.controllers
<1>1. PICK cs \in Seq(ToSet(n.controllers)) : cs = n.controllers /\ IsInjective(cs)
  BY DEF IsNode
<1>2. \A c \in ToSet(cs) : c \notin Special \cup Unwritable /\ c # "perm"
  BY <1>1 DEF IsNode, WritableNode
<1>3. PICK m \in Nat : m = Len(cs) /\ DOMAIN cs = 1..m
  OBVIOUS
<1>4. PICK ms : ms = MarkerBlocks(n)
  OBVIOUS
<1>5. ms = [i \in 1..m |-> Block(Bare(cs[i]), <<>>, <<>>)]
  BY <1>1, <1>3, <1>4 DEF MarkerBlocks
<1>6. /\ DOMAIN ms = 1..m /\ ToSet(ms) = {ms[i] : i \in 1..m}
      /\ \A i \in 1..m : ms[i] = Block(Bare(cs[i]), <<>>, <<>>)
  BY <1>5 DEF ToSet
<1>7. ms \in [1..m -> ToSet(ms)]
  BY <1>5, <1>6
<1>8. ms \in Seq(ToSet(ms))
  BY <1>7, ListedIsSeq
<1>9. ASSUME NEW i \in 1..m
      PROVE  /\ ReadsControl(ms[i]) /\ ~ ReadsPerm(ms[i])
             /\ ms[i].rows = <<>> /\ ParamsOf(ms[i]) = <<>>
             /\ ms[i].head.text = cs[i]
  <2>1. PICK b : b = ms[i]
    OBVIOUS
  <2>2. b.head = Bare(cs[i]) /\ b.owners = <<>> /\ b.rows = <<>>
    BY <1>6, <2>1 DEF Block
  <2>3. cs[i] \in ToSet(cs)
    BY <1>3 DEF ToSet
  <2>4. b.head.text = cs[i] /\ b.head.quoted = FALSE /\ b.head # Bare("perm")
    BY <1>2, <2>2, <2>3 DEF Bare
  <2>5. ~ ReadsPerm(b)
    BY <2>4 DEF ReadsPerm
  <2>6. ReadsBare(b.head)
    BY <1>2, <2>3, <2>4 DEF ReadsBare
  <2>7. DOMAIN b.rows = {}
    BY <2>2
  <2>8. ReadsRows(b.rows) /\ ~ StartsOwner(b)
    BY <2>2, <2>7 DEF ReadsRows, StartsOwner
  <2>9. ReadsControl(b)
    BY <2>2, <2>6, <2>8 DEF ReadsControl
  <2>10. ParamsOf(b) = <<>>
    <3>1. ParamsOf(b) = [j \in {} |-> <<b.head.text, b.rows[j].key.text, b.rows[j].value.text>>]
      BY <2>7 DEF ParamsOf
    <3>2. \A t : DOMAIN t = {} /\ t = [j \in {} |-> t[j]] => t = <<>>
      OBVIOUS
    <3>3. QED  BY <3>1
  <2>11. QED  BY <2>1, <2>2, <2>4, <2>5, <2>9, <2>10
<1>10. [i \in DOMAIN ms |-> ms[i].head.text] = cs
  <2>1. [i \in DOMAIN ms |-> ms[i].head.text] = [i \in 1..m |-> cs[i]]
    BY <1>6, <1>9
  <2>2. cs = [i \in 1..m |-> cs[i]]
    BY <1>3
  <2>3. QED  BY <2>1, <2>2
<1>11. Firsts(cs) = cs
  BY <1>1, FirstsOfInjective
<1>12. \A b \in ToSet(ms) : ReadsControl(b) /\ ~ ReadsPerm(b) /\ b.rows = <<>> /\ ParamsOf(b) = <<>>
  BY <1>6, <1>9
<1>13. QED  BY <1>1, <1>4, <1>8, <1>10, <1>11, <1>12

(* The blocks with parameters, and which of them cannot be read again.     *)
LEMMA ParamBlocksAreRead ==
    ASSUME NEW n, IsNode(n), WritableNode(n)
    PROVE  /\ ParamBlocks(n) \in Seq(ToSet(ParamBlocks(n)))
           /\ Len(ParamBlocks(n)) = Len(ParamControllers(n.params))
           /\ DOMAIN ParamBlocks(n) = DOMAIN ParamControllers(n.params)
           /\ \A i \in DOMAIN ParamBlocks(n) :
                 ParamsOf(ParamBlocks(n)[i]) = ControllerParams(n)[i]
           /\ \A b \in ToSet(ParamBlocks(n)) : ~ ReadsPerm(b) /\ b.rows # <<>>
           /\ ~ LooksLikeOwners(n) => \A b \in ToSet(ParamBlocks(n)) : ReadsControl(b)
           /\ LooksLikeOwners(n) => \E b \in ToSet(ParamBlocks(n)) : ~ ReadsControl(b)
<1> DEFINE Q == ToSet(n.params)
           H == {p[1] : p \in Q}
<1>1. PICK ps \in Seq(Q) : ps = n.params
  BY DEF IsNode
<1>2. \A p \in Q : IsParam(p) /\ p[1] \notin Special \cup Unwritable
  <2>1. \A p \in Q : \E i \in DOMAIN n.params : p = n.params[i]
    BY DEF ToSet
  <2>2. QED  BY <2>1 DEF IsNode, WritableNode
<1>3. PICK cs \in Seq(H) : cs = ParamControllers(ps) /\ ToSet(cs) = H
  BY <1>1, ControllersOfParams
<1>4. PICK m \in Nat : m = Len(cs) /\ DOMAIN cs = 1..m
  OBVIOUS
<1>5. PICK bs : bs = ParamBlocks(n)
  OBVIOUS
<1>6. bs = [i \in 1..m |-> Block(Bare(cs[i]), <<>>, ParamRows(Under(ps, cs[i])))]
  BY <1>1, <1>3, <1>4, <1>5 DEF ParamBlocks
<1>7. /\ DOMAIN bs = 1..m /\ ToSet(bs) = {bs[i] : i \in 1..m}
      /\ \A i \in 1..m : bs[i] = Block(Bare(cs[i]), <<>>, ParamRows(Under(ps, cs[i])))
  BY <1>6 DEF ToSet
<1>8. bs \in [1..m -> ToSet(bs)]
  BY <1>6, <1>7
<1>9. bs \in Seq(ToSet(bs)) /\ Len(bs) = m
  BY <1>8, ListedIsSeq
<1>10. ASSUME NEW i \in 1..m
       PROVE  /\ ParamsOf(bs[i]) = Under(ps, cs[i])
              /\ ~ ReadsPerm(bs[i]) /\ bs[i].rows # <<>>
              /\ ReadsControl(bs[i]) <=> ~ (cs[i] = "perm" /\ Under(ps, cs[i])[1][2] \in Roles)
  <2>1. PICK c \in H : c = cs[i]
    BY <1>4
  <2>2. PICK u \in Seq(Q) : u = Under(ps, c) /\ ToSet(u) = {p \in Q : p[1] = c}
    BY <1>1, UnderHas
  <2>3. u # <<>>
    <3>1. ToSet(<<>>) = {}
      BY DEF ToSet
    <3>2. ToSet(u) # {}
      BY <2>1, <2>2
    <3>3. QED  BY <3>1, <3>2
  <2>4. PICK b : b = bs[i] /\ b = Block(Bare(c), <<>>, ParamRows(u))
    BY <1>7, <2>1, <2>2
  <2>5. \A p \in ToSet(u) : IsParam(p) /\ p[1] = c
    BY <1>2, <2>2
  <2>6. /\ ParamsOf(b) = u /\ ReadsRows(b.rows)
        /\ b.head = Bare(c) /\ b.owners = <<>>
        /\ b.rows # <<>> /\ b.rows[1].key = Write(u[1][2])
    <3> HIDE DEF Q
    <3>1. QED  BY <2>3, <2>4, <2>5, RowsOfParams
  <2>7. c \notin Special \cup Unwritable
    BY <1>2, <2>1
  <2>8. ReadsBare(b.head) /\ b.head.text = c
    BY <2>6, <2>7 DEF ReadsBare, Bare
  <2>9. StartsOwner(b) <=> c = "perm" /\ u[1][2] \in Roles
    <3>1. b.rows[1].key \in {Bare(r) : r \in Roles} <=> u[1][2] \in Roles
      BY <2>6, WrittenWord
    <3>2. QED  BY <2>6, <2>8, <3>1 DEF StartsOwner
  <2>10. ~ ReadsPerm(b)
    BY <2>6 DEF ReadsPerm
  <2>11. ReadsControl(b) <=> ~ StartsOwner(b)
    BY <2>6, <2>8 DEF ReadsControl
  <2>12. QED  BY <2>1, <2>2, <2>4, <2>6, <2>9, <2>10, <2>11
<1>11. \A i \in 1..m : ControllerParams(n)[i] = Under(ps, cs[i])
  BY <1>1, <1>3, <1>4 DEF ControllerParams
<1>12. ASSUME LooksLikeOwners(n) PROVE \E i \in 1..m : ~ ReadsControl(bs[i])
  <2>1. PICK u \in Seq(Q) : u = Under(ps, "perm") /\ ToSet(u) = {p \in Q : p[1] = "perm"}
    BY <1>1, UnderHas
  <2>2. u # <<>> /\ u[1][2] \in Roles
    BY <1>1, <1>12, <2>1 DEF LooksLikeOwners
  <2>3. u[1] \in ToSet(u)
    <3>1. 1 \in DOMAIN u
      BY <2>2
    <3>2. QED  BY <3>1 DEF ToSet
  <2>4. "perm" \in H
    BY <2>1, <2>3
  <2>5. PICK i \in 1..m : cs[i] = "perm"
    <3>1. ToSet(cs) = {cs[i] : i \in 1..m}
      BY <1>4 DEF ToSet
    <3> HIDE DEF H
    <3>2. QED  BY <1>3, <2>4, <3>1
  <2>6. QED  BY <1>10, <2>1, <2>2, <2>5
<1>13. ASSUME ~ LooksLikeOwners(n), NEW i \in 1..m PROVE ReadsControl(bs[i])
  <2>1. SUFFICES ASSUME cs[i] = "perm", Under(ps, cs[i])[1][2] \in Roles PROVE FALSE
    BY <1>10
  <2>2. Under(ps, "perm") = <<>>
    BY <1>1, <1>13, <2>1 DEF LooksLikeOwners
  <2>3. "perm" \in H
    BY <1>4, <2>1
  <2>4. ToSet(Under(ps, "perm")) = {p \in Q : p[1] = "perm"}
    BY <1>1, UnderHas
  <2>5. ToSet(<<>>) = {}
    BY DEF ToSet
  <2>6. QED  BY <2>2, <2>3, <2>4, <2>5
<1>14. DOMAIN bs = DOMAIN ParamControllers(n.params) /\ Len(bs) = Len(ParamControllers(n.params))
  BY <1>1, <1>3, <1>4, <1>7, <1>9
<1>15. /\ \A i \in DOMAIN bs : ParamsOf(bs[i]) = ControllerParams(n)[i]
       /\ \A b \in ToSet(bs) : ~ ReadsPerm(b) /\ b.rows # <<>>
  BY <1>7, <1>10, <1>11
<1>16. /\ ~ LooksLikeOwners(n) => \A b \in ToSet(bs) : ReadsControl(b)
       /\ LooksLikeOwners(n) => \E b \in ToSet(bs) : ~ ReadsControl(b)
  BY <1>7, <1>12, <1>13
<1>17. QED  BY <1>5, <1>9, <1>14, <1>15, <1>16

LEMMA ControllerParamsType ==
    ASSUME NEW n, IsNode(n)
    PROVE  /\ ControllerParams(n) \in Seq(Seq(ToSet(n.params)))
           /\ Len(ControllerParams(n)) = Len(ParamControllers(n.params))
           /\ \A i \in DOMAIN ParamControllers(n.params) :
                 ControllerParams(n)[i] = Under(n.params, ParamControllers(n.params)[i])
<1> DEFINE Q == ToSet(n.params)
           H == {p[1] : p \in Q}
<1>1. PICK ps \in Seq(Q) : ps = n.params
  BY DEF IsNode
<1>2. PICK cs \in Seq(H) : cs = ParamControllers(ps)
  BY <1>1, ControllersOfParams
<1>3. PICK m \in Nat : m = Len(cs) /\ DOMAIN cs = 1..m
  OBVIOUS
<1>4. PICK us : us = ControllerParams(n)
  OBVIOUS
<1>5. us = [i \in 1..m |-> Under(ps, cs[i])]
  BY <1>1, <1>2, <1>3, <1>4 DEF ControllerParams
<1> HIDE DEF Q, H
<1>6. \A i \in 1..m : Under(ps, cs[i]) \in Seq(Q)
  BY UnderHas
<1>7. us \in [1..m -> Seq(Q)] /\ \A i \in 1..m : us[i] = Under(ps, cs[i])
  BY <1>5, <1>6
<1>8. us \in Seq(Seq(Q)) /\ Len(us) = m
  BY <1>7, ListedIsSeq
<1>9. QED  BY <1>1, <1>2, <1>3, <1>4, <1>7, <1>8 DEF Q

(* What the blocks without and with parameters come to.                    *)
AllParams(ctl) == FlattenSeq([i \in DOMAIN ctl |-> ParamsOf(ctl[i])])

LEMMA ParamsOfControllers ==
    ASSUME NEW A, NEW M \in Seq(A), NEW G \in Seq(A), NEW Q, NEW us \in Seq(Seq(Q)),
           \A i \in DOMAIN M : ParamsOf(M[i]) = <<>>,
           Len(us) = Len(G), \A i \in DOMAIN G : ParamsOf(G[i]) = us[i]
    PROVE  AllParams(M \o G) = FlattenSeq(us)
<1>0. PICK l \in Nat, m \in Nat : /\ l = Len(M) /\ DOMAIN M = 1..l
                                  /\ m = Len(G) /\ DOMAIN G = 1..m /\ m = Len(us)
  OBVIOUS
<1>1. PICK b \in Seq(A) : /\ b = M \o G /\ DOMAIN b = 1..(l + m)
                          /\ \A i \in 1..l : b[i] = M[i]
                          /\ \A i \in 1..m : b[l + i] = G[i]
  <2>1. PICK b \in Seq(A) : IsJoin(b, M, G)
    BY Joined
  <2>2. Len(b) = l + m
    BY <1>0, <2>1 DEF IsJoin
  <2>3. DOMAIN b = 1..(l + m)
    BY <2>2
  <2>4. QED  BY <1>0, <2>1, <2>3 DEF IsJoin
<1> DEFINE e == [i \in 1..l |-> <<>>]
<1>2. /\ e \in [1..l -> {<<>>}] /\ e \in [1..l -> Seq(Q)]
      /\ \A i \in 1..l : e[i] = <<>>
  <2>1. <<>> \in Seq(Q)
    OBVIOUS
  <2>2. QED  BY <2>1
<1> HIDE DEF e
<1>3. e \in Seq({<<>>}) /\ e \in Seq(Seq(Q)) /\ Len(e) = l
  BY <1>2, ListedIsSeq
<1>4. PICK d \in Seq(Seq(Q)) : /\ d = e \o us /\ Len(d) = l + m
                               /\ \A i \in 1..l : d[i] = e[i]
                               /\ \A i \in 1..m : d[l + i] = us[i]
  <2>1. PICK d \in Seq(Seq(Q)) : IsJoin(d, e, us)
    BY <1>3, Joined
  <2>2. QED  BY <1>0, <1>3, <2>1, ZenonT(25) DEF IsJoin
<1> DEFINE q == [i \in DOMAIN b |-> ParamsOf(b[i])]
<1>5. q = [i \in 1..(l + m) |-> ParamsOf(b[i])] /\ DOMAIN q = 1..(l + m)
  BY <1>1
<1>6. \A i \in 1..(l + m) : q[i] = ParamsOf(b[i])
  BY <1>1
<1> HIDE DEF q
<1>7. ASSUME NEW i \in 1..(l + m) PROVE q[i] = d[i]
  <2>1. CASE i \in 1..l
    <3>1. ParamsOf(M[i]) = <<>> /\ b[i] = M[i]
      BY <1>0, <1>1, <2>1
    <3>2. d[i] = <<>>
      BY <1>2, <1>4, <2>1
    <3>3. q[i] = ParamsOf(b[i])
      BY <1>6
    <3>4. QED  BY <3>1, <3>2, <3>3
  <2>2. CASE i \notin 1..l
    <3>1. PICK j \in 1..m : i = l + j
      <4>1. i - l \in 1..m /\ i = l + (i - l)
        BY <2>2
      <4>2. QED  BY <4>1
    <3>2. b[i] = G[j] /\ d[i] = us[j]
      BY <1>1, <1>4, <3>1
    <3>3. ParamsOf(G[j]) = us[j]
      BY <1>0
    <3>4. QED  BY <1>6, <3>2, <3>3
  <2>3. QED  BY <2>1, <2>2
<1>8. q = d
  <2>1. d = [i \in 1..(l + m) |-> d[i]]
    <3>1. \A x \in Seq(Seq(Q)) : x = [i \in 1..Len(x) |-> x[i]]
      OBVIOUS
    <3>2. Len(d) = l + m
      BY <1>4
    <3>3. QED  BY <3>1, <3>2
  <2>2. q = [i \in 1..(l + m) |-> q[i]]
    BY <1>5, <1>6
  <2>3. QED  BY <1>7, <2>1, <2>2
<1>9. FlattenSeq(e \o us) = FlattenSeq(e) \o FlattenSeq(us)
  BY <1>3, FlattenJoin
<1>10. FlattenSeq(e) = <<>>
  BY <1>3, FlattenEmpties
<1>11. PICK x \in Seq(Q) : x = FlattenSeq(us)
  BY FlattenType
<1>12. <<>> \o x = x
  BY JoinEmpty
<1>13. FlattenSeq(q) = FlattenSeq(us)
  BY <1>4, <1>8, <1>9, <1>10, <1>11, <1>12
<1>14. QED  BY <1>1, <1>13 DEF AllParams, q

(* Three parts, of which one kind keeps the first and the other the rest.  *)
Separates(S, T, P, M, G) ==
    Kept(P \o M \o G, S) = P /\ Kept(P \o M \o G, T) = M \o G

LEMMA KeptOfThree ==
    ASSUME NEW A, NEW P \in Seq(A), NEW M \in Seq(A), NEW G \in Seq(A), NEW S,
           ToSet(P) \subseteq S, ToSet(M) \cap S = {}, ToSet(G) \cap S = {}
    PROVE  Separates(S, A \ S, P, M, G)
<1>1. PICK b \in Seq(A) : b = P \o M
  BY JoinType
<1>2. ASSUME NEW T PROVE Kept(b \o G, T) = (Kept(P, T) \o Kept(M, T)) \o Kept(G, T)
  <2>1. KeepsJoin(b, G, T) /\ KeepsJoin(P, M, T)
    BY KeptJoin
  <2>2. QED  BY <1>1, <2>1 DEF KeepsJoin
<1>3. Kept(P, S) = P /\ Kept(M, S) = <<>> /\ Kept(G, S) = <<>>
  BY KeptAll, KeptNone
<1>4. ToSet(M) \subseteq A \ S /\ ToSet(G) \subseteq A \ S /\ ToSet(P) \cap (A \ S) = {}
  BY ElementsAreIn
<1>5. Kept(P, A \ S) = <<>> /\ Kept(M, A \ S) = M /\ Kept(G, A \ S) = G
  BY <1>4, KeptAll, KeptNone
<1>6. P \o <<>> = P /\ <<>> \o M = M
  BY JoinEmpty
<1>7. QED  BY <1>1, <1>2, <1>3, <1>5, <1>6 DEF Separates

(* A node that is written reads as itself, its parameters grouped; unless  *)
(* it looks like owners it can be read.                                    *)
LEMMA NodeIsReadBack ==
    ASSUME NEW n, IsNode(n), WritableNode(n), NEW kw \in {"group", "template"},
           NEW s, s = Section(kw, Write(n.name), <<>>, NodeBlocks(n))
    PROVE  /\ NodeOf(s) = Regrouped(n)
           /\ ReadsSection(s) <=> ~ LooksLikeOwners(n)
<1>1. PICK P : P = PermBlocks(n.perm)
  OBVIOUS
<1>2. PICK M : M = MarkerBlocks(n)
  OBVIOUS
<1>3. PICK G : G = ParamBlocks(n)
  OBVIOUS
<1>4. /\ P \in Seq(ToSet(P)) /\ (\A b \in ToSet(P) : ReadsPerm(b))
      /\ PermOf(P) = n.perm
  <2>1. IsPerm(n.perm)
    BY DEF IsNode
  <2>2. QED  BY <1>1, <2>1, PermBlocksAreRead
<1>5. /\ M \in Seq(ToSet(M))
      /\ \A b \in ToSet(M) : ReadsControl(b) /\ ~ ReadsPerm(b)
                             /\ b.rows = <<>> /\ ParamsOf(b) = <<>>
      /\ Firsts([i \in DOMAIN M |-> M[i].head.text]) = n.controllers
  BY <1>2, MarkersAreRead
<1>6. /\ G \in Seq(ToSet(G)) /\ Len(G) = Len(ParamControllers(n.params))
      /\ \A i \in DOMAIN G : ParamsOf(G[i]) = ControllerParams(n)[i]
      /\ \A b \in ToSet(G) : ~ ReadsPerm(b) /\ b.rows # <<>>
      /\ ~ LooksLikeOwners(n) => \A b \in ToSet(G) : ReadsControl(b)
      /\ LooksLikeOwners(n) => \E b \in ToSet(G) : ~ ReadsControl(b)
  BY <1>3, ParamBlocksAreRead
<1>7. PICK A : A = ToSet(P) \cup ToSet(M) \cup ToSet(G)
  OBVIOUS
<1>8. P \in Seq(A) /\ M \in Seq(A) /\ G \in Seq(A)
  BY <1>4, <1>5, <1>6, <1>7, NarrowSeq
<1> DEFINE S == {b \in A : ReadsPerm(b)}
<1>9. A \ S = {b \in A : ~ ReadsPerm(b)}
  OBVIOUS
<1>10. ToSet(P) \subseteq S /\ ToSet(M) \cap S = {} /\ ToSet(G) \cap S = {}
  BY <1>4, <1>5, <1>6, <1>7
<1>11. PICK pm \in Seq(A) : pm = P \o M
  BY <1>8, JoinType
<1>12. PICK bs \in Seq(A) : bs = P \o M \o G /\ ToSet(bs) = ToSet(P) \cup ToSet(M) \cup ToSet(G)
  <2>1. pm \o G \in Seq(A) /\ ToSet(pm \o G) = ToSet(pm) \cup ToSet(G)
    BY <1>8, ElementsOfJoin
  <2>2. ToSet(pm) = ToSet(P) \cup ToSet(M)
    BY <1>8, <1>11, ElementsOfJoin
  <2>3. QED  BY <1>11, <2>1, <2>2
<1>13. Kept(bs, S) = P /\ Kept(bs, A \ S) = M \o G
  <2> HIDE DEF S
  <2>1. Separates(S, A \ S, P, M, G)
    BY <1>8, <1>10, KeptOfThree
  <2>2. QED  BY <1>12, <2>1 DEF Separates
<1>14. Those(bs, ReadsPerm) = P
  BY <1>13, PermBlocksKept
<1>15. Those(bs, LAMBDA b : ~ ReadsPerm(b)) = M \o G
  BY <1>9, <1>13, ControlBlocksKept
<1>16. PermOf(bs) = n.perm
  <2>1. Those(P, ReadsPerm) = P
    <3>1. Those(P, ReadsPerm) = Kept(P, S)
      BY <1>8, PermBlocksKept
    <3> HIDE DEF S
    <3>2. Kept(P, S) = P
      BY <1>8, <1>10, KeptAll
    <3>3. QED  BY <3>1, <3>2
  <2>2. PermOf(bs) = PermOf(P)
    BY <1>14, <2>1 DEF PermOf
  <2>3. QED  BY <1>4, <2>2
<1>17. PICK mg \in Seq(A) : mg = M \o G
  BY <1>8, JoinType
<1>18. Those(mg, LAMBDA b : b.rows = <<>>) = M
  <2> DEFINE T == {b \in A : b.rows = <<>>}
  <2>1. ToSet(M) \subseteq T /\ ToSet(G) \cap T = {}
    BY <1>5, <1>6, <1>7
  <2>2. Those(mg, LAMBDA b : b.rows = <<>>) = Kept(mg, T)
    BY MarkersKept
  <2> HIDE DEF T
  <2>3. KeepsJoin(M, G, T)
    BY <1>8, KeptJoin
  <2>4. Kept(M, T) = M /\ Kept(G, T) = <<>>
    BY <1>8, <2>1, KeptAll, KeptNone
  <2>5. M \o <<>> = M
    BY <1>8, JoinEmpty
  <2>6. QED  BY <1>17, <2>2, <2>3, <2>4, <2>5 DEF KeepsJoin
<1>19. AllParams(mg) = FlattenSeq(ControllerParams(n))
  <2>1. PICK us \in Seq(Seq(ToSet(n.params))) :
            us = ControllerParams(n) /\ Len(us) = Len(G)
    BY <1>6, ControllerParamsType
  <2>2. \A i \in DOMAIN M : ParamsOf(M[i]) = <<>>
    BY <1>5 DEF ToSet
  <2>3. QED  BY <1>6, <1>8, <1>17, <2>1, <2>2, ParamsOfControllers, ZenonT(25)
<1>20. s.blocks = bs /\ s.name.text = n.name /\ s.name = Write(n.name) /\ s.kw = kw
  BY <1>1, <1>2, <1>3, <1>12, BlocksOfNode, WrittenWord DEF Section
<1>21. NodeOf(s) = [name |-> n.name, perm |-> n.perm, controllers |-> n.controllers,
                    params |-> FlattenSeq(ControllerParams(n))]
  <2>1. NodeOf(s) = [name |-> s.name.text, perm |-> PermOf(bs),
                     controllers |-> Firsts([i \in DOMAIN M |-> M[i].head.text]),
                     params |-> AllParams(mg)]
    BY <1>15, <1>17, <1>18, <1>20 DEF NodeOf, AllParams
  <2>2. QED  BY <1>5, <1>16, <1>19, <1>20, <2>1
<1>22. Regrouped(n) = [name |-> n.name, perm |-> n.perm, controllers |-> n.controllers,
                       params |-> FlattenSeq(ControllerParams(n))]
  <2>1. Regrouped(n) = [n EXCEPT !.params = FlattenSeq(ControllerParams(n))]
    BY DEF Regrouped, ControllerParams
  <2>2. n = [name |-> n.name, perm |-> n.perm, controllers |-> n.controllers,
             params |-> n.params]
    BY DEF IsNode
  <2>3. QED  BY <2>1, <2>2
<1>23. ReadsToken(s.name)
  BY <1>20, WrittenWord DEF IsNode
<1>24. ReadsSection(s) <=> \A b \in ToSet(bs) : ReadsBlock(b)
  <2>1. ReadsSection(s) <=> \A i \in DOMAIN bs : ReadsBlock(bs[i])
    BY <1>20, <1>23 DEF ReadsSection
  <2>2. QED  BY <2>1 DEF ToSet
<1>25. (\A b \in ToSet(bs) : ReadsBlock(b)) <=> \A b \in ToSet(G) : ReadsControl(b)
  BY <1>4, <1>5, <1>6, <1>12 DEF ReadsBlock
<1>26. (\A b \in ToSet(G) : ReadsControl(b)) <=> ~ LooksLikeOwners(n)
  BY <1>6
<1>27. QED  BY <1>21, <1>22, <1>24, <1>25, <1>26

-----------------------------------------------------------------------------
(* Parameters that are grouped already.                                    *)

LEMMA ControllersType ==
    ASSUME NEW Q, NEW x \in Seq(Q)
    PROVE  /\ Controllers1(x) \in Seq({p[1] : p \in Q})
           /\ Len(Controllers1(x)) = Len(x)
           /\ \A i \in 1..Len(x) : Controllers1(x)[i] = x[i][1]
<1> DEFINE H == {p[1] : p \in Q}
<1>1. PICK m \in Nat : m = Len(x) /\ DOMAIN x = 1..m
  OBVIOUS
<1>2. PICK w : w = Controllers1(x)
  OBVIOUS
<1>3. w = [i \in 1..m |-> x[i][1]] /\ \A i \in 1..m : x[i] \in Q
  BY <1>1, <1>2 DEF Controllers1
<1>4. w \in [1..m -> H] /\ \A i \in 1..m : w[i] = x[i][1]
  BY <1>3
<1> HIDE DEF H
<1>5. w \in Seq(H) /\ Len(w) = m
  BY <1>4, ListedIsSeq
<1>6. QED  BY <1>1, <1>2, <1>4, <1>5 DEF H

ControllersJoin(x, y) == Controllers1(x \o y) = Controllers1(x) \o Controllers1(y)

LEMMA ControllersOfJoin ==
    ASSUME NEW Q, NEW x \in Seq(Q), NEW y \in Seq(Q)
    PROVE  ControllersJoin(x, y)
<1>0. PICK H : H = {p[1] : p \in Q}
  OBVIOUS
<1>1. PICK l \in Nat, m \in Nat : l = Len(x) /\ m = Len(y)
  OBVIOUS
<1>2. PICK b \in Seq(Q) : IsJoin(b, x, y)
  BY Joined
<1>3. /\ b = x \o y /\ Len(b) = l + m
      /\ \A i \in 1..l : b[i] = x[i]
      /\ \A i \in 1..m : b[l + i] = y[i]
  BY <1>1, <1>2 DEF IsJoin
<1>4. PICK u \in Seq(H) : /\ u = Controllers1(x) /\ Len(u) = l
                          /\ \A i \in 1..l : u[i] = x[i][1]
  BY <1>0, <1>1, ControllersType
<1>5. PICK v \in Seq(H) : /\ v = Controllers1(y) /\ Len(v) = m
                          /\ \A i \in 1..m : v[i] = y[i][1]
  BY <1>0, <1>1, ControllersType, ZenonT(25)
<1>6. PICK w \in Seq(H) : /\ w = Controllers1(b) /\ Len(w) = l + m
                          /\ \A i \in 1..(l + m) : w[i] = b[i][1]
  <2>1. PICK w : w = Controllers1(b)
    OBVIOUS
  <2>2. w \in Seq(H) /\ Len(w) = Len(b) /\ \A i \in 1..Len(b) : w[i] = b[i][1]
    BY <1>0, <2>1, ControllersType
  <2>3. Len(b) = l + m
    BY <1>3
  <2>4. QED  BY <2>1, <2>2, <2>3, Zenon
<1>7. PICK d \in Seq(H) : IsJoin(d, u, v)
  BY Joined
<1>8. /\ d = u \o v /\ Len(d) = l + m
      /\ \A i \in 1..l : d[i] = u[i]
      /\ \A i \in 1..m : d[l + i] = v[i]
  BY <1>4, <1>5, <1>7 DEF IsJoin
<1>9. ASSUME NEW i \in 1..(l + m) PROVE w[i] = d[i]
  <2>1. CASE i \in 1..l
    <3>1. b[i] = x[i] /\ d[i] = u[i] /\ u[i] = x[i][1]
      BY <1>3, <1>4, <1>8, <2>1
    <3>2. w[i] = b[i][1]
      BY <1>6
    <3>3. QED  BY <3>1, <3>2
  <2>2. CASE i \notin 1..l
    <3>1. PICK j \in 1..m : i = l + j
      <4>1. i - l \in 1..m /\ i = l + (i - l)
        BY <2>2
      <4>2. QED  BY <4>1
    <3>2. b[i] = y[j] /\ d[i] = v[j] /\ v[j] = y[j][1]
      BY <1>3, <1>5, <1>8, <3>1
    <3>3. w[i] = b[i][1]
      BY <1>6
    <3>4. QED  BY <3>2, <3>3
  <2>3. QED  BY <2>1, <2>2
<1>10. w = d
  BY <1>6, <1>8, <1>9, SamePointwise
<1>11. QED  BY <1>3, <1>4, <1>5, <1>6, <1>8, <1>10 DEF ControllersJoin

LEMMA ControllersOfFlatten ==
    ASSUME NEW Q, NEW s \in Seq(Seq(Q)), NEW H, NEW t \in Seq(Seq(H)), Len(t) = Len(s),
           \A i \in 1..Len(s) : t[i] = Controllers1(s[i])
    PROVE  Controllers1(FlattenSeq(s)) = FlattenSeq(t)
<1>0. PICK m \in Nat : m = Len(s) /\ DOMAIN s = 1..m
  OBVIOUS
<1>1. PICK f \in [0..m -> Seq(Q)] :
          /\ f[0] = <<>>
          /\ \A i \in 1..m : f[i] = f[i-1] \o s[i]
          /\ f[m] = FlattenSeq(s)
  <2>1. PICK f \in [0..Len(s) -> Seq(Q)] :
            /\ f[0] = <<>>
            /\ \A i \in 1..Len(s) : f[i] = f[i-1] \o s[i]
            /\ f[Len(s)] = FlattenSeq(s)
    BY Flattening
  <2>2. Len(s) = m
    BY <1>0
  <2>3. QED  BY <2>1, <2>2, Zenon
<1>2. PICK g \in [0..m -> Seq(H)] :
          /\ g[0] = <<>>
          /\ \A i \in 1..m : g[i] = g[i-1] \o t[i]
          /\ g[m] = FlattenSeq(t)
  <2>1. PICK g \in [0..Len(t) -> Seq(H)] :
            /\ g[0] = <<>>
            /\ \A i \in 1..Len(t) : g[i] = g[i-1] \o t[i]
            /\ g[Len(t)] = FlattenSeq(t)
    BY Flattening
  <2>2. Len(t) = m
    BY <1>0
  <2>3. QED  BY <2>1, <2>2, Zenon
<1> DEFINE T == {n \in Nat : Controllers1(f[n]) = g[n]}
<1>3. 0 \in T
  <2>1. Controllers1(<<>>) = <<>>
    BY DEF Controllers1
  <2>2. QED  BY <1>1, <1>2, <2>1
<1>4. ASSUME NEW n \in 0..(m - 1), n \in T PROVE n + 1 \in T
  <2>1. n + 1 \in 1..m /\ (n + 1) - 1 = n /\ n + 1 \in Nat /\ n \in 0..m
    BY <1>0
  <2>2. PICK x \in Seq(Q), y \in Seq(Q) : x = f[n] /\ y = s[n + 1]
    <3>1. f[n] \in Seq(Q)
      BY <1>1, <2>1
    <3>2. s[n + 1] \in Seq(Q)
      BY <1>0, <2>1
    <3>3. QED  BY <3>1, <3>2
  <2>3. f[n + 1] = x \o y /\ g[n + 1] = g[n] \o t[n + 1]
    BY <1>1, <1>2, <2>1, <2>2
  <2>4. Controllers1(x \o y) = Controllers1(x) \o Controllers1(y)
    <3>1. ControllersJoin(x, y)
      BY ControllersOfJoin
    <3>2. QED  BY <3>1 DEF ControllersJoin
  <2>5. Controllers1(x) = g[n] /\ Controllers1(y) = t[n + 1]
    BY <1>0, <1>4, <2>1, <2>2
  <2>6. QED  BY <2>1, <2>3, <2>4, <2>5
<1>5. 0..m \subseteq T
  <2> HIDE DEF T
  <2>1. QED  BY <1>0, <1>3, <1>4, InductionUpTo
<1>6. m \in T
  <2>1. m \in 0..m
    BY <1>0
  <2>2. QED  BY <1>5, <2>1
<1>7. QED  BY <1>1, <1>2, <1>6

(* Parameters in groups, one group for a controller, are read as grouped.   *)
GroupsOf(us, cs) ==
    /\ Len(us) = Len(cs)
    /\ \A i \in DOMAIN cs : us[i] # <<>> /\ \A p \in ToSet(us[i]) : p[1] = cs[i]

LEMMA ParamGroups ==
    ASSUME NEW Q, NEW cs \in Seq({p[1] : p \in Q}), IsInjective(cs),
           NEW us \in Seq(Seq(Q)), GroupsOf(us, cs)
    PROVE  /\ ParamControllers(FlattenSeq(us)) = cs
           /\ \A k \in DOMAIN cs : Under(FlattenSeq(us), cs[k]) = us[k]
<1>2. PICK H : H = {p[1] : p \in Q}
  OBVIOUS
<1>3. cs \in Seq(H) /\ IsInjective(cs)
  BY <1>2
<1>4. PICK m \in Nat : m = Len(cs) /\ DOMAIN cs = 1..m
  BY <1>3
<1>5. us \in Seq(Seq(Q)) /\ Len(us) = m /\ DOMAIN us = 1..m
  BY <1>4 DEF GroupsOf
<1>6. \A i \in DOMAIN cs : us[i] # <<>> /\ \A p \in ToSet(us[i]) : p[1] = cs[i]
  BY DEF GroupsOf
<1>7. \A i \in 1..m : us[i] \in Seq(Q) /\ us[i] # <<>> /\ \A p \in ToSet(us[i]) : p[1] = cs[i]
  <2>1. \A i \in 1..m : us[i] \in Seq(Q)
    BY <1>5
  <2>2. QED  BY ONLY <1>4, <1>6, <2>1
<1>10. PICK fs \in Seq(Q) : fs = FlattenSeq(us)
  BY <1>5, FlattenType
<1> DEFINE w == [i \in 1..m |-> Controllers1(us[i])]
<1>12. \A i \in 1..m : /\ Controllers1(us[i]) \in Seq(H) /\ Controllers1(us[i]) # <<>>
                       /\ ToSet(Controllers1(us[i])) = {cs[i]}
  <2>1. SUFFICES ASSUME NEW i \in 1..m
                 PROVE  /\ Controllers1(us[i]) \in Seq(H) /\ Controllers1(us[i]) # <<>>
                        /\ ToSet(Controllers1(us[i])) = {cs[i]}
    OBVIOUS
  <2>2. PICK x \in Seq(Q) : x = us[i] /\ x # <<>> /\ \A p \in ToSet(x) : p[1] = cs[i]
    BY <1>7
  <2>3. PICK l \in Nat \ {0} : l = Len(x) /\ DOMAIN x = 1..l
    BY <2>2
  <2>4. PICK v \in Seq(H) : /\ v = Controllers1(x) /\ Len(v) = l
                            /\ \A j \in 1..l : v[j] = x[j][1]
    BY <1>2, <2>3, ControllersType
  <2>5. \A j \in 1..l : x[j][1] = cs[i]
    <3>1. ToSet(x) = {x[j] : j \in 1..l}
      BY <2>3 DEF ToSet
    <3>2. QED  BY <2>2, <3>1
  <2>6. DOMAIN v = 1..l
    BY <2>4
  <2>7. ToSet(v) = {v[j] : j \in 1..l}
    BY <2>6 DEF ToSet
  <2>8. 1 \in 1..l
    BY <2>3
  <2>9. ToSet(v) = {cs[i]}
    <3>1. \A j \in 1..l : v[j] = cs[i]
      BY ONLY <2>4, <2>5
    <3>2. QED  BY ONLY <2>7, <2>8, <3>1
  <2>10. v # <<>>
    BY <2>3, <2>4
  <2>11. QED  BY <2>2, <2>4, <2>9, <2>10
<1>13. w \in [1..m -> Seq(H)] /\ \A i \in 1..m : w[i] = Controllers1(us[i])
  BY <1>12
<1> HIDE DEF w
<1>14. w \in Seq(Seq(H)) /\ Len(w) = m
  BY <1>13, ListedIsSeq
<1>15. Controllers1(fs) = FlattenSeq(w)
  <2>1. Len(w) = Len(us) /\ \A i \in 1..Len(us) : w[i] = Controllers1(us[i])
    BY <1>5, <1>13, <1>14
  <2>2. QED  BY <1>5, <1>10, <1>14, <2>1, ControllersOfFlatten
<1>16. Firsts(FlattenSeq(w)) = cs
  <2>1. \A i \in DOMAIN cs : w[i] # <<>> /\ ToSet(w[i]) = {cs[i]}
    BY <1>4, <1>12, <1>13
  <2>2. Len(w) = Len(cs)
    BY <1>4, <1>14
  <2>3. AreGroups(w, cs)
    BY <2>1, <2>2 DEF AreGroups
  <2>4. cs \in Seq(H) /\ IsInjective(cs) /\ w \in Seq(Seq(H))
    BY <1>3, <1>14
  <2>5. QED  BY <2>3, <2>4, FirstsOfGroups
<1>17. ParamControllers(fs) = cs
  BY <1>15, <1>16 DEF ParamControllers, Controllers1
<1>18. ASSUME NEW k \in 1..m PROVE Under(fs, cs[k]) = us[k]
  <2> DEFINE K == {p \in Q : p[1] = cs[k]}
             t == [i \in 1..m |-> Kept(us[i], K)]
  <2>1. Under(fs, cs[k]) = Kept(fs, K)
    BY UnderKept
  <2>2. \A i \in 1..m : i # k => cs[i] # cs[k]
    BY <1>3, <1>4 DEF IsInjective
  <2>3. \A i \in 1..m : i # k => ToSet(us[i]) \cap K = {}
    BY <1>7, <2>2
  <2>4. ToSet(us[k]) \subseteq K
    <3>1. us[k] \in Seq(Q) /\ \A p \in ToSet(us[k]) : p[1] = cs[k]
      BY <1>7
    <3>2. ToSet(us[k]) \subseteq Q
      BY <3>1, ElementsAreIn
    <3>3. QED  BY <3>1, <3>2
  <2> HIDE DEF K
  <2>5. \A i \in 1..m : Kept(us[i], K) \in Seq(Q)
    BY <1>7, KeptElements
  <2>6. t \in [1..m -> Seq(Q)] /\ \A i \in 1..m : t[i] = Kept(us[i], K)
    BY <2>5
  <2> HIDE DEF t
  <2>7. t \in Seq(Seq(Q)) /\ Len(t) = m
    BY <2>6, ListedIsSeq
  <2>8. Kept(fs, K) = FlattenSeq(t)
    <3>1. Len(t) = Len(us) /\ \A i \in 1..Len(us) : t[i] = Kept(us[i], K)
      BY <1>5, <2>6, <2>7
    <3>2. QED  BY <1>5, <1>10, <2>7, <3>1, KeptFlatten
  <2>9. OnlyAt(t, k)
    <3>1. \A i \in 1..m : i # k => Kept(us[i], K) = <<>>
      BY <1>7, <2>3, KeptNone
    <3>2. QED  BY <2>6, <2>7, <3>1 DEF OnlyAt
  <2>10. FlattenSeq(t) = t[k]
    BY <2>7, <2>9, FlattenAlone
  <2>11. t[k] = us[k]
    BY <1>7, <2>4, <2>6, KeptAll
  <2>12. QED  BY <2>1, <2>8, <2>10, <2>11
<1>19. QED  BY <1>4, <1>10, <1>17, <1>18

LEMMA RegroupedParams ==
    ASSUME NEW n, IsNode(n), NEW us, us = ControllerParams(n),
           NEW cs, cs = ParamControllers(n.params)
    PROVE  /\ ToSet(FlattenSeq(us)) = ToSet(n.params)
           /\ ParamControllers(FlattenSeq(us)) = cs
           /\ \A k \in DOMAIN cs : Under(FlattenSeq(us), cs[k]) = us[k]
<1>0. PICK Q : Q = ToSet(n.params)
  OBVIOUS
<1>1. PICK ps \in Seq(Q) : ps = n.params /\ ToSet(ps) = Q
  BY <1>0 DEF IsNode
<1>2. PICK H : H = {p[1] : p \in Q}
  OBVIOUS
<1>3. cs \in Seq(H) /\ IsInjective(cs) /\ ToSet(cs) = H
  BY <1>1, <1>2, ControllersOfParams
<1>4. PICK m \in Nat : m = Len(cs) /\ DOMAIN cs = 1..m
  BY <1>3
<1>5. us \in Seq(Seq(Q)) /\ Len(us) = m /\ DOMAIN us = 1..m
  BY <1>0, <1>4, ControllerParamsType
<1>6. \A i \in 1..m : us[i] = Under(ps, cs[i])
  BY <1>1, <1>4, ControllerParamsType
<1>7. \A i \in 1..m : us[i] \in Seq(Q) /\ ToSet(us[i]) = {p \in Q : p[1] = cs[i]}
  BY <1>1, <1>6, UnderHas
<1>8. \A i \in 1..m : cs[i] \in H
  BY <1>3, <1>4
<1>9. \A i \in 1..m : us[i] # <<>>
  <2>1. ToSet(<<>>) = {}
    BY DEF ToSet
  <2>2. SUFFICES ASSUME NEW i \in 1..m, us[i] = <<>> PROVE FALSE
    OBVIOUS
  <2>3. PICK p \in Q : p[1] = cs[i]
    BY <1>2, <1>8
  <2>4. p \in ToSet(us[i])
    BY <1>7, <2>3
  <2>5. QED  BY <2>1, <2>2, <2>4
<1>10. PICK fs \in Seq(Q) : fs = FlattenSeq(us)
  BY <1>5, FlattenType
<1>11. ToSet(fs) = Q
  <2>1. ToSet(fs) = UNION {ToSet(us[i]) : i \in DOMAIN us}
    BY <1>5, <1>10, ElementsOfFlatten
  <2>2. ToSet(fs) = UNION {ToSet(us[i]) : i \in 1..m}
    BY <1>5, <2>1, Zenon
  <2>3. \A p \in Q : \E i \in 1..m : p[1] = cs[i]
    <3>1. ToSet(cs) = {cs[i] : i \in 1..m}
      BY <1>4 DEF ToSet
    <3>2. QED  BY <1>2, <1>3, <3>1
  <2>4. \A p \in Q : \E i \in 1..m : p \in ToSet(us[i])
    BY <1>7, <2>3
  <2>5. \A i \in 1..m : ToSet(us[i]) \subseteq Q
    BY <1>7
  <2>6. QED  BY <2>2, <2>4, <2>5, Zenon
<1>12. GroupsOf(us, cs)
  BY <1>4, <1>5, <1>7, <1>9 DEF GroupsOf
<1>13. QED  BY <1>1, <1>2, <1>3, <1>4, <1>5, <1>10, <1>11, <1>12, ParamGroups

-----------------------------------------------------------------------------
(* Parameters that stand together by controller are already grouped.       *)

StandTogether(ps) ==
    \A i, k \in DOMAIN ps : \A j \in i..k : ps[i][1] = ps[k][1] => ps[j][1] = ps[k][1]

(* The parameters ps are the groups us of the controllers cs, the last of  *)
(* which is the last parameter's.                                          *)
InGroups(ps, cs, us) ==
    /\ IsInjective(cs) /\ GroupsOf(us, cs) /\ FlattenSeq(us) = ps
    /\ ps # <<>> => Len(cs) > 0 /\ cs[Len(cs)] = ps[Len(ps)][1]

(* One more parameter of the last controller.                              *)
LEMMA LastGroupGrows ==
    ASSUME NEW Q, NEW H, NEW ps \in Seq(Q), NEW cs \in Seq(H), NEW us \in Seq(Seq(Q)),
           InGroups(ps, cs, us), ps # <<>>, NEW x \in Q, x[1] = ps[Len(ps)][1],
           NEW qs, qs = ps \o <<x>>
    PROVE  \E ws \in Seq(Seq(Q)) : InGroups(qs, cs, ws)
<1>1. PICK m \in Nat \ {0} : m = Len(cs) /\ DOMAIN cs = 1..m /\ m = Len(us) /\ DOMAIN us = 1..m
  BY DEF InGroups, GroupsOf
<1>2. cs[m] = x[1] /\ FlattenSeq(us) = ps /\ IsInjective(cs)
  BY <1>1 DEF InGroups
<1>3. \A i \in 1..m : us[i] \in Seq(Q)
  BY <1>1
<1>4. \A i \in 1..m : us[i] # <<>> /\ \A p \in ToSet(us[i]) : p[1] = cs[i]
  BY <1>1 DEF InGroups, GroupsOf
<1>5. PICK g \in Seq(Q) : g = us[m] /\ g # <<>> /\ \A p \in ToSet(g) : p[1] = x[1]
  BY <1>1, <1>2, <1>3, <1>4
<1>6. PICK o : o = <<x>>
  OBVIOUS
<1>7. o \in Seq(Q) /\ Len(o) = 1 /\ DOMAIN o = 1..1 /\ o[1] = x
  BY <1>6
<1>8. ToSet(o) = {x}
  BY <1>7 DEF ToSet
<1>9. PICK h \in Seq(Q) : IsJoin(h, g, o)
  BY <1>7, Joined
<1>10. h # <<>> /\ \A p \in ToSet(h) : p[1] = x[1]
  <2>1. ToSet(h) = ToSet(g) \cup {x}
    <3>1. h = g \o o
      BY <1>9 DEF IsJoin
    <3>2. QED  BY <1>7, <1>8, <3>1, ElementsOfJoin
  <2>2. Len(h) # 0
    BY <1>7, <1>9 DEF IsJoin
  <2>3. QED  BY <1>5, <2>1, <2>2
<1> DEFINE front == [i \in 1..(m - 1) |-> us[i]]
           more == [i \in 1..m |-> IF i = m THEN h ELSE us[i]]
<1>11. m - 1 \in Nat /\ front \in [1..(m - 1) -> Seq(Q)] /\ more \in [1..m -> Seq(Q)]
  BY <1>3
<1>12. \A i \in 1..(m - 1) : front[i] = us[i]
  OBVIOUS
<1>13. more[m] = h /\ \A i \in 1..m : i # m => more[i] = us[i]
  BY <1>1
<1> HIDE DEF front, more
<1>14. front \in Seq(Seq(Q)) /\ Len(front) = m - 1
  BY <1>11, ListedIsSeq
<1>15. more \in Seq(Seq(Q)) /\ Len(more) = m
  BY <1>11, ListedIsSeq
<1>16. FlattenSeq(front) \in Seq(Q)
  BY <1>14, FlattenType
<1>17. us = front \o <<g>>
  BY <1>1, <1>5, <1>12, <1>14
<1>18. more = front \o <<h>>
  <2>0. PICK w : w = <<h>>
    OBVIOUS
  <2>0a. w \in Seq(Seq(Q)) /\ Len(w) = 1 /\ w[1] = h
    BY <2>0
  <2>1. PICK b \in Seq(Seq(Q)) : IsJoin(b, front, w)
    BY <1>14, <2>0a, Joined
  <2>2. /\ b = front \o <<h>> /\ Len(b) = m /\ b[m] = h
        /\ \A i \in 1..(m - 1) : b[i] = front[i]
    <3>1. /\ b = front \o w /\ Len(b) = Len(front) + Len(w)
          /\ \A i \in 1..Len(front) : b[i] = front[i]
          /\ \A i \in 1..Len(w) : b[Len(front) + i] = w[i]
      BY <2>1 DEF IsJoin
    <3>2. 1 \in 1..Len(w) /\ Len(front) = m - 1 /\ (m - 1) + 1 = m
      BY <1>1, <1>14, <2>0a
    <3>3. b[m] = h
      BY <2>0a, <3>1, <3>2
    <3>4. QED  BY <2>0, <2>0a, <3>1, <3>2, <3>3
  <2>3. \A i \in 1..(m - 1) : more[i] = us[i]
    BY <1>1, <1>13
  <2>4. \A i \in 1..m : more[i] = b[i]
    <3>1. SUFFICES ASSUME NEW i \in 1..m, i # m PROVE more[i] = b[i]
      BY <1>13, <2>2
    <3>2. i \in 1..(m - 1)
      BY <1>1, <3>1
    <3>3. QED  BY <1>12, <2>2, <2>3, <3>2
  <2>5. QED  BY <1>15, <2>2, <2>4, SamePointwise
<1>19. FlattenSeq(us) = FlattenSeq(front) \o g
  <2>1. <<g>> \in Seq(Seq(Q)) /\ FlattenSeq(<<g>>) = g
    BY FlattenOne
  <2>2. QED  BY <1>14, <1>17, <2>1, FlattenJoin
<1>20. FlattenSeq(more) = FlattenSeq(front) \o h
  <2>1. <<h>> \in Seq(Seq(Q)) /\ FlattenSeq(<<h>>) = h
    BY FlattenOne
  <2>2. QED  BY <1>14, <1>18, <2>1, FlattenJoin
<1>21. PICK f \in Seq(Q) : f = FlattenSeq(front)
  BY <1>16
<1>22. FlattenSeq(more) = qs
  <2>1. Associates(f, g, o)
    BY <1>7, JoinAssociates
  <2>2. (f \o g) \o o = f \o (g \o o)
    BY <2>1 DEF Associates
  <2>3. h = g \o o
    BY <1>9 DEF IsJoin
  <2>4. QED  BY <1>2, <1>6, <1>19, <1>20, <1>21, <2>2, <2>3
<1>23. GroupsOf(more, cs)
  BY <1>1, <1>2, <1>4, <1>10, <1>13, <1>15 DEF GroupsOf
<1>24. cs[Len(cs)] = qs[Len(qs)][1] /\ Len(cs) > 0
  <2>1. Len(qs) = Len(ps) + 1 /\ qs[Len(ps) + 1] = o[1]
    BY <1>6, <1>7, JoinType
  <2>2. QED  BY <1>1, <1>2, <1>7, <2>1
<1>25. QED  BY <1>2, <1>15, <1>22, <1>23, <1>24 DEF InGroups

(* A parameter of a controller not met before.                             *)
LEMMA AnotherGroup ==
    ASSUME NEW Q, NEW H, NEW ps \in Seq(Q), NEW cs \in Seq(H), NEW us \in Seq(Seq(Q)),
           InGroups(ps, cs, us), NEW x \in Q, x[1] \in H, \A p \in ToSet(ps) : p[1] # x[1],
           NEW qs, qs = ps \o <<x>>
    PROVE  \E ds \in Seq(H), ws \in Seq(Seq(Q)) : InGroups(qs, ds, ws)
<1>1. PICK m \in Nat : m = Len(cs) /\ DOMAIN cs = 1..m /\ m = Len(us) /\ DOMAIN us = 1..m
  BY DEF InGroups, GroupsOf
<1>2. FlattenSeq(us) = ps /\ IsInjective(cs)
  BY DEF InGroups
<1>3. \A i \in 1..m : us[i] \in Seq(Q)
  BY <1>1
<1>4. \A i \in 1..m : us[i] # <<>> /\ \A p \in ToSet(us[i]) : p[1] = cs[i]
  BY <1>1 DEF InGroups, GroupsOf
<1>5. PICK h : h = x[1]
  OBVIOUS
<1>6. PICK o : o = <<x>>
  OBVIOUS
<1>7. o \in Seq(Q) /\ Len(o) = 1 /\ DOMAIN o = 1..1 /\ o[1] = x /\ o # <<>>
  BY <1>6
<1>8. ToSet(o) = {x}
  BY <1>7 DEF ToSet
<1>9. PICK k \in Seq(H) : k = <<h>> /\ Len(k) = 1 /\ DOMAIN k = 1..1 /\ k[1] = h
  <2>1. PICK k : k = <<h>>
    OBVIOUS
  <2>2. h \in H
    BY <1>5
  <2>3. k \in Seq(H) /\ Len(k) = 1 /\ DOMAIN k = 1..1 /\ k[1] = h
    BY <2>1, <2>2
  <2>4. QED  BY <2>1, <2>3
<1>10. PICK w \in Seq(Seq(Q)) : w = <<o>> /\ Len(w) = 1 /\ w[1] = o
  <2>1. PICK w : w = <<o>>
    OBVIOUS
  <2>2. w \in Seq(Seq(Q)) /\ Len(w) = 1 /\ w[1] = o
    BY <1>7, <2>1
  <2>3. QED  BY <2>1, <2>2
<1>11. h \notin ToSet(cs)
  <2>1. SUFFICES ASSUME NEW i \in 1..m, cs[i] = h PROVE FALSE
    BY <1>1 DEF ToSet
  <2>2. PICK u \in Seq(Q) : u = us[i] /\ u # <<>> /\ \A p \in ToSet(u) : p[1] = h
    BY <1>3, <1>4, <2>1
  <2>3. Head(u) \in ToSet(u)
    BY <2>2, ElementsOfRest
  <2>4. ToSet(ps) = UNION {ToSet(us[j]) : j \in DOMAIN us}
    BY <1>2, ElementsOfFlatten
  <2>5. Head(u) \in ToSet(ps)
    BY <1>1, <2>1, <2>2, <2>3, <2>4
  <2>6. QED  BY <1>5, <2>2, <2>3, <2>5
<1>12. PICK ds \in Seq(H) : IsJoin(ds, cs, k)
  BY <1>9, Joined
<1>13. PICK ws \in Seq(Seq(Q)) : IsJoin(ws, us, w)
  BY <1>10, Joined
<1>13a. ds = cs \o k /\ ws = us \o w
  BY <1>12, <1>13 DEF IsJoin
<1>14. Len(ds) = m + 1 /\ ds[m + 1] = h /\ \A i \in 1..m : ds[i] = cs[i]
  <2>1. /\ Len(ds) = Len(cs) + Len(k)
        /\ \A i \in 1..Len(cs) : ds[i] = cs[i]
        /\ \A i \in 1..Len(k) : ds[Len(cs) + i] = k[i]
    BY <1>12 DEF IsJoin
  <2>2. 1 \in 1..Len(k)
    BY <1>9
  <2>3. QED  BY <1>1, <1>9, <2>1, <2>2
<1>15. Len(ws) = m + 1 /\ ws[m + 1] = o /\ \A i \in 1..m : ws[i] = us[i]
  BY <1>1, <1>10, <1>13 DEF IsJoin
<1>16. IsInjective(ds)
  <2>1. IsInjective(k) /\ ToSet(k) = {h}
    BY <1>9 DEF ToSet, IsInjective
  <2>2. QED  BY <1>2, <1>9, <1>11, <1>13a, <2>1, ElementsOfJoin
<1>17. FlattenSeq(ws) = qs
  <2>1. FlattenSeq(w) = o
    BY <1>7, <1>10, FlattenOne
  <2>2. FlattenSeq(ws) = FlattenSeq(us) \o FlattenSeq(w)
    BY <1>10, <1>13a, FlattenJoin
  <2>3. QED  BY <1>2, <1>6, <2>1, <2>2
<1>18. GroupsOf(ws, ds)
  <2>1. SUFFICES ASSUME NEW i \in 1..(m + 1)
                 PROVE  ws[i] # <<>> /\ \A p \in ToSet(ws[i]) : p[1] = ds[i]
    BY <1>14, <1>15 DEF GroupsOf
  <2>2. CASE i \in 1..m
    BY <1>4, <1>14, <1>15, <2>2
  <2>3. CASE i = m + 1
    <3>1. ws[i] = o /\ ds[i] = h
      BY <1>14, <1>15, <2>3
    <3>2. QED  BY <1>5, <1>7, <1>8, <3>1
  <2>4. QED  BY <2>2, <2>3
<1>19. ds[Len(ds)] = qs[Len(qs)][1] /\ Len(ds) > 0
  <2>1. Len(qs) = Len(ps) + 1 /\ qs[Len(ps) + 1] = o[1]
    BY <1>6, <1>7, JoinType
  <2>2. QED  BY <1>1, <1>5, <1>7, <1>14, <2>1
<1>20. QED  BY <1>16, <1>17, <1>18, <1>19 DEF InGroups

LEMMA TogetherInGroups ==
    ASSUME NEW Q, NEW H, H = {p[1] : p \in Q}, NEW qs \in Seq(Q), StandTogether(qs)
    PROVE  \E cs \in Seq(H), us \in Seq(Seq(Q)) : InGroups(qs, cs, us)
<1> DEFINE Grouped(n) == \A ps \in Seq(Q) : Len(ps) = n /\ StandTogether(ps)
                             => \E cs \in Seq(H), us \in Seq(Seq(Q)) : InGroups(ps, cs, us)
           N == {n \in Nat : Grouped(n)}
<1>1. Grouped(0)
  <2>1. SUFFICES ASSUME NEW ps \in Seq(Q), Len(ps) = 0
                 PROVE  \E cs \in Seq(H), us \in Seq(Seq(Q)) : InGroups(ps, cs, us)
    OBVIOUS
  <2>2. PICK e : e = <<>>
    OBVIOUS
  <2>3. e \in Seq(H) /\ e \in Seq(Seq(Q)) /\ e \in Seq({<<>>}) /\ Len(e) = 0 /\ DOMAIN e = {}
        /\ ps = e
    BY <2>1, <2>2
  <2>4. FlattenSeq(e) = e
    BY <2>2, <2>3, FlattenEmpties
  <2>5. IsInjective(e) /\ GroupsOf(e, e)
    BY <2>3 DEF IsInjective, GroupsOf
  <2>6. InGroups(ps, e, e)
    BY <2>2, <2>3, <2>4, <2>5 DEF InGroups
  <2>7. QED  BY <2>3, <2>6
<1>2. ASSUME NEW n \in Nat, Grouped(n) PROVE Grouped(n + 1)
  <2>1. SUFFICES ASSUME NEW ps \in Seq(Q), Len(ps) = n + 1, StandTogether(ps)
                 PROVE  \E cs \in Seq(H), us \in Seq(Seq(Q)) : InGroups(ps, cs, us)
    OBVIOUS
  <2>2. PICK x \in Q : x = ps[n + 1]
    BY <2>1
  <2> DEFINE v == [i \in 1..n |-> ps[i]]
  <2>3. v \in [1..n -> Q] /\ \A i \in 1..n : v[i] = ps[i]
    BY <2>1
  <2> HIDE DEF v
  <2>4. v \in Seq(Q) /\ Len(v) = n /\ DOMAIN v = 1..n
    BY <2>3, ListedIsSeq
  <2>5. ps = v \o <<x>>
    BY <2>1, <2>2, <2>3, <2>4
  <2>6. DOMAIN ps = 1..(n + 1)
    BY <2>1
  <2>7. StandTogether(v)
    BY <2>1, <2>3, <2>4, <2>6 DEF StandTogether
  <2>8. PICK cs \in Seq(H), us \in Seq(Seq(Q)) : InGroups(v, cs, us)
    BY <1>2, <2>4, <2>7
  <2>9. CASE v # <<>> /\ x[1] = v[Len(v)][1]
    <3>1. PICK ws \in Seq(Seq(Q)) : InGroups(ps, cs, ws)
      BY <2>4, <2>5, <2>8, <2>9, LastGroupGrows
    <3>2. QED  BY <3>1
  <2>10. CASE ~ (v # <<>> /\ x[1] = v[Len(v)][1])
    <3>1. ASSUME NEW p \in ToSet(v), p[1] = x[1] PROVE FALSE
      <4>1. PICK i \in 1..n : p = v[i]
        BY <2>4 DEF ToSet
      <4>2. n \in 1..n /\ i \in DOMAIN ps /\ n + 1 \in DOMAIN ps /\ n \in i..(n + 1)
        BY <2>6, <4>1
      <4>3. ps[i][1] = ps[n + 1][1]
        BY <2>2, <2>3, <3>1, <4>1
      <4>4. ps[n][1] = ps[n + 1][1]
        BY <2>1, <4>2, <4>3 DEF StandTogether
      <4>5. v # <<>> /\ v[Len(v)][1] = x[1]
        BY <2>2, <2>3, <2>4, <4>2, <4>4
      <4>6. QED  BY <2>10, <4>5
    <3>2. x[1] \in H
      OBVIOUS
    <3>3. PICK ds \in Seq(H), ws \in Seq(Seq(Q)) : InGroups(ps, ds, ws)
      BY <2>4, <2>5, <2>8, <3>1, <3>2, AnotherGroup
    <3>4. QED  BY <3>3
  <2>11. QED  BY <2>9, <2>10
<1> HIDE DEF Grouped
<1>3. 0 \in N /\ \A n \in Nat : n \in N => n + 1 \in N
  BY <1>1, <1>2
<1> HIDE DEF N
<1>4. Nat \subseteq N
  BY <1>3, Induction
<1>4a. Grouped(Len(qs))
  BY <1>4 DEF N
<1>5. QED  BY <1>4a DEF Grouped

(* Such a node reads the same after writing.                               *)
LEMMA TogetherIsRegrouped ==
    ASSUME NEW n, n = [name |-> n.name, perm |-> n.perm, controllers |-> n.controllers,
                       params |-> n.params],
           NEW Q, n.params \in Seq(Q), StandTogether(n.params)
    PROVE  Regrouped(n) = n
<1>1. PICK ps, H : ps = n.params /\ H = {p[1] : p \in Q}
  OBVIOUS
<1>2. PICK cs \in Seq(H), us \in Seq(Seq(Q)) : InGroups(ps, cs, us)
  <2>1. ps \in Seq(Q) /\ StandTogether(ps)
    BY <1>1
  <2>2. QED  BY <1>1, <2>1, TogetherInGroups
<1>3. FlattenSeq(us) = ps /\ GroupsOf(us, cs) /\ IsInjective(cs)
  BY <1>2 DEF InGroups
<1>4. ParamControllers(ps) = cs /\ \A k \in DOMAIN cs : Under(ps, cs[k]) = us[k]
  BY <1>1, <1>3, ParamGroups
<1>5. PICK m \in Nat : m = Len(cs) /\ DOMAIN cs = 1..m /\ Len(us) = m /\ DOMAIN us = 1..m
  BY <1>3 DEF GroupsOf
<1>6. us = [i \in DOMAIN us |-> us[i]]
  OBVIOUS
<1>7. [i \in DOMAIN cs |-> Under(ps, cs[i])] = us
  BY <1>4, <1>5, <1>6
<1>8. Regrouped(n) = [n EXCEPT !.params = FlattenSeq(us)]
  BY <1>1, <1>4, <1>7 DEF Regrouped
<1>9. QED  BY <1>1, <1>3, <1>8

-----------------------------------------------------------------------------
LEMMA RegroupedIsWrittenAlike ==
    ASSUME NEW n, IsNode(n)
    PROVE  /\ NodeBlocks(Regrouped(n)) = NodeBlocks(n)
           /\ Regrouped(n).name = n.name
           /\ WritableNode(Regrouped(n)) <=> WritableNode(n)
<1>1. PICK us : us = ControllerParams(n)
  OBVIOUS
<1>2. PICK cs : cs = ParamControllers(n.params)
  OBVIOUS
<1>3. PICK fs : fs = FlattenSeq(us)
  OBVIOUS
<1>4. /\ ToSet(fs) = ToSet(n.params) /\ ParamControllers(fs) = cs
      /\ \A k \in DOMAIN cs : Under(fs, cs[k]) = us[k]
  BY <1>1, <1>2, <1>3, RegroupedParams
<1>5. \A k \in DOMAIN cs : us[k] = Under(n.params, cs[k])
  BY <1>1, <1>2, ControllerParamsType
<1>6. PICK r : r = Regrouped(n)
  OBVIOUS
<1>7. r.name = n.name /\ r.perm = n.perm /\ r.controllers = n.controllers /\ r.params = fs
  <2>1. r = [n EXCEPT !.params = fs]
    BY <1>1, <1>3, <1>6 DEF Regrouped, ControllerParams
  <2>2. n = [name |-> n.name, perm |-> n.perm, controllers |-> n.controllers,
             params |-> n.params]
    BY DEF IsNode
  <2>3. QED  BY <2>1, <2>2
<1>8. ParamBlocks(r) = ParamBlocks(n)
  <2>1. ParamBlocks(r) = [i \in DOMAIN cs |->
            Block(Bare(cs[i]), <<>>, ParamRows(Under(fs, cs[i])))]
    BY <1>4, <1>7 DEF ParamBlocks
  <2>2. ParamBlocks(n) = [i \in DOMAIN cs |->
            Block(Bare(cs[i]), <<>>, ParamRows(Under(n.params, cs[i])))]
    BY <1>2 DEF ParamBlocks
  <2>3. \A i \in DOMAIN cs : Under(fs, cs[i]) = Under(n.params, cs[i])
    BY <1>4, <1>5
  <2>4. QED  BY <2>1, <2>2, <2>3
<1>9. MarkerBlocks(r) = MarkerBlocks(n)
  BY <1>7 DEF MarkerBlocks
<1>10. NodeBlocks(r) = NodeBlocks(n)
  BY <1>7, <1>8, <1>9, BlocksOfNode
<1>11. ASSUME NEW s
       PROVE  (\A i \in DOMAIN s : /\ s[i][1] \notin Special \cup Unwritable
                                   /\ {s[i][2], s[i][3]} \cap Unwritable = {})
              <=> \A p \in ToSet(s) : /\ p[1] \notin Special \cup Unwritable
                                      /\ {p[2], p[3]} \cap Unwritable = {}
  BY DEF ToSet
<1>12. WritableNode(r) <=> WritableNode(n)
  BY <1>4, <1>7, <1>11 DEF WritableNode
<1>13. QED  BY <1>6, <1>7, <1>10, <1>12

-----------------------------------------------------------------------------
(* A file as it is written.                                                *)

MountSections(mounts) ==
    IF mounts = <<>> THEN <<>>
    ELSE <<Section("mount", Bare(NoVal), MountRows(mounts), <<>>)>>

DefaultSections(perm) ==
    IF perm = NoVal THEN <<>>
    ELSE <<Section("default", Bare(NoVal), <<>>, PermBlocks(perm))>>

LEMMA SectionsOfFile ==
    ASSUME NEW c
    PROVE  Sections(c) = MountSections(c.mounts) \o DefaultSections(c.default)
                         \o NodeSections("group", c.groups)
                         \o NodeSections("template", c.templates)
BY DEF Sections, MountSections, DefaultSections

LEMMA OneOnly ==
    ASSUME NEW x
    PROVE  /\ <<x>> \in Seq({x}) /\ ToSet(<<x>>) = {x} /\ <<x>> # <<>>
           /\ DOMAIN <<x>> = {1} /\ <<x>>[1] = x /\ Last(<<x>>) = x
           /\ Len(<<x>>) = 1
BY DEF ToSet, Last

LEMMA NoneAtAll ==
    <<>> \in Seq({}) /\ ToSet(<<>>) = {} /\ DOMAIN <<>> = {} /\ Len(<<>>) = 0
BY DEF ToSet

(* The sections are those of their kind and can be read.                   *)
AreOf(s, kw) == /\ s \in Seq(ToSet(s))
                /\ \A x \in ToSet(s) : x.kw = kw

LEMMA MountsAreWritten ==
    ASSUME NEW mounts, AreMounts(mounts), NEW s, s = MountSections(mounts)
    PROVE  /\ AreOf(s, "mount")
           /\ \A x \in ToSet(s) : ReadsSection(x)
           /\ LET rows == FlattenSeq([i \in DOMAIN s |-> s[i].rows])
              IN  [i \in DOMAIN rows |-> [controller |-> rows[i].key.text,
                                          path |-> rows[i].value.text]] = mounts
<1>0. PICK A : A = ToSet(mounts)
  OBVIOUS
<1>1. mounts \in Seq(A)
  BY <1>0 DEF AreMounts
<1>2. PICK m \in Nat : m = Len(mounts) /\ DOMAIN mounts = 1..m
  BY <1>1
<1>3. PICK rows : rows = MountRows(mounts)
  OBVIOUS
<1>4. rows = [i \in 1..m |-> Row(Write(mounts[i].controller), Write(mounts[i].path))]
  BY <1>2, <1>3 DEF MountRows
<1>5. /\ DOMAIN rows = 1..m
      /\ \A i \in 1..m : /\ rows[i].key = Write(mounts[i].controller)
                         /\ rows[i].value = Write(mounts[i].path)
                         /\ rows[i].key.text = mounts[i].controller
                         /\ rows[i].value.text = mounts[i].path
  BY <1>4, WrittenWord DEF Row
<1>6. \A i \in 1..m : /\ mounts[i] = [controller |-> mounts[i].controller,
                                      path |-> mounts[i].path]
                      /\ mounts[i].controller \notin Unwritable
                      /\ mounts[i].path \notin Unwritable
  <2>1. \A i \in 1..m : mounts[i] \in ToSet(mounts)
    BY <1>2 DEF ToSet
  <2>2. QED  BY <2>1 DEF AreMounts
<1>7. ReadsRows(rows)
  <2>1. \A i \in 1..m : /\ ReadsToken(Write(mounts[i].controller))
                        /\ ReadsToken(Write(mounts[i].path))
    BY <1>6, WrittenWord
  <2>2. QED  BY <1>5, <2>1 DEF ReadsRows
<1>8. [i \in DOMAIN rows |-> [controller |-> rows[i].key.text,
                              path |-> rows[i].value.text]] = mounts
  <2>1. [i \in DOMAIN rows |-> [controller |-> rows[i].key.text,
                                path |-> rows[i].value.text]] = [i \in 1..m |-> mounts[i]]
    BY <1>5, <1>6
  <2>2. mounts = [i \in 1..m |-> mounts[i]]
    BY <1>1, <1>2
  <2>3. QED  BY <2>1, <2>2
<1>9. CASE mounts = <<>>
  <2>1. s = <<>>
    BY <1>9 DEF MountSections
  <2>2. [i \in DOMAIN s |-> s[i].rows] = <<>>
    BY <2>1
  <2>3. FlattenSeq(<<>>) = <<>>
    <3>1. <<>> \in Seq({<<>>})
      OBVIOUS
    <3>2. QED  BY <3>1, FlattenEmpties
  <2>4. \A t : [i \in DOMAIN <<>> |-> t] = <<>>
    OBVIOUS
  <2>5. PICK z : z = FlattenSeq([i \in DOMAIN s |-> s[i].rows])
    OBVIOUS
  <2>6. z = <<>>
    BY <2>2, <2>3, <2>5
  <2>7. [i \in DOMAIN z |-> [controller |-> z[i].key.text, path |-> z[i].value.text]] = <<>>
    BY <2>6
  <2>8. s \in Seq(ToSet(s)) /\ ToSet(s) = {}
    BY <2>1, NoneAtAll
  <2>9. QED  BY <1>9, <2>5, <2>7, <2>8 DEF AreOf
<1>10. CASE mounts # <<>>
  <2>1. PICK x : x = Section("mount", Bare(NoVal), rows, <<>>)
    OBVIOUS
  <2>2. x.kw = "mount" /\ x.rows = rows
    BY <2>1 DEF Section
  <2>3. s = <<x>>
    BY <1>3, <1>10, <2>1 DEF MountSections
  <2>4. s \in Seq(ToSet(s)) /\ ToSet(s) = {x} /\ DOMAIN s = {1} /\ s[1] = x
    BY <2>3, OneOnly
  <2>5. ReadsSection(x)
    BY <1>7, <2>2 DEF ReadsSection
  <2>6. FlattenSeq([i \in DOMAIN s |-> s[i].rows]) = rows
    <3>1. [i \in DOMAIN s |-> s[i].rows] = [i \in {1} |-> rows]
      BY <2>2, <2>4
    <3>2. [i \in {1} |-> rows] = <<rows>>
      OBVIOUS
    <3>3. rows \in Seq(ToSet(rows))
      <4>1. rows \in [1..m -> ToSet(rows)]
        BY <1>4, <1>5 DEF ToSet
      <4>2. QED  BY <4>1, ListedIsSeq
    <3>4. FlattenSeq(<<rows>>) = rows
      BY <3>3, FlattenOne
    <3>5. QED  BY <3>1, <3>2, <3>4
  <2>7. QED  BY <1>8, <2>2, <2>4, <2>5, <2>6 DEF AreOf
<1>11. QED  BY <1>9, <1>10

LEMMA DefaultIsWritten ==
    ASSUME NEW perm, IsPerm(perm), NEW s, s = DefaultSections(perm)
    PROVE  /\ AreOf(s, "default")
           /\ \A x \in ToSet(s) : ReadsSection(x)
           /\ (IF s = <<>> THEN NoVal ELSE PermOf(Last(s).blocks)) = perm
<1>1. CASE perm = NoVal
  <2>1. s = <<>>
    BY <1>1 DEF DefaultSections
  <2>2. s \in Seq(ToSet(s)) /\ ToSet(s) = {}
    BY <2>1, NoneAtAll
  <2>3. QED  BY <1>1, <2>1, <2>2 DEF AreOf
<1>2. CASE perm # NoVal
  <2>1. PICK b : b = PermBlocks(perm)
    OBVIOUS
  <2>2. /\ \A x \in ToSet(b) : ReadsPerm(x)
        /\ PermOf(b) = perm /\ Len(b) <= 1
    BY <2>1, PermBlocksAreRead
  <2>3. PICK x : x = Section("default", Bare(NoVal), <<>>, b)
    OBVIOUS
  <2>4. x.kw = "default" /\ x.blocks = b
    BY <2>3 DEF Section
  <2>5. s = <<x>>
    BY <1>2, <2>1, <2>3 DEF DefaultSections
  <2>6. s \in Seq(ToSet(s)) /\ ToSet(s) = {x} /\ s # <<>> /\ Last(s) = x
    BY <2>5, OneOnly
  <2>7. \A i \in DOMAIN b : ReadsPerm(b[i])
    BY <2>2 DEF ToSet
  <2>8. ReadsSection(x)
    BY <2>2, <2>4, <2>7 DEF ReadsSection
  <2>9. QED  BY <2>2, <2>4, <2>6, <2>8 DEF AreOf
<1>3. QED  BY <1>1, <1>2

LEMMA NodesAreWritten ==
    ASSUME NEW nodes, AreNodes(nodes), NEW kw \in {"group", "template"},
           \A i \in DOMAIN nodes : WritableNode(nodes[i]),
           NEW s, s = NodeSections(kw, nodes)
    PROVE  /\ AreOf(s, kw)
           /\ (\A x \in ToSet(s) : ReadsSection(x))
              <=> \A n \in ToSet(nodes) : ~ LooksLikeOwners(n)
           /\ [i \in DOMAIN s |-> NodeOf(s[i])] = [i \in DOMAIN nodes |-> Regrouped(nodes[i])]
<1>1. PICK m \in Nat : m = Len(nodes) /\ DOMAIN nodes = 1..m
  BY DEF AreNodes
<1>2. s = [i \in 1..m |-> Section(kw, Write(nodes[i].name), <<>>, NodeBlocks(nodes[i]))]
  BY <1>1 DEF NodeSections
<1>3. /\ DOMAIN s = 1..m /\ ToSet(s) = {s[i] : i \in 1..m}
      /\ \A i \in 1..m : s[i] = Section(kw, Write(nodes[i].name), <<>>, NodeBlocks(nodes[i]))
  BY <1>2 DEF ToSet
<1>4. s \in [1..m -> ToSet(s)]
  BY <1>2, <1>3
<1>5. s \in Seq(ToSet(s))
  BY <1>4, ListedIsSeq
<1>6. ToSet(nodes) = {nodes[i] : i \in 1..m}
  BY <1>1 DEF ToSet
<1>7. ASSUME NEW i \in 1..m
      PROVE  /\ NodeOf(s[i]) = Regrouped(nodes[i])
             /\ ReadsSection(s[i]) <=> ~ LooksLikeOwners(nodes[i])
             /\ s[i].kw = kw
  <2>1. PICK n : n = nodes[i] /\ IsNode(n) /\ WritableNode(n)
    BY <1>1, <1>6 DEF AreNodes
  <2>2. PICK x : x = s[i] /\ x = Section(kw, Write(n.name), <<>>, NodeBlocks(n))
    BY <1>3, <2>1
  <2>3. NodeOf(x) = Regrouped(n) /\ (ReadsSection(x) <=> ~ LooksLikeOwners(n))
    BY <2>1, <2>2, NodeIsReadBack
  <2>4. x.kw = kw
    BY <2>2 DEF Section
  <2>5. QED  BY <2>1, <2>2, <2>3, <2>4
<1>8. [i \in DOMAIN s |-> NodeOf(s[i])] = [i \in DOMAIN nodes |-> Regrouped(nodes[i])]
  BY <1>1, <1>3, <1>7
<1>9. AreOf(s, kw)
  BY <1>3, <1>5, <1>7 DEF AreOf
<1>10. (\A x \in ToSet(s) : ReadsSection(x)) <=> \A n \in ToSet(nodes) : ~ LooksLikeOwners(n)
  <2>1. (\A x \in ToSet(s) : ReadsSection(x)) <=> \A i \in 1..m : ReadsSection(s[i])
    BY <1>3
  <2>2. (\A n \in ToSet(nodes) : ~ LooksLikeOwners(n))
        <=> \A i \in 1..m : ~ LooksLikeOwners(nodes[i])
    BY <1>6
  <2>3. QED  BY <1>7, <2>1, <2>2
<1>11. QED  BY <1>8, <1>9, <1>10

(* Sections of four kinds one after the other.                             *)
InParts(t, a, b, c, d) ==
    /\ SectionsOf(t, "mount") = a /\ SectionsOf(t, "default") = b
    /\ SectionsOf(t, "group") = c /\ SectionsOf(t, "template") = d
    /\ ToSet(t) = ToSet(a) \cup ToSet(b) \cup ToSet(c) \cup ToSet(d)

OfKind(A, kw) == {x \in A : x.kw = kw}
KeepsKind(A, s, kw, kx) == Kept(s, OfKind(A, kx)) = IF kx = kw THEN s ELSE <<>>

LEMMA KeptOfKind ==
    ASSUME NEW A, NEW s \in Seq(A), NEW kw, AreOf(s, kw), NEW kx
    PROVE  KeepsKind(A, s, kw, kx)
<1>1. ToSet(s) \subseteq A
  BY ElementsAreIn
<1>2. kx = kw => ToSet(s) \subseteq OfKind(A, kx)
  BY <1>1 DEF AreOf, OfKind
<1>3. kx # kw => ToSet(s) \cap OfKind(A, kx) = {}
  BY DEF AreOf, OfKind
<1>4. QED  BY <1>2, <1>3, KeptAll, KeptNone DEF KeepsKind

LEMMA SectionsInParts ==
    ASSUME NEW a, NEW b, NEW c, NEW d,
           AreOf(a, "mount"), AreOf(b, "default"), AreOf(c, "group"), AreOf(d, "template")
    PROVE  InParts(a \o b \o c \o d, a, b, c, d)
<1>1. PICK A : A = ToSet(a) \cup ToSet(b) \cup ToSet(c) \cup ToSet(d)
  OBVIOUS
<1>2. a \in Seq(A) /\ b \in Seq(A) /\ c \in Seq(A) /\ d \in Seq(A)
  BY <1>1, NarrowSeq DEF AreOf
<1>3. PICK ab \in Seq(A) : ab = a \o b
  BY <1>2, JoinType
<1>4. PICK abc \in Seq(A) : abc = ab \o c
  BY <1>2, JoinType
<1>5. PICK t \in Seq(A) : t = abc \o d
  BY <1>2, JoinType
<1>6. ASSUME NEW S
      PROVE  Kept(t, S) = ((Kept(a, S) \o Kept(b, S)) \o Kept(c, S)) \o Kept(d, S)
  <2>1. KeepsJoin(a, b, S) /\ KeepsJoin(ab, c, S) /\ KeepsJoin(abc, d, S)
    BY <1>2, KeptJoin
  <2>2. QED  BY <1>3, <1>4, <1>5, <2>1 DEF KeepsJoin
<1>7. ASSUME NEW kx
      PROVE  /\ Kept(a, OfKind(A, kx)) = IF kx = "mount" THEN a ELSE <<>>
             /\ Kept(b, OfKind(A, kx)) = IF kx = "default" THEN b ELSE <<>>
             /\ Kept(c, OfKind(A, kx)) = IF kx = "group" THEN c ELSE <<>>
             /\ Kept(d, OfKind(A, kx)) = IF kx = "template" THEN d ELSE <<>>
  <2>1. /\ KeepsKind(A, a, "mount", kx) /\ KeepsKind(A, b, "default", kx)
        /\ KeepsKind(A, c, "group", kx) /\ KeepsKind(A, d, "template", kx)
    BY <1>2, KeptOfKind
  <2>2. QED  BY <2>1 DEF KeepsKind
<1>8. \A kw : SectionsOf(t, kw) = Kept(t, OfKind(A, kw))
  BY SectionsKept DEF OfKind
<1>9. \A s \in Seq(A) : s \o <<>> = s /\ <<>> \o s = s
  BY JoinEmpty
<1>10. <<>> \in Seq(A)
  OBVIOUS
<1>11. SectionsOf(t, "mount") = a
  <2>1. SectionsOf(t, "mount") = ((a \o <<>>) \o <<>>) \o <<>>
    <3>1. PICK K : K = OfKind(A, "mount")
      OBVIOUS
    <3>2. Kept(a, K) = a /\ Kept(b, K) = <<>>
      BY <1>7, <3>1
    <3>3. Kept(c, K) = <<>> /\ Kept(d, K) = <<>>
      BY <1>7, <3>1
    <3>4. SectionsOf(t, "mount") = Kept(t, K)
      BY <1>8, <3>1
    <3>5. Kept(t, K) = ((a \o <<>>) \o <<>>) \o <<>>
      BY <1>6, <3>2, <3>3
    <3>6. QED  BY <3>4, <3>5
  <2>2. QED  BY <1>2, <1>9, <2>1
<1>12. SectionsOf(t, "default") = b
  <2>1. SectionsOf(t, "default") = ((<<>> \o b) \o <<>>) \o <<>>
    <3>1. PICK K : K = OfKind(A, "default")
      OBVIOUS
    <3>2. Kept(a, K) = <<>> /\ Kept(b, K) = b
      BY <1>7, <3>1
    <3>3. Kept(c, K) = <<>> /\ Kept(d, K) = <<>>
      BY <1>7, <3>1
    <3>4. SectionsOf(t, "default") = Kept(t, K)
      BY <1>8, <3>1
    <3>5. Kept(t, K) = ((<<>> \o b) \o <<>>) \o <<>>
      BY <1>6, <3>2, <3>3
    <3>6. QED  BY <3>4, <3>5
  <2>2. QED  BY <1>2, <1>9, <2>1
<1>13. SectionsOf(t, "group") = c
  <2>1. SectionsOf(t, "group") = ((<<>> \o <<>>) \o c) \o <<>>
    <3>1. PICK K : K = OfKind(A, "group")
      OBVIOUS
    <3>2. Kept(a, K) = <<>> /\ Kept(b, K) = <<>>
      BY <1>7, <3>1
    <3>3. Kept(c, K) = c /\ Kept(d, K) = <<>>
      BY <1>7, <3>1
    <3>4. SectionsOf(t, "group") = Kept(t, K)
      BY <1>8, <3>1
    <3>5. Kept(t, K) = ((<<>> \o <<>>) \o c) \o <<>>
      BY <1>6, <3>2, <3>3
    <3>6. QED  BY <3>4, <3>5
  <2>2. QED  BY <1>2, <1>9, <1>10, <2>1
<1>14. SectionsOf(t, "template") = d
  <2>1. SectionsOf(t, "template") = ((<<>> \o <<>>) \o <<>>) \o d
    <3>1. PICK K : K = OfKind(A, "template")
      OBVIOUS
    <3>2. Kept(a, K) = <<>> /\ Kept(b, K) = <<>>
      BY <1>7, <3>1
    <3>3. Kept(c, K) = <<>> /\ Kept(d, K) = d
      BY <1>7, <3>1
    <3>4. SectionsOf(t, "template") = Kept(t, K)
      BY <1>8, <3>1
    <3>5. Kept(t, K) = ((<<>> \o <<>>) \o <<>>) \o d
      BY <1>6, <3>2, <3>3
    <3>6. QED  BY <3>4, <3>5
  <2>2. QED  BY <1>2, <1>9, <1>10, <2>1
<1>15. ToSet(t) = ToSet(a) \cup ToSet(b) \cup ToSet(c) \cup ToSet(d)
  <2>1. ToSet(ab) = ToSet(a) \cup ToSet(b)
    BY <1>2, <1>3, ElementsOfJoin
  <2>2. ToSet(abc) = ToSet(ab) \cup ToSet(c)
    BY <1>2, <1>4, ElementsOfJoin
  <2>3. ToSet(t) = ToSet(abc) \cup ToSet(d)
    BY <1>2, <1>5, ElementsOfJoin
  <2>4. QED  BY <2>1, <2>2, <2>3
<1>16. QED  BY <1>3, <1>4, <1>5, <1>11, <1>12, <1>13, <1>14, <1>15 DEF InParts

(* What is written of a file that can be written.                          *)
LEMMA FileIsWritten ==
    ASSUME NEW c, IsFile(c), Writable(c), NEW t, t = Sections(c)
    PROVE  /\ MountsOf(t) = c.mounts /\ DefaultOf(t) = c.default
           /\ NodesOf(t, "group") = [i \in DOMAIN c.groups |-> Regrouped(c.groups[i])]
           /\ NodesOf(t, "template")
              = [i \in DOMAIN c.templates |-> Regrouped(c.templates[i])]
           /\ (\A x \in ToSet(t) : ReadsSection(x))
              <=> \A n \in ToSet(c.groups) \cup ToSet(c.templates) : ~ LooksLikeOwners(n)
           /\ \A x \in ToSet(t) : x.kw # "error"
<1>1. PICK ms : ms = MountSections(c.mounts)
  OBVIOUS
<1>2. PICK ds : ds = DefaultSections(c.default)
  OBVIOUS
<1>3. PICK gs : gs = NodeSections("group", c.groups)
  OBVIOUS
<1>4. PICK ts : ts = NodeSections("template", c.templates)
  OBVIOUS
<1>5. /\ AreOf(ms, "mount") /\ \A x \in ToSet(ms) : ReadsSection(x)
  BY <1>1, MountsAreWritten DEF IsFile
<1>6. LET rows == FlattenSeq([i \in DOMAIN ms |-> ms[i].rows])
      IN  [i \in DOMAIN rows |-> [controller |-> rows[i].key.text,
                                  path |-> rows[i].value.text]] = c.mounts
  <2>1. AreMounts(c.mounts)
    BY DEF IsFile
  <2>2. QED  BY <1>1, <2>1, MountsAreWritten, SMTT(20)
<1>7. /\ AreOf(ds, "default") /\ (\A x \in ToSet(ds) : ReadsSection(x))
      /\ (IF ds = <<>> THEN NoVal ELSE PermOf(Last(ds).blocks)) = c.default
  <2>1. IsPerm(c.default)
    BY DEF IsFile
  <2>2. QED  BY <1>2, <2>1, DefaultIsWritten
<1>8. /\ AreOf(gs, "group")
      /\ (\A x \in ToSet(gs) : ReadsSection(x))
         <=> \A n \in ToSet(c.groups) : ~ LooksLikeOwners(n)
      /\ [i \in DOMAIN gs |-> NodeOf(gs[i])]
         = [i \in DOMAIN c.groups |-> Regrouped(c.groups[i])]
  <2>1. AreNodes(c.groups) /\ \A i \in DOMAIN c.groups : WritableNode(c.groups[i])
    BY DEF IsFile, Writable
  <2>2. QED  BY <1>3, <2>1, NodesAreWritten
<1>9. /\ AreOf(ts, "template")
      /\ (\A x \in ToSet(ts) : ReadsSection(x))
         <=> \A n \in ToSet(c.templates) : ~ LooksLikeOwners(n)
      /\ [i \in DOMAIN ts |-> NodeOf(ts[i])]
         = [i \in DOMAIN c.templates |-> Regrouped(c.templates[i])]
  <2>1. AreNodes(c.templates) /\ \A i \in DOMAIN c.templates : WritableNode(c.templates[i])
    BY DEF IsFile, Writable
  <2>2. QED  BY <1>4, <2>1, NodesAreWritten
<1>10. InParts(t, ms, ds, gs, ts)
  <2>1. t = ms \o ds \o gs \o ts
    BY <1>1, <1>2, <1>3, <1>4, SectionsOfFile
  <2>2. InParts(ms \o ds \o gs \o ts, ms, ds, gs, ts)
    BY <1>5, <1>7, <1>8, <1>9, SectionsInParts
  <2>3. QED  BY <2>1, <2>2
<1>11. /\ SectionsOf(t, "mount") = ms /\ SectionsOf(t, "default") = ds
       /\ SectionsOf(t, "group") = gs /\ SectionsOf(t, "template") = ts
       /\ ToSet(t) = ToSet(ms) \cup ToSet(ds) \cup ToSet(gs) \cup ToSet(ts)
  BY <1>10 DEF InParts
<1>12. MountsOf(t) = c.mounts
  BY <1>6, <1>11 DEF MountsOf
<1>13. DefaultOf(t) = c.default
  BY <1>7, <1>11 DEF DefaultOf
<1>14. /\ NodesOf(t, "group") = [i \in DOMAIN c.groups |-> Regrouped(c.groups[i])]
       /\ NodesOf(t, "template") = [i \in DOMAIN c.templates |-> Regrouped(c.templates[i])]
  BY <1>8, <1>9, <1>11 DEF NodesOf
<1>15. (\A x \in ToSet(t) : ReadsSection(x))
       <=> \A n \in ToSet(c.groups) \cup ToSet(c.templates) : ~ LooksLikeOwners(n)
  BY <1>5, <1>7, <1>8, <1>9, <1>11
<1>16. \A x \in ToSet(t) : x.kw # "error"
  BY <1>5, <1>7, <1>8, <1>9, <1>11 DEF AreOf
<1>17. QED  BY <1>12, <1>13, <1>14, <1>15, <1>16

LEMMA RegroupedNodesAreWrittenAlike ==
    ASSUME NEW nodes, AreNodes(nodes), NEW r,
           r = [i \in DOMAIN nodes |-> Regrouped(nodes[i])]
    PROVE  /\ \A kw : NodeSections(kw, r) = NodeSections(kw, nodes)
           /\ (\A i \in DOMAIN r : WritableNode(r[i]))
              <=> \A i \in DOMAIN nodes : WritableNode(nodes[i])
<1>1. \A i \in DOMAIN nodes : IsNode(nodes[i])
  BY DEF AreNodes, ToSet
<1>2. DOMAIN r = DOMAIN nodes /\ \A i \in DOMAIN nodes : r[i] = Regrouped(nodes[i])
  OBVIOUS
<1>3. \A i \in DOMAIN nodes :
          /\ NodeBlocks(r[i]) = NodeBlocks(nodes[i])
          /\ r[i].name = nodes[i].name
          /\ WritableNode(r[i]) <=> WritableNode(nodes[i])
  BY <1>1, <1>2, RegroupedIsWrittenAlike
<1>4. ASSUME NEW kw PROVE NodeSections(kw, r) = NodeSections(kw, nodes)
  BY <1>2, <1>3 DEF NodeSections
<1>5. QED  BY <1>2, <1>3, <1>4

LEMMA NormalIsWrittenAlike ==
    ASSUME NEW c, IsFile(c), Writable(c)
    PROVE  /\ Writable(Normal(c)) /\ Sections(Normal(c)) = Sections(c)
           /\ Normal(c) = [mounts |-> c.mounts, default |-> c.default,
                           groups |-> [i \in DOMAIN c.groups |-> Regrouped(c.groups[i])],
                           templates |-> [i \in DOMAIN c.templates |->
                                             Regrouped(c.templates[i])]]
<1>1. PICK g : g = [i \in DOMAIN c.groups |-> Regrouped(c.groups[i])]
  OBVIOUS
<1>2. PICK t : t = [i \in DOMAIN c.templates |-> Regrouped(c.templates[i])]
  OBVIOUS
<1>3. AreNodes(c.groups) /\ AreNodes(c.templates)
  BY DEF IsFile
<1>4. /\ NodeSections("group", g) = NodeSections("group", c.groups)
      /\ (\A i \in DOMAIN g : WritableNode(g[i]))
         <=> \A i \in DOMAIN c.groups : WritableNode(c.groups[i])
  BY <1>1, <1>3, RegroupedNodesAreWrittenAlike
<1>5. /\ NodeSections("template", t) = NodeSections("template", c.templates)
      /\ (\A i \in DOMAIN t : WritableNode(t[i]))
         <=> \A i \in DOMAIN c.templates : WritableNode(c.templates[i])
  BY <1>2, <1>3, RegroupedNodesAreWrittenAlike
<1>6. PICK r : r = Normal(c)
  OBVIOUS
<1>7. c = [mounts |-> c.mounts, default |-> c.default,
           groups |-> c.groups, templates |-> c.templates]
  BY DEF IsFile
<1>8. r = [mounts |-> c.mounts, default |-> c.default, groups |-> g, templates |-> t]
  BY <1>1, <1>2, <1>6, <1>7 DEF Normal
<1>9. /\ r.mounts = c.mounts /\ r.default = c.default
      /\ r.groups = g /\ r.templates = t
  BY <1>8
<1>10. Sections(r) = Sections(c)
  BY <1>4, <1>5, <1>9, SectionsOfFile
<1>11. Writable(r)
  BY <1>4, <1>5, <1>9 DEF Writable
<1>12. QED  BY <1>1, <1>2, <1>6, <1>8, <1>10, <1>11

(* What Display refuses has a hash in a block's name; what it writes, the  *)
(* parser reads as the same file with each node's parameters grouped, or   *)
(* not at all if a block looks like owners; and it is written alike.       *)
LEMMA WrittenIsReadBack ==
    ASSUME NEW c, IsFile(c)
    PROVE  IF Display(c) = Unwritten
           THEN BlockHeads(c) \cap Hashed # {}
           ELSE IF \E n \in ToSet(c.groups) \cup ToSet(c.templates) : LooksLikeOwners(n)
           THEN Parse(Display(c)) = Unreadable
           ELSE Parse(Display(c)) = Normal(c) /\ Display(Normal(c)) = Display(c)
<1>1. CASE ~ Writable(c)
  <2>1. Display(c) = Unwritten
    BY <1>1 DEF Display
  <2>2. BlockHeads(c) \cap Hashed # {}
    BY <1>1, FileRefusedForHash
  <2>3. QED  BY <2>1, <2>2
<1>2. CASE Writable(c)
  <2>1. PICK t : t = Sections(c)
    OBVIOUS
  <2>2. Display(c) = t
    BY <1>2, <2>1 DEF Display
  <2>3. /\ MountsOf(t) = c.mounts /\ DefaultOf(t) = c.default
        /\ NodesOf(t, "group") = [i \in DOMAIN c.groups |-> Regrouped(c.groups[i])]
        /\ NodesOf(t, "template")
           = [i \in DOMAIN c.templates |-> Regrouped(c.templates[i])]
        /\ (\A x \in ToSet(t) : ReadsSection(x))
           <=> \A n \in ToSet(c.groups) \cup ToSet(c.templates) : ~ LooksLikeOwners(n)
        /\ \A x \in ToSet(t) : x.kw # "error"
    BY <1>2, <2>1, FileIsWritten
  <2>4. t # Unwritten
    <3>1. ToSet(Unwritten) = {[kw |-> "error"]}
      BY OneOnly DEF Unwritten
    <3>2. SUFFICES ASSUME t = Unwritten PROVE FALSE
      OBVIOUS
    <3>3. [kw |-> "error"].kw # "error"
      BY <2>3, <3>1, <3>2
    <3>4. QED  BY <3>3
  <2>5. Display(Normal(c)) = t
    BY <1>2, <2>1, NormalIsWrittenAlike DEF Display
  <2>6. (\A i \in DOMAIN t : ReadsSection(t[i])) <=> \A x \in ToSet(t) : ReadsSection(x)
    BY DEF ToSet
  <2>7. CASE \E n \in ToSet(c.groups) \cup ToSet(c.templates) : LooksLikeOwners(n)
    <3>1. ~ \A x \in ToSet(t) : ReadsSection(x)
      BY <2>3, <2>7
    <3>2. Parse(t) = Unreadable
      BY <2>6, <3>1 DEF Parse
    <3>3. QED  BY <2>2, <2>4, <2>7, <3>2
  <2>8. CASE ~ \E n \in ToSet(c.groups) \cup ToSet(c.templates) : LooksLikeOwners(n)
    <3>1. \A x \in ToSet(t) : ReadsSection(x)
      BY <2>3, <2>8
    <3>2. Parse(t) = [mounts |-> MountsOf(t), default |-> DefaultOf(t),
                      groups |-> NodesOf(t, "group"),
                      templates |-> NodesOf(t, "template")]
      BY <2>6, <3>1 DEF Parse
    <3>3. Parse(t) = Normal(c)
      BY <1>2, <2>3, <3>2, NormalIsWrittenAlike
    <3>4. QED  BY <2>2, <2>4, <2>5, <2>8, <3>3
  <2>9. QED  BY <2>7, <2>8
<1>3. QED  BY <1>1, <1>2

(* ReadFileSurvives: of any text the parser accepts, what Display writes   *)
(* is read as the same file, its parameters grouped by controller, and     *)
(* written a second time it is the same text; Display refuses only a block *)
(* with a hash in its name, and only a controller named perm whose first   *)
(* parameter is called task or admin is not read again ("parsing the       *)
(* output of Display yields an equal ConfigFile", display.rs).             *)
THEOREM ReadFileSurvives ==
    ASSUME NEW t, AreSections(t), Parse(t) # Unreadable,
           BlockHeads(Parse(t)) \cap Hashed = {},
           \A n \in ToSet(Parse(t).groups) \cup ToSet(Parse(t).templates) :
               ~ LooksLikeOwners(n)
    PROVE  /\ Parse(Display(Parse(t))) = Normal(Parse(t))
           /\ Display(Parse(Display(Parse(t)))) = Display(Parse(t))
<1>1. PICK c : c = Parse(t)
  OBVIOUS
<1>2. IsFile(c)
  BY <1>1, FileIsRead
<1>3. Parse(Display(c)) = Normal(c) /\ Display(Normal(c)) = Display(c)
  BY <1>1, <1>2, WrittenIsReadBack
<1>4. QED  BY <1>1, <1>3
=============================================================================
