--------------------------- MODULE RuleFilesProofs ---------------------------
(***************************************************************************)
(* For every set of files, every content and every edit: a load delivers   *)
(* whole files in order or fails for a cause, a drop-in decides only what  *)
(* it should, and a destination is applied where it is compared.           *)
(***************************************************************************)
EXTENDS ConfigTools, SequenceLemmas

Entries == {Main} \cup InDir
Contents == Texts \cup {Gone, Folder}

(* What a readable file may add to the rules.                              *)
FileRules == UNION {ToSet(RulesIfReadable(content)) : content \in Texts}

-----------------------------------------------------------------------------
(* The inductive invariant of a load.                                      *)

LoadTypeOK ==
    /\ dir \in Dirs
    /\ etc \in [Entries -> Contents]
    /\ load \in {"main", "opendir", "entries", "read", "ready", "failed"}
    /\ due \subseteq InDir
    /\ files \subseteq ToSet(DropIns)
    /\ rules \in Seq(FileRules)
    /\ held \in [Entries -> SUBSET Contents]

(* What stands now has stood; nothing is in a directory that is none; a    *)
(* file to be read was a text when it was listed.                          *)
HistoryKept ==
    /\ \A n \in Entries : etc[n] \in held[n]
    /\ dir # "there" => \A n \in InDir : held[n] = {Gone}
    /\ load = "opendir" => dir # "none"
    /\ load \in {"entries", "read"} => dir = "there"
    /\ \A n \in files : \E content \in held[n] : IsText(content)
    /\ load \in {"main", "opendir"} => files = {}
    /\ load = "main" => rules = <<>>

(* The drop-ins a load may still come to read.                             *)
Ahead == CASE load = "opendir" -> InDir
           [] load = "entries" -> files \cup due
           [] load = "read"    -> files
           [] OTHER            -> {}

(* The rules are whole versions of the files read, those are before every  *)
(* file still to be read, and whatever stood throughout is read or ahead.  *)
Delivered(taken, v) ==
    /\ \A n \in {Main} \cup taken : v[n] \in held[n] /\ Readable(v[n])
    /\ rules = InOrder(taken, v)
    /\ load # "read" /\ load # "ready" => taken = {}
    /\ \A i, j \in DOMAIN DropIns :
           DropIns[i] \in taken /\ DropIns[j] \in files => i < j
    /\ load = "opendir" \/
       \A n \in ToSet(DropIns) : StoodAsFile(n) => n \in taken \cup Ahead

LoadDelivers ==
    load \in {"opendir", "entries", "read", "ready"} =>
        \E taken \in SUBSET ToSet(DropIns) :
            \E v \in [{Main} \cup taken -> Texts] : Delivered(taken, v)

LoadInv == LoadTypeOK /\ HistoryKept /\ LoadDelivers /\ LoadFailsForCause

Inv == job \in {"load", "cgctl"} /\ (job = "load" => LoadInv)
                                 /\ (job = "cgctl" => LoadRests)

-----------------------------------------------------------------------------
(* What is read of a file.                                                 *)

LEMMA LinesType ==
    ASSUME NEW content \in Texts
    PROVE  Lines(content) \in Seq({l \in ToSet(content) : l.kind # "skip"})
<1> DEFINE A == {l \in ToSet(content) : l.kind # "skip"}
           s == [i \in DOMAIN content |->
                    IF content[i].kind = "skip" THEN <<>> ELSE <<content[i]>>]
<1>1. content \in Seq(ToSet(content))
  BY RuleFilesAssumption
<1>2. Len(content) \in Nat /\ DOMAIN content = 1..Len(content)
  BY <1>1
<1>3. \A i \in 1..Len(content) : content[i].kind # "skip" => content[i] \in A
  BY <1>2 DEF ToSet
<1> HIDE DEF A
<1>4. <<>> \in Seq(A) /\ \A l \in A : <<l>> \in Seq(A)
  OBVIOUS
<1>5. s \in [1..Len(content) -> Seq(A)]
  BY <1>2, <1>3, <1>4
<1> HIDE DEF s
<1>6. s \in Seq(Seq(A))
  BY <1>2, <1>5
<1>7. FlattenSeq(s) \in Seq(A)
  BY <1>6, FlattenType
<1>8. QED  BY <1>7 DEF Lines, s, A

LEMMA RulesOfType ==
    ASSUME NEW content \in Texts, Readable(content)
    PROVE  /\ RulesOf(content) \in Seq(FileRules)
           /\ \A r \in ToSet(RulesOf(content)) : r.dest \in Raws
<1> DEFINE ls == Lines(content)
           rs == RulesOf(content)
<1>1. ls \in Seq({l \in ToSet(content) : l.kind # "skip"})
  BY LinesType
<1>2. /\ Len(ls) \in Nat /\ DOMAIN ls = 1..Len(ls)
      /\ \A i \in 1..Len(ls) : ls[i] \in ToSet(content)
  BY <1>1
<1>3. \A i \in 1..Len(ls) : ls[i].kind = "rule" /\ DestToken(ls[i].dest) # Refused
  BY <1>2 DEF Readable, Parses
<1>4. \A i \in 1..Len(ls) : DestToken(ls[i].dest) \in Raws
  <2> SUFFICES ASSUME NEW i \in 1..Len(ls) PROVE DestToken(ls[i].dest) \in Raws
    OBVIOUS
  <2> HIDE DEF ls
  <2>1. PICK j \in DOMAIN content : ls[i] = content[j]
    BY <1>2 DEF ToSet
  <2>2. content[j].kind = "rule" => DestToken(content[j].dest) \in Raws \cup {Refused}
    BY RuleFilesAssumption
  <2>3. QED  BY <1>3, <2>1, <2>2
<1>5. /\ rs = [i \in 1..Len(ls) |->
                  [subject |-> SubjectAt(ls, i), process |-> ls[i].process,
                   dest |-> DestToken(ls[i].dest), options |-> ls[i].options]]
      /\ DOMAIN rs = 1..Len(ls)
  BY <1>2 DEF RulesOf
<1>6. \A i \in 1..Len(ls) : rs[i].dest = DestToken(ls[i].dest)
  BY <1>5
<1> HIDE DEF ls
<1>7. \A r \in ToSet(rs) : r.dest \in Raws
  BY <1>4, <1>5, <1>6 DEF ToSet
<1>8. rs = RulesIfReadable(content)
  BY DEF RulesIfReadable
<1>9. ToSet(rs) \subseteq FileRules
  BY <1>8 DEF FileRules
<1>10. rs \in [1..Len(ls) -> ToSet(rs)]
  <2>1. \A i \in 1..Len(ls) : rs[i] \in ToSet(rs)
    BY <1>5 DEF ToSet
  <2>2. rs = [i \in 1..Len(ls) |-> rs[i]]
    BY <1>5
  <2> HIDE DEF rs
  <2>3. QED  BY <2>1, <2>2
<1> HIDE DEF rs
<1>11. rs \in Seq(FileRules)
  <2>1. rs \in [1..Len(ls) -> FileRules]
    BY <1>9, <1>10
  <2>2. QED  BY <1>2, <2>1
<1>12. QED  BY <1>7, <1>11 DEF rs

LEMMA RulesIfReadableType ==
    ASSUME NEW content \in Texts
    PROVE  RulesIfReadable(content) \in Seq(FileRules)
BY RulesOfType DEF RulesIfReadable

LEMMA FileRulesLeadToRaws == \A r \in FileRules : r.dest \in Raws
<1> SUFFICES ASSUME NEW r \in FileRules PROVE r.dest \in Raws
  OBVIOUS
<1>1. PICK content \in Texts : r \in ToSet(RulesIfReadable(content))
  BY DEF FileRules
<1>2. Readable(content)
  <2>1. ToSet(<<>>) = {}
    BY DEF ToSet
  <2>2. QED  BY <1>1, <2>1 DEF RulesIfReadable
<1>3. QED  BY <1>1, <1>2, RulesOfType DEF RulesIfReadable

-----------------------------------------------------------------------------
(* The rules of several files.                                             *)

(* What InOrder joins: nothing for a drop-in that was not read.            *)
Shares(taken, v) ==
    <<RulesIfReadable(v[Main])>> \o
    [i \in DOMAIN DropIns |-> IF DropIns[i] \in taken
                              THEN RulesIfReadable(v[DropIns[i]]) ELSE <<>>]

LEMMA DropInPositions ==
    /\ Len(DropIns) \in Nat /\ DOMAIN DropIns = 1..Len(DropIns)
    /\ \A i \in 1..Len(DropIns) : DropIns[i] \in ToSet(DropIns)
    /\ \A n \in ToSet(DropIns) : \E i \in 1..Len(DropIns) : DropIns[i] = n
    /\ \A i, j \in 1..Len(DropIns) : DropIns[i] = DropIns[j] => i = j
<1>1. DropIns \in Seq(ToSet(DropIns)) /\ IsInjective(DropIns)
  BY RuleFilesAssumption
<1>2. QED  BY <1>1 DEF ToSet, IsInjective

ShareEach(s, taken, v) ==
    /\ s \in Seq(Seq(FileRules))
    /\ Len(s) = Len(DropIns) + 1
    /\ s[1] = RulesIfReadable(v[Main])
    /\ \A i \in 1..Len(DropIns) :
          s[i + 1] = IF DropIns[i] \in taken
                     THEN RulesIfReadable(v[DropIns[i]]) ELSE <<>>

LEMMA SharesType ==
    ASSUME NEW taken \in SUBSET ToSet(DropIns),
           NEW v \in [{Main} \cup taken -> Texts]
    PROVE  ShareEach(Shares(taken, v), taken, v)
<1> DEFINE N == Len(DropIns)
           head == RulesIfReadable(v[Main])
           tail == [i \in DOMAIN DropIns |->
                       IF DropIns[i] \in taken
                       THEN RulesIfReadable(v[DropIns[i]]) ELSE <<>>]
<1>1. N \in Nat /\ DOMAIN DropIns = 1..N
  BY DropInPositions
<1>2. head \in Seq(FileRules)
  BY RulesIfReadableType
<1>3. \A i \in 1..N : tail[i] = IF DropIns[i] \in taken
                                THEN RulesIfReadable(v[DropIns[i]]) ELSE <<>>
  BY <1>1
<1>4. tail \in [1..N -> Seq(FileRules)]
  <2>1. ASSUME NEW n \in taken PROVE RulesIfReadable(v[n]) \in Seq(FileRules)
    BY RulesIfReadableType
  <2>2. <<>> \in Seq(FileRules)
    OBVIOUS
  <2>3. QED  BY <1>1, <2>1, <2>2
<1>5. Shares(taken, v) = <<head>> \o tail
  BY DEF Shares
<1> HIDE DEF head, tail, N
<1>6. tail \in Seq(Seq(FileRules)) /\ Len(tail) = N
  BY <1>1, <1>4
<1>7. QED  BY <1>1, <1>2, <1>3, <1>5, <1>6 DEF head, N, ShareEach

LEMMA InOrderType ==
    ASSUME NEW taken \in SUBSET ToSet(DropIns),
           NEW v \in [{Main} \cup taken -> Texts]
    PROVE  InOrder(taken, v) = FlattenSeq(Shares(taken, v))
BY DEF InOrder, Shares

LEMMA MainAlone ==
    ASSUME NEW v \in [{Main} -> Texts]
    PROVE  InOrder({}, v) = RulesIfReadable(v[Main])
<1> DEFINE N == Len(DropIns)
           t == Shares({}, v)
           s == [i \in 1..(N + 1) |-> <<>>]
<1>1. N \in Nat
  BY DropInPositions
<1>2. /\ t \in Seq(Seq(FileRules)) /\ Len(t) = N + 1
      /\ t[1] = RulesIfReadable(v[Main])
      /\ \A i \in 1..N : t[i + 1] = <<>>
  <2>1. {} \in SUBSET ToSet(DropIns) /\ v \in [{Main} \cup {} -> Texts]
    OBVIOUS
  <2>2. ShareEach(t, {}, v)
    BY <2>1, SharesType
  <2> HIDE DEF t
  <2>3. QED  BY <2>2 DEF ShareEach
<1>3. t[1] \in Seq(FileRules)
  BY <1>2, RulesIfReadableType
<1>4. s \in Seq({<<>>}) /\ Len(s) = N + 1 /\ \A i \in 1..(N + 1) : s[i] = <<>>
  BY <1>1
<1>5. s \in Seq(Seq(FileRules))
  <2>1. <<>> \in Seq(FileRules)
    OBVIOUS
  <2>2. s \in [1..(N + 1) -> Seq(FileRules)]
    BY <2>1
  <2> HIDE DEF s
  <2>3. QED  BY <1>1, <2>2
<1>6. InOrder({}, v) = FlattenSeq(t)
  BY DEF InOrder, Shares
<1> HIDE DEF s, t, N
<1>7. ASSUME NEW i \in 1..(N + 1), i # 1 PROVE t[i] = s[i]
  <2>1. i - 1 \in 1..N /\ (i - 1) + 1 = i
    BY <1>1, <1>7
  <2>2. QED  BY <1>2, <1>4, <2>1
<1>8. Fills(t, s, 1)
  BY <1>1, <1>2, <1>4, <1>7 DEF Fills
<1>9. FlattenSeq(t) = FlattenSeq(s) \o t[1]
  BY <1>2, <1>5, <1>8, FlattenFilled
<1>10. FlattenSeq(s) = <<>>
  BY <1>4, FlattenEmpties
<1>11. QED  BY <1>2, <1>3, <1>6, <1>9, <1>10

(* A file read after those before it adds its rules at the end.            *)
Extends(taken, v, k, content, more, w) ==
    /\ taken \in SUBSET ToSet(DropIns) /\ k \in 1..Len(DropIns)
    /\ v \in [{Main} \cup taken -> Texts] /\ content \in Texts
    /\ \A i \in 1..Len(DropIns) : DropIns[i] \in taken => i < k
    /\ more = taken \cup {DropIns[k]}
    /\ w \in [{Main} \cup more -> Texts]
    /\ w[DropIns[k]] = content
    /\ \A n \in {Main} \cup taken : w[n] = v[n]

LEMMA OneMoreFile ==
    ASSUME NEW taken, NEW v, NEW k, NEW content, NEW more, NEW w,
           Extends(taken, v, k, content, more, w)
    PROVE  InOrder(more, w) = InOrder(taken, v) \o RulesIfReadable(content)
<1>0. /\ taken \in SUBSET ToSet(DropIns) /\ k \in 1..Len(DropIns)
      /\ v \in [{Main} \cup taken -> Texts] /\ content \in Texts
      /\ \A i \in 1..Len(DropIns) : DropIns[i] \in taken => i < k
      /\ more = taken \cup {DropIns[k]}
      /\ w \in [{Main} \cup more -> Texts]
      /\ w[DropIns[k]] = content
      /\ \A n \in {Main} \cup taken : w[n] = v[n]
  BY DEF Extends
<1> USE <1>0
<1> DEFINE N == Len(DropIns)
           s == Shares(taken, v)
           t == Shares(more, w)
<1>1. /\ N \in Nat /\ DOMAIN DropIns = 1..N /\ k \in Nat /\ 1 <= k /\ k <= N
      /\ more \in SUBSET ToSet(DropIns)
      /\ \A i, j \in 1..N : DropIns[i] = DropIns[j] => i = j
  BY DropInPositions
<1>2. /\ s \in Seq(Seq(FileRules)) /\ Len(s) = N + 1
      /\ s[1] = RulesIfReadable(v[Main])
      /\ \A i \in 1..N : s[i + 1] = IF DropIns[i] \in taken
                                    THEN RulesIfReadable(v[DropIns[i]]) ELSE <<>>
  <2>1. ShareEach(s, taken, v)
    BY SharesType
  <2> HIDE DEF s
  <2>2. QED  BY <2>1 DEF ShareEach
<1>3. /\ t \in Seq(Seq(FileRules)) /\ Len(t) = N + 1
      /\ t[1] = RulesIfReadable(w[Main])
      /\ \A i \in 1..N : t[i + 1] = IF DropIns[i] \in more
                                    THEN RulesIfReadable(w[DropIns[i]]) ELSE <<>>
  <2>1. ShareEach(t, more, w)
    BY <1>1, SharesType
  <2> HIDE DEF t
  <2>2. QED  BY <2>1 DEF ShareEach
<1>4. InOrder(taken, v) = FlattenSeq(s) /\ InOrder(more, w) = FlattenSeq(t)
  BY <1>1, InOrderType
<1>5. \A n \in more : n = DropIns[k] \/ n \in taken
  OBVIOUS
<1>6. DropIns[k] \in more /\ \A n \in taken : n \in more
  OBVIOUS
<1> HIDE DEF N, s, t
<1>7. ASSUME NEW i \in 1..(N + 1), i # k + 1 PROVE t[i] = s[i]
  <2>1. CASE i = 1
    BY <1>2, <1>3, <2>1
  <2>2. CASE i # 1
    <3>1. i - 1 \in 1..N /\ (i - 1) + 1 = i /\ i - 1 # k
      BY <1>1, <1>7, <2>2
    <3>2. DropIns[i - 1] \in more <=> DropIns[i - 1] \in taken
      BY <1>1, <1>5, <1>6, <3>1 DEF N
    <3>3. DropIns[i - 1] \in taken => w[DropIns[i - 1]] = v[DropIns[i - 1]]
      OBVIOUS
    <3>4. QED  BY <1>2, <1>3, <3>1, <3>2, <3>3, ZenonT(25)
  <2>3. QED  BY <2>1, <2>2
<1>8. ASSUME NEW i \in (k + 1)..(N + 1) PROVE s[i] = <<>>
  <2>1. i - 1 \in 1..N /\ (i - 1) + 1 = i /\ ~ (i - 1 < k)
    BY <1>1
  <2>2. DropIns[i - 1] \notin taken
    BY <2>1 DEF N
  <2>3. QED  BY <1>2, <2>1, <2>2
<1>9. t[k + 1] = RulesIfReadable(content)
  BY <1>1, <1>3, <1>6
<1>10. Fills(t, s, k + 1)
  BY <1>1, <1>2, <1>3, <1>7, <1>8 DEF Fills
<1>11. FlattenSeq(t) = FlattenSeq(s) \o t[k + 1]
  <2>1. s \in Seq(Seq(FileRules)) /\ t \in Seq(Seq(FileRules))
    BY <1>2, <1>3
  <2>2. PICK q : q = k + 1
    OBVIOUS
  <2>3. Fills(t, s, q)
    BY <1>10, <2>2, Zenon
  <2> HIDE <1>0
  <2>4. FlattenSeq(t) = FlattenSeq(s) \o t[q]
    BY <2>1, <2>3, FlattenFilled
  <2>5. QED  BY <2>2, <2>4, Zenon
<1>12. QED  BY <1>4, <1>9, <1>11

-----------------------------------------------------------------------------
(* The invariant holds at first and every step of a load keeps it.         *)

LEMMA NamesApart ==
    /\ Main \notin InDir /\ ToSet(DropIns) \subseteq InDir
    /\ ToSet(DropIns) \cap Hidden = {} /\ InDir \subseteq Entries
    /\ Main \in Entries
BY RuleFilesAssumption DEF InDir, Entries

LEMMA LoadInitInv == LoadInit => LoadInv
<1> SUFFICES ASSUME LoadInit PROVE LoadInv
  OBVIOUS
<1>1. etc \in [Entries -> Contents]
  BY RuleFilesAssumption DEF LoadInit, Entries, Contents
<1>2. DOMAIN etc = Entries
  BY <1>1
<1>3. held = [n \in Entries |-> {etc[n]}]
  BY <1>2 DEF LoadInit
<1>4. held \in [Entries -> SUBSET Contents] /\ \A n \in Entries : etc[n] \in held[n]
  BY <1>1, <1>3
<1>5. LoadTypeOK
  BY <1>1, <1>4 DEF LoadInit, LoadTypeOK
<1>6. HistoryKept
  BY <1>2, <1>3, <1>4, NamesApart DEF LoadInit, HistoryKept
<1>7. QED  BY <1>5, <1>6 DEF LoadInv, LoadInit, LoadDelivers, LoadFailsForCause

LEMMA ReadMainInv ==
    ASSUME LoadInv, ReadMain
    PROVE  LoadInv'
<1> USE DEF LoadInv
<1>1. LoadTypeOK'
  <2>1. CASE Readable(etc[Main])
    <3>1. etc[Main] \in Texts
      BY <2>1, NamesApart DEF LoadTypeOK, Contents, Readable, IsText
    <3>2. rules' \in Seq(FileRules)
      BY <2>1, <3>1, RulesOfType DEF ReadMain
    <3>3. QED  BY <2>1, <3>2 DEF ReadMain, LoadTypeOK
  <2>2. CASE ~ Readable(etc[Main])
    BY <2>2 DEF ReadMain, LoadTypeOK
  <2>3. QED  BY <2>1, <2>2
<1>2. HistoryKept'
  BY DEF ReadMain, HistoryKept
<1>3. LoadDelivers'
  <2>1. SUFFICES ASSUME Readable(etc[Main])
                 PROVE  \E taken \in SUBSET ToSet(DropIns) :
                            \E v \in [{Main} \cup taken -> Texts] : Delivered(taken, v)'
    BY DEF ReadMain, LoadDelivers
  <2>2. etc[Main] \in Texts /\ rules' = RulesOf(etc[Main]) /\ UNCHANGED <<held, files, dir>>
    BY <2>1, NamesApart DEF LoadTypeOK, Contents, Readable, IsText, ReadMain
  <2>3. PICK v : /\ v \in [{Main} -> Texts] /\ v \in [{Main} \cup {} -> Texts]
                 /\ v[Main] = etc[Main]
    <3> DEFINE v == [n \in {Main} |-> etc[Main]]
    <3>1. /\ v \in [{Main} -> Texts] /\ v \in [{Main} \cup {} -> Texts]
          /\ v[Main] = etc[Main]
      BY <2>2
    <3>2. QED  BY <3>1
  <2>4. rules' = InOrder({}, v)
    BY <2>1, <2>2, <2>3, MainAlone DEF RulesIfReadable
  <2>5. v[Main] \in held'[Main] /\ Readable(v[Main])
    BY <2>1, <2>2, <2>3, NamesApart DEF HistoryKept
  <2>6. load' # "opendir" => \A n \in ToSet(DropIns) : ~ StoodAsFile(n)'
    <3>1. SUFFICES ASSUME dir = "none", NEW n \in ToSet(DropIns)
                   PROVE  ~ StoodAsFile(n)'
      BY <2>1 DEF ReadMain
    <3>2. held'[n] = {Gone}
      BY <2>2, <3>1, NamesApart DEF HistoryKept
    <3>3. QED  BY <3>2 DEF StoodAsFile, IsText
  <2>7. Delivered({}, v)'
    BY <2>4, <2>5, <2>6 DEF Delivered
  <2>8. {} \in SUBSET ToSet(DropIns)
    OBVIOUS
  <2>9. QED  BY <2>3, <2>7, <2>8
<1>4. LoadFailsForCause'
  BY NamesApart DEF ReadMain, LoadFailsForCause, HistoryKept
<1>5. QED  BY <1>1, <1>2, <1>3, <1>4

(* A step that reads nothing more only has to keep what is ahead.          *)
LEMMA StillDelivers ==
    ASSUME LoadInv, load \in {"opendir", "entries", "read"}, load' # "failed",
           load' = "opendir" => load = "opendir",
           load' \in {"opendir", "entries", "read", "ready"},
           UNCHANGED rules, files' \subseteq ToSet(DropIns),
           \A n \in Entries : held[n] \subseteq held'[n],
           load = "read" => files' \subseteq files /\ load' \in {"read", "ready"},
           load' = "opendir" \/
           \A n \in ToSet(DropIns) : StoodAsFile(n)' /\ n \in Ahead => n \in Ahead',
           load = "opendir" /\ load' # "opendir" =>
               \A n \in ToSet(DropIns) : StoodAsFile(n)' => n \in Ahead'
    PROVE  LoadDelivers'
<1>1. PICK taken \in SUBSET ToSet(DropIns) :
          \E v \in [{Main} \cup taken -> Texts] : Delivered(taken, v)
  BY DEF LoadInv, LoadDelivers
<1>2. PICK v \in [{Main} \cup taken -> Texts] : Delivered(taken, v)
  BY <1>1
<1>3. \A n \in ToSet(DropIns) : StoodAsFile(n)' => StoodAsFile(n)
  BY NamesApart DEF StoodAsFile
<1>4. \A n \in {Main} \cup taken : v[n] \in held'[n] /\ Readable(v[n])
  BY <1>2, NamesApart DEF Delivered
<1>5. rules' = InOrder(taken, v)
  BY <1>2 DEF Delivered
<1>6. load # "read" => taken = {}
  BY <1>2 DEF Delivered
<1>7. load' # "read" /\ load' # "ready" => taken = {}
  BY <1>6 DEF LoadInv
<1>8. \A i, j \in DOMAIN DropIns :
          DropIns[i] \in taken /\ DropIns[j] \in files' => i < j
  BY <1>2, <1>6 DEF Delivered
<1>9. load' = "opendir" \/
      \A n \in ToSet(DropIns) : StoodAsFile(n)' => n \in taken \cup Ahead'
  BY <1>2, <1>3 DEF Delivered
<1>10. Delivered(taken, v)'
  BY <1>4, <1>5, <1>7, <1>8, <1>9 DEF Delivered
<1>11. QED  BY <1>10 DEF LoadDelivers

LEMMA OpenDirInv ==
    ASSUME LoadInv, OpenDir
    PROVE  LoadInv'
<1> USE DEF LoadInv
<1>1. LoadTypeOK'
  BY DEF OpenDir, LoadTypeOK
<1>2. HistoryKept'
  BY DEF OpenDir, HistoryKept
<1>3. LoadDelivers'
  <2>1. CASE load' = "failed"
    BY <2>1 DEF LoadDelivers
  <2>2. CASE load' # "failed"
    <3>1. ASSUME NEW n \in ToSet(DropIns), StoodAsFile(n)' PROVE n \in Ahead'
      <4>1. etc[n] \in held[n] /\ IsText(etc[n]) /\ n \in InDir
        BY <3>1, NamesApart DEF HistoryKept, StoodAsFile, OpenDir
      <4>2. dir = "there"
        BY <4>1 DEF HistoryKept, IsText
      <4>3. load' = "entries" /\ n \in due'
        BY <4>1, <4>2 DEF OpenDir, IsText
      <4>4. QED  BY <4>3 DEF Ahead
    <3>2. /\ load' \in {"entries", "ready"} /\ UNCHANGED <<rules, files, held>>
          /\ load = "opendir"
      BY <2>2 DEF OpenDir
    <3>3. files' \subseteq ToSet(DropIns)
      BY <3>2 DEF LoadTypeOK
    <3>4. QED  BY <2>2, <3>1, <3>2, <3>3, StillDelivers
  <2>3. QED  BY <2>1, <2>2
<1>4. LoadFailsForCause'
  <2>1. dir \in {"there", "missing", "file", "none"}
    BY RuleFilesAssumption DEF LoadTypeOK
  <2>2. load' = "failed" => dir = "file" \/ dir = "none"
    BY <2>1 DEF OpenDir
  <2>3. QED  BY <2>2 DEF OpenDir, LoadFailsForCause, HistoryKept
<1>5. QED  BY <1>1, <1>2, <1>3, <1>4

LEMMA ListEntryInv ==
    ASSUME LoadInv, NEW n \in InDir, ListEntry(n)
    PROVE  LoadInv'
<1> USE DEF LoadInv
<1>1. n \notin Hidden => n \in ToSet(DropIns)
  BY DEF InDir
<1>2. LoadTypeOK'
  BY <1>1 DEF ListEntry, LoadTypeOK
<1>3. HistoryKept'
  <2>1. \A f \in files' : f \in files \/ (f = n /\ IsText(etc[n]))
    BY DEF ListEntry
  <2>2. etc[n] \in held[n]
    BY NamesApart DEF HistoryKept
  <2>3. \A f \in files' : \E content \in held'[f] : IsText(content)
    BY <2>1, <2>2 DEF ListEntry, HistoryKept
  <2>4. QED  BY <2>3 DEF ListEntry, HistoryKept
<1>4. LoadDelivers'
  <2>1. ASSUME NEW f \in ToSet(DropIns), StoodAsFile(f)', f \in Ahead
        PROVE  f \in Ahead'
    <3>1. f \in files \cup due /\ Ahead' = files' \cup due'
      BY <2>1 DEF ListEntry, Ahead
    <3>2. CASE f # n
      BY <3>1, <3>2 DEF ListEntry
    <3>3. CASE f = n
      <4>1. IsText(etc[n]) /\ n \notin Hidden
        BY <2>1, <3>3, NamesApart DEF ListEntry, StoodAsFile, HistoryKept
      <4>2. QED  BY <3>1, <3>3, <4>1 DEF ListEntry
    <3>4. QED  BY <3>2, <3>3
  <2>2. /\ load = "entries" /\ load' = "entries" /\ UNCHANGED <<rules, held>>
        /\ files' \subseteq ToSet(DropIns)
    BY <1>2 DEF ListEntry, LoadTypeOK
  <2>3. QED  BY <2>1, <2>2, StillDelivers
<1>5. LoadFailsForCause'
  BY DEF ListEntry, LoadFailsForCause
<1>6. QED  BY <1>2, <1>3, <1>4, <1>5

LEMMA EndOfDirInv ==
    ASSUME LoadInv, EndOfDir
    PROVE  LoadInv'
<1> USE DEF LoadInv
<1>1. LoadTypeOK'
  BY DEF EndOfDir, LoadTypeOK
<1>2. HistoryKept'
  BY DEF EndOfDir, HistoryKept
<1>3. LoadDelivers'
  <2>1. Ahead = files /\ Ahead' = files
    BY DEF EndOfDir, Ahead
  <2>2. /\ load = "entries" /\ load' = "read" /\ UNCHANGED <<rules, files, held>>
        /\ files' \subseteq ToSet(DropIns)
    BY DEF EndOfDir, LoadTypeOK
  <2>3. QED  BY <2>1, <2>2, StillDelivers
<1>4. LoadFailsForCause'
  BY DEF EndOfDir, LoadFailsForCause
<1>5. QED  BY <1>1, <1>2, <1>3, <1>4

LEMMA EndLoadInv ==
    ASSUME LoadInv, EndLoad
    PROVE  LoadInv'
<1> USE DEF LoadInv
<1>1. LoadTypeOK'
  BY DEF EndLoad, LoadTypeOK
<1>2. HistoryKept'
  BY DEF EndLoad, HistoryKept
<1>3. LoadDelivers'
  <2>1. Ahead = {}
    BY DEF EndLoad, Ahead
  <2>2. /\ load = "read" /\ load' = "ready" /\ UNCHANGED <<rules, files, held>>
        /\ files' \subseteq ToSet(DropIns)
    BY DEF EndLoad, LoadTypeOK
  <2>3. QED  BY <2>1, <2>2, StillDelivers
<1>4. LoadFailsForCause'
  BY DEF EndLoad, LoadFailsForCause
<1>5. QED  BY <1>1, <1>2, <1>3, <1>4

LEMMA EditInv ==
    ASSUME LoadInv, NEW n \in Entries, NEW content \in Contents, Edit(n, content)
    PROVE  LoadInv'
<1> USE DEF LoadInv
<1>1. /\ etc' = [etc EXCEPT ![n] = content]
      /\ held' = [held EXCEPT ![n] = @ \cup {content}]
      /\ due' = IF content = Gone THEN due \ {n} ELSE due
      /\ UNCHANGED <<dir, load, returned, files, rules>>
      /\ n = Main \/ dir = "there"
      /\ load \notin {"ready", "failed"}
  BY DEF Edit
<1>2. \A m \in Entries :
          /\ held[m] \subseteq held'[m] /\ etc'[m] \in held'[m]
          /\ m # n => held'[m] = held[m]
  BY <1>1 DEF LoadTypeOK, HistoryKept
<1>3. LoadTypeOK'
  BY <1>1 DEF LoadTypeOK
<1>4. HistoryKept'
  <2>1. dir # "there" => \A m \in InDir : held'[m] = {Gone}
    BY <1>1, <1>2, NamesApart DEF HistoryKept
  <2>2. \A m \in files : \E text_ \in held'[m] : IsText(text_)
    <3>1. SUFFICES ASSUME NEW m \in files PROVE \E text_ \in held'[m] : IsText(text_)
      OBVIOUS
    <3>2. m \in Entries /\ \E text_ \in held[m] : IsText(text_)
      BY NamesApart DEF LoadTypeOK, HistoryKept
    <3>3. QED  BY <1>2, <3>2
  <2>3. QED  BY <1>1, <1>2, <2>1, <2>2 DEF HistoryKept
<1>5. LoadDelivers'
  <2>1. CASE load = "main"
    BY <1>1, <2>1 DEF LoadDelivers
  <2>2. CASE load # "main"
    <3>1. ASSUME NEW f \in ToSet(DropIns), StoodAsFile(f)', f \in Ahead
          PROVE  f \in Ahead'
      <4>1. content = Gone => f # n
        <5>1. SUFFICES ASSUME content = Gone, f = n PROVE FALSE
          OBVIOUS
        <5>2. Gone \in held'[f]
          BY <1>1, <5>1 DEF LoadTypeOK
        <5>3. QED  BY <3>1, <5>2 DEF StoodAsFile, IsText
      <4>2. f \in due => f \in due'
        BY <1>1, <4>1
      <4>3. CASE load = "entries"
        BY <1>1, <3>1, <4>2, <4>3 DEF Ahead
      <4>4. CASE load # "entries"
        BY <1>1, <3>1, <4>4 DEF Ahead
      <4>5. QED  BY <4>3, <4>4
    <3>2. load \in {"opendir", "entries", "read"}
      BY <1>1, <2>2 DEF LoadTypeOK
    <3>3. QED  BY <1>1, <1>2, <1>3, <3>1, <3>2, StillDelivers DEF LoadTypeOK
  <2>3. QED  BY <2>1, <2>2
<1>6. LoadFailsForCause'
  BY <1>1 DEF LoadFailsForCause
<1>7. QED  BY <1>3, <1>4, <1>5, <1>6

(* The file taken is the first of the eligible ones.                       *)
LEMMA NextFileIsFirst ==
    ASSUME NEW fs \in SUBSET ToSet(DropIns), fs # {}
    PROVE  \E k \in 1..Len(DropIns) :
              /\ NextFile(fs) = DropIns[k] /\ DropIns[k] \in fs
              /\ \A i \in 1..Len(DropIns) : DropIns[i] \in fs => k <= i
<1> DEFINE S == {i \in DOMAIN DropIns : DropIns[i] \in fs}
<1>1. S \subseteq Nat /\ S # {} /\ S \subseteq 1..Len(DropIns)
  BY DropInPositions
<1>2. \A i \in 1..Len(DropIns) : DropIns[i] \in fs => i \in S
  BY DropInPositions
<1>3. \A i \in S : DropIns[i] \in fs
  OBVIOUS
<1>4. NextFile(fs) = DropIns[Min(S)]
  BY DEF NextFile
<1> HIDE DEF S
<1>5. \E k \in S : \A i \in S : k <= i
  BY <1>1, FirstPosition
<1>6. Min(S) \in S /\ \A i \in S : Min(S) <= i
  BY <1>5 DEF Min
<1>7. QED  BY <1>1, <1>2, <1>3, <1>4, <1>6

LEMMA ReadDropInInv ==
    ASSUME LoadInv, ReadDropIn
    PROVE  LoadInv'
<1> USE DEF LoadInv
<1>1. PICK k \in 1..Len(DropIns) :
          /\ NextFile(files) = DropIns[k] /\ DropIns[k] \in files
          /\ \A i \in 1..Len(DropIns) : DropIns[i] \in files => k <= i
  BY NextFileIsFirst DEF ReadDropIn, LoadTypeOK
<1>2. PICK n : n = DropIns[k]
  OBVIOUS
<1>3. n \in files /\ n \in ToSet(DropIns) /\ n \in Entries /\ n # Main
  BY <1>1, <1>2, NamesApart DEF LoadTypeOK
<1>4. /\ load = "read" /\ files' = files \ {n}
      /\ UNCHANGED <<etc, dir, due, returned, held, edits>>
      /\ Readable(etc[n]) => rules' = rules \o RulesOf(etc[n]) /\ load' = "read"
      /\ ~ Readable(etc[n]) => rules' = rules /\ load' = "failed"
  BY <1>1, <1>2 DEF ReadDropIn
<1>5. Readable(etc[n]) => etc[n] \in Texts
  BY <1>3 DEF LoadTypeOK, Contents, Readable, IsText
<1>6. LoadTypeOK'
  <2>1. rules' \in Seq(FileRules)
    <3>1. CASE Readable(etc[n])
      <4>1. RulesOf(etc[n]) \in Seq(FileRules) /\ rules \in Seq(FileRules)
        BY <1>5, <3>1, RulesOfType DEF LoadTypeOK
      <4>2. rules' = rules \o RulesOf(etc[n])
        BY <1>4, <3>1
      <4> HIDE DEF LoadInv
      <4>3. \A a, b \in Seq(FileRules) : a \o b \in Seq(FileRules)
        OBVIOUS
      <4>4. QED  BY <4>1, <4>2, <4>3
    <3>2. CASE ~ Readable(etc[n])
      BY <1>4, <3>2 DEF LoadTypeOK
    <3>3. QED  BY <3>1, <3>2
  <2>2. load' \in {"read", "failed"}
    BY <1>4
  <2>3. QED  BY <1>4, <2>1, <2>2 DEF LoadTypeOK
<1>7. HistoryKept'
  <2>1. load' \in {"read", "failed"}
    BY <1>4
  <2>2. QED  BY <1>4, <2>1 DEF HistoryKept
<1>8. LoadDelivers'
  <2>1. SUFFICES ASSUME Readable(etc[n]) PROVE LoadDelivers'
    BY <1>4 DEF LoadDelivers
  <2>2. PICK taken \in SUBSET ToSet(DropIns) :
            \E v \in [{Main} \cup taken -> Texts] : Delivered(taken, v)
    BY <1>4 DEF LoadDelivers
  <2>3. PICK v \in [{Main} \cup taken -> Texts] : Delivered(taken, v)
    BY <2>2
  <2>4. PICK content \in Texts : content = etc[n]
    BY <1>5, <2>1
  <2>5. PICK w \in [{Main} \cup (taken \cup {n}) -> Texts] :
            w[n] = content /\ \A m \in {Main} \cup taken : m # n => w[m] = v[m]
    <3> DEFINE w == [m \in {Main} \cup (taken \cup {n}) |->
                        IF m = n THEN content ELSE v[m]]
    <3>1. w \in [{Main} \cup (taken \cup {n}) -> Texts]
      BY <2>4
    <3>2. w[n] = content /\ \A m \in {Main} \cup taken : m # n => w[m] = v[m]
      OBVIOUS
    <3>3. QED  BY <3>1, <3>2
  <2>6. /\ \A i \in 1..Len(DropIns) : DropIns[i] \in taken => i < k
        /\ n \notin taken
    <3>1. \A i \in 1..Len(DropIns) : DropIns[i] \in taken => i < k
      BY <1>1, <2>3, DropInPositions DEF Delivered
    <3>2. ~ (k < k)
      BY DropInPositions
    <3>3. QED  BY <1>2, <3>1, <3>2
  <2>7. \A m \in {Main} \cup taken : w[m] = v[m]
    BY <1>3, <2>5, <2>6
  <2>8. InOrder(taken \cup {n}, w) = InOrder(taken, v) \o RulesIfReadable(content)
    <3>1. PICK more : more = taken \cup {n}
      OBVIOUS
    <3>2. Extends(taken, v, k, content, more, w)
      BY <1>2, <2>5, <2>6, <2>7, <3>1 DEF Extends
    <3>3. InOrder(more, w) = InOrder(taken, v) \o RulesIfReadable(content)
      <4> HIDE DEF LoadInv
      <4>1. QED  BY <3>2, OneMoreFile
    <3>4. QED  BY <3>1, <3>3
  <2>9. rules' = InOrder(taken \cup {n}, w)
    BY <1>4, <2>1, <2>3, <2>4, <2>8 DEF Delivered, RulesIfReadable
  <2>10. \A m \in {Main} \cup (taken \cup {n}) : w[m] \in held'[m] /\ Readable(w[m])
    <3>1. w[n] \in held[n] /\ Readable(w[n])
      BY <1>3, <2>1, <2>4, <2>5 DEF HistoryKept
    <3>2. QED  BY <1>4, <2>3, <2>7, <3>1 DEF Delivered
  <2>11. \A i, j \in DOMAIN DropIns :
            DropIns[i] \in taken \cup {n} /\ DropIns[j] \in files' => i < j
    <3>1. SUFFICES ASSUME NEW i \in 1..Len(DropIns), NEW j \in 1..Len(DropIns),
                          DropIns[i] \in taken \cup {n}, DropIns[j] \in files \ {n}
                   PROVE  i < j
      BY <1>4, DropInPositions
    <3>2. k <= j /\ j # k
      BY <1>1, <1>2, <3>1
    <3>3. i < k \/ i = k
      BY <1>2, <2>6, <3>1, DropInPositions
    <3>4. QED  BY <3>2, <3>3, DropInPositions
  <2>12. \A m \in ToSet(DropIns) : StoodAsFile(m)' => m \in (taken \cup {n}) \cup Ahead'
    <3>1. Ahead = files /\ Ahead' = files'
      BY <1>4, <2>1 DEF Ahead
    <3>2. \A m \in ToSet(DropIns) : StoodAsFile(m)' => StoodAsFile(m)
      BY <1>4 DEF StoodAsFile
    <3>3. QED  BY <1>4, <2>3, <3>1, <3>2 DEF Delivered
  <2>13. Delivered(taken \cup {n}, w)'
    BY <1>4, <2>1, <2>9, <2>10, <2>11, <2>12 DEF Delivered
  <2>14. taken \cup {n} \in SUBSET ToSet(DropIns)
    BY <1>3
  <2>15. QED  BY <2>5, <2>13, <2>14 DEF LoadDelivers
<1>9. LoadFailsForCause'
  <2>1. SUFFICES ASSUME ~ Readable(etc[n])
                 PROVE /\ \E content \in held'[n] : IsText(content)
                       /\ \E content \in held'[n] : ~ Readable(content)
    BY <1>3, <1>4 DEF LoadFailsForCause
  <2>2. QED  BY <1>3, <1>4, <2>1 DEF HistoryKept
<1>10. QED  BY <1>6, <1>7, <1>8, <1>9

LEMMA LoadStepInv ==
    ASSUME LoadInv, LoadNext
    PROVE  LoadInv'
<1>1. CASE ReadMain
  BY <1>1, ReadMainInv
<1>2. CASE OpenDir
  BY <1>2, OpenDirInv
<1>3. CASE \E n \in InDir : ListEntry(n)
  BY <1>3, ListEntryInv
<1>4. CASE EndOfDir
  BY <1>4, EndOfDirInv
<1>5. CASE ReadDropIn
  BY <1>5, ReadDropInInv
<1>6. CASE EndLoad
  BY <1>6, EndLoadInv
<1>7. CASE \E n \in {Main} \cup InDir, content \in Texts \cup {Gone, Folder} :
               Edit(n, content)
  BY <1>7, EditInv DEF Entries, Contents
<1>8. QED  BY <1>1, <1>2, <1>3, <1>4, <1>5, <1>6, <1>7 DEF LoadNext, Loading

(* An unchanged load is a load that keeps its invariant.                   *)
LEMMA LoadRestsInv ==
    ASSUME LoadInv, UNCHANGED loadVars
    PROVE  LoadInv'
BY DEF loadVars, LoadInv, LoadTypeOK, HistoryKept, LoadDelivers, Delivered, Ahead,
       StoodAsFile, LoadFailsForCause

-----------------------------------------------------------------------------
(* The theorems of a load.                                                 *)

(* LoadStaysWhole: the invariant of a load holds in every behaviour.       *)
THEOREM LoadStaysWhole == Spec => []Inv
<1>1. Init => Inv
  BY LoadInitInv DEF Init, Inv
<1>2. Inv /\ [Next]_vars => Inv'
  <2> SUFFICES ASSUME Inv, [Next]_vars PROVE Inv'
    OBVIOUS
  <2>1. CASE job = "load" /\ LoadNext /\ UNCHANGED <<job, snapVars>>
    BY <2>1, LoadStepInv DEF Inv
  <2>2. CASE job = "cgctl" /\ SnapNext /\ UNCHANGED <<job, loadVars>>
    BY <2>2 DEF Inv, loadVars, LoadRests
  <2>3. CASE UNCHANGED vars
    <3>1. UNCHANGED job /\ UNCHANGED loadVars
      BY <2>3 DEF vars
    <3>2. CASE job = "load"
      BY <3>1, <3>2, LoadRestsInv DEF Inv
    <3>3. CASE job # "load"
      BY <3>1, <3>3 DEF Inv, loadVars, LoadRests
    <3>4. QED  BY <3>2, <3>3
  <2>4. QED  BY <2>1, <2>2, <2>3 DEF Next
<1>3. QED  BY <1>1, <1>2, PTL DEF Spec

(* LoadIsAlwaysOrdered: whatever files there are and whoever edits them, a *)
(* load that succeeds delivers whole versions of the main file and of      *)
(* every drop-in that stood throughout, in the order of their names.       *)
THEOREM LoadIsAlwaysOrdered == Spec => []LoadIsOrdered
<1>1. Inv => LoadIsOrdered
  <2> SUFFICES ASSUME Inv, load = "ready" PROVE LoadIsOrdered
    BY DEF LoadIsOrdered
  <2>1. LoadInv
    BY DEF Inv, LoadRests
  <2>2. PICK taken \in SUBSET ToSet(DropIns) :
            \E v \in [{Main} \cup taken -> Texts] : Delivered(taken, v)
    BY <2>1 DEF LoadInv, LoadDelivers
  <2>3. PICK v \in [{Main} \cup taken -> Texts] : Delivered(taken, v)
    BY <2>2
  <2>4. Ahead = {} /\ DOMAIN v = {Main} \cup taken
    BY DEF Ahead
  <2>5. \A n \in ToSet(DropIns) : StoodAsFile(n) => n \in taken
    BY <2>3, <2>4 DEF Delivered
  <2>6. /\ \A n \in DOMAIN v : v[n] \in held[n] /\ Readable(v[n])
        /\ rules = InOrder(taken, v)
    BY <2>3, <2>4 DEF Delivered
  <2>7. QED  BY <2>5, <2>6 DEF LoadIsOrdered
<1>2. QED  BY <1>1, LoadStaysWhole, PTL

(* LoadAlwaysFailsForCause: a load fails only when the directory is a file *)
(* or a file that was there could not be read or parsed.                   *)
THEOREM LoadAlwaysFailsForCause == Spec => []LoadFailsForCause
<1>1. Inv => LoadFailsForCause
  BY DEF Inv, LoadRests, LoadInv, LoadFailsForCause
<1>2. QED  BY <1>1, LoadStaysWhole, PTL

-----------------------------------------------------------------------------
(* The verdict of two lists of rules.                                      *)

(* The positions a list is searched at, and the first of them.             *)
LEMMA VerdictOfFirst ==
    ASSUME NEW rs, NEW id, NEW i \in Candidates(rs, id),
           Candidates(rs, id) \subseteq Nat,
           \A j \in Candidates(rs, id) : i <= j
    PROVE  Verdict(rs, id) = [found |-> TRUE, rule |-> rs[i]]
<1> DEFINE hits == Candidates(rs, id)
           first == CHOOSE k \in hits : \A j \in hits : k <= j
<1>1. first = i
  <2> HIDE DEF hits
  <2>1. i \in hits /\ hits \subseteq Nat /\ \A j \in hits : i <= j
    BY DEF hits
  <2>2. first \in hits /\ \A j \in hits : first <= j
    BY <2>1
  <2> HIDE DEF first
  <2>3. first <= i /\ i <= first /\ first \in Nat /\ i \in Nat
    BY <2>1, <2>2
  <2>4. QED  BY <2>3
<1>2. FirstRule([rules |-> rs], id) = rs[first]
  BY DEF FirstRule
<1> HIDE DEF first
<1>3. Candidates(rs, id) # {}
  OBVIOUS
<1>4. QED  BY <1>1, <1>2, <1>3 DEF Verdict

LEMMA VerdictOfNone ==
    ASSUME NEW rs, NEW id, Candidates(rs, id) = {}
    PROVE  Verdict(rs, id) = [found |-> FALSE, rule |-> NoPlan]
BY DEF Verdict

Hits(rs, id) == {i \in DOMAIN rs : Matches(rs[i], id)}
Specific(rs, id) == {i \in Hits(rs, id) : IsProcessSpecific(rs[i])}

LEMMA CandidatesAre ==
    ASSUME NEW rs, NEW id
    PROVE  Candidates(rs, id) = IF Specific(rs, id) # {} THEN Specific(rs, id)
                                ELSE Hits(rs, id)
BY DEF Candidates, Specific, Hits

(* What a list says, from the first position of those that decide.         *)
LEMMA VerdictCases ==
    ASSUME NEW A, NEW rs \in Seq(A), NEW id
    PROVE  /\ Hits(rs, id) = {} =>
                  Verdict(rs, id) = [found |-> FALSE, rule |-> NoPlan]
           /\ Specific(rs, id) = {} => ~ Narrow(Verdict(rs, id))
           /\ \A i \in Specific(rs, id) :
                 (\A j \in Specific(rs, id) : i <= j) =>
                     /\ Verdict(rs, id) = [found |-> TRUE, rule |-> rs[i]]
                     /\ Narrow(Verdict(rs, id))
           /\ \A i \in Hits(rs, id) :
                 Specific(rs, id) = {} /\ (\A j \in Hits(rs, id) : i <= j) =>
                     Verdict(rs, id) = [found |-> TRUE, rule |-> rs[i]]
<1>1. Hits(rs, id) \subseteq Nat /\ Specific(rs, id) \subseteq Hits(rs, id)
  BY DEF Hits, Specific
<1>2. Hits(rs, id) = {} => Verdict(rs, id) = [found |-> FALSE, rule |-> NoPlan]
  BY <1>1, CandidatesAre, VerdictOfNone
<1>3. ASSUME NEW i \in Specific(rs, id), \A j \in Specific(rs, id) : i <= j
      PROVE  /\ Verdict(rs, id) = [found |-> TRUE, rule |-> rs[i]]
             /\ Narrow(Verdict(rs, id))
  <2>1. Candidates(rs, id) = Specific(rs, id)
    BY CandidatesAre
  <2>2. Verdict(rs, id) = [found |-> TRUE, rule |-> rs[i]]
    BY <1>1, <1>3, <2>1, VerdictOfFirst
  <2>3. IsProcessSpecific(rs[i])
    BY DEF Specific
  <2>4. QED  BY <2>2, <2>3 DEF Narrow
<1>4. ASSUME NEW i \in Hits(rs, id), Specific(rs, id) = {},
             \A j \in Hits(rs, id) : i <= j
      PROVE  /\ Verdict(rs, id) = [found |-> TRUE, rule |-> rs[i]]
             /\ ~ IsProcessSpecific(rs[i])
  <2>1. Candidates(rs, id) = Hits(rs, id)
    BY <1>4, CandidatesAre
  <2>2. QED  BY <1>1, <1>4, <2>1, VerdictOfFirst DEF Specific
<1>5. Specific(rs, id) = {} => ~ Narrow(Verdict(rs, id))
  <2>1. SUFFICES ASSUME Specific(rs, id) = {}, Hits(rs, id) # {}
                 PROVE  ~ Narrow(Verdict(rs, id))
    BY <1>2 DEF Narrow
  <2>2. PICK i \in Hits(rs, id) : \A j \in Hits(rs, id) : i <= j
    BY <1>1, <2>1, FirstPosition
  <2>3. Verdict(rs, id) = [found |-> TRUE, rule |-> rs[i]] /\ ~ IsProcessSpecific(rs[i])
    BY <1>4, <2>1, <2>2
  <2>4. QED  BY <2>3 DEF Narrow
<1>6. QED  BY <1>2, <1>3, <1>4, <1>5

(* Where the rules of two lists end up when one is put after the other.    *)
LEMMA Positions ==
    ASSUME NEW A, NEW r \in Seq(A), NEW n \in Seq(A), NEW id
    PROVE  LET L == Len(r)
               b == r \o n
           IN  /\ \A i \in 1..L : b[i] = r[i]
               /\ \A i \in 1..Len(n) : L + i \in 1..Len(b) /\ b[L + i] = n[i]
               /\ \A i \in Hits(b, id) :
                     \/ i \in Hits(r, id)
                     \/ i > L /\ i - L \in Hits(n, id)
               /\ \A i \in Specific(b, id) :
                     \/ i \in Specific(r, id)
                     \/ i > L /\ i - L \in Specific(n, id)
               /\ Hits(r, id) \subseteq Hits(b, id)
               /\ Specific(r, id) \subseteq Specific(b, id)
               /\ \A i \in Hits(n, id) : L + i \in Hits(b, id)
               /\ \A i \in Specific(n, id) : L + i \in Specific(b, id)
               /\ \A i \in Hits(r, id) : i <= L
               /\ Hits(r, id) \subseteq Nat /\ Hits(n, id) \subseteq Nat
<1> DEFINE L == Len(r)
           b == r \o n
<1>1. /\ L \in Nat /\ Len(n) \in Nat /\ Len(b) = L + Len(n)
      /\ DOMAIN r = 1..L /\ DOMAIN n = 1..Len(n) /\ DOMAIN b = 1..Len(b)
      /\ b \in Seq(A)
  OBVIOUS
<1>2. \A i \in 1..L : b[i] = r[i]
  OBVIOUS
<1>3. \A i \in 1..Len(n) : b[L + i] = n[i]
  OBVIOUS
<1> HIDE DEF b, L
<1>4. \A i \in 1..Len(n) : L + i \in 1..Len(b)
  BY <1>1
<1>5. \A i \in 1..Len(b) : i \in 1..L \/ (i > L /\ i - L \in 1..Len(n) /\ L + (i - L) = i)
  BY <1>1
<1>6. \A i \in 1..Len(b) : \/ i \in 1..L /\ b[i] = r[i]
                           \/ i > L /\ i - L \in 1..Len(n) /\ b[i] = n[i - L]
  BY <1>2, <1>3, <1>5
<1>7. \A i \in Hits(b, id) : i \in Hits(r, id) \/ (i > L /\ i - L \in Hits(n, id))
  BY <1>1, <1>6 DEF Hits
<1>8. \A i \in Specific(b, id) :
          i \in Specific(r, id) \/ (i > L /\ i - L \in Specific(n, id))
  BY <1>1, <1>6 DEF Hits, Specific
<1>9. \A i \in 1..L : i \in 1..Len(b)
  BY <1>1
<1>10. Hits(r, id) \subseteq Hits(b, id) /\ Specific(r, id) \subseteq Specific(b, id)
  BY <1>1, <1>2, <1>9 DEF Hits, Specific
<1>11. /\ \A i \in Hits(n, id) : L + i \in Hits(b, id)
       /\ \A i \in Specific(n, id) : L + i \in Specific(b, id)
  BY <1>1, <1>3, <1>4 DEF Hits, Specific
<1>12. /\ \A i \in Hits(r, id) : i <= L
       /\ Hits(r, id) \subseteq Nat /\ Hits(n, id) \subseteq Nat
  BY <1>1 DEF Hits
<1>13. QED  BY <1>2, <1>3, <1>4, <1>7, <1>8, <1>10, <1>11, <1>12 DEF L, b

(* VerdictOfBoth: what a list of rules after another makes of the verdict  *)
(* of the first; this is DropInDecides for any two lists.                  *)
LEMMA VerdictOfBoth ==
    ASSUME NEW A, NEW r \in Seq(A), NEW n \in Seq(A), NEW id
    PROVE  Verdict(r \o n, id) = Overrule(Verdict(r, id), Verdict(n, id))
<1>1. PICK b \in Seq(A) : b = r \o n
  <2>1. r \o n \in Seq(A)
    OBVIOUS
  <2>2. QED  BY <2>1
<1>2. PICK L \in Nat : L = Len(r)
  OBVIOUS
<1>3. /\ \A i \in 1..L : b[i] = r[i]
      /\ \A i \in 1..Len(n) : L + i \in 1..Len(b) /\ b[L + i] = n[i]
      /\ \A i \in Hits(b, id) :
            \/ i \in Hits(r, id)
            \/ i > L /\ i - L \in Hits(n, id)
      /\ \A i \in Specific(b, id) :
            \/ i \in Specific(r, id)
            \/ i > L /\ i - L \in Specific(n, id)
      /\ Hits(r, id) \subseteq Hits(b, id)
      /\ Specific(r, id) \subseteq Specific(b, id)
      /\ \A i \in Hits(n, id) : L + i \in Hits(b, id)
      /\ \A i \in Specific(n, id) : L + i \in Specific(b, id)
      /\ \A i \in Hits(r, id) : i <= L
      /\ Hits(r, id) \subseteq Nat /\ Hits(n, id) \subseteq Nat
  BY <1>1, <1>2, Positions
<1>4. \A rs : Specific(rs, id) \subseteq Hits(rs, id) /\ Hits(rs, id) \subseteq DOMAIN rs
  BY DEF Specific, Hits
<1>5. DOMAIN r = 1..L /\ DOMAIN n = 1..Len(n) /\ Hits(b, id) \subseteq Nat
  <2>1. DOMAIN b \subseteq Nat
    OBVIOUS
  <2>2. QED  BY <1>2, <1>4, <2>1
<1>6. CASE Specific(r, id) # {}
  <2>1. PICK i \in Specific(r, id) : \A j \in Specific(r, id) : i <= j
    BY <1>3, <1>4, <1>6, FirstPosition
  <2>2. i \in Specific(b, id) /\ i \in 1..L
    BY <1>3, <1>4, <1>5
  <2>3. \A j \in Specific(b, id) : i <= j
    <3>1. SUFFICES ASSUME NEW j \in Specific(b, id) PROVE i <= j
      OBVIOUS
    <3>2. j \in Specific(r, id) \/ j > L
      BY <1>3
    <3>3. j \in Nat
      BY <1>4, <1>5
    <3>4. QED  BY <2>1, <2>2, <3>2, <3>3
  <2>4. Verdict(b, id) = [found |-> TRUE, rule |-> b[i]]
    BY <2>2, <2>3, VerdictCases
  <2>5. Verdict(r, id) = [found |-> TRUE, rule |-> r[i]] /\ Narrow(Verdict(r, id))
    BY <2>1, VerdictCases
  <2>6. Verdict(b, id) = Verdict(r, id)
    BY <1>3, <2>2, <2>4, <2>5
  <2>7. QED  BY <1>1, <2>5, <2>6 DEF Overrule
<1>7. CASE Specific(r, id) = {} /\ Specific(n, id) # {}
  <2>1. PICK i \in Specific(n, id) : \A j \in Specific(n, id) : i <= j
    BY <1>3, <1>4, <1>7, FirstPosition
  <2>2. L + i \in Specific(b, id) /\ i \in 1..Len(n)
    BY <1>3, <1>4, <1>5
  <2>3. \A j \in Specific(b, id) : L + i <= j
    <3>1. SUFFICES ASSUME NEW j \in Specific(b, id) PROVE L + i <= j
      OBVIOUS
    <3>2. j - L \in Specific(n, id) /\ j \in Nat
      BY <1>3, <1>4, <1>5, <1>7
    <3>3. i <= j - L
      BY <2>1, <3>2
    <3>4. QED  BY <2>2, <3>2, <3>3
  <2>4. Verdict(b, id) = [found |-> TRUE, rule |-> b[L + i]]
    BY <2>2, <2>3, VerdictCases
  <2>5. Verdict(n, id) = [found |-> TRUE, rule |-> n[i]] /\ Narrow(Verdict(n, id))
    BY <2>1, VerdictCases
  <2>6. Verdict(b, id) = Verdict(n, id)
    BY <1>3, <2>2, <2>4, <2>5
  <2>7. ~ Narrow(Verdict(r, id))
    BY <1>7, VerdictCases
  <2>8. QED  BY <1>1, <2>5, <2>6, <2>7 DEF Overrule
<1>8. CASE Specific(r, id) = {} /\ Specific(n, id) = {}
  <2>1. Specific(b, id) = {}
    BY <1>3, <1>8
  <2>2. ~ Narrow(Verdict(r, id)) /\ ~ Narrow(Verdict(n, id))
    BY <1>8, VerdictCases
  <2>3. CASE Hits(r, id) # {}
    <3>1. PICK i \in Hits(r, id) : \A j \in Hits(r, id) : i <= j
      BY <1>3, <2>3, FirstPosition
    <3>2. i \in Hits(b, id) /\ i \in 1..L
      BY <1>3, <1>4, <1>5
    <3>3. \A j \in Hits(b, id) : i <= j
      <4>1. SUFFICES ASSUME NEW j \in Hits(b, id) PROVE i <= j
        OBVIOUS
      <4>2. j \in Hits(r, id) \/ j > L
        BY <1>3
      <4>3. j \in Nat
        BY <1>5
      <4>4. QED  BY <3>1, <3>2, <4>2, <4>3
    <3>4. Verdict(b, id) = [found |-> TRUE, rule |-> b[i]]
      BY <2>1, <3>2, <3>3, VerdictCases
    <3>5. Verdict(r, id) = [found |-> TRUE, rule |-> r[i]]
      BY <1>8, <3>1, VerdictCases
    <3>6. Verdict(b, id) = Verdict(r, id)
      BY <1>3, <3>2, <3>4, <3>5
    <3>7. Verdict(r, id).found
      <4>1. [found |-> TRUE, rule |-> r[i]].found
        OBVIOUS
      <4>2. QED  BY <3>5, <4>1
    <3>8. QED  BY <1>1, <2>2, <3>6, <3>7 DEF Overrule
  <2>4. CASE Hits(r, id) = {} /\ Hits(n, id) # {}
    <3>1. PICK i \in Hits(n, id) : \A j \in Hits(n, id) : i <= j
      BY <1>3, <2>4, FirstPosition
    <3>2. L + i \in Hits(b, id) /\ i \in 1..Len(n)
      BY <1>3, <1>4, <1>5
    <3>3. \A j \in Hits(b, id) : L + i <= j
      <4>1. SUFFICES ASSUME NEW j \in Hits(b, id) PROVE L + i <= j
        OBVIOUS
      <4>2. j - L \in Hits(n, id) /\ j \in Nat
        BY <1>3, <1>5, <2>4
      <4>3. i <= j - L
        BY <3>1, <4>2
      <4>4. QED  BY <3>2, <4>2, <4>3
    <3>4. Verdict(b, id) = [found |-> TRUE, rule |-> b[L + i]]
      BY <2>1, <3>2, <3>3, VerdictCases
    <3>5. Verdict(n, id) = [found |-> TRUE, rule |-> n[i]]
      BY <1>8, <3>1, VerdictCases
    <3>6. Verdict(b, id) = Verdict(n, id)
      BY <1>3, <3>2, <3>4, <3>5
    <3>7. Verdict(r, id) = [found |-> FALSE, rule |-> NoPlan]
      BY <2>4, VerdictCases
    <3>8. ~ Verdict(r, id).found
      BY <3>7
    <3>9. QED  BY <1>1, <2>2, <3>6, <3>8 DEF Overrule
  <2>5. CASE Hits(r, id) = {} /\ Hits(n, id) = {}
    <3>1. Hits(b, id) = {}
      BY <1>3, <2>5
    <3>2. /\ Verdict(b, id) = [found |-> FALSE, rule |-> NoPlan]
          /\ Verdict(r, id) = [found |-> FALSE, rule |-> NoPlan]
          /\ Verdict(n, id) = [found |-> FALSE, rule |-> NoPlan]
      BY <2>5, <3>1, VerdictCases
    <3>3. ~ Verdict(r, id).found
      BY <3>2
    <3>4. QED  BY <1>1, <2>2, <3>2, <3>3 DEF Overrule
  <2>6. QED  BY <2>3, <2>4, <2>5
<1>9. QED  BY <1>6, <1>7, <1>8

(* What a step adds to the rules is a sequence put at their end.           *)
LEMMA StepAppends ==
    ASSUME LoadInv, LoadNext
    PROVE  \E n \in Seq(FileRules) : rules' = rules \o n
<1>1. rules \in Seq(FileRules) /\ rules' \in Seq(FileRules)
  BY LoadStepInv DEF LoadInv, LoadTypeOK
<1>2. CASE ReadMain
  <2>1. rules = <<>>
    BY <1>2 DEF ReadMain, LoadInv, HistoryKept
  <2>2. \A s \in Seq(FileRules) : <<>> \o s = s
    OBVIOUS
  <2>3. rules' = rules \o rules'
    BY <1>1, <2>1, <2>2
  <2>4. QED  BY <1>1, <2>3
<1>3. CASE ReadDropIn
  <2>1. PICK n : n = NextFile(files)
    OBVIOUS
  <2>2. CASE Readable(etc[n])
    <3>1. n \in ToSet(DropIns)
      BY <1>3, <2>1, NextFileIsFirst DEF ReadDropIn, LoadInv, LoadTypeOK
    <3>2. etc[n] \in Texts
      BY <2>2, <3>1, NamesApart DEF LoadInv, LoadTypeOK, Contents, Readable, IsText
    <3>3. RulesOf(etc[n]) \in Seq(FileRules)
      BY <2>2, <3>2, RulesOfType
    <3>4. rules' = rules \o RulesOf(etc[n])
      BY <1>3, <2>1, <2>2 DEF ReadDropIn
    <3>5. QED  BY <3>3, <3>4
  <2>3. CASE ~ Readable(etc[n])
    <3>1. rules' = rules
      BY <1>3, <2>1, <2>3 DEF ReadDropIn
    <3>2. rules \o <<>> = rules /\ <<>> \in Seq(FileRules)
      BY <1>1
    <3>3. QED  BY <3>1, <3>2
  <2>4. QED  BY <2>2, <2>3
<1>4. CASE ~ ReadMain /\ ~ ReadDropIn
  <2>1. rules' = rules
    BY <1>4 DEF LoadNext, Loading, OpenDir, ListEntry, EndOfDir, EndLoad, Edit
  <2>2. rules \o <<>> = rules /\ <<>> \in Seq(FileRules)
    BY <1>1
  <2>3. QED  BY <2>1, <2>2
<1>5. QED  BY <1>2, <1>3, <1>4

LEMMA Remainder ==
    ASSUME NEW A, NEW r \in Seq(A), NEW n \in Seq(A), NEW b, b = r \o n
    PROVE  SubSeq(b, Len(r) + 1, Len(b)) = n
<1>1. PICK L \in Nat : L = Len(r)
  OBVIOUS
<1>2. /\ b \in Seq(A) /\ Len(b) = L + Len(n) /\ Len(n) \in Nat
      /\ \A i \in 1..Len(n) : b[L + i] = n[i]
  BY <1>1
<1>3. PICK s : s = SubSeq(b, L + 1, Len(b))
  OBVIOUS
<1>4. s \in Seq(A) /\ Len(s) = Len(n)
  BY <1>2, <1>3
<1>5. \A i \in 1..Len(n) : s[i] = b[L + i]
  BY <1>2, <1>3, SMTT(20)
<1>6. s \in [1..Len(n) -> A] /\ n \in [1..Len(n) -> A]
  BY <1>4
<1>7. s = n
  <2>1. \A i \in 1..Len(n) : s[i] = n[i]
    BY <1>2, <1>5
  <2>2. QED  BY <1>6, <2>1
<1>8. QED  BY <1>1, <1>3, <1>7

(* DropInsDecideRightly: in every load, whatever a file adds to the rules, *)
(* it changes the rule of a process only where it names the process and no *)
(* file before it does, or where none before it matches at all.            *)
THEOREM DropInsDecideRightly == Spec => DropInDecides
<1>1. Inv /\ [Next]_vars =>
          [rules' # rules =>
             \A id \in Identities :
                 LET new == SubSeq(rules', Len(rules) + 1, Len(rules'))
                 IN  Verdict(rules', id) =
                         Overrule(Verdict(rules, id), Verdict(new, id))]_rules
  <2> SUFFICES ASSUME Inv, Next, rules' # rules, NEW id \in Identities
               PROVE  Verdict(rules', id) =
                          Overrule(Verdict(rules, id),
                                   Verdict(SubSeq(rules', Len(rules) + 1, Len(rules')), id))
    BY DEF vars, loadVars
  <2>1. LoadInv /\ LoadNext
    BY DEF Next, Inv, loadVars
  <2>2. PICK n \in Seq(FileRules) : rules' = rules \o n
    BY <2>1, StepAppends
  <2>3. rules \in Seq(FileRules)
    BY <2>1 DEF LoadInv, LoadTypeOK
  <2>4. SubSeq(rules', Len(rules) + 1, Len(rules')) = n
    BY <2>2, <2>3, Remainder
  <2>5. Verdict(rules', id) = Overrule(Verdict(rules, id), Verdict(n, id))
    BY <2>2, <2>3, VerdictOfBoth
  <2>6. QED  BY <2>4, <2>5
<1>2. QED  BY <1>1, LoadStaysWhole, PTL DEF Spec, DropInDecides

-----------------------------------------------------------------------------
(* Destinations.                                                           *)

(* The characters an expansion may be made of.                             *)
Characters(raw, id) == ToSet(raw) \cup UNION {ToSet(id[v]) : v \in Vars}

LEMMA ExpandTextType ==
    ASSUME NEW raw, raw \in Seq(ToSet(raw)), NEW id,
           \A v \in Vars : id[v] \in Seq(ToSet(id[v]))
    PROVE  ExpandText(raw, id) \in Seq(Characters(raw, id))
<1> DEFINE A == Characters(raw, id)
           s == [i \in DOMAIN raw |-> Piece(raw, i, id)]
<1>1. /\ Len(raw) \in Nat /\ DOMAIN raw = 1..Len(raw)
      /\ \A i \in 1..Len(raw) : raw[i] \in A
  BY DEF ToSet, Characters
<1>2. ASSUME NEW v \in Vars PROVE id[v] \in Seq(A)
  <2>1. ToSet(id[v]) \subseteq A
    BY DEF Characters
  <2> HIDE DEF A
  <2>2. \A i \in 1..Len(id[v]) : id[v][i] \in A
    BY <2>1 DEF ToSet
  <2>3. id[v] \in [1..Len(id[v]) -> A] /\ Len(id[v]) \in Nat
    BY <2>2
  <2>4. QED  BY <2>3
<1>3. ASSUME NEW i \in 1..Len(raw) PROVE Piece(raw, i, id) \in Seq(A)
  <2>1. Placeholder(raw, i) => i < Len(raw) /\ raw[i + 1] \in Vars
    BY DEF Placeholder, Follows
  <2>2. Placeholder(raw, i) => id[raw[i + 1]] \in Seq(A)
    BY <1>2, <2>1
  <2> HIDE DEF A
  <2>3. Placeholder(raw, i) => SubSeq(raw, i, i + 1) \in Seq(A)
    <3>1. SUFFICES ASSUME i + 1 \in 1..Len(raw) PROVE SubSeq(raw, i, i + 1) \in Seq(A)
      BY <1>1, <2>1
    <3>2. raw \in Seq(A)
      BY <1>1
    <3>3. QED  BY <3>1, <3>2
  <2>4. <<>> \in Seq(A) /\ <<raw[i]>> \in Seq(A)
    BY <1>1
  <2>5. QED  BY <2>2, <2>3, <2>4 DEF Piece
<1> HIDE DEF A
<1>4. s \in [1..Len(raw) -> Seq(A)]
  BY <1>1, <1>3
<1> HIDE DEF s
<1>5. s \in Seq(Seq(A))
  BY <1>1, <1>4
<1>6. FlattenSeq(s) \in Seq(A)
  BY <1>5, FlattenType
<1>7. QED  BY <1>6 DEF ExpandText, s, A

(* A text without a percent sign expands to itself.                        *)
LEMMA PlainExpands ==
    ASSUME NEW A, NEW d \in Seq(A), NEW id, "%" \notin ToSet(d)
    PROVE  ExpandText(d, id) = d
<1>1. Len(d) \in Nat /\ DOMAIN d = 1..Len(d)
  OBVIOUS
<1>2. \A i \in 1..Len(d) : d[i] # "%"
  BY <1>1 DEF ToSet
<1>3. ASSUME NEW i \in 1..Len(d) PROVE Piece(d, i, id) = <<d[i]>>
  <2>1. ~ Escape(d, i)
    <3>1. i < Len(d) => i + 1 \in 1..Len(d)
      BY <1>1
    <3>2. QED  BY <1>2, <3>1 DEF Escape, Follows
  <2>2. ~ Placeholder(d, i)
    BY <1>2 DEF Placeholder
  <2>3. ~ (i > 1 /\ Placeholder(d, i - 1))
    <3>1. i > 1 => i - 1 \in 1..Len(d)
      BY <1>1
    <3>2. QED  BY <1>2, <3>1 DEF Placeholder
  <2>4. QED  BY <2>1, <2>2, <2>3 DEF Piece
<1>4. [i \in DOMAIN d |-> Piece(d, i, id)] = [i \in DOMAIN d |-> <<d[i]>>]
  BY <1>1, <1>3
<1>5. QED  BY <1>4, FlattenSingles DEF ExpandText

LEMMA MinMaxOf ==
    ASSUME NEW S, S \subseteq Nat, NEW lo \in S, NEW hi \in S,
           \A i \in S : lo <= i /\ i <= hi
    PROVE  Min(S) = lo /\ Max(S) = hi
<1>1. Min(S) \in S /\ \A i \in S : Min(S) <= i
  BY DEF Min
<1>2. Max(S) \in S /\ \A i \in S : Max(S) >= i
  BY DEF Max
<1>3. Min(S) <= lo /\ lo <= Min(S) /\ Max(S) <= hi /\ hi <= Max(S)
  BY <1>1, <1>2
<1>4. Min(S) \in Nat /\ Max(S) \in Nat /\ lo \in Nat /\ hi \in Nat
  BY <1>1, <1>2
<1>5. QED  BY <1>3, <1>4

(* A text without a slash at either end is left alone.                     *)
LEMMA NothingToTrim ==
    ASSUME NEW A, NEW s \in Seq(A), s # <<>>, Head(s) # "/", Last(s) # "/"
    PROVE  TrimSlashes(s) = s
<1> DEFINE kept == {i \in DOMAIN s : s[i] # "/"}
<1>1. /\ Len(s) \in Nat /\ Len(s) >= 1 /\ DOMAIN s = 1..Len(s)
      /\ Head(s) = s[1] /\ Last(s) = s[Len(s)]
  BY DEF Last
<1>2. kept \subseteq Nat /\ 1 \in kept /\ Len(s) \in kept
  BY <1>1
<1>3. \A i \in kept : 1 <= i /\ i <= Len(s)
  BY <1>1
<1> HIDE DEF kept
<1>4. Min(kept) = 1 /\ Max(kept) = Len(s)
  BY <1>2, <1>3, MinMaxOf
<1>5. SubSeq(s, 1, Len(s)) = s
  OBVIOUS
<1>6. QED  BY <1>2, <1>4, <1>5 DEF TrimSlashes, kept

LEMMA EmptyTrims == TrimSlashes(<<>>) = <<>>
<1>1. \A s \in Seq({}) : DOMAIN s = {} /\ s = <<>>
  OBVIOUS
<1>2. <<>> \in Seq({})
  OBVIOUS
<1>3. DOMAIN <<>> = {}
  BY <1>1, <1>2
<1>4. {i \in DOMAIN <<>> : <<>>[i] # "/"} = {}
  BY <1>3
<1>5. QED  BY <1>4 DEF TrimSlashes

LEMMA TrimSlashesType ==
    ASSUME NEW A, NEW s \in Seq(A)
    PROVE  TrimSlashes(s) \in Seq(A)
<1> DEFINE kept == {i \in DOMAIN s : s[i] # "/"}
<1>1. CASE kept = {}
  BY <1>1 DEF TrimSlashes
<1>2. CASE kept # {}
  <2>1. kept \subseteq 1..Len(s) /\ kept \subseteq Nat /\ Len(s) \in Nat
    OBVIOUS
  <2> HIDE DEF kept
  <2>2. PICK lo \in kept : \A i \in kept : lo <= i
    BY <1>2, <2>1, FirstPosition
  <2>3. Min(kept) \in kept
    BY <2>2 DEF Min
  <2>4. \E hi \in kept : \A i \in kept : hi >= i
    <3> DEFINE T == {Len(s) - i : i \in kept}
    <3>1. T \subseteq Nat /\ T # {}
      BY <1>2, <2>1
    <3>2. \A i \in kept : Len(s) - i \in T
      OBVIOUS
    <3>3. \A q \in T : \E i \in kept : q = Len(s) - i
      OBVIOUS
    <3> HIDE DEF T
    <3>4. PICK q \in T : \A k \in T : q <= k
      BY <3>1, FirstPosition
    <3>5. PICK hi \in kept : q = Len(s) - hi
      BY <3>3
    <3>6. \A i \in kept : hi >= i
      BY <2>1, <3>2, <3>4, <3>5
    <3>7. QED  BY <3>6
  <2>5. Max(kept) \in kept
    BY <2>4 DEF Max
  <2>6. PICK lo_, hi_ : lo_ = Min(kept) /\ hi_ = Max(kept)
    OBVIOUS
  <2>7. lo_ \in 1..Len(s) /\ hi_ \in 1..Len(s)
    BY <2>1, <2>3, <2>5, <2>6
  <2>8. SubSeq(s, lo_, hi_) \in Seq(A)
    BY <2>1, <2>7
  <2>9. TrimSlashes(s) = SubSeq(s, lo_, hi_)
    BY <1>2, <2>6 DEF TrimSlashes, kept
  <2>10. QED  BY <2>8, <2>9
<1>3. QED  BY <1>1, <1>2

(* The path of the plan is the destination, but for a group's second       *)
(* expansion of a percent sign.                                            *)
LEMMA PlanPathIsDestination ==
    ASSUME NEW raw \in Raws, NEW u \in Users, NEW n \in Names,
           NEW gs, NEW ts, NEW d, d = Destination(raw, Placeholders[u, n]),
           SafePath(d),
           ParsesAsPath(PlanPath(raw, Placeholders[u, n], gs, ts)),
           "%" \notin ToSet(d)
    PROVE  PlanPath(raw, Placeholders[u, n], gs, ts) = d
<1>1. PICK id : id = Placeholders[u, n]
  OBVIOUS
<1>2. PICK e : e = ExpandText(raw, id)
  OBVIOUS
<1>3. e \in Seq(Characters(raw, id))
  <2>1. raw \in Seq(ToSet(raw)) /\ \A v \in Vars : id[v] \in Seq(ToSet(id[v]))
    BY <1>1, ExpansionAssumption
  <2>2. QED  BY <1>2, <2>1, ExpandTextType
<1>4. d = TrimSlashes(e)
  BY <1>1, <1>2 DEF Destination
<1>5. d \in Seq(Characters(raw, id))
  BY <1>3, <1>4, TrimSlashesType
<1>6. CASE d \in gs
  <2>1. PlanPath(raw, id, gs, ts) = ExpandText(d, id)
    BY <1>1, <1>6 DEF PlanPath
  <2>2. ExpandText(d, id) = d
    BY <1>5, PlainExpands
  <2>3. QED  BY <1>1, <2>1, <2>2
<1>7. CASE d \notin gs /\ raw \in ts
  <2>1. PlanPath(raw, id, gs, ts) = e
    BY <1>1, <1>2, <1>7 DEF PlanPath
  <2>2. e # <<>>
    <3>1. TrimSlashes(<<>>) = <<>>
      BY EmptyTrims
    <3>2. QED  BY <1>4, <3>1 DEF SafePath
  <2>3. ParsesAsPath(e)
    BY <1>1, <2>1
  <2>4. Head(e) # "/" /\ Last(e) # "/"
    BY <2>2, <2>3 DEF ParsesAsPath
  <2>5. TrimSlashes(e) = e
    BY <1>3, <2>2, <2>4, NothingToTrim
  <2>6. QED  BY <1>1, <1>4, <2>1, <2>5
<1>8. CASE d \notin gs /\ ~ (raw \in ts)
  BY <1>8 DEF PlanPath
<1>9. QED  BY <1>6, <1>7, <1>8

LEMMA FirstRuleIsOneOfThem ==
    ASSUME NEW A, NEW c, c.rules \in Seq(A), NEW id, HasRule(c, id)
    PROVE  FirstRule(c, id) \in A
<1> DEFINE hits == Candidates(c.rules, id)
           first == CHOOSE i \in hits : \A j \in hits : i <= j
<1>1. hits \subseteq DOMAIN c.rules /\ DOMAIN c.rules = 1..Len(c.rules) /\ hits # {}
  BY DEF Candidates, HasRule
<1>2. FirstRule(c, id) = c.rules[first]
  BY DEF FirstRule
<1>3. hits \subseteq Nat
  BY <1>1
<1> HIDE DEF hits
<1>4. \E i \in hits : \A j \in hits : i <= j
  BY <1>1, <1>3, FirstPosition
<1>5. first \in hits
  BY <1>4
<1> HIDE DEF first
<1>6. QED  BY <1>1, <1>2, <1>5

(* AppliedAlwaysWhereCompared: after any load, the cgroup a process is     *)
(* moved to is the one its present cgroup was compared with, whatever the  *)
(* rules, the groups and the templates are, but for a destination with a   *)
(* percent sign left in it.                                                *)
THEOREM AppliedAlwaysWhereCompared == Spec => []AppliedWhereCompared
<1>1. Inv => AppliedWhereCompared
  <2> SUFFICES ASSUME Inv, load = "ready", NEW k \in Configs, NEW id \in Identities,
                      HasRule([k EXCEPT !.rules = rules], id),
                      Dest([k EXCEPT !.rules = rules], id) # Unsafe,
                      ParsesAsPath(PlanPath(FirstRule([k EXCEPT !.rules = rules], id).dest,
                                            Placeholders[id.user, id.comm],
                                            DOMAIN k.groups, DOMAIN k.templates)),
                      "%" \notin ToSet(Dest([k EXCEPT !.rules = rules], id))
               PROVE  PlanPath(FirstRule([k EXCEPT !.rules = rules], id).dest,
                               Placeholders[id.user, id.comm],
                               DOMAIN k.groups, DOMAIN k.templates)
                          = Dest([k EXCEPT !.rules = rules], id)
    <3>1. \A k \in Configs : LET c == [k EXCEPT !.rules = rules]
                             IN  c.groups = k.groups /\ c.templates = k.templates
      BY PolicyAssumption DEF IsConfig
    <3>2. QED  BY <3>1 DEF AppliedWhereCompared
  <2>1. PICK c : c = [k EXCEPT !.rules = rules]
    OBVIOUS
  <2>2. rules \in Seq(FileRules)
    BY DEF Inv, LoadInv, LoadTypeOK, LoadRests
  <2>3. c.rules = rules
    <3>1. "rules" \in DOMAIN k
      BY PolicyAssumption DEF IsConfig
    <3>2. QED  BY <2>1, <3>1
  <2>4. PICK raw : raw = FirstRule(c, id).dest
    OBVIOUS
  <2>5. FirstRule(c, id) \in FileRules
    BY <2>1, <2>2, <2>3, FirstRuleIsOneOfThem
  <2>6. raw \in Raws /\ id.user \in Users /\ id.comm \in Names
    BY <2>4, <2>5, FileRulesLeadToRaws DEF Identities
  <2>7. PICK d : d = Destination(raw, Placeholders[id.user, id.comm])
    OBVIOUS
  <2>8. Expand[raw, id.user, id.comm] = IF SafePath(d) THEN d ELSE Unsafe
    BY <2>6, <2>7, ExpansionAssumption
  <2>9. Dest(c, id) = Expand[raw, id.user, id.comm]
    BY <2>4 DEF Dest
  <2>10. SafePath(d) /\ Dest(c, id) = d
    BY <2>1, <2>8, <2>9
  <2>11. PlanPath(raw, Placeholders[id.user, id.comm], DOMAIN k.groups, DOMAIN k.templates) = d
    BY <2>1, <2>4, <2>6, <2>7, <2>10, PlanPathIsDestination
  <2>12. QED  BY <2>1, <2>4, <2>10, <2>11
<1>2. QED  BY <1>1, LoadStaysWhole, PTL
=============================================================================
