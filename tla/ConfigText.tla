----------------------------- MODULE ConfigText -----------------------------
(***************************************************************************)
(* cgconfig.conf: what its parser (cgconfig.rs) makes of a text and the    *)
(* text Display (display.rs) writes for a parsed file.                     *)
(*                                                                         *)
(* A text is a sequence of sections [kw, name, rows, blocks]; a block of a *)
(* group, template or default is [head, owners, rows]: the task and admin  *)
(* blocks and the assignments between its braces.  Words are the tokens'   *)
(* contents; what matters of their characters is which set they are in.    *)
(* Pure: no variables.                                                     *)
(***************************************************************************)
EXTENDS Naturals, Sequences, SequencesExt

CONSTANTS
    Special,    \* words that are empty or hold white space, a brace, a
                \* semicolon, an equals sign or a hash
    Hashed,     \* the ones of these with no more than an inner hash, which
                \* the parser takes bare and Display does not write bare
    Unwritable, \* words that hold a double quote
    Octal,      \* octal numerals to the mode they stand for
    Digits,     \* modes to the numeral Display writes
    NoVal       \* None

Roles == {"task", "admin"}
Keywords == {"perm", "uid", "gid", "dperm", "fperm"} \cup Roles

(* A mode read can be written, and reads as itself; the keywords are plain *)
(* words.                                                                  *)
ASSUME ConfigTextAssumption ==
    /\ Hashed \subseteq Special
    /\ \A w \in DOMAIN Octal : Octal[w] \in DOMAIN Digits
    /\ \A m \in DOMAIN Digits : /\ Digits[m] \in DOMAIN Octal \ {NoVal}
                                /\ Octal[Digits[m]] = m
                                /\ Digits[m] \notin Special \cup Unwritable
    /\ Keywords \cap (Special \cup Unwritable) = {}
    /\ NoVal \notin Unwritable

Unreadable == [error |-> "parse"]
Unwritten  == <<[kw |-> "error"]>>

EmptySet  == [uid |-> NoVal, gid |-> NoVal, dperm |-> NoVal, fperm |-> NoVal]
EmptyPerm == [task |-> EmptySet, admin |-> EmptySet]

Row(k, v) == [key |-> k, value |-> v]
Block(head, owners, rows) == [head |-> head, owners |-> owners, rows |-> rows]
Section(kw, name, rows, blocks) ==
    [kw |-> kw, name |-> name, rows |-> rows, blocks |-> blocks]

(* The elements of s that pass, in order.  It stands for SelectSeq, whose   *)
(* recursion is local to its definition and closed to a proof.             *)
Those(s, Passes(_)) ==
    FlattenSeq([i \in DOMAIN s |-> IF Passes(s[i]) THEN <<s[i]>> ELSE <<>>])

-----------------------------------------------------------------------------
(* What a text is made of.                                                 *)

IsToken(t) == /\ t = [quoted |-> t.quoted, text |-> t.text]
              /\ t.quoted \in BOOLEAN

AreRows(rows) ==
    /\ rows \in Seq(ToSet(rows))
    /\ \A r \in ToSet(rows) : /\ r = Row(r.key, r.value)
                              /\ IsToken(r.key) /\ IsToken(r.value)

IsBlock(b) ==
    /\ b = Block(b.head, b.owners, b.rows)
    /\ IsToken(b.head) /\ AreRows(b.rows)
    /\ b.owners \in Seq(ToSet(b.owners))
    /\ \A o \in ToSet(b.owners) : /\ o = [who |-> o.who, rows |-> o.rows]
                                  /\ AreRows(o.rows)

IsSection(s) ==
    /\ s = Section(s.kw, s.name, s.rows, s.blocks)
    /\ IsToken(s.name) /\ AreRows(s.rows)
    /\ s.blocks \in Seq(ToSet(s.blocks))
    /\ \A b \in ToSet(s.blocks) : IsBlock(b)

AreSections(text) ==
    /\ text \in Seq(ToSet(text))
    /\ \A s \in ToSet(text) : IsSection(s)

-----------------------------------------------------------------------------
(* Tokens.                                                                 *)

Bare(w) == [quoted |-> FALSE, text |-> w]
Quoted(w) == [quoted |-> TRUE, text |-> w]

(* bare: any run without white space, {};=" -- a hash is let through.      *)
ReadsBare(t) ==
    ~ t.quoted /\ t.text \notin Unwritable /\ t.text \notin Special \ Hashed

(* tok: quoted, without a quote inside, or bare.                           *)
ReadsToken(t) == ReadsBare(t) \/ (t.quoted /\ t.text \notin Unwritable)

ReadsRows(rows) ==
    \A i \in DOMAIN rows : ReadsToken(rows[i].key) /\ ReadsToken(rows[i].value)

-----------------------------------------------------------------------------
(* Blocks.  perm_block is tried first and ctl_block when it gives up; a    *)
(* row that begins with a bare task or admin commits it to an owner block. *)

ReadsMode(row) ==
    row.key.text \in {"dperm", "fperm"} => row.value.text \in DOMAIN Octal

ReadsOwner(o) ==
    /\ o.who \in Roles
    /\ ReadsRows(o.rows)
    /\ \A i \in DOMAIN o.rows : ReadsMode(o.rows[i])

ReadsPerm(b) ==
    /\ b.head = Bare("perm")
    /\ b.rows = <<>>
    /\ \A i \in DOMAIN b.owners : ReadsOwner(b.owners[i])

StartsOwner(b) ==
    b.head.text = "perm" /\ b.rows # <<>> /\ b.rows[1].key \in {Bare(r) : r \in Roles}

ReadsControl(b) ==
    /\ ReadsBare(b.head)
    /\ b.owners = <<>>
    /\ ReadsRows(b.rows)
    /\ ~ StartsOwner(b)

ReadsBlock(b) == ReadsPerm(b) \/ ReadsControl(b)

ReadsSection(s) ==
    CASE s.kw = "mount" -> ReadsRows(s.rows)
      [] s.kw \in {"group", "template"} ->
             /\ ReadsToken(s.name)
             /\ \A i \in DOMAIN s.blocks : ReadsBlock(s.blocks[i])
      [] s.kw = "default" ->
             /\ Len(s.blocks) <= 1
             /\ \A i \in DOMAIN s.blocks : ReadsPerm(s.blocks[i])
      [] OTHER -> FALSE

-----------------------------------------------------------------------------
(* What is read.                                                           *)

(* The value a field has after every row of a sequence is taken in order.  *)
LastStated(rows, field) ==
    LET at == {i \in DOMAIN rows : rows[i].key.text = field}
    IN  IF at = {} THEN NoVal ELSE rows[Max(at)].value.text

ModeOf(word) == IF word = NoVal THEN NoVal ELSE Octal[word]

SetOf(rows) ==
    [uid   |-> LastStated(rows, "uid"),
     gid   |-> LastStated(rows, "gid"),
     dperm |-> ModeOf(LastStated(rows, "dperm")),
     fperm |-> ModeOf(LastStated(rows, "fperm"))]

RowsOf(blocks, who) ==
    FlattenSeq([i \in DOMAIN blocks |->
        FlattenSeq([j \in DOMAIN blocks[i].owners |->
            IF blocks[i].owners[j].who = who
            THEN blocks[i].owners[j].rows ELSE <<>>])])

(* Perm and PermSet::merge: a later block restates single fields.          *)
PermOf(blocks) ==
    LET perms == Those(blocks, ReadsPerm)
    IN  IF perms = <<>> THEN NoVal
        ELSE [task  |-> SetOf(RowsOf(perms, "task")),
              admin |-> SetOf(RowsOf(perms, "admin"))]

(* Each element at its first place only.                                   *)
Firsts(s) ==
    LET first(i) == \A j \in 1 .. i - 1 : s[j] # s[i]
    IN  FlattenSeq([i \in DOMAIN s |-> IF first(i) THEN <<s[i]>> ELSE <<>>])

ParamsOf(b) ==
    [i \in DOMAIN b.rows |-> <<b.head.text, b.rows[i].key.text,
                               b.rows[i].value.text>>]

NodeOf(s) ==
    LET ctl     == Those(s.blocks, LAMBDA b : ~ ReadsPerm(b))
        markers == Those(ctl, LAMBDA b : b.rows = <<>>)
    IN  [name        |-> s.name.text,
         perm        |-> PermOf(s.blocks),
         controllers |-> Firsts([i \in DOMAIN markers |-> markers[i].head.text]),
         params      |-> FlattenSeq([i \in DOMAIN ctl |-> ParamsOf(ctl[i])])]

SectionsOf(text, kw) == Those(text, LAMBDA s : s.kw = kw)

NodesOf(text, kw) ==
    LET ss == SectionsOf(text, kw)
    IN  [i \in DOMAIN ss |-> NodeOf(ss[i])]

(* The last default section counts, even one without a perm block.         *)
DefaultOf(text) ==
    LET ss == SectionsOf(text, "default")
    IN  IF ss = <<>> THEN NoVal ELSE PermOf(Last(ss).blocks)

MountsOf(text) ==
    LET ss == SectionsOf(text, "mount")
        rows == FlattenSeq([i \in DOMAIN ss |-> ss[i].rows])
    IN  [i \in DOMAIN rows |-> [controller |-> rows[i].key.text,
                                path |-> rows[i].value.text]]

(* ConfigFile::from_str.                                                   *)
Parse(text) ==
    IF \A i \in DOMAIN text : ReadsSection(text[i])
    THEN [mounts |-> MountsOf(text), default |-> DefaultOf(text),
          groups |-> NodesOf(text, "group"),
          templates |-> NodesOf(text, "template")]
    ELSE Unreadable

-----------------------------------------------------------------------------
(* Display.                                                                *)

Write(w) == IF w \in Special THEN Quoted(w) ELSE Bare(w)

Stated(rows) == Those(rows, LAMBDA r : r.value.text # NoVal)

SetRows(set) ==
    LET digits(m) == IF m = NoVal THEN NoVal ELSE Digits[m]
    IN  Stated(<<Row(Bare("uid"), Write(set.uid)),
                 Row(Bare("gid"), Write(set.gid)),
                 Row(Bare("dperm"), Bare(digits(set.dperm))),
                 Row(Bare("fperm"), Bare(digits(set.fperm)))>>)

PermBlock(perm) ==
    Block(Bare("perm"), <<[who |-> "task",  rows |-> SetRows(perm.task)],
                          [who |-> "admin", rows |-> SetRows(perm.admin)]>>,
          <<>>)

PermBlocks(perm) == IF perm = NoVal THEN <<>> ELSE <<PermBlock(perm)>>

ParamControllers(params) == Firsts([i \in DOMAIN params |-> params[i][1]])

Under(params, c) == Those(params, LAMBDA p : p[1] = c)

ParamRows(params) ==
    [i \in DOMAIN params |-> Row(Write(params[i][2]), Write(params[i][3]))]

(* Mutant: a controller with parameters gets no empty block of its own.    *)
NodeBlocksTogether(n) ==
    LET cs == ParamControllers(n.params)
    IN  PermBlocks(n.perm)
        \o [i \in DOMAIN cs |->
               Block(Bare(cs[i]), <<>>, ParamRows(Under(n.params, cs[i])))]

(* An empty block per controller, then one per controller of a parameter.  *)
NodeBlocks(n) ==
    LET cs == ParamControllers(n.params)
    IN  PermBlocks(n.perm)
        \o [i \in DOMAIN n.controllers |->
               Block(Bare(n.controllers[i]), <<>>, <<>>)]
        \o [i \in DOMAIN cs |->
               Block(Bare(cs[i]), <<>>, ParamRows(Under(n.params, cs[i])))]

NodeSections(kw, nodes) ==
    [i \in DOMAIN nodes |->
        Section(kw, Write(nodes[i].name), <<>>, NodeBlocks(nodes[i]))]

MountRows(mounts) ==
    [i \in DOMAIN mounts |->
        Row(Write(mounts[i].controller), Write(mounts[i].path))]

Sections(cfg) ==
    (IF cfg.mounts = <<>> THEN <<>>
     ELSE <<Section("mount", Bare(NoVal), MountRows(cfg.mounts), <<>>)>>)
    \o (IF cfg.default = NoVal THEN <<>>
        ELSE <<Section("default", Bare(NoVal), <<>>,
                       PermBlocks(cfg.default))>>)
    \o NodeSections("group", cfg.groups)
    \o NodeSections("template", cfg.templates)

WritableSet(set) == {set.uid, set.gid} \cap Unwritable = {}

WritablePerm(perm) ==
    perm # NoVal => WritableSet(perm.task) /\ WritableSet(perm.admin)

WritableNode(n) ==
    /\ n.name \notin Unwritable
    /\ WritablePerm(n.perm)
    /\ ToSet(n.controllers) \cap (Special \cup Unwritable) = {}
    /\ \A i \in DOMAIN n.params :
          /\ n.params[i][1] \notin Special \cup Unwritable
          /\ {n.params[i][2], n.params[i][3]} \cap Unwritable = {}

(* token refuses a word with a quote in it, bare_token a name of a         *)
(* controller block that is not a plain word.                              *)
Writable(cfg) ==
    /\ \A i \in DOMAIN cfg.mounts :
          {cfg.mounts[i].controller, cfg.mounts[i].path} \cap Unwritable = {}
    /\ WritablePerm(cfg.default)
    /\ \A i \in DOMAIN cfg.groups : WritableNode(cfg.groups[i])
    /\ \A i \in DOMAIN cfg.templates : WritableNode(cfg.templates[i])

Display(cfg) == IF Writable(cfg) THEN Sections(cfg) ELSE Unwritten
=============================================================================
