--------------------------- MODULE MCConfigTools ---------------------------
(***************************************************************************)
(* A small instance of ConfigTools: three drop-ins, one of them hidden,    *)
(* two users and three process names; a tree of four cgroups, two of them  *)
(* with awkward names, and twelve configuration files.                     *)
(***************************************************************************)
EXTENDS ConfigTools

CONSTANTS alice, bob, students, cp, sh, odd, any, noProcess, ditto

(* cgrules.conf.                                                           *)

MCMemberOf == (alice :> {students}) @@ (bob :> {})

UserDir  == <<"/", "s", "/", "%", "u">>
AppDir   == <<"a", "/", "%", "p", "/">>
WebDir   == <<"w">>
Escaped  == <<"s", "/", "\\", "%", "u">>
Slipped  == <<"s", "\\">>

Unescaped == <<"s", "/", "%", "u">>
MCRaws == {UserDir, AppDir, WebDir, Unescaped}

CommText == (cp :> <<"c">>) @@ (sh :> <<".", ".">>) @@ (odd :> <<"%", "u">>)

MCPlaceholders ==
    [x \in {alice, bob} \X {cp, sh, odd} |->
        [v \in Vars |->
            CASE v = "u" -> IF x[1] = alice THEN <<"a">> ELSE <<"b">>
              [] v = "p" -> CommText[x[2]]
              [] OTHER   -> <<"0">>]]

MCExpand ==
    [x \in MCRaws \X {alice, bob} \X {cp, sh, odd} |->
        LET d == Destination(x[1], MCPlaceholders[x[2], x[3]])
        IN  IF SafePath(d) THEN d ELSE Unsafe]

MCPaths == {MCExpand[x] : x \in DOMAIN MCExpand} \ {Unsafe}

N == [task |-> "keep", controllers |-> FALSE]
MCConfigs ==
    {[rules |-> <<>>,
      groups |-> [d \in {<<"s", "/", "b">>, <<"a", "/", "%", "u">>} |-> N],
      templates |-> [t \in {UserDir, AppDir, Unescaped} |-> N]]}

L(s, p, d, o) == [kind |-> "rule", subject |-> s, process |-> p, dest |-> d,
                  options |-> o]
Skip == [kind |-> "skip"]

General   == <<Skip, L(students, noProcess, UserDir, {}),
               L(ditto, {cp}, WebDir, {})>>
ForAll    == <<L(any, any, AppDir, {})>>
Literal   == <<L(alice, {sh, odd}, Escaped, {}), Skip,
               L(ditto, noProcess, WebDir, {"ignore"}), L(bob, {odd}, AppDir, {})>>
Dangling  == <<Skip, L(ditto, noProcess, WebDir, {})>>
BadDest   == <<L(bob, noProcess, Slipped, {})>>
BadLine   == <<L(bob, {cp}, WebDir, {}), [kind |-> "bad"]>>
MCTexts   == {General, ForAll, Literal, Dangling, BadDest, BadLine}

MCDropIns == <<"10", "20">>
Files(m, a, b, h) ==
    ("main" :> m) @@ ("10" :> a) @@ ("20" :> b) @@ (".x" :> h)
MCStarts ==
    {Files(m, a, b, h) : m \in {General, ForAll, Gone},
                         a \in {ForAll, Literal, BadDest, Gone, Folder},
                         b \in {General, Dangling, BadLine, Gone},
                         h \in {Literal}}
    \cup {Files(m, Gone, Gone, Gone) : m \in {General, BadDest, Literal}}

-----------------------------------------------------------------------------
(* cgconfig.conf and the tree.                                             *)

a == <<"a">>
ab == <<"a", "b">>
st == <<"s t">>
q == <<"q\"">>
MCTree == {a, ab, st, q}

MCNameOf == (a :> "a") @@ (ab :> "a/b") @@ (st :> "s t") @@ (q :> "q\"")
MCPathOf == ("a" :> a) @@ ("a/b" :> ab) @@ ("s t" :> st) @@ ("q\"" :> q)
            @@ ("" :> <<"">>) @@ ("." :> <<".">>) @@ ("a/" :> <<"a", "">>)

MCSpecial == {"s t", "c#u", "max 100", ""}
MCUnwritable == {"q\"", "say \"hi\""}
MCOctal == ("750" :> 750) @@ ("0750" :> 750) @@ ("755" :> 755) @@ ("711" :> 711)
           @@ ("644" :> 644) @@ ("751" :> 751) @@ ("655" :> 655)
           @@ ("4711" :> 4711) @@ ("10755" :> 10755)
MCDigits == (750 :> "750") @@ (755 :> "755") @@ (711 :> "711") @@ (644 :> "644")
            @@ (751 :> "751") @@ (655 :> "655") @@ (4711 :> "4711")
            @@ (10755 :> "10755")
MCLegal == DOMAIN MCDigits \ {10755}
MCLow == [m \in MCLegal |-> IF m = 4711 THEN 711 ELSE m]
MCAncestorMode == [m \in MCLegal |-> CASE m = 750 -> 751 [] m = 644 -> 655
                                       [] OTHER -> m]

MCLoginOf == (0 :> "root") @@ (1 :> "al")
MCNumeral == (0 :> "0") @@ (1 :> "1") @@ (2 :> "2")

MCControlFiles == <<"cpu.max", "memory.current", "memory.max", "memory.swap.max">>
MCCtlOf == [f \in ToSet(MCControlFiles) |->
               IF f = "cpu.max" THEN "cpu" ELSE "memory"]
K(cpu, current, limit, swap) ==
    ("cpu.max" :> cpu) @@ ("memory.current" :> current)
    @@ ("memory.max" :> limit) @@ ("memory.swap.max" :> swap)
C(o, t, m, f, c, k, b) ==
    [owner |-> o, task |-> t, mode |-> m, fmode |-> f, ctl |-> c, knobs |-> k,
     busy |-> b]

MCFresh == C(0, 0, 755, 644, {}, K(NoVal, "4", "max", NoVal), FALSE)
RootDir == C(0, 0, 755, 644, {"cpu", "memory"},
             K(NoVal, NoVal, NoVal, NoVal), TRUE)
Team    == C(1, 0, 750, 644, {"cpu", "memory"},
             K("max 100", "4", "max", "table"), FALSE)
Orphan  == C(2, 1, 4711, 750, {}, K("max 100", "4", "512", "max"), TRUE)
Deep    == [Orphan EXCEPT !.ctl = {"cpu"}]
Quoting == C(1, 1, 755, 644, {}, K(NoVal, NoVal, "say \"hi\"", NoVal), FALSE)

T(x, y, z, w) == (Root :> RootDir) @@ (a :> x) @@ (ab :> y) @@ (st :> z) @@ (q :> w)
MCTrees == {T(Team, Deep, MCFresh, Absent), T(Orphan, Absent, Team, Absent),
            T(Absent, Absent, Absent, Absent), T(Absent, Absent, Orphan, Team),
            T(Quoting, Absent, Absent, Absent)}
MCBases == {Root, a}
MCOthers == {MCFresh, Orphan}

P(uid, mode) == <<Row(Bare("uid"), Bare(uid)), Row(Bare("dperm"), Bare(mode))>>
Perm(task, admin) ==
    Block(Bare("perm"), <<[who |-> "task", rows |-> task],
                          [who |-> "admin", rows |-> admin]>>, <<>>)
Ctl(c, rows) == Block(Bare(c), <<>>, rows)
G(name, blocks) == Section("group", Write(name), <<>>, blocks)

(* Children before their parents, a second perm block, a default.          *)
Upward ==
    <<G("a/b", <<Perm(<<>>, P("1", "0750")), Ctl("cpu", <<>>)>>),
      Section("default", Bare(NoVal), <<>>, <<Perm(P("al", "755"), <<>>)>>),
      G("a", <<Perm(P("al", "750"), P("root", "4711")), Ctl("cpu", <<>>),
               Perm(<<>>, <<Row(Bare("uid"), Bare("al"))>>)>>),
      G("s t", <<>>)>>
(* Parameters out of order, quoted and unquoted words, other sections.     *)
Mixed ==
    <<Section("mount", Bare(NoVal), <<Row(Bare("cpu"), Quoted("s t"))>>, <<>>),
      G("s t", <<Ctl("cpu", <<Row(Bare("cpu.max"), Quoted("max 100"))>>),
                 Ctl("memory", <<Row(Bare("memory.max"), Bare("max"))>>),
                 Ctl("cpu", <<Row(Bare("c#u"), Quoted(""))>>),
                 Perm(<<>>, <<>>)>>),
      G(".", <<Ctl("memory", <<>>)>>),
      Section("template", Bare("a"), <<>>, <<Ctl("cpu", <<>>)>>),
      Section("default", Bare(NoVal), <<>>, <<>>)>>
Hash     == <<G("a", <<Ctl("c#u", <<>>)>>)>>
BadMode  == <<G("a", <<Perm(<<>>, P("al", "max"))>>)>>
Wide     == <<G("a", <<Perm(<<>>, P("al", "10755"))>>), G("s t", <<>>)>>
Upper    == <<G("a", <<Ctl("Cpu", <<>>)>>)>>
Domains  == <<G("a", <<Perm(<<>>, P("al", "750")), Ctl("memory", <<>>)>>)>>
Owner    == <<G("a", <<Perm(P("zoe", "755"), <<>>)>>), G("s t", <<>>)>>
Orphaned == <<G("a/b", <<Ctl("cpu", <<>>)>>)>>
Trailing == <<G("a/", <<>>)>>
PermCtl  == <<G("a", <<Block(Bare("perm"), <<>>,
                             <<Row(Bare("uid"), Bare("task")),
                               Row(Bare("task"), Bare("1"))>>)>>)>>
PermTask == <<G("a", <<Block(Bare("perm"), <<>>,
                              <<Row(Quoted("task"), Bare("1"))>>)>>)>>
MCScripts == {Upward, Mixed, Hash, BadMode, Wide, Upper, Domains, Owner, Orphaned,
              Trailing, PermCtl, PermTask}
=============================================================================
