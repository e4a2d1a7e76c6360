----------------------------- MODULE RuleFiles -----------------------------
(***************************************************************************)
(* load_cgrules: cgrules.conf and the drop-ins of cgrules.d become one     *)
(* list of rules while an administrator edits them.  A call of the loader  *)
(* is a step: read a file, open the directory, take one of its entries.    *)
(* A file is replaced as a whole, as editors and package managers do it.   *)
(***************************************************************************)
EXTENDS Policy, Templates

CONSTANTS
    Main,       \* /etc/cgrules.conf
    DropIns,    \* the names of /etc/cgrules.d that do not start with a dot,
                \* in their sort order
    Hidden,     \* the names that do
    Gone,       \* in place of a text: no such name
    Folder,     \* in place of a text: a name that is not a regular file
    Ditto,      \* the % subject
    Texts,      \* the contents a file may have: sequences of lines
    Starts,     \* what may be there when the load begins
    Dirs,       \* what the directory may be when the load begins
    MaxEdits,   \* bound on the edits during one load
    Placeholders \* <<user, comm>> to the text of each placeholder

VARIABLES
    etc,        \* the content of every name
    dir,        \* "there", "missing", "file" (not a directory) or "none"
                \* (the caller names no directory)
    load,       \* where the loader is
    due,        \* the names readdir must still return
    returned,   \* the names it has returned
    files,      \* the eligible ones among them, not read yet
    rules,      \* the rules read so far
    held,       \* the contents every name has had since the load began
    edits       \* the edits made since

loadVars == <<etc, dir, load, due, returned, files, rules, held, edits>>

InDir == ToSet(DropIns) \cup Hidden

(* Line: a comment or blank line, a line rule_fields or the controller     *)
(* list test refuses, or a rule, its destination as written.               *)
IsText(content) == content \notin {Gone, Folder}

ASSUME RuleFilesAssumption ==
    /\ Main \notin InDir
    /\ ToSet(DropIns) \cap Hidden = {}
    /\ MaxEdits \in Nat
    /\ Ditto \notin Users \cup Groups \cup {Wildcard}
    /\ Dirs \subseteq {"there", "missing", "file", "none"}
    /\ DropIns \in Seq(ToSet(DropIns)) /\ IsInjective(DropIns)
    /\ \A content \in Texts :
           /\ content \in Seq(ToSet(content))
           /\ \A i \in DOMAIN content :
                 /\ content[i].kind \in {"skip", "bad", "rule"}
                 /\ content[i].kind = "rule" =>
                        DestToken(content[i].dest) \in Raws \cup {Refused}
    /\ Starts \subseteq [{Main} \cup InDir -> Texts \cup {Gone, Folder}]

(* What Policy takes as a constant is what Templates computes.             *)
ASSUME ExpansionAssumption ==
    /\ \A raw \in Raws : raw \in Seq(ToSet(raw))
    /\ \A u \in Users, n \in Names, v \in Vars :
           Placeholders[u, n][v] \in Seq(ToSet(Placeholders[u, n][v]))
    /\ \A raw \in Raws, u \in Users, n \in Names :
           LET d == Destination(raw, Placeholders[u, n])
           IN  Expand[raw, u, n] = IF SafePath(d) THEN d ELSE Unsafe

-----------------------------------------------------------------------------
(* Rules::from_source.                                                     *)

Lines(content) ==
    FlattenSeq([i \in DOMAIN content |->
                   IF content[i].kind = "skip" THEN <<>> ELSE <<content[i]>>])

Parses(content) ==
    LET ls == Lines(content)
    IN  /\ \A i \in DOMAIN ls : /\ ls[i].kind = "rule"
                                /\ DestToken(ls[i].dest) # Refused
        /\ ls # <<>> => ls[1].subject # Ditto

(* A ditto repeats the subject of the rule before it.                      *)
SubjectAt(ls, i) ==
    ls[Max({j \in 1 .. i : ls[j].subject # Ditto})].subject

RulesOf(content) ==
    LET ls == Lines(content)
    IN  [i \in DOMAIN ls |->
            [subject |-> SubjectAt(ls, i),
             process |-> ls[i].process,
             dest    |-> DestToken(ls[i].dest),
             options |-> ls[i].options]]

Readable(content) == IsText(content) /\ Parses(content)

-----------------------------------------------------------------------------
(* The loader.                                                             *)

LoadInit ==
    /\ dir \in Dirs
    /\ etc \in Starts
    /\ dir # "there" => \A n \in InDir : etc[n] = Gone
    /\ load = "main"
    /\ due = {} /\ returned = {} /\ files = {}
    /\ rules = <<>>
    /\ held = [n \in DOMAIN etc |-> {etc[n]}]
    /\ edits = 0

ReadMain ==
    /\ load = "main"
    /\ IF Readable(etc[Main])
       THEN /\ rules' = RulesOf(etc[Main])
            /\ load' = IF dir = "none" THEN "ready" ELSE "opendir"
       ELSE load' = "failed" /\ UNCHANGED rules
    /\ UNCHANGED <<etc, dir, due, returned, files, held, edits>>

(* Mutant: a missing directory is an error.                                *)
OpenDirStrict ==
    /\ load = "opendir"
    /\ load' = IF dir = "there" THEN "entries" ELSE "failed"
    /\ due' = {n \in InDir : etc[n] # Gone}
    /\ UNCHANGED <<etc, dir, returned, files, rules, held, edits>>

OpenDir ==
    /\ load = "opendir"
    /\ load' = CASE dir = "there"   -> "entries"
                 [] dir = "missing" -> "ready"
                 [] OTHER           -> "failed"
    /\ due' = {n \in InDir : etc[n] # Gone}
    /\ UNCHANGED <<etc, dir, returned, files, rules, held, edits>>

(* readdir returns a name, in any order, and drop_in_file looks at it.     *)
ListEntry(n) ==
    /\ load = "entries"
    /\ n \notin returned
    /\ etc[n] # Gone
    /\ due' = due \ {n}
    /\ returned' = returned \cup {n}
    /\ files' = IF n \notin Hidden /\ IsText(etc[n])
                THEN files \cup {n} ELSE files
    /\ UNCHANGED <<etc, dir, load, rules, held, edits>>

EndOfDir ==
    /\ load = "entries"
    /\ due = {}
    /\ load' = "read"
    /\ UNCHANGED <<etc, dir, due, returned, files, rules, held, edits>>

(* Mutant: the sort is the other way round.                                *)
NextFileDescending(fs) ==
    DropIns[Max({i \in DOMAIN DropIns : DropIns[i] \in fs})]

NextFile(fs) == DropIns[Min({i \in DOMAIN DropIns : DropIns[i] \in fs})]

ReadDropIn ==
    /\ load = "read"
    /\ files # {}
    /\ LET n == NextFile(files)
       IN  /\ files' = files \ {n}
           /\ IF Readable(etc[n])
              THEN rules' = rules \o RulesOf(etc[n]) /\ UNCHANGED load
              ELSE load' = "failed" /\ UNCHANGED rules
    /\ UNCHANGED <<etc, dir, due, returned, held, edits>>

EndLoad ==
    /\ load = "read"
    /\ files = {}
    /\ load' = "ready"
    /\ UNCHANGED <<etc, dir, due, returned, files, rules, held, edits>>

(* The administrator replaces, adds or removes a file.  A name removed     *)
(* from an open directory need not be returned any more, and one added to  *)
(* it need not be either.                                                  *)
Edit(n, content) ==
    /\ load \notin {"ready", "failed"}
    /\ edits < MaxEdits
    /\ content # etc[n]
    /\ n = Main \/ dir = "there"
    /\ etc' = [etc EXCEPT ![n] = content]
    /\ due' = IF content = Gone THEN due \ {n} ELSE due
    /\ held' = [held EXCEPT ![n] = @ \cup {content}]
    /\ edits' = edits + 1
    /\ UNCHANGED <<dir, load, returned, files, rules>>

Loading ==
    \/ ReadMain
    \/ OpenDir
    \/ \E n \in InDir : ListEntry(n)
    \/ EndOfDir
    \/ ReadDropIn
    \/ EndLoad

LoadNext ==
    \/ Loading
    \/ \E n \in {Main} \cup InDir, content \in Texts \cup {Gone, Folder} :
           Edit(n, content)
=============================================================================
