----------------------------- MODULE Templates -----------------------------
(***************************************************************************)
(* Destinations as text: what cgrules.conf makes of an escape, what        *)
(* Template::expand makes of a placeholder, and which results              *)
(* is_safe_relative_path and CgroupPath::parse let through.  A text is a   *)
(* sequence of characters.  Pure: no variables.                            *)
(***************************************************************************)
EXTENDS Naturals, Sequences, SequencesExt

Vars == {"u", "U", "g", "G", "p", "P"}

Refused == <<"refused">>

Dots == {<<".">>, <<".", ".">>}

Follows(s, i, chars) == i < Len(s) /\ s[i + 1] \in chars

(* dest_token: a backslash stands before a percent sign only, and goes.    *)
DestToken(s) ==
    IF \E i \in DOMAIN s : s[i] = "\\" /\ ~ Follows(s, i, {"%"})
    THEN Refused
    ELSE SelectSeq(s, LAMBDA c : c # "\\")

-----------------------------------------------------------------------------
(* Template::expand.  `id` gives a text for each placeholder, the empty    *)
(* one when Identity::resolve has none.                                    *)

Escape(s, i) == s[i] = "\\" /\ Follows(s, i, {"%"})

Placeholder(s, i) ==
    /\ s[i] = "%" /\ Follows(s, i, Vars)
    /\ i = 1 \/ ~ Escape(s, i - 1)

Piece(s, i, id) ==
    CASE Escape(s, i)                       -> <<>>
      [] i > 1 /\ Placeholder(s, i - 1)     -> <<>>
      [] Placeholder(s, i)                  -> IF id[s[i + 1]] = <<>>
                                               THEN SubSeq(s, i, i + 1)
                                               ELSE id[s[i + 1]]
      [] OTHER                              -> <<s[i]>>

ExpandText(s, id) == FlattenSeq([i \in DOMAIN s |-> Piece(s, i, id)])

(* trim_matches('/').                                                      *)
TrimSlashes(s) ==
    LET kept == {i \in DOMAIN s : s[i] # "/"}
    IN  IF kept = {} THEN <<>> ELSE SubSeq(s, Min(kept), Max(kept))

-----------------------------------------------------------------------------
(* Paths.                                                                  *)

Cuts(s) == {0, Len(s) + 1} \cup {i \in DOMAIN s : s[i] = "/"}

(* What stands between two slashes.                                        *)
Segments(s) ==
    {SubSeq(s, i + 1, Min({j \in Cuts(s) : j > i}) - 1) :
        i \in Cuts(s) \ {Len(s) + 1}}

(* is_safe_relative_path: empty segments in the middle are let through.    *)
SafePath(s) ==
    /\ s # <<>> /\ Head(s) # "/" /\ Last(s) # "/"
    /\ Segments(s) \cap Dots = {}

(* CgroupPath::parse, as at_path applies it: the empty path is the root.   *)
ParsesAsPath(s) ==
    \/ s = <<>>
    \/ /\ Head(s) # "/" /\ Last(s) # "/"
       /\ Segments(s) \cap (Dots \cup {<<>>}) = {}

-----------------------------------------------------------------------------
(* Where a rule's destination leads.                                       *)

(* The expanded destination, compared with the cgroup a process is in.     *)
Destination(raw, id) == TrimSlashes(ExpandText(raw, id))

(* Mutant: a template's name is taken for its path.                        *)
PlanPathRaw(raw, id, groups, templates) ==
    LET dest == Destination(raw, id)
    IN  CASE dest \in groups                         -> ExpandText(dest, id)
          [] dest \notin groups /\ raw \in templates -> raw
          [] OTHER                                   -> dest

(* The path of leaf_spec's target: a group named by the destination or     *)
(* the template named by the raw one, each expanded, or the destination.   *)
PlanPath(raw, id, groups, templates) ==
    LET dest == Destination(raw, id)
    IN  CASE dest \in groups                         -> ExpandText(dest, id)
          [] dest \notin groups /\ raw \in templates -> ExpandText(raw, id)
          [] OTHER                                   -> dest
=============================================================================
