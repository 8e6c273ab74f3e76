------------------------------ MODULE Licenses ------------------------------
(***************************************************************************)
(* scripts/make_dist.py, THIRD_PARTY_LICENSES.txt: which registry crates   *)
(* are linked into each shipped binary (a walk over cargo's dependency     *)
(* graph), and the license text of each.  A crate without a license file   *)
(* is shipped under Apache-2.0 when its license expression offers that,    *)
(* referring to the Apache text another crate brought; otherwise the       *)
(* script stops.                                                           *)
(*                                                                         *)
(* A license expression is a conjunction of groups of alternatives,        *)
(* written (A OR B) AND C; a license file is "apache", a name and text the *)
(* script recognises, or "other".                                          *)
(***************************************************************************)
EXTENDS Naturals, SequencesExt

CONSTANTS
  Packages,     \* what cargo metadata lists, in the order of their names
  Roots,        \* per binary of LINKED_CRATES: the crate that is linked
  Metadata      \* the metadata the run may get: [deps: kinds of each edge, macro: proc-macros,
                \*   registry: packages with a source, license: expressions, texts: license files]

VARIABLES meta, binary, todo, seen, linked, listed, pc, left, unshipped, apache, out
vars == <<meta, binary, todo, seen, linked, listed, pc, left, unshipped, apache, out>>
walk == <<todo, seen>>
texts == <<left, unshipped, apache, out>>

-----------------------------------------------------------------------------
(* linked_into(): the packages reachable through normal dependencies.      *)

\* any(k["kind"] is None)
Normal(p, q) == "normal" \in meta.deps[p][q]

proc_macro(p) == p \in meta.macro

Skipped(p) == p \in seen \/ proc_macro(p)

Pop ==
  /\ pc = "walk" /\ todo /= <<>>
  /\ LET p == Last(todo) rest == Front(todo) IN
     IF Skipped(p) THEN todo' = rest /\ UNCHANGED seen
     ELSE /\ seen' = seen \cup {p}
          /\ todo' = rest \o SetToSeq({q \in Packages : Normal(p, q)})
  /\ UNCHANGED <<meta, binary, linked, listed, pc, texts>>

\* pkgs[pid]["source"]
Registry(s) == s \cap meta.registry

\* The binary's list, its crates added to those whose texts are needed, and the next binary
Walked ==
  /\ pc = "walk" /\ todo = <<>>
  /\ LET crates == Registry(seen) IN
     /\ listed' = Append(listed, crates)
     /\ linked' = linked \cup crates
  /\ seen' = {}
  /\ IF binary < Len(Roots)
     THEN binary' = binary + 1 /\ todo' = <<Roots[binary + 1]>> /\ UNCHANGED <<pc, left>>
     ELSE pc' = "texts" /\ left' = SetToSortSeq(linked', <) /\ UNCHANGED <<binary, todo>>
  /\ UNCHANGED <<meta, unshipped, apache, out>>

-----------------------------------------------------------------------------
(* third_party_licenses(): the texts.                                      *)

\* The expression split at OR and /: an alternative stands alone in its piece unless an AND is beside it
Alone(e, g, i) == (g = 1 \/ i > 1) /\ (g = Len(e) \/ i < Len(e[g]))

offers_apache(e) == \E g \in DOMAIN e : \E i \in DOMAIN e[g] : e[g][i] = "Apache-2.0" /\ Alone(e, g, i)

\* The first crate that has the Apache License under a name that says so
FirstApache(p) == IF apache = 0 /\ "apache" \in meta.texts[p] THEN p ELSE apache

Crate ==
  /\ pc = "texts" /\ left /= <<>>
  /\ LET p == Head(left) IN
     /\ left' = Tail(left)
     /\ IF meta.texts[p] /= {}
        THEN out' = out \cup {p} /\ apache' = FirstApache(p) /\ UNCHANGED <<unshipped, pc>>
        ELSE /\ IF offers_apache(meta.license[p])
                THEN unshipped' = unshipped \cup {p} /\ UNCHANGED pc
                ELSE pc' = "exit" /\ UNCHANGED unshipped
             /\ UNCHANGED <<out, apache>>
  /\ UNCHANGED <<meta, binary, walk, linked, listed>>

Dangling == unshipped /= {} /\ apache = 0

Write ==
  /\ pc = "texts" /\ left = <<>>
  /\ pc' = IF Dangling THEN "exit" ELSE "written"
  /\ UNCHANGED <<meta, binary, walk, linked, listed, texts>>

Init ==
  /\ meta \in Metadata
  /\ binary = 1 /\ todo = <<Roots[1]>> /\ seen = {} /\ linked = {} /\ listed = <<>>
  /\ pc = "walk" /\ left = <<>> /\ unshipped = {} /\ apache = 0 /\ out = {}

Next == Pop \/ Walked \/ Crate \/ Write

Spec == Init /\ [][Next]_vars

-----------------------------------------------------------------------------
(* Properties.                                                             *)

\* What a binary links: the least set with its root, closed under normal dependencies on libraries
Closed(s) == \A p \in s, q \in Packages \ meta.macro : "normal" \in meta.deps[p][q] => q \in s
Reached(r) == CHOOSE s \in SUBSET Packages :
                /\ r \in s /\ Closed(s)
                /\ \A t \in SUBSET Packages : r \in t /\ Closed(t) => s \subseteq t

\* A crate may be used under Apache-2.0 alone: every part of its license offers it
ApacheAlone(e) == \A g \in DOMAIN e : "Apache-2.0" \in Range(e[g])

\* Types; what is written was linked
TypeOK ==
  /\ binary \in 1..Len(Roots) /\ pc \in {"walk", "texts", "exit", "written"}
  /\ seen \subseteq Packages /\ linked \subseteq meta.registry /\ apache \in {0} \cup out
  /\ out \cup unshipped \subseteq linked /\ out \cap unshipped = {}

\* Each binary's list is what it links: every registry crate reached through normal dependencies on
\* any way, with nothing that runs at build time only (a proc-macro and what only it needs)
ListsTheLinked == \A b \in 1..Len(listed) : listed[b] = Reached(Roots[b]) \cap meta.registry

\* In a written file every crate a binary links has its text, or refers to the Apache text of a
\* crate whose text is there
EveryTextIsThere ==
  pc = "written" => \A b \in 1..Len(Roots) : \A p \in Reached(Roots[b]) \cap meta.registry :
    p \in out \/ (p \in unshipped /\ apache \in out /\ "apache" \in meta.texts[apache])

\* The script stops only over a crate that has no license file and no Apache text to refer to
ExitsForAReason ==
  pc = "exit" => \E p \in linked : meta.texts[p] = {} /\
    (~offers_apache(meta.license[p]) \/ \A q \in linked : "apache" \notin meta.texts[q])

\* A crate distributed under Apache-2.0 alone is offered under it alone
UnshippedUnderApache == \A p \in unshipped : ApacheAlone(meta.license[p])
=============================================================================
