------------------------------- MODULE Release -------------------------------
(***************************************************************************)
(* scripts/release_check.py ties a release to the bitstream that was       *)
(* tested on the board.  CI builds a dist for a commit, and builds it      *)
(* again when it is re-run; the maintainer downloads one, tests it, edits  *)
(* the tag message made from it and tags a commit; the release workflow    *)
(* fetches CI's newest dist of the tagged commit, verifies it against the  *)
(* message and publishes it with the notes.  The maintainer follows        *)
(* docs/RELEASING.md.                                                      *)
(*                                                                         *)
(* A message is a sequence of lines; a value is a number, 0 what is not    *)
(* filled in.  FIELDS is cut to one field of each kind: the commit, the    *)
(* hash, the seed, a stage's version and a board result.                   *)
(***************************************************************************)
EXTENDS Naturals, SequencesExt

CONSTANTS
  Builds,     \* what CI may build: [commit, pack, seed, rest, stage2, dirty, damaged]
  Commits,
  MaxRuns,    \* CI runs
  MaxEdits,   \* edits of the message besides filling it in
  Values      \* what an edit may write into a field

VARIABLES
  artifact, runs,               \* CI: per commit its newest dist (a set of at most one)
  candidate, tested,            \* the dist downloaded; the dists that passed on the board
  message, origin, edits,       \* the tag message, the dist its template was made from
  tag, published                \* the pushed tags: [commit, message]; the releases: [build, page]

ci == <<artifact, runs>>
board == <<candidate, tested>>
text == <<message, origin, edits>>
vars == <<ci, board, text, tag, published>>

FIELDS == <<"commit", "pack.fs sha256", "pnr seed", "second stage version", "test-hw">>
Line(kind, key, val) == [kind |-> kind, key |-> key, val |-> val]
Blank == Line("blank", "", 1)
Signature == Line("signature", "", 1)

-----------------------------------------------------------------------------
(* release_check.py.                                                       *)

\* load_dist: the facts of a dist whose files have the sums listed
Facts(b) == [f \in {"commit", "pack.fs sha256", "pnr seed", "second stage version"} |->
               CASE f = "commit" -> b.commit [] f = "pack.fs sha256" -> b.pack
                 [] f = "pnr seed" -> b.seed [] f = "second stage version" -> b.stage2]

template(b) ==
  <<Line("version", "", 1), Blank>>
    \o [i \in 1..Len(FIELDS) |-> Line("field", FIELDS[i], IF FIELDS[i] = "test-hw" THEN 0 ELSE Facts(b)[FIELDS[i]])]
    \o <<Blank, Line("text", "", 0)>>

\* The first position from i on with (without) a blank line, one past the end if there is none
NextBlank(m, i) == Min({j \in i..Len(m) : m[j] = Blank} \cup {Len(m) + 1})
NextText(m, i) == Min({j \in i..Len(m) : m[j] /= Blank} \cup {Len(m) + 1})

\* As it would be: the signature is part of the notes
UnsignedAll(m) == m

\* The lines before the signature of a signed tag
Unsigned(m) == SubSeq(m, 1, Min({j \in 1..Len(m) : m[j] = Signature} \cup {Len(m) + 1}) - 1)

\* The version's paragraph, the fields' paragraph, and the rest
split(m0) ==
  LET m == Unsigned(m0)
      a == NextText(m, 1)   b == NextBlank(m, a)
      c == NextText(m, b)   d == NextBlank(m, c)
  IN [version |-> SubSeq(m, a, b - 1), fields |-> SubSeq(m, c, d - 1), notes |-> SubSeq(m, d, Len(m))]

\* The fields of the second paragraph; of two with one key the first
parse(m) == LET lines == SelectSeq(split(m).fields, LAMBDA l : l.kind = "field") IN
            [k \in {lines[i].key : i \in DOMAIN lines} |->
               lines[Min({i \in DOMAIN lines : lines[i].key = k})].val]

\* As it would be: any hash will do
FieldOKAnyPack(key, val, b, commit) ==
  /\ val /= 0
  /\ key = "commit" => val = commit
  /\ key = "second stage version" => val = b.stage2

\* One turn of the loop over FIELDS; the seed has only to be there
FieldOK(key, val, b, commit) ==
  /\ val /= 0
  /\ key = "commit" => val = commit
  /\ key = "second stage version" => val = Facts(b)[key]
  /\ key = "pack.fs sha256" => val = Facts(b)[key]

verify(b, m, commit) ==
  /\ ~b.damaged /\ ~b.dirty /\ b.commit = commit
  /\ Len(split(m).version) = 1 /\ split(m).version[1].kind = "version"
  /\ LET fields == parse(m) IN
     \A i \in DOMAIN FIELDS : FIELDS[i] \in DOMAIN fields /\ FieldOK(FIELDS[i], fields[FIELDS[i]], b, commit)
  /\ \E i \in DOMAIN split(m).notes : split(m).notes[i] /= Blank
  /\ \A i \in DOMAIN m : m[i].val /= 0

\* The page of the release: the fields in a code block, the notes after it
notes(m) == [block |-> split(m).fields, body |-> split(m).notes]

-----------------------------------------------------------------------------
(* CI, the maintainer, who leaves the message alone while a tag is pushed, *)
(* and the release workflow.                                               *)

RunCI(b) ==
  /\ published = {} /\ runs < MaxRuns
  /\ runs' = runs + 1
  /\ artifact' = [artifact EXCEPT ![b.commit] = {b}]
  /\ UNCHANGED <<board, text, tag, published>>

Download(c) ==
  /\ tag = {} /\ artifact[c] /= {} /\ candidate' = artifact[c]
  /\ UNCHANGED <<ci, tested, text, tag, published>>

TestOnBoard ==
  /\ tag = {} /\ candidate /= {} /\ tested' = tested \cup candidate
  /\ UNCHANGED <<ci, candidate, text, tag, published>>

Template(b) ==
  /\ tag = {} /\ b \in candidate /\ ~b.damaged
  /\ message' = template(b) /\ origin' = {b} /\ edits' = 0
  /\ UNCHANGED <<ci, board, tag, published>>

\* The results are those of the dist the message was made from
FillIn(i) ==
  /\ tag = {} /\ message[i].val = 0
  /\ message[i].kind = "field" => origin \subseteq tested
  /\ message' = [message EXCEPT ![i].val = 1]
  /\ UNCHANGED <<ci, board, origin, edits, tag, published>>

Edit(m) ==
  /\ tag = {} /\ edits < MaxEdits /\ edits' = edits + 1
  /\ message' = m
  /\ UNCHANGED <<ci, board, origin, tag, published>>

Delete(i) == Edit(RemoveAt(message, i))
InsertBlank(i) == Edit(InsertAt(message, i, Blank))
ChangeValue(i, v) == message[i].kind = "field" /\ v /= message[i].val /\ Edit([message EXCEPT ![i].val = v])
QuoteInNotes(i) == message[i].kind = "field" /\ Edit(message \o <<Blank, message[i]>>)

\* git tag -a, or -s, of a commit; the maintainer may have left out the verify
Tag(c, signed) ==
  /\ tag = {} /\ message /= <<>>
  /\ tag' = {[commit |-> c, message |-> IF signed THEN message \o <<Signature, Line("text", "", 1)>> ELSE message]}
  /\ UNCHANGED <<ci, board, text, published>>

\* release.yml: CI's newest dist of the tagged commit, verified
Publish ==
  /\ published = {}
  /\ \E t \in tag : \E b \in artifact[t.commit] :
       verify(b, t.message, t.commit) /\ published' = {[build |-> b, page |-> notes(t.message)]}
  /\ UNCHANGED <<ci, board, text, tag>>

\* The tag is withdrawn and the maintainer begins again
Withdraw == tag /= {} /\ published = {} /\ tag' = {} /\ UNCHANGED <<ci, board, text, published>>

Init ==
  /\ artifact = [c \in Commits |-> {}] /\ runs = 0
  /\ candidate = {} /\ tested = {}
  /\ message = <<>> /\ origin = {} /\ edits = 0
  /\ tag = {} /\ published = {}

Next ==
  \/ (\E b \in Builds : RunCI(b)) \/ (\E c \in Commits : Download(c)) \/ TestOnBoard
  \/ \E b \in Builds : Template(b)
  \/ \E i \in DOMAIN message : FillIn(i) \/ Delete(i) \/ InsertBlank(i) \/ QuoteInNotes(i) \/ \E v \in Values : ChangeValue(i, v)
  \/ \E c \in Commits, signed \in BOOLEAN : Tag(c, signed)
  \/ Publish \/ Withdraw

Spec == Init /\ [][Next]_vars

-----------------------------------------------------------------------------
(* Properties.                                                             *)

\* Types; the tag is of a commit, the template of a whole dist
TypeOK ==
  /\ candidate \subseteq Builds /\ tested \subseteq Builds /\ runs \in 0..MaxRuns /\ edits \in 0..MaxEdits
  /\ \A t \in tag : t.commit \in Commits

\* The bitstream of a release is one that was on the board, whatever CI built again in between and
\* whichever message was used, as long as its hash is the template's (no edits)
PublishedPackTested == edits = 0 => \A r \in published : r.build.pack \in {b.pack : b \in tested}

\* The fields of FIELDS that verify compares with the dist
Compared == {"commit", "pack.fs sha256", "second stage version"}

\* The line of a block that verify takes for field k: the first
LineOf(block, k) == block[Min({i \in DOMAIN block : block[i].kind = "field" /\ block[i].key = k})]
Has(block, k) == \E i \in DOMAIN block : block[i].kind = "field" /\ block[i].key = k

\* However the message was edited, the page of a release has every field in its block: the commit, the hash
\* and the version are those of the dist beside it, the seed and the results are filled in with anything; it
\* has notes, and nothing of the tag's signature
PageIsTrue ==
  \A r \in published :
    /\ \A k \in Range(FIELDS) :
         /\ Has(r.page.block, k) /\ LineOf(r.page.block, k).val /= 0
         /\ k \in Compared => LineOf(r.page.block, k).val = Facts(r.build)[k]
    /\ \E i \in DOMAIN r.page.body : r.page.body[i].kind \in {"text", "field"}
    /\ Signature \notin Range(r.page.body)

\* The page of a release states every fact of its dist: not so for the seed, which verify does not compare
PageStatesTheFacts ==
  \A r \in published : \A k \in DOMAIN Facts(r.build) : LineOf(r.page.block, k).val = Facts(r.build)[k]

\* A template that was only filled in passes verify for the dist it was made from
FilledTemplatePasses ==
  edits = 0 /\ message /= <<>> /\ (\A i \in DOMAIN message : message[i].val /= 0) =>
    \A b \in origin : b.dirty \/ verify(b, message, b.commit)

\* The tree of a release is one that was tested on the board
PublishedTreeTested == \A r \in published : r.build \in tested
=============================================================================
