-------------------------- MODULE ExtractedContent --------------------------
(***************************************************************************)
(* What every extractor works towards: the content of a document, and what *)
(* DocumentContent and the artifact writer demand of it.                   *)
(*                                                                         *)
(* A container is a sequence of blocks and a sequence of regions. Of a     *)
(* block its bounds count; a region also has its id, whether it carries an *)
(* image, and the block it was made with (own, a history field). Geometry  *)
(* is in whole units: Unit is 1.0 of the code, the height of a line that   *)
(* has no place of its own.                                                *)
(***************************************************************************)
EXTENDS Integers, Sequences, FiniteSets, SequencesExt, FiniteSetsExt, Ordering

VARIABLES
  media,    \* the declared media type
  phase,    \* where the extraction is
  content   \* the content it returned, once phase is "done"

contentVars == <<media, phase, content>>

(* Media types by their extractor: "archive" stands for docx, pptx and xlsx,  *)
(* "markup" for HTML and Markdown, "plain" for all plain text but csv.       *)
Structured == {"archive", "markup"}
Plain      == {"plain", "csv"}
MediaTypes == {"pdf", "unsupported"} \cup Structured \cup Plain

Unit == 2

Rect(x0, y0, x1, y1) == [x0 |-> x0, y0 |-> y0, x1 |-> x1, y1 |-> y1]

(* Bounds: a rectangle is not negative and not inside out; intersects asks   *)
(* for a common area.                                                        *)
IsBounds(r) == r.x0 >= 0 /\ r.y0 >= 0 /\ r.x1 >= r.x0 /\ r.y1 >= r.y0
Intersects(a, b) == a.x0 < b.x1 /\ a.x1 > b.x0 /\ a.y0 < b.y1 /\ a.y1 > b.y0

Line(y) == Rect(0, y * Unit, Unit, (y + 1) * Unit)

NoContent == [containers |-> <<>>, outline |-> <<>>]

(* DocumentContent.__post_init__ and the schema of the artifact: an outline  *)
(* names containers that exist, rectangles are bounds, and a region id is    *)
(* the primary key of its table. Containers are a sequence here; that none   *)
(* is missing is up to whoever fills it.                                     *)
RegionIds(containers) ==
  [c \in DOMAIN containers |-> [r \in DOMAIN containers[c].regions |-> containers[c].regions[r].id]]
Accepted(value) ==
  /\ \A i \in DOMAIN value.outline : value.outline[i] < Len(value.containers)
  /\ IsInjective(FlattenSeq(RegionIds(value.containers)))
  /\ \A c \in DOMAIN value.containers :
       /\ \A b \in DOMAIN value.containers[c].blocks : IsBounds(value.containers[c].blocks[b])
       /\ \A r \in DOMAIN value.containers[c].regions : IsBounds(value.containers[c].regions[r].bounds)

(* _write_content: the text of a region runs from the first to the last      *)
(* block it overlaps; blocks are counted here, not bytes.                    *)
RegionText(container, region) ==
  LET overlapping == {b \in DOMAIN container.blocks : Intersects(container.blocks[b], region.bounds)}
  IN  IF overlapping = {} THEN {} ELSE Min(overlapping)..Max(overlapping)

Finish(result) ==
  \E value \in {result} :
    content' = value /\ phase' = IF Accepted(value) THEN "done" ELSE "rejected"
Fail          == phase' = "failed" /\ UNCHANGED content

Ended == phase \in {"done", "failed", "rejected"}

-----------------------------------------------------------------------------
(* An extractor never builds content that its own invariants refuse: the     *)
(* error would come at the end of the work and the document would be lost.   *)
BuiltContentIsAccepted == phase # "rejected"

(* A region is cited with the text it was made with (own is that block, 0    *)
(* where there is none): the artifact gives it an offset range that holds    *)
(* its own block, so that a window or a search hit with that text names it.  *)
RegionsComeWithTheirText ==
  phase = "done" =>
    \A c \in DOMAIN content.containers : LET container == content.containers[c] IN
      \A r \in DOMAIN container.regions :
        container.regions[r].own # 0 =>
          container.regions[r].own \in RegionText(container, container.regions[r])
=============================================================================
