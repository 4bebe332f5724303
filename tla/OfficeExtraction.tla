-------------------------- MODULE OfficeExtraction --------------------------
(***************************************************************************)
(* DoclingSlimDocumentExtractor: the archive of an Office document is      *)
(* checked before a parser sees it, the parser runs on a private alias of  *)
(* the file, and what it returns is mapped item by item to containers.     *)
(*                                                                         *)
(* The parser (Docling) is external: it fails, or it returns the pages and *)
(* the items it likes. An item has a kind, text or none, a picture of some *)
(* size or none, and a place: a page number and a box, or nothing.         *)
(***************************************************************************)
EXTENDS ExtractedContent

CONSTANTS
  Members,          \* what an archive may hold: [name, size, safe]
  MaxEntries,       \* max_entries (20,000)
  MaxExpanded,      \* max_expanded_bytes (256 MiB)
  PageSets,         \* what document.pages may be: page numbers to heights
  Items,            \* what iterate_items may yield
  MaxItems,         \* bound: items in a document
  MaxContainers,    \* limits.containers (5,000)
  MaxImage,         \* limits.image_bytes (8 MiB)
  MaxImages         \* limits.total_image_bytes (32 MiB)

ASSUME OfficeAssumption ==
  /\ Members \subseteq [name : STRING, size : Nat, safe : BOOLEAN]
  /\ MaxEntries \in Nat /\ MaxExpanded \in Nat /\ MaxItems \in Nat
  /\ MaxContainers \in Nat \ {0} /\ MaxImage \in Nat /\ MaxImages \in Nat
  /\ \A pages \in PageSets : /\ IsFiniteSet(DOMAIN pages) /\ DOMAIN pages \subseteq Nat \ {0}
                            /\ pages \in [DOMAIN pages -> Int]
  /\ \A item \in Items :
       /\ item.text \in BOOLEAN /\ item.image \in Nat
       /\ item.place \in Seq([page : Int, box : [x0 : Int, y0 : Int, x1 : Int, y1 : Int], fromBottom : BOOLEAN])

VARIABLES
  expanded,  \* the expanded size of the archive that was let through
  alias,     \* the alias directory: "none", "empty" or "linked"
  backend,   \* the parser: "none", "open" or "unloaded"
  raising,   \* an exception is on its way through the finally blocks
  drafts,    \* containers by number: height, blocks and regions
  outline,   \* the containers of the headings
  images,    \* total_image_bytes
  mapped     \* items so far

officeVars == <<expanded, alias, backend, raising, drafts, outline, images, mapped>>
parserVars == <<expanded, alias, backend, raising>>
mapperVars == <<drafts, outline, images, mapped>>

NoDrafts == [n \in {} |-> 0]

OfficeInit ==
  /\ expanded = 0 /\ alias = "none" /\ backend = "none" /\ raising = FALSE
  /\ drafts = NoDrafts /\ outline = <<>> /\ images = 0 /\ mapped = 0

-----------------------------------------------------------------------------
(* OfficeArchivePreflight.validate; required is the member that goes with    *)
(* the media type.                                                           *)
Sizes(archive) == [i \in DOMAIN archive |-> archive[i].size]
Permitted(archive) ==
  /\ Len(archive) <= MaxEntries
  /\ \A i, j \in DOMAIN archive : archive[i].name = archive[j].name => i = j
  /\ \E i \in DOMAIN archive : archive[i].name = "required"
  /\ \A i \in DOMAIN archive : archive[i].safe
  /\ SumFunction(Sizes(archive)) <= MaxExpanded

Preflight ==
  /\ phase = "start" /\ media \in Structured
  /\ IF media = "archive"
     THEN \/ \E archive \in BoundedSeq(Members, MaxEntries + 1) :
               IF Permitted(archive)
               THEN expanded' = SumFunction(Sizes(archive)) /\ phase' = "alias" /\ UNCHANGED content
               ELSE Fail /\ UNCHANGED expanded
          \/ Fail /\ UNCHANGED expanded            \* not an archive at all
     ELSE phase' = "alias" /\ UNCHANGED <<expanded, content>>
  /\ UNCHANGED <<media, alias, backend, raising, mapperVars>>

(* DocumentPathAlias.__init__: a directory, and a link in it. *)
MakeDirectory ==
  /\ phase = "alias" /\ alias = "none"
  /\ \/ alias' = "empty" /\ UNCHANGED <<phase, content>>
     \/ Fail /\ UNCHANGED alias
  /\ UNCHANGED <<media, expanded, backend, raising, mapperVars>>

LinkAlias ==
  /\ phase = "alias" /\ alias = "empty"
  /\ \/ alias' = "linked" /\ phase' = "open" /\ UNCHANGED content
     \/ alias' = "none" /\ Fail
  /\ UNCHANGED <<media, expanded, backend, raising, mapperVars>>

(* The parser's constructor may raise: there is nothing to unload then.      *)
OpenBackend ==
  /\ phase = "open"
  /\ \/ backend' = "open" /\ phase' = "convert" /\ UNCHANGED raising
     \/ raising' = TRUE /\ phase' = "unalias" /\ UNCHANGED backend
  /\ UNCHANGED <<media, content, expanded, alias, mapperVars>>

(* Mutant: an invalid document is refused before the try block. *)
ConvertOutsideTry ==
  /\ phase = "convert"
  /\ \/ raising' = TRUE /\ phase' = "unalias"
     \/ phase' = "unload" /\ UNCHANGED raising
  /\ UNCHANGED <<media, content, expanded, alias, backend, mapperVars>>

(* is_valid and convert, either of which may refuse the document. *)
Convert ==
  /\ phase = "convert"
  /\ raising' \in BOOLEAN
  /\ phase' = "unload"
  /\ UNCHANGED <<media, content, expanded, alias, backend, mapperVars>>

(* finally: backend.unload(), which may raise as well. *)
Unload ==
  /\ phase = "unload"
  /\ backend' = "unloaded"
  /\ raising' \in {raising, TRUE}
  /\ phase' = "unalias"
  /\ UNCHANGED <<media, content, expanded, alias, mapperVars>>

CloseAlias ==
  /\ phase = "unalias"
  /\ alias' = "none"
  /\ IF raising THEN Fail ELSE phase' = "pages" /\ UNCHANGED content
  /\ UNCHANGED <<media, expanded, backend, raising, mapperVars>>

-----------------------------------------------------------------------------
(* DoclingDocumentMapper. *)
Draft(height) == [height |-> height, blocks |-> <<>>, regions |-> <<>>]
DraftOf(n)    == IF n \in DOMAIN drafts THEN drafts[n] ELSE Draft(Unit)
With(n, draft) == [k \in DOMAIN drafts \cup {n} |-> IF k = n THEN draft ELSE drafts[k]]

MapPages ==
  /\ phase = "pages"
  /\ \E pages \in PageSets :
       IF Cardinality(DOMAIN pages) > MaxContainers
       THEN Fail /\ UNCHANGED drafts
       ELSE /\ drafts' = IF pages = NoDrafts THEN [n \in {0} |-> Draft(Unit)]
                         ELSE [n \in {p - 1 : p \in DOMAIN pages} |-> Draft(Max({Unit, pages[n + 1]}))]
            /\ phase' = "items" /\ UNCHANGED content
  /\ UNCHANGED <<media, parserVars, outline, images, mapped>>

(* _location: from the top of the page, and at least a sliver (1) wide and   *)
(* high. A page that is not there is as high as the box says.                *)
Larger(a, b)  == IF a >= b THEN a ELSE b
Smaller(a, b) == IF a <= b THEN a ELSE b
Container(item) == IF item.place = <<>> THEN 0 ELSE Larger(0, item.place[1].page - 1)
Span(a, b) == LET low == Larger(0, Smaller(a, b)) IN <<low, Larger(low + 1, Larger(a, b))>>

(* Mutant: the box is taken as it is, a line as wide as it is thin.          *)
PlaceAsIs(item) ==
  LET box    == item.place[1].box
      height == IF Container(item) \in DOMAIN drafts THEN drafts[Container(item)].height
                ELSE Max({Unit, box.y0, box.y1})
      top(y) == IF item.place[1].fromBottom THEN height - y ELSE y
  IN  Rect(Larger(0, Smaller(box.x0, box.x1)), Larger(0, Smaller(top(box.y0), top(box.y1))),
           Larger(0, Larger(box.x0, box.x1)), Larger(0, Larger(top(box.y0), top(box.y1))))

Place(item) ==
  LET box    == item.place[1].box
      height == IF Container(item) \in DOMAIN drafts THEN drafts[Container(item)].height
                ELSE Max({Unit, box.y0, box.y1})
      top(y) == IF item.place[1].fromBottom THEN height - y ELSE y
      xs     == Span(box.x0, box.x1)
      ys     == Span(top(box.y0), top(box.y1))
  IN  Rect(xs[1], ys[1], xs[2], ys[2])

(* _picture_png: no picture, one too large, or one beyond the total. *)
Asset(item) == IF item.image <= MaxImage /\ item.image <= MaxImages - images THEN item.image ELSE 0

(* _region: the next number of its type in its container. *)
RegionId(n, type, regions) ==
  <<n + 1, type, Cardinality({i \in DOMAIN regions : regions[i].id[2] = type}) + 1>>

(* One iteration of the loop over the items. *)
MapItem ==
  /\ phase = "items" /\ mapped < MaxItems
  /\ mapped' = mapped + 1
  /\ \E item \in Items :
       LET n      == Container(item)
           draft  == DraftOf(n)
           y      == Len(draft.blocks)
           bounds == IF item.place = <<>> THEN Line(y) ELSE Place(item)
           grown  == IF item.place = <<>> THEN [draft EXCEPT !.height = Larger(@, (y + 1) * Unit)] ELSE draft
           region == [id |-> RegionId(n, item.kind, draft.regions), bounds |-> bounds,
                      asset |-> IF item.kind = "picture" THEN Asset(item) ELSE 0, own |-> y + 1]
           kept   == item.kind = "picture" \/ item.text
       IN  IF n >= MaxContainers THEN Fail /\ UNCHANGED <<drafts, outline, images>>
           ELSE /\ drafts' = With(n, IF ~kept THEN grown
                                     ELSE [grown EXCEPT
                                             !.blocks  = Append(@, bounds),
                                             !.regions = IF item.kind \in {"table", "picture"} THEN Append(@, region) ELSE @])
                /\ outline' = IF item.kind = "heading" /\ kept THEN Append(outline, n) ELSE outline
                /\ images' = images + region.asset
                /\ UNCHANGED <<phase, content>>
  /\ UNCHANGED <<media, parserVars>>

(* Mutant: a container between two others is left out. *)
FinishWithGaps ==
  /\ phase = "items"
  /\ LET numbers == Ascending(DOMAIN drafts)
     IN  Finish([containers |-> [i \in DOMAIN numbers |->
                                   [blocks |-> drafts[numbers[i]].blocks, regions |-> drafts[numbers[i]].regions]],
                 outline    |-> outline])
  /\ UNCHANGED <<media, officeVars>>

(* Every container up to the last one, empty where there was no draft. *)
FinishMapping ==
  /\ phase = "items"
  /\ Finish([containers |-> [i \in 1..(Max(DOMAIN drafts) + 1) |->
                               [blocks |-> DraftOf(i - 1).blocks, regions |-> DraftOf(i - 1).regions]],
             outline    |-> outline])
  /\ UNCHANGED <<media, officeVars>>

OfficeNext ==
  \/ Preflight \/ MakeDirectory \/ LinkAlias \/ OpenBackend \/ Convert \/ Unload \/ CloseAlias
  \/ MapPages \/ MapItem \/ FinishMapping

-----------------------------------------------------------------------------
(* Whatever fails, the parser is unloaded and its alias gone before anything *)
(* is made of its answer; a parser that was opened saw no archive larger     *)
(* than allowed; and the pictures kept of it stay within their limits,       *)
(* however many there are.                                                   *)
Assets(n) == [r \in DOMAIN drafts[n].regions |-> drafts[n].regions[r].asset]
ParserLeavesNothing ==
  /\ phase \in {"pages", "items", "done", "failed", "rejected"} => alias = "none" /\ backend # "open"
  /\ backend # "none" => expanded <= MaxExpanded
  /\ \A n \in DOMAIN drafts : \A r \in DOMAIN Assets(n) : Assets(n)[r] <= MaxImage
  /\ MapThenSumSet(LAMBDA n : SumFunction(Assets(n)), DOMAIN drafts) <= MaxImages
=============================================================================
