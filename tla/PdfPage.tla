------------------------------- MODULE PdfPage -------------------------------
(***************************************************************************)
(* One page of a PDF: the scanner routes it, by its text and its images,   *)
(* and finds its tables; a page for OCR is made an image that stays within *)
(* the limit of pixels, and what is recognised is put back on the page.    *)
(*                                                                         *)
(* MuPDF and Tesseract are external: MuPDF says what is on the page, and   *)
(* Tesseract answers with lines anywhere on the image. Coordinates are     *)
(* whole points, and may lie outside the page.                             *)
(***************************************************************************)
EXTENDS ExtractedContent

CONSTANTS
  PdfPages,         \* what MuPDF may find on a page, see PageTypes
  MaxPixels,        \* RasterizationPolicy.max_pixels (8,000,000)
  Dpi,              \* OCR_DPI (200)
  ManyBlocks,       \* MIN_TABLE_SCAN_BLOCKS (12)
  NativeInk,        \* min_native_characters (20)
  SparseInk,        \* sparse_native_characters (300)
  ColumnBin,        \* column_bin_points (8)
  ColumnLines,      \* min_column_occurrences (4)
  CellGap,          \* min_cell_gap_points (18)
  TableLines,       \* min_table_lines (4)
  RuleWidth,        \* MIN_HORIZONTAL_RULE_LENGTH (40)
  RuleHeight        \* MIN_VERTICAL_RULE_LENGTH (20)

(* A page has its size; text blocks (how many characters, none of them white *)
(* space, and how many are undecodable) and whether their lines hint at      *)
(* columns; images (pixels, and whether they can be taken out of the file);  *)
(* words with the line they are in; drawings, lines ("l") or rectangles.     *)
Rects == [x0 : Int, y0 : Int, x1 : Int, y1 : Int]
ASSUME PageAssumption ==
  /\ \A p \in PdfPages :
       /\ p.width \in Nat \ {0} /\ p.height \in Nat \ {0}
       /\ p.blocks \in Seq([box : Rects, ink : Nat, bad : Nat])
       /\ p.columns \in BOOLEAN
       /\ p.images \in Seq([box : Rects, width : Nat, height : Nat, embedded : BOOLEAN])
       /\ p.words \in Seq([line : Nat, box : Rects])
       /\ p.drawings \in Seq([kind : {"l", "re"}, box : Rects])
  /\ {MaxPixels, Dpi, ManyBlocks, ColumnBin, ColumnLines, CellGap, TableLines, RuleWidth, RuleHeight} \subseteq Nat \ {0}
  /\ NativeInk \in Nat /\ SparseInk \in Nat

VARIABLES
  page,    \* the page
  scale,   \* pixels per point, in thousandths
  raster   \* the image for OCR: its pixels, and the part of the page it shows

pageVars == <<page, scale, raster>>

NoPage   == [width |-> 1, height |-> 1, blocks |-> <<>>, columns |-> FALSE,
             images |-> <<>>, words |-> <<>>, drawings |-> <<>>]
NoRaster == [width |-> 0, height |-> 0, box |-> Rect(0, 0, 0, 0)]

PageIdle == page = NoPage /\ scale = 0 /\ raster = NoRaster
PageInit == media = "pdf" /\ page \in PdfPages /\ scale = 0 /\ raster = NoRaster

-----------------------------------------------------------------------------
Width(r)  == Max({0, r.x1 - r.x0})
Height(r) == Max({0, r.y1 - r.y0})
Area(r)   == Width(r) * Height(r)
Meet(a, b) == Rect(Max({a.x0, b.x0}), Max({a.y0, b.y0}), Min({a.x1, b.x1}), Min({a.y1, b.y1}))
Hull(boxes) == Rect(Min({b.x0 : b \in boxes}), Min({b.y0 : b \in boxes}),
                    Max({b.x1 : b \in boxes}), Max({b.y1 : b \in boxes}))

Sheet == Rect(0, 0, page.width, page.height)

(* Mutant: a rectangle is taken as it is. *)
Unclipped(r) == IF Area(Meet(r, Sheet)) = 0 THEN <<>> ELSE <<r>>

(* TableDetector.bounds: the part on the page, when there is one. *)
Clipped(r) == IF Area(Meet(r, Sheet)) = 0 THEN <<>> ELSE <<Meet(r, Sheet)>>

(* PdfPageScanner._native_blocks. *)
NativeBlocks ==
  FlattenSeq([b \in DOMAIN page.blocks |-> IF page.blocks[b].ink = 0 THEN <<>> ELSE Clipped(page.blocks[b].box)])
Native == {b \in DOMAIN page.blocks : page.blocks[b].ink > 0 /\ Clipped(page.blocks[b].box) # <<>>}

(* PageClassifier.classify; shares of the page are in thousandths. *)
Ink       == MapThenSumSet(LAMBDA b : page.blocks[b].ink, Native)
Unusable  == 50 * MapThenSumSet(LAMBDA b : page.blocks[b].bad, Native) > Max({1, Ink})
ImageArea == MapThenSumSet(LAMBDA i : Area(Meet(page.images[i].box, Sheet)), DOMAIN page.images)
Covered(thousandths) == 1000 * ImageArea > thousandths * Area(Sheet)
Route ==
  IF ~Unusable /\ Ink >= SparseInk THEN "native"
  ELSE IF Ink = 0 THEN IF Covered(50) THEN "ocr" ELSE "blank"
  ELSE IF \/ Unusable
          \/ 1000 * ImageArea >= 450 * Area(Sheet) /\ Ink < SparseInk
          \/ Ink < NativeInk /\ Covered(50)
       THEN "ocr" ELSE "native"

(* _aligned_bounds. Words start a cell after a gap; lines of two cells or    *)
(* more vote for columns; and lines that share two columns are the table.    *)
Bin(x) == LET r == 2 * (x % ColumnBin)     \* round(), half to even
          IN  x \div ColumnBin + IF r > ColumnBin \/ (r = ColumnBin /\ (x \div ColumnBin) % 2 = 1) THEN 1 ELSE 0
LineWords(l) == SortSeq(SelectSeq(page.words, LAMBDA w : w.line = l), LAMBDA v, w : v.box.x0 < w.box.x0)
Cells(l) == LET words == LineWords(l)
            IN  {words[i].box.x0 : i \in {j \in DOMAIN words :
                                            j = 1 \/ words[j].box.x0 - words[j - 1].box.x1 >= CellGap}}
Columns(l) == {Bin(x) : x \in Cells(l)}
AlignedTable ==
  LET candidates == {l \in {w.line : w \in ToSet(page.words)} : Cardinality(Cells(l)) >= 2}
      stable     == {c \in UNION {Columns(l) : l \in candidates} :
                       Cardinality({l \in candidates : c \in Columns(l)}) >= ColumnLines}
      aligned    == {l \in candidates : Cardinality(Columns(l) \cap stable) >= 2}
  IN  IF Cardinality(candidates) < TableLines \/ Cardinality(aligned) < TableLines THEN <<>>
      ELSE Clipped(Hull({w.box : w \in {v \in ToSet(page.words) : v.line \in aligned}}))

(* _ruled_bounds. A line is a rule across or down, or neither; a rectangle   *)
(* is two rules across, two down, or both, and part of the table anyway.     *)
Between(a, b) == Max({a - b, b - a})
Wide(d) == IF d.kind = "re" THEN Width(d.box) >= RuleWidth
           ELSE Between(d.box.y0, d.box.y1) <= 1 /\ Between(d.box.x0, d.box.x1) >= RuleWidth
Tall(d) == IF d.kind = "re" THEN Height(d.box) >= RuleHeight
           ELSE ~Wide(d) /\ Between(d.box.x0, d.box.x1) <= 1 /\ Between(d.box.y0, d.box.y1) >= RuleHeight
Ordered(r) == Rect(Min({r.x0, r.x1}), Min({r.y0, r.y1}), Max({r.x0, r.x1}), Max({r.y0, r.y1}))
RuledTable ==
  LET marks(Is(_)) == MapThenSumSet(LAMBDA i : IF page.drawings[i].kind = "re" THEN 2 ELSE 1,
                                    {i \in DOMAIN page.drawings : Is(page.drawings[i])})
  IN  IF marks(Wide) < 3 \/ marks(Tall) < 2 THEN <<>>
      ELSE Clipped(Hull({Ordered(d.box) : d \in {e \in ToSet(page.drawings) : e.kind = "re" \/ Wide(e) \/ Tall(e)}}))

(* Mutant: the larger of the two areas counts. *)
SameAsLarger(a, b) == 10 * Area(Meet(a, b)) >= 8 * Max({1, Area(a), Area(b)})

(* _mostly_same: they share four fifths of the smaller one. *)
MostlySame(a, b) == 10 * Area(Meet(a, b)) >= 8 * Max({1, Min({Area(a), Area(b)})})

(* detect: the ruled table goes before the aligned one. *)
FoundTables ==
  IF RuledTable # <<>> /\ AlignedTable # <<>> /\ MostlySame(RuledTable[1], AlignedTable[1])
  THEN RuledTable ELSE RuledTable \o AlignedTable

(* _may_contain_table: the gaps and the short lines of the text are columns. *)
MayContainTable == Cardinality(Native) >= ManyBlocks \/ page.columns

Region(type, index, bounds) == [id |-> <<1, type, index>>, bounds |-> bounds, asset |-> 0, own |-> 0]
NativeRegions ==
  LET image(i) == Clipped(page.images[i].box)
      shown    == {i \in DOMAIN page.images : image(i) # <<>> /\ 1000 * Area(image(i)[1]) >= 5 * Area(Sheet)}
  IN  [k \in 1..Cardinality(shown) |->
         LET i == Ascending(shown)[k] IN Region("image", i, image(i)[1])]
      \o IF MayContainTable THEN [t \in DOMAIN FoundTables |-> Region("table", t, FoundTables[t])] ELSE <<>>

Contents(blocks, regions) == [containers |-> <<[blocks |-> blocks, regions |-> regions]>>, outline |-> <<>>]

(* PdfPageScanner.scan; a blank page has nothing. *)
ScanPage ==
  /\ phase = "start" /\ media = "pdf"
  /\ CASE Route = "native" -> Finish(Contents(NativeBlocks, NativeRegions))
       [] Route = "blank"  -> Finish(Contents(<<>>, <<>>))
       [] OTHER            -> phase' = "rasterize" /\ UNCHANGED content
  /\ UNCHANGED <<media, pageVars>>

-----------------------------------------------------------------------------
(* RasterizationPolicy. The code computes in floating point, where the last  *)
(* digit may be rounded up: a quotient here always is.                       *)
Ceil(a, b) == (a + b - 1) \div b
Pixels(length) == Max({1, Ceil(length * scale, 1000)})
Permits(w, h)  == w > 0 /\ h > 0 /\ w * h <= MaxPixels
Root(pixels)   ==     \* sqrt(max / pixels), in thousandths
  CHOOSE k \in 1..1000 : LET square == Ceil(MaxPixels * 1000000, pixels)
                         IN  (k - 1) * (k - 1) < square /\ square <= k * k

(* The image that covers most of the page is taken as it is, if it can be    *)
(* and covers enough of it.                                                  *)
Dominant == page.images[Min({i \in DOMAIN page.images :
              \A j \in DOMAIN page.images : Area(page.images[j].box) <= Area(page.images[i].box)})]
TakenAsIs ==
  /\ page.images # <<>> /\ Dominant.embedded
  /\ 10 * Area(Meet(Dominant.box, Sheet)) >= 4 * Area(Sheet)
  /\ Permits(Dominant.width, Dominant.height)

(* _rasterize: that image, or else a drawing of the page. *)
RasterizePage ==
  /\ phase = "rasterize"
  /\ IF TakenAsIs
     THEN /\ raster' = [width |-> Dominant.width, height |-> Dominant.height, box |-> Meet(Dominant.box, Sheet)]
          /\ phase' = "recognize" /\ UNCHANGED scale
     ELSE scale' = Ceil(1000 * Dpi, 72) /\ phase' = "scale" /\ UNCHANGED raster
  /\ UNCHANGED <<media, content, page>>

(* Mutant: a page of one pixel across gets exactly the limit. *)
ShrunkToLimit(w, h) ==
  IF w = 1 THEN Min({scale, Ceil(1000 * MaxPixels, page.height)})
  ELSE IF h = 1 THEN Min({scale, Ceil(1000 * MaxPixels, page.width)})
  ELSE Ceil(scale * Root(w * h) * 99, 100000)

(* Mutant: whole pixels, not points, are divided. *)
ShrunkWhole(w, h) ==
  IF w = 1 THEN Min({scale, 1000 * (MaxPixels \div page.height)})
  ELSE IF h = 1 THEN Min({scale, 1000 * (MaxPixels \div page.width)})
  ELSE Ceil(scale * Root(w * h) * 99, 100000)

(* The next scale to try. *)
Shrunk(w, h) ==
  IF w = 1 THEN Ceil(Min({scale, Ceil(1000 * MaxPixels, page.height)}) * 99, 100)
  ELSE IF h = 1 THEN Ceil(Min({scale, Ceil(1000 * MaxPixels, page.width)}) * 99, 100)
  ELSE Ceil(scale * Root(w * h) * 99, 100000)

(* One iteration of bounded_scale. *)
ScalePage ==
  /\ phase = "scale"
  /\ LET w == Pixels(page.width)
         h == Pixels(page.height)
     IN  IF w * h <= MaxPixels
         THEN raster' = [width |-> w, height |-> h, box |-> Sheet] /\ phase' = "recognize" /\ UNCHANGED scale
         ELSE scale' = Shrunk(w, h) /\ UNCHANGED <<phase, raster>>
  /\ UNCHANGED <<media, content, page>>

(* TesseractTsvParser: a line of the image, on the page. *)
OnPage(r) ==
  LET x(k) == raster.box.x0 + (k * Width(raster.box)) \div raster.width
      y(k) == raster.box.y0 + (k * Height(raster.box)) \div raster.height
  IN  Rect(x(r.x0), y(r.y0), x(r.x1), y(r.y1))
Edges(n) == {0, n \div 2, n}
Lines == {OnPage(r) : r \in {q \in [x0 : Edges(raster.width), y0 : Edges(raster.height),
                                    x1 : Edges(raster.width), y1 : Edges(raster.height)] :
                               q.x0 < q.x1 /\ q.y0 < q.y1}}

(* _resolve and _regions: all of the page is scanned, and may look like a    *)
(* table or be hard to read. One line stands for all that are recognised.    *)
RecognizePage ==
  /\ phase = "recognize"
  /\ \E found \in {<<>>} \cup {<<line>> : line \in Lines}, tabular, unsure \in BOOLEAN :
       Finish(Contents(found,
                       <<Region("scanned-page", 1, Sheet)>>
                       \o (IF tabular THEN <<Region("ocr-table", 1, Sheet)>> ELSE <<>>)
                       \o (IF unsure THEN <<Region("ocr-low-confidence", 1, Sheet)>> ELSE <<>>)))
  /\ UNCHANGED <<media, pageVars>>

PageNext == ScanPage \/ RasterizePage \/ ScalePage \/ RecognizePage

-----------------------------------------------------------------------------
(* Whatever MuPDF and Tesseract report, text and regions lie on the page,    *)
(* and a table is told once: no table of a page lies within another.         *)
PageIsConsistent ==
  phase = "done" /\ media = "pdf" =>
    LET container == content.containers[1]
        table(i)  == container.regions[i].id[2] = "table"
    IN  /\ \A b \in DOMAIN container.blocks : Meet(container.blocks[b], Sheet) = container.blocks[b]
        /\ \A r \in DOMAIN container.regions : Meet(container.regions[r].bounds, Sheet) = container.regions[r].bounds
        /\ \A i, j \in DOMAIN container.regions :
             i # j /\ table(i) /\ table(j) =>
               Meet(container.regions[i].bounds, container.regions[j].bounds) # container.regions[i].bounds

(* Shrinking stops in time: a page is drawn at the resolution asked for, or  *)
(* with no less than two fifths of the pixels it might have, however long    *)
(* and thin it is.                                                           *)
RasterUsesItsPixels ==
  phase = "recognize" /\ ~TakenAsIs /\ scale < Ceil(1000 * Dpi, 72) =>
    5 * raster.width * raster.height >= 2 * MaxPixels
=============================================================================
