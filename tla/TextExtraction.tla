--------------------------- MODULE TextExtraction ---------------------------
(***************************************************************************)
(* TextDocumentExtractor: plain text, or a CSV table turned to Markdown,   *)
(* is split into paragraphs and those into blocks of a bounded number of   *)
(* characters.                                                             *)
(*                                                                         *)
(* A text is a sequence of characters of the classes the code tells apart. *)
(* A paragraph or block is the range of its positions, so that which       *)
(* characters a block has is part of the model.                            *)
(***************************************************************************)
EXTENDS ExtractedContent

CONSTANTS
  Texts,            \* plain documents
  Tables,           \* CSV documents, as csv.reader parses them: rows of values
  BlockCharacters,  \* block_characters (4,000)
  MaxTextLength,    \* max_text_bytes (50 MiB)
  MaxOutputLength,  \* max_output_bytes (256 MiB)
  MaxRows,          \* 1,000,000
  MaxColumns,       \* 16,384
  BadShare          \* one in so many characters may be undecodable (50)

Characters == {"nl", "sp", "ws", "word", "bar", "escape", "nul", "bad"}
White      == {"nl", "sp", "ws"}

ASSUME TextAssumption ==
  /\ Texts \subseteq Seq(Characters) /\ Tables \subseteq Seq(Seq(Seq(Characters)))
  /\ BlockCharacters \in Nat \ {0} /\ BadShare \in Nat \ {0}
  /\ MaxTextLength \in Nat /\ MaxOutputLength \in Nat /\ MaxRows \in Nat /\ MaxColumns \in Nat

VARIABLES
  rows,    \* the rows of a CSV document
  text,    \* the text: of the source, then what is split
  todo,    \* the paragraphs, or rests of one, still to be split
  blocks   \* the blocks so far

textVars == <<rows, text, todo, blocks>>

TextIdle == rows = <<>> /\ text = <<>> /\ todo = <<>> /\ blocks = <<>>
TextInit ==
  /\ \/ media = "plain" /\ rows = <<>> /\ text \in Texts
     \/ media = "csv" /\ rows \in Tables /\ text = FlattenSeq(FlattenSeq(rows))
  /\ todo = <<>> /\ blocks = <<>>

-----------------------------------------------------------------------------
Count(class, s) == Cardinality({i \in DOMAIN s : s[i] = class})
Join(parts, separator) ==
  FlattenSeq([i \in DOMAIN parts |-> IF i = 1 THEN parts[i] ELSE separator \o parts[i]])
(* _decode: too many undecodable characters, or the text without NULs. *)
Decodes    == Count("bad", text) * BadShare <= Len(text)
Decoded(s) == FlattenSeq([i \in DOMAIN s |-> IF s[i] = "nul" THEN <<>> ELSE <<s[i]>>])

(* Mutant: a line break within a value stays one. *)
CellUnbroken(value) ==
  LET written(c) == IF c = "bar" THEN <<"escape", "bar">> ELSE <<c>>
  IN  FlattenSeq([i \in DOMAIN value |-> written(value[i])])

(* _csv_markdown: one line for a row, and a rule below the first one. The    *)
(* bars of a value are escaped, and its line breaks are spaces.              *)
Cell(value) ==
  LET written(c) == CASE c = "bar" -> <<"escape", "bar">>
                      [] c = "nl"  -> <<"sp">>
                      [] OTHER     -> <<c>>
  IN  FlattenSeq([i \in DOMAIN value |-> written(value[i])])
RowLine(cells) == <<"bar", "sp">> \o Join(cells, <<"sp", "bar", "sp">>) \o <<"sp", "bar">>
RuleLine(row)  == RowLine([i \in 1..Max({1, Len(row)}) |-> <<"word">>])
Markdown ==
  LET line(i) == RowLine([j \in DOMAIN rows[i] |-> Cell(Decoded(rows[i][j]))])
  IN  IF rows = <<>> THEN <<>>
      ELSE Join(<<line(1), RuleLine(rows[1])>> \o [i \in 1..(Len(rows) - 1) |-> line(i + 1)], <<"nl">>)

(* Ranges of positions, and strip(). *)
Inked(s, from, to) == {i \in from..to : s[i] \notin White}
Strip(s, from, to) ==
  LET inked == Inked(s, from, to)
  IN  IF inked = {} THEN <<>> ELSE <<[from |-> Min(inked), to |-> Max(inked)]>>

(* re.split(r"\n\s*\n"): white space with two newlines parts paragraphs.     *)
Parted(s, i, j) ==
  /\ Inked(s, i + 1, j - 1) = {}
  /\ Cardinality({k \in (i + 1)..(j - 1) : s[k] = "nl"}) >= 2
Starts(s, j) == LET before == Inked(s, 1, j - 1) IN before = {} \/ Parted(s, Max(before), j)
Ends(s, i)   == LET after == Inked(s, i + 1, Len(s)) IN after = {} \/ Parted(s, i, Min(after))
Paragraphs(s) ==
  LET starts == Ascending({j \in Inked(s, 1, Len(s)) : Starts(s, j)})
      ends   == Ascending({i \in Inked(s, 1, Len(s)) : Ends(s, i)})
  IN  [n \in DOMAIN starts |-> [from |-> starts[n], to |-> ends[n]]]

(* extract, up to the call of _blocks. *)
Readable ==
  /\ Len(text) \in 1..MaxTextLength
  /\ Decodes
  /\ media = "csv" => Len(rows) <= MaxRows /\ \A i \in DOMAIN rows : Len(rows[i]) <= MaxColumns
ReadText ==
  /\ phase = "start" /\ media \in Plain
  /\ \E result \in {IF media = "csv" THEN Markdown ELSE Decoded(text)} :
       IF Readable /\ Len(result) <= MaxOutputLength
       THEN text' = result /\ todo' = Paragraphs(result) /\ phase' = "split" /\ UNCHANGED content
       ELSE Fail /\ UNCHANGED <<text, todo>>
  /\ UNCHANGED <<media, rows, blocks>>

(* How much of a paragraph makes a block: up to the last newline, or else    *)
(* the last space, of the second half of the block; or else a whole block.   *)
Cut(r) ==
  LET at(class) == {k \in (BlockCharacters \div 2)..(BlockCharacters - 1) : text[r.from + k] = class}
  IN  IF at("nl") # {} THEN Max(at("nl"))
      ELSE IF at("sp") # {} THEN Max(at("sp")) ELSE BlockCharacters

(* Mutant: what is left is not stripped, so that it may start with a space.  *)
SplitUnstripped ==
  /\ phase = "split" /\ todo # <<>>
  /\ LET r == Head(todo)
     IN  IF r.to - r.from < BlockCharacters
         THEN blocks' = Append(blocks, r) /\ todo' = Tail(todo)
         ELSE /\ blocks' = blocks \o Strip(text, r.from, r.from + Cut(r) - 1)
              /\ todo' = <<[from |-> r.from + Cut(r), to |-> r.to]>> \o Tail(todo)
  /\ UNCHANGED <<contentVars, rows, text>>

(* One iteration of _blocks. *)
SplitBlock ==
  /\ phase = "split" /\ todo # <<>>
  /\ LET r == Head(todo)
     IN  IF r.to - r.from < BlockCharacters
         THEN blocks' = Append(blocks, r) /\ todo' = Tail(todo)
         ELSE /\ blocks' = blocks \o Strip(text, r.from, r.from + Cut(r) - 1)
              /\ todo' = Strip(text, r.from + Cut(r), r.to) \o Tail(todo)
  /\ UNCHANGED <<contentVars, rows, text>>

(* The blocks are lines of one container, and a table is all of it. *)
FinishText ==
  /\ phase = "split" /\ todo = <<>>
  /\ LET height == Max({1, Len(blocks)})
         table  == [id |-> <<1, "table", 1>>, bounds |-> Rect(0, 0, Unit, height * Unit), asset |-> 0, own |-> 1]
     IN  Finish([containers |-> <<[blocks  |-> [i \in DOMAIN blocks |-> Line(i - 1)],
                                   regions |-> IF media = "csv" /\ blocks # <<>> THEN <<table>> ELSE <<>>]>>,
                 outline    |-> <<>>])
  /\ UNCHANGED <<media, textVars>>

TextNext == ReadText \/ SplitBlock \/ FinishText

-----------------------------------------------------------------------------
(* Nothing but white space is lost: every other character is in exactly one  *)
(* block, blocks are in the order of the text and within their limit, begin  *)
(* and end with ink and never span two paragraphs; and a word is cut only at *)
(* the end of a full block whose second half has no break.                   *)
Within(i, r) == r.from <= i /\ i <= r.to
BlocksKeepTheText ==
  phase = "done" /\ media \in Plain =>
    /\ \A n \in DOMAIN blocks :
         /\ blocks[n].to - blocks[n].from \in 0..(BlockCharacters - 1)
         /\ {text[blocks[n].from], text[blocks[n].to]} \cap White = {}
         /\ \A i, j \in blocks[n].from..blocks[n].to : i < j => ~Parted(text, i, j)
         /\ n > 1 => blocks[n - 1].to < blocks[n].from
    /\ \A i \in Inked(text, 1, Len(text)) : \E n \in DOMAIN blocks : Within(i, blocks[n])
    /\ \A n \in 1..(Len(blocks) - 1) :
         blocks[n].to + 1 = blocks[n + 1].from =>
           /\ blocks[n].to - blocks[n].from = BlockCharacters - 1
           /\ \A i \in (blocks[n].from + BlockCharacters \div 2)..blocks[n].to : text[i] \notin {"nl", "sp"}

(* A table stays a table: each row, whatever its values hold, is one line    *)
(* with as many bars as its cells need, and the rule follows the first.      *)
Bars(from, to) ==
  Cardinality({i \in from..to : text[i] = "bar" /\ (i = from \/ text[i - 1] # "escape")})
RowsStayLines ==
  phase = "done" /\ media = "csv" =>
    LET ends   == Ascending({0, Len(text) + 1} \cup {i \in DOMAIN text : text[i] = "nl"})
        row(n) == IF n = 1 THEN rows[1] ELSE rows[n - 1]
    IN  /\ Len(ends) = Len(rows) + 2
        /\ \A n \in 1..(Len(rows) + 1) :
             Bars(ends[n] + 1, ends[n + 1] - 1) = Max({1, Len(row(n))}) + 1

(* What is extracted from a text file is its text: blocks keep it, and the   *)
(* rows of a table stay lines (TextDocumentExtractor).                       *)
TextIsKept == BlocksKeepTheText /\ RowsStayLines
=============================================================================
