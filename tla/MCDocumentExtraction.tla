------------------------ MODULE MCDocumentExtraction ------------------------
(* Instances of DocumentExtraction for TLC. *)
EXTENDS DocumentExtraction, TLC

(* Every text of up to seven characters of three classes, and a few with the *)
(* other classes; blocks hold four.                                          *)
MCTexts ==
  BoundedSeq({"word", "sp", "nl"}, 7)
  \cup {<<"nul">>, <<"bad">>, <<"word", "nul", "word">>, <<"word", "nl", "ws", "nl", "word">>}
  \cup {[i \in 1..9 |-> IF i = n THEN "sp" ELSE "word"] : n \in 1..9}

(* Every table of up to two rows of up to two values. *)
MCValues == {<<>>, <<"word">>, <<"bar", "word">>, <<"word", "nl", "word">>}
MCTables == BoundedSeq(BoundedSeq(MCValues, 2), 2)
            \cup {<<<<>>, <<>>, <<>>, <<>>>>, <<<<<<>>, <<>>, <<>>>>>>}

Member(name, size, safe) == [name |-> name, size |-> size, safe |-> safe]
MCMembers == {Member("required", 1, TRUE), Member("other", 1, TRUE), Member("other", 3, TRUE),
              Member("third", 1, FALSE)}

(* No pages; one; two; the second only; and one container too many. *)
MCPageSets == {[n \in {} |-> 0], [n \in {1} |-> 6], [n \in {1, 2} |-> 6], [n \in {2} |-> 1],
               [n \in 1..4 |-> 6]}
At(number, x0, y0, x1, y1, fromBottom) == <<[page |-> number, box |-> Rect(x0, y0, x1, y1), fromBottom |-> fromBottom]>>
Item(kind, hasText, image, place) == [kind |-> kind, text |-> hasText, image |-> image, place |-> place]
MCItems == {
  Item("text", TRUE, 0, <<>>), Item("text", FALSE, 0, At(0, 0, 0, 2, 2, FALSE)),
  Item("heading", TRUE, 0, At(3, 0, 1, 4, 4, FALSE)), Item("heading", TRUE, 0, At(4, 0, 0, 2, 2, FALSE)),
  Item("table", TRUE, 0, At(1, 0, 4, 4, 2, TRUE)), Item("table", FALSE, 0, <<>>), Item("table", TRUE, 0, <<>>),
  Item("picture", TRUE, 2, At(2, 1, 3, 1, 3, FALSE)), Item("picture", FALSE, 3, At(2, -2, 9, -1, 7, TRUE)),
  Item("picture", TRUE, 5, <<>>)}

-----------------------------------------------------------------------------
(* Pages of 24 by 16 points. *)
Page(found, pictures, words, drawings) ==
  [width |-> 24, height |-> 16, blocks |-> found, columns |-> FALSE, images |-> pictures, words |-> words, drawings |-> drawings]
Block(box, ink, bad) == [box |-> box, ink |-> ink, bad |-> bad]
Image(box, width, height, embedded) == [box |-> box, width |-> width, height |-> height, embedded |-> embedded]
Boxes == {Rect(2, 2, 22, 6), Rect(-4, -2, 12, 30), Rect(30, 0, 40, 9), Rect(0, 0, 24, 16)}

(* Which route: text of any amount and quality, and an image of any size. *)
RoutedPages ==
  {Page(<<Block(box, ink, bad)>>, pictures, <<>>, <<>>) :
     box \in Boxes, ink \in {0, 1, 2, 6, 100}, bad \in {0, 2, 3},
     pictures \in {<<>>} \cup {<<Image(b, w, 3, e)>> : b \in Boxes \cup {Rect(0, 0, 1, 1), Rect(0, 0, 12, 16)},
                                                     w \in {4, 40}, e \in BOOLEAN}}

(* Tables: words in two lines, with cells here and there, and rules.         *)
Word(line, x, w) == [line |-> line, box |-> Rect(x, 6 * line, x + w, 6 * line + 4)]
WordLines(l) == {<<Word(l, 2, 3), Word(l, 14, w)>> : w \in {3, 12}}
                \cup {<<Word(l, 2, 3), Word(l, 7, 3)>>, <<Word(l, 10, 2), Word(l, 2, 3)>>, <<>>}
Drawing(kind, x0, y0, x1, y1) == [kind |-> kind, box |-> Rect(x0, y0, x1, y1)]
Drawings ==
  {<<>>,
   <<Drawing("re", 1, 5, 20, 11), Drawing("re", 1, 5, 10, 8)>>,
   <<Drawing("re", -3, -3, 40, 40), Drawing("l", 20, 3, 2, 3)>>,
   <<Drawing("re", 1, 5, 16, 7), Drawing("l", 1, 0, 1, 12), Drawing("l", 9, 12, 9, 0), Drawing("l", 0, 12, 23, 11)>>,
   <<Drawing("l", 1, 5, 9, 13), Drawing("re", 20, 13, 26, 18), Drawing("re", 20, 13, 26, 18)>>}
TablePages ==
  {[Page(found, <<>>, one \o two, drawings) EXCEPT !.columns = columns] :
     found \in {<<Block(Rect(0, 0, 20, 6), 9, 0)>>, [i \in 1..2 |-> Block(Rect(0, 0, 20, 6 * i), 9, 0)]},
     one \in WordLines(0), two \in WordLines(1), drawings \in Drawings, columns \in BOOLEAN}

(* Long and thin, and large and square. *)
OddPages ==
  {[Page(<<>>, <<Image(Rect(0, 0, w, h), 90, 90, TRUE)>>, <<>>, <<>>) EXCEPT !.width = w, !.height = h] :
     w \in {1, 2, 3, 10, 31}, h \in {1, 2, 3, 7, 30}}

MCPdfPages == RoutedPages \cup TablePages \cup OddPages
=============================================================================
