--------------------------- MODULE DocumentQueries ---------------------------
(***************************************************************************)
(* The questions a session answers about an open document: its overview,   *)
(* and full-text searches over its chunks, each hit with a snippet of at   *)
(* most so many characters that shows what matched.                        *)
(*                                                                         *)
(* The index is SQLite's FTS5 and external: it splits a chunk into the     *)
(* runs of letters in it, ranks the chunks that match in an order of its   *)
(* own, and marks the matches in a fragment of SnippetTokens words.        *)
(***************************************************************************)
EXTENDS ArtifactFile, SequencesExt, Ordering

CONSTANTS
  Documents,      \* what may be open: chunks, outline and labels
  Searches,       \* what may be asked: queries, limit, characters
  SnippetTokens,  \* FTS_SNIPPET_TOKENS (64)
  OutlineLimit,   \* outline(limit=500)
  OutlineBytes,   \* max_outline_bytes
  LabelLimit      \* labeled_containers(limit=500)

(* Text is made of letters, white space and marks. "z" stands for a letter   *)
(* that casefold() spells with two others, as it does with the German sharp  *)
(* s or a ligature, while the index keeps it.                                *)
Letters    == {"a", "b", "s", "z"}
Characters == Letters \cup {" ", "-"}

ASSUME QueryAssumption ==
  /\ \A d \in Documents :
       d.chunks \in Seq(Seq(Characters)) /\ d.outline \in Seq(Nat) /\ d.labels \in Nat
  /\ \A s \in Searches :
       /\ s.queries \in Seq(Seq(Seq(Characters)))
       /\ s.limit \in Nat \ {0} /\ s.characters \in Nat /\ s.characters >= 3
  /\ SnippetTokens \in Nat \ {0}
  /\ {OutlineLimit, OutlineBytes, LabelLimit} \subseteq Nat

VARIABLES
  document,  \* the document
  answer     \* the last answer about it

queryVars == <<fileVars, document, answer>>

NoAnswer == [kind |-> "none"]

QueryInit == FileInit /\ document \in Documents /\ answer = NoAnswer

-----------------------------------------------------------------------------
(* Words of a text: the places [from, to) of its runs of letters. *)
WordEnd(text, i) == CHOOSE j \in i..Len(text) :
  /\ \A k \in i..j : text[k] \in Letters
  /\ j < Len(text) => text[j + 1] \notin Letters

Tokens(text) ==
  LET starts == {i \in DOMAIN text : text[i] \in Letters /\ (i > 1 => text[i - 1] \notin Letters)}
      sorted == Ascending(starts)
  IN  [n \in DOMAIN sorted |-> [from |-> sorted[n] - 1, to |-> WordEnd(text, sorted[n])]]

Words(text) == [n \in DOMAIN Tokens(text) |-> SubSeq(text, Tokens(text)[n].from + 1, Tokens(text)[n].to)]

Casefold(text) == FlattenSeq([i \in DOMAIN text |-> IF text[i] = "z" THEN <<"s", "s">> ELSE <<text[i]>>])

Phrase(literal) == Words(Casefold(literal))

(* Mutant: a term without words is left out of its query. *)
MatchQueryWithoutTerm(queries) ==
  {{Phrase(literal) : literal \in ToSet(q)} \ {<<>>} : q \in ToSet(queries)} \ {{}}

(* _match_query: the phrases of each query, all of them required; a query    *)
(* with a term that has no words is left out.                                *)
MatchQuery(queries) ==
  {{Phrase(literal) : literal \in ToSet(q)} :
     q \in {r \in ToSet(queries) : \A literal \in ToSet(r) : Phrase(literal) # <<>>}}

-----------------------------------------------------------------------------
(* FTS5: where a chunk has the words of a phrase, by their numbers. *)
Places(text, phrase) ==
  {[first |-> k, last |-> k + Len(phrase) - 1] :
     k \in {n \in 1..(Len(Words(text)) - Len(phrase) + 1) :
              SubSeq(Words(text), n, n + Len(phrase) - 1) = phrase}}

Matches(text, phrases) == \A p \in phrases : Places(text, p) # {}
Matching(alternatives) ==
  {c \in DOMAIN document.chunks : \E phrases \in alternatives : Matches(document.chunks[c], phrases)}

Matched(text, alternatives) ==
  UNION {UNION {Places(text, p) : p \in phrases} : phrases \in {a \in alternatives : Matches(text, a)}}

(* Places that share a word are marked as one. *)
Marks(places) ==
  LET starts == {p.first : p \in {q \in places : ~\E r \in places : r.first < q.first /\ q.first <= r.last}}
      Run(s) == {p \in places : p.first >= s /\ ~\E t \in starts : s < t /\ t <= p.first}
  IN  {[first |-> s, last |-> Max({p.last : p \in Run(s)})] : s \in starts}

(* The fragment is a window of words. It centres the places that start in    *)
(* the window from a mark on; the half of what they exceed it by is cut off  *)
(* before them, rounded towards zero. Or it starts with an earlier sentence: *)
(* which, and which mark is preferred, is left open.                         *)
Centred(text, places, start) ==
  LET seen  == {p \in places : p.first \in start..(start + SnippetTokens - 1)}
      width == Max({p.last : p \in seen}) + 1 - start
      begin == IF width > SnippetTokens
               THEN start + (width - SnippetTokens) \div 2
               ELSE Max({1, start - (SnippetTokens - width) \div 2})
  IN  Max({1, Min({begin, Len(Words(text)) - SnippetTokens + 1})})

Windows(text, places) ==
  UNION {{Centred(text, places, m.first)}
           \cup Max({1, m.first - SnippetTokens + 1})..m.first : m \in Marks(places)}

(* snippet(): the fragment of the window, and the part of it from the first  *)
(* mark that starts in the window to the last one's end.                     *)
LastWord(text, w) == Min({w + SnippetTokens - 1, Len(Words(text))})
FragmentFrom(text, w) == IF w = 1 THEN 0 ELSE Tokens(text)[w].from
FragmentTo(text, w) ==
  IF LastWord(text, w) = Len(Words(text)) THEN Len(text) ELSE Tokens(text)[LastWord(text, w)].to
Fragment(text, w) == SubSeq(text, FragmentFrom(text, w) + 1, FragmentTo(text, w))

Marked(text, places, w) == {m \in Marks(places) : m.first \in w..LastWord(text, w)}
Span(text, places, w) ==
  LET marked == Marked(text, places, w)
      last   == Min({LastWord(text, w), Max({m.last : m \in marked})})
  IN  [from |-> Tokens(text)[Min({m.first : m \in marked})].from - FragmentFrom(text, w),
       to   |-> Tokens(text)[last].to - FragmentFrom(text, w)]

-----------------------------------------------------------------------------
(* _character_boundary *)
White(text, i) == text[i] = " "
ForwardTo(text, offset) ==
  IF offset = 0 THEN 0
  ELSE Min({o \in offset..Len(text) : o = Len(text) \/ White(text, o + 1)})
BackTo(text, offset) ==
  IF offset = Len(text) THEN offset
  ELSE Max({o \in 0..offset : o = 0 \/ White(text, o)})

(* Mutant: the start moves to the next word even behind the match. *)
StartAnywhere(text, start, match) == ForwardTo(text, start)
StartAt(text, start, match) ==
  IF ForwardTo(text, start) <= match.from THEN ForwardTo(text, start) ELSE start

EndAt(text, end, match) ==
  IF BackTo(text, end) >= match.to THEN BackTo(text, end) ELSE end

(* The window of so many characters that has the match in it, pushed right   *)
(* when its end would cut the match.                                         *)
Cover(text, start, length, match) ==
  LET end == Min({Len(text), start + length})
  IN  IF end < match.to THEN [from |-> Max({0, match.to - length}), to |-> match.to]
      ELSE [from |-> start, to |-> end]

(* _bounded_snippet: twice, first with room for both ellipses and then with  *)
(* room for those there are; then to white space, unless that is in the      *)
(* match. Which ellipses there are is decided in between.                    *)
Bounded(text, match, limit) ==
  IF Len(text) <= limit
  THEN [from |-> 0, to |-> Len(text), before |-> FALSE, after |-> FALSE]
  ELSE LET context == Max({0, limit - 2 - (match.to - match.from)})
           first   == Cover(text, Max({0, match.from - context \div 3}), limit - 2, match)
           before  == first.from > 0
           after   == first.to < Len(text)
           room    == limit - (IF before THEN 1 ELSE 0) - (IF after THEN 1 ELSE 0)
           second  == Cover(text, first.from, room, match)
       IN  [from |-> StartAt(text, second.from, match), to |-> EndAt(text, second.to, match),
            before |-> before, after |-> after]

(* _fts_snippet: the first place of the chunk that reads like the fragment. *)
Find(text, part) ==
  Min({o \in 0..(Len(text) - Len(part)) : SubSeq(text, o + 1, o + Len(part)) = part})

Hit(c, alternatives, w, limit) ==
  LET text   == document.chunks[c]
      places == Matched(text, alternatives)
      offset == Find(text, Fragment(text, w))
      span   == Span(text, places, w)
      match  == [from |-> offset + span.from, to |-> offset + span.to]
  IN  [chunk |-> c, match |-> match, shown |-> Bounded(text, match, limit)]

-----------------------------------------------------------------------------
(* _search. A fragment without a mark is an error of _marked_fragment, and   *)
(* every error is answered as a query without searchable terms.              *)
Fetched(ranked, limit) == SubSeq(ranked, 1, Min({Len(ranked), limit + 1}))

Longest == Max({1} \cup {Len(Words(document.chunks[c])) : c \in DOMAIN document.chunks})

Search(s) ==
  LET alternatives == MatchQuery(s.queries)
      text(c)   == document.chunks[c]
      places(c) == Matched(text(c), alternatives)
  IN  \E ranked \in SetToSeqs(Matching(alternatives)) :
        LET fetched == Fetched(ranked, s.limit)
        IN  \E windows \in [DOMAIN fetched -> 1..Longest] :
              /\ \A n \in DOMAIN fetched : windows[n] \in Windows(text(fetched[n]), places(fetched[n]))
              /\ answer' =
                   IF \/ alternatives = {}
                      \/ \E n \in DOMAIN fetched :
                           Marked(text(fetched[n]), places(fetched[n]), windows[n]) = {}
                   THEN [kind |-> "refused", asked |-> s]
                   ELSE [kind |-> "hits", asked |-> s,
                         hits |-> [n \in 1..Min({s.limit, Len(fetched)}) |->
                                     Hit(fetched[n], alternatives, windows[n], s.characters)],
                         more |-> Len(fetched) > s.limit]

(* _overview and bounded_outline: the outline up to a number of entries and, *)
(* of these, up to the first that does not fit into the answer.              *)
Told ==
  LET entries == SubSeq(document.outline, 1, Min({Len(document.outline), OutlineLimit}))
      Bytes(n) == FoldSeq(LAMBDA size, sum : sum + size + 1, 0, SubSeq(entries, 1, n))
  IN  Max({n \in 0..Len(entries) : Bytes(n) <= OutlineBytes})

Overview ==
  answer' = [kind |-> "overview", outline |-> Told,
             truncated |-> Told < Len(document.outline),
             labels |-> Min({document.labels, LabelLimit})]

(* A question changes nothing but its answer: one to a document is enough.   *)
Query == /\ stage = "open" /\ answer = NoAnswer
         /\ Overview \/ \E s \in Searches : Search(s)
         /\ UNCHANGED <<fileVars, document>>

QueryNext == Query \/ (FileStep /\ UNCHANGED <<document, answer>>)

QuerySpec == QueryInit /\ [][QueryNext]_queryVars
-----------------------------------------------------------------------------
(* Whether a chunk has the words of a term next to each other. *)
HasTerm(text, words) == words # <<>> /\ Places(text, words) # {}

(* An answer holds only chunks that have every term of one of the queries,   *)
(* none twice; and all the chunks that do, unless it says that there are     *)
(* more. A term whose letters casefold() rewrites is not found: the index    *)
(* has them as they were written. The overview says when it tells less of    *)
(* the outline than there is.                                                *)
AnswersMatchTheQuery ==
  /\ answer.kind = "hits" =>
       LET found    == {answer.hits[n].chunk : n \in DOMAIN answer.hits}
           asked(c) == \E q \in ToSet(answer.asked.queries) : \A term \in ToSet(q) :
                         HasTerm(document.chunks[c], Phrase(term))
           plain(c) == \E q \in ToSet(answer.asked.queries) : \A term \in ToSet(q) :
                         "z" \notin ToSet(term) /\ HasTerm(document.chunks[c], Words(term))
       IN  /\ \A c \in found : asked(c)
           /\ Cardinality(found) = Len(answer.hits) /\ Len(answer.hits) <= answer.asked.limit
           /\ answer.more <=> \E c \in DOMAIN document.chunks \ found : asked(c)
           /\ ~answer.more => \A c \in DOMAIN document.chunks : plain(c) => c \in found
  /\ answer.kind = "overview" =>
       (answer.truncated <=> Len(document.outline) > Cardinality(1..answer.outline))

(* A snippet keeps to its length, ellipses included, and has an ellipsis on  *)
(* exactly the sides where it leaves something out. It ends no earlier than  *)
(* the match; when the match fits, it holds all of it; and what it takes for *)
(* the match does begin with a word that was asked for, although the place   *)
(* was looked up by its text.                                                *)
SnippetsShowTheMatch ==
  answer.kind = "hits" => \A n \in DOMAIN answer.hits :
    LET hit == answer.hits[n]
        shown == hit.shown
        text  == document.chunks[hit.chunk]
        length == shown.to - shown.from + (IF shown.before THEN 1 ELSE 0) + (IF shown.after THEN 1 ELSE 0)
    IN  /\ length <= answer.asked.characters
        /\ shown.before <=> shown.from > 0
        /\ shown.after  <=> shown.to < Len(text)
        /\ hit.match.to <= shown.to
        /\ hit.match.to - hit.match.from <= answer.asked.characters - 2 => shown.from <= hit.match.from
        /\ \E q \in ToSet(answer.asked.queries) : \E term \in ToSet(q) :
             Phrase(term) # <<>> /\ IsPrefix(Phrase(term)[1], SubSeq(text, hit.match.from + 1, hit.match.to))

(* DocumentSession._search answers every refusal as "Search query has no     *)
(* searchable terms": it should refuse only queries for which that is so.    *)
RefusedHaveNoTerms ==
  answer.kind = "refused" =>
    \A q \in ToSet(answer.asked.queries) : \E term \in ToSet(q) : Words(term) = <<>>
=============================================================================
