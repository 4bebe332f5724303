------------------------- MODULE MCDocumentQueries -------------------------
(* Instances of DocumentQueries for TLC. *)
EXTENDS DocumentQueries

Texts(letters, n) == UNION {[1..k -> letters] : k \in 1..n}

OneChunk(texts) == {[chunks |-> <<t>>, outline |-> <<>>, labels |-> 0] : t \in texts}

A  == <<"a">>
B  == <<"b">>
AA == <<"a", " ", "a">>
AB == <<"a", "-", "b">>
Z  == <<"z">>

(* Texts of one word over and over, of words within words, of words that are *)
(* next to marks and of words that casefold rewrites; two and three chunks.  *)
MCDocuments ==
  OneChunk([1..8 -> {"a", " "}])
  \cup OneChunk({<<"b", " ">> \o t : t \in [1..4 -> {"a", "b", " ", "-"}]})
  \cup OneChunk({Z \o t : t \in Texts({"z", "s", " "}, 2)})
  \cup {[chunks |-> c, outline |-> <<>>, labels |-> 3] : c \in BoundedSeq({A, B, AB, <<" ">>}, 3)}
  \cup {[chunks |-> <<A>>, outline |-> o, labels |-> 1] : o \in Texts({1, 3}, 3)}

One(term) == <<<<term>>>>
MCQueries == {One(A), One(AA), One(AB), One(Z), One(<<"-">>), One(<<"a", "a">>), One(<<"s", "s">>),
              <<<<A, B>>>>, <<<<A>>, <<B, <<"-">>>>>>, <<<<A, <<"-">>>>, <<B>>>>, <<<<AB, B>>, <<AA>>>>}

MCSearches == [queries : MCQueries, limit : {1, 2}, characters : {3, 5, 6}]

(* One term of as many words as there may be, in a text with enough of them. *)
LongSearches == [queries : {One(<<"a", " ", "a", " ", "a", " ", "a">>)}, limit : {1}, characters : {5}]
=============================================================================
