-------------------------- MODULE MCArtifactReading --------------------------
(* Instances of ArtifactReading for TLC: small sets of documents. *)
EXTENDS ArtifactReading, SequencesExt

LOCAL Texts(letters, n) == {FlattenSeq(s) : s \in BoundedSeq(letters, n)}

Wide == <<"other", "cont", "cont", "cont">>
Pair == <<"other", "cont">>

(* One long block: lines of wide characters, and words of them. *)
Lines == {<< <<t>> >> : t \in Texts({<<"nl">>, <<"other">>, Wide}, 6)}
Words == {<< <<t>> >> : t \in Texts({<<"sp">>, Pair, Wide}, 5)}

(* Up to three containers of up to two short blocks, empty ones included,    *)
(* below, at and above the budget of a window.                               *)
Word   == <<"other", "other", "sp", "other", "other", "other", "other">>
Blocks == {<<>>, <<"nl">>, Word, Wide \o Wide \o <<"other">>}
Sheets == BoundedSeq(BoundedSeq(Blocks, 2), 3)

AllDocuments == Lines \cup Words \cup Sheets
=============================================================================
