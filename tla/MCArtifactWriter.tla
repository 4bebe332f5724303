-------------------------- MODULE MCArtifactWriter --------------------------
(* An instance of ArtifactWriter for TLC with sizes that the code accepts:   *)
(* two long lines of two-byte characters.                                    *)
EXTENDS ArtifactWriter, SequencesExt

Pair         == <<"other", "cont">>
Repeat(t, n) == FlattenSeq([i \in 1..n |-> t])
LongLines    == {<< <<Repeat(Pair, n) \o <<"nl">> \o Repeat(Pair, 200)>> >> : n \in {40, 80, 120}}
=============================================================================
