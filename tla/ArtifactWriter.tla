--------------------------- MODULE ArtifactWriter ---------------------------
(***************************************************************************)
(* ArtifactWriter.write: the canonical text of a document is built from    *)
(* the blocks of its containers, with the offsets of each, and is then cut *)
(* into overlapping chunks, the rows of the full-text index.               *)
(*                                                                         *)
(* Offsets are bytes of the UTF-8 text. A byte is abstracted to what the   *)
(* code looks at: a newline, a space, a continuation byte (0b10xxxxxx), or *)
(* any other, and the byte at offset o is canonical[o + 1].                *)
(***************************************************************************)
EXTENDS Integers, Sequences, FiniteSets

CONSTANTS
  Documents,     \* documents: sequences of containers, each a sequence of blocks
  ChunkBytes,    \* chunk_bytes
  OverlapBytes,  \* overlap_bytes
  MinChunkBytes  \* the least chunk_bytes the constructor accepts (256)

Bytes == {"nl", "sp", "other", "cont"}

(* UTF-8: a text starts with a character, no character is longer than four   *)
(* bytes, and a newline or a space is one of a single byte.                  *)
IsUtf8(text) ==
  /\ text \in Seq(Bytes)
  /\ \A i \in 1..Len(text) : \E j \in 1..i : i - j <= 3 /\ text[j] # "cont"
  /\ \A i \in 2..Len(text) : text[i] = "cont" => text[i - 1] \in {"other", "cont"}

ASSUME DocumentAssumption ==
  \A doc \in Documents :
    /\ doc \in Seq(Seq(Seq(Bytes)))
    /\ \A c \in 1..Len(doc) : \A b \in 1..Len(doc[c]) : IsUtf8(doc[c][b])

(* ArtifactWriter.__init__ *)
ASSUME ChunkAssumption ==
  /\ MinChunkBytes \in Nat \ {0}
  /\ ChunkBytes \in Nat /\ OverlapBytes \in Nat
  /\ ChunkBytes >= MinChunkBytes /\ OverlapBytes < ChunkBytes

VARIABLES
  doc,        \* the document
  pc,         \* "container", "block", "chunk" or "done"
  c, b,       \* the container and the block written next
  canonical,  \* the text so far
  blocks,     \* per container, the ranges of its blocks
  containers, \* the ranges of the containers
  start,      \* where the next chunk starts
  chunks      \* the chunks: their ranges and the containers they cite

contentVars == <<doc, c, b, canonical, blocks, containers>>
vars == <<doc, pc, c, b, canonical, blocks, containers, start, chunks>>

Smaller(x, y) == IF x <= y THEN x ELSE y
Larger(x, y)  == IF x >= y THEN x ELSE y
Greatest(S)   == CHOOSE x \in S : \A y \in S : y <= x
Least(S)      == CHOOSE x \in S : \A y \in S : x <= y

Ranges == [from : Nat, to : Nat]
Chunks == [from : Nat, to : Nat, first : Nat, last : Nat]

Init ==
  /\ doc \in Documents
  /\ pc = "container"
  /\ c = 1 /\ b = 1
  /\ canonical = <<>>
  /\ blocks = <<>> /\ containers = <<>>
  /\ start = 0
  /\ chunks = <<>>

-----------------------------------------------------------------------------
(* _write_content. The separator is a form feed between newlines.            *)
Separator == <<"nl", "other", "nl">>

StartContainer ==
  /\ pc = "container" /\ c <= Len(doc)
  /\ canonical' = IF c > 1 THEN canonical \o Separator ELSE canonical
  /\ blocks' = Append(blocks, <<>>)
  /\ containers' = Append(containers, [from |-> Len(canonical'), to |-> Len(canonical')])
  /\ b' = 1
  /\ pc' = "block"
  /\ UNCHANGED <<doc, c, start, chunks>>

(* Blocks of a container are on lines of their own. *)
NeedsNewline == b > 1 /\ canonical # <<>> /\ canonical[Len(canonical)] # "nl"

(* Mutant: a block is said to start before the newline that precedes it. *)
WriteBlockRangeTooWide ==
  /\ pc = "block" /\ b <= Len(doc[c])
  /\ LET before == IF NeedsNewline THEN Append(canonical, "nl") ELSE canonical
     IN  /\ canonical' = before \o doc[c][b]
         /\ blocks' = [blocks EXCEPT ![c] = Append(@, [from |-> Len(canonical), to |-> Len(canonical')])]
  /\ b' = b + 1
  /\ UNCHANGED <<doc, pc, c, containers, start, chunks>>

WriteBlock ==
  /\ pc = "block" /\ b <= Len(doc[c])
  /\ LET before == IF NeedsNewline THEN Append(canonical, "nl") ELSE canonical
     IN  /\ canonical' = before \o doc[c][b]
         /\ blocks' = [blocks EXCEPT ![c] = Append(@, [from |-> Len(before), to |-> Len(canonical')])]
  /\ b' = b + 1
  /\ UNCHANGED <<doc, pc, c, containers, start, chunks>>

EndContainer ==
  /\ pc = "block" /\ b > Len(doc[c])
  /\ containers' = [containers EXCEPT ![c].to = Len(canonical)]
  /\ c' = c + 1
  /\ pc' = "container"
  /\ UNCHANGED <<doc, b, canonical, blocks, start, chunks>>

ContentWritten ==
  /\ pc = "container" /\ c > Len(doc)
  /\ pc' = IF canonical = <<>> THEN "done" ELSE "chunk"
  /\ UNCHANGED <<contentVars, start, chunks>>

-----------------------------------------------------------------------------
Length     == Len(canonical)
Byte(o)    == canonical[o + 1]
IsCut(o)   == o = 0 \/ o = Length \/ Byte(o) # "cont"

(* Mutant: offsets are cut where they fall. *)
AnyBoundary(o) == o

(* _utf8_boundary: back to the start of the character. *)
Utf8Boundary(o) ==
  IF o >= Length THEN o
  ELSE CHOOSE i \in 0..o : IsCut(i) /\ \A j \in (i + 1)..o : ~IsCut(j)

(* canonical.rfind(byte, from, to) *)
Occurrences(byte, from, to) == {o \in from..(to - 1) : Byte(o) = byte}

(* _chunk_end: after the last newline, or else the last space, of the second *)
(* half of the chunk; or else between two characters.                        *)
ChunkEnd ==
  LET hardEnd  == Smaller(Length, start + ChunkBytes)
      minimum  == Smaller(hardEnd, start + ChunkBytes \div 2)
      newlines == Occurrences("nl", minimum, hardEnd)
      spaces   == Occurrences("sp", minimum, hardEnd)
  IN  CASE hardEnd = Length                                         -> hardEnd
        [] hardEnd # Length /\ newlines # {}                        -> Greatest(newlines) + 1
        [] hardEnd # Length /\ newlines = {} /\ spaces # {}         -> Greatest(spaces) + 1
        [] OTHER                                                    -> Utf8Boundary(hardEnd)

(* Mutant: a container that ends or starts where the chunk starts or ends is *)
(* cited too.                                                                *)
TouchedAround(from, to) == {k \in 1..Len(containers) : containers[k].from <= to /\ containers[k].to >= from}

(* Mutant: a container that starts before the chunk is not cited. *)
StartedIn(from, to) == {k \in 1..Len(containers) : containers[k].from < to /\ containers[k].from >= from}

(* The containers a chunk touches, or the one its separator follows. *)
Touched(from, to) == {k \in 1..Len(containers) : containers[k].from < to /\ containers[k].to > from}
Nearest(offset) ==
  LET preceding == {k \in 1..Len(containers) : containers[k].from <= offset}
  IN  IF preceding = {} THEN 1 ELSE Greatest(preceding)
Cited(from, to) == IF Touched(from, to) = {} THEN {Nearest(from)} ELSE Touched(from, to)

(* Mutant: the next chunk starts without an overlap. *)
WriteChunkEndToStart ==
  /\ pc = "chunk"
  /\ chunks' = Append(chunks, [from |-> start, to |-> ChunkEnd,
                               first |-> Least(Cited(start, ChunkEnd)) - 1,
                               last |-> Greatest(Cited(start, ChunkEnd)) - 1])
  /\ IF ChunkEnd = Length THEN pc' = "done" /\ UNCHANGED start
     ELSE start' = Utf8Boundary(ChunkEnd) /\ UNCHANGED pc
  /\ UNCHANGED contentVars

(* One iteration of _write_chunks. *)
WriteChunk ==
  /\ pc = "chunk"
  /\ chunks' = Append(chunks, [from |-> start, to |-> ChunkEnd,
                               first |-> Least(Cited(start, ChunkEnd)) - 1,
                               last |-> Greatest(Cited(start, ChunkEnd)) - 1])
  /\ IF ChunkEnd = Length THEN pc' = "done" /\ UNCHANGED start
     ELSE /\ start' = Utf8Boundary(Larger(start + 1, ChunkEnd - OverlapBytes))
          /\ UNCHANGED pc
  /\ UNCHANGED contentVars

Next == StartContainer \/ WriteBlock \/ EndContainer \/ ContentWritten \/ WriteChunk

Spec == Init /\ [][Next]_vars

-----------------------------------------------------------------------------
TypeOK ==
  /\ doc \in Seq(Seq(Seq(Bytes)))
  /\ pc \in {"container", "block", "chunk", "done"}
  /\ c \in 1..(Len(doc) + 1) /\ b \in Nat \ {0}
  /\ canonical \in Seq(Bytes)
  /\ blocks \in Seq(Seq(Ranges))
  /\ containers \in Seq(Ranges)
  /\ start \in Nat
  /\ chunks \in Seq(Chunks)

(* The offsets the reader relies on: every block reads back from the text as *)
(* it went in, and the containers lie in order, a separator between two.     *)
Slice(r) == SubSeq(canonical, r.from + 1, r.to)
RangesReadBack ==
  /\ \A k \in 1..Len(blocks) : \A i \in 1..Len(blocks[k]) : Slice(blocks[k][i]) = doc[k][i]
  /\ \A k \in 1..(Len(containers) - 1) :
       Slice([from |-> containers[k].to, to |-> containers[k + 1].from]) = Separator
  /\ \A k \in 1..(c - 1) : \A i \in 1..Len(blocks[k]) :
       containers[k].from <= blocks[k][i].from /\ blocks[k][i].to <= containers[k].to

(* The loop makes progress: each chunk is a stretch of at most ChunkBytes    *)
(* bytes that starts and ends behind the one before it.                      *)
ChunksAdvance ==
  /\ \A i \in 1..Len(chunks) : chunks[i].to - chunks[i].from \in 1..ChunkBytes
  /\ \A i \in 1..(Len(chunks) - 1) :
       chunks[i].from < chunks[i + 1].from /\ chunks[i].to < chunks[i + 1].to

(* What the overlap is for: every stretch of OverlapBytes bytes, or all of a *)
(* shorter text, is held by one chunk, so that a phrase of up to that length *)
(* is found wherever it is and no byte of the text is left out of the index. *)
PhrasesAreSearchable ==
  LET phrase == Smaller(Length, OverlapBytes)
  IN  pc = "done" /\ canonical # <<>> =>
        \A o \in 0..(Length - phrase) :
          \E i \in 1..Len(chunks) : chunks[i].from <= o /\ o + phrase <= chunks[i].to

(* A search hit names the containers to read, by the first and the last of   *)
(* them. Every container the chunk has text of is among them, and neither    *)
(* end is too far out: it lies across or within the chunk; or the chunk lies *)
(* between the starts of one container and the next, and cites the one. What *)
(* is between the ends may be empty.                                         *)
HasTextOf(chunk, k) == \E o \in chunk.from..(chunk.to - 1) : containers[k].from <= o /\ o < containers[k].to
Reaches(chunk, k)   == containers[k].from < chunk.to /\ chunk.from < containers[k].to
LiesBehind(chunk, k) ==
  /\ containers[k].from <= chunk.from
  /\ k < Len(containers) => chunk.to <= containers[k + 1].from
CitesWell(chunk) ==
  /\ chunk.first <= chunk.last /\ chunk.last < Len(containers)
  /\ \A k \in 1..Len(containers) : HasTextOf(chunk, k) => chunk.first <= k - 1 /\ k - 1 <= chunk.last
  /\ \/ Reaches(chunk, chunk.first + 1) /\ Reaches(chunk, chunk.last + 1)
     \/ chunk.first = chunk.last /\ LiesBehind(chunk, chunk.first + 1)
CitationsHoldTheHit == \A i \in 1..Len(chunks) : CitesWell(chunks[i])
=============================================================================
