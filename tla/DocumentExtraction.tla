------------------------- MODULE DocumentExtraction -------------------------
(***************************************************************************)
(* DocumentExtractorRouter: the declared media type decides which of the   *)
(* three extractors works on a document; the others have no part in it.    *)
(***************************************************************************)
EXTENDS TextExtraction, OfficeExtraction, PdfPage

vars == <<contentVars, textVars, officeVars, pageVars>>

Init ==
  /\ media \in MediaTypes /\ phase = "start" /\ content = NoContent
  /\ TextInit \/ (media \notin Plain /\ TextIdle)
  /\ PageInit \/ (media # "pdf" /\ PageIdle)
  /\ OfficeInit

(* extract: a type that is not known is refused. *)
RefuseMediaType ==
  /\ phase = "start" /\ media = "unsupported"
  /\ Fail
  /\ UNCHANGED <<media, textVars, officeVars, pageVars>>

Next ==
  \/ RefuseMediaType
  \/ TextNext /\ UNCHANGED <<officeVars, pageVars>>
  \/ OfficeNext /\ UNCHANGED <<textVars, pageVars>>
  \/ PageNext /\ UNCHANGED <<textVars, officeVars>>

Spec == Init /\ [][Next]_vars

-----------------------------------------------------------------------------
(* Neither of the two loops whose end depends on what they compute goes on   *)
(* forever: a round that is not the last leaves less to do, of a paragraph   *)
(* what is behind its first character, up to the same end; of a page a       *)
(* smaller scale (TextDocumentExtractor._blocks,                             *)
(* RasterizationPolicy.bounded_scale).                                       *)
LoopsAdvance ==
  /\ phase = "split" /\ todo # <<>> =>
       LET r == Head(todo)
       IN  \/ r.to - r.from < BlockCharacters
           \/ \E p \in (r.from + 1)..r.to : Strip(text, r.from + Cut(r), r.to) = <<[from |-> p, to |-> r.to]>>
  /\ phase = "scale" =>
       LET w == Pixels(page.width)
           h == Pixels(page.height)
       IN  w * h <= MaxPixels \/ Shrunk(w, h) \in 0..(scale - 1)
=============================================================================
