--------------------------- MODULE MCPdfExtraction ---------------------------
(* Instances of PdfExtraction for TLC: every document of PageCount pages. *)
EXTENDS PdfExtraction, TLC
=============================================================================
