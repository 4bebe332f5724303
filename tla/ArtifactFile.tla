---------------------------- MODULE ArtifactFile ----------------------------
(***************************************************************************)
(* An artifact from the worker that wrote it to the one that reads it: a   *)
(* header with the size of the database, and the database, compressed.     *)
(* ArtifactWriter makes it, a client keeps it and hands it to a session,   *)
(* and ArtifactReader takes it apart into a temporary file it opens.       *)
(*                                                                         *)
(* Sizes are in units of one page of the database. Where the client keeps  *)
(* the artifact is external: it may come back other than it was written.   *)
(***************************************************************************)
EXTENDS Naturals

CONSTANTS
  DatabaseSizes,  \* how large a document's database may be
  MaxDatabase,    \* MAX_DATABASE_BYTES (256 MiB)
  ReadSize        \* what UnpackChunk reads at a time (64 KiB)

ASSUME FileAssumption ==
  /\ DatabaseSizes \subseteq Nat \ {0}
  /\ MaxDatabase \in Nat \ {0} /\ ReadSize \in Nat \ {0}

VARIABLES
  database,  \* the size of the database of the document
  artifact,  \* header, declared size, content, whether zstd decodes it, schema
  altered,   \* history: it came back other than it was written
  copied,    \* what the reader has written to its temporary file
  files,     \* the temporary files there are
  stage      \* where the artifact is

fileVars == <<database, artifact, altered, copied, files, stage>>

NoArtifact == [header |-> "none", declared |-> 0, content |-> 0, decodes |-> TRUE, schema |-> "none"]

FileInit ==
  /\ database \in DatabaseSizes
  /\ artifact = NoArtifact /\ altered = FALSE
  /\ copied = 0 /\ files = {} /\ stage = "extracted"

-----------------------------------------------------------------------------
(* ExtractDocument.execute and DocumentSession._open_text: a file for the    *)
(* artifact; the database is built in one of its own, gone when it is        *)
(* written out. Nothing here asks how large the database became.             *)
BuildDatabase ==
  /\ stage = "extracted"
  /\ files' = {"artifact", "database"} /\ stage' = "built"
  /\ UNCHANGED <<database, artifact, altered, copied>>

WriteArtifact ==
  /\ stage = "built"
  /\ artifact' = [header |-> "whole", declared |-> database, content |-> database,
                  decodes |-> TRUE, schema |-> "current"]
  /\ files' = files \ {"database"} /\ stage' = "written"
  /\ UNCHANGED <<database, altered, copied>>

(* sqlite3 or the disk fails; the context managers close both files. *)
WriteFails ==
  /\ stage = "built"
  /\ files' = {} /\ stage' = "lost"
  /\ UNCHANGED <<database, artifact, altered, copied>>

(* The artifact is sent, its file closed, and the client hands it back.      *)
Alterations ==
  {[artifact EXCEPT !.header = h] : h \in {"short", "foreign"}}
  \cup {[artifact EXCEPT !.content = n] : n \in (0..(database + 2)) \ {database}}
  \cup {[artifact EXCEPT !.declared = n] : n \in (0..(database + 1)) \ {database}}
  \cup {[artifact EXCEPT !.decodes = FALSE, !.content = n] : n \in 0..database}
  \cup {[artifact EXCEPT !.schema = "other"]}

ReturnArtifact ==
  /\ stage = "written"
  /\ \/ altered' = FALSE /\ artifact' = artifact
     \/ altered' = TRUE  /\ artifact' \in Alterations
  /\ files' = {"copy"} /\ stage' = "header"
  /\ UNCHANGED <<database, copied>>

(* DocumentSession._open_text writes and reads in one call; the artifact's   *)
(* file is there until the reader is.                                        *)
OpenOwn ==
  /\ stage = "written"
  /\ files' = files \cup {"copy"} /\ stage' = "header"
  /\ UNCHANGED <<database, artifact, altered, copied>>

-----------------------------------------------------------------------------
(* ArtifactReader.__init__. An error on the way closes the temporary file.   *)
Refuse == files' = {} /\ stage' = "refused"

HeaderIsGood == artifact.header = "whole" /\ artifact.declared <= MaxDatabase

ReadHeader ==
  /\ stage = "header"
  /\ IF HeaderIsGood THEN stage' = "unpacking" /\ UNCHANGED files ELSE Refuse
  /\ UNCHANGED <<database, artifact, altered, copied>>

(* What is left of the content; bytes that do not decode are its end. *)
Remaining == artifact.content - copied
Piece     == IF Remaining < ReadSize THEN Remaining ELSE ReadSize

UnpackChunk ==
  /\ stage = "unpacking" /\ Remaining > 0
  /\ IF copied + Piece > artifact.declared \/ copied + Piece > MaxDatabase
     THEN Refuse /\ UNCHANGED copied
     ELSE copied' = copied + Piece /\ UNCHANGED <<files, stage>>
  /\ UNCHANGED <<database, artifact, altered>>

(* Mutant: an artifact that ends early is not noticed. *)
EndUnpackShort ==
  /\ stage = "unpacking" /\ Remaining = 0
  /\ IF artifact.decodes THEN stage' = "unpacked" /\ UNCHANGED files ELSE Refuse
  /\ UNCHANGED <<database, artifact, altered, copied>>

(* The decoder reads a stream that was cut short as one that ends: only the  *)
(* header tells that something is missing.                                   *)
EndUnpack ==
  /\ stage = "unpacking" /\ Remaining = 0
  /\ IF artifact.decodes /\ copied = artifact.declared
     THEN stage' = "unpacked" /\ UNCHANGED files ELSE Refuse
  /\ UNCHANGED <<database, artifact, altered, copied>>

(* ArtifactDatabase.__init__; the reader's own copy is what stays.           *)
Connect ==
  /\ stage = "unpacked"
  /\ IF artifact.schema = "current" THEN files' = {"copy"} /\ stage' = "open" ELSE Refuse
  /\ UNCHANGED <<database, artifact, altered, copied>>

(* The disk of the temporary file fails: an OSError, or sqlite3's error.     *)
ReadFails ==
  /\ stage \in {"header", "unpacking", "unpacked"}
  /\ files' = {} /\ stage' = "failed"
  /\ UNCHANGED <<database, artifact, altered, copied>>

Close ==
  /\ stage = "open"
  /\ files' = {} /\ stage' = "closed"
  /\ UNCHANGED <<database, artifact, altered, copied>>

FileStep ==
  \/ BuildDatabase \/ WriteArtifact \/ WriteFails \/ ReturnArtifact \/ OpenOwn
  \/ ReadHeader \/ UnpackChunk \/ EndUnpack \/ Connect \/ ReadFails \/ Close

-----------------------------------------------------------------------------
(* What is queried is the whole database that the header declares, and the   *)
(* one that was written unless it was altered; the disk never holds more     *)
(* than was declared, and no temporary file outlives its use. An artifact    *)
(* that was not altered is refused for one reason only: the writer, which    *)
(* has no limit, made a database larger than the reader accepts.             *)
OpenedIsWhole ==
  /\ stage = "open" => copied = artifact.declared /\ (altered \/ copied = database)
  /\ copied <= artifact.declared /\ copied <= MaxDatabase
  /\ stage \in {"lost", "refused", "failed", "closed"} => files = {}
  /\ stage = "refused" => altered \/ database > MaxDatabase
=============================================================================
