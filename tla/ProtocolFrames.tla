--------------------------- MODULE ProtocolFrames ---------------------------
(***************************************************************************)
(* ProtocolCodec on both ends of a pipe: a message is written as a length, *)
(* a header of that length and the payloads the header names, and read     *)
(* back field by field in whatever pieces the pipe hands out. A payload is *)
(* spooled to a temporary file; the files are closed when reading fails,   *)
(* or when the message was handled.                                        *)
(*                                                                         *)
(* A byte is <<message, field, position>>: where it is from, which the     *)
(* reader does not know until the field is complete. Field 0 is the        *)
(* length, 1 the header, and i + 1 payload i.                              *)
(***************************************************************************)
EXTENDS Naturals, Sequences, FiniteSets, SequencesExt, FiniteSetsExt

CONSTANTS
  Messages,     \* what may be sent: a sequence of payloads [role, length]
  Roles,        \* PayloadRole
  LengthBytes,  \* HEADER_LENGTH.size (4)
  MaxHeader,    \* MAX_HEADER_BYTES (64 KiB)
  MaxPayload,   \* MAX_PAYLOAD_BYTES (256 MiB)
  MaxTotal,     \* MAX_TOTAL_PAYLOAD_BYTES (320 MiB)
  MaxSent       \* bound: messages sent

ASSUME FramesAssumption ==
  /\ Messages \subseteq Seq([role : Roles, length : Nat])
  /\ LengthBytes \in Nat \ {0} /\ MaxSent \in Nat
  /\ MaxHeader \in Nat /\ MaxPayload \in Nat /\ MaxTotal \in Nat

VARIABLES
  sent,      \* the messages whose writing began
  writing,   \* the last of them is being written
  part,      \* the field that is written
  put,       \* how many of its bytes were
  open,      \* the writing end is open
  stream,    \* bytes in the pipe
  phase,     \* the reader: "reading", "handling", "reporting", "ended"; or "lost"
  current,   \* the message that is read
  field,     \* the field that is read
  got,       \* its bytes so far
  spools,    \* the payloads with an open spool file
  received   \* the messages read whole

writerVars == <<sent, writing, part, put, open>>
readerVars == <<phase, current, field, got, spools, received>>
frameVars  == <<writerVars, stream, readerVars>>

FramesInit ==
  /\ sent = <<>> /\ writing = FALSE /\ part = 0 /\ put = 0 /\ open = TRUE /\ stream = <<>>
  /\ phase = "reading" /\ current = <<>> /\ field = 0 /\ got = <<>> /\ spools = {} /\ received = <<>>

-----------------------------------------------------------------------------
HeaderSize(message) == 2 + Len(message)
FieldSize(message, f) ==
  CASE f = 0 -> LengthBytes [] f = 1 -> HeaderSize(message) [] OTHER -> message[f - 1].length
Field(n, message, f) == [k \in 1..FieldSize(message, f) |-> <<n, f, k>>]
Total(message, i) == MapThenSumSet(LAMBDA k : message[k].length, 1..i)

(* What write and read check: a role once, a payload and their sum limited. *)
PayloadFits(message, i) ==
  /\ \A k \in 1..(i - 1) : message[k].role # message[i].role
  /\ message[i].length <= MaxPayload
  /\ Total(message, i) <= MaxTotal
HeaderFits(message) == HeaderSize(message) <= MaxHeader
Valid(message) == HeaderFits(message) /\ \A i \in DOMAIN message : PayloadFits(message, i)

(* write: what is refused is refused before its first byte, and ends the     *)
(* writer. A peer that does not check sends it.                              *)
StartMessage ==
  /\ open /\ ~writing /\ Len(sent) < MaxSent
  /\ \E message \in Messages :
       \/ sent' = Append(sent, message) /\ writing' = TRUE /\ UNCHANGED open
       \/ ~Valid(message) /\ open' = FALSE /\ UNCHANGED <<sent, writing>>
  /\ UNCHANGED <<part, put, stream, readerVars>>

(* One byte reaches the pipe, of the length, the header, or a copied chunk.  *)
WriteByte ==
  /\ open /\ writing /\ put < FieldSize(Last(sent), part)
  /\ put' = put + 1
  /\ stream' = Append(stream, <<Len(sent), part, put'>>)
  /\ UNCHANGED <<sent, writing, part, open, readerVars>>

(* The next field, or the end of the message. *)
NextPart ==
  /\ open /\ writing /\ put = FieldSize(Last(sent), part)
  /\ put' = 0
  /\ IF part <= Len(Last(sent)) THEN part' = part + 1 /\ UNCHANGED writing
     ELSE part' = 0 /\ writing' = FALSE
  /\ UNCHANGED <<sent, open, stream, readerVars>>

(* The writer ends: between messages, or within one because a backing file   *)
(* is truncated (write_to) or the process is killed.                         *)
EndWriting ==
  /\ open
  /\ open' = FALSE
  /\ UNCHANGED <<sent, writing, part, put, stream, readerVars>>

-----------------------------------------------------------------------------
(* Mutant: what one read returns is all of the field. *)
CompleteAfterOneRead == got # <<>> \/ FieldSize(current, field) = 0

Complete == Len(got) = FieldSize(current, field)

(* One read of _read_exact or receive: at most what is missing. *)
ReadPiece ==
  /\ phase = "reading" /\ ~Complete
  /\ \E n \in 1..Min({FieldSize(current, field) - Len(got), Len(stream)}) :
       got' = got \o SubSeq(stream, 1, n) /\ stream' = SubSeq(stream, n + 1, Len(stream))
  /\ UNCHANGED <<writerVars, phase, current, field, spools, received>>

(* Mutant: only the spool of the payload that failed is closed. *)
FailReadingLeaky ==
  /\ phase' = "ended" /\ spools' = spools \ {field - 1}
  /\ UNCHANGED <<current, field, got, received>>

(* Both ExitStacks close what they hold, and the error ends the process. *)
FailReading ==
  /\ phase' = "ended" /\ spools' = {}
  /\ UNCHANGED <<current, field, got, received>>

(* A read returns nothing: the message is truncated. *)
ReadNothing ==
  /\ phase = "reading" /\ ~Complete
  /\ stream = <<>> /\ ~open
  /\ FailReading
  /\ UNCHANGED <<writerVars, stream>>

(* From a complete field on: a payload is checked before its file is made    *)
(* and its bytes are read, and after the last one the message is there.      *)
NextField(message, f) ==
  IF (f = 0 /\ ~HeaderFits(message)) \/ (f \in DOMAIN message /\ ~PayloadFits(message, f))
  THEN FailReading
  ELSE /\ current' = message
       /\ got' = <<>>
       /\ spools' = IF f \in DOMAIN message THEN spools \cup {f} ELSE spools
       /\ IF f < 1 \/ f \in DOMAIN message
          THEN field' = f + 1 /\ UNCHANGED <<phase, received>>
          ELSE field' = 0 /\ phase' = "handling" /\ received' = Append(received, message)

(* What the bytes say when they are those of one field; or else nonsense.    *)
ReadField ==
  /\ phase = "reading" /\ Complete
  /\ LET n == got[1][1]
     IN  IF got # <<>> /\ got # Field(n, sent[n], field)
         THEN phase' = "lost" /\ UNCHANGED <<current, field, got, spools, received>>
         ELSE NextField(IF field = 0 THEN sent[n] ELSE current, field)
  /\ UNCHANGED <<writerVars, stream>>

(* The with block of the message ends. *)
CloseMessage ==
  /\ phase' = "reading" /\ current' = <<>> /\ spools' = {}
  /\ UNCHANGED <<field, got, received>>

FramesNext == StartMessage \/ WriteByte \/ NextPart \/ EndWriting \/ ReadPiece \/ ReadNothing \/ ReadField

-----------------------------------------------------------------------------
(* However the pipe cuts them into pieces, messages arrive as they were      *)
(* sent, in order, and never one that exceeds a limit; a reader gives up     *)
(* only over such a message or when the stream ends within one (or before    *)
(* the next), never over one the writing codec let through.                  *)
FramesStayAligned ==
  /\ phase # "lost"
  /\ IsPrefix(received, sent)
  /\ \A n \in DOMAIN received : Valid(received[n])
  /\ phase = "ended" => \/ stream = <<>> /\ ~open
                        \/ ~Valid(sent[Len(received) + 1])

(* A spool file is open only for a payload of the message in hand: none is   *)
(* left when reading failed, and none when the next message is read.         *)
SpoolsAreClosed ==
  /\ spools \subseteq DOMAIN current
  /\ (phase = "ended" \/ (phase = "reading" /\ field = 0)) => spools = {}
=============================================================================
