---------------------------- MODULE StreamVerify ----------------------------
(***************************************************************************)
(* The image on its way to the disk: write_image (deploy.rs) over fetch_to *)
(* and stream_verify (image.rs).  The body of the response is read in      *)
(* chunks of any size, bounded by the capacity of the disk, hashed and     *)
(* written as it comes; the digest is compared after the last byte is      *)
(* written.  The unit of length is a block.  Two bodies have the same      *)
(* digest if they are the same.                                            *)
(***************************************************************************)
EXTENDS Naturals, Sequences

CONSTANTS
  BuildMax,      \* DEFAULT_MAX_IMAGE_BYTES
  MaxRead,       \* READ_BUF_BYTES, the most one read returns
  ImageLength,   \* the length of the image that has the expected digest
  Capacities,    \* the capacities a target disk may have
  Bodies         \* what an image host may send: per block, whether it is the image's

ASSUME StreamAssumption ==
  /\ BuildMax \in Nat /\ MaxRead \in Nat \ {0} /\ ImageLength \in Nat
  /\ Capacities \subseteq Nat
  /\ Bodies \subseteq Seq({"image", "wrong"})

VARIABLES
  body,       \* the body the image host sends
  reported,   \* the capacity Phase 1 found, 0 if it is unknown
  disk,       \* the blocks of the target disk
  total,      \* the blocks read
  written,    \* the blocks written
  stream      \* "connect", "read", "write", or what write_image returned

streaming == <<body, reported, disk, total, written, stream>>

-----------------------------------------------------------------------------
\* effective_max_bytes
Cap == IF reported = 0 THEN BuildMax
       ELSE IF reported < BuildMax THEN reported ELSE BuildMax

IsImage(b) == Len(b) = ImageLength /\ \A i \in DOMAIN b : b[i] = "image"

Shorter(a, b) == IF a < b THEN a ELSE b

\* Mutant: the reader is limited to the bound itself.
LimitedToCap == Shorter(Len(body), Cap)

\* Mutant: the reader is not limited.
NotLimited == Len(body)

\* reader.take(max_bytes + 1): what can be read of the body.
Limited == Shorter(Len(body), Cap + 1)

Return(result) == stream' = result /\ UNCHANGED <<body, reported, disk, total, written>>

\* The digest of the command line parses, the disk opens and is the one selected, and
\* the host answers with a 2xx; or nothing is read.
Connect ==
  /\ stream = "connect"
  /\ Return("read") \/ Return("refused")

\* One chunk; the chunk that exceeds the bound is not written.
ReadChunk ==
  /\ stream = "read"
  /\ \E n \in 1 .. MaxRead :
       /\ total + n <= Limited
       /\ total' = total + n
       /\ stream' = IF total + n > Cap THEN "tooLarge" ELSE "write"
  /\ UNCHANGED <<body, reported, disk, written>>

\* The connection breaks off, or the body takes longer than RECV_BODY_TIMEOUT.
ReadFails == stream = "read" /\ Return("readFailed")

\* write_all: the whole chunk, or a part of it and an error, be it that the disk ends.
WriteChunk ==
  /\ stream = "write"
  /\ \E upto \in written .. total :
       /\ upto <= Len(disk)
       /\ disk' = [i \in DOMAIN disk |-> IF i \in written + 1 .. upto THEN body[i] ELSE disk[i]]
       /\ written' = upto
       /\ stream' = IF upto = total THEN "read" ELSE "writeFailed"
  /\ UNCHANGED <<body, reported, total>>

\* The end of the body: flush, the digest over what was read, and sync_all.
EndOfBody ==
  /\ stream = "read" /\ total = Limited
  /\ IF IsImage(SubSeq(body, 1, total)) THEN Return("ok") \/ Return("syncFailed")
                                        ELSE Return("mismatch")

StreamInit ==
  /\ body \in Bodies
  /\ \E c \in Capacities :
       /\ disk = [i \in 1 .. c |-> "old"]
       /\ reported \in {0, c}
  /\ total = 0 /\ written = 0
  /\ stream = "connect"

StreamStep == Connect \/ ReadChunk \/ ReadFails \/ WriteChunk \/ EndOfBody

-----------------------------------------------------------------------------
\* Type correctness; never more than one block past the bound is pulled from the
\* connection (image.rs:264-266).
StreamTypeOK ==
  /\ body \in Bodies
  /\ disk \in Seq({"old", "image", "wrong"})
  /\ total \in 0 .. Cap + 1 /\ written \in 0 .. Len(disk)
  /\ stream \in {"connect", "read", "write", "refused", "tooLarge", "readFailed",
                 "writeFailed", "mismatch", "syncFailed", "ok"}

\* The end of the stream is told as what it is, at and around the bound: the write
\* succeeds only if the host sent the image, all of it is on the disk and the rest of
\* the disk is as before; a body that exceeds the bound, by however little, is never
\* taken for a wrong digest, nor one that just fits for too large; and nothing past
\* the bound is ever written (image.rs:250-293, deploy.rs:413-425).
StreamIsExact ==
  /\ stream = "ok" => /\ IsImage(body) /\ written = ImageLength
                      /\ \A i \in DOMAIN disk : disk[i] = IF i <= ImageLength THEN "image" ELSE "old"
  /\ stream = "mismatch" => ~IsImage(body) /\ Len(body) <= Cap
  /\ stream = "tooLarge" => Len(body) > Cap
  /\ \A i \in DOMAIN disk : i > Cap => disk[i] = "old"
=============================================================================
