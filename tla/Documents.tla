----------------------------- MODULE Documents -----------------------------
(***************************************************************************)
(* The document store: an upload writes the file and its metadata, then    *)
(* replaces its chunks in the search index, which the chat's document      *)
(* tools read (src/app/documents/, the upload endpoint of web.py).  An     *)
(* upload stands for the text it brings, a page of it for its length, and  *)
(* a chunk for where on its page it starts and ends.                       *)
(***************************************************************************)
EXTENDS Naturals, Sequences, FiniteSets

CONSTANTS
    Docs,      \* <project>/<filename>: the ids of the documents
    Uploads,   \* the uploads, each with its text
    Pages,     \* Pages[u]: the length of each page's extractable text
    ChunkSize, Overlap,
    NoUpload, NoDoc

ASSUME DocumentsAssumption ==
    /\ Pages \in [Uploads -> Seq(Nat)]
    /\ ChunkSize \in Nat /\ Overlap \in 0 .. ChunkSize - 1
    /\ NoUpload \notin Uploads /\ NoDoc \notin Docs

VARIABLES
    upload,   \* how far each upload is, and of which document it is
    disk,     \* disk[d]: the upload whose bytes the file d holds
    rows,     \* rows[d]: the uploads whose chunks the index holds for d
    mixed     \* history: the documents two uploads were at work on at once

documents == <<upload, disk, rows, mixed>>

-----------------------------------------------------------------------------
(* Chunking *)

\* Seeded defect: a chunk begins where the one before it ends.
Windows_NoOverlap(n) ==
    LET w[s \in 0 .. n] ==
          IF s + ChunkSize >= n THEN {<<s, n>>}
          ELSE {<<s, s + ChunkSize>>} \cup w[s + ChunkSize]
    IN  IF n = 0 THEN {} ELSE w[0]

\* chunk_pages on one page of n characters.
Windows(n) ==
    LET w[s \in 0 .. n] ==
          IF s + ChunkSize >= n THEN {<<s, n>>}
          ELSE {<<s, s + ChunkSize>>} \cup w[s + ChunkSize - Overlap]
    IN  IF n = 0 THEN {} ELSE w[0]

\* Scans: extract_native_text finds no text on any page.
Scanned == {u \in Uploads : \A i \in DOMAIN Pages[u] : Windows(Pages[u][i]) = {}}

-----------------------------------------------------------------------------
(* An upload *)

Steps == {"new", "saved", "cleared", "ended", "lost"}
Busy(u) == upload[u].step \in {"saved", "cleared"}

DocumentsOK ==
    /\ upload \in [Uploads -> [step : Steps, doc : Docs \cup {NoDoc}]]
    /\ disk \in [Docs -> Uploads \cup {NoUpload}]
    /\ rows \in [Docs -> SUBSET (Uploads \ Scanned)]
    /\ mixed \subseteq Docs

InitDocuments ==
    /\ upload = [u \in Uploads |-> [step |-> "new", doc |-> NoDoc]]
    /\ disk = [d \in Docs |-> NoUpload]
    /\ rows = [d \in Docs |-> {}]
    /\ mixed = {}

\* ManualUploadSource.save does not await: file and metadata go together.
SaveFile(u, d) ==
    /\ upload[u].step = "new"
    /\ upload' = [upload EXCEPT ![u] = [step |-> "saved", doc |-> d]]
    /\ disk' = [disk EXCEPT ![d] = u]
    /\ mixed' = IF \E w \in Uploads : Busy(w) /\ upload[w].doc = d
                THEN mixed \cup {d} ELSE mixed
    /\ UNCHANGED rows

\* Seeded defect: an upload without text leaves the old chunks in the index.
ClearChunks_KeepsScanned(u) ==
    /\ upload[u].step = "saved"
    /\ rows' = IF u \in Scanned THEN rows
               ELSE [rows EXCEPT ![upload[u].doc] = {}]
    /\ upload' = [upload EXCEPT ![u].step =
                    IF u \in Scanned THEN "ended" ELSE "cleared"]
    /\ UNCHANGED <<disk, mixed>>

\* add_document, the first transaction: what the index holds is deleted.
ClearChunks(u) ==
    /\ upload[u].step = "saved"
    /\ rows' = [rows EXCEPT ![upload[u].doc] = {}]
    /\ upload' = [upload EXCEPT ![u].step =
                    IF u \in Scanned THEN "ended" ELSE "cleared"]
    /\ UNCHANGED <<disk, mixed>>

\* The second transaction: the new chunks, if there are any.
InsertChunks(u) ==
    /\ upload[u].step = "cleared"
    /\ rows' = [rows EXCEPT ![upload[u].doc] = @ \cup {u}]
    /\ upload' = [upload EXCEPT ![u].step = "ended"]
    /\ UNCHANGED <<disk, mixed>>

\* The process dies; what is on disk stays.
LoseUploads ==
    /\ upload' = [u \in Uploads |->
         IF Busy(u) THEN [upload[u] EXCEPT !.step = "lost"] ELSE upload[u]]
    /\ UNCHANGED <<disk, rows, mixed>>

Uploading ==
    \E u \in Uploads :
        \/ \E d \in Docs : SaveFile(u, d)
        \/ ClearChunks(u)
        \/ InsertChunks(u)

-----------------------------------------------------------------------------
(* Properties *)

(***************************************************************************)
(* "Re-indexing replaces, never duplicates" (documents/index.py:120), as   *)
(* far as it holds: when the upload whose bytes the file has is through,   *)
(* and no two uploads of the document met, the index holds the text of the *)
(* file and nothing else, whatever died half way before.                   *)
(***************************************************************************)
IndexedAsStored ==
    \A d \in Docs \ mixed :
        LET u == disk[d]
        IN  (u # NoUpload /\ upload[u].step = "ended")
              => rows[d] = {u} \ Scanned

\* What the search can find whole: each passage of at most Overlap characters
\* lies within one chunk, none of which is longer than ChunkSize.
WholePassages(n) ==
    /\ \A w \in Windows(n) : w[1] < w[2] /\ w[2] - w[1] <= ChunkSize
    /\ \A a \in 0 .. n, b \in 0 .. n :
         (a < b /\ b - a <= Overlap)
           => \E w \in Windows(n) : w[1] <= a /\ b <= w[2]

Findable ==
    {u \in Uploads : \A i \in DOMAIN Pages[u] : WholePassages(Pages[u][i])}

(***************************************************************************)
(* Wherever a document's pages are cut, a passage no longer than the       *)
(* overlap is whole in some chunk of the index, up to the last character   *)
(* of the page: the search matches single chunks (ingest.py, chunk_pages). *)
(***************************************************************************)
PassagesFound == \A d \in Docs : rows[d] \subseteq Findable
=============================================================================
