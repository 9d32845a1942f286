------------------------------ MODULE Chunking ------------------------------
(***************************************************************************)
(* Indexing an uploaded document (chunking.py, index_document in           *)
(* indexing.py, its call in main.py): the text is cut into overlapping     *)
(* chunks along its paragraphs, or along the sentences of a paragraph that *)
(* is too long, the chunks are embedded, and their rows are written.       *)
(*                                                                         *)
(* A text is a sequence of paragraphs, a paragraph the sequence of the     *)
(* lengths of its sentences, none of them empty, and a token its position  *)
(* in the text.  Parts are joined by a blank line, which is the token Gap. *)
(* The encoding is taken to count what is joined as the sum of its parts.  *)
(***************************************************************************)
EXTENDS Naturals, SequencesExt

CONSTANTS
  Text,          \* texts a document may have
  AskedSize,     \* chunk sizes chunk_text may be called with
  AskedOverlap,  \* and overlaps
  MinSize,       \* MIN_CHUNK_SIZE
  MaxSize,       \* MAX_CHUNK_SIZE
  Setting,       \* how a deployment may be configured to embed
  Column,        \* the width of document_chunks.embedding
  MaxBatch       \* texts in one request to OpenAI

ASSUME TextAssumption == Text \subseteq Seq(Seq(Nat \ {0}) \ {<<>>})
ASSUME AskedAssumption == AskedSize \cup AskedOverlap \subseteq Nat
ASSUME SizeAssumption == MinSize \in Nat \ {0} /\ MaxSize \in Nat /\ MinSize <= MaxSize

ASSUME SettingAssumption ==
  Setting \subseteq [provider : {"unset", "openai", "local", "deterministic"},
                     production : BOOLEAN, width : Nat]
ASSUME BatchAssumption == MaxBatch \in Nat \ {0}

VARIABLES
  text,      \* the document's text
  size,      \* chunk_size, clamped
  overlap,   \* overlap, clamped
  para,      \* the paragraph the loop is at
  sentence,  \* the sentence of it the inner loop is at, 0 outside that loop
  read,      \* tokens of the text already in a chunk or in the buffer
  buffer,    \* current_chunk_parts, or in the inner loop sentence_buffer
  chunks,    \* the chunks made so far
  batch,     \* texts sent to the provider at once
  vectors,   \* embeddings received, each named by its text
  rows,      \* rows of document_chunks the session has written
  phase      \* where index_document is

loopVars == <<para, sentence, read, buffer, chunks>>
embedVars == <<batch, vectors, rows>>
indexVars == <<text, size, overlap, loopVars, embedVars, phase>>

Gap == 0
Phases == {"chunking", "chunked", "embedding", "written", "failed", "over"}

\* What the first n of some lengths add up to, and what all of them do.
Sums(lengths) ==
  LET sum[n \in 0..Len(lengths)] == IF n = 0 THEN 0 ELSE sum[n - 1] + lengths[n]
  IN sum
Total(lengths) == Sums(lengths)[Len(lengths)]

Lengths == [p \in DOMAIN text |-> Total(text[p])]
SentenceEnds ==
  LET all == FlattenSeq(text) IN {Sums(all)[k] : k \in DOMAIN all}

ClampedSize(asked) == Max({MinSize, Min({asked, MaxSize})})
ClampedOverlap(asked, s) == Min({asked, s \div 2})

IndexInit ==
  /\ text \in Text
  /\ \E asked \in AskedSize : size = ClampedSize(asked)
  /\ \E asked \in AskedOverlap : overlap = ClampedOverlap(asked, size)
  /\ para = 1 /\ sentence = 0 /\ read = 0
  /\ buffer = <<>> /\ chunks = <<>>
  /\ batch = 0 /\ vectors = <<>> /\ rows = <<>>
  /\ phase = "chunking"
-----------------------------------------------------------------------------
(* Cutting the text                                                        *)

\* The next n tokens of the text: a paragraph, or a sentence of one.
Upcoming(n) == [i \in 1..n |-> read + i]

\* "\n\n".join(parts)
Joined(parts) ==
  LET whole[n \in 1..Len(parts)] ==
        IF n = 1 THEN parts[1] ELSE whole[n - 1] \o <<Gap>> \o parts[n]
  IN IF parts = <<>> THEN <<>> ELSE whole[Len(parts)]

\* current_tokens and sentence_tokens: the parts' own tokens, not what joins them.
Tokens(parts) == Total([i \in DOMAIN parts |-> Len(parts[i])])

\* _find_clean_boundary: what follows the first blank line, or else the first
\* end of a sentence that something follows, or else everything.
CleanBoundary(tail) ==
  LET gaps == {i \in DOMAIN tail : tail[i] = Gap}
      ends == {i \in 1..Len(tail) - 1 : tail[i] \in SentenceEnds}
      boundaries == IF gaps # {} THEN gaps ELSE ends
  IN IF boundaries = {} THEN tail ELSE SubSeq(tail, Min(boundaries) + 1, Len(tail))

\* _get_overlap_text: the end of the chunk just made, repeated in the next.
OverlapOf(parts) ==
  LET whole == Joined(parts) IN
  CASE overlap = 0 -> <<>>
    [] overlap > 0 /\ Len(whole) <= overlap -> parts
    [] OTHER -> <<CleanBoundary(SubSeq(whole, Len(whole) - overlap + 1, Len(whole)))>>

Flushed(parts) == IF parts = <<>> THEN chunks ELSE Append(chunks, Joined(parts))

\* A plausible bug: the buffer is measured without the part to be added.
IsFull_TooLate(n) == Tokens(buffer) > size

IsFull(n) == buffer # <<>> /\ Tokens(buffer) + n > size

\* One turn of either loop: the chunk that has no room is closed, and the
\* next one starts with its end.
Add(n) ==
  /\ chunks' = IF IsFull(n) THEN Flushed(buffer) ELSE chunks
  /\ buffer' = Append(IF IsFull(n) THEN OverlapOf(buffer) ELSE buffer, Upcoming(n))
  /\ read' = read + n

Cutting == phase = "chunking" /\ para <= Len(text)

AddParagraph ==
  /\ Cutting /\ sentence = 0 /\ Total(text[para]) <= size
  /\ Add(Total(text[para]))
  /\ para' = para + 1
  /\ UNCHANGED <<text, size, overlap, sentence, embedVars, phase>>

\* A plausible bug: the paragraphs before a long one are forgotten.
OpenParagraph_Drops ==
  /\ Cutting /\ sentence = 0 /\ Total(text[para]) > size
  /\ buffer' = <<>>
  /\ sentence' = 1
  /\ UNCHANGED <<text, size, overlap, para, read, chunks, embedVars, phase>>

OpenParagraph ==
  /\ Cutting /\ sentence = 0 /\ Total(text[para]) > size
  /\ chunks' = Flushed(buffer)
  /\ buffer' = <<>>
  /\ sentence' = 1
  /\ UNCHANGED <<text, size, overlap, para, read, embedVars, phase>>

AddSentence ==
  /\ Cutting /\ sentence \in DOMAIN text[para]
  /\ Add(text[para][sentence])
  /\ sentence' = sentence + 1
  /\ UNCHANGED <<text, size, overlap, para, embedVars, phase>>

CloseParagraph ==
  /\ Cutting /\ sentence > Len(text[para])
  /\ chunks' = Flushed(buffer)
  /\ buffer' = <<>>
  /\ para' = para + 1 /\ sentence' = 0
  /\ UNCHANGED <<text, size, overlap, read, embedVars, phase>>

\* A text without a paragraph is left alone: there is nothing to embed.
CloseText ==
  /\ phase = "chunking" /\ para > Len(text)
  /\ chunks' = Flushed(buffer)
  /\ phase' = IF text = <<>> THEN "over" ELSE "chunked"
  /\ UNCHANGED <<text, size, overlap, para, sentence, read, buffer, embedVars>>
-----------------------------------------------------------------------------
(* Embedding and writing                                                   *)

\* get_embedding_provider: production has to name one.
ProviderOf(s) ==
  CASE s.provider = "unset" /\ s.production  -> "refused"
    [] s.provider = "unset" /\ ~s.production -> "deterministic"
    [] s.provider # "unset"                  -> s.provider

\* The deterministic vectors are as wide as the column, the models' what they are.
WidthOf(s) == IF ProviderOf(s) = "deterministic" THEN Column ELSE s.width

\* A provider of another width is refused before it is asked.
ChooseProvider ==
  /\ phase = "chunked"
  /\ \E s \in Setting :
       IF ProviderOf(s) # "refused" /\ WidthOf(s) = Column
         THEN /\ phase' = "embedding"
              /\ batch' = IF ProviderOf(s) = "openai" THEN Min({MaxBatch, Len(chunks)})
                                                      ELSE Len(chunks)
         ELSE phase' = "failed" /\ UNCHANGED batch
  /\ UNCHANGED <<text, size, overlap, loopVars, vectors, rows>>

EmbedBatch ==
  LET done == Len(vectors) IN
  /\ phase = "embedding" /\ done < Len(chunks)
  /\ vectors' = vectors \o SubSeq(chunks, done + 1, Min({done + batch, Len(chunks)}))
  /\ UNCHANGED <<text, size, overlap, loopVars, batch, rows, phase>>

\* The provider raises, its vectors are too few or of another width, or the rows
\* are refused because the document has gone meanwhile.
EmbeddingFails ==
  /\ phase = "embedding"
  /\ phase' = "failed"
  /\ UNCHANGED <<text, size, overlap, loopVars, embedVars>>

\* The chunk's place is its index; the separators count among its tokens.
Row(i) == [chunk_index |-> i - 1, content |-> chunks[i], token_count |-> Len(chunks[i]),
           embedding |-> vectors[i]]

WriteRows ==
  /\ phase = "embedding" /\ Len(vectors) = Len(chunks)
  /\ rows' = [i \in DOMAIN chunks |-> Row(i)]
  /\ phase' = "written"
  /\ UNCHANGED <<text, size, overlap, loopVars, batch, vectors>>

\* The failure is logged, the upload is answered, and the session is closed
\* without a commit: what it has flushed goes with it.
EndRequest ==
  /\ phase \in {"written", "failed"}
  /\ rows' = <<>>
  /\ phase' = "over"
  /\ UNCHANGED <<text, size, overlap, loopVars, batch, vectors>>

IndexNext ==
  \/ AddParagraph \/ OpenParagraph \/ AddSentence \/ CloseParagraph
  \/ CloseText \/ ChooseProvider \/ EmbedBatch \/ EmbeddingFails \/ WriteRows
  \/ EndRequest

IndexSpec == IndexInit /\ [][IndexNext]_indexVars
-----------------------------------------------------------------------------
(* Properties                                                              *)

Words(chunk) == ToSet(chunk) \ {Gap}
Span(chunk) == Min(Words(chunk))..Max(Words(chunk))

\* What a chunk may hold besides the overlap it begins with.
Limits == {size} \cup UNION {ToSet(text[p]) : p \in DOMAIN text}

IndexTypeOK ==
  /\ text \in Seq(Seq(Nat \ {0}) \ {<<>>}) /\ size \in MinSize..MaxSize /\ overlap \in 0..size
  /\ para \in 1..Len(text) + 1
  /\ sentence \in 0..(IF para > Len(text) THEN 0 ELSE Len(text[para]) + 1)
  /\ read \in Nat
  /\ buffer \in Seq(Seq(Nat) \ {<<>>}) /\ chunks \in Seq(Seq(Nat) \ {<<>>})
  /\ batch \in 0..Len(chunks) /\ Len(vectors) \in 0..Len(chunks)
  /\ phase \in Phases

\* Nothing of the text is lost or put out of order, whatever the paragraphs
\* and sentences and at every moment of the two loops: the chunks and the
\* buffer hold all that was read, a chunk is one stretch of the text, it goes
\* on where the last one ended or repeats some of its end, at most overlap
\* tokens of it, and it adds something new (chunk_text, _get_overlap_text).  A
\* chunk's row holds the vector of that chunk, however they were sent.
ChunksFollowText ==
  /\ IndexTypeOK
  /\ UNION {Words(c) : c \in ToSet(chunks) \cup {Joined(buffer)}} = 1..read
  /\ phase # "chunking" => /\ read = Total(Lengths)
                           /\ UNION {Words(c) : c \in ToSet(chunks)} = 1..read
  /\ \A c \in ToSet(chunks) :
       /\ Words(c) = Span(c)
       /\ \A i, j \in DOMAIN c : i < j /\ c[i] # Gap /\ c[j] # Gap => c[i] < c[j]
  /\ \A i \in 2..Len(chunks) :
       LET shared == Words(chunks[i]) \cap Words(chunks[i - 1]) IN
       /\ Min(Words(chunks[i])) <= Max(Words(chunks[i - 1])) + 1
       /\ Max(Words(chunks[i])) > Max(Words(chunks[i - 1]))
       /\ Cardinality(shared) <= overlap
  /\ \A i \in DOMAIN rows : rows[i].content = chunks[i] /\ rows[i].embedding = chunks[i]

\* A chunk is no longer than the size asked for, or than the sentence that
\* could not be cut, and the overlap it begins with; the blank lines between
\* its parts come on top, for the loops do not count them (chunk_text).
ChunksAreBounded ==
  \A c \in ToSet(chunks) : \E n \in Limits : Cardinality(Words(c)) <= overlap + n
-----------------------------------------------------------------------------
(* What the proofs need: the chunks and the buffer in their ends.          *)

\* One stretch of the text, with a blank line in it here and there.
IsStretch(chunk) ==
  /\ chunk \in Seq(Nat) /\ chunk # <<>>
  /\ chunk[1] # Gap /\ chunk[Len(chunk)] # Gap
  /\ Words(chunk) = chunk[1]..chunk[Len(chunk)]
  /\ \A i, j \in DOMAIN chunk : i < j /\ chunk[i] # Gap /\ chunk[j] # Gap => chunk[i] < chunk[j]
  /\ \A i \in DOMAIN chunk : chunk[i] = Gap => chunk[i + 1] # Gap

\* A stretch that may follow what ends at done.
Continues(chunk, done, most, limits) ==
  LET first == chunk[1] last == chunk[Len(chunk)] IN
  /\ IsStretch(chunk)
  /\ first <= done + 1 /\ done < last
  /\ done < first + most
  /\ \E n \in limits : last < first + most + n

\* The last token of some chunks.
EndOf(cs) == IF cs = <<>> THEN 0 ELSE Last(Last(cs))

AreChained(cs, most, limits) ==
  /\ \A i \in DOMAIN cs :
       Continues(cs[i], IF i = 1 THEN 0 ELSE Last(cs[i - 1]), most, limits)
  /\ UNION {Words(c) : c \in ToSet(cs)} = 1..EndOf(cs)

\* The buffer is what has been read beyond the chunks, after an overlap.
BufferContinues(parts, done, most, limits, upTo) ==
  IF parts = <<>> THEN done = upTo
  ELSE /\ Continues(Joined(parts), done, most, limits)
       /\ Last(Joined(parts)) = upTo
       /\ upTo < Joined(parts)[1] + Tokens(parts)

\* What was read is what precedes the place of the loops.
ReadUpToHere ==
  read = Sums(Lengths)[para - 1] + (IF sentence = 0 THEN 0 ELSE Sums(text[para])[sentence - 1])

ChunksAreChained == AreChained(chunks, overlap, Limits)

\* The last buffer is a chunk already, once the text is closed.
BufferIsNext ==
  IF phase = "chunking"
    THEN BufferContinues(buffer, EndOf(chunks), overlap, Limits, read)
    ELSE /\ EndOf(chunks) = read /\ para > Len(text)
         /\ buffer # <<>> => IsStretch(Joined(buffer)) /\ Last(Joined(buffer)) = read

\* The vectors come in the order of the chunks, and before the rows.
VectorsAreInOrder ==
  /\ vectors = SubSeq(chunks, 1, Len(vectors))
  /\ phase \in {"chunking", "chunked"} => batch = 0 /\ vectors = <<>> /\ rows = <<>>
  /\ rows # <<>> => vectors = chunks /\ rows = [i \in DOMAIN chunks |-> Row(i)]

\* The inductive invariant.
ChunkInv ==
  IndexTypeOK /\ ReadUpToHere /\ ChunksAreChained /\ BufferIsNext /\ VectorsAreInOrder
=============================================================================
