------------------------------- MODULE Knowledge -------------------------------
(***************************************************************************)
(* What the business's knowledge becomes before a question finds it.       *)
(*                                                                         *)
(*   app/services/knowledge_service.py   _chunk_text, chunks_from_...,     *)
(*                                       build_index, search               *)
(*   app/domain/schemas.py               RetrievalResult                   *)
(*                                                                         *)
(* A text is a sequence of paragraphs, a paragraph of sentences, and of a  *)
(* sentence only the number of its characters matters.  A chunk is         *)
(* [size, holds]: the places <<paragraph, sentence>> it holds whole.       *)
(*                                                                         *)
(* An operator whose name has an underscore is a plausible wrong version   *)
(* of the definition that follows it.                                      *)
(***************************************************************************)
EXTENDS Integers, Sequences, FiniteSets, SequencesExt

CONSTANTS
  MaxChunk,          \* MAX_CHUNK_CHARS
  MinChunk,          \* MIN_CHUNK_CHARS
  MaxContext,        \* as_context_block's max_chars
  TopK               \* chunks a question may bring

ASSUME KnowledgeAssumption ==
  /\ {MaxChunk, MinChunk, MaxContext, TopK} \subseteq Nat
  /\ 0 < MinChunk /\ MinChunk <= MaxChunk /\ 0 < TopK
--------------------------------------------------------------------------------
(***************************************************************************)
(* The chunker.  Its buffers are chunks too; nothing is the empty one.     *)
(***************************************************************************)
Nothing == [size |-> 0, holds |-> <<>>]

Joined(buffer, piece, gap) ==
  IF buffer = Nothing THEN piece
  ELSE [size |-> buffer.size + gap + piece.size, holds |-> buffer.holds \o piece.holds]

Flushed(chunks, buffer) == IF buffer = Nothing THEN chunks ELSE Append(chunks, buffer)

Sentence(text, p, s) == [size |-> text[p][s], holds |-> << <<p, s>> >>]
Paragraph(text, p) ==
  FoldLeft(LAMBDA b, s : Joined(b, Sentence(text, p, s), 1), Nothing,
           [s \in DOMAIN text[p] |-> s])

(* sentence[:max_chars]                                                    *)
Cut(piece) == IF piece.size <= MaxChunk THEN piece ELSE [size |-> MaxChunk, holds |-> <<>>]

(* A piece that no longer fits starts a new buffer.                        *)
Packed(state, piece, gap) ==
  IF state.buffer.size + piece.size + gap > MaxChunk
  THEN [chunks |-> Flushed(state.chunks, state.buffer), buffer |-> Cut(piece)]
  ELSE [state EXCEPT !.buffer = Joined(@, piece, gap)]

Closed(state) == [chunks |-> Flushed(state.chunks, state.buffer), buffer |-> Nothing]

(* A paragraph longer than a chunk is packed sentence by sentence, after   *)
(* what was waiting and with nothing after it.                             *)
Split_WaitingLost(state, text, p) ==
  Closed(FoldLeft(LAMBDA st, s : Packed(st, Sentence(text, p, s), 1),
                  [state EXCEPT !.buffer = Nothing], [s \in DOMAIN text[p] |-> s]))
Split(state, text, p) ==
  Closed(FoldLeft(LAMBDA st, s : Packed(st, Sentence(text, p, s), 1),
                  Closed(state), [s \in DOMAIN text[p] |-> s]))

(* _chunk_text: what is too short is dropped, be it all there is.          *)
Take(state, text, p) ==
  IF Paragraph(text, p).size > MaxChunk THEN Split(state, text, p)
                                        ELSE Packed(state, Paragraph(text, p), 2)

Packing(text) ==
  Closed(FoldLeft(LAMBDA st, p : Take(st, text, p), [chunks |-> <<>>, buffer |-> Nothing],
                  [p \in DOMAIN text |-> p])).chunks

LongEnough(chunks) ==
  FoldLeft(LAMBDA kept, c : IF c.size >= MinChunk THEN Append(kept, c) ELSE kept, <<>>, chunks)

Chunks(text) == LongEnough(Packing(text))

(* Neither a paragraph nor a sentence is empty.                            *)
AllTexts == Seq(Seq(Nat \ {0}) \ {<<>>})

Places(text) == UNION {{p} \X DOMAIN text[p] : p \in DOMAIN text}
Before(a, b) == a[1] < b[1] \/ (a[1] = b[1] /\ a[2] < b[2])
Holds(c)     == {c.holds[n] : n \in DOMAIN c.holds}

(* Chunks keep to their sizes and to the order of the text, and a sentence *)
(* is in one of them, once, unless it is too long for any or too short to  *)
(* be a chunk: what is cut or dropped is never a sentence that fits.       *)
KeepsText(text) ==
  LET chunks == Chunks(text)
  IN /\ \A i \in DOMAIN chunks :
          /\ chunks[i].size \in MinChunk..MaxChunk
          /\ \A m, n \in DOMAIN chunks[i].holds :
               m < n => Before(chunks[i].holds[m], chunks[i].holds[n])
     /\ \A i, j \in DOMAIN chunks :
          i < j => \A a \in Holds(chunks[i]), b \in Holds(chunks[j]) : Before(a, b)
     /\ \A at \in Places(text) :
          text[at[1]][at[2]] \in MinChunk..MaxChunk =>
            \E i \in DOMAIN chunks : at \in Holds(chunks[i])
--------------------------------------------------------------------------------
(***************************************************************************)
(* The index: [id, size] of each chunk.  A fact of business.yaml is a      *)
(* chunk of its own whatever its length; a chunk of a file is cited by the *)
(* file's stem and its own place.                                          *)
(***************************************************************************)
FromConfig(facts) == {f \in facts : f.size > 0}

(* A file [stem, readable, text]: too large, unreadable, hidden ones and   *)
(* README files are passed over.                                           *)
FromFile(file) ==
  IF ~ file.readable THEN {}
  ELSE {[id |-> <<file.stem, i>>, size |-> Chunks(file.text)[i].size] :
          i \in DOMAIN Chunks(file.text)}

Index(facts, files) == FromConfig(facts) \cup UNION {FromFile(f) : f \in files}

(* What a question may find.  The best score counts as 1, so where any     *)
(* word is shared something is found; which chunks share words is open.    *)
Findable(index) == {hits \in SUBSET index : Cardinality(hits) <= TopK}

Ids(hits) == {h.id : h \in hits}

(* The prompt shows hits from the best on, up to the first that is too     *)
(* much; first is the best.                                                *)
Shown(first) == first.size <= MaxContext
================================================================================
