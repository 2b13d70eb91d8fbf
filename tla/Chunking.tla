------------------------------- MODULE Chunking -------------------------------
(***************************************************************************)
(* How a document is cut into chunks for the vector index                  *)
(* (services/ai/rag/chunking.py): paragraphs, sentences where a paragraph  *)
(* is too long, single words where a sentence is, then packed greedily     *)
(* into chunks that start with the last words of their predecessor.        *)
(* A text is a sequence of words [at, size, ends]: the position in the     *)
(* document, the number of characters, and whether the word ends a         *)
(* "sentence", a "paragraph" or nothing ("").  Offsets are left out.       *)
(***************************************************************************)
EXTENDS Integers, Sequences, SequencesExt

CONSTANTS Documents,  \* the texts to cut
          Configs     \* the limits: [chars, tokens, overlapChars, overlapTokens]

Words == [at : Nat, size : Nat \ {0}, ends : {"", "sentence", "paragraph"}]

\* _validate_config
ASSUME ChunkingAssumption ==
  \A c \in Configs : /\ c.chars \in Nat \ {0} /\ c.tokens \in Nat \ {0}
                     /\ c.overlapChars \in Nat /\ c.overlapTokens \in Nat
ASSUME DocumentAssumption == \A text \in Documents : text \in Seq(Words)

VARIABLES config,   \* the limits in use
          document, \* the text that is cut
          segments, \* its pieces, in order
          next,     \* the first piece that is not packed yet
          parts,    \* the chunk under construction: pieces, after words it repeats
          chunks    \* the chunks emitted, as sequences of pieces

vars == <<config, document, segments, next, parts, chunks>>

\* The length of the words joined by single spaces.
Chars(words) ==
  LET sizes[n \in 0..Len(words)] == IF n = 0 THEN 0 ELSE sizes[n - 1] + words[n].size
  IN  sizes[Len(words)] + Len(words) - 1
Fits(c, words) == Chars(words) <= c.chars /\ Len(words) <= c.tokens

-----------------------------------------------------------------------------
(* Splitting *)

\* Whether the word w goes on with the group of words before it.
Joins(c, unit, group, w) ==
  CASE unit = "paragraph" -> Last(group).ends # "paragraph"
    [] unit = "sentence" -> Last(group).ends = ""
    [] unit = "words" -> Fits(c, Append(group, w))

\* A further word joins the last group or starts one.
Accumulate(c, unit, groups, w) ==
  IF groups # <<>> /\ Joins(c, unit, Last(groups), w)
  THEN [groups EXCEPT ![Len(groups)] = Append(@, w)]
  ELSE Append(groups, <<w>>)

\* The text cut into paragraphs, sentences, or as many words as a chunk holds.
Split(c, unit, text) ==
  LET groups[n \in 0..Len(text)] ==
        IF n = 0 THEN <<>> ELSE Accumulate(c, unit, groups[n - 1], text[n])
  IN  groups[Len(text)]

SplitSentence(c, text) == IF Fits(c, text) THEN <<text>> ELSE Split(c, "words", text)
SplitParagraph(c, text) ==
  LET sentences == Split(c, "sentence", text)
  IN  IF Fits(c, text) THEN <<text>>
      ELSE FlattenSeq([i \in DOMAIN sentences |-> SplitSentence(c, sentences[i])])

\* The pieces of the document; none of them is an overlap, a repetition of a chunk.
AsSegments(pieces) == [i \in DOMAIN pieces |-> [words |-> pieces[i], overlap |-> FALSE]]

\* Mutant: a sentence that is too long is kept in one piece.
SplitSegmentsBySentence(c, text) == AsSegments(Split(c, "sentence", text))

SplitSegments(c, text) ==
  LET paragraphs == Split(c, "paragraph", text)
  IN  AsSegments(FlattenSeq(
        [i \in DOMAIN paragraphs |-> SplitParagraph(c, paragraphs[i])]))

-----------------------------------------------------------------------------
(* Packing *)

JoinSegments(ps) == FlattenSeq([i \in DOMAIN ps |-> ps[i].words])
WithinLimits(ps) == Fits(config, JoinSegments(ps))

\* The longest end of the text within the overlap limits; a limit of 0 is none.
OverlapText(words) ==
  LET suffix(n) == SubSeq(words, Len(words) - n + 1, Len(words))
      allowed(n) == /\ config.overlapTokens = 0 \/ n <= config.overlapTokens
                    /\ config.overlapChars = 0 \/ Chars(suffix(n)) <= config.overlapChars
  IN  suffix(CHOOSE n \in 0..Len(words) :
        /\ \A k \in 1..n : allowed(k)
        /\ n = Len(words) \/ ~allowed(n + 1))

\* What the next chunk repeats of this one: nothing when that would be all of it.
OverlapSegment(ps) ==
  LET text == JoinSegments(ps)
      overlap == OverlapText(text)
  IN  IF overlap = <<>> \/ overlap = text THEN <<>>
      ELSE <<[words |-> overlap, overlap |-> TRUE]>>

\* Mutant: nothing is left of a chunk, not even when it was never emitted.
FlushDropsParts(s) == [chunks |-> s.chunks, parts |-> <<>>]

\* The chunk under construction is emitted and its overlap begins the next one.
Flush(s) ==
  IF s.parts = <<>> THEN s
  ELSE [chunks |-> Append(s.chunks, s.parts), parts |-> OverlapSegment(s.parts)]

\* Mutant: the segment joins whatever is under construction.
PlaceAnyway(s, segment) == Append(s.parts, segment)

\* The segment joins the parts when they fit together, else it stands alone.
Place(s, segment) ==
  IF s.parts = <<>> \/ WithinLimits(Append(s.parts, segment))
  THEN Append(s.parts, segment) ELSE <<segment>>

\* Parts that are nothing but overlap give way to the segment without being emitted.
MakeRoom(s, segment) ==
  IF /\ s.parts # <<>> /\ ~WithinLimits(Append(s.parts, segment))
     /\ \E i \in DOMAIN s.parts : ~s.parts[i].overlap
  THEN Flush(s) ELSE s

\* When the segment alone is too long, the parts it would replace are emitted first,
\* overlap or not.
MakeWay(s, segment) ==
  IF s.parts # <<>> /\ ~WithinLimits(Place(s, segment)) THEN Flush(s) ELSE s

Pack ==
  /\ next <= Len(segments)
  /\ LET segment == segments[next]
         s == MakeWay(MakeRoom([chunks |-> chunks, parts |-> parts], segment), segment)
     IN  chunks' = s.chunks /\ parts' = Place(s, segment)
  /\ next' = next + 1
  /\ UNCHANGED <<config, document, segments>>

\* The flush after the last segment; what it carries over is dropped.
Finish ==
  /\ next = Len(segments) + 1 /\ parts # <<>>
  /\ chunks' = Flush([chunks |-> chunks, parts |-> parts]).chunks
  /\ parts' = <<>>
  /\ UNCHANGED <<config, document, segments, next>>

Init ==
  /\ config \in Configs
  /\ document \in Documents
  /\ segments = SplitSegments(config, document)
  /\ next = 1 /\ parts = <<>> /\ chunks = <<>>

Next == Pack \/ Finish

Spec == Init /\ [][Next]_vars
-----------------------------------------------------------------------------
(* Properties *)

\* What a chunk adds to the ones before it: all but an overlap at its beginning.
Own(ps) == IF ps # <<>> /\ Head(ps).overlap THEN Tail(ps) ELSE ps

\* No word of the document is lost, doubled or out of order, however it is split and
\* whatever is flushed, carried over or dropped on the way: what the chunks and the one
\* under construction add, and the pieces not packed yet, are the document.
Packed == FlattenSeq([i \in DOMAIN chunks |-> Own(chunks[i])]) \o Own(parts)
NothingDropped ==
  JoinSegments(Packed \o SubSeq(segments, next, Len(segments))) = document

\* "assert all(len(chunk.text) <= 80 ...)" (tests/test_rag.py:96-97): a chunk keeps to
\* both limits, the words it repeats included; only a single word can be longer.
ChunksFit ==
  \A i \in DOMAIN chunks :
    WithinLimits(chunks[i]) \/ Len(JoinSegments(chunks[i])) = 1

\* A chunk that only repeats its predecessor is emitted nowhere but before a word
\* that is longer than a chunk: there the code gives the echo a chunk of its own.
EchoesBeforeLongWords ==
  \A i \in DOMAIN chunks : Own(chunks[i]) = <<>> =>
    LET after == IF i < Len(chunks) THEN chunks[i + 1] ELSE parts
    IN  Len(after) = 1 /\ ~WithinLimits(after)
=============================================================================
