-------------------------------- MODULE Chunker --------------------------------
(***************************************************************************)
(* chunkText (core/documents/chunker.ts): a text is cut into overlapping   *)
(* chunks of at most `size` characters, at a paragraph, a sentence or a    *)
(* word where one lies late enough in the window.                          *)
(*                                                                         *)
(* Of a character only its class matters: whitespace other than a line     *)
(* break or a space is left out.  The code's offset n lies before position *)
(* n + 1 of the text, and a chunk is the set of positions it consists of.  *)
(***************************************************************************)
EXTENDS Integers, Sequences

CONSTANTS
    MaxLen,     \* bound on the length of the text
    Sizes,      \* chunk sizes asked for
    Overlaps    \* overlaps asked for

ASSUME LenAssumption == MaxLen \in Nat
ASSUME OptionsAssumption == Sizes \subseteq Int /\ Overlaps \subseteq Int

VARIABLES
    text,       \* the normalised text
    size,       \* characters per chunk
    overlap,    \* characters that adjacent chunks share
    start,      \* where the current window begins
    cut,        \* where the last chunk ended
    chunks,     \* the chunks so far
    pc          \* "check", "loop", "done" or "rejected"

varsChunker == <<text, size, overlap, start, cut, chunks, pc>>
input == <<text, size, overlap>>

(* A letter, one of . ! ?, a space, a line break. *)
Chars == {"letter", "stop", "space", "newline"}

White(p) == text[p] \in {"space", "newline"}

-----------------------------------------------------------------------------
(* The text has been trimmed, \r\n has become \n. *)
InitChunker ==
    /\ text \in UNION {[1..n -> Chars] : n \in 0..MaxLen}
    /\ text # << >> => ~White(1) /\ ~White(Len(text))
    /\ size \in Sizes /\ overlap \in Overlaps
    /\ start = 0 /\ cut = 0
    /\ chunks = << >>
    /\ pc = "check"

(* The argument checks, and the texts that need no cutting. *)
Check ==
    /\ pc = "check"
    /\ IF size <= 0 \/ overlap < 0 \/ overlap >= size
       THEN pc' = "rejected" /\ UNCHANGED chunks
       ELSE IF Len(text) <= size
            THEN /\ pc' = "done"
                 /\ chunks' = IF text = << >> THEN << >> ELSE <<1..Len(text)>>
            ELSE pc' = "loop" /\ UNCHANGED chunks
    /\ UNCHANGED <<input, start, cut>>

End == IF start + size < Len(text) THEN start + size ELSE Len(text)

(***************************************************************************)
(* Offsets in the window at which a paragraph break, the end of a sentence *)
(* or a space begins.                                                      *)
(***************************************************************************)
At(i) == text[start + i + 1]
Paragraphs == {i \in 0..(End - start - 2) : At(i) = "newline" /\ At(i + 1) = "newline"}
Sentences == {i \in 0..(End - start - 2) : At(i) = "stop" /\ At(i + 1) = "space"}
Spaces == {i \in 0..(End - start - 1) : At(i) = "space"}

(* lastIndexOf: the last member of S, as a set of at most one member. *)
Last(S) == {i \in S : \A j \in S : j <= i}

(***************************************************************************)
(* The boundary picked, if any: the last paragraph break if it lies beyond *)
(* 0.4 of the size, else the last sentence end beyond 0.4, else the last   *)
(* space beyond 0.6.                                                       *)
(***************************************************************************)
Pick ==
    LET paragraph == {i \in Last(Paragraphs) : 5 * i > 2 * size}
        sentence == {i \in Last(Sentences) : 5 * i > 2 * size}
        space == {i \in Last(Spaces) : 5 * i > 3 * size}
    IN IF paragraph # {} THEN paragraph
       ELSE IF sentence # {} THEN sentence ELSE space

(* Mistake: only the blanks at the end go. *)
SliceEndTrimmed(from, to) ==
    {p \in (from + 1)..to : \E r \in (from + 1)..to : p <= r /\ ~White(r)}

(* The positions between two offsets, trimmed. *)
Slice(from, to) ==
    {p \in (from + 1)..to : \E q, r \in (from + 1)..to :
                              q <= p /\ p <= r /\ ~White(q) /\ ~White(r)}

(* Mistake: a boundary is taken wherever it lies. *)
NextCutAnySpace ==
    IF End < Len(text) /\ Spaces # {} THEN {start + i + 1 : i \in Last(Spaces)} ELSE {End}

(* Where the chunk ends: at the pick, which it includes, or at the window's end. *)
NextCut ==
    IF End < Len(text) /\ Pick # {} THEN {start + i + 1 : i \in Pick} ELSE {End}

(* Mistake: the window moves on by what a full chunk would allow. *)
NextStartFullWindow(c) == start + size - overlap

(* Mistake: the overlap alone says where the next window begins. *)
NextStartByOverlap(c) == IF c - overlap > 0 THEN c - overlap ELSE 0

(* Math.max(cut - overlap, start + 1) *)
NextStart(c) == IF c - overlap > start + 1 THEN c - overlap ELSE start + 1

(* One turn of the loop. *)
Cut ==
    /\ pc = "loop"
    /\ \E c \in NextCut :
         /\ cut' = c
         /\ chunks' = IF Slice(start, c) = {} THEN chunks
                      ELSE Append(chunks, Slice(start, c))
         /\ IF c >= Len(text)
            THEN pc' = "done" /\ UNCHANGED start
            ELSE start' = NextStart(c) /\ UNCHANGED pc
    /\ UNCHANGED input

NextChunker == Check \/ Cut

(* The function has no wait: it keeps taking steps. *)
SpecChunker == InitChunker /\ [][NextChunker]_varsChunker

-----------------------------------------------------------------------------
(* Types; offsets lie in the text, chunks consist of its positions. *)
TypeOKChunker ==
    /\ text \in Seq(Chars) /\ Len(text) <= MaxLen
    /\ size \in Sizes /\ overlap \in Overlaps
    /\ start \in 0..Len(text) /\ cut \in 0..Len(text)
    /\ chunks \in Seq(SUBSET (1..Len(text)))
    /\ pc \in {"check", "loop", "done", "rejected"}

Chunked(p) == \E n \in 1..Len(chunks) : p \in chunks[n]

(***************************************************************************)
(* No text is lost at a boundary, an overlap or a slice of nothing but     *)
(* whitespace: what is not whitespace lies in some chunk, so a search can  *)
(* find it.                                                                *)
(***************************************************************************)
NoTextLost ==
    pc = "done" => \A p \in 1..Len(text) : ~White(p) => Chunked(p)

(***************************************************************************)
(* chunker.test.ts:21: "Every chunk should be <= size-ish".  Wherever the  *)
(* boundary was picked, a chunk is a piece of the text without gaps, never *)
(* longer than size and never blank, that begins and ends with text.       *)
(***************************************************************************)
ChunksFit ==
    \A n \in 1..Len(chunks) :
      /\ chunks[n] # {}
      /\ \A p, q \in chunks[n] : q - p < size /\ p..q \subseteq chunks[n]
      /\ \A p \in chunks[n] : \E q, r \in chunks[n] :
           q <= p /\ p <= r /\ ~White(q) /\ ~White(r)

(***************************************************************************)
(* Each turn but the last moves the window on and not beyond the text,     *)
(* whatever the overlap, one short of the size too: the loop ends.  As     *)
(* long as the overlap is at most 0.4 of the size, and one more, each      *)
(* chunk also ends behind the one before it; with a larger one the next    *)
(* window may find the same boundary again, and so repeat the tail of the  *)
(* chunk as a chunk of its own.                                            *)
(***************************************************************************)
Advances ==
    [][Cut => /\ pc' = "loop" => start < start' /\ start' < Len(text)
              /\ 5 * (overlap - 1) <= 2 * size => cut' > cut]_varsChunker
=============================================================================
