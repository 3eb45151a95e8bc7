---------------------------- MODULE TextPipeline ----------------------------
(***************************************************************************)
(* documents/ingest: the way from the pages of a PDF to chunks.            *)
(*                                                                         *)
(* A line is what the regular expressions of structure.js see of it, its   *)
(* length in characters, and its text: sentences, which are sequences of   *)
(* words, which are numbers of tokens.  Two lines with the same record     *)
(* have the same text.  Tokens are taken to add up, and every prefix to    *)
(* have as many.                                                           *)
(***************************************************************************)
EXTENDS Integers, SequencesExt

CONSTANTS
    Shapes,       \* lines a page may have
    MaxLines,     \* bound: lines in a document
    MaxPages,     \* bound: pages of a document
    EdgeLines,    \* lines at either end of a page: slice(0, 2), slice(-2)
    MinChars,     \* MIN_CHARS_PER_PAGE
    PrefixTokens, \* of "title - heading", which every chunk starts with
    Target,       \* target: tokens of a chunk
    Cap,          \* cap: tokens a chunk may not exceed
    Overlap       \* overlap * target

ASSUME TextAssumption ==
    /\ PrefixTokens \in Nat /\ Target \in Nat /\ Cap \in Nat
    /\ Target <= Cap
    /\ EdgeLines \in Nat
    /\ MinChars \in Nat \ {0}
    /\ \A l \in Shapes :
          /\ l.text \in Seq(Seq(Nat))
          /\ \A s \in DOMAIN l.text : \A w \in DOMAIN l.text[s] :
                PrefixTokens + l.text[s][w] <= Cap

VARIABLE pages    \* the pages extractPages has read: sequences of lines

TextInit == pages = << <<>> >>

LinesIn(ps) == FoldLeft(LAMBDA n, page : n + Len(page), 0, ps)

AddLine ==
    /\ LinesIn(pages) < MaxLines
    /\ \E l \in Shapes : pages' = [pages EXCEPT ![Len(pages)] = Append(@, l)]

AddPage ==
    /\ Len(pages) < MaxPages
    /\ pages' = Append(pages, <<>>)

TextNext == AddLine \/ AddPage

TextSpec == TextInit /\ [][TextNext]_pages

\* Array.prototype.filter
Filter(seq, Test(_)) ==
    FlattenSeq([n \in DOMAIN seq |-> IF Test(seq[n]) THEN <<seq[n]>> ELSE <<>>])

-----------------------------------------------------------------------------
(* extract.js *)

\* Every line with its place.
Text == [p \in DOMAIN pages |-> [i \in DOMAIN pages[p] |-> [line |-> pages[p][i], at |-> <<p, i>>]]]

\* Mutation: a line is counted wherever it is on a page.
Edges_AllLines(page) == ToSet(page)

\* The first and the last lines of a page, which may be the same.
Edges(page) ==
    {page[i] : i \in {n \in DOMAIN page : n <= EdgeLines \/ n + EdgeLines > Len(page)}}

PagesWith(l) == Cardinality({p \in DOMAIN pages : l \in Edges(pages[p])})

\* A document of three pages or more repeats what half of them have on an edge.
Repeated(l) == Len(pages) >= 3 /\ PagesWith(l) >= (Len(pages) + 1) \div 2

stripBoilerplate ==
    [p \in DOMAIN Text |->
        Filter(Text[p], LAMBDA l : ~Repeated(l.line) /\ l.line.kind # "page number")]

\* The lines joined by one newline less than there are lines are too short.
IsEmptyPage(page) == FoldLeft(LAMBDA n, l : n + l.line.chars, 0, page) + Len(page) <= MinChars

\* assertExtractable: at most three in ten pages are without text.
Extractable(ps) == 10 * Cardinality({p \in DOMAIN ps : IsEmptyPage(ps[p])}) <= 3 * Len(ps)

-----------------------------------------------------------------------------
(* structure.js *)

toLines(ps) == FlattenSeq(ps)

Section(number, heading) ==
    [number |-> number, heading |-> heading, lastClause |-> 0, blocks |-> << <<>> >>]

HasTitle(lines) == lines # <<>> /\ Head(lines).line.kind # "section"

\* A heading has the next number and looks like a title, a clause has the next
\* number of its section; every other line belongs to the block before it.
ParseLine(sections, l) ==
    LET s == Last(sections)
        line == l.line
        Put(t) == [sections EXCEPT ![Len(sections)] = t]
    IN  IF line.kind = "section" /\ line.number = s.number + 1 /\ line.titled
        THEN Append(sections, Section(line.number, l))
        ELSE IF line.kind = "clause" /\ line.number = s.number /\ line.clause = s.lastClause + 1
        THEN Put([s EXCEPT !.lastClause = line.clause, !.blocks = Append(@, <<l>>)])
        ELSE Put([s EXCEPT !.blocks[Len(s.blocks)] = Append(@, l)])

Sections(lines) ==
    FoldLeft(ParseLine, <<Section(0, "Preamble")>>, IF HasTitle(lines) THEN Tail(lines) ELSE lines)

\* Empty blocks are dropped, and sections without a block with their heading.
parseStructure(lines) ==
    LET sections == Sections(lines)
        Blocks(s) == [s EXCEPT !.blocks = Filter(@, LAMBDA b : b # <<>>)]
    IN  Filter([n \in DOMAIN sections |-> Blocks(sections[n])], LAMBDA s : s.blocks # <<>>)

-----------------------------------------------------------------------------
(* chunk.js *)

\* A piece is a sequence of words of one line.
Sentence(l, s) ==
    [w \in DOMAIN l.line.text[s] |-> [word |-> <<l.at, s, w>>, tokens |-> l.line.text[s][w]]]

WholeLine(l) == FlattenSeq([s \in DOMAIN l.line.text |-> Sentence(l, s)])

Tokens(words) == FoldLeft(LAMBDA n, w : n + w.tokens, 0, words)

\* countTokens(prefix + join(pieces))
CountTokens(pieces) == PrefixTokens + Tokens(FlattenSeq(pieces))

\* The words of a sentence over the cap, packed.
PackWord(out, w) ==
    IF out # <<>> /\ CountTokens(<<Append(Last(out), w)>>) <= Cap
    THEN [out EXCEPT ![Len(out)] = Append(@, w)]
    ELSE Append(out, <<w>>)

splitToFit(l) ==
    FlattenSeq([s \in DOMAIN l.line.text |->
        IF CountTokens(<<Sentence(l, s)>>) <= Cap THEN <<Sentence(l, s)>>
        ELSE FoldLeft(PackWord, <<>>, Sentence(l, s))])

toPieces(block) ==
    FlattenSeq([n \in DOMAIN block |->
        IF CountTokens(<<WholeLine(block[n])>>) <= Cap THEN <<WholeLine(block[n])>>
        ELSE splitToFit(block[n])])

From(seq, n) == SubSeq(seq, n, Len(seq))

\* The pieces at the end of a window, without its first, until they have
\* Overlap tokens.
overlapTail(win) ==
    LET taken == {n \in 2 .. Len(win) : Tokens(FlattenSeq(From(win, n + 1))) < Overlap}
    IN  IF taken = {} THEN <<>> ELSE From(win, Min(taken))

\* Mutation: the tail is kept whole.
FitTail_Whole(tail, piece) == tail

\* The tail, without as many pieces of its front as are too many for the cap.
FitTail(tail, piece) ==
    From(tail, Min({n \in 1 .. Len(tail) : CountTokens(Append(From(tail, n), piece)) <= Cap}
                       \cup {Len(tail) + 1}))

AddPiece(acc, piece) ==
    IF acc.win # <<>> /\ CountTokens(Append(acc.win, piece)) > Target
    THEN [out |-> Append(acc.out, acc.win),
          win |-> Append(FitTail(overlapTail(acc.win), piece), piece)]
    ELSE [acc EXCEPT !.win = Append(@, piece)]

\* Nothing is appended for an empty sequence of pieces.
Flush(chunks, pieces) == IF pieces = <<>> THEN chunks ELSE Append(chunks, pieces)

windows(pieces) ==
    LET acc == FoldLeft(AddPiece, [out |-> <<>>, win |-> <<>>], pieces) IN Flush(acc.out, acc.win)

\* Mutation: what was collected before a long block is forgotten.
AddBlock_NoFlush(acc, block) ==
    LET pieces == [n \in DOMAIN block |-> WholeLine(block[n])]
    IN  IF CountTokens(acc.current \o pieces) <= Target
        THEN [acc EXCEPT !.current = @ \o pieces]
        ELSE IF CountTokens(pieces) <= Cap THEN [acc EXCEPT !.current = pieces]
        ELSE [chunks |-> acc.chunks \o windows(toPieces(block)), current |-> <<>>]

\* Blocks are collected up to the target; one over the cap is cut in windows.
AddBlock(acc, block) ==
    LET pieces == [n \in DOMAIN block |-> WholeLine(block[n])]
        chunks == Flush(acc.chunks, acc.current)
    IN  IF CountTokens(acc.current \o pieces) <= Target
        THEN [acc EXCEPT !.current = @ \o pieces]
        ELSE IF CountTokens(pieces) <= Cap THEN [chunks |-> chunks, current |-> pieces]
        ELSE [chunks |-> chunks \o windows(toPieces(block)), current |-> <<>>]

ChunkSection(s) ==
    LET acc == FoldLeft(AddBlock, [chunks |-> <<>>, current |-> <<>>], s.blocks)
        chunks == Flush(acc.chunks, acc.current)
    IN  [n \in DOMAIN chunks |-> [section |-> s.number, pieces |-> chunks[n]]]

chunkDocument(sections) ==
    FlattenSeq([n \in DOMAIN sections |-> ChunkSection(sections[n])])

-----------------------------------------------------------------------------
(* Properties *)

Chunks ==
    IF Extractable(stripBoilerplate)
    THEN chunkDocument(parseStructure(toLines(stripBoilerplate)))
    ELSE <<>>

\* No chunk is over the cap, wherever lines, sentences and words had to be cut
\* and whatever tail of the chunk before it starts with.
ChunksFit == \A chunk \in ToSet(Chunks) : CountTokens(chunk.pieces) <= Cap

\* What boilerplate is: a line with fewer than EdgeLines lines before or after
\* it on half of the pages, or more, of a document of three pages or more.
OnEdge(l, p) ==
    \E i \in DOMAIN pages[p] :
        pages[p][i] = l /\ (i - 1 < EdgeLines \/ Len(pages[p]) - i < EdgeLines)

Shared(l) == Len(pages) >= 3 /\ 2 * Cardinality({p \in DOMAIN pages : OnEdge(l, p)}) >= Len(pages)

\* The words of an extractable document, but for page numbers, lines that half
\* of the pages share on their edges, the title and the headings, are in its
\* chunks: in order, in the section that the headings before them say, and
\* once, except that a chunk may repeat words of the one before it in its
\* section.  A line that is on few edges is kept however often it comes.
NothingIsLost ==
    LET lines == Filter(toLines(Text),
                           LAMBDA l : ~Shared(l.line) /\ l.line.kind # "page number")
        body == IF HasTitle(lines) THEN Tail(lines) ELSE lines
        headings == {s.heading : s \in ToSet(Tail(Sections(lines)))}
        Expected(n) ==
            LET section == Cardinality({m \in 1 .. n : body[m] \in headings})
                words == WholeLine(body[n])
            IN  IF body[n] \in headings THEN <<>>
                ELSE [w \in DOMAIN words |-> <<section, words[w]>>]
        chunks == Chunks
        Words(n) == LET words == FlattenSeq(chunks[n].pieces)
                    IN  [w \in DOMAIN words |-> <<chunks[n].section, words[w]>>]
        New(n) == IF n = 1 THEN Words(n)
                  ELSE Filter(Words(n), LAMBDA w : w \notin ToSet(Words(n - 1)))
    IN  Extractable(stripBoilerplate) =>
            FlattenSeq([n \in DOMAIN chunks |-> New(n)])
                = FlattenSeq([n \in DOMAIN body |-> Expected(n)])
=============================================================================
