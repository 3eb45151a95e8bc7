------------------------ MODULE TextPipeline_proofs ------------------------
(***************************************************************************)
(* What holds of the chunks of every document.  The sets below are the     *)
(* types of the stages of the pipeline; the bound on a chunk is one of     *)
(* them, so that it is carried through the folds like a type.              *)
(*                                                                         *)
(* That nothing is lost is carried through them as Covers (SequenceLemmas):*)
(* the chunks so far have the words so far, in order, and a word comes     *)
(* twice only in two chunks that follow each other.  No two words of a     *)
(* document are alike, since each has its place, which is what keeps the   *)
(* words of one block, section or line apart from those of the next.       *)
(***************************************************************************)
EXTENDS TextPipeline, SequenceLemmas

-----------------------------------------------------------------------------
(* Types *)

Places == Nat \X Nat

Placed == [line: Shapes, at: Places]

\* A word fits behind the prefix.
Word == [word: Places \X Nat \X Nat, tokens: {t \in Nat : PrefixTokens + t <= Cap}]

Numbers == {0} \cup {l.number : l \in Shapes}

Clauses == {0} \cup {l.clause : l \in Shapes}

Headings == {"Preamble"} \cup Placed

\* A section that is being read has a block; one that has been read need not.
OpenSection ==
    [number: Numbers, heading: Headings, lastClause: Clauses, blocks: Seq(Seq(Placed)) \ {<<>>}]

ReadSection ==
    [number: Numbers, heading: Headings, lastClause: Clauses, blocks: Seq(Seq(Placed))]

\* A piece, and a sequence of pieces, that fits the model.
Piece == {p \in Seq(Word) : CountTokens(<<p>>) <= Cap}

Fitting == {c \in Seq(Seq(Word)) : CountTokens(c) <= Cap}

Chunk == [section: Numbers, pieces: Fitting]

-----------------------------------------------------------------------------
(* Tokens *)

TokensFold(g, words) ==
    g = [t \in SUBSET (1 .. Len(words)) |->
            IF t = {} THEN 0 ELSE g[t \ {Max(t)}] + words[Max(t)].tokens]

TokenStep == [p \in Nat \X Word |-> p[1] + p[2].tokens]

\* Sums of tokens are numbers.
LEMMA TokenStepIsStep == ElementStep(TokenStep, Nat, Word)
<1>1. \A a \in Nat, w \in Word : a + w.tokens \in Nat
  BY DEF Word
<1> QED
  BY <1>1 DEF ElementStep, TokenStep

\* Tokens are counted by a fold.
LEMMA TokensFolds ==
  ASSUME NEW words \in Seq(Word)
  PROVE  Folded(Tokens(words), 0, TokenStep, words, Nat)
<1>1. PICK n \in Nat : n = Len(words) /\ DOMAIN words = 1 .. n
  OBVIOUS
<1>2. \A k \in 1 .. n : words[k] \in Word
  BY <1>1
<1>3. PICK step : step = TokenStep
  OBVIOUS
<1>4. \A a \in Nat, w \in Word : step[<<a, w>>] = a + w.tokens
  BY <1>3 DEF TokenStep
<1>5. \E g : TokensFold(g, words)
  <2>1. PICK g \in [SUBSET (1 .. n) -> Nat] :
               g = [t \in SUBSET (1 .. n) |->
                      IF t = {} THEN 0 ELSE step[<<g[t \ {Max(t)}], words[Max(t)]>>]]
    <3>1. \E g : IsFoldOver(g, 0, step, words, Nat)
      BY <1>3, TokenStepIsStep, FoldOverExists
    <3> QED
      BY <1>1, <3>1 DEF IsFoldOver
  <2>2. ASSUME NEW t \in SUBSET (1 .. n), t # {}
        PROVE  step[<<g[t \ {Max(t)}], words[Max(t)]>>] = g[t \ {Max(t)}] + words[Max(t)].tokens
    <3>1. Max(t) \in 1 .. n /\ t \ {Max(t)} \in SUBSET (1 .. n)
      BY <2>2, MaxIsMost
    <3>2. g[t \ {Max(t)}] \in Nat
      BY <3>1
    <3> QED
      BY <1>2, <1>4, <3>1, <3>2
  <2>3. TokensFold(g, words)
    BY <1>1, <2>1, <2>2 DEF TokensFold
  <2> QED
    BY <2>3
<1>6. PICK g : g = CHOOSE h : TokensFold(h, words)
  OBVIOUS
<1>7. TokensFold(g, words)
  BY <1>5, <1>6
<1>8. Tokens(words) = g[1 .. n]
  BY <1>1, <1>6 DEF Tokens, FoldLeft, MapThenFoldSet, TokensFold
<1>9. FoldsOver(g, 0, step, words, Nat)
  <2>1. g[{}] = 0
    BY <1>7 DEF TokensFold
  <2>2. ASSUME NEW t \in SUBSET (1 .. n), t # {}, g[t \ {Max(t)}] \in Nat
        PROVE  g[t] = step[<<g[t \ {Max(t)}], words[Max(t)]>>]
    <3>1. Max(t) \in 1 .. n
      BY <2>2, MaxIsMost
    <3>2. g[t] = g[t \ {Max(t)}] + words[Max(t)].tokens
      BY <1>1, <1>7, <2>2 DEF TokensFold
    <3> QED
      BY <1>2, <1>4, <2>2, <3>1, <3>2
  <2> QED
    BY <1>1, <2>1, <2>2 DEF FoldsOver
<1> QED
  BY <1>1, <1>3, <1>8, <1>9 DEF Folded

\* Their number.
LEMMA TokensIsNumber == ASSUME NEW words \in Seq(Word) PROVE Tokens(words) \in Nat
<1>1. 0 \in Nat
  OBVIOUS
<1> QED
  BY <1>1, TokensFolds, TokenStepIsStep, FoldedStays

\* A word counts for itself.
LEMMA TokensOfOne == ASSUME NEW w \in Word PROVE Tokens(<<w>>) = w.tokens
<1>1. PICK none \in Seq(Word) : none = <<>>
  <2>1. <<>> \in Seq(Word)
    OBVIOUS
  <2> QED
    BY <2>1
<1>2. PICK one \in Seq(Word) : one = Append(none, w)
  <2>1. Append(none, w) \in Seq(Word)
    OBVIOUS
  <2> QED
    BY <2>1
<1>3. PICK step : step = TokenStep
  OBVIOUS
<1>4. PICK zero : zero = 0
  OBVIOUS
<1>5. PICK q : q = Tokens(one)
  OBVIOUS
<1>6. q = step[<<zero, w>>]
  <2>1. PICK N : N = Nat
    OBVIOUS
  <2>2. Folded(Tokens(none), zero, step, none, N)
    BY <1>3, <1>4, <2>1, TokensFolds
  <2>3. Folded(zero, zero, step, none, N)
    <3>1. Tokens(none) = zero
      BY <1>1, <2>2, FoldedNone
    <3> QED
      BY <2>2, <3>1
  <2>4. Folded(q, zero, step, Append(none, w), N)
    BY <1>2, <1>3, <1>4, <1>5, <2>1, TokensFolds
  <2>5. ElementStep(step, N, Word) /\ zero \in N
    BY <1>3, <1>4, <2>1, TokenStepIsStep
  <2> QED
    BY <2>3, <2>4, <2>5, FoldedAppend
<1>7. step[<<zero, w>>] = w.tokens
  BY <1>3, <1>4 DEF TokenStep, Word
<1>8. one = <<w>>
  BY <1>1, <1>2
<1> QED
  BY <1>5, <1>6, <1>7, <1>8

\* Counts are numbers.
LEMMA CountIsNumber ==
  ASSUME NEW pieces \in Seq(Seq(Word))
  PROVE  CountTokens(pieces) \in Nat
<1>1. FlattenSeq(pieces) \in Seq(Word)
  BY FlattenTypes
<1>2. Tokens(FlattenSeq(pieces)) \in Nat
  BY <1>1, TokensIsNumber
<1> QED
  BY <1>2, TextAssumption DEF CountTokens

\* A word is a piece, and a piece a sequence that fits.
LEMMA WordFits == ASSUME NEW w \in Word PROVE <<w>> \in Piece
<1>1. <<w>> \in Seq(Word)
  OBVIOUS
<1>2. CountTokens(<< <<w>> >>) = PrefixTokens + w.tokens
  BY <1>1, FlattenOne, TokensOfOne DEF CountTokens
<1> QED
  BY <1>1, <1>2 DEF Piece, Word

\* A piece is a chunk.
LEMMA PieceFits == ASSUME NEW p \in Piece PROVE <<p>> \in Fitting /\ p \in Seq(Word)
  BY DEF Piece, Fitting

-----------------------------------------------------------------------------
(* Pieces *)

\* The words of a line.
LEMMA SentenceTypes ==
  ASSUME NEW l \in Placed
  PROVE  /\ l.line.text \in Seq(Seq(Nat))
         /\ \A s \in DOMAIN l.line.text : Sentence(l, s) \in Seq(Word)
         /\ WholeLine(l) \in Seq(Word)
<1>1. l.line \in Shapes /\ l.at \in Places
  BY DEF Placed
<1>2. PICK text \in Seq(Seq(Nat)) : text = l.line.text
  BY <1>1, TextAssumption
<1>3. \A s \in DOMAIN text : \A w \in DOMAIN text[s] : PrefixTokens + text[s][w] <= Cap
  BY <1>1, <1>2, TextAssumption
<1>4. ASSUME NEW s \in DOMAIN text PROVE Sentence(l, s) \in Seq(Word)
  <2>1. PICK t \in Seq(Nat) : t = text[s]
    OBVIOUS
  <2>2. PICK n \in Nat : n = Len(t) /\ DOMAIN t = 1 .. n
    OBVIOUS
  <2>3. \A w \in 1 .. n : t[w] \in {x \in Nat : PrefixTokens + x <= Cap}
    BY <1>3, <2>1, <2>2
  <2>4. s \in Nat
    BY <1>2
  <2>5. \A w \in 1 .. n : [word |-> <<l.at, s, w>>, tokens |-> t[w]] \in Word
    BY <1>1, <2>3, <2>4 DEF Word
  <2>6. [w \in 1 .. n |-> [word |-> <<l.at, s, w>>, tokens |-> t[w]]] \in Seq(Word)
    BY <2>5
  <2> QED
    BY <1>2, <2>1, <2>2, <2>6 DEF Sentence
<1>5. PICK n \in Nat : n = Len(text) /\ DOMAIN text = 1 .. n
  OBVIOUS
<1>6. [s \in 1 .. n |-> Sentence(l, s)] \in Seq(Seq(Word))
  BY <1>4, <1>5
<1>7. FlattenSeq([s \in 1 .. n |-> Sentence(l, s)]) \in Seq(Word)
  BY <1>6, FlattenTypes
<1> QED
  BY <1>2, <1>4, <1>5, <1>7 DEF WholeLine

\* Packing one more word.
LEMMA PackWordKeeps ==
  ASSUME NEW out \in Seq(Piece), NEW w \in Word
  PROVE  PackWord(out, w) \in Seq(Piece)
<1>1. <<w>> \in Piece
  BY WordFits
<1>2. Append(out, <<w>>) \in Seq(Piece)
  BY <1>1
<1>3. ASSUME out # <<>>, CountTokens(<<Append(Last(out), w)>>) <= Cap
      PROVE  [out EXCEPT ![Len(out)] = Append(@, w)] \in Seq(Piece)
  <2>1. PICK n \in Nat : n = Len(out) /\ n # 0 /\ DOMAIN out = 1 .. n
    BY <1>3
  <2>2. PICK last \in Piece : last = out[n] /\ last = Last(out)
    <3>1. out[n] \in Piece
      BY <2>1
    <3> QED
      BY <2>1, <3>1 DEF Last
  <2>3. PICK p : p = Append(last, w)
    OBVIOUS
  <2>4. p \in Seq(Word)
    BY <2>3 DEF Piece
  <2>5. p \in Piece
    BY <1>3, <2>2, <2>3, <2>4 DEF Piece
  <2>6. [out EXCEPT ![n] = p] \in Seq(Piece)
    BY <2>1, <2>5
  <2> QED
    BY <2>1, <2>2, <2>3, <2>6
<1> QED
  BY <1>2, <1>3 DEF PackWord

\* Nothing is pieces.
LEMMA NoPieces == <<>> \in Seq(Piece)
OBVIOUS

PackFold(g, words) ==
    g = [t \in SUBSET (1 .. Len(words)) |->
            IF t = {} THEN <<>> ELSE PackWord(g[t \ {Max(t)}], words[Max(t)])]

PackStep == [p \in Seq(Piece) \X Word |-> PackWord(p[1], p[2])]

\* What is added to Seq(Piece) is in Seq(Piece).
LEMMA PackStepIsStep == ElementStep(PackStep, Seq(Piece), Word)
<1>1. \A a \in Seq(Piece), w \in Word : PackWord(a, w) \in Seq(Piece)
  BY PackWordKeeps
<1> QED
  BY <1>1 DEF ElementStep, PackStep

\* Packing the words of a sequence.
LEMMA PackWordFolds ==
  ASSUME NEW words \in Seq(Word)
  PROVE  Folded(FoldLeft(PackWord, <<>>, words), <<>>, PackStep, words, Seq(Piece))
<1>1. PICK n \in Nat : n = Len(words) /\ DOMAIN words = 1 .. n
  OBVIOUS
<1>2. \A k \in 1 .. n : words[k] \in Word
  BY <1>1
<1>3. PICK step : step = PackStep
  OBVIOUS
<1>4. PICK none \in Seq(Piece) : none = <<>>
  BY NoPieces
<1>5. \A a \in Seq(Piece), w \in Word : step[<<a, w>>] = PackWord(a, w)
  BY <1>3 DEF PackStep
<1>6. \E g : PackFold(g, words)
  <2>1. PICK g \in [SUBSET (1 .. n) -> Seq(Piece)] :
               g = [t \in SUBSET (1 .. n) |->
                      IF t = {} THEN none ELSE step[<<g[t \ {Max(t)}], words[Max(t)]>>]]
    <3>1. \E g : IsFoldOver(g, none, step, words, Seq(Piece))
      BY <1>3, PackStepIsStep, FoldOverExists
    <3> QED
      BY <1>1, <3>1 DEF IsFoldOver
  <2>2. ASSUME NEW t \in SUBSET (1 .. n), t # {}
        PROVE  step[<<g[t \ {Max(t)}], words[Max(t)]>>] = PackWord(g[t \ {Max(t)}], words[Max(t)])
    <3>1. Max(t) \in 1 .. n /\ t \ {Max(t)} \in SUBSET (1 .. n)
      BY <2>2, MaxIsMost
    <3>2. g[t \ {Max(t)}] \in Seq(Piece)
      BY <3>1
    <3> QED
      BY <1>2, <1>5, <3>1, <3>2
  <2>3. PackFold(g, words)
    BY <1>1, <1>4, <2>1, <2>2 DEF PackFold
  <2> QED
    BY <2>3
<1>7. PICK g : g = CHOOSE h : PackFold(h, words)
  OBVIOUS
<1>8. PackFold(g, words)
  BY <1>6, <1>7
<1>9. FoldLeft(PackWord, <<>>, words) = g[1 .. n]
  BY <1>1, <1>7 DEF FoldLeft, MapThenFoldSet, PackFold
<1>10. FoldsOver(g, none, step, words, Seq(Piece))
  <2>1. g[{}] = none
    BY <1>4, <1>8 DEF PackFold
  <2>2. ASSUME NEW t \in SUBSET (1 .. n), t # {}, g[t \ {Max(t)}] \in Seq(Piece)
        PROVE  g[t] = step[<<g[t \ {Max(t)}], words[Max(t)]>>]
    <3>1. Max(t) \in 1 .. n
      BY <2>2, MaxIsMost
    <3>2. g[t] = PackWord(g[t \ {Max(t)}], words[Max(t)])
      BY <1>1, <1>8, <2>2 DEF PackFold
    <3> QED
      BY <1>2, <1>5, <2>2, <3>1, <3>2
  <2> QED
    BY <1>1, <2>1, <2>2 DEF FoldsOver
<1> QED
  BY <1>1, <1>3, <1>4, <1>9, <1>10 DEF Folded

\* Its result.
LEMMA PackWordStays ==
  ASSUME NEW words \in Seq(Word)
  PROVE  FoldLeft(PackWord, <<>>, words) \in Seq(Piece)
BY PackWordFolds, PackStepIsStep, NoPieces, FoldedStays

\* One more element, and none.
LEMMA PackWordAppend ==
  ASSUME NEW words \in Seq(Word), NEW w \in Word
  PROVE  FoldLeft(PackWord, <<>>, Append(words, w))
            = PackWord(FoldLeft(PackWord, <<>>, words), w)
<1>1. PICK none \in Seq(Piece) : none = <<>>
  BY NoPieces
<1>2. PICK r \in Seq(Piece) : r = FoldLeft(PackWord, <<>>, words)
  BY PackWordStays
<1>3. PICK q : q = FoldLeft(PackWord, <<>>, Append(words, w))
  OBVIOUS
<1>4. PICK step : step = PackStep
  OBVIOUS
<1>5. Folded(r, none, step, words, Seq(Piece))
  BY <1>1, <1>2, <1>4, PackWordFolds
<1>6. Folded(q, none, step, Append(words, w), Seq(Piece))
  <2>1. Append(words, w) \in Seq(Word)
    OBVIOUS
  <2> QED
    BY <1>1, <1>3, <1>4, <2>1, PackWordFolds
<1>7. q = step[<<r, w>>]
  BY <1>4, <1>5, <1>6, PackStepIsStep, FoldedAppend
<1>8. step[<<r, w>>] = PackWord(r, w)
  BY <1>4 DEF PackStep
<1> QED
  BY <1>2, <1>3, <1>7, <1>8

\* Packing nothing.
LEMMA PackWordNone == FoldLeft(PackWord, <<>>, <<>>) = <<>>
<1>1. <<>> \in Seq(Word)
  OBVIOUS
<1> QED
  BY <1>1, PackWordFolds, FoldedNone

\* A line over the cap is cut in pieces that fit.
LEMMA SplitFits ==
  ASSUME NEW l \in Placed
  PROVE  splitToFit(l) \in Seq(Piece)
<1>1. PICK text \in Seq(Seq(Nat)) : text = l.line.text
  BY SentenceTypes
<1>2. PICK n \in Nat : n = Len(text) /\ DOMAIN text = 1 .. n
  OBVIOUS
<1>3. PICK cut : cut = [s \in 1 .. n |->
                          IF CountTokens(<<Sentence(l, s)>>) <= Cap THEN <<Sentence(l, s)>>
                          ELSE FoldLeft(PackWord, <<>>, Sentence(l, s))]
  OBVIOUS
<1>4. ASSUME NEW s \in 1 .. n PROVE cut[s] \in Seq(Piece)
  <2>1. Sentence(l, s) \in Seq(Word)
    BY <1>1, <1>2, SentenceTypes
  <2>2. CASE CountTokens(<<Sentence(l, s)>>) <= Cap
    <3>1. Sentence(l, s) \in Piece
      BY <2>1, <2>2 DEF Piece
    <3> QED
      BY <1>3, <2>2, <3>1
  <2>3. CASE ~(CountTokens(<<Sentence(l, s)>>) <= Cap)
    <3>1. FoldLeft(PackWord, <<>>, Sentence(l, s)) \in Seq(Piece)
      BY <2>1, PackWordStays
    <3> QED
      BY <1>3, <2>3, <3>1
  <2> QED
    BY <2>2, <2>3
<1>5. cut \in Seq(Seq(Piece))
  BY <1>3, <1>4
<1>6. FlattenSeq(cut) \in Seq(Piece)
  BY <1>5, FlattenTypes
<1> QED
  BY <1>1, <1>2, <1>3, <1>6 DEF splitToFit

\* The lines of a block, cut where they must be.
LEMMA PiecesFit ==
  ASSUME NEW block \in Seq(Placed)
  PROVE  /\ toPieces(block) \in Seq(Piece)
         /\ [n \in DOMAIN block |-> WholeLine(block[n])] \in Seq(Seq(Word))
<1>1. PICK n \in Nat : n = Len(block) /\ DOMAIN block = 1 .. n
  OBVIOUS
<1>2. \A i \in 1 .. n : block[i] \in Placed
  BY <1>1
<1>3. \A i \in 1 .. n : WholeLine(block[i]) \in Seq(Word)
  BY <1>2, SentenceTypes
<1>4. [i \in 1 .. n |-> WholeLine(block[i])] \in Seq(Seq(Word))
  BY <1>3
<1>5. PICK cut : cut = [i \in 1 .. n |->
                          IF CountTokens(<<WholeLine(block[i])>>) <= Cap THEN <<WholeLine(block[i])>>
                          ELSE splitToFit(block[i])]
  OBVIOUS
<1>6. ASSUME NEW i \in 1 .. n PROVE cut[i] \in Seq(Piece)
  <2>1. CASE CountTokens(<<WholeLine(block[i])>>) <= Cap
    <3>1. WholeLine(block[i]) \in Piece
      BY <1>3, <2>1 DEF Piece
    <3> QED
      BY <1>5, <2>1, <3>1
  <2>2. CASE ~(CountTokens(<<WholeLine(block[i])>>) <= Cap)
    <3>1. splitToFit(block[i]) \in Seq(Piece)
      BY <1>2, SplitFits
    <3> QED
      BY <1>5, <2>2, <3>1
  <2> QED
    BY <2>1, <2>2
<1>7. cut \in Seq(Seq(Piece))
  BY <1>5, <1>6
<1>8. FlattenSeq(cut) \in Seq(Piece)
  BY <1>7, FlattenTypes
<1> QED
  BY <1>1, <1>4, <1>5, <1>8 DEF toPieces

-----------------------------------------------------------------------------
(* Windows *)

\* The pieces a window holds, or none yet.
Window == Fitting \cup {<<>>}

\* A window is a sequence of pieces.
LEMMA WindowTypes ==
  ASSUME NEW win \in Window
  PROVE  win \in Seq(Seq(Word))
<1>1. <<>> \in Seq(Seq(Word))
  OBVIOUS
<1>2. \A c \in Fitting : c \in Seq(Seq(Word))
  BY Zenon DEF Fitting
<1> QED
  BY <1>1, <1>2 DEF Window

\* The tail of a window is some of its pieces.
LEMMA FromTypes ==
  ASSUME NEW seq \in Seq(Seq(Word)), NEW n \in Nat, n # 0, n <= Len(seq) + 1
  PROVE  From(seq, n) \in Seq(Seq(Word)) /\ (n = Len(seq) + 1 => From(seq, n) = <<>>)
<1>1. \A i \in n .. Len(seq) : seq[i] \in Seq(Word)
  OBVIOUS
<1>2. SubSeq(seq, n, Len(seq)) \in Seq(Seq(Word))
  BY <1>1
<1>3. ASSUME n = Len(seq) + 1 PROVE SubSeq(seq, n, Len(seq)) = <<>>
  BY <1>3
<1> QED
  BY <1>2, <1>3 DEF From

\* A tail is made of pieces.
LEMMA TailTypes ==
  ASSUME NEW win \in Seq(Seq(Word))
  PROVE  overlapTail(win) \in Seq(Seq(Word))
<1>1. PICK taken : taken = {n \in 2 .. Len(win) : Tokens(FlattenSeq(From(win, n + 1))) < Overlap}
  OBVIOUS
<1>2. CASE taken = {}
  <2>1. <<>> \in Seq(Seq(Word))
    OBVIOUS
  <2> QED
    BY <1>1, <1>2, <2>1 DEF overlapTail
<1>3. CASE taken # {}
  <2>1. taken \in SUBSET Nat /\ \A n \in taken : n # 0 /\ n <= Len(win) + 1
    BY <1>1
  <2>2. PICK n \in taken : n = Min(taken)
    BY <1>3, <2>1, MinIsLeast
  <2>3. From(win, n) \in Seq(Seq(Word))
    BY <2>1, FromTypes
  <2> QED
    BY <1>1, <1>3, <2>2, <2>3 DEF overlapTail
<1> QED
  BY <1>2, <1>3

\* With what is left of the tail in front of it, a piece still fits.
LEMMA TailFits ==
  ASSUME NEW tail \in Seq(Seq(Word)), NEW piece \in Piece
  PROVE  Append(FitTail(tail, piece), piece) \in Fitting
<1>1. PICK kept : kept = {n \in 1 .. Len(tail) : CountTokens(Append(From(tail, n), piece)) <= Cap}
                             \cup {Len(tail) + 1}
  OBVIOUS
<1>2. PICK m \in Nat : m = Len(tail)
  OBVIOUS
<1>3. kept \in SUBSET Nat /\ kept # {} /\ \A n \in kept : n # 0 /\ n <= m + 1
  BY <1>1, <1>2
<1>4. PICK n \in kept : n = Min(kept)
  BY <1>3, MinIsLeast
<1>5. PICK t \in Seq(Seq(Word)) : t = From(tail, n) /\ (n = m + 1 => t = <<>>)
  <2>1. n \in Nat /\ n # 0 /\ n <= Len(tail) + 1
    BY <1>2, <1>3
  <2> QED
    BY <1>2, <2>1, FromTypes
<1>6. piece \in Seq(Word) /\ <<piece>> \in Fitting
  BY PieceFits
<1>7. Append(t, piece) \in Seq(Seq(Word))
  BY <1>6
<1>8. CASE n = m + 1
  <2>1. Append(<<>>, piece) = <<piece>>
    OBVIOUS
  <2> QED
    BY <1>1, <1>4, <1>5, <1>6, <1>8, <2>1 DEF FitTail
<1>9. CASE n # m + 1
  <2>1. CountTokens(Append(t, piece)) <= Cap
    BY <1>1, <1>2, <1>5, <1>9
  <2>2. Append(t, piece) \in Fitting
    BY <1>7, <2>1 DEF Fitting
  <2> QED
    BY <1>1, <1>4, <1>5, <2>2 DEF FitTail
<1> QED
  BY <1>8, <1>9

Windows == [out: Seq(Fitting), win: Window]

\* One more piece leaves windows that fit.
LEMMA AddPieceKeeps ==
  ASSUME NEW acc \in Windows, NEW piece \in Piece
  PROVE  AddPiece(acc, piece) \in Windows
<1>1. acc.out \in Seq(Fitting) /\ acc.win \in Window
  BY DEF Windows
<1>2. PICK win \in Window : win = acc.win
  BY <1>1
<1>3. win \in Seq(Seq(Word))
  BY WindowTypes
<1>4. piece \in Seq(Word) /\ <<piece>> \in Fitting
  BY PieceFits
<1>5. CASE win # <<>> /\ CountTokens(Append(win, piece)) > Target
  <2>1. win \in Fitting
    BY <1>5 DEF Window
  <2>2. Append(acc.out, win) \in Seq(Fitting)
    BY <1>1, <2>1
  <2>3. overlapTail(win) \in Seq(Seq(Word))
    BY <1>3, TailTypes
  <2>4. Append(FitTail(overlapTail(win), piece), piece) \in Window
    BY <2>3, TailFits DEF Window
  <2>5. AddPiece(acc, piece) = [out |-> Append(acc.out, win),
                                win |-> Append(FitTail(overlapTail(win), piece), piece)]
    BY <1>2, <1>5 DEF AddPiece
  <2> QED
    BY <2>2, <2>4, <2>5 DEF Windows
<1>6. CASE ~(win # <<>> /\ CountTokens(Append(win, piece)) > Target)
  <2>1. PICK more \in Seq(Seq(Word)) : more = Append(win, piece)
    <3>1. Append(win, piece) \in Seq(Seq(Word))
      BY <1>3, <1>4
    <3> QED
      BY <3>1
  <2>2. ASSUME win = <<>> PROVE more \in Fitting
    <3>1. Append(<<>>, piece) = <<piece>>
      OBVIOUS
    <3> QED
      BY <1>4, <2>1, <2>2, <3>1
  <2>3. ASSUME win # <<>> PROVE more \in Fitting
    <3>1. CountTokens(more) \in Nat
      BY CountIsNumber
    <3>2. CountTokens(more) <= Cap
      BY <1>6, <2>1, <2>3, <3>1, TextAssumption
    <3> QED
      BY <2>1, <3>2 DEF Fitting
  <2>4. more \in Window
    BY <2>2, <2>3 DEF Window
  <2>5. AddPiece(acc, piece) = [acc EXCEPT !.win = more]
    BY <1>2, <1>6, <2>1 DEF AddPiece
  <2> QED
    BY <2>4, <2>5 DEF Windows
<1> QED
  BY <1>5, <1>6

\* Windows, before the first piece.
LEMMA NoWindows == [out |-> <<>>, win |-> <<>>] \in Windows
<1>1. <<>> \in Seq(Fitting) /\ <<>> \in Window
  BY DEF Window
<1> QED
  BY <1>1 DEF Windows

PieceFold(g, pieces) ==
    g = [t \in SUBSET (1 .. Len(pieces)) |->
            IF t = {} THEN [out |-> <<>>, win |-> <<>>] ELSE AddPiece(g[t \ {Max(t)}], pieces[Max(t)])]

PieceStep == [p \in Windows \X Piece |-> AddPiece(p[1], p[2])]

\* What is added to Windows is in Windows.
LEMMA PieceStepIsStep == ElementStep(PieceStep, Windows, Piece)
<1>1. \A a \in Windows, piece \in Piece : AddPiece(a, piece) \in Windows
  BY AddPieceKeeps
<1> QED
  BY <1>1 DEF ElementStep, PieceStep

\* Cutting the pieces of a sequence.
LEMMA AddPieceFolds ==
  ASSUME NEW pieces \in Seq(Piece)
  PROVE  Folded(FoldLeft(AddPiece, [out |-> <<>>, win |-> <<>>], pieces), [out |-> <<>>, win |-> <<>>],
                PieceStep, pieces, Windows)
<1>1. PICK n \in Nat : n = Len(pieces) /\ DOMAIN pieces = 1 .. n
  OBVIOUS
<1>2. \A k \in 1 .. n : pieces[k] \in Piece
  BY <1>1
<1>3. PICK step : step = PieceStep
  OBVIOUS
<1>4. PICK none \in Windows : none = [out |-> <<>>, win |-> <<>>]
  BY NoWindows
<1>5. \A a \in Windows, piece \in Piece : step[<<a, piece>>] = AddPiece(a, piece)
  BY <1>3 DEF PieceStep
<1>6. \E g : PieceFold(g, pieces)
  <2>1. PICK g \in [SUBSET (1 .. n) -> Windows] :
               g = [t \in SUBSET (1 .. n) |->
                      IF t = {} THEN none ELSE step[<<g[t \ {Max(t)}], pieces[Max(t)]>>]]
    <3>1. \E g : IsFoldOver(g, none, step, pieces, Windows)
      BY <1>3, PieceStepIsStep, FoldOverExists
    <3> QED
      BY <1>1, <3>1 DEF IsFoldOver
  <2>2. ASSUME NEW t \in SUBSET (1 .. n), t # {}
        PROVE  step[<<g[t \ {Max(t)}], pieces[Max(t)]>>] = AddPiece(g[t \ {Max(t)}], pieces[Max(t)])
    <3>1. Max(t) \in 1 .. n /\ t \ {Max(t)} \in SUBSET (1 .. n)
      BY <2>2, MaxIsMost
    <3>2. g[t \ {Max(t)}] \in Windows
      BY <3>1
    <3> QED
      BY <1>2, <1>5, <3>1, <3>2
  <2>3. PieceFold(g, pieces)
    BY <1>1, <1>4, <2>1, <2>2 DEF PieceFold
  <2> QED
    BY <2>3
<1>7. PICK g : g = CHOOSE h : PieceFold(h, pieces)
  OBVIOUS
<1>8. PieceFold(g, pieces)
  BY <1>6, <1>7
<1>9. FoldLeft(AddPiece, [out |-> <<>>, win |-> <<>>], pieces) = g[1 .. n]
  BY <1>1, <1>7 DEF FoldLeft, MapThenFoldSet, PieceFold
<1>10. FoldsOver(g, none, step, pieces, Windows)
  <2>1. g[{}] = none
    BY <1>4, <1>8 DEF PieceFold
  <2>2. ASSUME NEW t \in SUBSET (1 .. n), t # {}, g[t \ {Max(t)}] \in Windows
        PROVE  g[t] = step[<<g[t \ {Max(t)}], pieces[Max(t)]>>]
    <3>1. Max(t) \in 1 .. n
      BY <2>2, MaxIsMost
    <3>2. g[t] = AddPiece(g[t \ {Max(t)}], pieces[Max(t)])
      BY <1>1, <1>8, <2>2 DEF PieceFold
    <3> QED
      BY <1>2, <1>5, <2>2, <3>1, <3>2
  <2> QED
    BY <1>1, <2>1, <2>2 DEF FoldsOver
<1> QED
  BY <1>1, <1>3, <1>4, <1>9, <1>10 DEF Folded

\* Its result.
LEMMA AddPieceStays ==
  ASSUME NEW pieces \in Seq(Piece)
  PROVE  FoldLeft(AddPiece, [out |-> <<>>, win |-> <<>>], pieces) \in Windows
BY AddPieceFolds, PieceStepIsStep, NoWindows, FoldedStays

\* One more element, and none.
LEMMA AddPieceAppend ==
  ASSUME NEW pieces \in Seq(Piece), NEW piece \in Piece
  PROVE  FoldLeft(AddPiece, [out |-> <<>>, win |-> <<>>], Append(pieces, piece))
            = AddPiece(FoldLeft(AddPiece, [out |-> <<>>, win |-> <<>>], pieces), piece)
<1>1. PICK none \in Windows : none = [out |-> <<>>, win |-> <<>>]
  BY NoWindows
<1>2. PICK r \in Windows : r = FoldLeft(AddPiece, [out |-> <<>>, win |-> <<>>], pieces)
  BY AddPieceStays
<1>3. PICK q : q = FoldLeft(AddPiece, [out |-> <<>>, win |-> <<>>], Append(pieces, piece))
  OBVIOUS
<1>4. PICK step : step = PieceStep
  OBVIOUS
<1>5. Folded(r, none, step, pieces, Windows)
  BY <1>1, <1>2, <1>4, AddPieceFolds
<1>6. Folded(q, none, step, Append(pieces, piece), Windows)
  <2>1. Append(pieces, piece) \in Seq(Piece)
    OBVIOUS
  <2> QED
    BY <1>1, <1>3, <1>4, <2>1, AddPieceFolds
<1>7. q = step[<<r, piece>>]
  BY <1>4, <1>5, <1>6, PieceStepIsStep, FoldedAppend
<1>8. step[<<r, piece>>] = AddPiece(r, piece)
  BY <1>4 DEF PieceStep
<1> QED
  BY <1>2, <1>3, <1>7, <1>8

\* Windows of nothing.
LEMMA AddPieceNone == FoldLeft(AddPiece, [out |-> <<>>, win |-> <<>>], <<>>) = [out |-> <<>>, win |-> <<>>]
<1>1. <<>> \in Seq(Piece)
  OBVIOUS
<1> QED
  BY <1>1, AddPieceFolds, FoldedNone

\* What a run of pieces leaves.
LEMMA FlushFits ==
  ASSUME NEW chunks \in Seq(Fitting), NEW win \in Window
  PROVE  Flush(chunks, win) \in Seq(Fitting)
<1>1. CASE win = <<>>
  BY <1>1 DEF Flush
<1>2. CASE win # <<>>
  <2>1. win \in Fitting
    BY <1>2 DEF Window
  <2>2. Append(chunks, win) \in Seq(Fitting)
    BY <2>1
  <2> QED
    BY <1>2, <2>2 DEF Flush
<1> QED
  BY <1>1, <1>2

\* The windows of a block fit.
LEMMA WindowsFit ==
  ASSUME NEW pieces \in Seq(Piece)
  PROVE  windows(pieces) \in Seq(Fitting)
<1>1. PICK acc \in Windows : acc = FoldLeft(AddPiece, [out |-> <<>>, win |-> <<>>], pieces)
  BY AddPieceStays
<1>2. Flush(acc.out, acc.win) \in Seq(Fitting)
  BY FlushFits DEF Windows
<1> QED
  BY <1>1, <1>2 DEF windows

-----------------------------------------------------------------------------
(* Chunks of a section *)

Collected == [chunks: Seq(Fitting), current: Window]

\* One more block leaves chunks that fit.
LEMMA AddBlockKeeps ==
  ASSUME NEW acc \in Collected, NEW block \in Seq(Placed)
  PROVE  AddBlock(acc, block) \in Collected
<1>1. PICK pieces \in Seq(Seq(Word)) : pieces = [n \in DOMAIN block |-> WholeLine(block[n])]
  BY PiecesFit
<1>2. acc.chunks \in Seq(Fitting) /\ acc.current \in Window
  BY DEF Collected
<1>3. PICK chunks \in Seq(Fitting) : chunks = Flush(acc.chunks, acc.current)
  BY <1>2, FlushFits
<1>4. PICK current \in Seq(Seq(Word)) : current = acc.current
  BY <1>2, WindowTypes
<1>5. PICK joined \in Seq(Seq(Word)) : joined = current \o pieces
  <2>1. current \o pieces \in Seq(Seq(Word))
    OBVIOUS
  <2> QED
    BY <2>1
<1>6. CASE CountTokens(joined) <= Target
  <2>1. CountTokens(joined) \in Nat
    BY CountIsNumber
  <2>2. CountTokens(joined) <= Cap
    BY <1>6, <2>1, TextAssumption
  <2>3. joined \in Window
    BY <2>2 DEF Fitting, Window
  <2>4. AddBlock(acc, block) = [acc EXCEPT !.current = joined]
    BY <1>1, <1>4, <1>5, <1>6, Zenon DEF AddBlock
  <2> QED
    BY <2>3, <2>4 DEF Collected
<1>7. CASE ~(CountTokens(joined) <= Target) /\ CountTokens(pieces) <= Cap
  <2>1. pieces \in Window
    BY <1>7 DEF Fitting, Window
  <2>2. AddBlock(acc, block) = [chunks |-> chunks, current |-> pieces]
    BY <1>1, <1>3, <1>4, <1>5, <1>7, Zenon DEF AddBlock
  <2> QED
    BY <2>1, <2>2 DEF Collected
<1>8. CASE ~(CountTokens(joined) <= Target) /\ ~(CountTokens(pieces) <= Cap)
  <2>1. PICK cut \in Seq(Fitting) : cut = windows(toPieces(block))
    BY PiecesFit, WindowsFit
  <2>2. chunks \o cut \in Seq(Fitting) /\ <<>> \in Window
    BY DEF Window
  <2>3. AddBlock(acc, block) = [chunks |-> chunks \o cut, current |-> <<>>]
    BY <1>1, <1>3, <1>4, <1>5, <1>8, <2>1, Zenon DEF AddBlock
  <2> QED
    BY <2>2, <2>3 DEF Collected
<1> QED
  BY <1>6, <1>7, <1>8

\* A section, before the first block.
LEMMA NothingCollected == [chunks |-> <<>>, current |-> <<>>] \in Collected
<1>1. <<>> \in Seq(Fitting) /\ <<>> \in Window
  BY DEF Window
<1> QED
  BY <1>1 DEF Collected

BlockFold(g, blocks) ==
    g = [t \in SUBSET (1 .. Len(blocks)) |->
            IF t = {} THEN [chunks |-> <<>>, current |-> <<>>] ELSE AddBlock(g[t \ {Max(t)}], blocks[Max(t)])]

BlockStep == [p \in Collected \X Seq(Placed) |-> AddBlock(p[1], p[2])]

\* What is added to Collected is in Collected.
LEMMA BlockStepIsStep == ElementStep(BlockStep, Collected, Seq(Placed))
<1>1. \A a \in Collected, block \in Seq(Placed) : AddBlock(a, block) \in Collected
  BY AddBlockKeeps
<1> QED
  BY <1>1 DEF ElementStep, BlockStep

\* Collecting the blocks of a sequence.
LEMMA AddBlockFolds ==
  ASSUME NEW blocks \in Seq(Seq(Placed))
  PROVE  Folded(FoldLeft(AddBlock, [chunks |-> <<>>, current |-> <<>>], blocks), [chunks |-> <<>>, current |-> <<>>],
                BlockStep, blocks, Collected)
<1>1. PICK n \in Nat : n = Len(blocks) /\ DOMAIN blocks = 1 .. n
  OBVIOUS
<1>2. \A k \in 1 .. n : blocks[k] \in Seq(Placed)
  BY <1>1
<1>3. PICK step : step = BlockStep
  OBVIOUS
<1>4. PICK none \in Collected : none = [chunks |-> <<>>, current |-> <<>>]
  BY NothingCollected
<1>5. \A a \in Collected, block \in Seq(Placed) : step[<<a, block>>] = AddBlock(a, block)
  BY <1>3 DEF BlockStep
<1>6. \E g : BlockFold(g, blocks)
  <2>1. PICK g \in [SUBSET (1 .. n) -> Collected] :
               g = [t \in SUBSET (1 .. n) |->
                      IF t = {} THEN none ELSE step[<<g[t \ {Max(t)}], blocks[Max(t)]>>]]
    <3>1. \E g : IsFoldOver(g, none, step, blocks, Collected)
      BY <1>3, BlockStepIsStep, FoldOverExists
    <3> QED
      BY <1>1, <3>1 DEF IsFoldOver
  <2>2. ASSUME NEW t \in SUBSET (1 .. n), t # {}
        PROVE  step[<<g[t \ {Max(t)}], blocks[Max(t)]>>] = AddBlock(g[t \ {Max(t)}], blocks[Max(t)])
    <3>1. Max(t) \in 1 .. n /\ t \ {Max(t)} \in SUBSET (1 .. n)
      BY <2>2, MaxIsMost
    <3>2. g[t \ {Max(t)}] \in Collected
      BY <3>1
    <3> QED
      BY <1>2, <1>5, <3>1, <3>2
  <2>3. BlockFold(g, blocks)
    BY <1>1, <1>4, <2>1, <2>2 DEF BlockFold
  <2> QED
    BY <2>3
<1>7. PICK g : g = CHOOSE h : BlockFold(h, blocks)
  OBVIOUS
<1>8. BlockFold(g, blocks)
  BY <1>6, <1>7
<1>9. FoldLeft(AddBlock, [chunks |-> <<>>, current |-> <<>>], blocks) = g[1 .. n]
  BY <1>1, <1>7 DEF FoldLeft, MapThenFoldSet, BlockFold
<1>10. FoldsOver(g, none, step, blocks, Collected)
  <2>1. g[{}] = none
    BY <1>4, <1>8 DEF BlockFold
  <2>2. ASSUME NEW t \in SUBSET (1 .. n), t # {}, g[t \ {Max(t)}] \in Collected
        PROVE  g[t] = step[<<g[t \ {Max(t)}], blocks[Max(t)]>>]
    <3>1. Max(t) \in 1 .. n
      BY <2>2, MaxIsMost
    <3>2. g[t] = AddBlock(g[t \ {Max(t)}], blocks[Max(t)])
      BY <1>1, <1>8, <2>2 DEF BlockFold
    <3> QED
      BY <1>2, <1>5, <2>2, <3>1, <3>2
  <2> QED
    BY <1>1, <2>1, <2>2 DEF FoldsOver
<1> QED
  BY <1>1, <1>3, <1>4, <1>9, <1>10 DEF Folded

\* Its result.
LEMMA AddBlockStays ==
  ASSUME NEW blocks \in Seq(Seq(Placed))
  PROVE  FoldLeft(AddBlock, [chunks |-> <<>>, current |-> <<>>], blocks) \in Collected
BY AddBlockFolds, BlockStepIsStep, NothingCollected, FoldedStays

\* One more element, and none.
LEMMA AddBlockAppend ==
  ASSUME NEW blocks \in Seq(Seq(Placed)), NEW block \in Seq(Placed)
  PROVE  FoldLeft(AddBlock, [chunks |-> <<>>, current |-> <<>>], Append(blocks, block))
            = AddBlock(FoldLeft(AddBlock, [chunks |-> <<>>, current |-> <<>>], blocks), block)
<1>1. PICK none \in Collected : none = [chunks |-> <<>>, current |-> <<>>]
  BY NothingCollected
<1>2. PICK r \in Collected : r = FoldLeft(AddBlock, [chunks |-> <<>>, current |-> <<>>], blocks)
  BY AddBlockStays
<1>3. PICK q : q = FoldLeft(AddBlock, [chunks |-> <<>>, current |-> <<>>], Append(blocks, block))
  OBVIOUS
<1>4. PICK step : step = BlockStep
  OBVIOUS
<1>5. Folded(r, none, step, blocks, Collected)
  BY <1>1, <1>2, <1>4, AddBlockFolds
<1>6. Folded(q, none, step, Append(blocks, block), Collected)
  <2>1. Append(blocks, block) \in Seq(Seq(Placed))
    OBVIOUS
  <2> QED
    BY <1>1, <1>3, <1>4, <2>1, AddBlockFolds
<1>7. q = step[<<r, block>>]
  BY <1>4, <1>5, <1>6, BlockStepIsStep, FoldedAppend
<1>8. step[<<r, block>>] = AddBlock(r, block)
  BY <1>4 DEF BlockStep
<1> QED
  BY <1>2, <1>3, <1>7, <1>8

\* Blocks of nothing.
LEMMA AddBlockNone == FoldLeft(AddBlock, [chunks |-> <<>>, current |-> <<>>], <<>>) = [chunks |-> <<>>, current |-> <<>>]
<1>1. <<>> \in Seq(Seq(Placed))
  OBVIOUS
<1> QED
  BY <1>1, AddBlockFolds, FoldedNone

\* The chunks of a section fit.
LEMMA SectionFits ==
  ASSUME NEW s \in ReadSection
  PROVE  ChunkSection(s) \in Seq(Chunk)
<1>1. PICK blocks \in Seq(Seq(Placed)) : blocks = s.blocks
  BY DEF ReadSection
<1>13. PICK acc \in Collected :
           acc = FoldLeft(AddBlock, [chunks |-> <<>>, current |-> <<>>], s.blocks)
  BY <1>1, AddBlockStays
<1>14. PICK chunks \in Seq(Fitting) : chunks = Flush(acc.chunks, acc.current)
  BY FlushFits DEF Collected
<1>15. PICK m \in Nat : m = Len(chunks) /\ DOMAIN chunks = 1 .. m
  OBVIOUS
<1>16. s.number \in Numbers
  BY DEF ReadSection
<1>17. \A k \in 1 .. m : [section |-> s.number, pieces |-> chunks[k]] \in Chunk
  BY <1>15, <1>16 DEF Chunk
<1>18. [k \in 1 .. m |-> [section |-> s.number, pieces |-> chunks[k]]] \in Seq(Chunk)
  BY <1>17
<1> QED
  BY <1>13, <1>14, <1>15, <1>18 DEF ChunkSection

\* The chunks of a document fit.
LEMMA DocumentFits ==
  ASSUME NEW sections \in Seq(ReadSection)
  PROVE  chunkDocument(sections) \in Seq(Chunk)
<1>1. PICK n \in Nat : n = Len(sections) /\ DOMAIN sections = 1 .. n
  OBVIOUS
<1>2. \A k \in 1 .. n : ChunkSection(sections[k]) \in Seq(Chunk)
  BY <1>1, SectionFits
<1>3. [k \in 1 .. n |-> ChunkSection(sections[k])] \in Seq(Seq(Chunk))
  BY <1>2
<1>4. FlattenSeq([k \in 1 .. n |-> ChunkSection(sections[k])]) \in Seq(Chunk)
  BY <1>3, FlattenTypes
<1> QED
  BY <1>1, <1>4 DEF chunkDocument

-----------------------------------------------------------------------------
(* Sections of a text *)

\* What a filter leaves.
LEMMA FilterTypes ==
  ASSUME NEW T, NEW seq \in Seq(T), NEW parts, parts = [n \in DOMAIN seq |-> parts[n]],
         \A n \in DOMAIN seq : parts[n] \in {<<seq[n]>>, <<>>}
  PROVE  FlattenSeq(parts) \in Seq(T)
<1>1. PICK m \in Nat : m = Len(seq) /\ DOMAIN seq = 1 .. m
  OBVIOUS
<1>2. ASSUME NEW n \in 1 .. m PROVE parts[n] \in Seq(T)
  <2>1. seq[n] \in T
    BY <1>1
  <2>2. <<seq[n]>> \in Seq(T) /\ <<>> \in Seq(T)
    BY <2>1
  <2>3. parts[n] = <<seq[n]>> \/ parts[n] = <<>>
    BY <1>1
  <2> QED
    BY <2>2, <2>3
<1>3. [n \in 1 .. m |-> parts[n]] \in Seq(Seq(T))
  BY <1>2, ElementsType
<1>4. parts \in Seq(Seq(T))
  BY <1>1, <1>3
<1> QED
  BY <1>4, FlattenTypes

Sectioned == Seq(OpenSection) \ {<<>>}

\* A new section is open.
LEMMA SectionTypes ==
  ASSUME NEW number \in Numbers, NEW heading \in Headings
  PROVE  Section(number, heading) \in OpenSection
<1>1. << <<>> >> \in Seq(Seq(Placed)) \ {<<>>}
  OBVIOUS
<1>2. 0 \in Clauses
  BY DEF Clauses
<1> QED
  BY <1>1, <1>2 DEF Section, OpenSection

\* One more line leaves sections that are open.
LEMMA ParseLineKeeps ==
  ASSUME NEW sections \in Sectioned, NEW l \in Placed
  PROVE  ParseLine(sections, l) \in Sectioned
<1>1. PICK n \in Nat : n = Len(sections) /\ n # 0 /\ DOMAIN sections = 1 .. n
  BY DEF Sectioned
<1>2. sections \in Seq(OpenSection)
  BY DEF Sectioned
<1>3. PICK s \in OpenSection : s = sections[n] /\ s = Last(sections)
  <2>1. sections[n] \in OpenSection
    BY <1>1, <1>2
  <2> QED
    BY <1>1, <2>1 DEF Last
<1>4. ASSUME NEW t \in OpenSection PROVE [sections EXCEPT ![n] = t] \in Sectioned
  <2>1. [sections EXCEPT ![n] = t] \in Seq(OpenSection)
    BY <1>1, <1>2
  <2>2. DOMAIN [sections EXCEPT ![n] = t] = 1 .. n /\ n \in 1 .. n
    BY <1>1
  <2>3. DOMAIN <<>> = {}
    OBVIOUS
  <2> QED
    BY <2>1, <2>2, <2>3 DEF Sectioned
<1>5. l.line \in Shapes
  BY DEF Placed
<1>6. PICK blocks \in Seq(Seq(Placed)) : blocks = s.blocks /\ blocks # <<>>
  BY DEF OpenSection
<1>7. PICK line : line = l.line
  OBVIOUS
<1>8. CASE line.kind = "section" /\ line.number = s.number + 1 /\ line.titled
  <2>1. line.number \in Numbers
    BY <1>5, <1>7 DEF Numbers
  <2>2. l \in Headings
    BY DEF Headings
  <2>3. Section(line.number, l) \in OpenSection
    BY <2>1, <2>2, SectionTypes
  <2>4. PICK new : new = Append(sections, Section(line.number, l))
    OBVIOUS
  <2>5. new \in Seq(OpenSection) /\ Len(new) = n + 1
    BY <1>1, <1>2, <2>3, <2>4
  <2>6. new # <<>>
    BY <1>1, <2>5
  <2>7. ParseLine(sections, l) = new
    BY <1>3, <1>7, <1>8, <2>4, Zenon DEF ParseLine
  <2> QED
    BY <2>5, <2>6, <2>7 DEF Sectioned
<1>9. CASE /\ ~(line.kind = "section" /\ line.number = s.number + 1 /\ line.titled)
           /\ line.kind = "clause" /\ line.number = s.number /\ line.clause = s.lastClause + 1
  <2>1. PICK more : more = Append(blocks, <<l>>)
    OBVIOUS
  <2>2. more \in Seq(Seq(Placed)) /\ more # <<>>
    <3>1. <<l>> \in Seq(Placed)
      OBVIOUS
    <3>2. Append(blocks, <<l>>) \in Seq(Seq(Placed)) /\ Len(Append(blocks, <<l>>)) = Len(blocks) + 1
      BY <3>1
    <3> QED
      BY <2>1, <3>2
  <2>3. line.clause \in Clauses
    BY <1>5, <1>7 DEF Clauses
  <2>4. PICK t : t = [s EXCEPT !.lastClause = line.clause, !.blocks = more]
    OBVIOUS
  <2>5. t \in OpenSection
    BY <2>2, <2>3, <2>4 DEF OpenSection
  <2>6. t = [s EXCEPT !.lastClause = line.clause, !.blocks = Append(@, <<l>>)]
    BY <1>6, <2>1, <2>4 DEF OpenSection
  <2>7. ParseLine(sections, l) = [sections EXCEPT ![n] = t]
    BY <1>1, <1>3, <1>7, <1>9, <2>6, Zenon DEF ParseLine
  <2> QED
    BY <1>4, <2>5, <2>7
<1>10. CASE /\ ~(line.kind = "section" /\ line.number = s.number + 1 /\ line.titled)
            /\ ~(line.kind = "clause" /\ line.number = s.number /\ line.clause = s.lastClause + 1)
  <2>1. PICK m \in Nat : m = Len(blocks) /\ m # 0 /\ DOMAIN blocks = 1 .. m
    BY <1>6
  <2>2. PICK b \in Seq(Placed) : b = Append(blocks[m], l)
    <3>1. blocks[m] \in Seq(Placed)
      BY <2>1
    <3>2. Append(blocks[m], l) \in Seq(Placed)
      BY <3>1
    <3> QED
      BY <3>2
  <2>3. PICK more : more = [blocks EXCEPT ![m] = b]
    OBVIOUS
  <2>4. more \in Seq(Seq(Placed)) /\ DOMAIN more = 1 .. m
    BY <2>1, <2>3
  <2>5. more # <<>>
    <3>1. DOMAIN <<>> = {} /\ m \in 1 .. m
      BY <2>1
    <3> QED
      BY <2>4, <3>1
  <2>6. PICK t : t = [s EXCEPT !.blocks = more]
    OBVIOUS
  <2>7. t \in OpenSection
    BY <2>4, <2>5, <2>6 DEF OpenSection
  <2>8. t = [s EXCEPT !.blocks[Len(s.blocks)] = Append(@, l)]
    BY <1>6, <2>1, <2>2, <2>3, <2>6 DEF OpenSection
  <2>9. ParseLine(sections, l) = [sections EXCEPT ![n] = t]
    BY <1>1, <1>3, <1>7, <1>10, <2>8, Zenon DEF ParseLine
  <2> QED
    BY <1>4, <2>7, <2>9
<1> QED
  BY <1>8, <1>9, <1>10

\* The structure, before the first line.
LEMMA FirstSection == <<Section(0, "Preamble")>> \in Sectioned
<1>1. Section(0, "Preamble") \in OpenSection
  BY SectionTypes DEF Numbers, Headings
<1>2. <<Section(0, "Preamble")>> \in Seq(OpenSection) \ {<<>>}
  BY <1>1
<1> QED
  BY <1>2 DEF Sectioned

LineFold(g, lines) ==
    g = [t \in SUBSET (1 .. Len(lines)) |->
            IF t = {} THEN <<Section(0, "Preamble")>> ELSE ParseLine(g[t \ {Max(t)}], lines[Max(t)])]

LineStep == [p \in Sectioned \X Placed |-> ParseLine(p[1], p[2])]

\* What is added to Sectioned is in Sectioned.
LEMMA LineStepIsStep == ElementStep(LineStep, Sectioned, Placed)
<1>1. \A a \in Sectioned, l \in Placed : ParseLine(a, l) \in Sectioned
  BY ParseLineKeeps
<1> QED
  BY <1>1 DEF ElementStep, LineStep

\* Parsing the lines of a sequence.
LEMMA ParseLineFolds ==
  ASSUME NEW lines \in Seq(Placed)
  PROVE  Folded(FoldLeft(ParseLine, <<Section(0, "Preamble")>>, lines), <<Section(0, "Preamble")>>, LineStep, lines, Sectioned)
<1>1. PICK n \in Nat : n = Len(lines) /\ DOMAIN lines = 1 .. n
  OBVIOUS
<1>2. \A k \in 1 .. n : lines[k] \in Placed
  BY <1>1
<1>3. PICK step : step = LineStep
  OBVIOUS
<1>4. PICK none \in Sectioned : none = <<Section(0, "Preamble")>>
  BY FirstSection
<1>5. \A a \in Sectioned, l \in Placed : step[<<a, l>>] = ParseLine(a, l)
  BY <1>3 DEF LineStep
<1>6. \E g : LineFold(g, lines)
  <2>1. PICK g \in [SUBSET (1 .. n) -> Sectioned] :
               g = [t \in SUBSET (1 .. n) |->
                      IF t = {} THEN none ELSE step[<<g[t \ {Max(t)}], lines[Max(t)]>>]]
    <3>1. \E g : IsFoldOver(g, none, step, lines, Sectioned)
      BY <1>3, LineStepIsStep, FoldOverExists
    <3> QED
      BY <1>1, <3>1 DEF IsFoldOver
  <2>2. ASSUME NEW t \in SUBSET (1 .. n), t # {}
        PROVE  step[<<g[t \ {Max(t)}], lines[Max(t)]>>] = ParseLine(g[t \ {Max(t)}], lines[Max(t)])
    <3>1. Max(t) \in 1 .. n /\ t \ {Max(t)} \in SUBSET (1 .. n)
      BY <2>2, MaxIsMost
    <3>2. g[t \ {Max(t)}] \in Sectioned
      BY <3>1
    <3> QED
      BY <1>2, <1>5, <3>1, <3>2
  <2>3. LineFold(g, lines)
    BY <1>1, <1>4, <2>1, <2>2 DEF LineFold
  <2> QED
    BY <2>3
<1>7. PICK g : g = CHOOSE h : LineFold(h, lines)
  OBVIOUS
<1>8. LineFold(g, lines)
  BY <1>6, <1>7
<1>9. FoldLeft(ParseLine, <<Section(0, "Preamble")>>, lines) = g[1 .. n]
  BY <1>1, <1>7 DEF FoldLeft, MapThenFoldSet, LineFold
<1>10. FoldsOver(g, none, step, lines, Sectioned)
  <2>1. g[{}] = none
    BY <1>4, <1>8 DEF LineFold
  <2>2. ASSUME NEW t \in SUBSET (1 .. n), t # {}, g[t \ {Max(t)}] \in Sectioned
        PROVE  g[t] = step[<<g[t \ {Max(t)}], lines[Max(t)]>>]
    <3>1. Max(t) \in 1 .. n
      BY <2>2, MaxIsMost
    <3>2. g[t] = ParseLine(g[t \ {Max(t)}], lines[Max(t)])
      BY <1>1, <1>8, <2>2 DEF LineFold
    <3> QED
      BY <1>2, <1>5, <2>2, <3>1, <3>2
  <2> QED
    BY <1>1, <2>1, <2>2 DEF FoldsOver
<1> QED
  BY <1>1, <1>3, <1>4, <1>9, <1>10 DEF Folded

\* Its result.
LEMMA ParseLineStays ==
  ASSUME NEW lines \in Seq(Placed)
  PROVE  FoldLeft(ParseLine, <<Section(0, "Preamble")>>, lines) \in Sectioned
BY ParseLineFolds, LineStepIsStep, FirstSection, FoldedStays

\* One more element, and none.
LEMMA ParseLineAppend ==
  ASSUME NEW lines \in Seq(Placed), NEW l \in Placed
  PROVE  FoldLeft(ParseLine, <<Section(0, "Preamble")>>, Append(lines, l))
            = ParseLine(FoldLeft(ParseLine, <<Section(0, "Preamble")>>, lines), l)
<1>1. PICK none \in Sectioned : none = <<Section(0, "Preamble")>>
  BY FirstSection
<1>2. PICK r \in Sectioned : r = FoldLeft(ParseLine, <<Section(0, "Preamble")>>, lines)
  BY ParseLineStays
<1>3. PICK q : q = FoldLeft(ParseLine, <<Section(0, "Preamble")>>, Append(lines, l))
  OBVIOUS
<1>4. PICK step : step = LineStep
  OBVIOUS
<1>5. Folded(r, none, step, lines, Sectioned)
  BY <1>1, <1>2, <1>4, ParseLineFolds
<1>6. Folded(q, none, step, Append(lines, l), Sectioned)
  <2>1. Append(lines, l) \in Seq(Placed)
    OBVIOUS
  <2> QED
    BY <1>1, <1>3, <1>4, <2>1, ParseLineFolds
<1>7. q = step[<<r, l>>]
  BY <1>4, <1>5, <1>6, LineStepIsStep, FoldedAppend
<1>8. step[<<r, l>>] = ParseLine(r, l)
  BY <1>4 DEF LineStep
<1> QED
  BY <1>2, <1>3, <1>7, <1>8

\* The structure of nothing.
LEMMA ParseLineNone == FoldLeft(ParseLine, <<Section(0, "Preamble")>>, <<>>) = <<Section(0, "Preamble")>>
<1>1. <<>> \in Seq(Placed)
  OBVIOUS
<1> QED
  BY <1>1, ParseLineFolds, FoldedNone

\* The sections of a document.
LEMMA ParsedTypes ==
  ASSUME NEW lines \in Seq(Placed)
  PROVE  parseStructure(lines) \in Seq(ReadSection)
<1>1. (IF HasTitle(lines) THEN Tail(lines) ELSE lines) \in Seq(Placed)
  BY DEF HasTitle
<1>2. PICK sections \in Seq(OpenSection) : sections = Sections(lines)
  <2>1. Sections(lines) \in Sectioned
    BY <1>1, ParseLineStays DEF Sections
  <2> QED
    BY <2>1 DEF Sectioned
<1>3. PICK n \in Nat : n = Len(sections) /\ DOMAIN sections = 1 .. n
  OBVIOUS
<1>4. PICK read : read = [k \in 1 .. n |->
                            [sections[k] EXCEPT !.blocks = Filter(@, LAMBDA b : b # <<>>)]]
  OBVIOUS
<1>5. ASSUME NEW k \in 1 .. n PROVE read[k] \in ReadSection
  <2>1. PICK s \in OpenSection : s = sections[k]
    BY <1>3
  <2>2. PICK blocks \in Seq(Seq(Placed)) : blocks = s.blocks
    BY DEF OpenSection
  <2>3. PICK parts : parts = [i \in DOMAIN blocks |-> IF blocks[i] # <<>> THEN <<blocks[i]>> ELSE <<>>]
    OBVIOUS
  <2>4. parts = [i \in DOMAIN blocks |-> parts[i]]
        /\ \A i \in DOMAIN blocks : parts[i] \in {<<blocks[i]>>, <<>>}
    BY <2>3
  <2>5. PICK left \in Seq(Seq(Placed)) : left = FlattenSeq(parts)
    BY <2>4, FilterTypes
  <2>6. [s EXCEPT !.blocks = left] \in ReadSection
    BY DEF OpenSection, ReadSection
  <2>7. read[k] = [s EXCEPT !.blocks = left]
    BY <1>4, <2>1, <2>2, <2>3, <2>5 DEF Filter
  <2> QED
    BY <2>6, <2>7
<1>6. read \in Seq(ReadSection) /\ DOMAIN read = 1 .. n
  <2>1. [k \in 1 .. n |-> read[k]] \in Seq(ReadSection)
    BY <1>5, ElementsType
  <2>2. read = [k \in 1 .. n |-> read[k]] /\ DOMAIN read = 1 .. n
    BY <1>4, Zenon
  <2> QED
    BY <2>1, <2>2
<1>7. PICK parts : parts = [k \in DOMAIN read |-> IF read[k].blocks # <<>> THEN <<read[k]>> ELSE <<>>]
  OBVIOUS
<1>8. parts = [k \in DOMAIN read |-> parts[k]]
      /\ \A k \in DOMAIN read : parts[k] \in {<<read[k]>>, <<>>}
  BY <1>7
<1>9. FlattenSeq(parts) \in Seq(ReadSection)
  BY <1>6, <1>8, FilterTypes
<1>10. parseStructure(lines) = FlattenSeq(parts)
  BY <1>2, <1>3, <1>4, <1>6, <1>7 DEF parseStructure, Filter
<1> QED
  BY <1>9, <1>10

-----------------------------------------------------------------------------
(* Every reachable document *)

PagesTypes == pages \in Seq(Seq(Shapes)) \ {<<>>}

\* The lines of a document, with their places, but for what is dropped.
LEMMA StrippedTypes ==
  ASSUME PagesTypes
  PROVE  stripBoilerplate \in Seq(Seq(Placed))
<1>1. PICK n \in Nat : n = Len(pages) /\ DOMAIN pages = 1 .. n
  BY DEF PagesTypes
<1>2. Text = [p \in 1 .. n |-> Text[p]]
  BY <1>1 DEF Text
<1>3. ASSUME NEW p \in 1 .. n PROVE Text[p] \in Seq(Placed)
  <2>1. PICK page \in Seq(Shapes) : page = pages[p]
    BY <1>1 DEF PagesTypes
  <2>2. PICK m \in Nat : m = Len(page) /\ DOMAIN page = 1 .. m
    OBVIOUS
  <2>3. \A i \in 1 .. m : [line |-> page[i], at |-> <<p, i>>] \in Placed
    BY <2>2 DEF Placed, Places
  <2>4. [i \in 1 .. m |-> [line |-> page[i], at |-> <<p, i>>]] \in Seq(Placed)
    BY <2>3
  <2> QED
    BY <1>1, <2>1, <2>2, <2>4 DEF Text
<1>4. ASSUME NEW p \in 1 .. n PROVE stripBoilerplate[p] \in Seq(Placed)
  <2>1. PICK text \in Seq(Placed) : text = Text[p]
    BY <1>3
  <2>2. PICK parts : parts = [i \in DOMAIN text |->
                               IF ~Repeated(text[i].line) /\ text[i].line.kind # "page number"
                               THEN <<text[i]>> ELSE <<>>]
    OBVIOUS
  <2>3. parts = [i \in DOMAIN text |-> parts[i]]
        /\ \A i \in DOMAIN text : parts[i] \in {<<text[i]>>, <<>>}
    BY <2>2
  <2>4. FlattenSeq(parts) \in Seq(Placed)
    BY <2>3, FilterTypes
  <2>5. DOMAIN Text = 1 .. n
    BY <1>2
  <2>6. stripBoilerplate[p] = FlattenSeq(parts)
    BY <2>1, <2>2, <2>5 DEF stripBoilerplate, Filter
  <2> QED
    BY <2>4, <2>6
<1>5. stripBoilerplate = [p \in 1 .. n |-> stripBoilerplate[p]]
  <2>1. DOMAIN Text = 1 .. n
    BY <1>2
  <2> QED
    BY <2>1 DEF stripBoilerplate
<1>6. [p \in 1 .. n |-> stripBoilerplate[p]] \in Seq(Seq(Placed))
  BY <1>4
<1> QED
  BY <1>5, <1>6

\* Every chunk fits, of any pages.
LEMMA ChunksTypes ==
  ASSUME PagesTypes
  PROVE  Chunks \in Seq(Chunk)
<1>1. toLines(stripBoilerplate) \in Seq(Placed)
  BY StrippedTypes, FlattenTypes DEF toLines
<1>2. chunkDocument(parseStructure(toLines(stripBoilerplate))) \in Seq(Chunk)
  BY <1>1, ParsedTypes, DocumentFits
<1>3. <<>> \in Seq(Chunk)
  OBVIOUS
<1> QED
  BY <1>2, <1>3 DEF Chunks

\* In the words of the property.
LEMMA ChunksFitPages ==
  ASSUME PagesTypes
  PROVE  ChunksFit
<1>1. PICK chunks \in Seq(Chunk) : chunks = Chunks
  BY ChunksTypes
<1>2. \A chunk \in ToSet(chunks) : chunk \in Chunk
  BY DEF ToSet
<1>3. ASSUME NEW chunk \in Chunk PROVE CountTokens(chunk.pieces) <= Cap
  BY DEF Chunk, Fitting
<1> QED
  BY <1>1, <1>2, <1>3 DEF ChunksFit

\* The pages of a document are sequences of lines, and there is one.
LEMMA PagesAlways == TextSpec => []PagesTypes
<1>1. TextInit => PagesTypes
  BY DEF TextInit, PagesTypes
<1>2. PagesTypes /\ [TextNext]_pages => PagesTypes'
  <2> SUFFICES ASSUME PagesTypes, [TextNext]_pages PROVE PagesTypes'
    OBVIOUS
  <2>1. PICK n \in Nat : n = Len(pages) /\ n # 0 /\ DOMAIN pages = 1 .. n
    BY DEF PagesTypes
  <2>2. CASE AddLine
    <3>1. PICK l \in Shapes : pages' = [pages EXCEPT ![n] = Append(@, l)]
      BY <2>1, <2>2 DEF AddLine
    <3>2. PICK page \in Seq(Shapes) : page = Append(pages[n], l)
      <4>1. pages[n] \in Seq(Shapes)
        BY <2>1 DEF PagesTypes
      <4>2. Append(pages[n], l) \in Seq(Shapes)
        BY <4>1
      <4> QED
        BY <4>2
    <3>3. pages' = [pages EXCEPT ![n] = page]
      BY <3>1, <3>2
    <3>4. pages' \in Seq(Seq(Shapes)) /\ DOMAIN pages' = 1 .. n
      BY <2>1, <3>3 DEF PagesTypes
    <3>5. DOMAIN <<>> = {} /\ n \in 1 .. n
      BY <2>1
    <3> QED
      BY <3>4, <3>5 DEF PagesTypes
  <2>3. CASE AddPage
    <3>1. pages' = Append(pages, <<>>) /\ <<>> \in Seq(Shapes)
      BY <2>3 DEF AddPage
    <3>2. pages' \in Seq(Seq(Shapes)) /\ Len(pages') = n + 1
      BY <2>1, <3>1 DEF PagesTypes
    <3> QED
      BY <2>1, <3>2 DEF PagesTypes
  <2>4. CASE UNCHANGED pages
    BY <2>4 DEF PagesTypes
  <2> QED
    BY <2>2, <2>3, <2>4 DEF TextNext
<1> QED
  BY <1>1, <1>2, PTL DEF TextSpec

\* Every document extractPages and chunkDocument can meet.
THEOREM ChunksAlwaysFit == TextSpec => []ChunksFit
<1>1. PagesTypes => ChunksFit
  BY ChunksFitPages
<1> QED
  BY <1>1, PagesAlways, PTL

-----------------------------------------------------------------------------
(* Nothing is lost: pieces *)

\* A packed word comes after the ones before it.
LEMMA PackWordGrows ==
  ASSUME NEW out \in Seq(Piece), NEW w \in Word
  PROVE  FlattenSeq(PackWord(out, w)) = Append(FlattenSeq(out), w)
<1>1. out \in Seq(Seq(Word)) /\ <<w>> \in Seq(Word)
  <2>1. Piece \subseteq Seq(Word)
    BY DEF Piece
  <2>2. Seq(Piece) \subseteq Seq(Seq(Word))
    BY <2>1
  <2> QED
    BY <2>2
<1>2. PICK words \in Seq(Word) : words = FlattenSeq(out)
  <2>1. FlattenSeq(out) \in Seq(Word)
    BY <1>1, FlattenTypes
  <2> QED
    BY <2>1
<1>3. FlattenSeq(Append(out, <<w>>)) = Append(words, w)
  <2>1. FlattenSeq(Append(out, <<w>>)) = words \o <<w>>
    BY <1>1, <1>2, FlattenAppend
  <2> QED
    BY <2>1
<1>4. ASSUME out # <<>>
      PROVE  FlattenSeq([out EXCEPT ![Len(out)] = Append(@, w)]) = Append(words, w)
  <2>0. PICK front \in Seq(Seq(Word)), last \in Seq(Word) : EndsIn(out, Seq(Word), front, last)
    BY <1>1, <1>4, LastReplaced
  <2>1. /\ out = Append(front, last) /\ last = Last(out)
        /\ \A y \in Seq(Word) : [out EXCEPT ![Len(out)] = y] = Append(front, y)
    BY <2>0 DEF EndsIn
  <2>2. PICK more \in Seq(Word) : more = Append(last, w)
    <3>1. Append(last, w) \in Seq(Word)
      OBVIOUS
    <3> QED
      BY <3>1
  <2>3. [out EXCEPT ![Len(out)] = Append(@, w)] = [out EXCEPT ![Len(out)] = more]
    <3>1. Last(out) = out[Len(out)]
      BY DEF Last
    <3> QED
      BY <2>1, <2>2, <3>1
  <2>4. [out EXCEPT ![Len(out)] = more] = Append(front, more)
    BY <2>1, <2>2
  <2>5. PICK before \in Seq(Word) : before = FlattenSeq(front)
    <3>1. FlattenSeq(front) \in Seq(Word)
      BY FlattenTypes
    <3> QED
      BY <3>1
  <2>6. FlattenSeq(Append(front, more)) = before \o more
    BY <2>5, FlattenAppend
  <2>7. words = before \o last
    BY <1>2, <2>1, <2>5, FlattenAppend
  <2>8. before \o Append(last, w) = Append(before \o last, w)
    BY ConcatAppend
  <2> QED
    BY <2>2, <2>3, <2>4, <2>6, <2>7, <2>8
<1> QED
  BY <1>2, <1>3, <1>4 DEF PackWord

\* Packing keeps the words and their order.
LEMMA PackedWords ==
  ASSUME NEW words \in Seq(Word)
  PROVE  FlattenSeq(FoldLeft(PackWord, <<>>, words)) = words
<1> DEFINE P == {s \in Seq(Word) : FlattenSeq(FoldLeft(PackWord, <<>>, s)) = s}
<1>1. <<>> \in P
  <2>1. <<>> \in Seq(Word)
    OBVIOUS
  <2> QED
    BY <2>1, PackWordNone, FlattenEmpty
<1>2. ASSUME NEW s \in Seq(Word), NEW w \in Word, s \in P PROVE Append(s, w) \in P
  <2>1. PICK out \in Seq(Piece) : out = FoldLeft(PackWord, <<>>, s)
    BY PackWordStays
  <2>2. FoldLeft(PackWord, <<>>, Append(s, w)) = PackWord(out, w)
    BY <2>1, PackWordAppend
  <2>3. FlattenSeq(PackWord(out, w)) = Append(FlattenSeq(out), w)
    BY PackWordGrows
  <2>4. Append(s, w) \in Seq(Word)
    OBVIOUS
  <2> QED
    BY <1>2, <2>1, <2>2, <2>3, <2>4
<1> HIDE DEF P
<1>3. Seq(Word) \subseteq P
  BY <1>1, <1>2, SeqInduction
<1> QED
  BY <1>3 DEF P

\* A line that is cut keeps its words.
LEMMA SplitWords ==
  ASSUME NEW l \in Placed
  PROVE  FlattenSeq(splitToFit(l)) = WholeLine(l)
<1>1. PICK text \in Seq(Seq(Nat)) : text = l.line.text
  BY SentenceTypes
<1>2. PICK n \in Nat : n = Len(text) /\ DOMAIN text = 1 .. n
  OBVIOUS
<1>3. PICK cut : cut = [s \in 1 .. n |->
                          IF CountTokens(<<Sentence(l, s)>>) <= Cap THEN <<Sentence(l, s)>>
                          ELSE FoldLeft(PackWord, <<>>, Sentence(l, s))]
  OBVIOUS
<1>4. PICK flat : flat = [s \in 1 .. n |-> Sentence(l, s)]
  OBVIOUS
<1>5. ASSUME NEW s \in 1 .. n
      PROVE  /\ flat[s] \in Seq(Word) /\ cut[s] \in Seq(Seq(Word))
             /\ FlattenSeq(cut[s]) = flat[s]
  <2>1. PICK words \in Seq(Word) : words = Sentence(l, s) /\ flat[s] = words
    BY <1>1, <1>2, <1>4, SentenceTypes
  <2>2. CASE CountTokens(<<words>>) <= Cap
    <3>1. cut[s] = <<words>>
      BY <1>3, <2>1, <2>2
    <3>2. <<words>> \in Seq(Seq(Word))
      OBVIOUS
    <3>3. FlattenSeq(<<words>>) = words
      BY FlattenOne
    <3> QED
      BY <2>1, <3>1, <3>2, <3>3
  <2>3. CASE ~(CountTokens(<<words>>) <= Cap)
    <3>1. cut[s] = FoldLeft(PackWord, <<>>, words)
      BY <1>3, <2>1, <2>3
    <3>2. FoldLeft(PackWord, <<>>, words) \in Seq(Piece)
      BY PackWordStays
    <3>3. Seq(Piece) \subseteq Seq(Seq(Word))
      <4>1. Piece \subseteq Seq(Word)
        BY DEF Piece
      <4> QED
        BY <4>1
    <3> QED
      BY <2>1, <3>1, <3>2, <3>3, PackedWords
  <2> QED
    BY <2>2, <2>3
<1>6. cut \in Seq(Seq(Seq(Word))) /\ DOMAIN cut = 1 .. n
  BY <1>3, <1>5
<1>7. flat \in Seq(Seq(Word)) /\ DOMAIN flat = 1 .. n
  BY <1>4, <1>5
<1>8. FlattenSeq(FlattenSeq(cut)) = FlattenSeq(flat)
  BY <1>5, <1>6, <1>7, FlattenTwice
<1> QED
  BY <1>1, <1>2, <1>3, <1>4, <1>8 DEF splitToFit, WholeLine

\* The words of the lines of a block.
LineWords(block) == FlattenSeq([n \in DOMAIN block |-> WholeLine(block[n])])

\* The pieces of a block have its words.
LEMMA PiecesWords ==
  ASSUME NEW block \in Seq(Placed)
  PROVE  FlattenSeq(toPieces(block)) = LineWords(block)
<1>1. PICK n \in Nat : n = Len(block) /\ DOMAIN block = 1 .. n
  OBVIOUS
<1>2. \A i \in 1 .. n : block[i] \in Placed
  BY <1>1
<1>3. PICK cut : cut = [i \in 1 .. n |->
                          IF CountTokens(<<WholeLine(block[i])>>) <= Cap THEN <<WholeLine(block[i])>>
                          ELSE splitToFit(block[i])]
  OBVIOUS
<1>4. PICK flat : flat = [i \in 1 .. n |-> WholeLine(block[i])]
  OBVIOUS
<1>5. ASSUME NEW i \in 1 .. n
      PROVE  /\ flat[i] \in Seq(Word) /\ cut[i] \in Seq(Seq(Word))
             /\ FlattenSeq(cut[i]) = flat[i]
  <2>1. PICK words \in Seq(Word) : words = WholeLine(block[i]) /\ flat[i] = words
    BY <1>2, <1>4, SentenceTypes
  <2>2. CASE CountTokens(<<words>>) <= Cap
    <3>1. cut[i] = <<words>>
      BY <1>3, <2>1, <2>2
    <3>2. <<words>> \in Seq(Seq(Word))
      OBVIOUS
    <3>3. FlattenSeq(<<words>>) = words
      BY FlattenOne
    <3> QED
      BY <2>1, <3>1, <3>2, <3>3
  <2>3. CASE ~(CountTokens(<<words>>) <= Cap)
    <3>1. cut[i] = splitToFit(block[i])
      BY <1>3, <2>1, <2>3
    <3>2. splitToFit(block[i]) \in Seq(Piece)
      BY <1>2, SplitFits
    <3>3. Seq(Piece) \subseteq Seq(Seq(Word))
      <4>1. Piece \subseteq Seq(Word)
        BY DEF Piece
      <4> QED
        BY <4>1
    <3>4. FlattenSeq(splitToFit(block[i])) = words
      BY <1>2, <2>1, SplitWords
    <3> QED
      BY <2>1, <3>1, <3>2, <3>3, <3>4
  <2> QED
    BY <2>2, <2>3
<1>6. cut \in Seq(Seq(Seq(Word))) /\ DOMAIN cut = 1 .. n
  BY <1>3, <1>5
<1>7. flat \in Seq(Seq(Word)) /\ DOMAIN flat = 1 .. n
  BY <1>4, <1>5
<1>8. FlattenSeq(FlattenSeq(cut)) = FlattenSeq(flat)
  BY <1>5, <1>6, <1>7, FlattenTwice
<1> QED
  BY <1>1, <1>3, <1>4, <1>8 DEF toPieces, LineWords

-----------------------------------------------------------------------------
(* Nothing is lost: windows *)

\* The words of every chunk.
Joined(cs) == [n \in DOMAIN cs |-> FlattenSeq(cs[n])]

\* As a map on chunks.
LEMMA JoinedMap ==
  \E f : /\ IsMap(f, Seq(Seq(Word)), Seq(Word))
         /\ \A c \in Seq(Seq(Word)) : f[c] = FlattenSeq(c)
         /\ \A cs \in Seq(Seq(Seq(Word))) : Joined(cs) = Mapped(f, cs)
<1>1. PICK f : f = [t \in Seq(Seq(Word)) |-> FlattenSeq(t)]
  OBVIOUS
<1>2. \A t \in Seq(Seq(Word)) : f[t] = FlattenSeq(t) /\ FlattenSeq(t) \in Seq(Word)
  BY <1>1, FlattenTypes
<1>3. IsMap(f, Seq(Seq(Word)), Seq(Word))
  BY <1>1, <1>2 DEF IsMap
<1>4. ASSUME NEW cs \in Seq(Seq(Seq(Word))) PROVE Joined(cs) = Mapped(f, cs)
  <2>1. \A n \in DOMAIN cs : f[cs[n]] = FlattenSeq(cs[n])
    BY <1>2
  <2> QED
    BY <2>1 DEF Joined, Mapped
<1> QED
  BY <1>2, <1>3, <1>4

\* One chunk after the other.
LEMMA JoinedRules ==
  ASSUME NEW cs \in Seq(Seq(Seq(Word))), NEW c \in Seq(Seq(Word))
  PROVE  /\ Joined(cs) \in Seq(Seq(Word))
         /\ FlattenSeq(c) \in Seq(Word)
         /\ Joined(Append(cs, c)) = Append(Joined(cs), FlattenSeq(c))
<1>1. PICK f : /\ IsMap(f, Seq(Seq(Word)), Seq(Word))
               /\ \A t \in Seq(Seq(Word)) : f[t] = FlattenSeq(t)
               /\ \A ds \in Seq(Seq(Seq(Word))) : Joined(ds) = Mapped(f, ds)
  BY JoinedMap
<1>2. Append(cs, c) \in Seq(Seq(Seq(Word))) /\ FlattenSeq(c) \in Seq(Word)
  BY FlattenTypes
<1>3. /\ Mapped(f, cs) \in Seq(Seq(Word))
      /\ Mapped(f, Append(cs, c)) = Append(Mapped(f, cs), f[c])
  BY <1>1, MappedRules
<1> QED
  BY <1>1, <1>2, <1>3

\* Of nothing.
LEMMA JoinedNone == Joined(<<>>) = <<>>
BY DEF Joined

\* Of two parts.
LEMMA JoinedConcat ==
  ASSUME NEW cs \in Seq(Seq(Seq(Word))), NEW ds \in Seq(Seq(Seq(Word)))
  PROVE  Joined(cs \o ds) = Joined(cs) \o Joined(ds)
<1>1. PICK f : /\ IsMap(f, Seq(Seq(Word)), Seq(Word))
               /\ \A es \in Seq(Seq(Seq(Word))) : Joined(es) = Mapped(f, es)
  BY JoinedMap
<1>2. PICK both \in Seq(Seq(Seq(Word))) : both = cs \o ds
  <2>1. cs \o ds \in Seq(Seq(Seq(Word)))
    OBVIOUS
  <2> QED
    BY <2>1
<1>3. Mapped(f, cs \o ds) = Mapped(f, cs) \o Mapped(f, ds)
  BY <1>1, MappedConcat
<1> QED
  BY <1>1, <1>2, <1>3

\* The end of a sequence of pieces has no other words.
LEMMA FromWithin ==
  ASSUME NEW seq \in Seq(Seq(Word)), NEW n \in Nat, n # 0, n <= Len(seq) + 1
  PROVE  ToSet(FlattenSeq(From(seq, n))) \subseteq ToSet(FlattenSeq(seq))
<1>1. PICK t \in Seq(Seq(Word)) : t = From(seq, n)
  BY FromTypes
<1>2. ASSUME NEW i \in DOMAIN t PROVE \E j \in DOMAIN seq : t[i] = seq[j]
  <2>1. t = SubSeq(seq, n, Len(seq))
    BY <1>1 DEF From
  <2>2. Len(seq) \in Nat /\ DOMAIN seq = 1 .. Len(seq)
    OBVIOUS
  <2>3. DOMAIN t = 1 .. Len(seq) - n + 1 /\ t[i] = seq[n + i - 1] /\ i \in 1 .. Len(seq) - n + 1
    BY <1>2, <2>1, <2>2
  <2>4. n + i - 1 \in 1 .. Len(seq)
    BY <2>2, <2>3
  <2> QED
    BY <2>2, <2>3, <2>4
<1>3. ToSet(t) \subseteq ToSet(seq)
  BY <1>2 DEF ToSet
<1>4. ASSUME NEW y \in ToSet(FlattenSeq(t)) PROVE y \in ToSet(FlattenSeq(seq))
  <2>1. \E u \in ToSet(t) : y \in ToSet(u)
    BY InFlatten
  <2>2. \E u \in ToSet(seq) : y \in ToSet(u)
    BY <1>3, <2>1
  <2> QED
    BY <2>2, InFlatten
<1> QED
  BY <1>1, <1>4

\* What a window starts with are words of the one before it.
LEMMA TailWithin ==
  ASSUME NEW win \in Seq(Seq(Word)), NEW piece \in Piece
  PROVE  \E t \in Seq(Seq(Word)) :
            /\ t = FitTail(overlapTail(win), piece)
            /\ ToSet(FlattenSeq(t)) \subseteq ToSet(FlattenSeq(win))
<1>1. PICK tail \in Seq(Seq(Word)) : tail = overlapTail(win)
  BY TailTypes
<1>2. ToSet(FlattenSeq(tail)) \subseteq ToSet(FlattenSeq(win))
  <2>1. PICK taken : taken = {n \in 2 .. Len(win) : Tokens(FlattenSeq(From(win, n + 1))) < Overlap}
    OBVIOUS
  <2>2. CASE taken = {}
    <3>1. tail = <<>>
      BY <1>1, <2>1, <2>2 DEF overlapTail
    <3>2. ToSet(FlattenSeq(tail)) = {}
      BY <3>1, FlattenEmpty, NothingIn
    <3> QED
      BY <3>2
  <2>3. CASE taken # {}
    <3>1. taken \in SUBSET Nat /\ \A n \in taken : n # 0 /\ n <= Len(win) + 1
      BY <2>1
    <3>2. PICK n \in taken : n = Min(taken)
      BY <2>3, <3>1, MinIsLeast
    <3>3. tail = From(win, n)
      BY <1>1, <2>1, <2>3, <3>2 DEF overlapTail
    <3> QED
      BY <3>1, <3>3, FromWithin
  <2> QED
    BY <2>2, <2>3
<1>3. PICK kept : kept = {n \in 1 .. Len(tail) : CountTokens(Append(From(tail, n), piece)) <= Cap}
                             \cup {Len(tail) + 1}
  OBVIOUS
<1>4. PICK m \in Nat : m = Len(tail)
  OBVIOUS
<1>5. kept \in SUBSET Nat /\ kept # {} /\ \A n \in kept : n # 0 /\ n <= m + 1
  BY <1>3, <1>4
<1>6. PICK n \in kept : n = Min(kept)
  BY <1>5, MinIsLeast
<1>7. n \in Nat /\ n # 0 /\ n <= Len(tail) + 1
  BY <1>4, <1>5
<1>8. PICK t \in Seq(Seq(Word)) : t = From(tail, n)
  BY <1>7, FromTypes
<1>9. ToSet(FlattenSeq(t)) \subseteq ToSet(FlattenSeq(tail))
  BY <1>7, <1>8, FromWithin
<1>10. t = FitTail(overlapTail(win), piece)
  BY <1>1, <1>3, <1>6, <1>8 DEF FitTail
<1> QED
  BY <1>2, <1>9, <1>10

\* What a window is so far, of pieces with the words ws.
Windowed(acc, pieces, ws) ==
    IF pieces = <<>> THEN acc.out = <<>> /\ acc.win = <<>>
    ELSE acc.win # <<>> /\ Covers(Append(Joined(acc.out), FlattenSeq(acc.win)), ws)

\* One more piece, of new words, and not the first.
LEMMA NextPieceCovers ==
  ASSUME NEW acc \in Windows, NEW piece \in Piece, NEW ws \in Seq(Word), acc.win # <<>>,
         Covers(Append(Joined(acc.out), FlattenSeq(acc.win)), ws),
         ToSet(piece) \cap ToSet(ws) = {}
  PROVE  /\ AddPiece(acc, piece).win # <<>>
         /\ Covers(Append(Joined(AddPiece(acc, piece).out), FlattenSeq(AddPiece(acc, piece).win)), ws \o piece)
<1>1. PICK out \in Seq(Seq(Seq(Word))), win \in Seq(Seq(Word)) : out = acc.out /\ win = acc.win
  <2>1. acc.out \in Seq(Fitting) /\ acc.win \in Window
    BY DEF Windows
  <2>2. Seq(Fitting) \subseteq Seq(Seq(Seq(Word)))
    <3>1. Fitting \subseteq Seq(Seq(Word))
      BY DEF Fitting
    <3> QED
      BY <3>1
  <2> QED
    BY <2>1, <2>2, WindowTypes
<1>2. piece \in Seq(Word)
  BY PieceFits
<1>3. PICK cs \in Seq(Seq(Word)), c \in Seq(Word) : cs = Joined(out) /\ c = FlattenSeq(win)
  BY JoinedRules
<1>4. Covers(Append(cs, c), ws)
  BY <1>1, <1>3
<1>5. CASE CountTokens(Append(win, piece)) > Target
  <2>1. PICK t \in Seq(Seq(Word)) :
           /\ t = FitTail(overlapTail(win), piece)
           /\ ToSet(FlattenSeq(t)) \subseteq ToSet(FlattenSeq(win))
    BY TailWithin
  <2>2. AddPiece(acc, piece) = [out |-> Append(out, win), win |-> Append(t, piece)]
    BY <1>1, <1>5, <2>1 DEF AddPiece
  <2>3. PICK tw \in Seq(Word) : tw = FlattenSeq(t)
    BY FlattenTypes
  <2>4. Covers(Append(Append(cs, c), tw \o piece), ws \o piece)
    BY <1>2, <1>3, <1>4, <2>1, <2>3, CoverNext
  <2>5. Joined(Append(out, win)) = Append(cs, c)
    BY <1>3, JoinedRules
  <2>6. FlattenSeq(Append(t, piece)) = tw \o piece
    BY <1>2, <2>3, FlattenAppend
  <2>7. Append(t, piece) # <<>>
    BY <1>2, AppendedIsNotEmpty
  <2>8. AddPiece(acc, piece).out = Append(out, win) /\ AddPiece(acc, piece).win = Append(t, piece)
    BY <2>2
  <2>9. PICK more \in Seq(Seq(Word)) : more = Append(cs, c)
    <3>1. Append(cs, c) \in Seq(Seq(Word))
      OBVIOUS
    <3> QED
      BY <3>1
  <2>10. Covers(Append(more, tw \o piece), ws \o piece) /\ Joined(AddPiece(acc, piece).out) = more
    BY <2>4, <2>5, <2>8, <2>9
  <2>11. FlattenSeq(AddPiece(acc, piece).win) = tw \o piece /\ AddPiece(acc, piece).win # <<>>
    BY <2>6, <2>7, <2>8
  <2> QED
    BY <2>10, <2>11, Zenon
<1>6. CASE ~(CountTokens(Append(win, piece)) > Target)
  <2>1. AddPiece(acc, piece) = [acc EXCEPT !.win = Append(win, piece)]
    BY <1>1, <1>6 DEF AddPiece
  <2>2. AddPiece(acc, piece).out = out /\ AddPiece(acc, piece).win = Append(win, piece)
    BY <1>1, <2>1 DEF Windows
  <2>3. Covers(Append(cs, c \o piece), ws \o piece)
    BY <1>2, <1>3, <1>4, CoverGrow
  <2>4. FlattenSeq(Append(win, piece)) = c \o piece
    BY <1>2, <1>3, FlattenAppend
  <2>5. Append(win, piece) # <<>>
    BY <1>2, AppendedIsNotEmpty
  <2> QED
    BY <1>3, <2>2, <2>3, <2>4, <2>5
<1> QED
  BY <1>5, <1>6

\* The first piece.
LEMMA FirstPieceCovers ==
  ASSUME NEW acc \in Windows, NEW piece \in Piece, acc.out = <<>>, acc.win = <<>>
  PROVE  /\ AddPiece(acc, piece).win # <<>>
         /\ Covers(Append(Joined(AddPiece(acc, piece).out), FlattenSeq(AddPiece(acc, piece).win)), piece)
<1>1. piece \in Seq(Word)
  BY PieceFits
<1>2. AddPiece(acc, piece) = [acc EXCEPT !.win = Append(@, piece)]
  BY DEF AddPiece
<1>3. AddPiece(acc, piece).out = <<>> /\ AddPiece(acc, piece).win = Append(<<>>, piece)
  BY <1>2 DEF Windows
<1>4. Append(<<>>, piece) = <<piece>>
  OBVIOUS
<1>5. FlattenSeq(<<piece>>) = piece
  BY <1>1, FlattenOne
<1>6. Covers(<<piece>>, piece)
  BY <1>1, CoverOne
<1>7. <<piece>> # <<>>
  OBVIOUS
<1> QED
  BY <1>3, <1>4, <1>5, <1>6, <1>7, JoinedNone

\* What AddPiece makes of a sequence of pieces.
Added(pieces) == FoldLeft(AddPiece, [out |-> <<>>, win |-> <<>>], pieces)

\* By induction on the pieces.
LEMMA AddedCovers ==
  ASSUME NEW pieces \in Seq(Piece), Distinct(FlattenSeq(pieces))
  PROVE  Windowed(Added(pieces), pieces, FlattenSeq(pieces))
<1> DEFINE P == {ps \in Seq(Piece) : Distinct(FlattenSeq(ps)) => Windowed(Added(ps), ps, FlattenSeq(ps))}
<1>1. <<>> \in P
  <2>1. <<>> \in Seq(Piece)
    OBVIOUS
  <2>2. Added(<<>>).out = <<>> /\ Added(<<>>).win = <<>>
    BY AddPieceNone DEF Added
  <2>3. Windowed(Added(<<>>), <<>>, FlattenSeq(<<>>))
    BY <2>2 DEF Windowed
  <2> QED
    BY <2>1, <2>3
<1>2. ASSUME NEW ps \in Seq(Piece), NEW piece \in Piece, ps \in P PROVE Append(ps, piece) \in P
  <2>1. PICK more \in Seq(Piece) : more = Append(ps, piece)
    <3>1. Append(ps, piece) \in Seq(Piece)
      OBVIOUS
    <3> QED
      BY <3>1
  <2>2. piece \in Seq(Word) /\ ps \in Seq(Seq(Word))
    <3>1. Piece \subseteq Seq(Word)
      BY DEF Piece
    <3>2. Seq(Piece) \subseteq Seq(Seq(Word))
      BY <3>1
    <3> QED
      BY <3>1, <3>2
  <2>3. PICK ws \in Seq(Word) : ws = FlattenSeq(ps)
    BY <2>2, FlattenTypes
  <2>4. FlattenSeq(more) = ws \o piece
    BY <2>1, <2>2, <2>3, FlattenAppend
  <2>5. PICK acc \in Windows : acc = Added(ps)
    BY AddPieceStays DEF Added
  <2>6. Added(more) = AddPiece(acc, piece)
    BY <2>1, <2>5, AddPieceAppend DEF Added
  <2>7. more # <<>>
    BY <2>1, AppendedIsNotEmpty
  <2>8. ASSUME Distinct(ws \o piece) PROVE Windowed(AddPiece(acc, piece), more, ws \o piece)
    <3>1. Distinct(ws) /\ ToSet(ws) \cap ToSet(piece) = {}
      BY <2>2, <2>8, DistinctConcat
    <3>2. Windowed(acc, ps, ws)
      BY <1>2, <2>3, <2>5, <3>1
    <3>3. CASE ps = <<>>
      <4>1. acc.out = <<>> /\ acc.win = <<>>
        BY <3>2, <3>3 DEF Windowed
      <4>2. ws = <<>>
        BY <2>3, <3>3, FlattenEmpty
      <4>3. ws \o piece = piece
        BY <2>2, <4>2
      <4>4. AddPiece(acc, piece).win # <<>>
        BY <4>1, FirstPieceCovers
      <4>5. Covers(Append(Joined(AddPiece(acc, piece).out), FlattenSeq(AddPiece(acc, piece).win)), piece)
        BY <4>1, FirstPieceCovers
      <4> QED
        BY <2>7, <4>3, <4>4, <4>5 DEF Windowed
    <3>4. CASE ps # <<>>
      <4>1. acc.win # <<>> /\ Covers(Append(Joined(acc.out), FlattenSeq(acc.win)), ws)
        BY <3>2, <3>4 DEF Windowed
      <4>2. ToSet(piece) \cap ToSet(ws) = {}
        BY <3>1
      <4>3. AddPiece(acc, piece).win # <<>>
        BY <4>1, <4>2, NextPieceCovers
      <4>4. Covers(Append(Joined(AddPiece(acc, piece).out), FlattenSeq(AddPiece(acc, piece).win)), ws \o piece)
        BY <4>1, <4>2, NextPieceCovers
      <4> QED
        BY <2>7, <4>3, <4>4 DEF Windowed
    <3> QED
      BY <3>3, <3>4
  <2>9. Distinct(FlattenSeq(more)) => Windowed(Added(more), more, FlattenSeq(more))
    BY <2>4, <2>6, <2>8
  <2> QED
    BY <2>1, <2>9
<1> HIDE DEF P
<1>3. Seq(Piece) \subseteq P
  BY <1>1, <1>2, SeqInduction
<1> QED
  BY <1>3 DEF P

\* The windows of a sequence of pieces cover its words.
LEMMA WindowsCover ==
  ASSUME NEW pieces \in Seq(Piece), Distinct(FlattenSeq(pieces))
  PROVE  Covers(Joined(windows(pieces)), FlattenSeq(pieces))
<1>1. PICK acc \in Windows : acc = Added(pieces)
  BY AddPieceStays DEF Added
<1>2. Windowed(acc, pieces, FlattenSeq(pieces))
  BY <1>1, AddedCovers
<1>3. PICK out \in Seq(Seq(Seq(Word))), win \in Seq(Seq(Word)) : out = acc.out /\ win = acc.win
  <2>1. acc.out \in Seq(Fitting) /\ acc.win \in Window
    BY DEF Windows
  <2>2. Seq(Fitting) \subseteq Seq(Seq(Seq(Word)))
    <3>1. Fitting \subseteq Seq(Seq(Word))
      BY DEF Fitting
    <3> QED
      BY <3>1
  <2> QED
    BY <2>1, <2>2, WindowTypes
<1>4. windows(pieces) = Flush(out, win)
  BY <1>1, <1>3 DEF windows, Added
<1>5. CASE pieces = <<>>
  <2>1. out = <<>> /\ win = <<>>
    BY <1>2, <1>3, <1>5 DEF Windowed
  <2>2. windows(pieces) = <<>>
    BY <1>4, <2>1 DEF Flush
  <2> QED
    BY <1>5, <2>2, JoinedNone, FlattenEmpty, CoverNone
<1>6. CASE pieces # <<>>
  <2>1. win # <<>> /\ Covers(Append(Joined(out), FlattenSeq(win)), FlattenSeq(pieces))
    BY <1>2, <1>3, <1>6 DEF Windowed
  <2>2. windows(pieces) = Append(out, win)
    BY <1>4, <2>1 DEF Flush
  <2>3. Joined(Append(out, win)) = Append(Joined(out), FlattenSeq(win))
    BY JoinedRules
  <2> QED
    BY <2>1, <2>2, <2>3
<1> QED
  BY <1>5, <1>6

-----------------------------------------------------------------------------
(* Nothing is lost: blocks *)

\* What is collected is chunks if it is anything.
LEMMA FlushCovers ==
  ASSUME NEW chunks \in Seq(Seq(Seq(Word))), NEW current \in Seq(Seq(Word)), NEW ws \in Seq(Word),
         Covers(Joined(chunks), ws), ToSet(ws) \cap ToSet(FlattenSeq(current)) = {}
  PROVE  Covers(Joined(Flush(chunks, current)), ws \o FlattenSeq(current))
<1>1. PICK cs \in Seq(Seq(Word)), c \in Seq(Word) : cs = Joined(chunks) /\ c = FlattenSeq(current)
  BY JoinedRules
<1>2. CASE current = <<>>
  <2>1. Flush(chunks, current) = chunks
    BY <1>2 DEF Flush
  <2>2. c = <<>>
    BY <1>1, <1>2, FlattenEmpty
  <2>3. ws \o c = ws
    BY <2>2
  <2> QED
    BY <1>1, <2>1, <2>3
<1>3. CASE current # <<>>
  <2>1. Flush(chunks, current) = Append(chunks, current)
    BY <1>3 DEF Flush
  <2>2. Joined(Append(chunks, current)) = Append(cs, c)
    BY <1>1, JoinedRules
  <2>3. PICK one \in Seq(Seq(Word)) : one = <<c>>
    <3>1. <<c>> \in Seq(Seq(Word))
      OBVIOUS
    <3> QED
      BY <3>1
  <2>4. Covers(one, c)
    BY <2>3, CoverOne
  <2>5. Covers(cs \o one, ws \o c)
    BY <1>1, <2>4, CoverConcat
  <2>6. cs \o one = Append(cs, c)
    BY <2>3
  <2> QED
    BY <1>1, <2>1, <2>2, <2>5, <2>6
<1> QED
  BY <1>2, <1>3

\* As a map on lines.
LEMMA LineWordsMap ==
  \E f : /\ IsMap(f, Placed, Seq(Word))
         /\ \A l \in Placed : f[l] = WholeLine(l)
         /\ \A b \in Seq(Placed) : LineWords(b) = FlatMap(f, b)
<1>1. PICK f : f = [l \in Placed |-> WholeLine(l)]
  OBVIOUS
<1>2. \A l \in Placed : WholeLine(l) \in Seq(Word) /\ f[l] = WholeLine(l)
  BY <1>1, SentenceTypes
<1>3. IsMap(f, Placed, Seq(Word))
  BY <1>1, <1>2 DEF IsMap
<1>4. ASSUME NEW b \in Seq(Placed) PROVE LineWords(b) = FlatMap(f, b)
  <2>1. \A n \in DOMAIN b : b[n] \in Placed
    OBVIOUS
  <2>2. \A n \in DOMAIN b : f[b[n]] = WholeLine(b[n])
    BY <1>2, <2>1
  <2>3. Mapped(f, b) = [n \in DOMAIN b |-> WholeLine(b[n])]
    BY <2>2 DEF Mapped
  <2> QED
    BY <2>3 DEF LineWords, FlatMap
<1> QED
  BY <1>2, <1>3, <1>4

\* One line after the other.
LEMMA LineWordsRules ==
  ASSUME NEW b \in Seq(Placed), NEW l \in Placed
  PROVE  /\ LineWords(b) \in Seq(Word)
         /\ WholeLine(l) \in Seq(Word)
         /\ LineWords(Append(b, l)) = LineWords(b) \o WholeLine(l)
<1>1. PICK f : /\ IsMap(f, Placed, Seq(Word))
               /\ \A k \in Placed : f[k] = WholeLine(k)
               /\ \A c \in Seq(Placed) : LineWords(c) = FlatMap(f, c)
  BY LineWordsMap
<1>2. Append(b, l) \in Seq(Placed)
  OBVIOUS
<1>3. /\ FlatMap(f, b) \in Seq(Word) /\ f[l] \in Seq(Word)
      /\ FlatMap(f, Append(b, l)) = FlatMap(f, b) \o f[l]
  BY <1>1, FlatMapRules
<1> QED
  BY <1>1, <1>2, <1>3

\* Of nothing.
LEMMA LineWordsNone == LineWords(<<>>) = <<>>
<1>1. [n \in DOMAIN <<>> |-> WholeLine(<<>>[n])] = <<>>
  OBVIOUS
<1> QED
  BY <1>1, FlattenEmpty DEF LineWords

\* The words of the lines of blocks.
BlockWords(blocks) == FlattenSeq([n \in DOMAIN blocks |-> LineWords(blocks[n])])

\* As a map on blocks.
LEMMA BlockWordsMap ==
  \E f : /\ IsMap(f, Seq(Placed), Seq(Word))
         /\ \A b \in Seq(Placed) : f[b] = LineWords(b)
         /\ \A bs \in Seq(Seq(Placed)) : BlockWords(bs) = FlatMap(f, bs)
<1>1. PICK f : f = [b \in Seq(Placed) |-> LineWords(b)]
  OBVIOUS
<1>2. ASSUME NEW b \in Seq(Placed) PROVE LineWords(b) \in Seq(Word)
  <2>1. PICK g : /\ IsMap(g, Placed, Seq(Word))
                 /\ \A c \in Seq(Placed) : LineWords(c) = FlatMap(g, c)
    BY LineWordsMap
  <2> QED
    BY <2>1, FlatMapTypes
<1>3. IsMap(f, Seq(Placed), Seq(Word)) /\ \A b \in Seq(Placed) : f[b] = LineWords(b)
  BY <1>1, <1>2 DEF IsMap
<1>4. ASSUME NEW bs \in Seq(Seq(Placed)) PROVE BlockWords(bs) = FlatMap(f, bs)
  <2>1. \A n \in DOMAIN bs : bs[n] \in Seq(Placed)
    OBVIOUS
  <2>2. \A n \in DOMAIN bs : f[bs[n]] = LineWords(bs[n])
    BY <1>3, <2>1
  <2>3. Mapped(f, bs) = [n \in DOMAIN bs |-> LineWords(bs[n])]
    BY <2>2 DEF Mapped
  <2> QED
    BY <2>3 DEF BlockWords, FlatMap
<1> QED
  BY <1>3, <1>4

\* One block after the other.
LEMMA BlockWordsRules ==
  ASSUME NEW bs \in Seq(Seq(Placed)), NEW b \in Seq(Placed)
  PROVE  /\ BlockWords(bs) \in Seq(Word)
         /\ LineWords(b) \in Seq(Word)
         /\ BlockWords(Append(bs, b)) = BlockWords(bs) \o LineWords(b)
<1>1. PICK f : /\ IsMap(f, Seq(Placed), Seq(Word))
               /\ \A k \in Seq(Placed) : f[k] = LineWords(k)
               /\ \A c \in Seq(Seq(Placed)) : BlockWords(c) = FlatMap(f, c)
  BY BlockWordsMap
<1>2. Append(bs, b) \in Seq(Seq(Placed))
  OBVIOUS
<1>3. /\ FlatMap(f, bs) \in Seq(Word) /\ f[b] \in Seq(Word)
      /\ FlatMap(f, Append(bs, b)) = FlatMap(f, bs) \o f[b]
  BY <1>1, FlatMapRules
<1> QED
  BY <1>1, <1>2, <1>3

\* Of nothing.
LEMMA BlockWordsNone == BlockWords(<<>>) = <<>>
<1>1. [n \in DOMAIN <<>> |-> LineWords(<<>>[n])] = <<>>
  OBVIOUS
<1> QED
  BY <1>1, FlattenEmpty DEF BlockWords

\* What has been collected of words.
CollectedOf(acc, words) ==
    \E ws \in Seq(Word) : Covers(Joined(acc.chunks), ws) /\ words = ws \o FlattenSeq(acc.current)

\* A collected chunk is a sequence of pieces.
LEMMA CollectedTypes ==
  ASSUME NEW acc \in Collected
  PROVE  acc.chunks \in Seq(Seq(Seq(Word))) /\ acc.current \in Seq(Seq(Word))
<1>1. acc.chunks \in Seq(Fitting) /\ acc.current \in Window
  BY DEF Collected
<1>2. Seq(Fitting) \subseteq Seq(Seq(Seq(Word)))
  <2>1. Fitting \subseteq Seq(Seq(Word))
    BY DEF Fitting
  <2> QED
    BY <2>1
<1> QED
  BY <1>1, <1>2, WindowTypes

\* One more block.
LEMMA NextBlockCovers ==
  ASSUME NEW acc \in Collected, NEW block \in Seq(Placed), NEW words \in Seq(Word),
         CollectedOf(acc, words), Distinct(words \o LineWords(block))
  PROVE  CollectedOf(AddBlock(acc, block), words \o LineWords(block))
<1>1. PICK chunks \in Seq(Seq(Seq(Word))), current \in Seq(Seq(Word)) : chunks = acc.chunks /\ current = acc.current
  BY CollectedTypes
<1>2. PICK pieces \in Seq(Seq(Word)) : pieces = [n \in DOMAIN block |-> WholeLine(block[n])]
  BY PiecesFit
<1>3. PICK lw \in Seq(Word) : lw = LineWords(block) /\ lw = FlattenSeq(pieces)
  BY <1>2, FlattenTypes DEF LineWords
<1>4. PICK ws \in Seq(Word) : Covers(Joined(chunks), ws) /\ words = ws \o FlattenSeq(current)
  BY <1>1 DEF CollectedOf
<1>5. PICK cw \in Seq(Word) : cw = FlattenSeq(current)
  BY FlattenTypes
<1>6. words = ws \o cw
  BY <1>4, <1>5
<1>7. Distinct(words) /\ Distinct(lw) /\ ToSet(words) \cap ToSet(lw) = {}
  BY <1>3, DistinctConcat
<1>8. ToSet(ws) \cap ToSet(cw) = {}
  <2>1. Distinct(ws \o cw)
    BY <1>6, <1>7
  <2> QED
    BY <2>1, DistinctConcat
<1>9. PICK flushed \in Seq(Seq(Seq(Word))) : flushed = Flush(chunks, current)
  <2>1. Append(chunks, current) \in Seq(Seq(Seq(Word)))
    OBVIOUS
  <2>2. Flush(chunks, current) \in Seq(Seq(Seq(Word)))
    BY <2>1 DEF Flush
  <2> QED
    BY <2>2
<1>10. Covers(Joined(flushed), words)
  <2>1. Covers(Joined(Flush(chunks, current)), ws \o FlattenSeq(current))
    BY <1>4, <1>5, <1>8, FlushCovers
  <2> QED
    BY <1>5, <1>6, <1>9, <2>1
<1>11. CASE CountTokens(current \o pieces) <= Target
  <2>1. AddBlock(acc, block) = [acc EXCEPT !.current = @ \o pieces]
    BY <1>1, <1>2, <1>11 DEF AddBlock
  <2>2. AddBlock(acc, block).chunks = chunks /\ AddBlock(acc, block).current = current \o pieces
    BY <1>1, <2>1 DEF Collected
  <2>3. FlattenSeq(current \o pieces) = cw \o lw
    BY <1>3, <1>5, FlattenConcat
  <2>4. words \o lw = ws \o (cw \o lw)
    <3>1. PICK e : Joins(e, cw, lw)
      BY DEF Joins
    <3>2. PICK f : Joins(f, words, lw)
      BY DEF Joins
    <3>3. Joins(words, ws, cw)
      BY <1>6 DEF Joins
    <3>4. Joins(f, ws, e)
      BY <3>1, <3>2, <3>3, JoinsTwice
    <3> QED
      BY <3>1, <3>2, <3>4, Zenon DEF Joins
  <2>5. Covers(Joined(AddBlock(acc, block).chunks), ws)
    BY <1>4, <2>2
  <2>6. words \o lw = ws \o FlattenSeq(AddBlock(acc, block).current)
    BY <2>2, <2>3, <2>4
  <2>7. CollectedOf(AddBlock(acc, block), words \o lw)
    BY <2>5, <2>6 DEF CollectedOf
  <2> QED
    BY <1>3, <2>7
<1>12. CASE ~(CountTokens(current \o pieces) <= Target) /\ CountTokens(pieces) <= Cap
  <2>1. AddBlock(acc, block) = [chunks |-> flushed, current |-> pieces]
    BY <1>1, <1>2, <1>9, <1>12 DEF AddBlock
  <2>2. Covers(Joined(AddBlock(acc, block).chunks), words)
    BY <1>10, <2>1
  <2>3. words \o lw = words \o FlattenSeq(AddBlock(acc, block).current)
    BY <1>3, <2>1
  <2>4. CollectedOf(AddBlock(acc, block), words \o lw)
    BY <2>2, <2>3 DEF CollectedOf
  <2> QED
    BY <1>3, <2>4
<1>13. CASE ~(CountTokens(current \o pieces) <= Target) /\ ~(CountTokens(pieces) <= Cap)
  <2>1. PICK cut \in Seq(Piece) : cut = toPieces(block)
    BY PiecesFit
  <2>2. FlattenSeq(cut) = lw
    BY <1>3, <2>1, PiecesWords
  <2>3. PICK win \in Seq(Seq(Seq(Word))) : win = windows(cut)
    <3>1. windows(cut) \in Seq(Fitting)
      BY WindowsFit
    <3>2. Fitting \subseteq Seq(Seq(Word))
      BY DEF Fitting
    <3>3. Seq(Fitting) \subseteq Seq(Seq(Seq(Word)))
      BY <3>2
    <3> QED
      BY <3>1, <3>3
  <2>4. Covers(Joined(win), lw)
    BY <1>7, <2>2, <2>3, WindowsCover
  <2>5. AddBlock(acc, block) = [chunks |-> flushed \o win, current |-> <<>>]
    BY <1>1, <1>2, <1>9, <1>13, <2>1, <2>3 DEF AddBlock
  <2>6. PICK fs \in Seq(Seq(Word)), vs \in Seq(Seq(Word)) : fs = Joined(flushed) /\ vs = Joined(win)
    <3>1. <<>> \in Seq(Seq(Word))
      OBVIOUS
    <3> QED
      BY <3>1, JoinedRules
  <2>7. Covers(fs \o vs, words \o lw)
    BY <1>7, <1>10, <2>4, <2>6, CoverConcat
  <2>8. Covers(Joined(flushed \o win), words \o lw)
    BY <2>6, <2>7, JoinedConcat
  <2>9. PICK all \in Seq(Word) : all = words \o lw
    <3>1. words \o lw \in Seq(Word)
      OBVIOUS
    <3> QED
      BY <3>1
  <2>10. all = all \o FlattenSeq(<<>>)
    <3>1. all \o <<>> = all
      BY ConcatNone
    <3> QED
      BY <3>1, FlattenEmpty, Zenon
  <2>11. Covers(Joined(AddBlock(acc, block).chunks), all)
    BY <2>5, <2>8, <2>9
  <2>12. all = all \o FlattenSeq(AddBlock(acc, block).current)
    <3>1. AddBlock(acc, block).current = <<>>
      BY <2>5
    <3> QED
      BY <2>10, <3>1, Zenon
  <2>13. CollectedOf(AddBlock(acc, block), all)
    BY <2>11, <2>12 DEF CollectedOf
  <2> QED
    BY <1>3, <2>9, <2>13
<1> QED
  BY <1>11, <1>12, <1>13

\* What AddBlock makes of a sequence of blocks.
Gathered(blocks) == FoldLeft(AddBlock, [chunks |-> <<>>, current |-> <<>>], blocks)

\* By induction on the blocks.
LEMMA GatheredCovers ==
  ASSUME NEW blocks \in Seq(Seq(Placed)), Distinct(BlockWords(blocks))
  PROVE  CollectedOf(Gathered(blocks), BlockWords(blocks))
<1> DEFINE P == {bs \in Seq(Seq(Placed)) :
                   Distinct(BlockWords(bs)) => CollectedOf(Gathered(bs), BlockWords(bs))}
<1>1. <<>> \in P
  <2>1. <<>> \in Seq(Seq(Placed))
    OBVIOUS
  <2>2. Gathered(<<>>).chunks = <<>> /\ Gathered(<<>>).current = <<>>
    BY AddBlockNone DEF Gathered
  <2>3. PICK ws \in Seq(Word) : ws = <<>>
    <3>1. <<>> \in Seq(Word)
      OBVIOUS
    <3> QED
      BY <3>1
  <2>4. Covers(Joined(Gathered(<<>>).chunks), ws)
    BY <2>2, <2>3, JoinedNone, CoverNone
  <2>5. ws \o FlattenSeq(Gathered(<<>>).current) = ws
    <3>1. FlattenSeq(Gathered(<<>>).current) = <<>>
      BY <2>2, FlattenEmpty
    <3>2. ws \o <<>> = ws
      OBVIOUS
    <3> QED
      BY <3>1, <3>2
  <2>6. BlockWords(<<>>) = ws
    BY <2>3, BlockWordsNone
  <2>7. CollectedOf(Gathered(<<>>), BlockWords(<<>>))
    BY <2>4, <2>5, <2>6 DEF CollectedOf
  <2> QED
    BY <2>1, <2>7
<1>2. ASSUME NEW bs \in Seq(Seq(Placed)), NEW b \in Seq(Placed), bs \in P PROVE Append(bs, b) \in P
  <2>1. PICK more \in Seq(Seq(Placed)) : more = Append(bs, b)
    <3>1. Append(bs, b) \in Seq(Seq(Placed))
      OBVIOUS
    <3> QED
      BY <3>1
  <2>2. PICK words \in Seq(Word) : words = BlockWords(bs)
    BY BlockWordsRules
  <2>3. BlockWords(more) = words \o LineWords(b) /\ LineWords(b) \in Seq(Word)
    BY <2>1, <2>2, BlockWordsRules
  <2>4. PICK acc \in Collected : acc = Gathered(bs)
    BY AddBlockStays DEF Gathered
  <2>5. Gathered(more) = AddBlock(acc, b)
    BY <2>1, <2>4, AddBlockAppend DEF Gathered
  <2>6. ASSUME Distinct(words \o LineWords(b)) PROVE CollectedOf(AddBlock(acc, b), words \o LineWords(b))
    <3>1. Distinct(words)
      BY <2>3, <2>6, DistinctConcat
    <3>2. CollectedOf(acc, words)
      BY <1>2, <2>2, <2>4, <3>1
    <3> QED
      BY <2>6, <3>2, NextBlockCovers
  <2>7. Distinct(BlockWords(more)) => CollectedOf(Gathered(more), BlockWords(more))
    BY <2>3, <2>5, <2>6
  <2> QED
    BY <2>1, <2>7
<1> HIDE DEF P
<1>3. Seq(Seq(Placed)) \subseteq P
  BY <1>1, <1>2, SeqInduction
<1> QED
  BY <1>3 DEF P

-----------------------------------------------------------------------------
(* Nothing is lost: sections *)

\* Words of a section.
Tag(k, words) == [w \in DOMAIN words |-> <<k, words[w]>>]

Tags == Numbers \cup Nat

Tagged == Tags \X Word

\* As a map on words.
LEMMA TagMap ==
  ASSUME NEW k \in Tags
  PROVE  \E f : /\ IsMap(f, Word, Tagged)
                /\ \A w \in Word : f[w] = <<k, w>>
                /\ \A ws \in Seq(Word) : Tag(k, ws) = Mapped(f, ws)
<1>1. PICK f : f = [w \in Word |-> <<k, w>>]
  OBVIOUS
<1>2. IsMap(f, Word, Tagged) /\ \A w \in Word : f[w] = <<k, w>>
  BY <1>1 DEF IsMap, Tagged
<1>3. ASSUME NEW ws \in Seq(Word) PROVE Tag(k, ws) = Mapped(f, ws)
  <2>1. \A n \in DOMAIN ws : f[ws[n]] = <<k, ws[n]>>
    BY <1>2
  <2> QED
    BY <2>1 DEF Tag, Mapped
<1> QED
  BY <1>2, <1>3

\* Of nothing.
LEMMA TagNone == \A k : Tag(k, <<>>) = <<>>
BY DEF Tag

\* Tagged words.
LEMMA TagTypes ==
  ASSUME NEW k \in Tags, NEW ws \in Seq(Word)
  PROVE  Tag(k, ws) \in Seq(Tagged)
<1>1. \A i \in DOMAIN ws : <<k, ws[i]>> \in Tagged
  BY DEF Tagged
<1>2. PICK n \in Nat : DOMAIN ws = 1 .. n
  OBVIOUS
<1>3. [i \in 1 .. n |-> <<k, ws[i]>>] \in Seq(Tagged)
  BY <1>1, <1>2
<1> QED
  BY <1>2, <1>3 DEF Tag

\* Of two parts.
LEMMA TagConcat ==
  ASSUME NEW k \in Tags, NEW a \in Seq(Word), NEW b \in Seq(Word)
  PROVE  Tag(k, a \o b) = Tag(k, a) \o Tag(k, b)
<1>1. PICK f : /\ IsMap(f, Word, Tagged)
               /\ \A ws \in Seq(Word) : Tag(k, ws) = Mapped(f, ws)
  BY TagMap
<1>2. PICK c \in Seq(Word) : c = a \o b
  <2>1. a \o b \in Seq(Word)
    OBVIOUS
  <2> QED
    BY <2>1
<1>3. Mapped(f, a \o b) = Mapped(f, a) \o Mapped(f, b)
  BY <1>1, MappedConcat
<1> QED
  BY <1>1, <1>2, <1>3

\* What is in a tagged sequence.
LEMMA InTag ==
  ASSUME NEW k \in Tags, NEW ws \in Seq(Word)
  PROVE  \A y : y \in ToSet(Tag(k, ws)) <=> \E w \in ToSet(ws) : y = <<k, w>>
BY DEF Tag, ToSet

\* Tags do not make words alike.
LEMMA TagDistinct ==
  ASSUME NEW k \in Tags, NEW ws \in Seq(Word)
  PROVE  Distinct(Tag(k, ws)) <=> Distinct(ws)
<1>1. DOMAIN Tag(k, ws) = DOMAIN ws /\ \A i \in DOMAIN ws : Tag(k, ws)[i] = <<k, ws[i]>>
  BY DEF Tag
<1>2. \A i, j \in DOMAIN ws : <<k, ws[i]>> = <<k, ws[j]>> <=> ws[i] = ws[j]
  OBVIOUS
<1> QED
  BY <1>1, <1>2 DEF Distinct

\* What a tagged sequence has without another.
LEMMA WithoutTag ==
  ASSUME NEW k \in Tags, NEW ws \in Seq(Word), NEW vs \in Seq(Word)
  PROVE  Without(Tag(k, ws), ToSet(Tag(k, vs))) = Tag(k, Without(ws, ToSet(vs)))
<1> DEFINE P == {s \in Seq(Word) : Without(Tag(k, s), ToSet(Tag(k, vs))) = Tag(k, Without(s, ToSet(vs)))}
<1>1. <<>> \in P
  <2>1. <<>> \in Seq(Word)
    OBVIOUS
  <2>2. \A T : Without(<<>>, T) = <<>>
    <3>1. ASSUME NEW T PROVE Without(<<>>, T) = <<>>
      <4>1. [n \in DOMAIN <<>> |-> IF <<>>[n] \notin T THEN <<<<>>[n]>> ELSE <<>>] = <<>>
        OBVIOUS
      <4> QED
        BY <4>1, FlattenEmpty DEF Without
    <3> QED
      BY <3>1
  <2> QED
    BY <2>1, <2>2, TagNone
<1>2. ASSUME NEW s \in Seq(Word), NEW w \in Word, s \in P PROVE Append(s, w) \in P
  <2>1. PICK one \in Seq(Word) : one = <<w>>
    <3>1. <<w>> \in Seq(Word)
      OBVIOUS
    <3> QED
      BY <3>1
  <2>2. PICK T, U : T = ToSet(vs) /\ U = ToSet(Tag(k, vs))
    OBVIOUS
  <2>3. <<k, w>> \in U <=> w \in T
    BY <2>2, InTag
  <2>4. ToSet(one) = {w}
    BY <2>1 DEF ToSet
  <2>5. PICK t1 \in Seq(Tagged), ts \in Seq(Tagged) : t1 = Tag(k, one) /\ ts = Tag(k, s)
    BY TagTypes
  <2>6. ToSet(t1) = {<<k, w>>}
    BY <2>4, <2>5, InTag
  <2>7. PICK ow \in Seq(Word), sw \in Seq(Word) : ow = Without(one, T) /\ sw = Without(s, T)
    BY WithoutTypes
  <2>8. Without(t1, U) = Tag(k, ow)
    <3>1. CASE w \in T
      <4>1. Without(one, T) = <<>>
        BY <2>4, <3>1, WithoutAll
      <4>2. Without(t1, U) = <<>>
        BY <2>3, <2>6, <3>1, WithoutAll
      <4> QED
        BY <2>7, <4>1, <4>2, TagNone
    <3>2. CASE w \notin T
      <4>1. Without(one, T) = one
        BY <2>4, <3>2, WithoutNone
      <4>2. Without(t1, U) = t1
        BY <2>3, <2>6, <3>2, WithoutNone
      <4> QED
        BY <2>5, <2>7, <4>1, <4>2
    <3> QED
      BY <3>1, <3>2
  <2>9. Without(s \o one, T) = sw \o ow
    <3>1. PICK d : d = s \o one
      OBVIOUS
    <3>2. Joins(d, s, one)
      BY <3>1 DEF Joins
    <3>3. Joins(Without(d, T), Without(s, T), Without(one, T))
      BY <3>2, WithoutJoins
    <3> QED
      BY <2>7, <3>1, <3>3 DEF Joins
  <2>10. Without(ts \o t1, U) = Without(ts, U) \o Without(t1, U)
    BY WithoutConcat
  <2>11. Tag(k, s \o one) = ts \o t1
    BY <2>5, TagConcat
  <2>12. Tag(k, sw \o ow) = Tag(k, sw) \o Tag(k, ow)
    BY TagConcat
  <2>13. Without(ts, U) = Tag(k, sw)
    BY <1>2, <2>2, <2>5, <2>7
  <2>14. Without(Tag(k, s \o one), U) = Tag(k, Without(s \o one, T))
    BY <2>8, <2>9, <2>10, <2>11, <2>12, <2>13
  <2>15. s \o one = Append(s, w) /\ Append(s, w) \in Seq(Word)
    BY <2>1
  <2> QED
    BY <2>2, <2>14, <2>15
<1> HIDE DEF P
<1>3. Seq(Word) \subseteq P
  BY <1>1, <1>2, SeqInduction
<1> QED
  BY <1>3 DEF P

\* Tagged chunks of tagged words.
TagEach(k, cs) == [n \in DOMAIN cs |-> Tag(k, cs[n])]

\* Part by part.
LEMMA TagEachRules ==
  ASSUME NEW k \in Tags, NEW cs \in Seq(Seq(Word))
  PROVE  /\ TagEach(k, cs) \in Seq(Seq(Tagged))
         /\ DOMAIN TagEach(k, cs) = DOMAIN cs
         /\ \A n \in DOMAIN cs : TagEach(k, cs)[n] = Tag(k, cs[n])
<1>1. PICK m \in Nat : DOMAIN cs = 1 .. m
  OBVIOUS
<1>2. \A n \in 1 .. m : Tag(k, cs[n]) \in Seq(Tagged)
  BY <1>1, TagTypes
<1>3. [n \in 1 .. m |-> Tag(k, cs[n])] \in Seq(Seq(Tagged))
  BY <1>2
<1> QED
  BY <1>1, <1>3 DEF TagEach

\* Tagging what is flattened.
LEMMA TagFlatten ==
  ASSUME NEW k \in Tags, NEW seqs \in Seq(Seq(Word))
  PROVE  Tag(k, FlattenSeq(seqs)) = FlattenSeq(TagEach(k, seqs))
<1> DEFINE P == {ss \in Seq(Seq(Word)) : Tag(k, FlattenSeq(ss)) = FlattenSeq(TagEach(k, ss))}
<1>1. <<>> \in P
  <2>1. <<>> \in Seq(Seq(Word))
    OBVIOUS
  <2>2. TagEach(k, <<>>) = <<>>
    BY DEF TagEach
  <2> QED
    BY <2>1, <2>2, FlattenEmpty, TagNone
<1>2. ASSUME NEW ss \in Seq(Seq(Word)), NEW s \in Seq(Word), ss \in P PROVE Append(ss, s) \in P
  <2>1. PICK f : f = [t \in Seq(Word) |-> Tag(k, t)]
    OBVIOUS
  <2>2. \A t \in Seq(Word) : f[t] = Tag(k, t) /\ Tag(k, t) \in Seq(Tagged)
    BY <2>1, TagTypes
  <2>3. IsMap(f, Seq(Word), Seq(Tagged))
    BY <2>1, <2>2 DEF IsMap
  <2>4. ASSUME NEW ts \in Seq(Seq(Word)) PROVE TagEach(k, ts) = Mapped(f, ts)
    <3>1. \A n \in DOMAIN ts : f[ts[n]] = Tag(k, ts[n])
      BY <2>2
    <3> QED
      BY <3>1 DEF TagEach, Mapped
  <2>5. Append(ss, s) \in Seq(Seq(Word))
    OBVIOUS
  <2>6. Mapped(f, Append(ss, s)) = Append(Mapped(f, ss), f[s])
    BY <2>3, MappedRules
  <2>7. PICK each \in Seq(Seq(Tagged)), t \in Seq(Tagged) : each = TagEach(k, ss) /\ t = Tag(k, s)
    BY TagEachRules, TagTypes
  <2>8. TagEach(k, Append(ss, s)) = Append(each, t)
    BY <2>2, <2>4, <2>5, <2>6, <2>7
  <2>9. FlattenSeq(Append(each, t)) = FlattenSeq(each) \o t
    BY FlattenAppend
  <2>10. PICK ws \in Seq(Word) : ws = FlattenSeq(ss)
    BY FlattenTypes
  <2>11. FlattenSeq(Append(ss, s)) = ws \o s
    BY <2>10, FlattenAppend
  <2>12. Tag(k, ws \o s) = Tag(k, ws) \o t
    BY <2>7, TagConcat
  <2>13. Tag(k, ws) = FlattenSeq(each)
    BY <1>2, <2>7, <2>10
  <2> QED
    BY <2>5, <2>8, <2>9, <2>11, <2>12, <2>13
<1> HIDE DEF P
<1>3. Seq(Seq(Word)) \subseteq P
  BY <1>1, <1>2, SeqInduction
<1> QED
  BY <1>3 DEF P

\* What covers words covers them with a tag.
LEMMA CoverTag ==
  ASSUME NEW k \in Tags, NEW cs \in Seq(Seq(Word)), NEW ws \in Seq(Word), Covers(cs, ws)
  PROVE  Covers(TagEach(k, cs), Tag(k, ws))
<1>1. PICK ts \in Seq(Seq(Tagged)) :
         ts = TagEach(k, cs) /\ DOMAIN ts = DOMAIN cs /\ \A n \in DOMAIN cs : ts[n] = Tag(k, cs[n])
  BY TagEachRules
<1>2. PICK m \in Nat : DOMAIN cs = 1 .. m
  OBVIOUS
<1>3. PICK ns \in Seq(Seq(Word)) : ns = [n \in DOMAIN cs |-> New(cs, n)]
  BY NewTypes
<1>4. ASSUME NEW n \in 1 .. m PROVE New(ts, n) = Tag(k, New(cs, n))
  <2>0. cs[n] \in Seq(Word)
    BY <1>2
  <2>1. cs[n] \in Seq(Word) /\ ts[n] = Tag(k, cs[n])
    BY <1>1, <1>2, <2>0, Zenon
  <2>2. CASE n = 1
    BY <2>1, <2>2 DEF New
  <2>3. CASE n # 1
    <3>1. n - 1 \in 1 .. m
      BY <2>3
    <3>0. cs[n - 1] \in Seq(Word)
      BY <1>2, <3>1
    <3>2. cs[n - 1] \in Seq(Word) /\ ts[n - 1] = Tag(k, cs[n - 1])
      BY <1>1, <1>2, <3>0, <3>1, Zenon
    <3>3. Without(Tag(k, cs[n]), ToSet(Tag(k, cs[n - 1]))) = Tag(k, Without(cs[n], ToSet(cs[n - 1])))
      BY <2>1, <3>2, WithoutTag
    <3> QED
      BY <2>1, <2>3, <3>2, <3>3 DEF New
  <2> QED
    BY <2>2, <2>3
<1>5. [n \in DOMAIN ts |-> New(ts, n)] = TagEach(k, ns)
  <2>1. DOMAIN ns = 1 .. m /\ \A n \in 1 .. m : ns[n] = New(cs, n)
    BY <1>2, <1>3
  <2>2. \A n \in 1 .. m : New(ts, n) = Tag(k, ns[n])
    BY <1>4, <2>1
  <2> QED
    BY <1>1, <1>2, <2>1, <2>2 DEF TagEach
<1>6. News(ts) = Tag(k, ws)
  <2>1. FlattenSeq(ns) = ws
    BY <1>3 DEF Covers, News
  <2>2. Tag(k, FlattenSeq(ns)) = FlattenSeq(TagEach(k, ns))
    BY TagFlatten
  <2> QED
    BY <1>5, <2>1, <2>2 DEF News
<1>7. ASSUME NEW n \in DOMAIN ts PROVE ToSet(ts[n]) \subseteq ToSet(Tag(k, ws))
  <2>1. cs[n] \in Seq(Word) /\ ts[n] = Tag(k, cs[n]) /\ ToSet(cs[n]) \subseteq ToSet(ws)
    BY <1>1, <1>2 DEF Covers
  <2> QED
    BY <2>1, InTag
<1> QED
  BY <1>1, <1>6, <1>7 DEF Covers

\* The words of chunks, with their sections.
ChunkWords(chunks) == [n \in DOMAIN chunks |-> Tag(chunks[n].section, FlattenSeq(chunks[n].pieces))]

\* The chunks of a section cover its words.
LEMMA SectionCovers ==
  ASSUME NEW s \in ReadSection, Distinct(BlockWords(s.blocks))
  PROVE  Covers(ChunkWords(ChunkSection(s)), Tag(s.number, BlockWords(s.blocks)))
<1>1. PICK blocks \in Seq(Seq(Placed)), k \in Tags : blocks = s.blocks /\ k = s.number
  BY DEF ReadSection, Tags
<1>2. PICK acc \in Collected : acc = Gathered(blocks)
  BY AddBlockStays DEF Gathered
<1>3. PICK words \in Seq(Word) : words = BlockWords(blocks)
  <2>1. <<>> \in Seq(Placed)
    OBVIOUS
  <2> QED
    BY <2>1, BlockWordsRules
<1>4. CollectedOf(acc, words)
  BY <1>1, <1>2, <1>3, GatheredCovers
<1>5. PICK chunks \in Seq(Seq(Seq(Word))), current \in Seq(Seq(Word)) : chunks = acc.chunks /\ current = acc.current
  BY CollectedTypes
<1>6. PICK ws \in Seq(Word) : Covers(Joined(chunks), ws) /\ words = ws \o FlattenSeq(current)
  BY <1>4, <1>5 DEF CollectedOf
<1>7. PICK cw \in Seq(Word) : cw = FlattenSeq(current)
  BY FlattenTypes
<1>8. ToSet(ws) \cap ToSet(cw) = {}
  <2>1. Distinct(ws \o cw)
    BY <1>1, <1>3, <1>6, <1>7
  <2> QED
    BY <2>1, DistinctConcat
<1>9. PICK all \in Seq(Seq(Seq(Word))) : all = Flush(chunks, current)
  <2>1. Append(chunks, current) \in Seq(Seq(Seq(Word)))
    OBVIOUS
  <2>2. Flush(chunks, current) \in Seq(Seq(Seq(Word)))
    BY <2>1 DEF Flush
  <2> QED
    BY <2>2
<1>10. Covers(Joined(all), words)
  <2>1. Covers(Joined(Flush(chunks, current)), ws \o FlattenSeq(current))
    BY <1>6, <1>7, <1>8, FlushCovers
  <2> QED
    BY <1>6, <1>9, <2>1
<1>11. PICK js \in Seq(Seq(Word)) : js = Joined(all)
  <2>1. <<>> \in Seq(Seq(Word))
    OBVIOUS
  <2> QED
    BY <2>1, JoinedRules
<1>12. Covers(TagEach(k, js), Tag(k, words))
  BY <1>10, <1>11, CoverTag
<1>13. ChunkSection(s) = [n \in DOMAIN all |-> [section |-> k, pieces |-> all[n]]]
  BY <1>1, <1>2, <1>5, <1>9 DEF ChunkSection, Gathered
<1>14. ChunkWords(ChunkSection(s)) = TagEach(k, js)
  <2>1. DOMAIN js = DOMAIN all /\ \A n \in DOMAIN all : js[n] = FlattenSeq(all[n])
    BY <1>11 DEF Joined
  <2>2. PICK cs : cs = ChunkSection(s)
    OBVIOUS
  <2>3. DOMAIN cs = DOMAIN all /\ \A n \in DOMAIN all : cs[n].section = k /\ cs[n].pieces = all[n]
    BY <1>13, <2>2
  <2>4. \A n \in DOMAIN all : Tag(cs[n].section, FlattenSeq(cs[n].pieces)) = Tag(k, js[n])
    BY <2>1, <2>3
  <2>5. [n \in DOMAIN cs |-> Tag(cs[n].section, FlattenSeq(cs[n].pieces))] = [n \in DOMAIN js |-> Tag(k, js[n])]
    BY <2>1, <2>3, <2>4
  <2> QED
    BY <2>2, <2>5 DEF ChunkWords, TagEach
<1> QED
  BY <1>1, <1>3, <1>12, <1>14

\* The words of the chunks of two sequences.
LEMMA ChunkWordsRules ==
  ASSUME NEW cs \in Seq(Chunk), NEW ds \in Seq(Chunk)
  PROVE  /\ ChunkWords(cs) \in Seq(Seq(Tagged))
         /\ ChunkWords(cs \o ds) = ChunkWords(cs) \o ChunkWords(ds)
<1>1. PICK f : f = [c \in Chunk |-> Tag(c.section, FlattenSeq(c.pieces))]
  OBVIOUS
<1>2. ASSUME NEW c \in Chunk PROVE f[c] = Tag(c.section, FlattenSeq(c.pieces)) /\ f[c] \in Seq(Tagged)
  <2>1. c.section \in Tags /\ c.pieces \in Seq(Seq(Word))
    BY DEF Chunk, Fitting, Tags
  <2>2. FlattenSeq(c.pieces) \in Seq(Word)
    BY <2>1, FlattenTypes
  <2> QED
    BY <1>1, <2>1, <2>2, TagTypes
<1>3. IsMap(f, Chunk, Seq(Tagged))
  BY <1>1, <1>2 DEF IsMap
<1>4. ASSUME NEW es \in Seq(Chunk) PROVE ChunkWords(es) = Mapped(f, es)
  <2>1. \A n \in DOMAIN es : es[n] \in Chunk
    OBVIOUS
  <2>2. \A n \in DOMAIN es : f[es[n]] = Tag(es[n].section, FlattenSeq(es[n].pieces))
    BY <1>2, <2>1
  <2> QED
    BY <2>2 DEF ChunkWords, Mapped
<1>5. PICK both \in Seq(Chunk) : both = cs \o ds
  <2>1. cs \o ds \in Seq(Chunk)
    OBVIOUS
  <2> QED
    BY <2>1
<1>6. Mapped(f, cs \o ds) = Mapped(f, cs) \o Mapped(f, ds)
  BY <1>3, MappedConcat
<1>7. ChunkWords(cs) \in Seq(Seq(Tagged))
  <2>1. PICK m \in Nat : DOMAIN cs = 1 .. m
    OBVIOUS
  <2>2. \A n \in 1 .. m : f[cs[n]] \in Seq(Tagged)
    BY <1>2, <2>1
  <2>3. [n \in 1 .. m |-> f[cs[n]]] \in Seq(Seq(Tagged))
    BY <2>2
  <2> QED
    BY <1>4, <2>1, <2>3 DEF Mapped
<1> QED
  BY <1>4, <1>5, <1>6, <1>7

\* The words of a section, and of sections.
SectionWords(s) == Tag(s.number, BlockWords(s.blocks))

SecWords(sections) == FlattenSeq([n \in DOMAIN sections |-> SectionWords(sections[n])])

\* The words of a section, and what it consists of.
LEMMA SectionWordsTypes ==
  ASSUME NEW s \in ReadSection
  PROVE  /\ SectionWords(s) \in Seq(Tagged) /\ s.number \in Tags
         /\ s.blocks \in Seq(Seq(Placed)) /\ BlockWords(s.blocks) \in Seq(Word)
<1>1. PICK blocks \in Seq(Seq(Placed)), k \in Tags : blocks = s.blocks /\ k = s.number
  BY DEF ReadSection, Tags
<1>2. PICK words \in Seq(Word) : words = BlockWords(blocks)
  <2>1. <<>> \in Seq(Placed)
    OBVIOUS
  <2> QED
    BY <2>1, BlockWordsRules
<1> QED
  BY <1>1, <1>2, TagTypes DEF SectionWords

\* As a map on sections.
LEMMA SecWordsMap ==
  \E f : /\ IsMap(f, ReadSection, Seq(Tagged))
         /\ \A s \in ReadSection : f[s] = SectionWords(s)
         /\ \A ss \in Seq(ReadSection) : SecWords(ss) = FlatMap(f, ss)
<1>1. PICK f : f = [s \in ReadSection |-> SectionWords(s)]
  OBVIOUS
<1>2. \A s \in ReadSection : SectionWords(s) \in Seq(Tagged) /\ f[s] = SectionWords(s)
  BY <1>1, SectionWordsTypes
<1>3. IsMap(f, ReadSection, Seq(Tagged))
  BY <1>1, <1>2 DEF IsMap
<1>4. ASSUME NEW ss \in Seq(ReadSection) PROVE SecWords(ss) = FlatMap(f, ss)
  <2>1. \A n \in DOMAIN ss : ss[n] \in ReadSection
    OBVIOUS
  <2>2. \A n \in DOMAIN ss : f[ss[n]] = SectionWords(ss[n])
    BY <1>2, <2>1
  <2>3. Mapped(f, ss) = [n \in DOMAIN ss |-> SectionWords(ss[n])]
    BY <2>2 DEF Mapped
  <2> QED
    BY <2>3 DEF SecWords, FlatMap
<1> QED
  BY <1>2, <1>3, <1>4

\* One section after the other.
LEMMA SecWordsRules ==
  ASSUME NEW ss \in Seq(ReadSection), NEW s \in ReadSection
  PROVE  /\ SecWords(ss) \in Seq(Tagged)
         /\ SecWords(Append(ss, s)) = SecWords(ss) \o SectionWords(s)
<1>1. PICK f : /\ IsMap(f, ReadSection, Seq(Tagged))
               /\ \A t \in ReadSection : f[t] = SectionWords(t)
               /\ \A ts \in Seq(ReadSection) : SecWords(ts) = FlatMap(f, ts)
  BY SecWordsMap
<1>2. Append(ss, s) \in Seq(ReadSection)
  OBVIOUS
<1>3. FlatMap(f, ss) \in Seq(Tagged) /\ FlatMap(f, Append(ss, s)) = FlatMap(f, ss) \o f[s]
  BY <1>1, FlatMapRules
<1> QED
  BY <1>1, <1>2, <1>3

\* Of nothing.
LEMMA SecWordsNone == SecWords(<<>>) = <<>>
<1>1. [n \in DOMAIN <<>> |-> SectionWords(<<>>[n])] = <<>>
  OBVIOUS
<1> QED
  BY <1>1, FlattenEmpty DEF SecWords

\* One more section has its chunks at the end.
LEMMA DocumentAppend ==
  ASSUME NEW ss \in Seq(ReadSection), NEW s \in ReadSection
  PROVE  chunkDocument(Append(ss, s)) = chunkDocument(ss) \o ChunkSection(s)
<1>1. PICK f : f = [t \in ReadSection |-> ChunkSection(t)]
  OBVIOUS
<1>2. \A t \in ReadSection : ChunkSection(t) \in Seq(Chunk) /\ f[t] = ChunkSection(t)
  BY <1>1, SectionFits
<1>3. IsMap(f, ReadSection, Seq(Chunk))
  BY <1>1, <1>2 DEF IsMap
<1>4. ASSUME NEW ts \in Seq(ReadSection) PROVE chunkDocument(ts) = FlatMap(f, ts)
  <2>1. \A n \in DOMAIN ts : ts[n] \in ReadSection
    OBVIOUS
  <2>2. \A n \in DOMAIN ts : f[ts[n]] = ChunkSection(ts[n])
    BY <1>2, <2>1
  <2>3. Mapped(f, ts) = [n \in DOMAIN ts |-> ChunkSection(ts[n])]
    BY <2>2 DEF Mapped
  <2> QED
    BY <2>3 DEF chunkDocument, FlatMap
<1>5. Append(ss, s) \in Seq(ReadSection)
  OBVIOUS
<1>6. FlatMap(f, Append(ss, s)) = FlatMap(f, ss) \o f[s]
  BY <1>3, FlatMapRules
<1> QED
  BY <1>2, <1>4, <1>5, <1>6

\* The chunks of sections cover their words.
LEMMA DocumentCovers ==
  ASSUME NEW sections \in Seq(ReadSection), Distinct(SecWords(sections))
  PROVE  Covers(ChunkWords(chunkDocument(sections)), SecWords(sections))
<1> DEFINE P == {ss \in Seq(ReadSection) :
                   Distinct(SecWords(ss)) => Covers(ChunkWords(chunkDocument(ss)), SecWords(ss))}
<1>1. <<>> \in P
  <2>1. <<>> \in Seq(ReadSection)
    OBVIOUS
  <2>2. chunkDocument(<<>>) = <<>>
    <3>1. [n \in DOMAIN <<>> |-> ChunkSection(<<>>[n])] = <<>>
      OBVIOUS
    <3> QED
      BY <3>1, FlattenEmpty DEF chunkDocument
  <2>3. ChunkWords(<<>>) = <<>>
    BY DEF ChunkWords
  <2> QED
    BY <2>1, <2>2, <2>3, SecWordsNone, CoverNone
<1>2. ASSUME NEW ss \in Seq(ReadSection), NEW s \in ReadSection, ss \in P PROVE Append(ss, s) \in P
  <2>1. PICK more \in Seq(ReadSection) : more = Append(ss, s)
    <3>1. Append(ss, s) \in Seq(ReadSection)
      OBVIOUS
    <3> QED
      BY <3>1
  <2>2. PICK ws \in Seq(Tagged), vs \in Seq(Tagged) : ws = SecWords(ss) /\ vs = SectionWords(s)
    BY SecWordsRules, SectionWordsTypes
  <2>3. SecWords(more) = ws \o vs
    BY <2>1, <2>2, SecWordsRules
  <2>4. PICK cs \in Seq(Chunk), ds \in Seq(Chunk) : cs = chunkDocument(ss) /\ ds = ChunkSection(s)
    BY DocumentFits, SectionFits
  <2>5. chunkDocument(more) = cs \o ds
    BY <2>1, <2>4, DocumentAppend
  <2>6. PICK cw \in Seq(Seq(Tagged)), dw \in Seq(Seq(Tagged)) : cw = ChunkWords(cs) /\ dw = ChunkWords(ds)
    BY ChunkWordsRules
  <2>7. ChunkWords(cs \o ds) = cw \o dw
    BY <2>6, ChunkWordsRules
  <2>8. ASSUME Distinct(ws \o vs) PROVE Covers(cw \o dw, ws \o vs)
    <3>1. Distinct(ws) /\ Distinct(vs) /\ ToSet(ws) \cap ToSet(vs) = {}
      BY <2>8, DistinctConcat
    <3>2. Covers(cw, ws)
      BY <1>2, <2>2, <2>4, <2>6, <3>1
    <3>3. Distinct(BlockWords(s.blocks))
      <4>1. Distinct(Tag(s.number, BlockWords(s.blocks)))
        BY <2>2, <3>1 DEF SectionWords
      <4> QED
        BY <4>1, SectionWordsTypes, TagDistinct
    <3>4. Covers(dw, vs)
      BY <2>2, <2>4, <2>6, <3>3, SectionCovers DEF SectionWords
    <3> QED
      BY <3>1, <3>2, <3>4, CoverConcat
  <2>9. Distinct(SecWords(more)) => Covers(ChunkWords(chunkDocument(more)), SecWords(more))
    BY <2>3, <2>5, <2>7, <2>8
  <2> QED
    BY <2>1, <2>9
<1> HIDE DEF P
<1>3. Seq(ReadSection) \subseteq P
  BY <1>1, <1>2, SeqInduction
<1> QED
  BY <1>3 DEF P

-----------------------------------------------------------------------------
(* Nothing is lost: headings *)

\* How many of the first n lines are in H.
Before(H, lines, n) == Cardinality({m \in 1 .. n : lines[m] \in H})

\* What is expected of line n when the lines in H are headings, and of lines.
LineExpected(H, lines, n) ==
    IF lines[n] \in H THEN <<>> ELSE Tag(Before(H, lines, n), WholeLine(lines[n]))

AllExpected(H, lines) == FlattenSeq([n \in DOMAIN lines |-> LineExpected(H, lines, n)])

\* There are finitely many.
LEMMA BeforeIsNumber ==
  ASSUME NEW H, NEW lines, NEW n \in Nat
  PROVE  Before(H, lines, n) \in Nat /\ IsFiniteSet({m \in 1 .. n : lines[m] \in H})
<1>1. PICK S : S = {m \in 1 .. n : lines[m] \in H}
  OBVIOUS
<1>2. IsFiniteSet(1 .. n) /\ S \in SUBSET (1 .. n)
  BY <1>1, FS_Interval
<1>3. IsFiniteSet(S)
  BY <1>2, FS_Subset
<1> QED
  BY <1>1, <1>3, FS_CardinalityType DEF Before

\* One more line.
LEMMA BeforeNext ==
  ASSUME NEW H, NEW lines, NEW n \in Nat, NEW k, k = n + 1
  PROVE  Before(H, lines, k) = IF lines[k] \in H THEN Before(H, lines, n) + 1 ELSE Before(H, lines, n)
<1>1. PICK S : S = {m \in 1 .. n : lines[m] \in H}
  OBVIOUS
<1>2. PICK T : T = {m \in 1 .. k : lines[m] \in H}
  OBVIOUS
<1>3. IsFiniteSet(S)
  BY <1>1, BeforeIsNumber
<1>4. 1 .. k = (1 .. n) \cup {k} /\ k \notin 1 .. n
  OBVIOUS
<1>5. CASE lines[k] \in H
  <2>1. T = S \cup {k} /\ k \notin S
    BY <1>1, <1>2, <1>4, <1>5
  <2>2. Cardinality(T) = Cardinality(S) + 1
    BY <1>3, <2>1, FS_AddElement
  <2> QED
    BY <1>1, <1>2, <1>5, <2>2 DEF Before
<1>6. CASE lines[k] \notin H
  <2>1. T = S
    BY <1>1, <1>2, <1>4, <1>6
  <2> QED
    BY <1>1, <1>2, <1>6, <2>1 DEF Before
<1> QED
  BY <1>5, <1>6

\* Lines and headings that agree on the first n.
LEMMA BeforeSame ==
  ASSUME NEW H, NEW lines, NEW G, NEW others, NEW n,
         \A m \in 1 .. n : lines[m] \in H <=> others[m] \in G
  PROVE  Before(H, lines, n) = Before(G, others, n)
<1>1. {m \in 1 .. n : lines[m] \in H} = {m \in 1 .. n : others[m] \in G}
  OBVIOUS
<1> QED
  BY <1>1 DEF Before

\* What is expected is tagged words.
LEMMA ExpectedTypes ==
  ASSUME NEW H, NEW lines \in Seq(Placed)
  PROVE  /\ [n \in DOMAIN lines |-> LineExpected(H, lines, n)] \in Seq(Seq(Tagged))
         /\ AllExpected(H, lines) \in Seq(Tagged)
         /\ \A n \in DOMAIN lines : LineExpected(H, lines, n) \in Seq(Tagged)
<1>1. PICK k \in Nat : DOMAIN lines = 1 .. k
  OBVIOUS
<1>2. ASSUME NEW n \in 1 .. k PROVE LineExpected(H, lines, n) \in Seq(Tagged)
  <2>0. n \in Nat
    OBVIOUS
  <2>1. Before(H, lines, n) \in Tags
    BY <2>0, BeforeIsNumber DEF Tags
  <2>2. lines[n] \in Placed
    BY <1>1
  <2>3. WholeLine(lines[n]) \in Seq(Word)
    BY <2>2, SentenceTypes
  <2>4. Tag(Before(H, lines, n), WholeLine(lines[n])) \in Seq(Tagged)
    BY <2>1, <2>3, TagTypes
  <2>5. <<>> \in Seq(Tagged)
    OBVIOUS
  <2> QED
    BY <2>4, <2>5 DEF LineExpected
<1>3. [n \in 1 .. k |-> LineExpected(H, lines, n)] \in Seq(Seq(Tagged))
  BY <1>2
<1>4. AllExpected(H, lines) \in Seq(Tagged)
  BY <1>1, <1>3, FlattenTypes DEF AllExpected
<1> QED
  BY <1>1, <1>2, <1>3, <1>4

\* Headings that no line is.
LEMMA ExpectedSame ==
  ASSUME NEW H, NEW G, NEW lines \in Seq(Placed), \A n \in DOMAIN lines : lines[n] \in H <=> lines[n] \in G
  PROVE  AllExpected(H, lines) = AllExpected(G, lines)
<1>1. ASSUME NEW n \in DOMAIN lines PROVE LineExpected(H, lines, n) = LineExpected(G, lines, n)
  <2>1. 1 .. n \subseteq DOMAIN lines
    OBVIOUS
  <2>2. Before(H, lines, n) = Before(G, lines, n)
    BY <2>1, BeforeSame
  <2> QED
    BY <2>2 DEF LineExpected
<1>2. [n \in DOMAIN lines |-> LineExpected(H, lines, n)] = [n \in DOMAIN lines |-> LineExpected(G, lines, n)]
  BY <1>1
<1> QED
  BY <1>2 DEF AllExpected

\* One more line.
LEMMA ExpectedAppend ==
  ASSUME NEW H, NEW lines \in Seq(Placed), NEW l \in Placed,
         NEW more, more = Append(lines, l), NEW k, k = Len(lines) + 1
  PROVE  Joins(AllExpected(H, more), AllExpected(H, lines), LineExpected(H, more, k))
<1>1. PICK n \in Nat : n = Len(lines) /\ k = n + 1 /\ DOMAIN lines = 1 .. n
  OBVIOUS
<1>2. more \in Seq(Placed) /\ DOMAIN more = 1 .. k /\ \A i \in 1 .. n : more[i] = lines[i]
  BY <1>1, AppendElements
<1>3. PICK all \in Seq(Seq(Tagged)) : all = [i \in DOMAIN lines |-> LineExpected(H, lines, i)]
  BY ExpectedTypes
<1>4. PICK whole \in Seq(Seq(Tagged)) : whole = [i \in DOMAIN more |-> LineExpected(H, more, i)]
  BY <1>2, ExpectedTypes
<1>5. PICK t \in Seq(Tagged) : t = LineExpected(H, more, k)
  <2>1. k \in DOMAIN more
    BY <1>1, <1>2
  <2> QED
    BY <1>2, <2>1, ExpectedTypes
<1>6. ASSUME NEW i \in 1 .. n PROVE LineExpected(H, more, i) = LineExpected(H, lines, i)
  <2>1. 1 .. i \subseteq 1 .. n
    OBVIOUS
  <2>2. \A m \in 1 .. i : more[m] = lines[m]
    BY <1>2, <2>1
  <2>3. {m \in 1 .. i : more[m] \in H} = {m \in 1 .. i : lines[m] \in H}
    BY <2>2
  <2>4. Before(H, more, i) = Before(H, lines, i)
    BY <2>3 DEF Before
  <2> QED
    BY <1>2, <2>4 DEF LineExpected
<1>7. whole = Append(all, t)
  <2>1. Len(all) = n /\ \A i \in 1 .. n : all[i] = LineExpected(H, lines, i)
    BY <1>1, <1>3
  <2>2. PICK long \in Seq(Seq(Tagged)) : long = Append(all, t)
    <3>1. Append(all, t) \in Seq(Seq(Tagged))
      OBVIOUS
    <3> QED
      BY <3>1
  <2>3. DOMAIN long = 1 .. n + 1 /\ (\A i \in 1 .. n : long[i] = all[i]) /\ long[n + 1] = t
    BY <2>1, <2>2
  <2>4. \A i \in 1 .. n : whole[i] = LineExpected(H, more, i)
    BY <1>1, <1>2, <1>4
  <2>5. whole[k] = t /\ DOMAIN whole = 1 .. k
    BY <1>1, <1>2, <1>4, <1>5
  <2>6. ASSUME NEW i \in 1 .. k PROVE whole[i] = long[i]
    <3>1. CASE i = k
      BY <1>1, <2>3, <2>5, <3>1
    <3>2. CASE i # k
      <4>1. i \in 1 .. n
        BY <1>1, <3>2
      <4>2. whole[i] = LineExpected(H, lines, i) /\ long[i] = LineExpected(H, lines, i)
        BY <1>6, <2>1, <2>3, <2>4, <4>1, Zenon
      <4> QED
        BY <4>2
    <3> QED
      BY <3>1, <3>2
  <2>7. whole = [i \in DOMAIN whole |-> whole[i]] /\ long = [i \in DOMAIN long |-> long[i]]
    OBVIOUS
  <2>8. [i \in DOMAIN whole |-> whole[i]] = [i \in DOMAIN long |-> long[i]]
    BY <1>1, <2>3, <2>5, <2>6
  <2> QED
    BY <2>2, <2>7, <2>8
<1>8. FlattenSeq(whole) = FlattenSeq(all) \o t
  BY <1>7, FlattenAppend
<1> QED
  BY <1>3, <1>4, <1>5, <1>8 DEF AllExpected, Joins

\* Of nothing.
LEMMA ExpectedNone == \A H : AllExpected(H, <<>>) = <<>>
<1>1. ASSUME NEW H PROVE AllExpected(H, <<>>) = <<>>
  <2>1. [n \in DOMAIN <<>> |-> LineExpected(H, <<>>, n)] = <<>>
    OBVIOUS
  <2> QED
    BY <2>1, FlattenEmpty DEF AllExpected
<1> QED
  BY <1>1

\* The headings of sections, but for the first.
HeadingsOf(sections) == {s.heading : s \in ToSet(Tail(sections))}

\* Of one more section.
LEMMA HeadingsAppend ==
  ASSUME NEW ss \in Seq(OpenSection), NEW s \in OpenSection
  PROVE  HeadingsOf(Append(ss, s)) = IF ss = <<>> THEN {} ELSE HeadingsOf(ss) \cup {s.heading}
<1>1. CASE ss = <<>>
  <2>1. Tail(Append(<<>>, s)) = <<>>
    OBVIOUS
  <2> QED
    BY <1>1, <2>1, NothingIn DEF HeadingsOf
<1>2. CASE ss # <<>>
  <2>1. PICK t \in Seq(OpenSection) : t = Tail(ss)
    <3>1. Tail(ss) \in Seq(OpenSection)
      BY <1>2
    <3> QED
      BY <3>1
  <2>2. Tail(Append(ss, s)) = Append(t, s)
    BY <1>2, <2>1
  <2>3. ToSet(Append(t, s)) = ToSet(t) \cup {s}
    BY InAppend
  <2> QED
    BY <1>2, <2>1, <2>2, <2>3 DEF HeadingsOf
<1> QED
  BY <1>1, <1>2

\* What the sections say of the lines they were read from.
ReadFrom(ss, lines) ==
    /\ HeadingsOf(ss) \subseteq ToSet(lines)
    /\ Last(ss).number = Before(HeadingsOf(ss), lines, Len(lines))
    /\ SecWords(ss) = AllExpected(HeadingsOf(ss), lines)

\* A section that is being read is like one that has been.
LEMMA OpenIsRead == OpenSection \subseteq ReadSection /\ Seq(OpenSection) \subseteq Seq(ReadSection)
<1>1. OpenSection \subseteq ReadSection
  BY DEF OpenSection, ReadSection
<1> QED
  BY <1>1

\* A line for the last section.
LEMMA LineInSection ==
  ASSUME NEW ss \in Sectioned, NEW lines \in Seq(Placed), NEW l \in Placed, l \notin ToSet(lines),
         ReadFrom(ss, lines), NEW t \in OpenSection,
         t.heading = Last(ss).heading, t.number = Last(ss).number,
         BlockWords(t.blocks) = BlockWords(Last(ss).blocks) \o WholeLine(l)
  PROVE  ReadFrom([ss EXCEPT ![Len(ss)] = t], Append(lines, l))
<1>1. ss \in Seq(OpenSection) /\ ss # <<>>
  BY DEF Sectioned
<1>2. PICK front \in Seq(OpenSection), last \in OpenSection : EndsIn(ss, OpenSection, front, last)
  BY <1>1, LastReplaced
<1>3. ss = Append(front, last) /\ last = Last(ss) /\ [ss EXCEPT ![Len(ss)] = t] = Append(front, t)
  BY <1>2 DEF EndsIn
<1>4. PICK new \in Seq(OpenSection) : new = Append(front, t)
  <2>1. Append(front, t) \in Seq(OpenSection)
    OBVIOUS
  <2> QED
    BY <2>1
<1>5. PICK H : H = HeadingsOf(ss)
  OBVIOUS
<1>6. HeadingsOf(new) = H
  <2>1. H = IF front = <<>> THEN {} ELSE HeadingsOf(front) \cup {last.heading}
    BY <1>3, <1>5, HeadingsAppend
  <2>2. HeadingsOf(new) = IF front = <<>> THEN {} ELSE HeadingsOf(front) \cup {t.heading}
    BY <1>4, HeadingsAppend
  <2>3. t.heading = last.heading
    BY <1>3
  <2> QED
    BY <2>1, <2>2, <2>3
<1>7. PICK more \in Seq(Placed), n \in Nat, k \in Nat : more = Append(lines, l) /\ n = Len(lines) /\ k = n + 1
  <2>1. Append(lines, l) \in Seq(Placed) /\ Len(lines) \in Nat /\ Len(lines) + 1 \in Nat
    OBVIOUS
  <2> QED
    BY <2>1
<1>8. Len(more) = k /\ more[k] = l /\ \A i \in 1 .. n : more[i] = lines[i]
  BY <1>7, AppendElements
<1>9. ToSet(more) = ToSet(lines) \cup {l} /\ H \subseteq ToSet(lines) /\ l \notin H
  BY <1>5, <1>7, InAppend DEF ReadFrom
<1>10. Before(H, more, n) = Before(H, lines, n)
  <2>1. {i \in 1 .. n : more[i] \in H} = {i \in 1 .. n : lines[i] \in H}
    BY <1>8
  <2> QED
    BY <2>1 DEF Before
<1>11. Before(H, more, k) = Before(H, lines, n)
  <2>1. k = n + 1
    BY <1>7
  <2>2. Before(H, more, k) = IF more[k] \in H THEN Before(H, more, n) + 1 ELSE Before(H, more, n)
    BY <2>1, BeforeNext
  <2> QED
    BY <1>8, <1>9, <1>10, <2>2
<1>12. Last(new) = t
  BY <1>4, LastAppended
<1>13. Last(new).number = Before(H, more, k)
  BY <1>3, <1>5, <1>7, <1>11, <1>12 DEF ReadFrom
<1>14. PICK fw \in Seq(Tagged) : fw = SecWords(front)
  BY <1>2, OpenIsRead, SecWordsRules
<1>15. PICK j \in Tags, bw \in Seq(Word), lw \in Seq(Word) :
           j = last.number /\ bw = BlockWords(last.blocks) /\ lw = WholeLine(l)
  BY OpenIsRead, SectionWordsTypes, SentenceTypes
<1>16. PICK tb \in Seq(Tagged), tl \in Seq(Tagged) : tb = Tag(j, bw) /\ tl = Tag(j, lw)
  BY TagTypes
<1>17. SecWords(ss) = fw \o tb
  <2>1. SecWords(ss) = fw \o SectionWords(last)
    BY <1>3, <1>14, OpenIsRead, SecWordsRules
  <2> QED
    BY <1>15, <1>16, <2>1 DEF SectionWords
<1>18. SecWords(new) = fw \o (tb \o tl)
  <2>1. SecWords(new) = fw \o SectionWords(t)
    BY <1>4, <1>14, OpenIsRead, SecWordsRules
  <2>2. SectionWords(t) = Tag(j, bw \o lw)
    BY <1>3, <1>15 DEF SectionWords
  <2>3. Tag(j, bw \o lw) = tb \o tl
    BY <1>16, TagConcat
  <2> QED
    BY <2>1, <2>2, <2>3
<1>19. PICK ew \in Seq(Tagged) : ew = AllExpected(H, lines)
  BY ExpectedTypes
<1>20. AllExpected(H, more) = ew \o tl
  <2>1. AllExpected(H, more) = ew \o LineExpected(H, more, k)
    <3>1. more = Append(lines, l) /\ k = Len(lines) + 1
      BY <1>7
    <3>2. Joins(AllExpected(H, more), AllExpected(H, lines), LineExpected(H, more, k))
      BY <3>1, ExpectedAppend
    <3> QED
      BY <1>19, <3>2 DEF Joins
  <2>2. j = Before(H, more, k)
    BY <1>3, <1>12, <1>13, <1>15
  <2>3. LineExpected(H, more, k) = tl
    BY <1>8, <1>9, <1>15, <1>16, <2>2 DEF LineExpected
  <2> QED
    BY <2>1, <2>3
<1>21. SecWords(new) = AllExpected(H, more)
  <2>1. ew = fw \o tb
    BY <1>5, <1>17, <1>19 DEF ReadFrom
  <2>2. PICK e, all : e = tb \o tl /\ all = ew \o tl
    OBVIOUS
  <2>3. Joins(ew, fw, tb) /\ Joins(e, tb, tl) /\ Joins(all, ew, tl)
    BY <2>1, <2>2 DEF Joins
  <2>4. Joins(all, fw, e)
    BY <2>3, JoinsTwice
  <2> QED
    BY <1>18, <1>20, <2>2, <2>4 DEF Joins
<1>22. ReadFrom(new, more)
  BY <1>6, <1>8, <1>9, <1>13, <1>21 DEF ReadFrom
<1> QED
  BY <1>3, <1>4, <1>7, <1>22

\* A section that has just been opened has no words.
LEMMA EmptySection == ASSUME NEW s, s.blocks = << <<>> >> PROVE SectionWords(s) = <<>>
<1>1. BlockWords(<< <<>> >>) = FlattenSeq(<< <<>> >>)
  <2>1. [i \in DOMAIN << <<>> >> |-> LineWords(<< <<>> >>[i])] = << LineWords(<<>>) >>
    OBVIOUS
  <2> QED
    BY <2>1, LineWordsNone DEF BlockWords
<1>2. <<>> \in Seq(Word)
  OBVIOUS
<1>3. FlattenSeq(<< <<>> >>) = <<>>
  BY <1>2, FlattenOne
<1> QED
  BY <1>1, <1>3, TagNone DEF SectionWords

\* A line that is the heading of a new section.
LEMMA HeadingLine ==
  ASSUME NEW ss \in Sectioned, NEW lines \in Seq(Placed), NEW l \in Placed, l \notin ToSet(lines),
         ReadFrom(ss, lines), NEW number \in Numbers, number = Last(ss).number + 1
  PROVE  ReadFrom(Append(ss, Section(number, l)), Append(lines, l))
<1>1. ss \in Seq(OpenSection) /\ ss # <<>>
  BY DEF Sectioned
<1>2. PICK t \in OpenSection : t = Section(number, l)
  <2>1. l \in Headings
    BY DEF Headings
  <2> QED
    BY <2>1, SectionTypes
<1>3. t.number = number /\ t.heading = l /\ t.blocks = << <<>> >>
  BY <1>2 DEF Section
<1>4. PICK new \in Seq(OpenSection) : new = Append(ss, t)
  <2>1. Append(ss, t) \in Seq(OpenSection)
    BY <1>1
  <2> QED
    BY <2>1
<1>5. PICK H, G : H = HeadingsOf(ss) /\ G = HeadingsOf(new)
  OBVIOUS
<1>6. G = H \cup {l}
  BY <1>1, <1>3, <1>4, <1>5, HeadingsAppend
<1>7. PICK more \in Seq(Placed), n \in Nat, k \in Nat : more = Append(lines, l) /\ n = Len(lines) /\ k = n + 1
  <2>1. Append(lines, l) \in Seq(Placed) /\ Len(lines) \in Nat /\ Len(lines) + 1 \in Nat
    OBVIOUS
  <2> QED
    BY <2>1
<1>8. Len(more) = k /\ more[k] = l /\ \A i \in 1 .. n : more[i] = lines[i]
  BY <1>7, AppendElements
<1>9. ToSet(more) = ToSet(lines) \cup {l} /\ H \subseteq ToSet(lines)
  BY <1>5, <1>7, InAppend DEF ReadFrom
<1>10. DOMAIN lines = 1 .. n /\ \A i \in 1 .. n : lines[i] # l
  BY <1>7, InElement
<1>11. \A i \in DOMAIN lines : lines[i] \in H <=> lines[i] \in G
  BY <1>6, <1>10
<1>12. Before(G, more, n) = Before(H, lines, n)
  <2>1. \A i \in 1 .. n : more[i] \in G <=> lines[i] \in H
    BY <1>6, <1>8, <1>10
  <2> QED
    BY <2>1, BeforeSame
<1>13. Before(G, more, k) = Before(H, lines, n) + 1
  <2>1. k = n + 1
    BY <1>7
  <2>2. Before(G, more, k) = IF more[k] \in G THEN Before(G, more, n) + 1 ELSE Before(G, more, n)
    BY <2>1, BeforeNext
  <2> QED
    BY <1>6, <1>8, <1>12, <2>2
<1>14. Last(new).number = Before(G, more, k)
  <2>1. Last(new) = t
    BY <1>1, <1>4, LastAppended
  <2> QED
    BY <1>3, <1>5, <1>7, <1>13, <2>1 DEF ReadFrom
<1>15. PICK ew \in Seq(Tagged) : ew = AllExpected(H, lines)
  BY ExpectedTypes
<1>16. AllExpected(G, more) = ew
  <2>1. AllExpected(G, lines) = ew
    BY <1>11, <1>15, ExpectedSame
  <2>2. AllExpected(G, more) = ew \o LineExpected(G, more, k)
    <3>1. more = Append(lines, l) /\ k = Len(lines) + 1
      BY <1>7
    <3>2. Joins(AllExpected(G, more), AllExpected(G, lines), LineExpected(G, more, k))
      BY <3>1, ExpectedAppend
    <3> QED
      BY <2>1, <3>2 DEF Joins
  <2>3. LineExpected(G, more, k) = <<>>
    BY <1>6, <1>8 DEF LineExpected
  <2>4. ew \o <<>> = ew
    OBVIOUS
  <2> QED
    BY <2>2, <2>3, <2>4
<1>17. SecWords(new) = ew
  <2>1. SecWords(ss) = ew
    BY <1>5, <1>15 DEF ReadFrom
  <2>2. SecWords(new) = ew \o SectionWords(t)
    BY <1>1, <1>4, <2>1, OpenIsRead, SecWordsRules
  <2>3. SectionWords(t) = <<>>
    BY <1>3, EmptySection
  <2>4. ew \o <<>> = ew
    OBVIOUS
  <2> QED
    BY <2>2, <2>3, <2>4
<1>18. ReadFrom(new, more)
  <2>1. G \subseteq ToSet(more)
    BY <1>6, <1>9
  <2> QED
    BY <1>5, <1>8, <1>14, <1>16, <1>17, <2>1 DEF ReadFrom
<1> QED
  BY <1>2, <1>4, <1>7, <1>18

\* A block of one line.
LEMMA OneLine == ASSUME NEW l \in Placed PROVE LineWords(<<l>>) = WholeLine(l)
<1>1. PICK none \in Seq(Placed) : none = <<>>
  <2>1. <<>> \in Seq(Placed)
    OBVIOUS
  <2> QED
    BY <2>1
<1>2. LineWords(Append(none, l)) = LineWords(none) \o WholeLine(l)
  BY LineWordsRules
<1>3. Append(none, l) = <<l>>
  BY <1>1
<1>4. PICK ws \in Seq(Word) : ws = WholeLine(l)
  BY SentenceTypes
<1>5. LineWords(none) = <<>>
  BY <1>1, LineWordsNone
<1>6. <<>> \o ws = ws
  OBVIOUS
<1> QED
  BY <1>2, <1>3, <1>4, <1>5, <1>6

\* One more line of the last block.
LEMMA LineInBlock ==
  ASSUME NEW blocks \in Seq(Seq(Placed)), blocks # <<>>, NEW l \in Placed
  PROVE  BlockWords([blocks EXCEPT ![Len(blocks)] = Append(@, l)]) = BlockWords(blocks) \o WholeLine(l)
<1>1. PICK front \in Seq(Seq(Placed)), last \in Seq(Placed) : EndsIn(blocks, Seq(Placed), front, last)
  BY LastReplaced
<1>2. blocks = Append(front, last) /\ last = Last(blocks)
      /\ \A y \in Seq(Placed) : [blocks EXCEPT ![Len(blocks)] = y] = Append(front, y)
  BY <1>1 DEF EndsIn
<1>3. PICK b \in Seq(Placed) : b = Append(last, l)
  <2>1. Append(last, l) \in Seq(Placed)
    OBVIOUS
  <2> QED
    BY <2>1
<1>4. [blocks EXCEPT ![Len(blocks)] = Append(@, l)] = Append(front, b)
  <2>1. Last(blocks) = blocks[Len(blocks)]
    BY DEF Last
  <2>2. [blocks EXCEPT ![Len(blocks)] = Append(@, l)] = [blocks EXCEPT ![Len(blocks)] = b]
    BY <1>2, <1>3, <2>1
  <2> QED
    BY <1>2, <2>2
<1>5. PICK fw \in Seq(Word), bw \in Seq(Word), lw \in Seq(Word) :
           fw = BlockWords(front) /\ bw = LineWords(last) /\ lw = WholeLine(l)
  BY BlockWordsRules, SentenceTypes
<1>6. BlockWords(Append(front, last)) = fw \o bw
  BY <1>5, BlockWordsRules
<1>7. BlockWords(Append(front, b)) = fw \o LineWords(b)
  BY <1>5, BlockWordsRules
<1>8. LineWords(Append(last, l)) = bw \o lw
  BY <1>5, LineWordsRules
<1>9. PICK d, e, f : d = fw \o bw /\ e = bw \o lw /\ f = d \o lw
  OBVIOUS
<1>10. Joins(d, fw, bw) /\ Joins(e, bw, lw) /\ Joins(f, d, lw)
  BY <1>9 DEF Joins
<1>11. Joins(f, fw, e)
  BY <1>10, JoinsTwice
<1>12. BlockWords(Append(front, b)) = fw \o e
  BY <1>3, <1>7, <1>8, <1>9
<1>13. BlockWords(blocks) \o lw = f
  BY <1>2, <1>6, <1>9
<1> QED
  BY <1>4, <1>5, <1>11, <1>12, <1>13 DEF Joins

\* A line is read.
LEMMA ParseLineReads ==
  ASSUME NEW ss \in Sectioned, NEW lines \in Seq(Placed), NEW l \in Placed, l \notin ToSet(lines),
         ReadFrom(ss, lines)
  PROVE  ReadFrom(ParseLine(ss, l), Append(lines, l))
<1>1. PICK n \in Nat : n = Len(ss) /\ n # 0 /\ DOMAIN ss = 1 .. n
  BY DEF Sectioned
<1>2. ss \in Seq(OpenSection)
  BY DEF Sectioned
<1>3. PICK s \in OpenSection : s = ss[n] /\ s = Last(ss)
  <2>1. ss[n] \in OpenSection
    BY <1>1, <1>2
  <2> QED
    BY <1>1, <2>1 DEF Last
<1>4. l.line \in Shapes
  BY DEF Placed
<1>5. PICK blocks \in Seq(Seq(Placed)) : blocks = s.blocks /\ blocks # <<>>
  BY DEF OpenSection
<1>6. PICK line : line = l.line
  OBVIOUS
<1>7. ASSUME NEW t \in OpenSection, t.heading = s.heading, t.number = s.number,
             BlockWords(t.blocks) = BlockWords(blocks) \o WholeLine(l)
      PROVE  ReadFrom([ss EXCEPT ![n] = t], Append(lines, l))
  <2>1. ReadFrom([ss EXCEPT ![Len(ss)] = t], Append(lines, l))
    BY <1>3, <1>5, <1>7, LineInSection
  <2> QED
    BY <1>1, <2>1
<1>8. CASE line.kind = "section" /\ line.number = s.number + 1 /\ line.titled
  <2>1. PICK number \in Numbers : number = line.number
    BY <1>4, <1>6 DEF Numbers
  <2>2. ParseLine(ss, l) = Append(ss, Section(number, l))
    BY <1>3, <1>6, <1>8, <2>1, Zenon DEF ParseLine
  <2>3. number = Last(ss).number + 1
    BY <1>3, <1>8, <2>1
  <2> QED
    BY <2>2, <2>3, HeadingLine
<1>9. CASE /\ ~(line.kind = "section" /\ line.number = s.number + 1 /\ line.titled)
           /\ line.kind = "clause" /\ line.number = s.number /\ line.clause = s.lastClause + 1
  <2>1. PICK one \in Seq(Placed) : one = <<l>>
    <3>1. <<l>> \in Seq(Placed)
      OBVIOUS
    <3> QED
      BY <3>1
  <2>2. PICK more \in Seq(Seq(Placed)) : more = Append(blocks, one)
    <3>1. Append(blocks, one) \in Seq(Seq(Placed))
      OBVIOUS
    <3> QED
      BY <3>1
  <2>3. more # <<>>
    BY <2>2, AppendedIsNotEmpty
  <2>4. line.clause \in Clauses
    BY <1>4, <1>6 DEF Clauses
  <2>5. PICK t : t = [s EXCEPT !.lastClause = line.clause, !.blocks = more]
    OBVIOUS
  <2>6. t \in OpenSection
    BY <2>3, <2>4, <2>5 DEF OpenSection
  <2>7. t.heading = s.heading /\ t.number = s.number /\ t.blocks = more
    BY <2>5 DEF OpenSection
  <2>8. t = [s EXCEPT !.lastClause = line.clause, !.blocks = Append(@, <<l>>)]
    BY <1>5, <2>1, <2>2, <2>5 DEF OpenSection
  <2>9. ParseLine(ss, l) = [ss EXCEPT ![n] = t]
    BY <1>1, <1>3, <1>6, <1>9, <2>8, Zenon DEF ParseLine
  <2>10. BlockWords(more) = BlockWords(blocks) \o LineWords(one)
    BY <2>2, BlockWordsRules
  <2>11. LineWords(one) = WholeLine(l)
    BY <2>1, OneLine
  <2>12. BlockWords(t.blocks) = BlockWords(blocks) \o WholeLine(l)
    BY <2>7, <2>10, <2>11
  <2>13. ReadFrom([ss EXCEPT ![n] = t], Append(lines, l))
    BY <1>7, <2>6, <2>7, <2>12, Zenon
  <2> QED
    BY <2>9, <2>13
<1>10. CASE /\ ~(line.kind = "section" /\ line.number = s.number + 1 /\ line.titled)
            /\ ~(line.kind = "clause" /\ line.number = s.number /\ line.clause = s.lastClause + 1)
  <2>1. PICK m \in Nat : m = Len(blocks) /\ m # 0 /\ DOMAIN blocks = 1 .. m
    BY <1>5
  <2>2. PICK b \in Seq(Placed) : b = Append(blocks[m], l)
    <3>1. blocks[m] \in Seq(Placed)
      BY <2>1
    <3>2. Append(blocks[m], l) \in Seq(Placed)
      BY <3>1
    <3> QED
      BY <3>2
  <2>3. PICK more : more = [blocks EXCEPT ![m] = b]
    OBVIOUS
  <2>4. more \in Seq(Seq(Placed)) /\ DOMAIN more = 1 .. m
    BY <2>1, <2>3
  <2>5. more # <<>>
    <3>1. DOMAIN <<>> = {} /\ m \in 1 .. m
      BY <2>1
    <3> QED
      BY <2>4, <3>1
  <2>6. PICK t : t = [s EXCEPT !.blocks = more]
    OBVIOUS
  <2>7. t \in OpenSection
    BY <2>4, <2>5, <2>6 DEF OpenSection
  <2>8. t = [s EXCEPT !.blocks[Len(s.blocks)] = Append(@, l)]
    BY <1>5, <2>1, <2>2, <2>3, <2>6 DEF OpenSection
  <2>9. ParseLine(ss, l) = [ss EXCEPT ![n] = t]
    BY <1>1, <1>3, <1>6, <1>10, <2>8, Zenon DEF ParseLine
  <2>10. t.heading = s.heading /\ t.number = s.number /\ t.blocks = more
    BY <2>6 DEF OpenSection
  <2>11. BlockWords([blocks EXCEPT ![Len(blocks)] = Append(@, l)]) = BlockWords(blocks) \o WholeLine(l)
    BY <1>5, LineInBlock
  <2>12. [blocks EXCEPT ![Len(blocks)] = Append(@, l)] = more
    BY <2>1, <2>2, <2>3
  <2>13. BlockWords(t.blocks) = BlockWords(blocks) \o WholeLine(l)
    BY <2>10, <2>11, <2>12
  <2>14. ReadFrom([ss EXCEPT ![n] = t], Append(lines, l))
    BY <1>7, <2>7, <2>10, <2>13, Zenon
  <2> QED
    BY <2>9, <2>14
<1> QED
  BY <1>8, <1>9, <1>10

\* The sections that lines are read to.
Parsed(lines) == FoldLeft(ParseLine, <<Section(0, "Preamble")>>, lines)

\* By induction on the lines.
LEMMA ParsedReads ==
  ASSUME NEW lines \in Seq(Placed), Distinct(lines)
  PROVE  ReadFrom(Parsed(lines), lines)
<1> DEFINE P == {ls \in Seq(Placed) : Distinct(ls) => ReadFrom(Parsed(ls), ls)}
<1>1. <<>> \in P
  <2>1. PICK none \in Seq(Placed) : none = <<>>
    <3>1. <<>> \in Seq(Placed)
      OBVIOUS
    <3> QED
      BY <3>1
  <2>2. PICK t \in OpenSection : t = Section(0, "Preamble")
    BY SectionTypes DEF Numbers, Headings
  <2>3. PICK ss \in Seq(OpenSection) : ss = <<t>>
    <3>1. <<t>> \in Seq(OpenSection)
      OBVIOUS
    <3> QED
      BY <3>1
  <2>4. Parsed(none) = ss
    BY <2>1, <2>2, <2>3, ParseLineNone DEF Parsed
  <2>5. HeadingsOf(ss) = {}
    <3>1. Tail(<<t>>) = <<>>
      OBVIOUS
    <3> QED
      BY <2>3, <3>1, NothingIn DEF HeadingsOf
  <2>6. Last(ss) = t
    BY <2>3 DEF Last
  <2>7. Before({}, none, Len(none)) = 0
    <3>1. Len(none) = 0 /\ 1 .. 0 = {}
      BY <2>1
    <3>2. {m \in 1 .. Len(none) : none[m] \in {}} = {}
      OBVIOUS
    <3> QED
      BY <3>2, FS_EmptySet DEF Before
  <2>8. t.number = 0 /\ t.blocks = << <<>> >>
    BY <2>2 DEF Section
  <2>9. SecWords(ss) = <<>>
    <3>1. SecWords(ss) = FlattenSeq(<<SectionWords(t)>>)
      <4>1. [n \in DOMAIN <<t>> |-> SectionWords(<<t>>[n])] = <<SectionWords(t)>>
        OBVIOUS
      <4> QED
        BY <2>3, <4>1 DEF SecWords
    <3>2. SectionWords(t) = <<>>
      BY <2>8, EmptySection
    <3>3. <<>> \in Seq(Word)
      OBVIOUS
    <3>4. FlattenSeq(<< <<>> >>) = <<>>
      BY <3>3, FlattenOne
    <3> QED
      BY <3>1, <3>2, <3>4
  <2>10. AllExpected({}, none) = <<>>
    BY <2>1, ExpectedNone
  <2>11. ReadFrom(ss, none)
    BY <2>5, <2>6, <2>7, <2>8, <2>9, <2>10 DEF ReadFrom
  <2> QED
    BY <2>1, <2>4, <2>11
<1>2. ASSUME NEW ls \in Seq(Placed), NEW l \in Placed, ls \in P PROVE Append(ls, l) \in P
  <2>1. PICK more \in Seq(Placed) : more = Append(ls, l)
    <3>1. Append(ls, l) \in Seq(Placed)
      OBVIOUS
    <3> QED
      BY <3>1
  <2>2. PICK ss \in Sectioned : ss = Parsed(ls)
    BY ParseLineStays DEF Parsed
  <2>3. Parsed(more) = ParseLine(ss, l)
    BY <2>1, <2>2, ParseLineAppend DEF Parsed
  <2>4. ASSUME Distinct(more) PROVE ReadFrom(ParseLine(ss, l), more)
    <3>1. PICK one \in Seq(Placed) : one = <<l>>
      <4>1. <<l>> \in Seq(Placed)
        OBVIOUS
      <4> QED
        BY <4>1
    <3>2. more = ls \o one
      BY <2>1, <3>1
    <3>3. Distinct(ls) /\ ToSet(ls) \cap ToSet(one) = {}
      BY <2>4, <3>2, DistinctConcat
    <3>4. l \in ToSet(one)
      BY <3>1 DEF ToSet
    <3>5. l \notin ToSet(ls)
      BY <3>3, <3>4
    <3>6. ReadFrom(ss, ls)
      BY <1>2, <2>2, <3>3
    <3> QED
      BY <2>1, <3>5, <3>6, ParseLineReads
  <2> QED
    BY <2>1, <2>3, <2>4
<1> HIDE DEF P
<1>3. Seq(Placed) \subseteq P
  BY <1>1, <1>2, SeqInduction
<1> QED
  BY <1>3 DEF P

-----------------------------------------------------------------------------
(* Nothing is lost: empty blocks and sections *)

\* Blocks without their empty ones have the same words.
LEMMA BlocksFiltered ==
  ASSUME NEW blocks \in Seq(Seq(Placed)),
         NEW parts, parts = [n \in DOMAIN blocks |-> IF blocks[n] # <<>> THEN <<blocks[n]>> ELSE <<>>]
  PROVE  FlattenSeq(parts) \in Seq(Seq(Placed)) /\ BlockWords(FlattenSeq(parts)) = BlockWords(blocks)
<1>1. PICK f : /\ IsMap(f, Seq(Placed), Seq(Word))
               /\ \A b \in Seq(Placed) : f[b] = LineWords(b)
               /\ \A bs \in Seq(Seq(Placed)) : BlockWords(bs) = FlatMap(f, bs)
  BY BlockWordsMap
<1>2. PICK K : K = Seq(Placed) \ {<<>>}
  OBVIOUS
<1>3. MakesNothing(f, Seq(Placed) \ K)
  BY <1>1, <1>2, LineWordsNone DEF MakesNothing
<1>4. LeavesOnly(parts, blocks, K)
  <2>1. \A n \in DOMAIN blocks : blocks[n] \in Seq(Placed)
    OBVIOUS
  <2>2. \A n \in DOMAIN blocks : blocks[n] # <<>> <=> blocks[n] \in K
    BY <1>2, <2>1
  <2> QED
    BY <2>2 DEF LeavesOnly
<1>5. FlatMap(f, FlattenSeq(parts)) = FlatMap(f, blocks)
  BY <1>1, <1>3, <1>4, FlatMapFiltered
<1>6. FlattenSeq(parts) \in Seq(Seq(Placed))
  <2>1. parts = [n \in DOMAIN blocks |-> parts[n]]
        /\ \A n \in DOMAIN blocks : parts[n] \in {<<blocks[n]>>, <<>>}
    OBVIOUS
  <2> QED
    BY <2>1, FilterTypes
<1> QED
  BY <1>1, <1>5, <1>6

\* What is dropped of a structure has no words.
LEMMA StructureWords ==
  ASSUME NEW lines \in Seq(Placed)
  PROVE  parseStructure(lines) \in Seq(ReadSection) /\ SecWords(parseStructure(lines)) = SecWords(Sections(lines))
<1>1. (IF HasTitle(lines) THEN Tail(lines) ELSE lines) \in Seq(Placed)
  BY DEF HasTitle
<1>2. PICK sections \in Seq(ReadSection) : sections = Sections(lines)
  <2>1. Sections(lines) \in Sectioned
    BY <1>1, ParseLineStays DEF Sections
  <2> QED
    BY <2>1, OpenIsRead DEF Sectioned
<1>3. PICK n \in Nat : n = Len(sections) /\ DOMAIN sections = 1 .. n
  OBVIOUS
<1>4. PICK read : read = [k \in 1 .. n |->
                            [sections[k] EXCEPT !.blocks = Filter(@, LAMBDA b : b # <<>>)]]
  OBVIOUS
<1>5. ASSUME NEW k \in 1 .. n
      PROVE  read[k] \in ReadSection /\ SectionWords(read[k]) = SectionWords(sections[k])
  <2>1. PICK s \in ReadSection : s = sections[k]
    BY <1>3
  <2>2. PICK blocks \in Seq(Seq(Placed)) : blocks = s.blocks
    BY DEF ReadSection
  <2>3. PICK parts : parts = [i \in DOMAIN blocks |-> IF blocks[i] # <<>> THEN <<blocks[i]>> ELSE <<>>]
    OBVIOUS
  <2>4. PICK left \in Seq(Seq(Placed)) : left = FlattenSeq(parts) /\ BlockWords(left) = BlockWords(blocks)
    BY <2>3, BlocksFiltered
  <2>5. PICK r : r = [s EXCEPT !.blocks = left]
    OBVIOUS
  <2>6. r \in ReadSection
    BY <2>5 DEF ReadSection
  <2>7. read[k] = r
    BY <1>4, <2>1, <2>2, <2>3, <2>4, <2>5 DEF Filter
  <2>8. r.number = s.number /\ r.blocks = left
    BY <2>5 DEF ReadSection
  <2> QED
    BY <2>1, <2>2, <2>4, <2>6, <2>7, <2>8 DEF SectionWords
<1>6. read \in Seq(ReadSection) /\ DOMAIN read = 1 .. n
  <2>1. [k \in 1 .. n |-> read[k]] \in Seq(ReadSection)
    BY <1>5, ElementsType
  <2>2. read = [k \in 1 .. n |-> read[k]] /\ DOMAIN read = 1 .. n
    BY <1>4, Zenon
  <2> QED
    BY <2>1, <2>2
<1>7. SecWords(read) = SecWords(sections)
  <2>1. [k \in DOMAIN read |-> SectionWords(read[k])] = [k \in DOMAIN sections |-> SectionWords(sections[k])]
    BY <1>3, <1>5, <1>6
  <2> QED
    BY <2>1 DEF SecWords
<1>8. PICK parts : parts = [k \in DOMAIN read |-> IF read[k].blocks # <<>> THEN <<read[k]>> ELSE <<>>]
  OBVIOUS
<1>9. parts = [k \in DOMAIN read |-> parts[k]]
      /\ \A k \in DOMAIN read : parts[k] \in {<<read[k]>>, <<>>}
  BY <1>8
<1>10. PICK left \in Seq(ReadSection) : left = FlattenSeq(parts)
  BY <1>6, <1>9, FilterTypes
<1>11. parseStructure(lines) = left
  BY <1>2, <1>3, <1>4, <1>6, <1>8, <1>10 DEF parseStructure, Filter
<1>12. SecWords(left) = SecWords(read)
  <2>1. PICK f : /\ IsMap(f, ReadSection, Seq(Tagged))
                 /\ \A s \in ReadSection : f[s] = SectionWords(s)
                 /\ \A ss \in Seq(ReadSection) : SecWords(ss) = FlatMap(f, ss)
    BY SecWordsMap
  <2>2. PICK K : K = {s \in ReadSection : s.blocks # <<>>}
    OBVIOUS
  <2>3. ASSUME NEW s \in ReadSection, s \notin K PROVE f[s] = <<>>
    <3>1. s.blocks = <<>>
      BY <2>2, <2>3
    <3>2. SectionWords(s) = <<>>
      BY <3>1, BlockWordsNone, TagNone DEF SectionWords
    <3> QED
      BY <2>1, <3>2
  <2>4. LeavesOnly(parts, read, K)
    <3>1. \A k \in DOMAIN read : read[k] \in ReadSection
      BY <1>6
    <3>2. \A k \in DOMAIN read : read[k].blocks # <<>> <=> read[k] \in K
      BY <2>2, <3>1
    <3> QED
      BY <1>8, <3>2 DEF LeavesOnly
  <2>5. MakesNothing(f, ReadSection \ K)
    BY <2>3 DEF MakesNothing
  <2>6. FlatMap(f, FlattenSeq(parts)) = FlatMap(f, read)
    BY <1>6, <2>1, <2>4, <2>5, FlatMapFiltered
  <2> QED
    BY <1>6, <1>10, <2>1, <2>6
<1> QED
  BY <1>2, <1>7, <1>11, <1>12

-----------------------------------------------------------------------------
(* Nothing is lost: no two words are alike *)

\* The words of a line are its own, and no two alike.
LEMMA LineDistinct ==
  ASSUME NEW l \in Placed
  PROVE  /\ Distinct(WholeLine(l))
         /\ \A w \in ToSet(WholeLine(l)) : w.word[1] = l.at
<1>1. PICK text \in Seq(Seq(Nat)) : text = l.line.text
  BY SentenceTypes
<1>2. PICK n \in Nat : DOMAIN text = 1 .. n
  OBVIOUS
<1>3. PICK parts : parts = [s \in 1 .. n |-> Sentence(l, s)]
  OBVIOUS
<1>4. ASSUME NEW s \in 1 .. n
      PROVE  /\ parts[s] \in Seq(Word)
             /\ Distinct(parts[s])
             /\ \A w \in ToSet(parts[s]) : w.word[1] = l.at /\ w.word[2] = s
  <2>1. parts[s] \in Seq(Word)
    BY <1>1, <1>2, <1>3, SentenceTypes
  <2>2. parts[s] = [i \in DOMAIN text[s] |-> [word |-> <<l.at, s, i>>, tokens |-> text[s][i]]]
    BY <1>1, <1>3 DEF Sentence
  <2>3. DOMAIN parts[s] = DOMAIN text[s] /\ \A i \in DOMAIN text[s] : parts[s][i].word = <<l.at, s, i>>
    BY <2>2
  <2>4. Distinct(parts[s])
    <3>1. ASSUME NEW i \in DOMAIN text[s], NEW j \in DOMAIN text[s], parts[s][i] = parts[s][j] PROVE i = j
      <4>1. <<l.at, s, i>> = <<l.at, s, j>>
        BY <2>3, <3>1
      <4> QED
        BY <4>1
    <3> QED
      BY <2>3, <3>1 DEF Distinct
  <2>5. \A w \in ToSet(parts[s]) : w.word[1] = l.at /\ w.word[2] = s
    BY <2>3 DEF ToSet
  <2> QED
    BY <2>1, <2>4, <2>5
<1>5. parts \in Seq(Seq(Word)) /\ DOMAIN parts = 1 .. n
  BY <1>3, <1>4
<1>6. ASSUME NEW i \in 1 .. n, NEW j \in 1 .. n, i # j PROVE ToSet(parts[i]) \cap ToSet(parts[j]) = {}
  <2>1. \A w \in ToSet(parts[i]) : w.word[2] = i
    BY <1>4
  <2>2. \A w \in ToSet(parts[j]) : w.word[2] = j
    BY <1>4
  <2> QED
    BY <1>6, <2>1, <2>2
<1>7. Apart(parts)
  BY <1>4, <1>5, <1>6 DEF Apart
<1>8. Distinct(FlattenSeq(parts))
  BY <1>5, <1>7, DistinctFlatten
<1>9. ASSUME NEW w \in ToSet(FlattenSeq(parts)) PROVE w.word[1] = l.at
  <2>1. PICK t \in ToSet(parts) : w \in ToSet(t)
    BY <1>5, <1>9, InFlatten
  <2>2. PICK s \in 1 .. n : t = parts[s]
    BY <1>5, <2>1, InElement
  <2> QED
    BY <1>4, <2>1, <2>2
<1>10. WholeLine(l) = FlattenSeq(parts)
  BY <1>1, <1>2, <1>3 DEF WholeLine
<1> QED
  BY <1>8, <1>9, <1>10

\* Lines of which no two are in the same place.
InPlaces(L) == L \subseteq Placed /\ \A x, y \in L : x.at = y.at => x = y

\* What is expected of such lines are words that are not alike.
LEMMA ExpectedDistinct ==
  ASSUME NEW L, InPlaces(L), NEW lines \in Seq(L), Distinct(lines), NEW H
  PROVE  Distinct(AllExpected(H, lines))
<1>1. PICK n \in Nat : DOMAIN lines = 1 .. n
  OBVIOUS
<1>2. L \subseteq Placed
  BY DEF InPlaces
<1>3. lines \in Seq(Placed)
  BY <1>2
<1>4. PICK parts \in Seq(Seq(Tagged)) : parts = [i \in DOMAIN lines |-> LineExpected(H, lines, i)]
  BY <1>3, ExpectedTypes
<1>5. DOMAIN parts = 1 .. n /\ \A i \in 1 .. n : parts[i] = LineExpected(H, lines, i)
  BY <1>1, <1>4
<1>6. \A i \in 1 .. n : lines[i] \in L /\ lines[i] \in Placed
  BY <1>1, <1>2
<1>7. ASSUME NEW i \in 1 .. n
      PROVE  Distinct(parts[i]) /\ \A y \in ToSet(parts[i]) : y[2].word[1] = lines[i].at
  <2>1. CASE lines[i] \in H
    <3>1. parts[i] = <<>>
      BY <1>5, <2>1 DEF LineExpected
    <3>2. Distinct(<<>>) /\ ToSet(<<>>) = {}
      BY DEF Distinct, ToSet
    <3> QED
      BY <3>1, <3>2
  <2>2. CASE lines[i] \notin H
    <3>0. i \in Nat
      OBVIOUS
    <3>1. PICK k \in Tags : k = Before(H, lines, i)
      BY <3>0, BeforeIsNumber DEF Tags
    <3>2. PICK ws \in Seq(Word) : ws = WholeLine(lines[i])
      BY <1>6, SentenceTypes
    <3>3. parts[i] = Tag(k, ws)
      BY <1>5, <2>2, <3>1, <3>2 DEF LineExpected
    <3>4. Distinct(ws) /\ \A w \in ToSet(ws) : w.word[1] = lines[i].at
      BY <1>6, <3>2, LineDistinct
    <3>5. Distinct(parts[i])
      BY <3>3, <3>4, TagDistinct
    <3>6. ASSUME NEW y \in ToSet(parts[i]) PROVE y[2].word[1] = lines[i].at
      <4>1. PICK w \in ToSet(ws) : y = <<k, w>>
        BY <3>3, <3>6, InTag
      <4> QED
        BY <3>4, <4>1
    <3> QED
      BY <3>5, <3>6
  <2> QED
    BY <2>1, <2>2
<1>8. ASSUME NEW i \in 1 .. n, NEW j \in 1 .. n, i # j PROVE ToSet(parts[i]) \cap ToSet(parts[j]) = {}
  <2>1. lines[i].at # lines[j].at
    <3>1. lines[i] # lines[j]
      BY <1>1, <1>8 DEF Distinct
    <3> QED
      BY <1>6, <3>1 DEF InPlaces
  <2>2. \A y \in ToSet(parts[i]) : y[2].word[1] = lines[i].at
    BY <1>7
  <2>3. \A y \in ToSet(parts[j]) : y[2].word[1] = lines[j].at
    BY <1>7
  <2> QED
    BY <2>1, <2>2, <2>3
<1>9. Apart(parts)
  BY <1>5, <1>7, <1>8 DEF Apart
<1>10. Distinct(FlattenSeq(parts))
  BY <1>9, DistinctFlatten
<1> QED
  BY <1>4, <1>10 DEF AllExpected

\* What is left of the lines when the title has been read.
BodyOf(lines) == IF HasTitle(lines) THEN Tail(lines) ELSE lines

\* The chunks of lines cover what is expected of them.
LEMMA LinesCovered ==
  ASSUME NEW L, InPlaces(L), NEW lines \in Seq(L), Distinct(lines)
  PROVE  Covers(ChunkWords(chunkDocument(parseStructure(lines))),
                AllExpected(HeadingsOf(Sections(lines)), BodyOf(lines)))
<1>1. PICK body \in Seq(L) : body = BodyOf(lines) /\ Distinct(body)
  BY DistinctTail DEF BodyOf, HasTitle
<1>2. Seq(L) \subseteq Seq(Placed)
  <2>1. L \subseteq Placed
    BY DEF InPlaces
  <2> QED
    BY <2>1
<1>3. PICK ss : ss = Parsed(body) /\ ss = Sections(lines)
  BY <1>1 DEF Parsed, Sections, BodyOf
<1>4. ReadFrom(ss, body)
  BY <1>1, <1>2, <1>3, ParsedReads
<1>5. PICK ws : ws = AllExpected(HeadingsOf(ss), body)
  OBVIOUS
<1>6. SecWords(ss) = ws
  BY <1>4, <1>5 DEF ReadFrom
<1>7. PICK sections \in Seq(ReadSection) : sections = parseStructure(lines) /\ SecWords(sections) = ws
  BY <1>2, <1>3, <1>6, StructureWords
<1>8. Distinct(ws)
  BY <1>1, <1>5, ExpectedDistinct
<1>9. Covers(ChunkWords(chunkDocument(sections)), SecWords(sections))
  BY <1>7, <1>8, DocumentCovers
<1> QED
  BY <1>1, <1>3, <1>5, <1>7, <1>9

-----------------------------------------------------------------------------
(* Nothing is lost: the lines of a document *)

\* The lines of the document, in their places.
Here == {l \in Placed : /\ l.at[1] \in DOMAIN pages /\ l.at[2] \in DOMAIN pages[l.at[1]]
                        /\ l.line = pages[l.at[1]][l.at[2]]}

\* A place has one line.
LEMMA HereInPlaces == InPlaces(Here)
<1>1. ASSUME NEW x \in Here, NEW y \in Here, x.at = y.at PROVE x = y
  <2>1. x.line = y.line
    BY <1>1 DEF Here
  <2>2. x = [line |-> x.line, at |-> x.at] /\ y = [line |-> y.line, at |-> y.at]
    BY DEF Here, Placed
  <2> QED
    BY <1>1, <2>1, <2>2
<1>2. Here \subseteq Placed
  BY DEF Here
<1> QED
  BY <1>1, <1>2 DEF InPlaces

\* Lines of the document, no two alike.
LEMMA TextTypes ==
  ASSUME PagesTypes
  PROVE  Text \in Seq(Seq(Here)) /\ Apart(Text) /\ DOMAIN Text = DOMAIN pages
<1>1. PICK n \in Nat : DOMAIN pages = 1 .. n
  BY DEF PagesTypes
<1>2. DOMAIN Text = 1 .. n /\ Text = [p \in 1 .. n |-> Text[p]]
  BY <1>1 DEF Text
<1>3. ASSUME NEW p \in 1 .. n
      PROVE  Text[p] \in Seq(Here) /\ Distinct(Text[p]) /\ \A l \in ToSet(Text[p]) : l.at[1] = p
  <2>1. PICK page \in Seq(Shapes) : page = pages[p]
    BY <1>1 DEF PagesTypes
  <2>2. PICK m \in Nat : DOMAIN page = 1 .. m
    OBVIOUS
  <2>3. PICK text : text = [i \in 1 .. m |-> [line |-> page[i], at |-> <<p, i>>]]
    OBVIOUS
  <2>4. Text[p] = text
    BY <1>1, <2>1, <2>2, <2>3 DEF Text
  <2>5. ASSUME NEW i \in 1 .. m PROVE text[i] \in Here /\ text[i].at = <<p, i>>
    <3>1. text[i] = [line |-> page[i], at |-> <<p, i>>]
      BY <2>3
    <3>2. page[i] \in Shapes
      BY <2>2
    <3>3. <<p, i>> \in Places
      BY DEF Places
    <3>4. text[i] \in Placed
      BY <3>1, <3>2, <3>3 DEF Placed
    <3>5. text[i].at[1] = p /\ text[i].at[2] = i /\ text[i].line = page[i]
      BY <3>1
    <3>6. p \in DOMAIN pages /\ i \in DOMAIN pages[p] /\ page[i] = pages[p][i]
      BY <1>1, <2>1, <2>2
    <3> QED
      BY <3>1, <3>4, <3>5, <3>6 DEF Here
  <2>6. text \in Seq(Here) /\ DOMAIN text = 1 .. m
    BY <2>3, <2>5
  <2>7. Distinct(text)
    <3>1. ASSUME NEW i \in 1 .. m, NEW j \in 1 .. m, text[i] = text[j] PROVE i = j
      <4>1. <<p, i>> = <<p, j>>
        BY <2>5, <3>1
      <4> QED
        BY <4>1
    <3> QED
      BY <2>6, <3>1 DEF Distinct
  <2>8. \A l \in ToSet(text) : l.at[1] = p
    <3>1. ASSUME NEW l \in ToSet(text) PROVE l.at[1] = p
      <4>1. PICK i \in 1 .. m : l = text[i]
        BY <2>6, <3>1 DEF ToSet
      <4>2. l.at = <<p, i>>
        BY <2>5, <4>1
      <4> QED
        BY <4>2
    <3> QED
      BY <3>1
  <2> QED
    BY <2>4, <2>6, <2>7, <2>8
<1>4. Text \in Seq(Seq(Here))
  BY <1>2, <1>3
<1>5. ASSUME NEW i \in 1 .. n, NEW j \in 1 .. n, i # j PROVE ToSet(Text[i]) \cap ToSet(Text[j]) = {}
  <2>1. \A l \in ToSet(Text[i]) : l.at[1] = i
    BY <1>3
  <2>2. \A l \in ToSet(Text[j]) : l.at[1] = j
    BY <1>3
  <2> QED
    BY <1>5, <2>1, <2>2
<1>6. Apart(Text)
  BY <1>2, <1>3, <1>5 DEF Apart
<1> QED
  BY <1>1, <1>2, <1>4, <1>6

\* The lines that are kept, of all pages at once.
Kept == {l \in Placed : ~Repeated(l.line) /\ l.line.kind # "page number"}

\* Them, in order.
KeptLines ==
    FlattenSeq([n \in DOMAIN toLines(Text) |->
        IF toLines(Text)[n] \in Kept THEN <<toLines(Text)[n]>> ELSE <<>>])

\* Dropping lines page by page leaves the same.
LEMMA StrippedLines ==
  ASSUME PagesTypes
  PROVE  toLines(stripBoilerplate) = KeptLines
<1>1. PICK text \in Seq(Seq(Placed)) : text = Text
  <2>1. Text \in Seq(Seq(Here))
    BY TextTypes
  <2>2. Seq(Here) \subseteq Seq(Placed)
    <3>1. Here \subseteq Placed
      BY DEF Here
    <3> QED
      BY <3>1
  <2>3. Seq(Seq(Here)) \subseteq Seq(Seq(Placed))
    BY <2>2
  <2> QED
    BY <2>1, <2>3
<1>2. PICK h : h = [l \in Placed |-> IF l \in Kept THEN <<l>> ELSE <<>>]
  OBVIOUS
<1>3. IsMap(h, Placed, Seq(Placed))
  BY <1>2 DEF IsMap
<1>4. PICK id : id = [page \in Seq(Placed) |-> page]
  OBVIOUS
<1>5. IsMap(id, Seq(Placed), Seq(Placed)) /\ \A page \in Seq(Placed) : id[page] = page
  BY <1>4 DEF IsMap
<1>6. PICK g : g = [page \in Seq(Placed) |-> FlatMap(h, page)]
  OBVIOUS
<1>7. \A page \in Seq(Placed) : g[page] = FlatMap(h, page) /\ FlatMap(h, page) \in Seq(Placed)
  BY <1>3, <1>6, FlatMapTypes
<1>8. IsMap(g, Seq(Placed), Seq(Placed))
  BY <1>6, <1>7 DEF IsMap
<1>9. ASSUME NEW page \in Seq(Placed)
      PROVE  FlatMap(h, page) = FlattenSeq([n \in DOMAIN page |-> IF page[n] \in Kept THEN <<page[n]>> ELSE <<>>])
  <2>1. \A n \in DOMAIN page : page[n] \in Placed
    OBVIOUS
  <2>2. \A n \in DOMAIN page : h[page[n]] = IF page[n] \in Kept THEN <<page[n]>> ELSE <<>>
    BY <1>2, <2>1
  <2>3. Mapped(h, page) = [n \in DOMAIN page |-> IF page[n] \in Kept THEN <<page[n]>> ELSE <<>>]
    BY <2>2 DEF Mapped
  <2> QED
    BY <2>3 DEF FlatMap
<1>10. FlatMap(h, FlatMap(id, text)) = FlatMap(g, text)
  <2>1. \A page \in Seq(Placed) : g[page] = FlatMap(h, id[page])
    BY <1>5, <1>7
  <2> QED
    BY <1>3, <1>5, <1>8, <2>1, FlatMapTwice
<1>11. FlatMap(id, text) = FlattenSeq(text)
  <2>1. \A n \in DOMAIN text : id[text[n]] = text[n]
    BY <1>5
  <2>2. Mapped(id, text) = [n \in DOMAIN text |-> text[n]]
    BY <2>1 DEF Mapped
  <2>3. text = [n \in DOMAIN text |-> text[n]]
    OBVIOUS
  <2> QED
    BY <2>2, <2>3 DEF FlatMap
<1>12. FlatMap(g, text) = FlattenSeq(stripBoilerplate)
  <2>1. ASSUME NEW p \in DOMAIN text PROVE g[text[p]] = stripBoilerplate[p]
    <3>1. PICK page \in Seq(Placed) : page = text[p]
      OBVIOUS
    <3>2. g[page] = FlattenSeq([n \in DOMAIN page |-> IF page[n] \in Kept THEN <<page[n]>> ELSE <<>>])
      BY <1>7, <1>9
    <3>3. \A n \in DOMAIN page : page[n] \in Placed
      OBVIOUS
    <3>4. \A n \in DOMAIN page :
             page[n] \in Kept <=> ~Repeated(page[n].line) /\ page[n].line.kind # "page number"
      BY <3>3 DEF Kept
    <3>5. [n \in DOMAIN page |-> IF page[n] \in Kept THEN <<page[n]>> ELSE <<>>]
          = [n \in DOMAIN page |-> IF ~Repeated(page[n].line) /\ page[n].line.kind # "page number"
                                   THEN <<page[n]>> ELSE <<>>]
      BY <3>4
    <3>6. stripBoilerplate[p]
          = FlattenSeq([n \in DOMAIN page |-> IF ~Repeated(page[n].line) /\ page[n].line.kind # "page number"
                                              THEN <<page[n]>> ELSE <<>>])
      BY <1>1, <3>1 DEF stripBoilerplate, Filter
    <3> QED
      BY <3>1, <3>2, <3>5, <3>6
  <2>2. [p \in DOMAIN text |-> g[text[p]]] = [p \in DOMAIN text |-> stripBoilerplate[p]]
    BY <2>1
  <2>3. stripBoilerplate = [p \in DOMAIN text |-> stripBoilerplate[p]]
    BY <1>1 DEF stripBoilerplate
  <2> QED
    BY <2>2, <2>3 DEF FlatMap, Mapped
<1>13. PICK all \in Seq(Placed) : all = FlattenSeq(text)
  BY FlattenTypes
<1>14. FlatMap(h, all) = FlattenSeq([n \in DOMAIN all |-> IF all[n] \in Kept THEN <<all[n]>> ELSE <<>>])
  BY <1>9
<1> QED
  BY <1>1, <1>10, <1>11, <1>12, <1>13, <1>14 DEF toLines, KeptLines

\* Distinct lines of the document.
LEMMA KeptTypes ==
  ASSUME PagesTypes
  PROVE  KeptLines \in Seq(Here) /\ Distinct(KeptLines)
<1>1. Text \in Seq(Seq(Here)) /\ Apart(Text)
  BY TextTypes
<1>2. PICK all \in Seq(Here) : all = toLines(Text) /\ Distinct(all)
  BY <1>1, FlattenTypes, DistinctFlatten DEF toLines
<1>3. PICK parts : parts = [n \in DOMAIN all |-> IF all[n] \in Kept THEN <<all[n]>> ELSE <<>>]
  OBVIOUS
<1>4. LeavesOnly(parts, all, Kept)
  BY <1>3 DEF LeavesOnly
<1>5. FlattenSeq(parts) \in Seq(Here) /\ Distinct(FlattenSeq(parts))
  BY <1>2, <1>4, DistinctLeft
<1> QED
  BY <1>2, <1>3, <1>5 DEF KeptLines

-----------------------------------------------------------------------------
(* Nothing is lost: every reachable document *)

\* A line is among the edges of a page when it is near an end of it.
LEMMA EdgesAreOnEdge ==
  ASSUME PagesTypes, NEW p \in DOMAIN pages, NEW l
  PROVE  l \in Edges(pages[p]) <=> OnEdge(l, p)
<1>1. PICK page \in Seq(Shapes) : page = pages[p]
  BY DEF PagesTypes
<1>2. PICK n \in Nat : n = Len(page) /\ DOMAIN page = 1 .. n
  OBVIOUS
<1>3. PICK e \in Nat : e = EdgeLines
  BY TextAssumption
<1>4. ASSUME NEW i \in 1 .. n
      PROVE  (i <= e \/ i + e > n) <=> (i - 1 < e \/ n - i < e)
  OBVIOUS
<1> QED
  BY <1>1, <1>2, <1>3, <1>4 DEF Edges, OnEdge

\* Half of the pages, with and without rounding.
LEMMA SharedIsRepeated ==
  ASSUME PagesTypes, NEW l
  PROVE  Shared(l) <=> Repeated(l)
<1>1. PICK n \in Nat : n = Len(pages) /\ DOMAIN pages = 1 .. n
  BY DEF PagesTypes
<1>2. PICK S : S = {p \in DOMAIN pages : OnEdge(l, p)}
  OBVIOUS
<1>3. S = {p \in DOMAIN pages : l \in Edges(pages[p])}
  BY <1>2, EdgesAreOnEdge
<1>4. IsFiniteSet(1 .. n) /\ S \in SUBSET (1 .. n)
  BY <1>1, <1>2, FS_Interval
<1>5. PICK k \in Nat : k = Cardinality(S)
  <2>1. IsFiniteSet(S)
    BY <1>4, FS_Subset
  <2> QED
    BY <2>1, FS_CardinalityType
<1>6. 2 * k >= n <=> k >= (n + 1) \div 2
  OBVIOUS
<1>7. Shared(l) <=> n >= 3 /\ 2 * k >= n
  BY <1>1, <1>2, <1>5 DEF Shared
<1>8. Repeated(l) <=> n >= 3 /\ k >= (n + 1) \div 2
  BY <1>1, <1>3, <1>5 DEF Repeated, PagesWith
<1> QED
  BY <1>6, <1>7, <1>8

\* The lines that the property speaks of.
TheLines ==
    Filter(toLines(Text), LAMBDA l : ~Shared(l.line) /\ l.line.kind # "page number")

\* The two conditions agree.
LEMMA TheLinesAreKept ==
  ASSUME PagesTypes
  PROVE  TheLines = KeptLines
<1>1. PICK all \in Seq(Placed) : all = toLines(Text)
  <2>1. Text \in Seq(Seq(Here))
    BY TextTypes
  <2>2. toLines(Text) \in Seq(Here)
    BY <2>1, FlattenTypes DEF toLines
  <2>3. Seq(Here) \subseteq Seq(Placed)
    <3>1. Here \subseteq Placed
      BY DEF Here
    <3> QED
      BY <3>1
  <2> QED
    BY <2>2, <2>3
<1>2. ASSUME NEW n \in DOMAIN all
      PROVE  (~Shared(all[n].line) /\ all[n].line.kind # "page number")
             <=> all[n] \in Kept
  <2>1. all[n] \in Placed
    OBVIOUS
  <2>2. Shared(all[n].line) <=> Repeated(all[n].line)
    BY SharedIsRepeated
  <2> QED
    BY <2>1, <2>2, Zenon DEF Kept
<1>3. [n \in DOMAIN all |->
         IF ~Shared(all[n].line) /\ all[n].line.kind # "page number"
         THEN <<all[n]>> ELSE <<>>]
      = [n \in DOMAIN all |-> IF all[n] \in Kept THEN <<all[n]>> ELSE <<>>]
  BY <1>2, Zenon
<1> QED
  BY <1>1, <1>3 DEF TheLines, KeptLines, Filter

\* The property, in the words of the lemmas.
NothingLost ==
    Extractable(stripBoilerplate) =>
        News(ChunkWords(Chunks)) = AllExpected(HeadingsOf(Sections(TheLines)), BodyOf(TheLines))

\* The pipeline, from the pages to the chunks.
LEMMA NothingLostPages ==
  ASSUME PagesTypes
  PROVE  NothingLost
<1> SUFFICES ASSUME Extractable(stripBoilerplate)
             PROVE  News(ChunkWords(Chunks)) = AllExpected(HeadingsOf(Sections(TheLines)), BodyOf(TheLines))
  BY DEF NothingLost
<1>1. PICK lines \in Seq(Here) : lines = TheLines /\ lines = toLines(stripBoilerplate) /\ Distinct(lines)
  BY KeptTypes, TheLinesAreKept, StrippedLines
<1>2. Chunks = chunkDocument(parseStructure(lines))
  BY <1>1 DEF Chunks
<1>3. InPlaces(Here)
  BY HereInPlaces
<1>4. Covers(ChunkWords(chunkDocument(parseStructure(lines))), AllExpected(HeadingsOf(Sections(lines)), BodyOf(lines)))
  BY <1>1, <1>3, LinesCovered
<1> QED
  BY <1>1, <1>2, <1>4 DEF Covers

\* The property is about the operators above.
LEMMA NothingLostMeans ==
  ASSUME PagesTypes, NothingLost
  PROVE  NothingIsLost
<1> SUFFICES ASSUME Extractable(stripBoilerplate) PROVE NothingIsLost
  BY DEF NothingIsLost
<1>1. PICK lines : lines = TheLines
  OBVIOUS
<1>2. PICK chunks : chunks = Chunks
  OBVIOUS
<1>3. PICK H : H = HeadingsOf(Sections(lines))
  OBVIOUS
<1>4. PICK body : body = BodyOf(lines)
  OBVIOUS
<1>5. News(ChunkWords(chunks)) = AllExpected(H, body)
  BY <1>1, <1>2, <1>3, <1>4 DEF NothingLost
<1> DEFINE Words(n) == LET words == FlattenSeq(chunks[n].pieces)
                       IN  [w \in DOMAIN words |-> <<chunks[n].section, words[w]>>]
           Fresh(n) == IF n = 1 THEN Words(n)
                       ELSE Filter(Words(n), LAMBDA w : w \notin ToSet(Words(n - 1)))
           Due(n) == LET section == Cardinality({m \in 1 .. n : body[m] \in H})
                         words == WholeLine(body[n])
                     IN  IF body[n] \in H THEN <<>>
                         ELSE [w \in DOMAIN words |-> <<section, words[w]>>]
<1>6. \A n : Words(n) = Tag(chunks[n].section, FlattenSeq(chunks[n].pieces))
  BY DEF Tag
<1>7. FlattenSeq([n \in DOMAIN body |-> Due(n)]) = AllExpected(H, body)
  BY DEF AllExpected, LineExpected, Before, Tag
<1>8. PICK cw : cw = ChunkWords(chunks)
  OBVIOUS
<1>9. DOMAIN cw = DOMAIN chunks /\ \A n \in DOMAIN chunks : cw[n] = Words(n)
  BY <1>6, <1>8 DEF ChunkWords
<1>10. PICK m \in Nat : DOMAIN chunks = 1 .. m
  BY <1>2, ChunksTypes
<1>11. ASSUME NEW n \in DOMAIN chunks PROVE Fresh(n) = New(cw, n)
  <2>1. CASE n = 1
    BY <1>9, <2>1 DEF New
  <2>2. CASE n # 1
    <3>1. n - 1 \in DOMAIN chunks
      BY <1>10, <2>2
    <3>2. cw[n] = Words(n) /\ cw[n - 1] = Words(n - 1)
      BY <1>9, <3>1
    <3> HIDE DEF Words
    <3>3. Filter(Words(n), LAMBDA w : w \notin ToSet(Words(n - 1))) = Without(Words(n), ToSet(Words(n - 1)))
      BY DEF Filter, Without
    <3> QED
      BY <2>2, <3>2, <3>3 DEF New
  <2> QED
    BY <2>1, <2>2
<1>12. FlattenSeq([n \in DOMAIN chunks |-> Fresh(n)]) = News(cw)
  <2> HIDE DEF Fresh
  <2>1. [n \in DOMAIN chunks |-> Fresh(n)] = [n \in DOMAIN cw |-> New(cw, n)]
    BY <1>9, <1>11
  <2> QED
    BY <2>1 DEF News
<1>13. FlattenSeq([n \in DOMAIN chunks |-> Fresh(n)]) = FlattenSeq([n \in DOMAIN body |-> Due(n)])
  BY <1>5, <1>7, <1>8, <1>12
<1> QED
  BY <1>1, <1>2, <1>3, <1>4, <1>13, ZenonT(60) DEF NothingIsLost, TheLines, HeadingsOf, BodyOf, Filter

\* Pages of any number and length: nothing is missing from the chunks but page
\* numbers, headings, the title and what half of the pages have on an edge, and
\* all the rest is in order and under its heading.
THEOREM NothingIsEverLost == TextSpec => []NothingIsLost
<1>1. PagesTypes => NothingIsLost
  BY NothingLostPages, NothingLostMeans
<1> QED
  BY <1>1, PagesAlways, PTL

=============================================================================
