-------------------------------- MODULE Pdf --------------------------------
(***************************************************************************)
(* The text of a PDF document: extract_text() and the loop that joins      *)
(* hyphenated words, of daemon/src/pdf_tokenizer.cpp, as operators.        *)
(*                                                                         *)
(* A document is a sequence of pages and a page the sequence of tokens     *)
(* that PoDoFo's tokenizer reads: keywords, and operands for a stack.      *)
(* What a font does to a text is left out, but for fonts that have no      *)
(* encoding or cannot be created; so are the numbers within an array.      *)
(***************************************************************************)
EXTENDS Integers, SequencesExt

CONSTANTS
  MaxPdf,   \* g_max_byte_count
  Fonts,    \* the names of the fonts among the resources of a page
  Readable  \* those of them with which a text can be read

ASSUME PdfAssumption == MaxPdf \in Nat /\ Readable \subseteq Fonts /\ "none" \notin Fonts

Token(kind, name, text, parts) ==
  [kind |-> kind, name |-> name, text |-> text, parts |-> parts]
Keyword(k)   == Token("keyword", k, <<>>, <<>>)
Name(n)      == Token("name", n, <<"m", "m">>, <<>>)
Number       == Token("number", "", <<"m", "m">>, <<>>)
Text(s)      == Token("string", "", s, <<>>)
Array(parts) == Token("array", "", <<"m", "m">>, parts)
Tokens       == [kind : {"keyword", "name", "number", "string", "array"}, name : STRING,
                 text : Seq(STRING), parts : Seq(Seq(STRING))]

\* FoldLeft() of SequencesExt, as a recursive function over the prefixes of s.
Fold(Op(_, _), base, s) ==
  LET f[n \in 0 .. Len(s)] == IF n = 0 THEN base ELSE Op(f[n - 1], s[n])
  IN f[Len(s)]

\* The parts are joined up to each that is a blank; what is empty is dropped.
Close(g) == IF g.open = <<>> THEN g ELSE [words |-> Append(g.words, g.open), open |-> <<>>]
Gather(parts, blanks) ==
  Close(Fold(LAMBDA g, p : IF p \in blanks THEN Close(g) ELSE [g EXCEPT !.open = @ \o p],
             [words |-> <<>>, open |-> <<>>], parts)).words

-----------------------------------------------------------------------------
(* extract_text().  The reader holds its local variables; it is "on", or has *)
(* returned ("over"), or an operand of another type has thrown.              *)

NewReader == [status |-> "on", stack |-> <<>>, isText |-> FALSE, font |-> "none",
              found |-> <<>>, size |-> 0]

Top(r)         == Last(r.stack)
Pop(r, n)      == [r EXCEPT !.stack = SubSeq(@, 1, Len(@) - n)]
Clear(r)       == [r EXCEPT !.stack = <<>>]
Over(r)        == [r EXCEPT !.status = "over"]
Thrown(r)      == [r EXCEPT !.status = "thrown"]
Utf8(r, s)     == IF r.font \in Readable THEN s ELSE <<>>
Keep(r, found) == [r EXCEPT !.found = @ \o found, !.size = @ + Len(FlattenSeq(found))]

\* "Tf" leaves the name of the font on the stack.
SetFont(r) ==
  IF Len(r.stack) < 2 THEN [r EXCEPT !.font = "none"]
  ELSE LET operand == r.stack[Len(r.stack) - 1]
       IN IF operand.kind # "name" THEN Thrown(r)
          ELSE IF operand.name \in Fonts THEN [Pop(r, 1) EXCEPT !.font = operand.name]
          ELSE Over(r)

\* "Tj", "'" and "\"" show the text on top of their operands.
Show(r, operands) ==
  LET s == Utf8(r, Top(r).text)
  IN IF Top(r).kind = "string"
       THEN Pop(Keep(r, IF s \in {<<>>, <<" ">>} THEN <<>> ELSE <<s>>), operands)
       ELSE Thrown(r)

\* The texts of an array make one word up to each that is a space.  "TJ" has one
\* operand, but the code asks for three (pdf_tokenizer.cpp:171).
ShowArray(r) ==
  IF Len(r.stack) < 3 THEN r
  ELSE IF Top(r).kind # "array" THEN Thrown(r)
  ELSE LET texts == [i \in DOMAIN Top(r).parts |-> Utf8(r, Top(r).parts[i])]
       IN Pop(Keep(r, Gather(texts, {<<" ">>})), 1)

\* A keyword.  "ET" does not end the text; what else takes operands leaves them.
Obey(r, k) ==
  CASE k \in {"m", "l"}               -> Clear(r)
    [] k = "BT"                       -> [r EXCEPT !.isText = TRUE]
    [] r.isText /\ k = "Tf"           -> SetFont(r)
    [] r.isText /\ k \in {"Tj", "'"}  -> IF r.stack = <<>> THEN r ELSE Show(r, 1)
    [] r.isText /\ k = "\""           -> IF Len(r.stack) < 3 THEN Clear(r) ELSE Show(r, 3)
    [] r.isText /\ k = "TJ"           -> ShowArray(r)
    [] OTHER                          -> r

ReadToken(r, token) ==
  IF r.status # "on" THEN r
  ELSE IF r.size > MaxPdf THEN Over(r)
  ELSE IF token.kind = "keyword" THEN Obey(r, token.name)
  ELSE [r EXCEPT !.stack = Append(@, token)]

ReadPage(r, page) ==
  Fold(ReadToken, [r EXCEPT !.stack = <<>>, !.isText = FALSE, !.font = "none"], page)

ExtractText(document) == Fold(ReadPage, NewReader, document)

-----------------------------------------------------------------------------
(* PdfTokenizer::extract(): a hyphen joins a word to the one after it.  The  *)
(* loop erases that one and goes on from its iterator, or takes it from      *)
(* behind the end if there is none: both are undefined.                      *)

Hyphenated(w) == Len(w) > 1 /\ Last(w) = "-"

\* The words when the loop goes on behind a joined word, and finds an empty one at the
\* end; a joined word is not looked at again.
JoinHyphens(found) ==
  Fold(LAMBDA done, w :
         IF done.open
           THEN [words |-> Front(done.words) \o <<Last(done.words) \o w>>, open |-> FALSE]
           ELSE [words |-> Append(done.words, IF Hyphenated(w) THEN Front(w) ELSE w),
                 open  |-> Hyphenated(w)],
       [words |-> <<>>, open |-> FALSE], found).words

Undefined(found) == \E i \in DOMAIN found : Hyphenated(found[i])

OneLine(found) == FlattenSeq([i \in DOMAIN found |-> <<" ">> \o found[i]])

-----------------------------------------------------------------------------
(* What a page shows, by the places of its tokens *)

Is(page, i, k) == i \in DOMAIN page /\ page[i].kind = "keyword" /\ page[i].name = k

\* At i a text has begun, and the last font that has been set can be read.
Draws(page, i) ==
  \E b \in 1 .. i - 1 : \E f \in b + 3 .. i - 1 :
    /\ Is(page, b, "BT") /\ Is(page, f, "Tf") /\ page[f - 1].kind # "keyword"
    /\ page[f - 2] \in {Name(n) : n \in Readable}
    /\ \A k \in f + 1 .. i - 1 : ~Is(page, k, "Tf")

\* Two numbers lie below what is on the stack at i: an operator that is not known, say
\* "Td", has left them there.
Below(page, i) ==
  \E k \in 3 .. i - 1 :
    /\ Is(page, k, "Td") /\ page[k - 1] = Number /\ page[k - 2] = Number
    /\ \A j \in k .. i : \A c \in {"m", "l", "\""} : ~Is(page, j, c)

\* The longest runs of texts of an array without a space.
Runs(parts) ==
  LET Blank(k) == k \notin DOMAIN parts \/ parts[k] = <<" ">>
      runs     == {r \in (DOMAIN parts) \X (DOMAIN parts) :
                     /\ r[1] <= r[2] /\ \A k \in r[1] .. r[2] : ~Blank(k)
                     /\ Blank(r[1] - 1) /\ Blank(r[2] + 1)}
  IN {FlattenSeq(SubSeq(parts, r[1], r[2])) : r \in runs}

ShownAt(page, i) ==
  LET token == page[i]
      operands == \A k \in {i - 1, i - 2} : k \in DOMAIN page /\ page[k].kind # "keyword"
      drawn    == /\ Draws(page, i)
                  /\ \/ token.kind = "string" /\ Is(page, i + 1, "Tj")
                     \/ token.kind = "string" /\ Is(page, i + 1, "\"") /\ operands
                     \/ token.kind = "array" /\ Is(page, i + 1, "TJ") /\ Below(page, i)
  IN CASE drawn /\ token.kind = "string" -> {token.text}
       [] drawn /\ token.kind = "array"  -> Runs(token.parts)
       [] ~drawn                         -> {}

\* The word that a hyphenated text at i makes with the text shown next.
JoinedAt(page, i) ==
  {Front(page[i].text) \o page[j].text :
     j \in {j \in {i + 2} \cap DOMAIN page :
              /\ page[i].kind = "string" /\ Hyphenated(page[i].text)
              /\ page[j].kind = "string" /\ page[j].text \notin {<<>>, <<" ">>}
              /\ Is(page, i + 1, "Tj") /\ Is(page, j + 1, "Tj") /\ Draws(page, i)}}

\* The words that a document shows: if no text ends with a hyphen all the texts, and if
\* one does, the word that it makes with the next; unless a font is missing.
ShownBy(document) ==
  LET places  == UNION {{<<p, i>> : i \in DOMAIN document[p]} : p \in DOMAIN document}
      At(q)   == document[q[1]][q[2]]
      hyphens == {q \in places : \E s \in {At(q).text} \cup ToSet(At(q).parts) :
                                   s # <<>> /\ Last(s) = "-"}
      missing == {q \in places : At(q).kind = "name" /\ At(q).name \notin Fonts}
  IN UNION {IF hyphens = {} THEN ShownAt(document[q[1]], q[2])
            ELSE IF hyphens = {q} THEN JoinedAt(document[q[1]], q[2]) ELSE {} :
              q \in IF missing = {} THEN places ELSE {}}

=============================================================================
