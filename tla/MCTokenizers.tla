--------------------------- MODULE MCTokenizers ---------------------------
(***************************************************************************)
(* Files of up to four pieces.  A piece is a word, a character of two      *)
(* bytes or half of one, a space, the end of a line, or markup.            *)
(***************************************************************************)
EXTENDS Tokenizers

Files(pieces, n) == {<<<<FlattenSeq(p)>>>> : p \in SeqOf(pieces, n) \ {<<>>}}

TxtPieces == {<<"a", "a">>, <<"-">>, <<"N">>, <<" ">>, <<"L", "C">>, <<"K", "C">>, <<"9", "e", "9">>, <<"n", "a", "n">>,
              <<"B">>}
TexPieces == {<<"a", "a">>, <<"\\", "m">>, <<" ">>, <<"{">>, <<"}">>, <<"]">>, <<"L">>, <<"$">>}
XmlPieces == {<<"<", "m", ">">>, <<" ", "a", "a", " ">>, <<"a", "a">>, <<"L", "C">>, <<"-">>, <<"<">>, <<"U", "C">>}

\* The chunks of an archive: a whole element, the parts of one, and the parts of a tag.
\* A tag that is cut in three is in an archive of its own entry.
Chunks == {<<"<", "m", ">", " ", "a", "a", " ", "<">>, <<"m", ">", " ", "a">>, <<"a", " ", "<">>,
           <<">", " ", "<", "m">>}
Inside == {<<"m", ">", "a">>, <<"m", "m">>, <<"a", "<", "m">>}
Archives == SeqOf(SeqOf(Chunks, 2), 2) \cup {<<e>> : e \in SeqOf(Inside, 3)}

\* The pages of a PDF file: text that is drawn with a font, with numbers below it or
\* not, paths, keywords with too few operands, and fonts that cannot be used.
Begun     == <<Keyword("BT"), Name("F"), Number, Keyword("Tf")>>
PdfPieces == {
  <<Text(<<"a", "a">>), Keyword("Tj")>>, <<Text(<<"a", "-">>), Keyword("Tj")>>,
  <<Number, Number, Text(<<"a", "L", "C">>), Keyword("\"")>>,
  <<Array(<<<<"a">>, <<"a">>, <<" ">>, <<"a", "L", "C">>>>), Keyword("TJ")>>,
  <<Number, Number, Keyword("Td")>>, <<Number, Number, Keyword("l")>>,
  <<Keyword("Tj")>>, <<Number, Keyword("Tf")>>, <<Name("E"), Number, Keyword("Tf")>>,
  <<Name("missing"), Number, Keyword("Tf")>>, Begun}
Pages     == {Begun \o FlattenSeq(p) : p \in SeqOf(PdfPieces, 3)}
               \cup {FlattenSeq(p) : p \in SeqOf(PdfPieces, 2)}
Short     == {Begun \o FlattenSeq(p) : p \in SeqOf(PdfPieces, 1)}
Documents == {<<p>> : p \in Pages} \cup (Short \X Short)
MCFonts    == {"F", "E"}
MCReadable == {"F"}

MCFormats == {"txt", "tex", "xml", "zip", "pdf"}
MCInputs == [f \in MCFormats |->
  CASE f = "txt" -> Files(TxtPieces, 4)
    [] f = "tex" -> Files(TexPieces, 4)
    [] f = "xml" -> Files(XmlPieces, 4)
    [] f = "zip" -> Archives
    [] f = "pdf" -> Documents]

MCXml     == {"xml"}
MCStems   == {<<"n", "-", "n">>}

=============================================================================
