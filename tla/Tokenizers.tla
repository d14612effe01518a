---------------------------- MODULE Tokenizers ----------------------------
(***************************************************************************)
(* How the words of a file are found: FileProcessor::process with the      *)
(* tokenizers of plain text, TeX, XML and zipped XML (daemon/src/          *)
(* file_processor.cpp, txt_, tex_, xml_, zipxml_ and pdf_tokenizer.cpp),   *)
(* XMLParser and tokenize() (core/vca/string.cpp), read_text() (core/vca/  *)
(* filesystem.cpp) and ZipInflater (core/vca/zip_inflater.cpp).            *)
(*                                                                         *)
(* A file is a sequence of bytes; a character outside ASCII is a lead byte *)
(* and one continuation "C".  Entities and upper case are left out.        *)
(* A zip archive is the sequence of its entries that match, each of which  *)
(* the library inflates chunk by chunk.  A PDF file is the sequence of its *)
(* pages (module Pdf).                                                     *)
(***************************************************************************)
EXTENDS Pdf, FiniteSets

CONSTANTS
  Formats,   \* the extensions, a subset of {"txt", "tex", "xml", "zip", "pdf"}
  Inputs,    \* for each format the files, each a sequence of entries
  Stems,     \* the names a file may have, without the extension
  MaxRead,   \* the limit of read_text()
  MaxText,   \* g_max_byte_count
  MaxWord,   \* g_max_word_length
  Longest    \* no chunk of an archive and no text of a PDF file is longer

ASSUME FormatAssumption == Formats \subseteq {"txt", "tex", "xml", "zip", "pdf"}
ASSUME LimitAssumption  == {MaxRead, MaxText, MaxWord, Longest} \subseteq Nat

\* A file that is not an archive is the one chunk of one entry.
ASSUME InputAssumption ==
  \A f \in Formats : \A file \in Inputs[f] :
    IF f = "pdf"
    THEN /\ file \in Seq(Seq(Tokens))
         /\ \A p \in DOMAIN file : \A t \in DOMAIN file[p] :
              Len(file[p][t].text) <= Longest /\ Len(FlattenSeq(file[p][t].parts)) <= Longest
    ELSE /\ file \in Seq(Seq(Seq(STRING)))
         /\ f # "zip" => Len(file) = 1 /\ Len(file[1]) = 1
         /\ f = "zip" => \A e \in DOMAIN file : \A c \in DOMAIN file[e] : Len(file[e][c]) <= Longest

VARIABLES
  format, input, stem,  \* the file
  stage,     \* "read", "scan", "tokenize", and the ends: "done", "unread" if the
             \* file cannot be read, "thrown" if process() throws, "crashed" after
             \* undefined behaviour
  data,      \* the bytes read so far
  entry,     \* zip: the entry that is inflated
  chunk,     \* zip: how many chunks of it have arrived
  index,     \* XMLParser::m_index, or the iterator of the TeX loop
  isText,    \* is_text of the TeX loop
  size,      \* byte_count of xml_tag_content() and of extract_text()
  text,      \* the text gathered: characters, but bytes for TeX
  words,     \* the result of process()
  rejected   \* history: the texts between two tags that were not convertible

given == <<format, input, stem>>
read == <<data, entry, chunk>>
scan == <<index, isText, size, text>>
vars == <<given, stage, read, scan, words, rejected>>

-----------------------------------------------------------------------------
(* Text *)

Leads    == {"L", "K", "U"}                     \* a letter, a CJK character, a space
Brackets == {"{", "}", "[", "]"}
Special  == Brackets \cup {"-", "<", ">", "$", "\\"}   \* special_chars()
Trimmed  == {"U"}                               \* the spaces trim() knows

\* narrow_to_wide() throws unless every lead has its continuation and vice
\* versa; it leaves one character of both.
Convertible(s) ==
  \A i \in DOMAIN s :
    /\ s[i] \in Leads => i < Len(s) /\ s[i + 1] = "C"
    /\ s[i] = "C" => i > 1 /\ s[i - 1] \in Leads
Wide(s) == FlattenSeq([i \in DOMAIN s |-> IF s[i] = "C" THEN <<>> ELSE <<s[i]>>])

\* split(): String{1, delimiter} is a list of two characters, so the text is
\* split at U+0001 (here "B") as well.
Split(s, delimiter) == Gather([i \in DOMAIN s |-> <<s[i]>>], {<<"B">>, <<delimiter>>})

Trim(s) ==
  LET kept == {i \in DOMAIN s : s[i] \notin Trimmed}
  IN IF kept = {} THEN <<>>
     ELSE SubSeq(s, CHOOSE i \in kept : \A j \in kept : i <= j,
                    CHOOSE i \in kept : \A j \in kept : j <= i)

\* Mutation: no space between one line and the next.
JoinedBare(line) == IF Last(line) = "-" THEN Front(line) ELSE line

\* The end of a line: a hyphen goes, anything else is followed by a space.
Joined(line) == IF Last(line) = "-" THEN Front(line) ELSE line \o <<" ">>

JoinLines(lines) == FlattenSeq([n \in DOMAIN lines |-> Joined(lines[n])])

Blanked(s, set) == [i \in DOMAIN s |-> IF s[i] \in set THEN " " ELSE s[i]]

\* is_numeric() is double_ of Boost Spirit, which also takes an exponent and the numbers
\* that are spelled.  (Signs, the point and brackets are special characters.)
Spelled   == {<<"n", "a", "n">>, <<"i", "n", "f">>, <<"i", "n", "f", "i", "n", "i", "t", "y">>}
Digits(w) == w # <<>> /\ \A i \in DOMAIN w : w[i] = "9"
IsNumeric(w) ==
  \/ w \in Spelled \/ Digits(w)
  \/ \E k \in 2..Len(w) - 1 :
       w[k] = "e" /\ Digits(SubSeq(w, 1, k - 1)) /\ Digits(SubSeq(w, k + 1, Len(w)))

\* tokenize(): String{1, c} is two characters again, U+0001 and c.
Tokenize(line) ==
  LET cjk    == ToSet(line) \cap {"K"}
      tokens == ToSet(Split(Blanked(line, Special \cup {"N", "K"}), " "))
  IN {<<"B", c>> : c \in cjk}
     \cup {w \in {Trim(t) : t \in tokens} : Len(w) \in 2..MaxWord /\ ~IsNumeric(w)}

NameWords == ToSet(Split(Blanked(stem, Special), " ")) \cup {<<format>>}

-----------------------------------------------------------------------------
Init ==
  /\ format \in Formats /\ input \in Inputs[format] /\ stem \in Stems
  /\ stage = "read"
  /\ data = <<>> /\ entry = 1 /\ chunk = 0
  /\ index = 1 /\ isText = TRUE /\ size = 0 /\ text = <<>>
  /\ words = {} /\ rejected = {}

\* read_text(): at most MaxRead bytes, wherever that cuts the text.
ReadText ==
  /\ stage = "read" /\ format \notin {"zip", "pdf"}
  /\ LET content == input[1][1]
     IN data' = SubSeq(content, 1, IF Len(content) < MaxRead THEN Len(content) ELSE MaxRead)
  /\ stage' = "scan"
  /\ UNCHANGED <<given, entry, chunk, scan, words, rejected>>

\* The file, the archive or one of its entries cannot be opened: the tokenizer
\* returns {}, whatever it has read.
CannotRead ==
  /\ stage = "read" /\ format # "pdf" /\ chunk = 0
  /\ stage' = "unread"
  /\ words' = NameWords
  /\ UNCHANGED <<given, read, scan, rejected>>

\* Mutation: on_extract() does not look at the limit.
ExtractAll ==
  /\ stage = "read" /\ format = "zip"
  /\ entry <= Len(input) /\ chunk < Len(input[entry])
  /\ data' = input[entry][chunk + 1] \o data
  /\ IF chunk + 1 = Len(input[entry])
     THEN entry' = entry + 1 /\ chunk' = 0
     ELSE chunk' = chunk + 1 /\ UNCHANGED entry
  /\ UNCHANGED <<given, stage, scan, words, rejected>>

\* on_extract(): each chunk goes before what there is; 0 stops the entry.
Extract ==
  /\ stage = "read" /\ format = "zip"
  /\ entry <= Len(input) /\ (chunk = 0 => Len(data) <= MaxText)
  /\ chunk < Len(input[entry])
  /\ data' = input[entry][chunk + 1] \o data
  /\ IF Len(data') >= MaxText \/ chunk + 1 = Len(input[entry])
     THEN entry' = entry + 1 /\ chunk' = 0
     ELSE chunk' = chunk + 1 /\ UNCHANGED entry
  /\ UNCHANGED <<given, stage, scan, words, rejected>>

\* An entry without bytes: on_extract() is not called.
ExtractNothing ==
  /\ stage = "read" /\ format = "zip"
  /\ entry <= Len(input) /\ chunk = 0 /\ Len(data) <= MaxText
  /\ input[entry] = <<>>
  /\ entry' = entry + 1
  /\ UNCHANGED <<given, stage, data, chunk, scan, words, rejected>>

\* ZipInflater::Impl leaves its loop.
Inflated ==
  /\ stage = "read" /\ format = "zip" /\ chunk = 0
  /\ entry > Len(input) \/ Len(data) > MaxText
  /\ stage' = "scan"
  /\ UNCHANGED <<given, read, scan, words, rejected>>

-----------------------------------------------------------------------------
\* TxtTokenizer::extract(): a text that is not convertible has no words.
TxtLines ==
  /\ stage = "scan" /\ format = "txt"
  /\ \E wide \in {Wide(data)} :   \* evaluated once
       text' = IF Convertible(data) THEN JoinLines(Split(wide, "N")) ELSE <<>>
  /\ stage' = "tokenize"
  /\ UNCHANGED <<given, read, index, isText, size, words, rejected>>

\* TexTokenizer::extract(), one turn of the loop.
TexEnds   == {" ", "{", "]"}
TexChar ==
  /\ stage = "scan" /\ format = "tex" /\ index <= Len(data)
  /\ LET c == data[index]
     IN /\ isText' = IF isText THEN c # "\\" ELSE c \in TexEnds
        /\ text'   = IF ~isText \/ c \in {"\\", "$"} THEN text
                     ELSE Append(text, IF c \in Brackets THEN " " ELSE c)
  /\ index' = index + 1
  /\ UNCHANGED <<given, stage, read, size, words, rejected>>

\* The conversion is outside of any try: process() throws.
TexEnd ==
  /\ stage = "scan" /\ format = "tex" /\ index > Len(data)
  /\ stage' = IF Convertible(text) THEN "tokenize" ELSE "thrown"
  /\ text' = Wide(text)
  /\ UNCHANGED <<given, read, index, isText, size, words, rejected>>

-----------------------------------------------------------------------------
\* XMLParser::end(): the last byte is never looked at.
AtEnd == index >= Len(data)

\* XMLParser::next(): it stops at the first "<" that follows a ">"; the text
\* starts after the last ">" before that.
Stops ==
  {i \in index..Len(data) - 1 :
     data[i] = "<" /\ \E j \in index..i - 1 : data[j] = ">"}
NextStop == CHOOSE i \in Stops : \A j \in Stops : i <= j
\* Mutation: the text starts after the first bracket, not after the last ">".
TextStartOnce(stop) == IF data[index] = "<" THEN index + 1 ELSE index
TextStart(stop) ==
  1 + CHOOSE i \in index..stop :
        data[i] = ">" /\ \A j \in i + 1..stop : data[j] # ">"

\* end_index is the last byte of the text, but substr() takes one byte less.
TagText(start, stop) == SubSeq(data, start, stop - 2)

\* One turn of the loop of xml_tag_content() that finds a text.
Take(line) ==
  IF line = <<>> THEN UNCHANGED <<size, text>>
  ELSE size' = size + 4 * Len(line) /\ text' = text \o Joined(line)

\* Mutation: the search of the next text starts at the ">" of the last one.
XmlTextAgain ==
  /\ stage = "scan" /\ format \in {"xml", "zip"} /\ ~AtEnd /\ size < MaxText
  /\ Stops # {}
  /\ LET start == TextStart(NextStop)
         bytes == TagText(start, NextStop)
     IN /\ index' = start - 1
        /\ IF Convertible(bytes)
           THEN Take(Trim(Wide(bytes))) /\ UNCHANGED rejected
           ELSE UNCHANGED <<size, text, rejected>>
  /\ UNCHANGED <<given, stage, read, isText, words>>

\* A call of next() that finds a text.
XmlText ==
  /\ stage = "scan" /\ format \in {"xml", "zip"} /\ ~AtEnd /\ size < MaxText
  /\ Stops # {}
  /\ LET stop  == NextStop
         start == TextStart(stop)
         bytes == TagText(start, stop)
     IN /\ index' = stop
        /\ IF Convertible(bytes)
           THEN Take(Trim(Wide(bytes))) /\ UNCHANGED rejected
           ELSE /\ rejected' = rejected \cup {SubSeq(data, start, stop - 1)}
                /\ UNCHANGED <<size, text>>
  /\ UNCHANGED <<given, stage, read, isText, words>>

\* The turn that finds none: next() goes to the end.
XmlRest ==
  /\ stage = "scan" /\ format \in {"xml", "zip"} /\ ~AtEnd /\ size < MaxText
  /\ Stops = {}
  /\ index' = Len(data)
  /\ UNCHANGED <<given, stage, read, isText, size, text, words, rejected>>

XmlEnd ==
  /\ stage = "scan" /\ format \in {"xml", "zip"}
  /\ AtEnd \/ size >= MaxText
  /\ stage' = "tokenize"
  /\ UNCHANGED <<given, read, scan, words, rejected>>

-----------------------------------------------------------------------------
\* PdfTokenizer::extract(): the document may be damaged.
PdfText ==
  /\ stage = "read" /\ format = "pdf"
  /\ \/ /\ stage' = "thrown"
        /\ UNCHANGED <<size, text>>
     \/ LET r == ExtractText(input)
        IN /\ r.status # "thrown"
           /\ size' = r.size
           /\ text' = Wide(OneLine(JoinHyphens(r.found)))
           /\ stage' \in {"tokenize"} \cup (IF Undefined(r.found) THEN {"crashed"} ELSE {})
  /\ UNCHANGED <<given, read, index, isText, words, rejected>>

-----------------------------------------------------------------------------
\* tokenize() and the end of FileProcessor::process().
Process ==
  /\ stage = "tokenize"
  /\ words' = NameWords \cup Tokenize(text)
  /\ stage' = "done"
  /\ UNCHANGED <<given, read, scan, rejected>>

Next ==
  \/ ReadText \/ CannotRead \/ Extract \/ ExtractNothing \/ Inflated
  \/ TxtLines \/ TexChar \/ TexEnd
  \/ XmlText \/ XmlRest \/ XmlEnd
  \/ PdfText
  \/ Process

Spec     == Init /\ [][Next]_vars
FairSpec == Spec /\ WF_vars(Next)

-----------------------------------------------------------------------------
\* The variables keep their types, and the inflater stops at its limit: it
\* holds less than the limit and one chunk, or the limit and one chunk more
\* when an entry ended exactly there (zip_inflater.cpp:29, 97).
TypeOK ==
  /\ stage \in {"read", "scan", "tokenize", "done", "unread", "thrown", "crashed"}
  /\ isText \in BOOLEAN
  /\ index \in 1..Len(data) + 1
  /\ format # "pdf" => size \in 0..(MaxText + 4 * Len(data)) /\ Len(text) <= 2 * Len(data)
  /\ format = "pdf" => size \in 0..(MaxPdf + Longest) /\ Len(text) <= 2 * size
  /\ format # "zip" => Len(data) <= MaxRead
  /\ format = "zip" => Len(data) <= MaxText + Longest
  /\ stage = "thrown" => format \in {"tex", "pdf"}

\* What has been read, in the pieces in which it arrived.
Pieces == IF format = "zip" THEN UNION {ToSet(input[e]) : e \in DOMAIN input} ELSE {data}

Letter(c) == c \in {"a", "e", "f", "i", "m", "n", "t", "y", "L", "C"}

\* No limit has cut anything but the end of a file that is not an archive.
Within ==
  /\ format \in {"xml", "zip"} => size < MaxText
  /\ format = "zip" => Len(data) < MaxText

\* The byte at i is taken for a part of a TeX command: a backslash comes before
\* it, and nothing that ends the command in between.
InCommand(s, i) ==
  \E j \in 1..i : s[j] = "\\" /\ \A k \in j + 1..i - 1 : s[k] \notin TexEnds

\* A ">" comes after the byte at i, and no "<" in between.
InTag(s, i) ==
  \E k \in i + 1..Len(s) : s[k] = ">" /\ \A n \in i + 1..k - 1 : s[n] # "<"

\* A "<" comes before it, and no ">" in between.
Opened(s, i) ==
  \E k \in 1..i - 1 : s[k] = "<" /\ \A n \in k + 1..i - 1 : s[n] # ">"

\* A chunk that begins and ends within one text or one tag.
Inner(s) == ToSet(s) \cap {"<", ">"} = {}

\* "m" stands for the letters of markup, and for no letter of a text.  A tag may be cut
\* by chunks anywhere; it holds no bracket between its first and its last character
\* (no ">" in a value or a comment).
ASSUME MarkupAssumption ==
  \A f \in Formats : \A file \in Inputs[f] : \A e \in DOMAIN file : \A c \in DOMAIN file[e] :
    LET s == file[e][c]
    IN IF f = "pdf"
       THEN /\ s.kind = "string" => "m" \notin ToSet(s.text)
            /\ \A p \in DOMAIN s.parts : "m" \notin ToSet(s.parts[p])
       ELSE \A i \in DOMAIN s :
              s[i] = "m" => \/ f = "tex" /\ InCommand(s, i)
                            \/ f \in {"xml", "zip"} /\ (InTag(s, i) \/ Opened(s, i))
                            \/ f = "zip" /\ Inner(s)

\* A tag goes over more than two chunks of the archive.
Stretched ==
  /\ format = "zip"
  /\ \E e \in DOMAIN input : \E s \in ToSet(input[e]) : "m" \in ToSet(s) /\ Inner(s)

\* The byte at i lies between a ">" and a "<", with no other bracket, and that
\* text is convertible without its last byte.
InElement(s, i) ==
  \E j \in 1..i - 1, k \in i + 1..Len(s) - 1 :
    /\ s[j] = ">" /\ s[k] = "<"
    /\ \A n \in j + 1..k - 1 : s[n] \notin {"<", ">"}
    /\ Convertible(SubSeq(s, j + 1, k - 2))

Shown(s, i) ==
  CASE format = "txt" -> Convertible(s)
    [] format = "tex" -> ~InCommand(s, i)
    [] OTHER          -> InElement(s, i)

\* A word that stands between a space and a space or the end of a line, outside
\* of the markup of its format and within the limits, is among the words of the
\* file (txt_tokenizer.cpp:31, tex_tokenizer.cpp:37, string.cpp:241, 287), unless it
\* spells a number: "nan", "inf" and "infinity" are dropped (string.cpp:298).
NoSpacedWordLost ==
  stage = "done" /\ format # "pdf" /\ Within =>
    \A s \in Pieces : \A i \in 2..Len(s) - 2 : \A j \in i + 1..Len(s) - 1 :
      /\ s[i - 1] = " " /\ s[j + 1] \in {" ", "N"} /\ Shown(s, i - 1)
      /\ \A k \in i..j : Letter(s[k])
      /\ Len(Wide(SubSeq(s, i, j))) \in 2..MaxWord /\ Wide(SubSeq(s, i, j)) \notin Spelled
      => Wide(SubSeq(s, i, j)) \in words

\* A text that a PDF document shows is among its words, with the same exception
\* (pdf_tokenizer.cpp:70, 142, 165, 233).  What other operators have left on the stack
\* does no harm to the texts of "Tj" and "\""; those of "TJ" are found only if something is
\* left, two operands below the array, for the code asks for three where there is one
\* (pdf_tokenizer.cpp:171).  ShownBy() leaves out the others.
NoShownTextLost ==
  stage = "done" /\ format = "pdf" /\ size <= MaxPdf =>
    \A w \in {Wide(s) : s \in ShownBy(input)} :
      /\ Len(w) \in 2..MaxWord /\ w \notin Spelled
      /\ \A i \in DOMAIN w : Letter(w[i])
      => w \in words

\* No word of a file is lost.
NoWordLost == NoSpacedWordLost /\ NoShownTextLost

\* No word holds a separator, nor a letter of a tag or of a TeX command ("m", see
\* MarkupAssumption; xml_tag_content(), string.cpp:241; the loop of tex_tokenizer.cpp:37;
\* tokenize(), string.cpp:269).  A tag may be cut in two and its parts come in reverse;
\* only when it is cut in three, as a tag longer than the library's buffer is, does the
\* part in the middle lie between other brackets and its letters become a text
\* (zip_inflater.cpp:28).
NothingFromMarkup ==
  \A w \in words \ NameWords : \A i \in DOMAIN w :
    w[i] \notin Special \cup {" ", "N"} /\ (w[i] = "m" => Stretched)

\* The parser throws a text away "if conversion failed (i.e. if binary data)"
\* (string.cpp:231): what is thrown away is not text.
EmptyOnlyIfBinary == \A s \in rejected : ~Convertible(s)

\* Every file is read to an end: each turn of the loops gets further, also the
\* ones that find nothing (string.cpp:206, 245, zip_inflater.cpp:97).
Ends == <>(stage \in {"done", "unread", "thrown", "crashed"})

=============================================================================
