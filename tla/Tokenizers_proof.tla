--------------------------- MODULE Tokenizers_proof ---------------------------
(***************************************************************************)
(* What the tokenizers do to a file, for every file, every limit and all   *)
(* chunks of an archive: nothing of its markup is among the words unless a *)
(* tag is cut in three, and no word of its text is lost unless it spells a *)
(* number.                                                                 *)
(***************************************************************************)
EXTENDS Tokenizers_pdf_proof

-----------------------------------------------------------------------------
(* The invariant *)

\* The letters of a tag that is cut in three.
Leaked == IF Stretched THEN {"m"} ELSE {}

\* The characters of what is shown, and not of markup.  (The provers do not know that
\* a space is in STRING.)
NoM == (STRING \ {"m"}) \cup {Space} \cup Leaked

\* Every "m" of the bytes read stands in markup, in the way of each format.
Unmarked ==
  /\ format = "txt" => \A i \in 1 .. Len(data) : data[i] # "m"
  /\ format = "tex" => \A i \in 1 .. Len(data) : data[i] = "m" => InCommand(data, i)
  /\ format \in {"xml", "zip"} /\ ~Stretched =>
       \A i, n \in 1 .. Len(data) :
         data[i] = "m" /\ data[n] = "<" /\ i < n =>
           Opened(data, i) \/ \E k \in i + 1 .. n - 1 : data[k] = ">"

DataOK ==
  /\ data \in Seq(STRING) /\ entry \in Nat \ {0} /\ chunk \in Nat
  /\ chunk # 0 => format = "zip" /\ Len(data) < MaxText
  /\ format = "zip" => Len(data) <= MaxText + Longest
  /\ format # "zip" => Len(data) <= MaxRead
  /\ format = "pdf" \/ (format # "zip" /\ stage = "read") => data = <<>>
  /\ Unmarked

\* The TeX loop has met a backslash, and nothing that ends the command.
Commanded == \E j \in 1 .. index - 1 : data[j] = "\\" /\ \A k \in j + 1 .. index - 1 : data[k] \notin TexEnds

ScanOK ==
  /\ index \in 1 .. Len(data) + 1 /\ isText \in BOOLEAN /\ text \in Seq(NoM) /\ size \in Nat
  /\ stage = "read" => index = 1 /\ isText = TRUE /\ size = 0 /\ text = <<>>
  /\ format = "txt" => size = 0 /\ Len(text) <= 2 * Len(data)
  /\ format = "tex" => size = 0 /\ Len(text) <= index - 1
  /\ format = "tex" /\ stage = "scan" => (isText <=> ~Commanded)
  /\ format \in {"xml", "zip"} => size <= 4 * (index - 1) /\ Len(text) <= index - 1
  /\ format = "pdf" => size <= MaxPdf + Longest /\ Len(text) <= 2 * size

IInv ==
  /\ format \in Formats /\ input \in Inputs[format]
  /\ stage \in {"read", "scan", "tokenize", "done", "unread", "thrown", "crashed"}
  /\ stage = "thrown" => format \in {"tex", "pdf"}
  /\ DataOK /\ ScanOK /\ NothingFromMarkup

\* The invariant gives the types.
LEMMA InvTypeOK == IInv => TypeOK
<1> SUFFICES ASSUME IInv PROVE TypeOK
  OBVIOUS
<1> DEFINE l == Len(data)
<1>1. l \in Nat /\ index \in 1 .. l + 1 /\ size \in Nat /\ Len(text) \in Nat /\ MaxText \in Nat
  BY LimitAssumption DEF IInv, DataOK, ScanOK
<1>2. format \in {"txt", "tex", "xml", "zip", "pdf"}
  BY FormatAssumption DEF IInv
<1>3. format = "txt" => size = 0 /\ Len(text) <= 2 * l
  BY DEF IInv, ScanOK
<1>4. format = "tex" => size = 0 /\ Len(text) <= index - 1
  BY DEF IInv, ScanOK
<1>5. format \in {"xml", "zip"} => size <= 4 * (index - 1) /\ Len(text) <= index - 1
  BY DEF IInv, ScanOK
<1>6. format = "pdf" => size <= MaxPdf + Longest /\ Len(text) <= 2 * size
  BY DEF IInv, ScanOK
<1>7. MaxPdf + Longest \in Nat
  BY PdfAssumption, LimitAssumption
<1> HIDE DEF l
<1>8. format # "pdf" => size \in 0 .. (MaxText + 4 * l) /\ Len(text) <= 2 * l
  BY <1>1, <1>2, <1>3, <1>4, <1>5
<1>9. format = "pdf" => size \in 0 .. (MaxPdf + Longest) /\ Len(text) <= 2 * size
  BY <1>1, <1>6, <1>7
<1> QED BY <1>1, <1>8, <1>9 DEF TypeOK, IInv, DataOK, ScanOK, l

\* What a file's markup leaves behind depends on the file only.
LEMMA SameMarkup ==
  ASSUME format' = format, input' = input
  PROVE  NoM' = NoM /\ (Stretched' <=> Stretched)
<1>1. Stretched' <=> Stretched
  BY DEF Stretched
<1>2. Leaked' = Leaked
  BY <1>1 DEF Leaked
<1> QED BY <1>1, <1>2 DEF NoM

\* What is given stays, and what only the readers change too.
LEMMA DataStays ==
  ASSUME DataOK, UNCHANGED <<given, read>>, stage' = "read" => stage = "read"
  PROVE  DataOK'
<1>1. data' = data /\ format' = format /\ input' = input /\ entry' = entry /\ chunk' = chunk
  BY DEF given, read
<1>2. Unmarked'
  <2>1. Unmarked /\ (Stretched' <=> Stretched)
    BY <1>1, SameMarkup DEF DataOK
  <2> QED BY <1>1, <2>1 DEF Unmarked, InCommand, Opened
<1> QED BY <1>1, <1>2 DEF DataOK

-----------------------------------------------------------------------------
(* tokenize() *)

\* A word of a line has no character of markup, no space and no separator.
LEMMA TokenizeMarkup ==
  ASSUME NEW line \in Seq(NoM), NEW w \in Tokenize(line)
  PROVE  \A i \in DOMAIN w : w[i] \notin Special \cup {" ", "N"} /\ (w[i] = "m" => Stretched)
<1> DEFINE cut == Special \cup {"N", "K"}
           S == (NoM \ cut) \cup {" "}
           T == S \ {"B", " "}
           b == Blanked(line, cut)
<1>1. b \in Seq(S)
  <2>1. Len(line) \in Nat /\ DOMAIN line = 1 .. Len(line) /\ \A i \in 1 .. Len(line) : line[i] \in NoM
    OBVIOUS
  <2>2. \A i \in 1 .. Len(line) : (IF line[i] \in cut THEN " " ELSE line[i]) \in S
    <3> HIDE DEF cut
    <3> QED BY <2>1
  <2>3. b = [i \in 1 .. Len(line) |-> IF line[i] \in cut THEN " " ELSE line[i]]
    BY <2>1 DEF Blanked
  <2> HIDE DEF b, S, cut
  <2>4. b \in [1 .. Len(line) -> S]
    BY <2>2, <2>3
  <2> QED BY <2>1, <2>4, MapType
<1>2. Split(b, " ") \in Seq(Seq(T) \ {<<>>})
  <2> HIDE DEF b, S
  <2> QED BY <1>1, SplitType
<1>3. \A t \in ToSet(Split(b, " ")) : Trim(t) \in Seq(T)
  <2> HIDE DEF T, b
  <2> DEFINE p == Split(b, " ")
             X == Seq(T) \ {<<>>}
  <2>1. p \in Seq(X)
    BY <1>2
  <2> HIDE DEF p, X
  <2>2. \A t \in ToSet(p) : t \in X
    BY <2>1 DEF ToSet
  <2>3. \A t \in X : t \in Seq(T)
    BY DEF X
  <2> QED BY <2>2, <2>3, TrimType DEF p
<1>4. CASE \E c \in ToSet(line) \cap {"K"} : w = <<"B", c>>
  <2>1. w = <<"B", "K">>
    BY <1>4
  <2>2. DOMAIN w = 1 .. 2 /\ w[1] = "B" /\ w[2] = "K"
    BY <2>1
  <2>3. \A c \in {"B", "K"} : c \notin Special \cup {" ", "N"} /\ c # "m"
    BY DEF Special, Brackets
  <2>4. \A i \in DOMAIN w : w[i] \in {"B", "K"}
    <3> TAKE i \in DOMAIN w
    <3>1. i = 1 \/ i = 2
      BY <2>2
    <3> QED BY <2>2, <3>1
  <2> QED BY <2>3, <2>4
<1>5. CASE w \in Seq(T)
  <2>1. \A i \in DOMAIN w : w[i] \in T
    <3> HIDE DEF T
    <3> QED BY <1>5
  <2>2. \A c \in T : c \notin Special \cup {" ", "N"} /\ (c = "m" => Stretched)
    BY DEF NoM, Space, Leaked
  <2> QED BY <2>1, <2>2
<1>6. w \in {<<"B", c>> : c \in ToSet(line) \cap {"K"}} \/ \E t \in ToSet(Split(b, " ")) : w = Trim(t)
  BY DEF Tokenize
<1> QED BY <1>3, <1>4, <1>5, <1>6

-----------------------------------------------------------------------------
(* What is read *)

\* A chunk whose letters "m" stand in the markup of its format.
Marked(f, s) ==
  \A i \in DOMAIN s :
    s[i] = "m" => \/ f = "tex" /\ InCommand(s, i)
                  \/ f \in {"xml", "zip"} /\ (Stretched \/ InTag(s, i) \/ Opened(s, i))

\* A chunk of a file that can be read.
LEMMA ChunkType ==
  ASSUME format \in Formats, input \in Inputs[format], format # "pdf",
         NEW e \in DOMAIN input, NEW c \in DOMAIN input[e]
  PROVE  /\ input[e][c] \in Seq(STRING) /\ Marked(format, input[e][c])
         /\ format = "zip" => Len(input[e][c]) <= Longest
<1>1. /\ input \in Seq(Seq(Seq(STRING)))
      /\ format = "zip" => \A d \in DOMAIN input : \A k \in DOMAIN input[d] : Len(input[d][k]) <= Longest
  BY InputAssumption
<1>2. input[e] \in Seq(Seq(STRING))
  <2> DEFINE X == Seq(Seq(STRING))
  <2>1. input \in Seq(X)
    BY <1>1
  <2> HIDE DEF X
  <2>2. input[e] \in X
    BY <2>1
  <2> QED BY <2>2 DEF X
<1>3. input[e][c] \in Seq(STRING)
  <2> DEFINE X == Seq(STRING)
             s == input[e]
  <2>1. s \in Seq(X) /\ c \in DOMAIN s
    BY <1>2
  <2> HIDE DEF X, s
  <2>2. s[c] \in X
    BY <2>1
  <2> QED BY <2>2 DEF X, s
<1>4. Marked(format, input[e][c])
  <2> DEFINE s == input[e][c]
  <2>1. \A i \in DOMAIN s :
          s[i] = "m" => \/ format = "tex" /\ InCommand(s, i)
                        \/ format \in {"xml", "zip"} /\ (InTag(s, i) \/ Opened(s, i))
                        \/ format = "zip" /\ Inner(s)
    BY MarkupAssumption
  <2>2. s \in ToSet(input[e])
    BY <1>2 DEF ToSet
  <2> HIDE DEF s
  <2>3. ASSUME NEW i \in DOMAIN s, s[i] = "m", format = "zip", Inner(s) PROVE Stretched
    <3>1. "m" \in ToSet(s)
      BY <2>3 DEF ToSet
    <3> QED BY <2>2, <2>3, <3>1 DEF Stretched
  <2>4. Marked(format, s)
    BY <2>1, <2>3 DEF Marked
  <2> QED BY <2>4 DEF s
<1> QED BY <1>1, <1>3, <1>4

\* A tag that has begun ends before the next one.
LEMMA TagBefore ==
  ASSUME NEW s \in Seq(STRING), NEW i \in 1 .. Len(s), NEW n \in i + 1 .. Len(s),
         InTag(s, i), s[n] = "<"
  PROVE  \E k \in i + 1 .. n - 1 : s[k] = ">"
<1>0. Len(s) \in Nat
  OBVIOUS
<1>1. PICK k \in i + 1 .. Len(s) : s[k] = ">" /\ \A j \in i + 1 .. k - 1 : s[j] # "<"
  BY DEF InTag
<1>2. k # n
  BY <1>1
<1>3. ~(n < k)
  BY <1>0, <1>1
<1>4. k \in i + 1 .. n - 1
  BY <1>0, <1>2, <1>3
<1> QED BY <1>1, <1>4

\* A tag that begins before a byte also does where that part of the text has moved to.
LEMMA OpenedMoves ==
  ASSUME NEW s, NEW t, NEW i \in Nat, NEW d \in Nat,
         \A k \in 1 .. i - 1 : t[d + k] = s[k], Opened(s, i)
  PROVE  Opened(t, d + i)
<1>1. PICK k \in 1 .. i - 1 : s[k] = "<" /\ \A n \in k + 1 .. i - 1 : s[n] # ">"
  BY DEF Opened
<1>2. d + k \in 1 .. (d + i) - 1 /\ t[d + k] = "<"
  BY <1>1
<1>3. ASSUME NEW n \in (d + k) + 1 .. (d + i) - 1 PROVE t[n] # ">"
  <2>1. n - d \in k + 1 .. i - 1 /\ n - d \in 1 .. i - 1 /\ d + (n - d) = n
    BY <1>1
  <2>2. t[d + (n - d)] = s[n - d] /\ s[n - d] # ">"
    BY <1>1, <2>1
  <2> QED BY <2>1, <2>2
<1> QED BY <1>2, <1>3 DEF Opened

\* Reading a file whole keeps the invariant.
LEMMA ReadTextInv == IInv /\ ReadText => IInv'
<1> SUFFICES ASSUME IInv, ReadText PROVE IInv'
  OBVIOUS
<1> DEFINE content == input[1][1]
           n == IF Len(content) < MaxRead THEN Len(content) ELSE MaxRead
<1>0. /\ format \in Formats /\ input \in Inputs[format] /\ stage = "read" /\ format \notin {"zip", "pdf"}
      /\ given' = given /\ data' = SubSeq(content, 1, n) /\ stage' = "scan"
      /\ UNCHANGED <<entry, chunk, scan, words>>
      /\ format' = format /\ input' = input /\ stem' = stem
  BY DEF IInv, ReadText, given
<1>1. content \in Seq(STRING) /\ Marked(format, content)
  <2>1. input \in Seq(Seq(Seq(STRING))) /\ Len(input) = 1 /\ Len(input[1]) = 1
    BY <1>0, InputAssumption
  <2>2. 1 \in DOMAIN input
    BY <2>1
  <2>3. input[1] \in Seq(Seq(STRING))
    <3> DEFINE X == Seq(Seq(STRING))
    <3>1. input \in Seq(X)
      BY <2>1
    <3> HIDE DEF X
    <3>2. input[1] \in X
      BY <2>2, <3>1
    <3> QED BY <3>2 DEF X
  <2>4. 1 \in DOMAIN input[1]
    BY <2>1, <2>3
  <2> QED BY <1>0, <2>2, <2>4, ChunkType
<1> HIDE DEF content
<1>2. /\ n \in 0 .. Len(content) /\ n <= MaxRead /\ Len(content) \in Nat
      /\ DOMAIN content = 1 .. Len(content)
  BY <1>1, LimitAssumption
<1> HIDE DEF n
<1>3. /\ data' \in Seq(STRING) /\ Len(data') = n
      /\ \A i \in 1 .. n : data'[i] = content[i] /\ i \in 1 .. Len(content)
  BY <1>0, <1>1, <1>2, PrefixType
<1>4. ASSUME NEW i \in 1 .. n, content[i] = "m", format = "tex"
      PROVE  InCommand(data', i)
  <2>1. InCommand(content, i)
    BY <1>1, <1>2, <1>4 DEF Marked
  <2>2. PICK j \in 1 .. i : content[j] = "\\" /\ \A k \in j + 1 .. i - 1 : content[k] \notin TexEnds
    BY <2>1 DEF InCommand
  <2>3. j \in 1 .. n /\ \A k \in j + 1 .. i - 1 : k \in 1 .. n
    BY <1>2
  <2>4. data'[j] = "\\" /\ \A k \in j + 1 .. i - 1 : data'[k] \notin TexEnds
    BY <1>3, <2>2, <2>3
  <2> QED BY <2>4 DEF InCommand
<1>5. ASSUME NEW i \in 1 .. n, NEW m \in 1 .. n, content[i] = "m", content[m] = "<", i < m,
             format \in {"xml", "zip"}
      PROVE  Opened(data', i) \/ \E k \in i + 1 .. m - 1 : data'[k] = ">"
  <2>1. InTag(content, i) \/ Opened(content, i)
    <3>1. ~Stretched
      BY <1>0 DEF Stretched
    <3> QED BY <1>1, <1>2, <1>5, <3>1 DEF Marked
  <2>2. CASE InTag(content, i)
    <3>1. i \in 1 .. Len(content) /\ m \in i + 1 .. Len(content)
      BY <1>2, <1>5
    <3>2. PICK k \in i + 1 .. m - 1 : content[k] = ">"
      BY <1>1, <1>5, <2>2, <3>1, TagBefore
    <3>3. k \in 1 .. n
      BY <1>2
    <3> QED BY <1>3, <3>2, <3>3
  <2>3. CASE Opened(content, i)
    <3>1. \A k \in 1 .. i - 1 : data'[0 + k] = content[k]
      <4>1. \A k \in 1 .. i - 1 : k \in 1 .. n /\ 0 + k = k
        BY <1>2
      <4> QED BY <1>3, <4>1
    <3>2. i \in Nat /\ 0 \in Nat /\ 0 + i = i
      OBVIOUS
    <3>3. Opened(data', 0 + i)
      BY <2>3, <3>1, <3>2, OpenedMoves
    <3> QED BY <3>2, <3>3
  <2> QED BY <2>1, <2>2, <2>3
<1>6. Unmarked'
  <2>1. format' = "txt" => \A i \in 1 .. Len(data') : data'[i] # "m"
    BY <1>0, <1>1, <1>2, <1>3 DEF Marked
  <2>2. format' = "tex" => \A i \in 1 .. Len(data') : data'[i] = "m" => InCommand(data', i)
    BY <1>0, <1>3, <1>4
  <2>3. format' \in {"xml", "zip"} =>
          \A i, m \in 1 .. Len(data') :
            data'[i] = "m" /\ data'[m] = "<" /\ i < m =>
              Opened(data', i) \/ \E k \in i + 1 .. m - 1 : data'[k] = ">"
    BY <1>0, <1>3, <1>5
  <2> QED BY <2>1, <2>2, <2>3 DEF Unmarked
<1>7. DataOK'
  <2>1. entry' \in Nat \ {0} /\ chunk' \in Nat /\ (chunk' # 0 => Len(data) < MaxText)
    BY <1>0 DEF IInv, DataOK
  <2>2. data = <<>> /\ Len(data) = 0
    BY <1>0 DEF IInv, DataOK
  <2>3. chunk' # 0 => format = "zip"
    BY <1>0 DEF IInv, DataOK
  <2> QED BY <1>0, <1>2, <1>3, <1>6, <2>1, <2>3 DEF DataOK
<1>8. ScanOK'
  <2>1. /\ index' = 1 /\ isText' = TRUE /\ size' = 0 /\ text' = <<>>
    BY <1>0 DEF IInv, ScanOK, scan
  <2>2. ~Commanded'
    BY <2>1 DEF Commanded
  <2>3. <<>> \in Seq(NoM) /\ Len(<<>>) = 0
    OBVIOUS
  <2> QED BY <1>0, <1>2, <1>3, <2>1, <2>2, <2>3, SameMarkup DEF ScanOK
<1>9. NothingFromMarkup'
  <2>1. words' = words /\ NameWords' = NameWords /\ (Stretched' <=> Stretched)
    BY <1>0, SameMarkup DEF NameWords, given
  <2> QED BY <2>1 DEF IInv, NothingFromMarkup
<1> QED BY <1>0, <1>7, <1>8, <1>9 DEF IInv

\* So does a file that cannot be read.
LEMMA CannotReadInv == IInv /\ CannotRead => IInv'
<1> SUFFICES ASSUME IInv, CannotRead PROVE IInv'
  OBVIOUS
<1>0. /\ stage = "read" /\ stage' = "unread" /\ words' = NameWords /\ UNCHANGED <<given, read, scan>>
      /\ format' = format /\ input' = input /\ stem' = stem
  BY DEF CannotRead, given
<1>1. DataOK'
  BY <1>0, DataStays DEF IInv
<1>2. ScanOK'
  <2>1. ScanOK
    BY DEF IInv
  <2> QED BY <1>0, <2>1, SameMarkup DEF ScanOK, scan, read
<1>3. NothingFromMarkup'
  <2>1. NameWords' = NameWords
    BY <1>0 DEF NameWords
  <2> QED BY <1>0, <2>1 DEF NothingFromMarkup
<1> QED BY <1>0, <1>1, <1>2, <1>3 DEF IInv

\* So does a chunk of an archive.
LEMMA ExtractInv == IInv /\ Extract => IInv'
<1> SUFFICES ASSUME IInv, Extract PROVE IInv'
  OBVIOUS
<1> DEFINE c == input[entry][chunk + 1]
<1>0. /\ format \in Formats /\ input \in Inputs[format] /\ stage = "read" /\ format = "zip"
      /\ stage' = "read" /\ UNCHANGED scan /\ words' = words
      /\ format' = format /\ input' = input /\ stem' = stem
      /\ (chunk = 0 => Len(data) <= MaxText) /\ data' = c \o data
      /\ IF Len(data') >= MaxText \/ chunk + 1 = Len(input[entry])
         THEN entry' = entry + 1 /\ chunk' = 0
         ELSE chunk' = chunk + 1 /\ entry' = entry
  BY DEF IInv, Extract, given
<1>1. entry \in DOMAIN input /\ chunk + 1 \in DOMAIN input[entry]
  <2>1. entry \in Nat \ {0} /\ chunk \in Nat /\ entry <= Len(input) /\ chunk < Len(input[entry])
    BY DEF IInv, DataOK, Extract
  <2>2. input \in Seq(Seq(Seq(STRING)))
    BY <1>0, InputAssumption
  <2> DEFINE X == Seq(Seq(STRING))
             Y == Seq(STRING)
  <2>3. input \in Seq(X)
    BY <2>2
  <2>4. entry \in DOMAIN input /\ input[entry] \in X
    <3> HIDE DEF X
    <3> QED BY <2>1, <2>3
  <2>5. input[entry] \in Seq(Y)
    BY <2>4
  <2> HIDE DEF X, Y
  <2> QED BY <2>1, <2>4, <2>5
<1>2. c \in Seq(STRING) /\ Marked("zip", c) /\ Len(c) <= Longest
  BY <1>0, <1>1, ChunkType
<1> HIDE DEF c
<1>3. data \in Seq(STRING) /\ Len(data) \in Nat /\ Len(c) \in Nat /\ Len(data) <= MaxText
  <2>1. data \in Seq(STRING) /\ (chunk # 0 => Len(data) < MaxText)
    BY DEF IInv, DataOK
  <2> QED BY <1>0, <1>2, <2>1, LimitAssumption
<1>4. /\ data' \in Seq(STRING) /\ Len(data') = Len(c) + Len(data)
      /\ DOMAIN c = 1 .. Len(c)
      /\ \A i \in 1 .. Len(c) : data'[i] = c[i]
      /\ \A i \in 1 .. Len(data) : data'[Len(c) + i] = data[i]
  BY <1>0, <1>2, <1>3
<1>5. Unmarked'
  <2> SUFFICES ASSUME NEW i \in 1 .. Len(data'), NEW n \in 1 .. Len(data'),
                      data'[i] = "m", data'[n] = "<", i < n, ~Stretched
               PROVE  Opened(data', i) \/ \E k \in i + 1 .. n - 1 : data'[k] = ">"
    BY <1>0, SameMarkup DEF Unmarked
  <2>0. i \in Nat /\ n \in Nat /\ 1 <= i /\ n <= Len(c) + Len(data)
    BY <1>3, <1>4
  <2>1. CASE i <= Len(c)
    <3>1. i \in 1 .. Len(c) /\ c[i] = "m"
      BY <1>3, <1>4, <2>0, <2>1
    <3>2. InTag(c, i) \/ Opened(c, i)
      BY <1>2, <1>4, <3>1 DEF Marked
    <3>5. CASE Opened(c, i)
      <4>1. i \in Nat /\ 0 \in Nat /\ 0 + i = i /\ \A k \in 1 .. i - 1 : k \in 1 .. Len(c) /\ 0 + k = k
        BY <1>3, <3>1
      <4>2. \A k \in 1 .. i - 1 : data'[0 + k] = c[k]
        BY <1>4, <4>1
      <4>3. Opened(data', 0 + i)
        BY <3>5, <4>1, <4>2, OpenedMoves
      <4> QED BY <4>1, <4>3
    <3>3. CASE InTag(c, i) /\ n <= Len(c)
      <4>1. n \in i + 1 .. Len(c) /\ n \in 1 .. Len(c)
        BY <1>3, <2>0, <3>3
      <4>2. c[n] = "<"
        BY <1>4, <4>1
      <4>3. PICK k \in i + 1 .. n - 1 : c[k] = ">"
        BY <1>2, <3>1, <3>3, <4>1, <4>2, TagBefore
      <4>4. k \in 1 .. Len(c)
        BY <1>3, <2>0, <3>3
      <4> QED BY <1>4, <4>3, <4>4
    <3>4. CASE InTag(c, i) /\ n > Len(c)
      <4>1. PICK k \in i + 1 .. Len(c) : c[k] = ">"
        BY <3>4 DEF InTag
      <4>2. k \in 1 .. Len(c) /\ k \in i + 1 .. n - 1
        BY <1>3, <2>0, <3>4
      <4> QED BY <1>4, <4>1, <4>2
    <3> QED BY <1>3, <2>0, <3>2, <3>3, <3>4, <3>5
  <2>2. CASE i > Len(c)
    <3> DEFINE p == i - Len(c)
               q == n - Len(c)
    <3>1. /\ p \in 1 .. Len(data) /\ q \in 1 .. Len(data) /\ p < q
          /\ Len(c) + p = i /\ Len(c) + q = n
      BY <1>3, <2>0, <2>2
    <3>2. data[p] = "m" /\ data[q] = "<"
      <4> HIDE DEF p, q
      <4> QED BY <1>4, <3>1
    <3> HIDE DEF p, q
    <3>3. Unmarked
      BY DEF IInv, DataOK
    <3>4. Opened(data, p) \/ \E k \in p + 1 .. q - 1 : data[k] = ">"
      BY <1>0, <3>1, <3>2, <3>3 DEF Unmarked
    <3>5. CASE Opened(data, p)
      <4>1. p \in Nat /\ Len(c) \in Nat /\ \A k \in 1 .. p - 1 : k \in 1 .. Len(data)
        BY <1>3, <3>1
      <4>2. \A k \in 1 .. p - 1 : data'[Len(c) + k] = data[k]
        BY <1>4, <4>1
      <4>3. Opened(data', Len(c) + p)
        BY <3>5, <4>1, <4>2, OpenedMoves
      <4> QED BY <3>1, <4>3
    <3>6. ASSUME NEW k \in p + 1 .. q - 1, data[k] = ">"
          PROVE  \E m \in i + 1 .. n - 1 : data'[m] = ">"
      <4>1. k \in 1 .. Len(data) /\ Len(c) + k \in i + 1 .. n - 1
        BY <1>3, <3>1
      <4>2. data'[Len(c) + k] = ">"
        BY <1>4, <3>6, <4>1
      <4> QED BY <4>1, <4>2
    <3> QED BY <3>4, <3>5, <3>6
  <2> QED BY <1>3, <2>0, <2>1, <2>2
<1>6. DataOK'
  <2>1. entry' \in Nat \ {0} /\ chunk' \in Nat /\ (chunk' # 0 => Len(data') < MaxText)
    <3>1. entry \in Nat \ {0} /\ chunk \in Nat /\ MaxText \in Nat
      BY LimitAssumption DEF IInv, DataOK
    <3>2. Len(data') \in Nat
      BY <1>3, <1>4
    <3>3. CASE Len(data') >= MaxText \/ chunk + 1 = Len(input[entry])
      <4>1. entry' = entry + 1 /\ chunk' = 0
        BY <1>0, <3>3
      <4> QED BY <3>1, <4>1
    <3>4. CASE ~(Len(data') >= MaxText \/ chunk + 1 = Len(input[entry]))
      <4>1. chunk' = chunk + 1 /\ entry' = entry /\ ~(Len(data') >= MaxText)
        BY <1>0, <3>4
      <4> QED BY <3>1, <3>2, <4>1
    <3> QED BY <3>3, <3>4
  <2>2. Len(data') <= MaxText + Longest
    BY <1>2, <1>3, <1>4, LimitAssumption
  <2> QED BY <1>0, <1>4, <1>5, <2>1, <2>2 DEF DataOK
<1>7. ScanOK'
  <2>1. /\ index' = 1 /\ isText' = TRUE /\ size' = 0 /\ text' = <<>>
    BY <1>0 DEF IInv, ScanOK, scan
  <2>2. <<>> \in Seq(NoM) /\ Len(<<>>) = 0 /\ Len(data') \in Nat
    BY <1>3, <1>4
  <2> QED BY <1>0, <2>1, <2>2, SameMarkup DEF ScanOK
<1>8. NothingFromMarkup'
  <2>1. words' = words /\ NameWords' = NameWords /\ (Stretched' <=> Stretched)
    BY <1>0, SameMarkup DEF NameWords
  <2> QED BY <2>1 DEF IInv, NothingFromMarkup
<1> QED BY <1>0, <1>6, <1>7, <1>8 DEF IInv

\* So does an entry without bytes.
LEMMA ExtractNothingInv == IInv /\ ExtractNothing => IInv'
<1> SUFFICES ASSUME IInv, ExtractNothing PROVE IInv'
  OBVIOUS
<1>0. /\ stage = "read" /\ format = "zip" /\ stage' = stage /\ UNCHANGED scan /\ words' = words
      /\ format' = format /\ input' = input /\ stem' = stem
      /\ data' = data /\ entry' = entry + 1 /\ chunk' = chunk
  BY DEF ExtractNothing, given
<1>1. NoM' = NoM /\ (Stretched' <=> Stretched)
  BY <1>0, SameMarkup
<1>2. DataOK'
  <2>1. DataOK /\ Unmarked /\ entry \in Nat \ {0}
    BY DEF IInv, DataOK
  <2>2. Unmarked'
    BY <1>0, <1>1, <2>1 DEF Unmarked, InCommand, Opened
  <2>3. entry' \in Nat \ {0}
    BY <1>0, <2>1
  <2> QED BY <1>0, <2>1, <2>2, <2>3 DEF DataOK
<1>3. ScanOK'
  <2>1. ScanOK
    BY DEF IInv
  <2> QED BY <1>0, <1>1, <2>1 DEF ScanOK, scan
<1>4. NothingFromMarkup'
  <2>1. NameWords' = NameWords
    BY <1>0 DEF NameWords
  <2> QED BY <1>0, <1>1, <2>1 DEF IInv, NothingFromMarkup
<1> QED BY <1>0, <1>2, <1>3, <1>4 DEF IInv

\* A step that leaves what is read and what is given.
LEMMA StepInv ==
  ASSUME IInv, UNCHANGED <<given, read, words>>, stage' # "read",
         stage' \in {"read", "scan", "tokenize", "done", "unread", "thrown", "crashed"},
         stage' = "thrown" => format \in {"tex", "pdf"}, ScanOK'
  PROVE  IInv'
<1>1. /\ format' = format /\ input' = input /\ stem' = stem
  BY DEF given
<1>2. DataOK'
  BY DataStays DEF IInv
<1>3. NothingFromMarkup'
  <2>1. NameWords' = NameWords /\ (Stretched' <=> Stretched)
    BY <1>1, SameMarkup DEF NameWords
  <2> QED BY <2>1 DEF IInv, NothingFromMarkup
<1> QED BY <1>1, <1>2, <1>3 DEF IInv

\* So does the end of an archive.
LEMMA InflatedInv == IInv /\ Inflated => IInv'
<1> SUFFICES ASSUME IInv, Inflated PROVE IInv'
  OBVIOUS
<1>0. stage' = "scan" /\ format = "zip" /\ UNCHANGED <<given, read, scan, words>>
  BY DEF Inflated
<1>1. ScanOK'
  <2>1. ScanOK /\ format' = format /\ data' = data /\ NoM' = NoM
    BY <1>0, SameMarkup DEF IInv, given, read
  <2> QED BY <1>0, <2>1 DEF ScanOK, scan
<1> QED BY <1>0, <1>1, StepInv

-----------------------------------------------------------------------------
(* The text *)

\* A space is shown.
LEMMA SpaceShown == Space \in NoM
BY DEF NoM

\* So do the lines of a plain text.
LEMMA TxtLinesInv == IInv /\ TxtLines => IInv'
<1> SUFFICES ASSUME IInv, TxtLines PROVE IInv'
  OBVIOUS
<1> DEFINE lines == Split(Wide(data), "N")
<1>0. /\ stage = "scan" /\ format = "txt" /\ stage' = "tokenize"
      /\ text' = IF Convertible(data) THEN JoinLines(lines) ELSE <<>>
      /\ UNCHANGED <<given, read, words>> /\ index' = index /\ isText' = isText /\ size' = size
  BY DEF TxtLines
<1>1. format' = format /\ data' = data /\ NoM' = NoM
  BY <1>0, SameMarkup DEF given, read
<1>2. data \in Seq(NoM) /\ Len(data) \in Nat
  <2>1. data \in Seq(STRING) /\ \A i \in 1 .. Len(data) : data[i] # "m"
    BY <1>0 DEF IInv, DataOK, Unmarked
  <2>2. \A i \in 1 .. Len(data) : data[i] \in NoM
    <3> TAKE i \in 1 .. Len(data)
    <3>1. data[i] \in STRING
      BY <2>1
    <3> QED BY <2>1, <3>1 DEF NoM
  <2>3. Len(data) \in Nat /\ data = [i \in 1 .. Len(data) |-> data[i]]
    BY <2>1
  <2>4. data \in [1 .. Len(data) -> NoM]
    BY <2>2, <2>3
  <2> QED BY <2>3, <2>4, MapType
<1>3. /\ Wide(data) \in Seq(NoM) /\ Len(Wide(data)) <= Len(data)
  <2>1. Wide(data) \in Seq(NoM \ {"C"}) /\ Len(Wide(data)) <= Len(data)
    BY <1>2, WideType
  <2> QED BY <2>1
<1>4. /\ lines \in Seq(Seq(NoM) \ {<<>>})
      /\ Len(FlattenSeq(lines)) <= Len(Wide(data))
  <2> DEFINE T == NoM \ {"B", "N"}
  <2>1. lines \in Seq(Seq(T) \ {<<>>}) /\ Len(FlattenSeq(lines)) <= Len(Wide(data))
    BY <1>3, SplitType
  <2>2. Seq(T) \ {<<>>} \subseteq Seq(NoM) \ {<<>>}
    OBVIOUS
  <2> DEFINE X == Seq(T) \ {<<>>}
             Y == Seq(NoM) \ {<<>>}
  <2> HIDE DEF X, Y, lines
  <2>3. lines \in Seq(X) /\ X \subseteq Y
    BY <2>1, <2>2 DEF X, Y
  <2>4. lines \in Seq(Y)
    BY <2>3
  <2> QED BY <2>1, <2>4 DEF Y
<1> HIDE DEF lines
<1>5. JoinLines(lines) \in Seq(NoM) /\ Len(JoinLines(lines)) <= 2 * Len(data)
  <2>1. JoinLines(lines) \in Seq(NoM) /\ Len(JoinLines(lines)) <= 2 * Len(FlattenSeq(lines))
    BY <1>4, SpaceShown, JoinLinesType
  <2>2. Len(JoinLines(lines)) \in Nat /\ Len(Wide(data)) \in Nat /\ Len(FlattenSeq(lines)) \in Nat
    <3>1. lines \in Seq(Seq(NoM))
      BY <1>4
    <3>2. FlattenSeq(lines) \in Seq(NoM)
      BY <3>1, FlattenType
    <3> QED BY <1>3, <2>1, <3>2
  <2> QED BY <1>2, <1>3, <1>4, <2>1, <2>2
<1>6. text' \in Seq(NoM) /\ Len(text') <= 2 * Len(data)
  <2>1. CASE Convertible(data)
    BY <1>0, <1>5, <2>1
  <2>2. CASE ~Convertible(data)
    <3>1. text' = <<>> /\ <<>> \in Seq(NoM) /\ Len(<<>>) = 0
      BY <1>0, <2>2
    <3> QED BY <1>2, <3>1
  <2> QED BY <2>1, <2>2
<1>7. ScanOK'
  <2>1. index \in 1 .. Len(data) + 1 /\ isText \in BOOLEAN /\ size \in Nat /\ size = 0
    BY <1>0 DEF IInv, ScanOK
  <2> QED BY <1>0, <1>1, <1>6, <2>1 DEF ScanOK
<1> QED BY <1>0, <1>7, StepInv

\* So does a character of a TeX file.
LEMMA TexCharInv == IInv /\ TexChar => IInv'
<1> SUFFICES ASSUME IInv, TexChar PROVE IInv'
  OBVIOUS
<1> DEFINE c == data[index]
           shown == IF c \in Brackets THEN " " ELSE c
<1>0. /\ stage = "scan" /\ format = "tex" /\ index <= Len(data) /\ index' = index + 1
      /\ isText' = (IF isText THEN c # "\\" ELSE c \in TexEnds)
      /\ text' = (IF ~isText \/ c \in {"\\", "$"} THEN text ELSE Append(text, shown))
      /\ UNCHANGED <<given, stage, read, size, words>>
  BY DEF TexChar
<1>i. index' = index + 1 /\ index <= Len(data)
  BY DEF TexChar
<1>1. format' = format /\ data' = data /\ NoM' = NoM
  BY <1>0, SameMarkup DEF given, read
<1>2. /\ data \in Seq(STRING) /\ index \in 1 .. Len(data) /\ c \in STRING
      /\ (c = "m" => InCommand(data, index))
  <2>1. data \in Seq(STRING) /\ Unmarked
    BY DEF IInv, DataOK
  <2>2. index \in 1 .. Len(data)
    <3>1. index \in 1 .. Len(data) + 1 /\ index <= Len(data) /\ Len(data) \in Nat
      BY <1>i, <2>1 DEF IInv, ScanOK
    <3> QED BY <3>1
  <2>3. c \in STRING
    BY <2>1, <2>2
  <2> QED BY <1>0, <2>1, <2>2, <2>3 DEF Unmarked
<1>3. /\ isText \in BOOLEAN /\ (isText <=> ~Commanded) /\ text \in Seq(NoM)
      /\ size = 0 /\ Len(text) <= index - 1 /\ Len(text) \in Nat
  <2>1. ScanOK
    BY DEF IInv
  <2>2. isText \in BOOLEAN /\ text \in Seq(NoM) /\ size = 0 /\ Len(text) <= index - 1
    BY <1>0, <2>1 DEF ScanOK
  <2>3. isText <=> ~Commanded
    BY <1>0, <2>1, Zenon DEF ScanOK
  <2>4. Len(text) \in Nat
    BY <2>2
  <2> QED BY <2>2, <2>3, <2>4, Zenon
<1>4. Commanded' <=> (c = "\\" \/ (Commanded /\ c \notin TexEnds))
  <2>0. Commanded' <=>
          \E j \in 1 .. index : data[j] = "\\" /\ \A k \in j + 1 .. index : data[k] \notin TexEnds
    <3>1. index' - 1 = index
      <4>1. index' = index + 1 /\ index \in Nat
        BY <1>i, <1>2
      <4> QED BY <4>1
    <3> QED BY <1>1, <3>1 DEF Commanded, TexEnds
  <2>1. ASSUME c = "\\" PROVE Commanded'
    <3>1. index \in 1 .. index /\ \A k \in index + 1 .. index : data[k] \notin TexEnds
      BY <1>2
    <3> QED BY <2>0, <2>1, <3>1
  <2>2. ASSUME Commanded, c \notin TexEnds PROVE Commanded'
    <3>1. PICK j \in 1 .. index - 1 :
            data[j] = "\\" /\ \A k \in j + 1 .. index - 1 : data[k] \notin TexEnds
      BY <2>2 DEF Commanded
    <3>2. j \in 1 .. index /\ \A k \in j + 1 .. index : k = index \/ k \in j + 1 .. index - 1
      BY <1>2
    <3>3. \A k \in j + 1 .. index : data[k] \notin TexEnds
      BY <2>2, <3>1, <3>2
    <3> QED BY <2>0, <3>1, <3>2, <3>3
  <2>3. ASSUME Commanded', c # "\\" PROVE Commanded /\ c \notin TexEnds
    <3>1. PICK j \in 1 .. index :
            data[j] = "\\" /\ \A k \in j + 1 .. index : data[k] \notin TexEnds
      BY <2>0, <2>3
    <3>2. j # index
      BY <2>3, <3>1
    <3>3. j \in 1 .. index - 1 /\ index \in j + 1 .. index
          /\ \A k \in j + 1 .. index - 1 : k \in j + 1 .. index
      BY <1>2, <3>2
    <3> QED BY <3>1, <3>3 DEF Commanded
  <2> QED BY <2>1, <2>2, <2>3
<1>5. isText' \in BOOLEAN /\ (isText' <=> ~Commanded')
  <2>1. "\\" \notin TexEnds
    BY DEF TexEnds
  <2> HIDE DEF c
  <2>2. CASE isText
    <3>1. isText' = (c # "\\") /\ ~Commanded
      BY <1>0, <1>3, <2>2, Zenon
    <3>2. Commanded' <=> c = "\\"
      BY <1>4, <3>1, Zenon
    <3>3. (c # "\\") \in BOOLEAN
      OBVIOUS
    <3> QED BY <3>1, <3>2, <3>3, Zenon
  <2>3. CASE ~isText
    <3>1. isText' = (c \in TexEnds) /\ Commanded
      BY <1>0, <1>3, <2>3, Zenon
    <3>2. Commanded' <=> c \notin TexEnds
      BY <1>4, <2>1, <3>1, Zenon
    <3>3. (c \in TexEnds) \in BOOLEAN
      OBVIOUS
    <3> QED BY <3>1, <3>2, <3>3, Zenon
  <2> QED BY <2>2, <2>3, Zenon
<1>6. text' \in Seq(NoM) /\ Len(text') <= index
  <2>1. CASE ~isText \/ c \in {"\\", "$"}
    <3>1. text' = text
      BY <1>0, <2>1
    <3> QED BY <1>2, <1>3, <3>1
  <2>2. CASE isText /\ c \notin {"\\", "$"}
    <3>1. c # "m"
      <4>1. ASSUME c = "m" PROVE FALSE
        <5>1. PICK j \in 1 .. index :
                data[j] = "\\" /\ \A k \in j + 1 .. index - 1 : data[k] \notin TexEnds
          BY <1>2, <4>1 DEF InCommand
        <5>2. j # index
          BY <4>1, <5>1
        <5>3. j \in 1 .. index - 1
          BY <1>2, <5>2
        <5>4. Commanded
          BY <5>1, <5>3 DEF Commanded
        <5> QED BY <1>3, <2>2, <5>4
      <4> QED BY <4>1
    <3>2. shown \in NoM
      <4>1. " " \in NoM
        BY SpaceShown DEF Space
      <4>2. c \in NoM
        BY <1>2, <3>1 DEF NoM
      <4> HIDE DEF c
      <4> QED BY <4>1, <4>2
    <3>3. text' = Append(text, shown)
      BY <1>0, <2>2
    <3> HIDE DEF shown
    <3>4. Append(text, shown) \in Seq(NoM) /\ Len(Append(text, shown)) = Len(text) + 1
      BY <1>3, <3>2
    <3> QED BY <1>2, <1>3, <3>3, <3>4
  <2> QED BY <2>1, <2>2
<1>7. ScanOK'
  <2>1. index' \in 1 .. Len(data) + 1 /\ index' - 1 = index
    <3>1. index' = index + 1 /\ index \in 1 .. Len(data) /\ Len(data) \in Nat
      BY <1>i, <1>2
    <3> QED BY <3>1
  <2> HIDE DEF c, shown
  <2> QED BY <1>0, <1>1, <1>3, <1>5, <1>6, <2>1 DEF ScanOK
<1> QED BY <1>0, <1>7, StepInv

\* So does the end of a TeX file.
LEMMA TexEndInv == IInv /\ TexEnd => IInv'
<1> SUFFICES ASSUME IInv, TexEnd PROVE IInv'
  OBVIOUS
<1>0. /\ stage = "scan" /\ format = "tex" /\ stage' \in {"tokenize", "thrown"} /\ text' = Wide(text)
      /\ UNCHANGED <<given, read, words>> /\ index' = index /\ isText' = isText /\ size' = size
  BY DEF TexEnd
<1>1. format' = format /\ data' = data /\ NoM' = NoM
  BY <1>0, SameMarkup DEF given, read
<1>2. /\ index \in 1 .. Len(data) + 1 /\ isText \in BOOLEAN /\ text \in Seq(NoM) /\ size = 0
      /\ Len(text) <= index - 1 /\ data \in Seq(STRING)
  BY <1>0 DEF IInv, ScanOK, DataOK
<1>3. Wide(text) \in Seq(NoM) /\ Len(Wide(text)) <= index - 1
  <2>1. Wide(text) \in Seq(NoM \ {"C"}) /\ Len(Wide(text)) <= Len(text)
    BY <1>2, WideType
  <2>2. Len(Wide(text)) \in Nat /\ Len(text) \in Nat /\ Len(data) \in Nat
    BY <1>2, <2>1
  <2> QED BY <1>2, <2>1, <2>2
<1>4. ScanOK'
  BY <1>0, <1>1, <1>2, <1>3 DEF ScanOK
<1> QED BY <1>0, <1>4, StepInv

\* A part of a sequence, which may be empty.
LEMMA CutType ==
  ASSUME NEW S, NEW s \in Seq(S), NEW a \in 1 .. Len(s) + 1, NEW b \in Int, b <= Len(s)
  PROVE  /\ SubSeq(s, a, b) \in Seq(S)
         /\ Len(SubSeq(s, a, b)) = IF a <= b THEN (b - a) + 1 ELSE 0
         /\ \A i \in 1 .. Len(SubSeq(s, a, b)) :
              SubSeq(s, a, b)[i] = s[(a + i) - 1] /\ (a + i) - 1 \in a .. b
<1>1. CASE a <= b
  <2>1. a \in 1 .. Len(s) /\ b \in a .. Len(s) /\ Len(s) \in Nat
    BY <1>1
  <2>2. SubSeq(s, a, b) \in Seq(S) /\ Len(SubSeq(s, a, b)) = (b - a) + 1
    BY <2>1
  <2>3. \A i \in 1 .. (b - a) + 1 : SubSeq(s, a, b)[i] = s[(a + i) - 1] /\ (a + i) - 1 \in a .. b
    BY <2>1
  <2> QED BY <1>1, <2>2, <2>3
<1>2. CASE ~(a <= b)
  <2>1. SubSeq(s, a, b) = <<>>
    BY <1>2
  <2> QED BY <1>2, <2>1
<1> QED BY <1>1, <1>2

\* Where XMLParser::next() stops, and where the text before that starts.
LEMMA XmlPlace ==
  ASSUME data \in Seq(STRING), index \in 1 .. Len(data) + 1, Stops # {}
  PROVE  /\ NextStop \in index + 1 .. Len(data) - 1 /\ data[NextStop] = "<"
         /\ NextStop \in Stops /\ \A i \in Stops : NextStop <= i
         /\ TextStart(NextStop) \in index + 1 .. NextStop /\ data[TextStart(NextStop) - 1] = ">"
         /\ \A i \in TextStart(NextStop) .. NextStop : data[i] # ">"
         /\ \A i \in TextStart(NextStop) .. NextStop - 1 : data[i] # "<"
<1>0. Len(data) \in Nat
  OBVIOUS
<1>1. Stops \in SUBSET Nat
  BY <1>0 DEF Stops
<1> DEFINE stop == NextStop
<1>2. stop \in Stops /\ \A i \in Stops : stop <= i
  <2>1. \E i \in Stops : \A j \in Stops : i <= j
    BY <1>1, Least
  <2> QED BY <2>1 DEF NextStop
<1> HIDE DEF stop
<1>3. PICK p \in index .. stop - 1 : data[p] = ">"
  BY <1>2 DEF Stops
<1>4. stop \in index .. Len(data) - 1 /\ data[stop] = "<"
  BY <1>2 DEF Stops
<1>5. stop \in index + 1 .. Len(data) - 1
  BY <1>0, <1>3, <1>4
<1> DEFINE T == {i \in index .. stop : data[i] = ">"}
           P(i) == data[i] = ">" /\ \A j \in i + 1 .. stop : data[j] # ">"
           last == CHOOSE i \in index .. stop : P(i)
<1>6. \E i \in index .. stop : P(i)
  <2>1. stop \in Nat /\ T \in SUBSET (0 .. stop) /\ p \in T
    BY <1>0, <1>3, <1>5
  <2> HIDE DEF T
  <2>2. PICK x \in T : \A y \in T : y <= x
    BY <2>1, Greatest
  <2>3. x \in index .. stop /\ data[x] = ">"
    BY <2>2 DEF T
  <2>4. ASSUME NEW j \in x + 1 .. stop PROVE data[j] # ">"
    <3>1. j \in index .. stop /\ ~(j <= x)
      BY <1>5, <2>3
    <3> QED BY <2>2, <3>1 DEF T
  <2> QED BY <2>3, <2>4
<1>7. last \in index .. stop /\ P(last)
  <2> HIDE DEF P
  <2> QED BY <1>6
<1>8. TextStart(stop) = 1 + last
  BY DEF TextStart
<1> HIDE DEF last
<1>9. last # stop
  BY <1>4, <1>7
<1>10. TextStart(stop) \in index + 1 .. stop /\ TextStart(stop) - 1 = last
  BY <1>0, <1>5, <1>7, <1>8, <1>9
<1>11. \A i \in TextStart(stop) .. stop : data[i] # ">"
  <2>1. TextStart(stop) = last + 1
    BY <1>7, <1>8
  <2> QED BY <1>7, <2>1
<1>12. ASSUME NEW i \in TextStart(stop) .. stop - 1, data[i] = "<" PROVE FALSE
  <2>1. /\ i \in index .. Len(data) - 1 /\ last \in index .. i - 1 /\ data[last] = ">"
        /\ ~(stop <= i)
    BY <1>0, <1>5, <1>7, <1>10
  <2>2. i \in Stops
    BY <1>12, <2>1 DEF Stops
  <2> QED BY <1>2, <2>1, <2>2
<1> QED BY <1>2, <1>4, <1>5, <1>7, <1>10, <1>11, <1>12 DEF stop

\* So does the text between two tags.
LEMMA XmlTextInv == IInv /\ XmlText => IInv'
<1> SUFFICES ASSUME IInv, XmlText PROVE IInv'
  OBVIOUS
<1> DEFINE stop == NextStop
           start == TextStart(stop)
           bytes == TagText(start, stop)
           line == Trim(Wide(bytes))
<1>0. /\ stage = "scan" /\ format \in {"xml", "zip"} /\ Stops # {}
      /\ UNCHANGED <<given, stage, read, words>> /\ isText' = isText
  BY DEF XmlText
<1>i. index' = stop
  BY DEF XmlText
<1>t. \/ UNCHANGED <<size, text>>
      \/ line # <<>> /\ size' = size + 4 * Len(line) /\ text' = text \o Joined(line)
  BY Zenon DEF XmlText, Take
<1>1. format' = format /\ data' = data /\ NoM' = NoM
  BY <1>0, SameMarkup DEF given, read
<1>2. /\ data \in Seq(STRING) /\ Len(data) \in Nat /\ index \in 1 .. Len(data) + 1
      /\ isText \in BOOLEAN /\ text \in Seq(NoM) /\ size \in Nat
  BY DEF IInv, DataOK, ScanOK
<1>3. size <= 4 * (index - 1) /\ Len(text) <= index - 1
  BY <1>0 DEF IInv, ScanOK
<1>4. /\ stop \in index + 1 .. Len(data) - 1 /\ data[stop] = "<" /\ start \in index + 1 .. stop
      /\ \A i \in start .. stop : data[i] # ">"
      /\ data[start - 1] = ">" /\ \A i \in start .. stop - 1 : data[i] # "<"
  BY <1>0, <1>2, XmlPlace
<1>5. bytes \in Seq(NoM) /\ (bytes # <<>> => Len(bytes) = (stop - start) - 1)
  <2>1. start \in 1 .. Len(data) + 1 /\ stop - 2 \in Int /\ stop - 2 <= Len(data)
    BY <1>2, <1>4
  <2>2. bytes = SubSeq(data, start, stop - 2)
    BY DEF TagText
  <2> HIDE DEF bytes, start, stop
  <2>3. /\ bytes \in Seq(STRING)
        /\ Len(bytes) = IF start <= stop - 2 THEN ((stop - 2) - start) + 1 ELSE 0
        /\ \A i \in 1 .. Len(bytes) :
             bytes[i] = data[(start + i) - 1] /\ (start + i) - 1 \in start .. stop - 2
    BY <1>2, <2>1, <2>2, CutType
  <2>4. ASSUME NEW i \in start .. stop - 2, ~Stretched PROVE data[i] # "m"
    <3>1. i \in 1 .. Len(data) /\ stop \in 1 .. Len(data) /\ i < stop
      BY <1>2, <1>4
    <3>4. ~Opened(data, i)
      <4> SUFFICES ASSUME NEW k \in 1 .. i - 1, data[k] = "<",
                          \A n \in k + 1 .. i - 1 : data[n] # ">"
                   PROVE  FALSE
        BY DEF Opened
      <4>1. CASE k >= start
        <5>1. k \in start .. stop - 1
          BY <1>2, <1>4, <4>1
        <5> QED BY <1>4, <5>1
      <4>2. CASE k < start
        <5>1. k # start - 1
          BY <1>4
        <5>2. start - 1 \in k + 1 .. i - 1
          BY <1>2, <1>4, <4>2, <5>1
        <5> QED BY <1>4, <5>2
      <4> QED BY <1>2, <1>4, <4>1, <4>2
    <3>2. \A k \in i + 1 .. stop - 1 : data[k] # ">"
      <4> TAKE k \in i + 1 .. stop - 1
      <4>1. k \in start .. stop
        BY <1>2, <1>4
      <4> QED BY <1>4, <4>1
    <3>3. Unmarked
      BY DEF IInv, DataOK
    <3> QED BY <1>0, <1>4, <2>4, <3>1, <3>2, <3>3, <3>4 DEF Unmarked
  <2>5. ASSUME NEW i \in 1 .. Len(bytes) PROVE bytes[i] \in NoM
    <3>1. bytes[i] \in STRING /\ (bytes[i] = "m" => Stretched)
      BY <2>3, <2>4
    <3> QED BY <3>1 DEF NoM, Leaked
  <2>6. Len(bytes) \in Nat /\ bytes = [i \in 1 .. Len(bytes) |-> bytes[i]]
    BY <2>3
  <2>7. bytes \in [1 .. Len(bytes) -> NoM]
    BY <2>5, <2>6
  <2>8. bytes \in Seq(NoM)
    BY <2>6, <2>7, MapType
  <2>9. ASSUME bytes # <<>> PROVE Len(bytes) = (stop - start) - 1
    <3>1. Len(bytes) # 0
      BY <2>3, <2>9
    <3>2. start <= stop - 2
      BY <2>3, <3>1
    <3> QED BY <1>2, <1>4, <2>3, <3>2
  <2> QED BY <2>8, <2>9
<1> HIDE DEF bytes, start, stop
<1>6. line \in Seq(NoM) /\ Len(line) <= Len(bytes) /\ Len(bytes) \in Nat /\ Len(line) \in Nat
  <2>1. Wide(bytes) \in Seq(NoM) /\ Len(Wide(bytes)) <= Len(bytes)
    <3>1. Wide(bytes) \in Seq(NoM \ {"C"}) /\ Len(Wide(bytes)) <= Len(bytes)
      BY <1>5, WideType
    <3> QED BY <3>1
  <2>2. line \in Seq(NoM) /\ Len(line) <= Len(Wide(bytes))
    BY <2>1, TrimType
  <2> HIDE DEF line
  <2>3. Len(line) \in Nat /\ Len(bytes) \in Nat /\ Len(Wide(bytes)) \in Nat
    BY <1>5, <2>1, <2>2
  <2> QED BY <2>1, <2>2, <2>3
<1> HIDE DEF line
<1>7. /\ size' \in Nat /\ text' \in Seq(NoM)
      /\ size' <= 4 * (stop - 1) /\ Len(text') <= stop - 1
  <2>0. Len(text) \in Nat
    BY <1>2
  <2>1. CASE UNCHANGED <<size, text>>
    BY <1>2, <1>3, <1>4, <2>0, <2>1
  <2>2. CASE line # <<>> /\ size' = size + 4 * Len(line) /\ text' = text \o Joined(line)
    <3>1. bytes # <<>>
      <4>1. Len(line) # 0
        BY <1>6, <2>2
      <4>2. Len(bytes) # 0
        BY <1>6, <4>1
      <4> QED BY <4>2
    <3>2. Len(line) <= (stop - start) - 1
      BY <1>5, <1>6, <3>1
    <3>3. Joined(line) \in Seq(NoM) /\ Len(Joined(line)) <= Len(line) + 1
      BY <1>6, <2>2, SpaceShown, JoinedType
    <3>4. /\ text' \in Seq(NoM) /\ Len(text') = Len(text) + Len(Joined(line))
          /\ Len(Joined(line)) \in Nat
      BY <1>2, <2>2, <3>3
    <3>5. size' \in Nat /\ size' <= 4 * (stop - 1)
      BY <1>2, <1>3, <1>4, <1>6, <2>2, <3>2
    <3>6. Len(text') <= stop - 1
      BY <1>2, <1>3, <1>4, <1>6, <2>0, <3>2, <3>3, <3>4
    <3> QED BY <3>4, <3>5, <3>6
  <2> QED BY <1>t, <2>1, <2>2
<1>8. ScanOK'
  <2>1. stop \in 1 .. Len(data) + 1
    BY <1>2, <1>4
  <2> QED BY <1>0, <1>i, <1>1, <1>2, <1>7, <2>1 DEF ScanOK
<1> QED BY <1>0, <1>8, StepInv

\* So does the text after the last tag.
LEMMA XmlRestInv == IInv /\ XmlRest => IInv'
<1> SUFFICES ASSUME IInv, XmlRest PROVE IInv'
  OBVIOUS
<1>0. /\ stage = "scan" /\ format \in {"xml", "zip"} /\ index' = Len(data) /\ index < Len(data)
      /\ UNCHANGED <<given, stage, read, words>>
      /\ isText' = isText /\ size' = size /\ text' = text
  <2>1. ~(index >= Len(data)) /\ index \in 1 .. Len(data) + 1 /\ data \in Seq(STRING)
    BY DEF XmlRest, AtEnd, IInv, ScanOK, DataOK
  <2>2. index < Len(data)
    <3>1. Len(data) \in Nat
      BY <2>1
    <3> QED BY <2>1, <3>1
  <2> QED BY <2>2 DEF XmlRest
<1>1. format' = format /\ data' = data /\ NoM' = NoM
  BY <1>0, SameMarkup DEF given, read
<1>2. /\ data \in Seq(STRING) /\ Len(data) \in Nat /\ index \in 1 .. Len(data) + 1
      /\ isText \in BOOLEAN /\ text \in Seq(NoM) /\ size \in Nat /\ Len(text) \in Nat
  BY DEF IInv, DataOK, ScanOK
<1>3. size <= 4 * (index - 1) /\ Len(text) <= index - 1
  BY <1>0 DEF IInv, ScanOK
<1>4. size <= 4 * (index' - 1) /\ Len(text) <= index' - 1 /\ index' \in 1 .. Len(data) + 1
  BY <1>0, <1>2, <1>3
<1>5. ScanOK'
  BY <1>0, <1>1, <1>2, <1>4 DEF ScanOK
<1> QED BY <1>0, <1>5, StepInv

\* So does the end of an XML file.
LEMMA XmlEndInv == IInv /\ XmlEnd => IInv'
<1> SUFFICES ASSUME IInv, XmlEnd PROVE IInv'
  OBVIOUS
<1>0. stage' = "tokenize" /\ format \in {"xml", "zip"} /\ UNCHANGED <<given, read, scan, words>>
  BY DEF XmlEnd
<1>1. ScanOK'
  <2>1. ScanOK /\ format' = format /\ data' = data /\ NoM' = NoM
    BY <1>0, SameMarkup DEF IInv, given, read
  <2> QED BY <1>0, <2>1 DEF ScanOK, scan
<1> QED BY <1>0, <1>1, StepInv

\* The documents are made of tokens whose texts hold no letter of markup.
LEMMA DocumentType ==
  ASSUME format = "pdf", format \in Formats, input \in Inputs[format]
  PROVE  input \in Seq(Seq(TokenOf(NoM)))
<1> DEFINE T == TokenOf(NoM)
           V == Seq(Tokens)
           U == Seq(T)
<1>1. /\ input \in Seq(Seq(Tokens))
      /\ \A p \in DOMAIN input : \A t \in DOMAIN input[p] :
           Len(input[p][t].text) <= Longest /\ Len(FlattenSeq(input[p][t].parts)) <= Longest
  BY InputAssumption
<1>2. \A p \in DOMAIN input : \A t \in DOMAIN input[p] :
        /\ input[p][t].kind = "string" => "m" \notin ToSet(input[p][t].text)
        /\ \A k \in DOMAIN input[p][t].parts : "m" \notin ToSet(input[p][t].parts[k])
  BY MarkupAssumption
<1>3. ASSUME NEW s \in Seq(STRING), "m" \notin ToSet(s) PROVE s \in Seq(NoM)
  <2>1. \A i \in 1 .. Len(s) : s[i] \in NoM
    <3> TAKE i \in 1 .. Len(s)
    <3>1. s[i] \in STRING /\ s[i] # "m"
      BY <1>3 DEF ToSet
    <3> QED BY <3>1 DEF NoM
  <2>2. Len(s) \in Nat /\ s = [i \in 1 .. Len(s) |-> s[i]]
    OBVIOUS
  <2>3. s \in [1 .. Len(s) -> NoM]
    BY <2>1, <2>2
  <2> QED BY <2>2, <2>3, MapType
<1>4. ASSUME NEW p \in DOMAIN input, NEW t \in DOMAIN input[p] PROVE input[p][t] \in T
  <2> DEFINE k == input[p][t]
             X == Seq(STRING)
             Y == Seq(NoM)
  <2>1. k \in Tokens
    <3>1. input[p] \in V
      <4> HIDE DEF V
      <4> QED BY <1>1, <1>4 DEF V
    <3> QED BY <1>4, <3>1
  <2>2. Len(k.text) <= Longest /\ Len(FlattenSeq(k.parts)) <= Longest
    BY <1>1, <1>4
  <2>3. k.kind = "string" => "m" \notin ToSet(k.text)
    BY <1>2, <1>4
  <2>4. \A q \in DOMAIN k.parts : "m" \notin ToSet(k.parts[q])
    BY <1>2, <1>4
  <2> HIDE DEF k
  <2>5. k.text \in X /\ k.parts \in Seq(X)
    BY <2>1 DEF Tokens
  <2>6. k.kind = "string" => k.text \in Seq(NoM)
    BY <1>3, <2>3, <2>5
  <2>7. k.parts \in Seq(Y)
    <3> DEFINE u == k.parts
    <3>1. u \in Seq(X) /\ \A q \in DOMAIN u : "m" \notin ToSet(u[q])
      BY <2>4, <2>5
    <3> HIDE DEF u
    <3>2. \A q \in 1 .. Len(u) : u[q] \in Y
      <4> TAKE q \in 1 .. Len(u)
      <4>1. u[q] \in X /\ "m" \notin ToSet(u[q])
        <5> HIDE DEF X
        <5> QED BY <3>1
      <4> QED BY <1>3, <4>1
    <3> HIDE DEF X, Y
    <3>3. Len(u) \in Nat /\ u = [q \in 1 .. Len(u) |-> u[q]]
      BY <3>1
    <3>4. u \in [1 .. Len(u) -> Y]
      BY <3>2, <3>3
    <3>5. u \in Seq(Y)
      BY <3>3, <3>4, MapType
    <3> QED BY <3>5 DEF u
  <2> QED BY <2>1, <2>2, <2>6, <2>7 DEF TokenOf, k
<1> HIDE DEF T
<1>5. ASSUME NEW p \in 1 .. Len(input) PROVE input[p] \in U
  <2> DEFINE s == input[p]
  <2>1. s \in Seq(Tokens)
    <3> HIDE DEF V
    <3> QED BY <1>1, <1>5 DEF V
  <2>2. \A t \in DOMAIN s : s[t] \in T
    BY <1>1, <1>4, <1>5
  <2> HIDE DEF s
  <2>3. Len(s) \in Nat /\ s = [t \in 1 .. Len(s) |-> s[t]] /\ DOMAIN s = 1 .. Len(s)
    BY <2>1
  <2>4. s \in [1 .. Len(s) -> T]
    BY <2>2, <2>3
  <2>5. s \in Seq(T)
    BY <2>3, <2>4, MapType
  <2> QED BY <2>5 DEF s
<1>6. Len(input) \in Nat /\ input = [p \in 1 .. Len(input) |-> input[p]]
  BY <1>1
<1> HIDE DEF U
<1>7. input \in [1 .. Len(input) -> U]
  BY <1>5, <1>6
<1>8. input \in Seq(U)
  BY <1>6, <1>7, MapType
<1> QED BY <1>8 DEF U, T

\* So does the text of a PDF file.
LEMMA PdfTextInv == IInv /\ PdfText => IInv'
<1> SUFFICES ASSUME IInv, PdfText PROVE IInv'
  OBVIOUS
<1> DEFINE r == ExtractText(input)
           j == JoinHyphens(r.found)
           o == OneLine(j)
<1>0. /\ stage = "read" /\ format = "pdf" /\ UNCHANGED <<given, read, words>>
      /\ index' = index /\ isText' = isText
      /\ stage' \in {"thrown", "tokenize", "crashed"}
  BY DEF PdfText
<1>t. \/ size' = size /\ text' = text
      \/ size' = r.size /\ text' = Wide(o)
  BY DEF PdfText
<1>1. format' = format /\ data' = data /\ NoM' = NoM
  BY <1>0, SameMarkup DEF given, read
<1>2. r \in Reader(NoM)
  <2>1. input \in Seq(Seq(TokenOf(NoM)))
    BY <1>0, DocumentType DEF IInv
  <2> QED BY <2>1, ExtractType
<1> HIDE DEF r
<1>3. /\ r.found \in Seq(Seq(NoM) \ {<<>>}) /\ r.size \in Nat
      /\ r.size = Len(FlattenSeq(r.found)) /\ r.size <= MaxPdf + Longest
  BY <1>2 DEF Reader, Fields
<1>4. j \in Seq(Seq(NoM) \ {<<>>}) /\ Len(FlattenSeq(j)) <= r.size
  BY <1>3, JoinHyphensType
<1> HIDE DEF j
<1>5. o \in Seq(NoM) /\ Len(o) <= 2 * Len(FlattenSeq(j))
  BY <1>4, OneLineType, SpaceShown
<1> HIDE DEF o
<1>6. Wide(o) \in Seq(NoM) /\ Len(Wide(o)) <= Len(o)
  <2>1. Wide(o) \in Seq(NoM \ {"C"}) /\ Len(Wide(o)) <= Len(o)
    BY <1>5, WideType
  <2> QED BY <2>1
<1>7. Len(Wide(o)) <= 2 * r.size
  <2>1. Len(FlattenSeq(j)) \in Nat
    <3>1. j \in Seq(Seq(NoM))
      BY <1>4
    <3>2. FlattenSeq(j) \in Seq(NoM)
      BY <3>1, FlattenType
    <3> QED BY <3>2
  <2>2. Len(Wide(o)) \in Nat /\ Len(o) \in Nat
    BY <1>5, <1>6
  <2> QED BY <1>3, <1>4, <1>5, <1>6, <2>1, <2>2
<1>8. /\ text \in Seq(NoM) /\ size \in Nat /\ size <= MaxPdf + Longest /\ Len(text) <= 2 * size
      /\ index \in 1 .. Len(data) + 1 /\ isText \in BOOLEAN
  BY <1>0 DEF IInv, ScanOK
<1>9. /\ text' \in Seq(NoM) /\ size' \in Nat /\ size' <= MaxPdf + Longest
      /\ Len(text') <= 2 * size'
  <2>1. CASE size' = size /\ text' = text
    BY <1>8, <2>1
  <2>2. CASE size' = r.size /\ text' = Wide(o)
    BY <1>3, <1>6, <1>7, <2>2
  <2> QED BY <1>t, <2>1, <2>2
<1>10. ScanOK'
  BY <1>0, <1>1, <1>8, <1>9 DEF ScanOK
<1> QED BY <1>0, <1>10, StepInv

\* So do the words of the text.
LEMMA ProcessInv == IInv /\ Process => IInv'
<1> SUFFICES ASSUME IInv, Process PROVE IInv'
  OBVIOUS
<1>0. /\ stage = "tokenize" /\ stage' = "done" /\ words' = NameWords \cup Tokenize(text)
      /\ UNCHANGED <<given, read, scan>>
  BY DEF Process
<1>1. format' = format /\ input' = input /\ stem' = stem /\ data' = data
  BY <1>0 DEF given, read
<1>2. DataOK'
  BY <1>0, DataStays DEF IInv
<1>3. ScanOK'
  <2>1. ScanOK
    BY DEF IInv
  <2> QED BY <1>0, <1>1, <2>1, SameMarkup DEF ScanOK, scan
<1>4. NothingFromMarkup'
  <2>1. NameWords' = NameWords /\ (Stretched' <=> Stretched)
    BY <1>1, SameMarkup DEF NameWords
  <2>2. text \in Seq(NoM)
    BY DEF IInv, ScanOK
  <2>3. \A w \in words' \ NameWords' : w \in Tokenize(text)
    BY <1>0, <2>1
  <2> QED BY <2>1, <2>2, <2>3, TokenizeMarkup DEF NothingFromMarkup, Special, Brackets
<1> QED BY <1>0, <1>1, <1>2, <1>3, <1>4 DEF IInv

-----------------------------------------------------------------------------
(* The theorems *)

\* The invariant holds of a file that has not been read.
LEMMA InitInv == Init => IInv
<1> SUFFICES ASSUME Init PROVE IInv
  OBVIOUS
<1>1. /\ format \in Formats /\ input \in Inputs[format] /\ stage = "read"
      /\ data = <<>> /\ entry = 1 /\ chunk = 0 /\ index = 1 /\ isText = TRUE
      /\ size = 0 /\ text = <<>> /\ words = {}
  BY DEF Init
<1>2. DataOK
  <2>1. <<>> \in Seq(STRING) /\ Len(<<>>) = 0
    OBVIOUS
  <2>2. MaxRead \in Nat /\ MaxText \in Nat /\ Longest \in Nat
    BY LimitAssumption
  <2>3. Unmarked
    BY <1>1, <2>1 DEF Unmarked
  <2> QED BY <1>1, <2>1, <2>2, <2>3 DEF DataOK
<1>3. ScanOK
  <2>1. <<>> \in Seq(NoM) /\ Len(<<>>) = 0 /\ MaxPdf \in Nat /\ Longest \in Nat
    BY PdfAssumption, LimitAssumption
  <2> QED BY <1>1, <2>1 DEF ScanOK
<1>4. NothingFromMarkup
  BY <1>1 DEF NothingFromMarkup
<1> QED BY <1>1, <1>2, <1>3, <1>4 DEF IInv

\* Every step of process() keeps it.
LEMMA NextInv == IInv /\ [Next]_vars => IInv'
<1> SUFFICES ASSUME IInv, [Next]_vars PROVE IInv'
  OBVIOUS
<1>1. CASE UNCHANGED vars
  <2>1. UNCHANGED <<format, input, stem, stage, data, entry, chunk, index, isText, size, text, words>>
    BY <1>1 DEF vars, given, read, scan
  <2>2. DataOK' /\ ScanOK' /\ NothingFromMarkup'
    <3>1. DataOK'
      <4>1. DataOK
        BY DEF IInv
      <4> QED BY <2>1, <4>1, DataStays DEF given, read
    <3>2. ScanOK'
      <4>1. ScanOK
        BY DEF IInv
      <4>2. Commanded' <=> Commanded
        BY <2>1 DEF Commanded
      <4> QED BY <2>1, <4>1, <4>2, SameMarkup DEF ScanOK
    <3>3. NothingFromMarkup'
      <4>1. NameWords' = NameWords /\ (Stretched' <=> Stretched)
        BY <2>1, SameMarkup DEF NameWords
      <4> QED BY <2>1, <4>1 DEF IInv, NothingFromMarkup
    <3> QED BY <3>1, <3>2, <3>3
  <2> QED BY <2>1, <2>2 DEF IInv
<1>2. CASE Next
  BY <1>2, ReadTextInv, CannotReadInv, ExtractInv, ExtractNothingInv, InflatedInv, TxtLinesInv, TexCharInv, TexEndInv,
     XmlTextInv, XmlRestInv, XmlEndInv, PdfTextInv, ProcessInv DEF Next
<1> QED BY <1>1, <1>2

\* Of every file without a tag cut in three: what has been read so far holds each "m"
\* within markup, and the text that has been gathered holds none.  Of every file: neither
\* is longer than the place that the loop has reached allows.
THEOREM Invariant == Spec => []IInv
BY InitInv, NextInv, PTL DEF Spec

\* The variables of process() keep their types for every set of files and every limit:
\* the inflater and the PDF reader stop within one chunk of their limits, the parser does
\* not leave its text, and only the tokenizers of TeX and PDF throw (zip_inflater.cpp:29,
\* pdf_tokenizer.cpp:127, string.cpp:197).
THEOREM TypeCorrect == Spec => []TypeOK
BY Invariant, InvTypeOK, PTL

\* No word of any file holds a separator, nor a letter of its markup unless a tag goes
\* over three chunks of an archive (string.cpp:190, 269, tex_tokenizer.cpp:37,
\* zip_inflater.cpp:28).
THEOREM MarkupStaysOut == Spec => []NothingFromMarkup
<1>1. IInv => NothingFromMarkup
  BY DEF IInv
<1> QED BY <1>1, Invariant, PTL

-----------------------------------------------------------------------------
(* What one text holds of another *)

At(t, k, u) == k + Len(u) <= Len(t) /\ \A n \in 1 .. Len(u) : t[k + n] = u[n]

\* u is a part of t.
Holds(t, u) == \E k \in Nat : At(t, k, u)

\* A part is a part of what its text is a part of.
LEMMA HoldsTrans ==
  ASSUME NEW S, NEW t \in Seq(S), NEW u \in Seq(S), NEW v \in Seq(S), Holds(t, u), Holds(u, v)
  PROVE  Holds(t, v)
<1>1. PICK k \in Nat : At(t, k, u)
  BY DEF Holds
<1>2. PICK m \in Nat : At(u, m, v)
  BY DEF Holds
<1>3. Len(t) \in Nat /\ Len(u) \in Nat /\ Len(v) \in Nat
  OBVIOUS
<1>4. k + m \in Nat /\ (k + m) + Len(v) <= Len(t)
  BY <1>1, <1>2, <1>3 DEF At
<1>5. ASSUME NEW n \in 1 .. Len(v) PROVE t[(k + m) + n] = v[n]
  <2>1. m + n \in 1 .. Len(u) /\ (k + m) + n = k + (m + n)
    BY <1>2, <1>3 DEF At
  <2>2. t[k + (m + n)] = u[m + n] /\ u[m + n] = v[n]
    BY <1>1, <1>2, <2>1 DEF At
  <2> QED BY <2>1, <2>2
<1> QED BY <1>4, <1>5 DEF Holds, At

\* What is joined holds what it is joined of.
LEMMA HoldsConcat ==
  ASSUME NEW S, NEW a \in Seq(S), NEW u \in Seq(S), NEW b \in Seq(S)
  PROVE  At((a \o u) \o b, Len(a), u) /\ Holds((a \o u) \o b, u) /\ Holds(a \o u, u) /\ Holds(u \o b, u)
<1>0. Len(a) \in Nat /\ Len(u) \in Nat /\ Len(b) \in Nat
  OBVIOUS
<1>1. At((a \o u) \o b, Len(a), u)
  <2> DEFINE t == (a \o u) \o b
  <2>1. Len(t) = (Len(a) + Len(u)) + Len(b)
    OBVIOUS
  <2>2. \A n \in 1 .. Len(u) : t[Len(a) + n] = u[n]
    OBVIOUS
  <2> HIDE DEF t
  <2>3. At(t, Len(a), u)
    BY <1>0, <2>1, <2>2 DEF At
  <2> QED BY <2>3 DEF t
<1>2. At(a \o u, Len(a), u)
  <2> DEFINE t == a \o u
  <2>1. Len(t) = Len(a) + Len(u)
    OBVIOUS
  <2>2. \A n \in 1 .. Len(u) : t[Len(a) + n] = u[n]
    OBVIOUS
  <2> HIDE DEF t
  <2>3. At(t, Len(a), u)
    BY <1>0, <2>1, <2>2 DEF At
  <2> QED BY <2>3 DEF t
<1>3. At(u \o b, 0, u)
  <2> DEFINE t == u \o b
  <2>1. Len(t) = Len(u) + Len(b)
    OBVIOUS
  <2>2. \A n \in 1 .. Len(u) : t[0 + n] = u[n]
    OBVIOUS
  <2> HIDE DEF t
  <2>3. At(t, 0, u)
    BY <1>0, <2>1, <2>2 DEF At
  <2> QED BY <2>3 DEF t
<1> QED BY <1>0, <1>1, <1>2, <1>3 DEF Holds

\* t is a, u and b.
Makes(a, u, b, t) == t = (a \o u) \o b

\* A text is what comes before a part, the part, and what comes after.
LEMMA AtSplit ==
  ASSUME NEW S, NEW t \in Seq(S), NEW u \in Seq(S), NEW k \in Nat, At(t, k, u)
  PROVE  \E a, b \in Seq(S) : Makes(a, u, b, t)
<1> DEFINE l == Len(t)
           e == k + Len(u)
           a == SubSeq(t, 1, k)
           b == SubSeq(t, e + 1, l)
<1>0. l \in Nat /\ Len(u) \in Nat /\ e \in Nat /\ e <= l /\ k <= e
  BY DEF At
<1>1. a \in Seq(S) /\ Len(a) = k /\ \A n \in 1 .. k : a[n] = t[n]
  <2>1. k <= l
    BY <1>0
  <2> QED BY <2>1
<1>2. b \in Seq(S) /\ Len(b) = l - e /\ \A n \in 1 .. l - e : b[n] = t[e + n]
  <2> HIDE DEF e
  <2>1. e + 1 \in 1 .. l + 1
    BY <1>0
  <2>2. b \in Seq(S) /\ Len(b) = l - e
    BY <1>0, <2>1
  <2>3. ASSUME NEW n \in 1 .. l - e PROVE b[n] = t[e + n]
    <3>1. e + n \in 1 .. l /\ ((e + 1) + n) - 1 = e + n
      BY <1>0
    <3> QED BY <1>0, <2>1, <3>1
  <2> QED BY <2>2, <2>3
<1>3. \A n \in 1 .. Len(u) : t[k + n] = u[n]
  BY DEF At
<1> HIDE DEF a, b, l
<1>4. t = (a \o u) \o b
  <2> DEFINE c == a \o u
  <2>1. c \in Seq(S) /\ Len(c) = e
    <3>1. Len(c) = Len(a) + Len(u) /\ c \in Seq(S)
      BY <1>1
    <3> QED BY <1>1, <3>1
  <2>2. ASSUME NEW n \in 1 .. e PROVE t[n] = c[n]
    <3>1. CASE n <= k
      <4>1. n \in 1 .. Len(a)
        BY <1>0, <1>1, <3>1
      <4>2. c[n] = a[n]
        BY <1>1, <4>1
      <4> QED BY <1>1, <4>1, <4>2
    <3>2. CASE n > k
      <4> DEFINE m == n - k
      <4>1. m \in 1 .. Len(u) /\ k + m = n
        BY <1>0, <3>2
      <4> HIDE DEF m
      <4>2. c[Len(a) + m] = u[m]
        BY <1>1, <4>1
      <4> QED BY <1>1, <1>3, <4>1, <4>2
    <3>3. n <= k \/ n > k
      BY <1>0
    <3> HIDE DEF c
    <3> QED BY <3>1, <3>2, <3>3
  <2> HIDE DEF c, e
  <2>3. Len(t) = Len(c) + Len(b)
    BY <1>0, <1>2, <2>1 DEF l
  <2>4. \A n \in 1 .. Len(c) : t[n] = c[n]
    BY <2>1, <2>2
  <2>5. \A n \in 1 .. Len(b) : t[Len(c) + n] = b[n]
    BY <1>2, <2>1
  <2>6. t = c \o b
    BY <1>2, <2>1, <2>3, <2>4, <2>5, IsConcat
  <2> QED BY <2>6 DEF c
<1>5. Makes(a, u, b, t)
  BY <1>4 DEF Makes
<1> QED BY <1>1, <1>2, <1>5

\* What narrow_to_wide() makes of a part is a part of what it makes of the whole.
LEMMA WideHolds ==
  ASSUME NEW S, NEW t \in Seq(S), NEW u \in Seq(S), Holds(t, u)
  PROVE  Holds(Wide(t), Wide(u))
<1>1. PICK k \in Nat : At(t, k, u)
  BY DEF Holds
<1>2. PICK a \in Seq(S), b \in Seq(S) : t = (a \o u) \o b
  <2>1. \E a, b \in Seq(S) : Makes(a, u, b, t)
    BY <1>1, AtSplit
  <2> QED BY <2>1 DEF Makes
<1>3. Wide(a) \in Seq(S) /\ Wide(b) \in Seq(S) /\ Wide(u) \in Seq(S)
  <2>1. \A s \in Seq(S) : Wide(s) \in Seq(S \ {"C"})
    BY WideType
  <2>2. Seq(S \ {"C"}) \subseteq Seq(S)
    OBVIOUS
  <2> QED BY <2>1, <2>2
<1>4. Wide((a \o u) \o b) = (Wide(a) \o Wide(u)) \o Wide(b)
  <2>1. a \o u \in Seq(S)
    OBVIOUS
  <2>2. Wide((a \o u) \o b) = Wide(a \o u) \o Wide(b)
    BY <2>1, WideConcat
  <2>3. Wide(a \o u) = Wide(a) \o Wide(u)
    BY WideConcat
  <2> QED BY <2>2, <2>3
<1> QED BY <1>2, <1>3, <1>4, HoldsConcat

\* What some texts in a row make is in what they all make.
LEMMA FlattenPart ==
  ASSUME NEW S, NEW parts \in Seq(Seq(S)), NEW k \in Nat, NEW u \in Seq(Seq(S)), At(parts, k, u)
  PROVE  Holds(FlattenSeq(parts), FlattenSeq(u))
<1> DEFINE X == Seq(S)
<1>1. parts \in Seq(X) /\ u \in Seq(X)
  OBVIOUS
<1> HIDE DEF X
<1>2. PICK a \in Seq(X), b \in Seq(X) : parts = (a \o u) \o b
  <2>1. \E a, b \in Seq(X) : Makes(a, u, b, parts)
    BY <1>1, AtSplit
  <2> QED BY <2>1 DEF Makes
<1>3. FlattenSeq(parts) = (FlattenSeq(a) \o FlattenSeq(u)) \o FlattenSeq(b)
  <2>1. a \in Seq(Seq(S)) /\ b \in Seq(Seq(S)) /\ u \in Seq(Seq(S))
    BY <1>1, <1>2 DEF X
  <2>2. a \o u \in Seq(Seq(S))
    <3>1. a \o u \in Seq(X)
      BY <1>1, <1>2
    <3> QED BY <3>1 DEF X
  <2>3. FlattenSeq((a \o u) \o b) = FlattenSeq(a \o u) \o FlattenSeq(b)
    BY <2>1, <2>2, FlattenConcat
  <2>4. FlattenSeq(a \o u) = FlattenSeq(a) \o FlattenSeq(u)
    BY <2>1, FlattenConcat
  <2> QED BY <1>2, <2>3, <2>4
<1>4. FlattenSeq(a) \in Seq(S) /\ FlattenSeq(b) \in Seq(S) /\ FlattenSeq(u) \in Seq(S)
  <2>1. a \in Seq(Seq(S)) /\ b \in Seq(Seq(S)) /\ u \in Seq(Seq(S))
    BY <1>1, <1>2 DEF X
  <2> QED BY <2>1, FlattenType
<1> QED BY <1>3, <1>4, HoldsConcat

\* Every part of a sequence of texts is in what they make.
LEMMA FlattenHolds ==
  ASSUME NEW S, NEW parts \in Seq(Seq(S)), NEW n \in 1 .. Len(parts)
  PROVE  Holds(FlattenSeq(parts), parts[n])
<1> DEFINE X == Seq(S)
           one == <<parts[n]>>
<1>1. parts \in Seq(X) /\ parts[n] \in X /\ Len(parts) \in Nat
  <2>1. parts \in Seq(X)
    OBVIOUS
  <2> HIDE DEF X
  <2> QED BY <2>1
<1> HIDE DEF X
<1>2. one \in Seq(X) /\ Len(one) = 1 /\ one[1] = parts[n]
  BY <1>1
<1> HIDE DEF one
<1>3. At(parts, n - 1, one) /\ n - 1 \in Nat
  <2>1. ASSUME NEW m \in 1 .. 1 PROVE parts[(n - 1) + m] = one[m]
    <3>1. m = 1 /\ (n - 1) + m = n
      BY <1>1
    <3> QED BY <1>2, <3>1
  <2> QED BY <1>1, <1>2, <2>1 DEF At
<1>4. one \in Seq(Seq(S)) /\ parts[n] \in Seq(S)
  BY <1>1, <1>2 DEF X
<1>5. FlattenSeq(one) = parts[n]
  BY <1>4, FlattenOne DEF one
<1> QED BY <1>3, <1>4, <1>5, FlattenPart

\* A part without a delimiter is within one of the pieces, and starts or ends it where a
\* delimiter comes before or after it.
LEMMA SplitRun ==
  ASSUME NEW S, NEW s \in Seq(S), NEW d, NEW u \in Seq(S), u # <<>>, NEW k \in Nat, At(s, k, u),
         \A n \in 1 .. Len(u) : u[n] \notin {"B", d}
  PROVE  \E o, y \in Seq(S) :
           /\ (o \o u) \o y \in ToSet(Split(s, d))
           /\ k = 0 \/ s[k] \in {"B", d} => o = <<>>
           /\ k + Len(u) = Len(s) \/ s[(k + Len(u)) + 1] \in {"B", d} => y = <<>>
<1> DEFINE parts == [i \in DOMAIN s |-> <<s[i]>>]
           blanks == {<<"B">>, <<d>>}
           i == k + 1
           j == k + Len(u)
           T == S
           X == Seq(S)
<1>0. /\ Len(s) \in Nat /\ Len(u) \in Nat /\ Len(u) # 0 /\ j <= Len(s)
      /\ i \in 1 .. Len(s) /\ j \in i .. Len(s) /\ DOMAIN s = 1 .. Len(s)
      /\ \A n \in 1 .. Len(u) : s[k + n] = u[n]
  BY DEF At
<1>1. parts \in Seq(Seq(S)) /\ FlattenSeq(parts) = s
  BY FlattenSingles
<1>2. Len(parts) = Len(s) /\ \A n \in 1 .. Len(s) : parts[n] = <<s[n]>> /\ s[n] \in S
  BY <1>0
<1>3. \A n \in 1 .. Len(parts) : parts[n] \in blanks \/ parts[n] \in Seq(T)
  BY <1>2
<1>4. Split(s, d) = Gather(parts, blanks)
  BY DEF Split
<1>5. \A n \in 1 .. Len(s) : parts[n] \in blanks <=> s[n] \in {"B", d}
  <2> TAKE n \in 1 .. Len(s)
  <2>1. \A x, y : <<x>> = <<y>> <=> x = y
    OBVIOUS
  <2>2. parts[n] = <<s[n]>>
    BY <1>2
  <2> DEFINE p == parts[n]
             c == s[n]
  <2>3. p = <<c>>
    BY <2>2
  <2> HIDE DEF p, c
  <2>4. (p = <<"B">> <=> c = "B") /\ (p = <<d>> <=> c = d)
    BY <2>1, <2>3, Zenon
  <2>5. p \in blanks <=> c \in {"B", d}
    BY <2>4, Zenon
  <2> QED BY <2>5, Zenon DEF p, c
<1> HIDE DEF parts, blanks
<1>6. \A n \in i .. j : parts[n] \notin blanks
  <2> TAKE n \in i .. j
  <2>1. n - k \in 1 .. Len(u) /\ k + (n - k) = n /\ n \in 1 .. Len(s)
    BY <1>0
  <2>2. s[n] = u[n - k]
    BY <1>0, <2>1
  <2> QED BY <1>5, <2>1, <2>2
<1>7. FlattenSeq(SubSeq(parts, i, j)) = u
  <2> DEFINE v == [n \in DOMAIN u |-> <<u[n]>>]
             p == SubSeq(parts, i, j)
  <2>1. v \in Seq(X) /\ FlattenSeq(v) = u
    BY FlattenSingles
  <2>2. Len(v) = Len(u) /\ \A n \in 1 .. Len(u) : v[n] = <<u[n]>>
    BY <1>0
  <2>3. p \in Seq(X) /\ Len(p) = Len(u) /\ \A n \in 1 .. Len(u) : p[n] = parts[k + n]
    <3> DEFINE m == Len(u)
    <3>1. parts \in Seq(X) /\ i \in 1 .. Len(parts) /\ j \in i .. Len(parts) /\ (j - i) + 1 = m
      BY <1>0, <1>1, <1>2
    <3> HIDE DEF X, m, j
    <3>2. p \in Seq(X) /\ Len(p) = m
      BY <1>0, <3>1
    <3>3. ASSUME NEW n \in 1 .. m PROVE p[n] = parts[k + n]
      <4>1. (i + n) - 1 = k + n /\ n \in 1 .. (j - i) + 1
        BY <1>0, <3>1
      <4> QED BY <3>1, <4>1
    <3> QED BY <3>2, <3>3 DEF m
  <2> HIDE DEF v, p, X
  <2>4. \A n \in 1 .. Len(p) : p[n] = v[n]
    <3> TAKE n \in 1 .. Len(p)
    <3>1. n \in 1 .. Len(u) /\ k + n \in 1 .. Len(s)
      BY <1>0, <2>3
    <3>2. p[n] = <<s[k + n]>> /\ s[k + n] = u[n]
      BY <1>0, <1>2, <2>3, <3>1
    <3> QED BY <2>2, <3>1, <3>2
  <2>5. p = v
    BY <2>1, <2>2, <2>3, <2>4, SeqEqual
  <2> QED BY <2>1, <2>5 DEF p
<1>8. PICK o \in Seq(T), y \in Seq(T) :
        /\ (o \o FlattenSeq(SubSeq(parts, i, j))) \o y \in ToSet(Gather(parts, blanks))
        /\ i = 1 \/ parts[i - 1] \in blanks => o = <<>>
        /\ j = Len(parts) \/ parts[j + 1] \in blanks => y = <<>>
  <2> HIDE DEF i, j
  <2>1. i \in 1 .. Len(parts) /\ j \in i .. Len(parts)
    BY <1>0, <1>2
  <2> QED BY <1>1, <1>3, <1>6, <1>7, <2>1, GatherRun
<1>9. k = 0 \/ s[k] \in {"B", d} => o = <<>>
  <2>1. CASE k = 0
    BY <1>8, <2>1
  <2>2. CASE k # 0 /\ s[k] \in {"B", d}
    <3>1. k \in 1 .. Len(s) /\ i - 1 = k
      BY <1>0, <2>2
    <3> QED BY <1>5, <1>8, <2>2, <3>1
  <2> QED BY <2>1, <2>2
<1>10. j = Len(s) \/ s[j + 1] \in {"B", d} => y = <<>>
  <2>1. CASE j = Len(s)
    BY <1>2, <1>8, <2>1
  <2>2. CASE j # Len(s) /\ s[j + 1] \in {"B", d}
    <3>1. j + 1 \in 1 .. Len(s)
      <4>1. j # Len(s)
        BY <2>2
      <4>2. j \in Nat /\ j <= Len(s) /\ Len(s) \in Nat
        BY <1>0
      <4> HIDE DEF j
      <4> QED BY <4>1, <4>2
    <3> QED BY <1>5, <1>8, <2>2, <3>1
  <2> QED BY <2>1, <2>2
<1> QED BY <1>4, <1>7, <1>8, <1>9, <1>10

\* trim() keeps a part that does not start or end with what it trims.
LEMMA TrimHolds ==
  ASSUME NEW S, NEW s \in Seq(S), NEW u \in Seq(S), Len(u) # 0, Holds(s, u),
         u[1] \notin Trimmed, u[Len(u)] \notin Trimmed
  PROVE  Holds(Trim(s), u)
<1>1. PICK k \in Nat : At(s, k, u)
  BY DEF Holds
<1>2. PICK a \in 1 .. Len(s) + 1, b \in 0 .. Len(s) :
        /\ Trim(s) = SubSeq(s, a, b)
        /\ \A i \in 1 .. Len(s) : s[i] \notin Trimmed => a <= i /\ i <= b
  BY TrimCuts
<1>3. /\ Len(s) \in Nat /\ Len(u) \in Nat /\ 1 \in 1 .. Len(u) /\ Len(u) \in 1 .. Len(u)
      /\ k + Len(u) <= Len(s) /\ \A n \in 1 .. Len(u) : s[k + n] = u[n]
  BY <1>1 DEF At
<1>4. a <= k + 1 /\ k + Len(u) <= b
  <2>1. s[k + 1] = u[1] /\ s[k + Len(u)] = u[Len(u)]
    BY <1>3
  <2>2. k + 1 \in 1 .. Len(s) /\ k + Len(u) \in 1 .. Len(s)
    BY <1>3
  <2> QED BY <1>2, <2>1, <2>2
<1> DEFINE t == SubSeq(s, a, b)
           m == (k + 1) - a
<1>5. Len(t) = (b - a) + 1 /\ \A i \in 1 .. Len(t) : t[i] = s[(a + i) - 1]
  <2>1. a \in 1 .. Len(s) + 1 /\ b \in Int /\ b <= Len(s) /\ a <= b
    BY <1>3, <1>4
  <2> QED BY <2>1, CutType
<1> HIDE DEF t
<1>6. m \in Nat /\ m + Len(u) <= Len(t) /\ a + m = k + 1 /\ a \in Nat /\ Len(t) \in Nat
  <2> DEFINE x == Len(u)
             y == Len(t)
             z == Len(s)
  <2>1. x \in Nat /\ z \in Nat /\ x # 0 /\ k \in Nat /\ y = (b - a) + 1
    BY <1>3, <1>5
  <2>2. a <= k + 1 /\ k + x <= b
    BY <1>4
  <2> HIDE DEF x, y, z
  <2>3. a \in Nat /\ b \in Nat
    <3>1. a \in 1 .. z + 1 /\ b \in 0 .. z
      BY DEF z
    <3> QED BY <2>1, <3>1
  <2>4. m \in Nat /\ m + x <= y /\ a + m = k + 1 /\ y \in Nat
    BY <2>1, <2>2, <2>3
  <2> QED BY <2>3, <2>4 DEF x, y
<1> HIDE DEF m
<1>7. ASSUME NEW n \in 1 .. Len(u) PROVE t[m + n] = u[n]
  <2>1. m + n \in 1 .. Len(t) /\ (a + (m + n)) - 1 = k + n
    <3> DEFINE x == Len(u)
               y == Len(t)
    <3>1. x \in Nat /\ y \in Nat /\ m \in Nat /\ m + x <= y /\ a + m = k + 1 /\ a \in Nat /\ n \in 1 .. x
      BY <1>3, <1>6
    <3> HIDE DEF x, y
    <3>2. m + n \in 1 .. y
      BY <3>1
    <3>3. (a + (m + n)) - 1 = k + n
      BY <3>1
    <3> QED BY <3>2, <3>3 DEF y
  <2>2. t[m + n] = s[(a + (m + n)) - 1]
    BY <1>5, <2>1
  <2> QED BY <1>3, <2>1, <2>2
<1>8. At(t, m, u)
  BY <1>6, <1>7 DEF At
<1> QED BY <1>2, <1>6, <1>8 DEF Holds, t

\* A word between a space and what comes after it.
Spaced(w, e) == (<<Space>> \o w) \o <<e>>

\* A word between a space and its end.
LEMMA SpacedType ==
  ASSUME NEW S, Space \in S, NEW w \in Seq(S), NEW e \in S
  PROVE  /\ Spaced(w, e) \in Seq(S) /\ Len(Spaced(w, e)) = Len(w) + 2
         /\ Spaced(w, e)[1] = Space /\ Spaced(w, e)[Len(w) + 2] = e
         /\ \A n \in 1 .. Len(w) : Spaced(w, e)[n + 1] = w[n]
<1> DEFINE l == Len(w)
           a == <<Space>> \o w
           b == <<e>>
<1>0. l \in Nat
  OBVIOUS
<1>1. a \in Seq(S) /\ Len(a) = l + 1 /\ a[1] = Space /\ \A n \in 1 .. l : a[n + 1] = w[n]
  OBVIOUS
<1>2. b \in Seq(S) /\ Len(b) = 1 /\ b[1] = e
  OBVIOUS
<1> DEFINE t == a \o b
<1>3. Spaced(w, e) = t
  BY DEF Spaced
<1> HIDE DEF a, b, l
<1>4. t \in Seq(S) /\ Len(t) = l + 2
  <2>0. a \in Seq(S) /\ b \in Seq(S)
    BY <1>1, <1>2
  <2>1. t \in Seq(S) /\ Len(t) = Len(a) + Len(b)
    BY <2>0
  <2>2. Len(a) + Len(b) = l + 2
    BY <1>0, <1>1, <1>2
  <2> HIDE DEF t
  <2> QED BY <2>1, <2>2
<1>5. \A n \in 1 .. l + 1 : t[n] = a[n]
  BY <1>0, <1>1, <1>2
<1>6. t[l + 2] = e
  <2>1. t[Len(a) + 1] = b[1]
    <3>0. a \in Seq(S) /\ b \in Seq(S)
      BY <1>1, <1>2
    <3>1. 1 \in 1 .. Len(b)
      BY <1>2
    <3> QED BY <3>0, <3>1
  <2>2. Len(a) + 1 = l + 2
    BY <1>0, <1>1
  <2> QED BY <1>2, <2>1, <2>2
<1>7. t[1] = Space /\ \A n \in 1 .. l : t[n + 1] = w[n]
  <2>1. 1 \in 1 .. l + 1 /\ \A n \in 1 .. l : n + 1 \in 1 .. l + 1
    BY <1>0
  <2> QED BY <1>1, <1>5, <2>1
<1> QED BY <1>3, <1>4, <1>6, <1>7 DEF l

\* A word in a line is followed by a space, another separator or the end of the line;
\* the end of a line becomes a space, for the last letter is no hyphen.
LEMMA JoinedHolds ==
  ASSUME NEW S, Space \in S, NEW line \in Seq(S), line # <<>>, NEW w \in Seq(S), Len(w) # 0,
         \A n \in 1 .. Len(w) : Letter(w[n]),
         NEW e \in S, e \in {Space, "N"},
         NEW o \in Seq(S),
         line = o \o (<<Space>> \o w) \/ Holds(line, Spaced(w, e))
  PROVE  \E f \in {Space, "N"} \cap S : Holds(Joined(line), Spaced(w, f))
<1> DEFINE l == Len(line)
<1>0. l \in Nat /\ l # 0 /\ Last(line) = line[l] /\ Len(w) \in Nat
  BY DEF Last
<1>1. CASE Last(line) = "-"
  <2>1. Joined(line) = SubSeq(line, 1, l - 1)
    BY <1>1 DEF Joined, Front
  <2>2. ASSUME line = o \o (<<Space>> \o w) PROVE FALSE
    <3> DEFINE x == <<Space>> \o w
               k == Len(o)
    <3>1. x \in Seq(S) /\ Len(x) = Len(w) + 1 /\ x[Len(w) + 1] = w[Len(w)]
      BY <1>0
    <3> HIDE DEF x
    <3>2. Len(o \o x) = Len(o) + Len(x) /\ Len(o) \in Nat
          /\ (o \o x)[Len(o) + (Len(w) + 1)] = x[Len(w) + 1]
      <4>0. x \in Seq(S)
        BY <3>1
      <4>1. Len(o \o x) = Len(o) + Len(x) /\ Len(o) \in Nat
        BY <4>0
      <4>2. Len(w) + 1 \in 1 .. Len(x)
        BY <1>0, <3>1
      <4> QED BY <4>0, <4>1, <4>2
    <3>3. line[l] = w[Len(w)]
      <4>1. line = o \o x
        BY <2>2 DEF x
      <4>2. l = Len(o) + (Len(w) + 1)
        BY <3>1, <3>2, <4>1
      <4> QED BY <3>1, <3>2, <4>1, <4>2
    <3>4. Letter(w[Len(w)])
      BY <1>0
    <3> QED BY <1>0, <1>1, <3>3, <3>4 DEF Letter
  <2>3. PICK k \in Nat : At(line, k, Spaced(w, e))
    BY <2>2 DEF Holds
  <2>4. /\ Spaced(w, e) \in Seq(S) /\ Len(Spaced(w, e)) = Len(w) + 2
        /\ Spaced(w, e)[Len(w) + 2] = e
    BY SpacedType
  <2> DEFINE u == Spaced(w, e)
  <2> HIDE DEF u
  <2>5. Len(u) = Len(w) + 2 /\ k + Len(u) <= l /\ \A n \in 1 .. Len(u) : line[k + n] = u[n]
    BY <2>3, <2>4 DEF At, u
  <2>6. k + Len(u) # l
    <3>1. ASSUME k + Len(u) = l PROVE FALSE
      <4>1. Len(w) + 2 \in 1 .. Len(u)
        BY <1>0, <2>5
      <4>2. line[l] = e
        BY <2>4, <2>5, <3>1, <4>1 DEF u
      <4>3. e = "-"
        BY <1>0, <1>1, <4>2
      <4>4. Space # "-"
        BY DEF Space
      <4> QED BY <4>3, <4>4
    <3> QED BY <3>1
  <2> DEFINE t == SubSeq(line, 1, l - 1)
  <2>7. Len(t) = l - 1 /\ \A n \in 1 .. l - 1 : t[n] = line[n]
    BY <1>0
  <2> HIDE DEF t
  <2>8. k + Len(u) <= Len(t)
    <3>1. Len(u) \in Nat
      BY <1>0, <2>5
    <3>2. k + Len(u) <= l /\ k + Len(u) # l
      BY <2>5, <2>6
    <3>3. Len(t) = l - 1
      BY <2>7
    <3> QED BY <1>0, <3>1, <3>2, <3>3
  <2>9. ASSUME NEW n \in 1 .. Len(u) PROVE t[k + n] = u[n]
    <3>1. k + n \in 1 .. l - 1
      BY <1>0, <2>5, <2>7, <2>8
    <3> QED BY <2>5, <2>7, <3>1
  <2>10. Holds(t, u)
    BY <2>8, <2>9 DEF Holds, At
  <2> QED BY <2>1, <2>10 DEF t, u
<1>2. CASE Last(line) # "-"
  <2>1. Joined(line) = line \o <<Space>>
    BY <1>2 DEF Joined, Space
  <2>2. <<Space>> \in Seq(S)
    OBVIOUS
  <2>3. CASE line = o \o (<<Space>> \o w)
    <3> DEFINE x == <<Space>> \o w
               y == <<Space>>
    <3>1. x \in Seq(S) /\ y \in Seq(S)
      OBVIOUS
    <3>2. Spaced(w, Space) = x \o y
      BY DEF Spaced
    <3>3. Joined(line) = (o \o x) \o y
      BY <2>1, <2>3
    <3> HIDE DEF x, y
    <3>4. (o \o x) \o y = o \o (x \o y) /\ x \o y \in Seq(S)
      BY <3>1
    <3>5. Holds(o \o (x \o y), x \o y)
      BY <3>4, HoldsConcat
    <3> QED BY <3>2, <3>3, <3>4, <3>5 DEF Space
  <2>4. CASE Holds(line, Spaced(w, e))
    <3>1. Spaced(w, e) \in Seq(S) /\ line \o <<Space>> \in Seq(S)
      BY SpacedType
    <3>2. Holds(line \o <<Space>>, line)
      BY <2>2, HoldsConcat
    <3>3. Holds(line \o <<Space>>, Spaced(w, e))
      BY <2>4, <3>1, <3>2, HoldsTrans
    <3> QED BY <2>1, <3>3
  <2> QED BY <2>3, <2>4
<1> QED BY <1>1, <1>2

\* A word of a line follows a space, and a separator or the end of the line follows it.
StandsAt(line, m, w) ==
  /\ m + (Len(w) + 1) <= Len(line) /\ line[m + 1] = Space
  /\ \A n \in 1 .. Len(w) : line[m + (n + 1)] = w[n]
  /\ m + (Len(w) + 1) = Len(line) \/ line[m + (Len(w) + 2)] \in {Space, "N"}

\* tokenize() finds it.
LEMMA TokenizeAt ==
  ASSUME NEW S, Space \in S, NEW line \in Seq(S), NEW w \in Seq(S), Len(w) \in 2 .. MaxWord,
         w \notin Spelled, \A n \in 1 .. Len(w) : Letter(w[n]) /\ w[n] # "C",
         NEW m \in Nat, StandsAt(line, m, w)
  PROVE  w \in Tokenize(line)
<1> DEFINE cut == Special \cup {"N", "K"}
           b == Blanked(line, cut)
           l == Len(line)
           c == Len(w)
<1>0. l \in Nat /\ c \in Nat /\ c >= 2 /\ DOMAIN line = 1 .. l
  <2>1. MaxWord \in Nat /\ c \in 2 .. MaxWord
    BY LimitAssumption
  <2> QED BY <2>1
<1>1. b \in Seq(S) /\ Len(b) = l /\ \A i \in 1 .. l : b[i] = IF line[i] \in cut THEN Space ELSE line[i]
  <2>1. b = [i \in 1 .. l |-> IF line[i] \in cut THEN Space ELSE line[i]]
    BY <1>0 DEF Blanked, Space
  <2>2. \A i \in 1 .. l : line[i] \in S
    OBVIOUS
  <2> HIDE DEF b, cut
  <2>3. b \in [1 .. l -> S]
    BY <2>1, <2>2
  <2>4. b \in Seq(S) /\ Len(b) = l
    BY <1>0, <2>3
  <2> QED BY <2>1, <2>4
<1>2. m + (c + 1) <= l
  BY DEF StandsAt
<1>3. line[m + 1] = Space /\ \A n \in 1 .. c : line[m + (n + 1)] = w[n]
  BY DEF StandsAt
<1> DEFINE k == m + 1
<1>4. \A x : Letter(x) => x \notin cut /\ x \notin {"B", " "} /\ x \notin Trimmed /\ x # "9"
  BY DEF Letter, Special, Brackets, Trimmed
<1>5. \A n \in 1 .. c : b[k + n] = w[n] /\ w[n] \notin {"B", " "} /\ w[n] \notin Trimmed /\ w[n] # "9"
  <2> TAKE n \in 1 .. c
  <2>1. m + (n + 1) = k + n /\ k + n \in 1 .. l
    BY <1>0, <1>2
  <2>2. Letter(w[n]) /\ line[k + n] = w[n]
    BY <1>3, <2>1
  <2> HIDE DEF cut, b, k
  <2> QED BY <1>1, <1>4, <2>1, <2>2
<1>6. b[k] = Space /\ k \in Nat /\ k + c <= l /\ (k + c = l \/ b[(k + c) + 1] = Space)
  <2>1. k \in 1 .. l /\ k + c = m + (c + 1) /\ k + c <= l
    BY <1>0, <1>2
  <2>2. line[k] = Space
    BY <1>3
  <2>3. CASE k + c = l
    <3> HIDE DEF cut, b
    <3> QED BY <1>1, <2>1, <2>2, <2>3
  <2>4. CASE k + c # l
    <3>0. k + c \in Nat
      BY <1>0, <2>1
    <3>1. (k + c) + 1 \in 1 .. l /\ (k + c) + 1 = m + (c + 2) /\ m + (c + 1) # l
      <4> HIDE DEF l, c
      <4>1. k + c < l
        BY <1>0, <2>1, <2>4, <3>0
      <4>2. (k + c) + 1 \in 1 .. l
        BY <1>0, <3>0, <4>1
      <4>3. (k + c) + 1 = m + (c + 2)
        BY <1>0
      <4> QED BY <2>1, <2>4, <4>2, <4>3
    <3>2. line[(k + c) + 1] \in {Space, "N"}
      BY <3>1 DEF StandsAt
    <3>3. "N" \in cut
      OBVIOUS
    <3> HIDE DEF cut, b, k
    <3>4. b[k] = Space
      BY <1>1, <2>1, <2>2
    <3>5. b[(k + c) + 1] = Space
      BY <1>1, <3>1, <3>2, <3>3 DEF Space
    <3> QED BY <2>1, <3>4, <3>5
  <2> QED BY <2>3, <2>4
<1> HIDE DEF b, k
<1>7. At(b, k, w)
  <2>1. k + c <= Len(b)
    <3> HIDE DEF c
    <3> QED BY <1>0, <1>1, <1>6
  <2>2. \A n \in 1 .. c : b[k + n] = w[n]
    BY <1>5
  <2> QED BY <2>1, <2>2 DEF At
<1>8. w \in ToSet(Split(b, " "))
  <2>1. \A n \in 1 .. Len(w) : w[n] \notin {"B", " "}
    BY <1>5
  <2>2. w # <<>>
    BY <1>0
  <2>3. PICK o \in Seq(S), y \in Seq(S) :
          /\ (o \o w) \o y \in ToSet(Split(b, " "))
          /\ k = 0 \/ b[k] \in {"B", " "} => o = <<>>
          /\ k + Len(w) = Len(b) \/ b[(k + Len(w)) + 1] \in {"B", " "} => y = <<>>
    BY <1>1, <1>6, <1>7, <2>1, <2>2, SplitRun
  <2>4. o = <<>> /\ y = <<>>
    <3>1. b[k] \in {"B", " "}
      BY <1>6 DEF Space
    <3>2. k + Len(w) = Len(b) \/ b[(k + Len(w)) + 1] \in {"B", " "}
      <4>1. k + c = l => k + Len(w) = Len(b)
        BY <1>1
      <4>2. b[(k + c) + 1] = Space => b[(k + Len(w)) + 1] \in {"B", " "}
        BY DEF Space
      <4> HIDE DEF c
      <4> QED BY <1>6, <4>1, <4>2
    <3> HIDE DEF c, k
    <3> QED BY <2>3, <3>1, <3>2, Zenon
  <2>5. (<<>> \o w) \o <<>> = w
    OBVIOUS
  <2> QED BY <2>3, <2>4, <2>5
<1>9. Trim(w) = w
  <2>0. \A n \in 1 .. c : w[n] \in S
    OBVIOUS
  <2>1. \A n \in 1 .. c : w[n] \in S \ Trimmed
    BY <1>5, <2>0
  <2>2. w = [n \in 1 .. c |-> w[n]]
    OBVIOUS
  <2> HIDE DEF c
  <2>3. w \in [1 .. c -> S \ Trimmed]
    BY <2>1, <2>2
  <2>4. w \in Seq(S \ Trimmed)
    BY <1>0, <2>3, MapType
  <2> QED BY <2>4, TrimSame
<1>10. ~IsNumeric(w)
  <2>0. 1 \in 1 .. c /\ 1 \in DOMAIN w
    BY <1>0
  <2>1. 1 \in DOMAIN w /\ w[1] # "9"
    <3> HIDE DEF c
    <3> QED BY <1>5, <2>0, Zenon
  <2>2. ~Digits(w)
    BY <2>1 DEF Digits
  <2>3. ASSUME NEW n \in 2 .. Len(w) - 1 PROVE ~Digits(SubSeq(w, 1, n - 1))
    <3> DEFINE u == SubSeq(w, 1, n - 1)
    <3>1. 1 \in 1 .. Len(w) /\ n - 1 \in 1 .. Len(w)
      BY <1>0
    <3>2. 1 \in DOMAIN u /\ u[1] = w[1]
      BY <3>1
    <3> HIDE DEF u
    <3>3. ~Digits(u)
      BY <2>1, <3>2 DEF Digits
    <3> QED BY <3>3 DEF u
  <2> QED BY <2>2, <2>3 DEF IsNumeric
<1> QED BY <1>8, <1>9, <1>10 DEF Tokenize, b

\* A word between spaces is among the words of a line.
LEMMA TokenizeHolds ==
  ASSUME NEW S, Space \in S, NEW line \in Seq(S), NEW w \in Seq(S), Len(w) \in 2 .. MaxWord,
         w \notin Spelled, \A n \in 1 .. Len(w) : Letter(w[n]) /\ w[n] # "C",
         NEW e \in S, e \in {Space, "N"}, Holds(line, Spaced(w, e))
  PROVE  w \in Tokenize(line)
<1> DEFINE l == Len(line)
           c == Len(w)
<1>0. l \in Nat /\ c \in Nat /\ c >= 2
  <2>1. MaxWord \in Nat /\ c \in 2 .. MaxWord
    BY LimitAssumption
  <2> QED BY <2>1
<1>2. PICK m \in Nat : At(line, m, Spaced(w, e))
  BY DEF Holds
<1>3. /\ m + (c + 2) <= l /\ line[m + 1] = Space /\ line[m + (c + 2)] = e
      /\ \A n \in 1 .. c : line[m + (n + 1)] = w[n]
  <2>1. /\ Len(Spaced(w, e)) = c + 2
        /\ Spaced(w, e)[1] = Space /\ Spaced(w, e)[c + 2] = e
        /\ \A n \in 1 .. c : Spaced(w, e)[n + 1] = w[n]
    BY SpacedType
  <2> DEFINE u == Spaced(w, e)
  <2>2. m + Len(u) <= l /\ \A n \in 1 .. Len(u) : line[m + n] = u[n]
    BY <1>2 DEF At
  <2>3. 1 \in 1 .. c + 2 /\ c + 2 \in 1 .. c + 2 /\ \A n \in 1 .. c : n + 1 \in 1 .. c + 2
    BY <1>0
  <2> HIDE DEF u, c
  <2> QED BY <2>1, <2>2, <2>3 DEF u
<1>4. m + (c + 1) <= l
  BY <1>0, <1>3
<1>5. StandsAt(line, m, w)
  BY <1>3, <1>4 DEF StandsAt
<1> QED BY <1>5, TokenizeAt

-----------------------------------------------------------------------------
(* No word is lost: what the steps do *)

\* The characters of all texts.  (The provers do not know that "m" is in STRING either.)
Sigma == STRING \cup {Space, "m"}

\* Every text is one over Sigma.
LEMMA SigmaType ==
  /\ STRING \subseteq Sigma /\ NoM \subseteq Sigma /\ Space \in Sigma
  /\ \A s \in Seq(STRING) : s \in Seq(Sigma)
  /\ \A s \in Seq(NoM) : s \in Seq(Sigma)
<1>1. STRING \subseteq Sigma /\ NoM \subseteq Sigma /\ Space \in Sigma
  <2>1. Leaked = {"m"} \/ Leaked = {}
    BY Zenon DEF Leaked
  <2> QED BY <2>1 DEF NoM, Sigma
<1>2. ASSUME NEW A, NEW B, A \subseteq B, NEW s \in Seq(A) PROVE s \in Seq(B)
  BY <1>2
<1> QED BY <1>1, <1>2

\* What has not been looked at by another step stays.
Stays == UNCHANGED <<format, input, data, entry, chunk, index, size, text>>

\* The actions that get to the words.
LEMMA ToTokenize ==
  ASSUME [Next]_vars, stage' \in {"tokenize", "done"}
  PROVE  \/ TxtLines \/ TexEnd \/ XmlEnd \/ PdfText \/ Process
         \/ Stays /\ stage' = stage /\ words' = words
<1>1. CASE UNCHANGED vars
  BY <1>1 DEF vars, given, read, scan, Stays
<1>2. CASE Next
  <2>1. ~ReadText /\ ~CannotRead /\ ~Inflated
    BY DEF ReadText, CannotRead, Inflated
  <2>2. ~Extract /\ ~ExtractNothing
    BY DEF Extract, ExtractNothing
  <2>3. ~TexChar
    BY DEF TexChar
  <2>4. ~XmlText
    BY DEF XmlText
  <2>5. ~XmlRest
    BY DEF XmlRest
  <2> QED BY <1>2, <2>1, <2>2, <2>3, <2>4, <2>5 DEF Next
<1> QED BY <1>1, <1>2

\* The actions that get to the loops.
LEMMA ToScan ==
  ASSUME [Next]_vars, stage' = "scan"
  PROVE  \/ ReadText \/ Inflated \/ TexChar \/ XmlText \/ XmlRest
         \/ Stays /\ stage' = stage
<1>1. CASE UNCHANGED vars
  BY <1>1 DEF vars, given, read, scan, Stays
<1>2. CASE Next
  <2>1. ~CannotRead /\ ~Extract /\ ~ExtractNothing /\ ~TxtLines /\ ~XmlEnd /\ ~Process
    BY DEF CannotRead, Extract, ExtractNothing, TxtLines, XmlEnd, Process
  <2>2. ~TexEnd
    BY DEF TexEnd
  <2>3. ~PdfText
    BY DEF PdfText
  <2> QED BY <1>2, <2>1, <2>2, <2>3 DEF Next
<1> QED BY <1>1, <1>2

\* The words of the text are the words of the file.
DoneKept == stage = "done" => Tokenize(text) \subseteq words

\* The words are those of the text, in every step.
LEMMA DoneStep == DoneKept /\ [Next]_vars => DoneKept'
<1> SUFFICES ASSUME DoneKept, [Next]_vars, stage' = "done" PROVE Tokenize(text') \subseteq words'
  BY DEF DoneKept, Tokenize
<1>1. ~TxtLines /\ ~XmlEnd
  BY DEF TxtLines, XmlEnd
<1>2. ~TexEnd
  BY DEF TexEnd
<1>3. ~PdfText
  BY DEF PdfText
<1>4. CASE Process
  BY <1>4 DEF Process, scan
<1>5. CASE Stays /\ stage' = stage /\ words' = words
  BY <1>5 DEF Stays, DoneKept
<1> QED BY <1>1, <1>2, <1>3, <1>4, <1>5, ToTokenize

\* A text of lines.
TxtKept ==
  format = "txt" /\ stage \in {"tokenize", "done"} /\ Convertible(data)
    => text = JoinLines(Split(Wide(data), "N"))

\* The text of a plain file is its lines, in every step.
LEMMA TxtStep == TxtKept /\ [Next]_vars => TxtKept'
<1> SUFFICES ASSUME TxtKept, [Next]_vars, format' = "txt", stage' \in {"tokenize", "done"}
             PROVE  Convertible(data)' => text' = JoinLines(Split(Wide(data), "N"))'
  BY DEF TxtKept
<1>1. CASE TxtLines
  <2>1. /\ text' = IF Convertible(data) THEN JoinLines(Split(Wide(data), "N")) ELSE <<>>
        /\ data' = data
    BY <1>1 DEF TxtLines, read
  <2> QED BY <2>1
<1>2. ~TexEnd /\ ~XmlEnd
  BY DEF TexEnd, XmlEnd, given
<1>3. ~PdfText
  BY DEF PdfText, given
<1>4. CASE Process
  <2>1. stage = "tokenize" /\ UNCHANGED <<format, data, text>>
    BY <1>4 DEF Process, given, read, scan
  <2> QED BY <2>1 DEF TxtKept
<1>5. CASE Stays /\ stage' = stage
  <2>1. UNCHANGED <<format, data, text, stage>>
    BY <1>5 DEF Stays
  <2> QED BY <2>1 DEF TxtKept
<1> QED BY <1>1, <1>2, <1>3, <1>4, <1>5, ToTokenize

\* The byte at n stands for itself in a TeX text.
Plain(n) == data[n] \notin Brackets \cup {"\\", "$"}

\* The end of t is u.
EndsWith(t, u) == \E k \in Nat : At(t, k, u) /\ k + Len(u) = Len(t)

\* Every run of bytes that stand for themselves, outside of a command, is in the text.
TexRuns ==
  \A a \in 1 .. index - 1 : \A b \in a .. index - 1 :
    ~InCommand(data, a) /\ (\A n \in a .. b : Plain(n)) =>
      /\ Holds(text, SubSeq(data, a, b))
      /\ b = index - 1 => EndsWith(text, SubSeq(data, a, b))

TexWide ==
  \A a \in 1 .. Len(data) : \A b \in a .. Len(data) :
    ~InCommand(data, a) /\ (\A n \in a .. b : Plain(n)) => Holds(text, Wide(SubSeq(data, a, b)))

TexKept ==
  format = "tex" => /\ stage = "scan" => TexRuns
                    /\ stage \in {"tokenize", "done"} => TexWide

\* What a text holds, and ends with, when a character is appended.
LEMMA EndsAppend ==
  ASSUME NEW S, NEW t \in Seq(S), NEW u \in Seq(S), NEW c \in S
  PROVE  /\ Holds(t, u) => Holds(Append(t, c), u)
         /\ EndsWith(t, u) => EndsWith(Append(t, c), Append(u, c))
         /\ EndsWith(t, u) => Holds(t, u)
         /\ EndsWith(Append(t, c), <<c>>)
<1>1. /\ Append(t, c) \in Seq(S) /\ Len(Append(t, c)) = Len(t) + 1 /\ Len(t) \in Nat
      /\ Append(t, c)[Len(t) + 1] = c /\ \A n \in 1 .. Len(t) : Append(t, c)[n] = t[n]
  OBVIOUS
<1>2. /\ Append(u, c) \in Seq(S) /\ Len(Append(u, c)) = Len(u) + 1 /\ Len(u) \in Nat
      /\ Append(u, c)[Len(u) + 1] = c /\ \A n \in 1 .. Len(u) : Append(u, c)[n] = u[n]
  OBVIOUS
<1> DEFINE ta == Append(t, c)
           ua == Append(u, c)
<1> HIDE DEF ta, ua
<1>3. ASSUME Holds(t, u) PROVE Holds(ta, u)
  <2>1. PICK k \in Nat : k + Len(u) <= Len(t) /\ \A n \in 1 .. Len(u) : t[k + n] = u[n]
    BY <1>3 DEF Holds, At
  <2>2. \A n \in 1 .. Len(u) : k + n \in 1 .. Len(t)
    BY <1>1, <1>2, <2>1
  <2>3. \A n \in 1 .. Len(u) : ta[k + n] = u[n]
    BY <1>1, <2>1, <2>2 DEF ta
  <2>4. k + Len(u) <= Len(ta)
    BY <1>1, <1>2, <2>1 DEF ta
  <2> QED BY <2>3, <2>4 DEF Holds, At
<1>4. ASSUME EndsWith(t, u) PROVE EndsWith(ta, ua)
  <2>1. PICK k \in Nat : k + Len(u) = Len(t) /\ \A n \in 1 .. Len(u) : t[k + n] = u[n]
    BY <1>4 DEF EndsWith, At
  <2>2. k + Len(ua) = Len(ta)
    BY <1>1, <1>2, <2>1 DEF ta, ua
  <2>3. ASSUME NEW n \in 1 .. Len(ua) PROVE ta[k + n] = ua[n]
    <3>1. n \in 1 .. Len(u) \/ n = Len(u) + 1
      BY <1>2, <2>3 DEF ua
    <3>2. CASE n \in 1 .. Len(u)
      <4>1. k + n \in 1 .. Len(t)
        BY <1>1, <1>2, <2>1, <3>2
      <4> QED BY <1>1, <1>2, <2>1, <3>2, <4>1 DEF ta, ua
    <3>3. CASE n = Len(u) + 1
      <4>1. k + n = Len(t) + 1
        BY <1>1, <1>2, <2>1, <3>3
      <4> QED BY <1>1, <1>2, <3>3, <4>1 DEF ta, ua
    <3> QED BY <3>1, <3>2, <3>3
  <2>4. k + Len(ua) <= Len(ta)
    BY <1>1, <2>2 DEF ta
  <2> QED BY <2>2, <2>3, <2>4 DEF EndsWith, At
<1>5. EndsWith(t, u) => Holds(t, u)
  BY DEF EndsWith, Holds
<1>6. EndsWith(ta, <<c>>)
  <2>1. Len(<<c>>) = 1 /\ \A n \in 1 .. 1 : n = 1 /\ <<c>>[n] = c
    OBVIOUS
  <2>2. \A n \in 1 .. Len(<<c>>) : ta[Len(t) + n] = <<c>>[n]
    BY <1>1, <2>1 DEF ta
  <2>3. Len(t) + Len(<<c>>) = Len(ta)
    BY <1>1, <2>1 DEF ta
  <2>4. Len(t) + Len(<<c>>) <= Len(ta)
    BY <1>1, <2>1, <2>3 DEF ta
  <2> QED BY <1>1, <2>2, <2>3, <2>4 DEF EndsWith, At
<1> QED BY <1>3, <1>4, <1>5, <1>6 DEF ta, ua

\* A run that has begun outside of a command is not within one later.
LEMMA RunOutside ==
  ASSUME data \in Seq(STRING), NEW a \in 1 .. Len(data), NEW m \in a .. Len(data),
         ~InCommand(data, a), \A n \in a .. m - 1 : Plain(n), index = m
  PROVE  ~Commanded
<1> SUFFICES ASSUME Commanded PROVE FALSE
  OBVIOUS
<1>0. Len(data) \in Nat
  OBVIOUS
<1>1. PICK j \in 1 .. m - 1 : data[j] = "\\" /\ \A k \in j + 1 .. m - 1 : data[k] \notin TexEnds
  BY DEF Commanded
<1>2. CASE j < a
  <2>1. j \in 1 .. a /\ \A k \in j + 1 .. a - 1 : k \in j + 1 .. m - 1
    BY <1>0, <1>1, <1>2
  <2>2. InCommand(data, a)
    BY <1>1, <2>1 DEF InCommand
  <2> QED BY <2>2
<1>3. CASE j >= a
  <2>1. j \in a .. m - 1
    BY <1>0, <1>1, <1>3
  <2> QED BY <1>1, <2>1 DEF Plain
<1> QED BY <1>0, <1>1, <1>2, <1>3

\* A character of a TeX file: what stands outside of commands is in the text.
LEMMA TexRunsStep == IInv /\ TexRuns /\ TexChar => TexRuns'
<1> SUFFICES ASSUME IInv, TexRuns, TexChar PROVE TexRuns'
  OBVIOUS
<1> DEFINE c == data[index]
           n == index
           shown == IF c \in Brackets THEN " " ELSE c
<1>0. /\ stage = "scan" /\ format = "tex" /\ index <= Len(data) /\ data' = data
      /\ text' = IF ~isText \/ c \in {"\\", "$"} THEN text ELSE Append(text, shown)
      /\ index' = n + 1
  BY DEF TexChar, read
<1>1. /\ data \in Seq(STRING) /\ Len(data) \in Nat /\ index \in 1 .. Len(data) /\ c \in STRING
      /\ text \in Seq(NoM) /\ (isText <=> ~Commanded)
  <2>1. data \in Seq(STRING) /\ index \in 1 .. Len(data) + 1
        /\ text \in Seq(NoM) /\ (isText <=> ~Commanded)
    BY <1>0 DEF IInv, DataOK, ScanOK
  <2>2. index <= Len(data)
    BY <1>0
  <2>3. Len(data) \in Nat /\ index \in 1 .. Len(data)
    BY <2>1, <2>2
  <2>4. data[index] \in STRING
    BY <2>1, <2>3
  <2> QED BY <2>1, <2>3, <2>4
<1>2. text \in Seq(Sigma) /\ shown \in Sigma /\ data \in Seq(Sigma) /\ c \in Sigma
  <2>2. " " \in Sigma
    BY DEF Sigma, Space
  <2> HIDE DEF c
  <2>1. c \in Sigma
    BY <1>1, SigmaType
  <2>3. shown \in Sigma
    BY <2>1, <2>2
  <2> HIDE DEF shown
  <2>4. text \in Seq(Sigma) /\ data \in Seq(Sigma)
    BY <1>1, SigmaType
  <2> QED BY <2>1, <2>3, <2>4
<1>3. index' - 1 = n /\ n \in 1 .. n
  <2>1. index' = index + 1
    BY <1>0
  <2>2. index \in 1 .. Len(data) /\ Len(data) \in Nat
    BY <1>1
  <2> QED BY <2>1, <2>2
<1> SUFFICES ASSUME NEW a \in 1 .. n, NEW b \in a .. n, ~InCommand(data, a),
                    \A m \in a .. b : Plain(m)
             PROVE  /\ Holds(text', SubSeq(data, a, b))
                    /\ b = n => EndsWith(text', SubSeq(data, a, b))
  <2> HIDE DEF n
  <2> QED BY <1>0, <1>3 DEF TexRuns, InCommand, Plain
<1> DEFINE u == SubSeq(data, a, b)
           v == SubSeq(data, a, n - 1)
<1>4. u \in Seq(Sigma) /\ a \in 1 .. Len(data) /\ b \in a .. Len(data)
  <2>1. a \in 1 .. Len(data) /\ b \in a .. Len(data)
    <3>1. index \in 1 .. Len(data) /\ Len(data) \in Nat
      BY <1>1
    <3> QED BY <3>1
  <2>2. SubSeq(data, a, b) \in Seq(Sigma)
    <3>1. data \in Seq(Sigma)
      BY <1>2
    <3> QED BY <2>1, <3>1
  <2> QED BY <2>1, <2>2
<1>5. CASE b # n
  <2>1. a \in 1 .. n - 1 /\ b \in a .. n - 1
    BY <1>1, <1>5
  <2>2. Holds(text, u)
    BY <2>1 DEF TexRuns
  <2>3. Holds(Append(text, shown), u)
    <3> HIDE DEF u, shown
    <3> QED BY <1>2, <1>4, <2>2, EndsAppend
  <2> HIDE DEF shown, u
  <2>4. text' = text \/ text' = Append(text, shown)
    BY <1>0
  <2>5. Holds(text', u)
    BY <2>2, <2>3, <2>4
  <2> QED BY <1>5, <2>5 DEF u
<1>6. CASE b = n
  <2>1. Plain(n) /\ \A m \in a .. n - 1 : Plain(m)
    <3>1. n \in a .. b /\ \A m \in a .. n - 1 : m \in a .. b
      BY <1>1, <1>6
    <3> QED BY <3>1
  <2>2. isText
    <3>1. n \in a .. Len(data) /\ index = n
      BY <1>1
    <3>2. ~Commanded
      <4> HIDE DEF n
      <4> QED BY <1>1, <1>4, <2>1, <3>1, RunOutside
    <3> QED BY <1>1, <3>2
  <2>3. text' = Append(text, c)
    <3>1. c \notin Brackets /\ c \notin {"\\", "$"}
      BY <2>1 DEF Plain
    <3> HIDE DEF c
    <3> QED BY <1>0, <2>2, <3>1
  <2>4. CASE a = n
    <3>1. u = <<c>>
      <4>1. n \in 1 .. Len(data) /\ n \in Nat
        BY <1>1
      <4>2. SubSeq(data, n, n) = <<data[n]>>
        <5>1. n \in n .. Len(data)
          BY <4>1
        <5>2. /\ SubSeq(data, n, n) = Append(SubSeq(data, n, n - 1), data[n])
              /\ SubSeq(data, n, n - 1) = <<>>
          <6> HIDE DEF n
          <6> QED BY <1>2, <4>1, <5>1, SubSeqStep
        <5>3. \A x : Append(<<>>, x) = <<x>>
          OBVIOUS
        <5> QED BY <5>2, <5>3
      <4> QED BY <1>6, <2>4, <4>2
    <3>2. EndsWith(Append(text, c), <<c>>)
      <4> HIDE DEF c
      <4> QED BY <1>2, EndsAppend
    <3>4. Holds(Append(text, c), <<c>>)
      BY <3>2 DEF EndsWith, Holds
    <3>5. Holds(text', u) /\ EndsWith(text', u)
      <4> HIDE DEF u, c
      <4> QED BY <2>3, <3>1, <3>2, <3>4
    <3> QED BY <3>5
  <2>5. CASE a # n
    <3>1. a \in 1 .. n - 1 /\ n - 1 \in a .. n - 1
      BY <1>1, <2>5
    <3>2. EndsWith(text, v)
      BY <2>1, <3>1 DEF TexRuns
    <3>3. u = Append(v, c) /\ v \in Seq(Sigma)
      <4>1. n \in a .. Len(data)
        BY <1>1
      <4>2. SubSeq(data, a, n) = Append(SubSeq(data, a, n - 1), data[n]) /\ SubSeq(data, a, n - 1) \in Seq(Sigma)
        <5> HIDE DEF n
        <5> QED BY <1>2, <1>4, <4>1, SubSeqStep
      <4> QED BY <1>6, <4>2
    <3> HIDE DEF u, c, v
    <3>4. EndsWith(Append(text, c), Append(v, c))
      BY <1>2, <3>2, <3>3, EndsAppend
    <3>5. Holds(Append(text, c), Append(v, c))
      BY <3>4 DEF EndsWith, Holds
    <3>6. Holds(text', u) /\ EndsWith(text', u)
      BY <2>3, <3>3, <3>4, <3>5
    <3> QED BY <3>6 DEF u
  <2> QED BY <2>4, <2>5
<1> QED BY <1>5, <1>6

\* The conversion of the text keeps the runs.
LEMMA TexWideStep == IInv /\ TexRuns /\ TexEnd => TexWide'
<1> SUFFICES ASSUME IInv, TexRuns, TexEnd PROVE TexWide'
  OBVIOUS
<1>0. /\ stage = "scan" /\ format = "tex" /\ index > Len(data) /\ text' = Wide(text) /\ data' = data
  BY DEF TexEnd, read
<1>1. data \in Seq(STRING) /\ index \in 1 .. Len(data) + 1 /\ text \in Seq(NoM)
  BY DEF IInv, DataOK, ScanOK
<1>2. Len(data) \in Nat /\ index - 1 = Len(data)
  BY <1>0, <1>1
<1>3. text \in Seq(Sigma) /\ data \in Seq(Sigma)
  BY <1>1, SigmaType
<1> SUFFICES ASSUME NEW a \in 1 .. Len(data), NEW b \in a .. Len(data), ~InCommand(data, a),
                    \A n \in a .. b : Plain(n)
             PROVE  Holds(Wide(text), Wide(SubSeq(data, a, b)))
  BY <1>0 DEF TexWide, InCommand, Plain
<1>4. Holds(text, SubSeq(data, a, b))
  BY <1>2 DEF TexRuns
<1>5. SubSeq(data, a, b) \in Seq(Sigma)
  BY <1>2, <1>3
<1> QED BY <1>3, <1>4, <1>5, WideHolds

\* The text of a TeX file holds what stands outside of commands, in every step.
LEMMA TexStep == IInv /\ TexKept /\ [Next]_vars => TexKept'
<1> SUFFICES ASSUME IInv, TexKept, [Next]_vars, format' = "tex" PROVE TexKept'
  BY DEF TexKept
<1>1. ASSUME stage' = "scan" PROVE TexRuns'
  <2>1. CASE ReadText
    <3>1. index' = 1
      BY <2>1 DEF ReadText, scan, IInv, ScanOK
    <3> QED BY <3>1 DEF TexRuns
  <2>2. ~Inflated /\ ~XmlText
    BY <1>1 DEF Inflated, XmlText, given
  <2>3. ~XmlRest
    BY DEF XmlRest, given
  <2>4. CASE TexChar
    <3>1. TexRuns
      BY <2>4 DEF TexChar, TexKept
    <3> QED BY <2>4, <3>1, TexRunsStep
  <2>5. CASE Stays /\ stage' = stage
    <3>1. UNCHANGED <<format, data, text, index, stage>>
      BY <2>5 DEF Stays
    <3>2. TexRuns
      BY <1>1, <3>1 DEF TexKept
    <3> QED BY <3>1, <3>2 DEF TexRuns, InCommand, Plain
  <2> QED BY <1>1, <2>1, <2>2, <2>3, <2>4, <2>5, ToScan
<1>2. ASSUME stage' \in {"tokenize", "done"} PROVE TexWide'
  <2>1. ~TxtLines /\ ~XmlEnd
    BY DEF TxtLines, XmlEnd, given
  <2>2. ~PdfText
    BY DEF PdfText, given
  <2>3. CASE TexEnd
    <3>1. TexRuns
      BY <2>3 DEF TexEnd, TexKept
    <3> QED BY <2>3, <3>1, TexWideStep
  <2>4. CASE Process
    <3>1. stage = "tokenize" /\ UNCHANGED <<format, data, text>>
      BY <2>4 DEF Process, given, read, scan
    <3>2. TexWide
      BY <3>1 DEF TexKept
    <3> QED BY <3>1, <3>2 DEF TexWide, InCommand, Plain
  <2>5. CASE Stays /\ stage' = stage
    <3>1. UNCHANGED <<format, data, text, stage>>
      BY <2>5 DEF Stays
    <3>2. TexWide
      BY <1>2, <3>1 DEF TexKept
    <3> QED BY <3>1, <3>2 DEF TexWide, InCommand, Plain
  <2> QED BY <1>2, <2>1, <2>2, <2>3, <2>4, <2>5, ToTokenize
<1> QED BY <1>1, <1>2 DEF TexKept


\* A text between two tags, with no bracket in it.
Element(s, j, k) ==
  /\ s[j] = ">" /\ s[k] = "<" /\ \A n \in j + 1 .. k - 1 : s[n] \notin {"<", ">"}
  /\ Convertible(SubSeq(s, j + 1, k - 2))

\* What the loop of xml_tag_content() makes of it.
LineOf(s, j, k) == Trim(Wide(SubSeq(s, j + 1, k - 2)))

\* Every element that the parser has passed is in the text.
Taken ==
  \A j \in 1 .. Len(data) : \A k \in j + 1 .. Len(data) - 1 :
    Element(data, j, k) /\ k <= index /\ LineOf(data, j, k) # <<>>
      => Holds(text, Joined(LineOf(data, j, k)))

XmlKept ==
  format \in {"xml", "zip"} /\ stage \in {"scan", "tokenize", "done"} =>
    /\ Taken
    /\ index = 1 \/ data[index] = "<" \/ index >= Len(data)
    /\ stage \in {"tokenize", "done"} => index >= Len(data) \/ size >= MaxText

\* The line between two tags.
LEMMA LineType ==
  ASSUME NEW s \in Seq(STRING), NEW j \in 1 .. Len(s), NEW k \in j + 1 .. Len(s)
  PROVE  /\ SubSeq(s, j + 1, k - 2) \in Seq(Sigma)
         /\ LineOf(s, j, k) \in Seq(Sigma)
         /\ LineOf(s, j, k) # <<>> => Joined(LineOf(s, j, k)) \in Seq(Sigma)
<1> DEFINE b == SubSeq(s, j + 1, k - 2)
<1>1. b \in Seq(Sigma)
  <2>1. s \in Seq(Sigma)
    BY SigmaType
  <2>2. j + 1 \in 1 .. Len(s) + 1 /\ k - 2 \in Int /\ k - 2 <= Len(s)
    OBVIOUS
  <2> QED BY <2>1, <2>2, CutType
<1> HIDE DEF b
<1>2. Wide(b) \in Seq(Sigma)
  <2>1. Wide(b) \in Seq(Sigma \ {"C"})
    BY <1>1, WideType
  <2> QED BY <2>1
<1>3. LineOf(s, j, k) \in Seq(Sigma)
  BY <1>2, TrimType DEF LineOf, b
<1>4. LineOf(s, j, k) # <<>> => Joined(LineOf(s, j, k)) \in Seq(Sigma)
  BY <1>3, SigmaType, JoinedType
<1> QED BY <1>1, <1>3, <1>4 DEF b

\* The element that ends where next() stops next is the one that it finds.
LEMMA ElementFound ==
  ASSUME data \in Seq(STRING), index \in 1 .. Len(data) + 1,
         index = 1 \/ data[index] = "<" \/ index >= Len(data),
         NEW j \in 1 .. Len(data), NEW k \in j + 1 .. Len(data) - 1, Element(data, j, k), k > index
  PROVE  /\ k \in Stops
         /\ Stops # {} /\ k <= NextStop => k = NextStop /\ TextStart(NextStop) = j + 1
<1>0. Len(data) \in Nat /\ j \in Nat /\ k \in Nat
  OBVIOUS
<1>1. /\ data[j] = ">" /\ data[k] = "<" /\ \A n \in j + 1 .. k - 1 : data[n] \notin {"<", ">"}
  BY DEF Element
<1>2. j >= index
  <2>1. CASE index = 1
    BY <1>0, <2>1
  <2>2. CASE data[index] = "<"
    <3>1. j # index
      BY <1>1, <2>2
    <3>2. ~(j < index)
      <4>1. ASSUME j < index PROVE FALSE
        <5>1. index \in j + 1 .. k - 1
          BY <1>0, <4>1
        <5> QED BY <1>1, <2>2, <5>1
      <4> QED BY <4>1
    <3> QED BY <1>0, <3>1, <3>2
  <2>3. ~(index >= Len(data))
    BY <1>0
  <2> QED BY <2>1, <2>2, <2>3
<1>3. k \in Stops
  <2>1. k \in index .. Len(data) - 1 /\ j \in index .. k - 1
    BY <1>0, <1>2
  <2> QED BY <1>1, <2>1 DEF Stops
<1>4. ASSUME Stops # {}, k <= NextStop PROVE k = NextStop /\ TextStart(NextStop) = j + 1
  <2> DEFINE stop == NextStop
             start == TextStart(stop)
  <2>1. /\ stop \in index + 1 .. Len(data) - 1 /\ \A i \in Stops : stop <= i
        /\ start \in index + 1 .. stop /\ data[start - 1] = ">"
        /\ \A i \in start .. stop : data[i] # ">"
    BY <1>4, XmlPlace
  <2> HIDE DEF stop, start
  <2>2. k <= stop /\ stop <= k
    BY <1>3, <1>4, <2>1 DEF stop
  <2>3. k = stop
    BY <1>0, <2>1, <2>2
  <2>4. ~(j >= start)
    <3>1. ASSUME j >= start PROVE FALSE
      <4>1. j \in start .. stop
        BY <1>0, <2>1, <2>3, <3>1
      <4> QED BY <1>1, <2>1, <4>1
    <3> QED BY <3>1
  <2>5. ~(j < start - 1)
    <3>1. ASSUME j < start - 1 PROVE FALSE
      <4>1. start - 1 \in j + 1 .. k - 1
        BY <1>0, <2>1, <2>3, <3>1
      <4> QED BY <1>1, <2>1, <4>1
    <3> QED BY <3>1
  <2>6. start = j + 1
    BY <1>0, <2>1, <2>4, <2>5
  <2> QED BY <2>3, <2>6 DEF stop, start
<1> QED BY <1>3, <1>4

\* The text between two tags is taken.
LEMMA TakenStep == IInv /\ XmlKept /\ XmlText => Taken'
<1> SUFFICES ASSUME IInv, XmlKept, XmlText PROVE Taken'
  OBVIOUS
<1> DEFINE stop == NextStop
           start == TextStart(stop)
           bytes == TagText(start, stop)
           line == Trim(Wide(bytes))
<1>0. /\ stage = "scan" /\ format \in {"xml", "zip"} /\ Stops # {} /\ index' = stop
      /\ data' = data
  BY DEF XmlText, read
<1>1. /\ data \in Seq(STRING) /\ index \in 1 .. Len(data) + 1 /\ text \in Seq(NoM)
  BY DEF IInv, DataOK, ScanOK
<1>2. Taken /\ (index = 1 \/ data[index] = "<" \/ index >= Len(data))
  BY <1>0 DEF XmlKept
<1>3. text' = text \/ (line # <<>> /\ text' = text \o Joined(line))
  BY Zenon DEF XmlText, Take
<1>4. Convertible(bytes) => line = <<>> \/ text' = text \o Joined(line)
  BY Zenon DEF XmlText, Take
<1>5. text \in Seq(Sigma)
  BY <1>1, SigmaType
<1> HIDE DEF stop, start, bytes, line
<1> SUFFICES ASSUME NEW j \in 1 .. Len(data), NEW k \in j + 1 .. Len(data) - 1,
                    Element(data, j, k), k <= stop, LineOf(data, j, k) # <<>>
             PROVE  Holds(text', Joined(LineOf(data, j, k)))
  BY <1>0 DEF Taken
<1> DEFINE own == Joined(LineOf(data, j, k))
<1>6. own \in Seq(Sigma) /\ k \in Nat
  <2>1. k \in j + 1 .. Len(data) /\ k \in Nat
    BY <1>1
  <2> QED BY <1>1, <2>1, LineType
<1>7. CASE k <= index
  <2>1. Holds(text, own)
    BY <1>2, <1>7 DEF Taken
  <2>2. CASE text' = text
    BY <2>1, <2>2
  <2>3. CASE line # <<>> /\ text' = text \o Joined(line)
    <3>1. Joined(line) \in Seq(Sigma)
      <4>1. /\ stop \in index + 1 .. Len(data) - 1 /\ start \in index + 1 .. stop
        BY <1>0, <1>1, XmlPlace DEF stop, start
      <4>2. start - 1 \in 1 .. Len(data) /\ stop \in (start - 1) + 1 .. Len(data)
            /\ (start - 1) + 1 = start
        BY <1>1, <4>1
      <4>3. line = LineOf(data, start - 1, stop)
        BY <4>2 DEF line, bytes, LineOf, TagText
      <4> QED BY <1>1, <2>3, <4>2, <4>3, LineType
    <3> HIDE DEF own
    <3>2. Holds(text', text) /\ text' \in Seq(Sigma)
      <4> DEFINE x == Joined(line)
      <4>1. x \in Seq(Sigma) /\ text' = text \o x
        BY <2>3, <3>1
      <4> HIDE DEF x
      <4>2. text \o x \in Seq(Sigma) /\ Holds(text \o x, text)
        BY <1>5, <4>1, HoldsConcat
      <4> QED BY <4>1, <4>2
    <3>3. Holds(text', own)
      BY <1>5, <1>6, <2>1, <3>2, HoldsTrans
    <3> QED BY <3>3 DEF own
  <2> QED BY <1>3, <2>2, <2>3
<1>8. CASE k > index
  <2>1. k = stop /\ start = j + 1
    BY <1>0, <1>1, <1>2, <1>8, ElementFound DEF stop, start
  <2>2. bytes = SubSeq(data, j + 1, k - 2)
    BY <2>1 DEF bytes, TagText
  <2>3. Convertible(bytes)
    BY <2>2 DEF Element
  <2>4. line = LineOf(data, j, k)
    BY <2>2 DEF line, LineOf
  <2>5. text' = text \o own
    BY <1>4, <2>3, <2>4
  <2> HIDE DEF own
  <2>6. Holds(text', own)
    BY <1>5, <1>6, <2>5, HoldsConcat
  <2> QED BY <2>6 DEF own
<1>9. index \in Nat
  BY <1>1
<1> QED BY <1>6, <1>7, <1>8, <1>9

\* The text of an XML file holds the line of every element behind it, in every step.
LEMMA XmlStep == IInv /\ XmlKept /\ [Next]_vars => XmlKept'
<1> SUFFICES ASSUME IInv, XmlKept, [Next]_vars,
                    format' \in {"xml", "zip"}, stage' \in {"scan", "tokenize", "done"}
             PROVE  /\ Taken'
                    /\ index' = 1 \/ data'[index'] = "<" \/ index' >= Len(data')
                    /\ stage' \in {"tokenize", "done"} => index' >= Len(data') \/ size' >= MaxText
  BY DEF XmlKept
<1>d. data \in Seq(STRING) /\ Len(data) \in Nat /\ index \in 1 .. Len(data) + 1
  BY DEF IInv, DataOK, ScanOK
<1>1. CASE ReadText \/ Inflated
  <2>1. index' = 1 /\ stage' = "scan"
    <3>1. stage = "read" /\ UNCHANGED scan /\ stage' = "scan"
      BY <1>1 DEF ReadText, Inflated
    <3> QED BY <3>1 DEF scan, IInv, ScanOK
  <2>2. Taken'
    <3>1. \A j, k \in Int : j >= 1 /\ k >= j + 1 => ~(k <= 1)
      OBVIOUS
    <3> SUFFICES ASSUME NEW j \in 1 .. Len(data'), NEW k \in j + 1 .. Len(data') - 1, k <= index'
                 PROVE  FALSE
      BY DEF Taken
    <3> QED BY <2>1
  <2> QED BY <2>1, <2>2
<1>2. CASE XmlText
  <2>1. Taken'
    BY <1>2, TakenStep
  <2>2. index' = NextStop /\ data' = data /\ stage' = "scan" /\ Stops # {}
    BY <1>2 DEF XmlText, read
  <2>3. data[NextStop] = "<"
    BY <1>d, <2>2, XmlPlace
  <2> QED BY <2>1, <2>2, <2>3
<1>3. CASE XmlRest
  <2>1. index' = Len(data) /\ data' = data /\ text' = text /\ stage' = "scan" /\ stage = "scan"
        /\ Stops = {} /\ format' = format
    BY <1>3 DEF XmlRest, read, given
  <2>2. Taken /\ (index = 1 \/ data[index] = "<" \/ index >= Len(data))
    BY <2>1 DEF XmlKept
  <2>3. Taken'
    <3> SUFFICES ASSUME NEW j \in 1 .. Len(data), NEW k \in j + 1 .. Len(data) - 1,
                        Element(data, j, k), LineOf(data, j, k) # <<>>
                 PROVE  Holds(text, Joined(LineOf(data, j, k)))
      BY <2>1 DEF Taken
    <3>1. ~(k > index)
      BY <1>d, <2>1, <2>2, ElementFound
    <3>2. k <= index
      BY <1>d, <3>1
    <3> QED BY <2>2, <3>2 DEF Taken
  <2> QED BY <1>d, <2>1, <2>3
<1>4. CASE XmlEnd
  <2>1. /\ stage = "scan" /\ UNCHANGED <<format, data, index, size, text>>
        /\ index >= Len(data) \/ size >= MaxText
    BY <1>4 DEF XmlEnd, AtEnd, given, read, scan
  <2>2. Taken /\ (index = 1 \/ data[index] = "<" \/ index >= Len(data))
    BY <2>1 DEF XmlKept
  <2>3. Taken'
    BY <2>1, <2>2 DEF Taken
  <2> QED BY <2>1, <2>2, <2>3
<1>5. CASE Process \/ (Stays /\ stage' = stage)
  <2>1. /\ UNCHANGED <<format, data, index, size, text>>
        /\ stage' = stage \/ (stage = "tokenize" /\ stage' = "done")
    BY <1>5 DEF Process, Stays, given, read, scan
  <2>2. /\ Taken /\ (index = 1 \/ data[index] = "<" \/ index >= Len(data))
        /\ stage \in {"tokenize", "done"} => index >= Len(data) \/ size >= MaxText
    BY <2>1 DEF XmlKept
  <2>3. Taken'
    BY <2>1, <2>2 DEF Taken
  <2> QED BY <2>1, <2>2, <2>3
<1>6. ~TexChar /\ ~TexEnd
  BY DEF TexChar, TexEnd, given
<1>7. ~TxtLines /\ ~PdfText
  BY DEF TxtLines, PdfText, given
<1>8. stage' = "scan" \/ stage' \in {"tokenize", "done"}
  OBVIOUS
<1>9. CASE stage' = "scan"
  BY <1>1, <1>2, <1>3, <1>5, <1>6, <1>9, ToScan
<1>10. CASE stage' \in {"tokenize", "done"}
  BY <1>4, <1>5, <1>6, <1>7, <1>10, ToTokenize
<1> QED BY <1>8, <1>9, <1>10

\* Every chunk of an archive that has been read is in the data, unless the limit was reached.
ChunksKept ==
  Len(data) < MaxText =>
    \A e \in DOMAIN input : \A c \in DOMAIN input[e] :
      e < entry \/ (e = entry /\ c <= chunk) => Holds(data, input[e][c])

ZipKept ==
  format = "zip" =>
    /\ ChunksKept
    /\ stage \in {"scan", "tokenize", "done"} => entry > Len(input) \/ Len(data) > MaxText

\* A chunk that is put in front of others leaves them whole.
LEMMA ChunksStep == IInv /\ ChunksKept /\ Extract => ChunksKept'
<1> SUFFICES ASSUME IInv, ChunksKept, Extract PROVE ChunksKept'
  OBVIOUS
<1>i. input' = input
  BY DEF Extract, given
<1> SUFFICES ASSUME Len(data') < MaxText,
                    NEW e \in DOMAIN input, NEW c \in DOMAIN input[e],
                    e < entry' \/ (e = entry' /\ c <= chunk')
             PROVE  Holds(data', input[e][c])
  BY <1>i DEF ChunksKept
<1> DEFINE new == input[entry][chunk + 1]
<1>0. /\ format \in Formats /\ input \in Inputs[format] /\ format = "zip"
      /\ data' = new \o data /\ ~(Len(data') >= MaxText) => IF chunk + 1 = Len(input[entry])
         THEN entry' = entry + 1 /\ chunk' = 0
         ELSE chunk' = chunk + 1 /\ entry' = entry
  BY DEF IInv, Extract
<1>1. /\ entry \in Nat \ {0} /\ chunk \in Nat /\ entry <= Len(input) /\ chunk < Len(input[entry])
      /\ data' = new \o data /\ data \in Seq(STRING) /\ MaxText \in Nat
  BY LimitAssumption DEF IInv, DataOK, Extract
<1>2. input \in Seq(Seq(Seq(STRING)))
  BY <1>0, InputAssumption
<1> DEFINE X == Seq(Seq(STRING))
           Y == Seq(STRING)
<1>3. entry \in DOMAIN input /\ input[entry] \in X /\ input[e] \in X /\ e \in Nat
  <2>1. input \in Seq(X)
    BY <1>2
  <2> HIDE DEF X
  <2> QED BY <1>1, <2>1
<1>4. /\ chunk + 1 \in DOMAIN input[entry] /\ DOMAIN input[entry] = 1 .. Len(input[entry])
      /\ Len(input[entry]) \in Nat /\ DOMAIN input[e] = 1 .. Len(input[e])
      /\ c \in 1 .. Len(input[e]) /\ Len(input[e]) \in Nat
  <2>1. input[entry] \in Seq(Y) /\ input[e] \in Seq(Y)
    BY <1>3
  <2> HIDE DEF X, Y
  <2> QED BY <1>1, <2>1
<1>5. new \in Seq(STRING) /\ input[e][c] \in Seq(STRING)
  BY <1>0, <1>3, <1>4, ChunkType
<1> HIDE DEF X, Y, new
<1>6. Len(data') = Len(new) + Len(data) /\ Len(new) \in Nat /\ Len(data) \in Nat
  BY <1>1, <1>5
<1>7. /\ Len(data) < MaxText
      /\ IF chunk + 1 = Len(input[entry])
         THEN entry' = entry + 1 /\ chunk' = 0
         ELSE chunk' = chunk + 1 /\ entry' = entry
  <2>1. Len(data) < MaxText /\ ~(Len(data') >= MaxText)
    BY <1>1, <1>6
  <2>2. IF Len(data') >= MaxText \/ chunk + 1 = Len(input[entry])
        THEN entry' = entry + 1 /\ chunk' = 0
        ELSE chunk' = chunk + 1 /\ entry' = entry
    BY DEF Extract
  <2> QED BY <2>1, <2>2
<1>8. e < entry \/ (e = entry /\ c <= chunk) \/ (e = entry /\ c = chunk + 1)
  <2>1. CASE chunk + 1 = Len(input[entry])
    <3>1. entry' = entry + 1 /\ chunk' = 0
      BY <1>7, <2>1
    <3>2. e < entry \/ e = entry
      BY <1>1, <1>3, <1>4, <3>1
    <3>3. CASE e = entry
      <4>1. c \in 1 .. chunk + 1
        BY <1>4, <2>1, <3>3
      <4> QED BY <1>1, <3>3, <4>1
    <3> QED BY <3>2, <3>3
  <2>2. CASE chunk + 1 # Len(input[entry])
    <3>1. entry' = entry /\ chunk' = chunk + 1
      BY <1>7, <2>2
    <3>2. e < entry \/ (e = entry /\ c <= chunk + 1)
      BY <3>1
    <3> QED BY <1>1, <1>4, <3>2
  <2> QED BY <2>1, <2>2
<1>9. CASE e = entry /\ c = chunk + 1
  <2>1. Holds(new \o data, new)
    BY <1>1, <1>5, HoldsConcat
  <2> QED BY <1>1, <1>9, <2>1 DEF new
<1>10. CASE e < entry \/ (e = entry /\ c <= chunk)
  <2>1. Holds(data, input[e][c])
    BY <1>7, <1>10 DEF ChunksKept
  <2>2. Holds(new \o data, data)
    BY <1>1, <1>5, HoldsConcat
  <2>3. data' \in Seq(STRING) /\ Holds(data', data)
    BY <1>1, <1>5, <2>2
  <2> QED BY <1>1, <1>5, <2>1, <2>3, HoldsTrans
<1> QED BY <1>8, <1>9, <1>10

\* An entry without bytes has no chunk to keep.
LEMMA ChunksNone == IInv /\ ChunksKept /\ ExtractNothing => ChunksKept'
<1> SUFFICES ASSUME IInv, ChunksKept, ExtractNothing, Len(data) < MaxText,
                    NEW e \in DOMAIN input, NEW c \in DOMAIN input[e],
                    e < entry + 1 \/ (e = entry + 1 /\ c <= 0)
             PROVE  Holds(data, input[e][c])
  BY DEF ChunksKept, ExtractNothing, given
<1>1. /\ format \in Formats /\ input \in Inputs[format] /\ format = "zip"
      /\ entry \in Nat /\ chunk = 0 /\ input[entry] = <<>>
  BY DEF IInv, DataOK, ExtractNothing
<1> DEFINE X == Seq(Seq(STRING))
           Y == Seq(STRING)
<1>2. input \in Seq(X)
  BY <1>1, InputAssumption
<1>3. e \in Nat /\ input[e] \in X
  <2> HIDE DEF X
  <2> QED BY <1>2
<1>4. c \in Nat /\ c >= 1 /\ input[e] # <<>>
  <2>1. input[e] \in Seq(Y)
    BY <1>3
  <2> HIDE DEF X, Y
  <2> QED BY <2>1
<1> HIDE DEF X, Y
<1>5. e # entry
  BY <1>1, <1>4
<1>6. e < entry
  BY <1>1, <1>3, <1>4, <1>5
<1> QED BY <1>6 DEF ChunksKept

\* The bytes of an archive hold its chunks, in every step.
LEMMA ZipStep == IInv /\ ZipKept /\ [Next]_vars => ZipKept'
<1> SUFFICES ASSUME IInv, ZipKept, [Next]_vars, format' = "zip"
             PROVE  /\ ChunksKept'
                    /\ stage' \in {"scan", "tokenize", "done"} => entry' > Len(input') \/ Len(data') > MaxText
  BY DEF ZipKept
<1>1. CASE Extract
  <2>1. stage' = "read" /\ format = "zip"
    BY <1>1 DEF Extract
  <2> QED BY <1>1, <2>1, ChunksStep DEF ZipKept
<1>3. CASE ExtractNothing
  <2>1. stage' = "read" /\ format = "zip"
    BY <1>3 DEF ExtractNothing
  <2> QED BY <1>3, <2>1, ChunksNone DEF ZipKept
<1>2. CASE ~Extract /\ ~ExtractNothing
  <2>1. /\ UNCHANGED <<format, input, read>>
        /\ stage' \in {"scan", "tokenize", "done"} =>
             Inflated \/ stage \in {"scan", "tokenize", "done"}
    <3>1. CASE UNCHANGED vars
      BY <3>1 DEF vars, given
    <3>2. ~ReadText /\ ~TxtLines
      BY DEF ReadText, TxtLines, given
    <3>3. CASE CannotRead \/ Inflated
      BY <3>3 DEF CannotRead, Inflated, given
    <3>4. ~TexChar /\ ~TexEnd /\ ~PdfText
      BY DEF TexChar, TexEnd, PdfText, given
    <3>5. CASE XmlText
      BY <3>5 DEF XmlText, given
    <3>6. CASE XmlRest \/ XmlEnd \/ Process
      BY <3>6 DEF XmlRest, XmlEnd, Process, given
    <3> QED BY <1>2, <3>1, <3>2, <3>3, <3>4, <3>5, <3>6 DEF Next
  <2>2. UNCHANGED <<format, input, data, entry, chunk>>
    BY <2>1 DEF read
  <2>3. ChunksKept'
    BY <2>2 DEF ZipKept, ChunksKept
  <2>4. ASSUME stage' \in {"scan", "tokenize", "done"} PROVE entry > Len(input) \/ Len(data) > MaxText
    <3>1. CASE Inflated
      BY <3>1 DEF Inflated
    <3>2. CASE stage \in {"scan", "tokenize", "done"}
      BY <2>2, <3>2 DEF ZipKept
    <3> QED BY <2>1, <2>4, <3>1, <3>2
  <2> QED BY <2>2, <2>3, <2>4
<1> QED BY <1>1, <1>2, <1>3

-----------------------------------------------------------------------------
(* A word of a piece is in the text *)

\* Trim() keeps an end that is no blank.
LEMMA TrimEnds ==
  ASSUME NEW S, NEW o \in Seq(S), NEW u \in Seq(S), Len(u) # 0,
         u[1] \notin Trimmed, u[Len(u)] \notin Trimmed
  PROVE  \E p \in Seq(S) : p \o u = Trim(o \o u)
<1> DEFINE s == o \o u
           m == Len(o)
           c == Len(u)
<1>1. s \in Seq(S) /\ Len(s) = m + c /\ m \in Nat /\ c \in Nat /\ \A n \in 1 .. c : s[m + n] = u[n]
  OBVIOUS
<1>2. s[m + 1] = u[1] /\ s[m + c] = u[c]
  <2>1. 1 \in 1 .. c /\ c \in 1 .. c
    BY <1>1
  <2> QED BY <1>1, <2>1
<1> HIDE DEF s, m, c
<1>3. PICK a \in 1 .. Len(s) + 1, b \in 0 .. Len(s) :
        /\ Trim(s) = SubSeq(s, a, b)
        /\ \A i \in 1 .. Len(s) : s[i] \notin Trimmed => a <= i /\ i <= b
  BY <1>1, TrimCuts
<1>4. a <= m + 1 /\ b = m + c /\ a \in Nat
  <2>0. c # 0
    BY DEF c
  <2>1. m + 1 \in 1 .. Len(s) /\ m + c \in 1 .. Len(s)
    BY <1>1, <2>0
  <2>2. s[m + 1] \notin Trimmed /\ s[m + c] \notin Trimmed
    BY <1>2 DEF c
  <2>3. a <= m + 1 /\ m + c <= b
    BY <1>3, <2>1, <2>2
  <2> QED BY <1>1, <2>3
<1> USE DEF m, c
<1> DEFINE p == SubSeq(o, a, m)
           t == SubSeq(s, a, b)
           d == (m - a) + 1
<1>5. d \in Nat
  BY <1>1, <1>4
<1>6. p \in Seq(S) /\ Len(p) = d /\ \A i \in 1 .. d : p[i] = o[(a + i) - 1] /\ (a + i) - 1 \in 1 .. m
  <2>1. a \in 1 .. m + 1 /\ m \in Int /\ m <= Len(o)
    BY <1>1, <1>3, <1>4
  <2>2. /\ p \in Seq(S) /\ Len(p) = IF a <= m THEN (m - a) + 1 ELSE 0
        /\ \A i \in 1 .. Len(p) : p[i] = o[(a + i) - 1] /\ (a + i) - 1 \in a .. m
    BY <2>1, CutType
  <2>3. Len(p) = d
    BY <1>4, <2>1, <2>2
  <2> QED BY <2>1, <2>2, <2>3
<1>7. t \in Seq(S) /\ Len(t) = d + c /\ \A i \in 1 .. d + c : t[i] = s[(a + i) - 1]
  <2>1. a \in 1 .. Len(s) + 1 /\ b \in Int /\ b <= Len(s) /\ a <= b
    BY <1>1, <1>3, <1>4, <1>5
  <2>2. t \in Seq(S) /\ Len(t) = (b - a) + 1 /\ \A i \in 1 .. Len(t) : t[i] = s[(a + i) - 1]
    BY <1>1, <2>1, CutType
  <2>3. (b - a) + 1 = d + c
    BY <1>1, <1>4, <2>1
  <2> QED BY <2>2, <2>3
<1>8. \A n \in 1 .. m : s[n] = o[n]
  BY DEF s
<1>9. a + d = m + 1
  BY <1>1, <1>4
<1> HIDE DEF p, t, d, m, c
<1>10. \A i \in 1 .. Len(p) : t[i] = p[i]
  <2> TAKE i \in 1 .. Len(p)
  <2>1. i \in 1 .. d /\ i \in 1 .. d + c
    BY <1>1, <1>5, <1>6
  <2> QED BY <1>6, <1>7, <1>8, <2>1
<1>11. \A i \in 1 .. Len(u) : t[Len(p) + i] = u[i]
  <2> TAKE i \in 1 .. Len(u)
  <2>1. d + i \in 1 .. d + c /\ (a + (d + i)) - 1 = m + i /\ i \in 1 .. c
    BY <1>1, <1>4, <1>5, <1>9 DEF c
  <2> QED BY <1>1, <1>6, <1>7, <2>1
<1>12. Len(t) = Len(p) + Len(u)
  BY <1>6, <1>7 DEF c
<1>13. t = p \o u
  BY <1>6, <1>7, <1>10, <1>11, <1>12, IsConcat
<1> QED BY <1>3, <1>6, <1>13 DEF t, s

\* narrow_to_wide() leaves spaces and separators.
LEMMA WideSpaced ==
  ASSUME NEW b \in Seq(Sigma), NEW e \in Sigma, e # "C", \A n \in 1 .. Len(b) : Letter(b[n])
  PROVE  /\ Wide(Spaced(b, e)) = Spaced(Wide(b), e)
         /\ Wide(<<Space>> \o b) = <<Space>> \o Wide(b)
         /\ Wide(b) \in Seq(Sigma)
         /\ \A n \in 1 .. Len(Wide(b)) : Letter(Wide(b)[n]) /\ Wide(b)[n] # "C"
<1>1. \A c \in Sigma : c # "C" => Wide(<<c>>) = <<c>>
  <2> SUFFICES ASSUME NEW c \in Sigma, c # "C" PROVE Wide(<<c>>) = <<c>>
    OBVIOUS
  <2> DEFINE t == <<c>>
             m == [i \in DOMAIN t |-> IF t[i] = "C" THEN <<>> ELSE <<t[i]>>]
  <2>1. Len(t) = 1 /\ DOMAIN t = 1 .. 1 /\ t[1] = c /\ t \in Seq(Sigma)
    OBVIOUS
  <2>2. m = [i \in 1 .. 1 |-> <<c>>]
    <3>1. \A i \in 1 .. 1 : i = 1
      OBVIOUS
    <3>2. \A i \in 1 .. 1 : (IF t[i] = "C" THEN <<>> ELSE <<t[i]>>) = <<c>>
      <4> HIDE DEF t
      <4> QED BY <2>1, <3>1
    <3> HIDE DEF t
    <3> QED BY <2>1, <3>2
  <2>3. [i \in 1 .. 1 |-> <<c>>] = <<t>>
    OBVIOUS
  <2>4. Wide(t) = FlattenSeq(m)
    BY DEF Wide
  <2> HIDE DEF m, t
  <2>5. FlattenSeq(<<t>>) = t
    BY <2>1, FlattenOne
  <2>6. Wide(t) = t
    BY <2>2, <2>3, <2>4, <2>5
  <2> QED BY <2>6 DEF t
<1>2. Space # "C" /\ Space \in Sigma
  BY SigmaType DEF Space
<1>3. <<Space>> \in Seq(Sigma) /\ <<e>> \in Seq(Sigma) /\ <<Space>> \o b \in Seq(Sigma)
  BY <1>2
<1>4. Wide(<<Space>> \o b) = <<Space>> \o Wide(b)
  <2>1. Wide(<<Space>> \o b) = Wide(<<Space>>) \o Wide(b)
    BY <1>3, WideConcat
  <2> QED BY <1>1, <1>2, <2>1
<1>5. Wide(Spaced(b, e)) = Spaced(Wide(b), e)
  <2>1. Wide((<<Space>> \o b) \o <<e>>) = Wide(<<Space>> \o b) \o Wide(<<e>>)
    BY <1>3, WideConcat
  <2> QED BY <1>1, <1>4, <2>1 DEF Spaced
<1> DEFINE L == {c \in Sigma : Letter(c)}
<1>6. b \in Seq(L)
  <2>1. \A n \in 1 .. Len(b) : b[n] \in L
    OBVIOUS
  <2>2. Len(b) \in Nat /\ b = [n \in 1 .. Len(b) |-> b[n]]
    OBVIOUS
  <2> HIDE DEF L
  <2>3. b \in [1 .. Len(b) -> L]
    BY <2>1, <2>2
  <2> QED BY <2>2, <2>3, MapType
<1>7. Wide(b) \in Seq(L \ {"C"})
  <2> HIDE DEF L
  <2> QED BY <1>6, WideType
<1>8. \A n \in 1 .. Len(Wide(b)) : Wide(b)[n] \in L \ {"C"}
  <2> DEFINE M == L \ {"C"}
             x == Wide(b)
  <2>1. x \in Seq(M)
    BY <1>7
  <2> HIDE DEF M, x
  <2>2. \A n \in 1 .. Len(x) : x[n] \in M
    BY <2>1
  <2> QED BY <2>2 DEF M, x
<1>9. Wide(b) \in Seq(Sigma)
  <2>1. Wide(b) \in Seq(Sigma \ {"C"})
    BY WideType
  <2> QED BY <2>1
<1> QED BY <1>4, <1>5, <1>8, <1>9

\* The word from i to j of a piece, with what stands before and after it.
LEMMA CutWord ==
  ASSUME NEW s \in Seq(Sigma), NEW i \in 2 .. Len(s) - 2, NEW j \in i + 1 .. Len(s) - 1,
         s[i - 1] = Space
  PROVE  /\ SubSeq(s, i, j) \in Seq(Sigma) /\ s[j + 1] \in Sigma
         /\ Len(SubSeq(s, i, j)) = (j - i) + 1
         /\ \A n \in 1 .. Len(SubSeq(s, i, j)) :
              SubSeq(s, i, j)[n] = s[(i + n) - 1] /\ (i + n) - 1 \in i .. j
         /\ At(s, i - 2, Spaced(SubSeq(s, i, j), s[j + 1]))
         /\ SubSeq(s, i - 1, j + 1) = Spaced(SubSeq(s, i, j), s[j + 1])
<1> DEFINE b == SubSeq(s, i, j)
           e == s[j + 1]
           u == Spaced(b, e)
<1>1. /\ b \in Seq(Sigma) /\ e \in Sigma /\ Len(b) = (j - i) + 1
      /\ \A n \in 1 .. Len(b) : b[n] = s[(i + n) - 1] /\ (i + n) - 1 \in i .. j
  <2>1. i \in 1 .. Len(s) + 1 /\ j \in Int /\ j <= Len(s) /\ i <= j /\ j + 1 \in 1 .. Len(s)
    OBVIOUS
  <2> QED BY <2>1, CutType
<1> HIDE DEF b, e
<1>2. /\ u \in Seq(Sigma) /\ Len(u) = Len(b) + 2 /\ u[1] = Space /\ u[Len(b) + 2] = e
      /\ \A n \in 1 .. Len(b) : u[n + 1] = b[n]
  <2>1. Space \in Sigma
    BY SigmaType
  <2>2. b \in Seq(Sigma) /\ e \in Sigma
    BY <1>1
  <2> QED BY <2>1, <2>2, SpacedType
<1> HIDE DEF u
<1>3. \A n \in 1 .. Len(u) : u[n] = s[(i - 2) + n]
  <2> TAKE n \in 1 .. Len(u)
  <2>0. Len(u) = (j - i) + 3 /\ n \in Nat
    BY <1>1, <1>2
  <2>1. CASE n = 1
    BY <1>2, <2>1
  <2>2. CASE n = Len(u)
    BY <1>1, <1>2, <2>0, <2>2 DEF e
  <2>3. CASE n # 1 /\ n # Len(u)
    <3>1. n - 1 \in 1 .. Len(b) /\ (n - 1) + 1 = n /\ (i + (n - 1)) - 1 = (i - 2) + n
      BY <1>1, <1>2, <2>0, <2>3
    <3>2. u[n] = b[n - 1] /\ b[n - 1] = s[(i - 2) + n]
      BY <1>1, <1>2, <3>1
    <3> QED BY <3>2
  <2> QED BY <2>1, <2>2, <2>3
<1>4. At(s, i - 2, u)
  <2>1. (i - 2) + Len(u) <= Len(s)
    BY <1>1, <1>2
  <2> QED BY <1>3, <2>1 DEF At
<1>5. SubSeq(s, i - 1, j + 1) = u
  <2> DEFINE v == SubSeq(s, i - 1, j + 1)
  <2>0. i - 1 \in 1 .. Len(s) + 1 /\ j + 1 \in Int /\ j + 1 <= Len(s) /\ i - 1 <= j + 1
    OBVIOUS
  <2>1. /\ v \in Seq(Sigma) /\ Len(v) = ((j + 1) - (i - 1)) + 1
        /\ \A n \in 1 .. Len(v) : v[n] = s[((i - 1) + n) - 1]
    BY <2>0, CutType
  <2> HIDE DEF v
  <2>2. Len(v) = Len(u)
    BY <1>1, <1>2, <2>1
  <2>3. \A n \in 1 .. Len(v) : v[n] = u[n]
    <3> TAKE n \in 1 .. Len(v)
    <3>1. ((i - 1) + n) - 1 = (i - 2) + n
      BY <2>1
    <3> QED BY <1>3, <2>1, <2>2, <3>1
  <2>4. v = u
    BY <1>2, <2>1, <2>2, <2>3
  <2> QED BY <2>4 DEF v
<1> QED BY <1>1, <1>4, <1>5 DEF u, b, e

\* A word of a text of lines.
LEMMA LinesWord ==
  ASSUME NEW t \in Seq(Sigma), NEW w \in Seq(Sigma), Len(w) # 0,
         \A n \in 1 .. Len(w) : Letter(w[n]),
         NEW e \in Sigma, e \in {Space, "N"}, Holds(t, Spaced(w, e))
  PROVE  \E f \in {Space, "N"} \cap Sigma : Holds(JoinLines(Split(t, "N")), Spaced(w, f))
<1> DEFINE lines == Split(t, "N")
           u == IF e = Space THEN Spaced(w, e) ELSE <<Space>> \o w
           C == Sigma \ {"B", "N"}
<1>0. Space \in Sigma /\ Space \notin {"B", "N"}
  BY SigmaType DEF Space
<1>1. /\ Spaced(w, e) \in Seq(Sigma) /\ Len(Spaced(w, e)) = Len(w) + 2
      /\ Spaced(w, e)[1] = Space /\ Spaced(w, e)[Len(w) + 2] = e
      /\ \A n \in 1 .. Len(w) : Spaced(w, e)[n + 1] = w[n]
  BY <1>0, SpacedType
<1>2. \A n \in 1 .. Len(w) : w[n] \notin {"B", "N"}
  BY DEF Letter
<1>3. PICK k \in Nat : At(t, k, Spaced(w, e))
  BY DEF Holds
<1>4. Len(w) \in Nat /\ Len(t) \in Nat
  OBVIOUS
<1>5. lines \in Seq(Seq(C) \ {<<>>})
  BY SplitType
<1>6. \A line \in Seq(C) : line \in Seq(Sigma)
  OBVIOUS
<1> HIDE DEF lines
<1>7. \E o \in Seq(Sigma), n \in 1 .. Len(lines) :
         /\ lines[n] \in Seq(Sigma) /\ lines[n] # <<>>
         /\ lines[n] = o \o (<<Space>> \o w) \/ Holds(lines[n], Spaced(w, e))
  <2>0. \A line \in ToSet(lines) : \E n \in 1 .. Len(lines) :
           lines[n] = line /\ line \in Seq(Sigma) /\ line # <<>>
    <3> DEFINE X == Seq(C) \ {<<>>}
    <3>1. \A line \in X : line \in Seq(Sigma) /\ line # <<>>
      BY <1>6
    <3>2. lines \in Seq(X)
      BY <1>5
    <3> HIDE DEF X
    <3> QED BY <3>1, <3>2 DEF ToSet
  <2>1. CASE e = Space
    <3> DEFINE v == Spaced(w, e)
    <3>1. \A n \in 1 .. Len(v) : v[n] \notin {"B", "N"}
      <4> TAKE n \in 1 .. Len(v)
      <4>1. n = 1 \/ n = Len(w) + 2 \/ (n - 1 \in 1 .. Len(w) /\ (n - 1) + 1 = n)
        BY <1>1, <1>4
      <4>2. CASE n = 1
        BY <1>0, <1>1, <4>2
      <4>3. CASE n = Len(w) + 2
        BY <1>0, <1>1, <2>1, <4>3
      <4>4. CASE n - 1 \in 1 .. Len(w) /\ (n - 1) + 1 = n
        BY <1>1, <1>2, <4>4
      <4> QED BY <4>1, <4>2, <4>3, <4>4
    <3>2. v \in Seq(Sigma) /\ v # <<>> /\ At(t, k, v)
      BY <1>1, <1>3, <1>4
    <3> HIDE DEF v
    <3>3. PICK o \in Seq(Sigma), y \in Seq(Sigma) : (o \o v) \o y \in ToSet(lines)
      BY <3>1, <3>2, SplitRun DEF lines
    <3>4. PICK n \in 1 .. Len(lines) : /\ lines[n] = (o \o v) \o y
                                       /\ lines[n] \in Seq(Sigma) /\ lines[n] # <<>>
      BY <2>0, <3>3
    <3>5. Holds(lines[n], v)
      BY <3>2, <3>3, <3>4, HoldsConcat
    <3> QED BY <3>4, <3>5 DEF v
  <2>2. CASE e = "N"
    <3> DEFINE v == <<Space>> \o w
    <3>0. /\ v \in Seq(Sigma) /\ Len(v) = Len(w) + 1 /\ v[1] = Space
          /\ \A n \in 1 .. Len(w) : v[n + 1] = w[n]
      BY <1>0
    <3> HIDE DEF v
    <3>1. \A n \in 1 .. Len(v) : v[n] \notin {"B", "N"}
      <4> TAKE n \in 1 .. Len(v)
      <4>1. n = 1 \/ (n - 1 \in 1 .. Len(w) /\ (n - 1) + 1 = n)
        BY <1>4, <3>0
      <4>2. CASE n = 1
        BY <1>0, <3>0, <4>2
      <4>3. CASE n - 1 \in 1 .. Len(w) /\ (n - 1) + 1 = n
        BY <1>2, <3>0, <4>3
      <4> QED BY <4>1, <4>2, <4>3
    <3>2. At(t, k, v) /\ t[(k + Len(v)) + 1] = "N"
      <4> DEFINE x == Spaced(w, e)
      <4>1. \A n \in 1 .. Len(x) : t[k + n] = x[n]
        BY <1>3 DEF At
      <4>2. k + Len(x) <= Len(t) /\ Len(x) = Len(w) + 2
        BY <1>1, <1>3 DEF At
      <4>3. x[1] = Space /\ x[Len(w) + 2] = "N" /\ \A n \in 1 .. Len(w) : x[n + 1] = w[n]
        BY <1>1, <2>2
      <4> HIDE DEF x
      <4>4. \A n \in 1 .. Len(v) : t[k + n] = v[n]
        <5> TAKE n \in 1 .. Len(v)
        <5>1. n = 1 \/ (n - 1 \in 1 .. Len(w) /\ (n - 1) + 1 = n)
          BY <1>4, <3>0
        <5>2. n \in 1 .. Len(x)
          BY <1>4, <3>0, <4>2
        <5>3. x[n] = v[n]
          <6>1. CASE n = 1
            BY <3>0, <4>3, <6>1
          <6>2. CASE n - 1 \in 1 .. Len(w) /\ (n - 1) + 1 = n
            BY <3>0, <4>3, <6>2
          <6> QED BY <5>1, <6>1, <6>2
        <5> QED BY <4>1, <5>2, <5>3
      <4>5. k + Len(v) <= Len(t)
        BY <1>4, <3>0, <4>2
      <4>6. Len(w) + 2 \in 1 .. Len(x) /\ k + (Len(w) + 2) = (k + Len(v)) + 1
        BY <1>4, <3>0, <4>2
      <4>7. t[(k + Len(v)) + 1] = "N"
        BY <4>1, <4>3, <4>6
      <4> QED BY <4>4, <4>5, <4>7 DEF At
    <3>3. v # <<>>
      BY <1>4, <3>0
    <3>4. PICK o \in Seq(Sigma), y \in Seq(Sigma) : (o \o v) \o y \in ToSet(lines) /\ y = <<>>
      <4>1. \E o, y \in Seq(Sigma) :
               /\ (o \o v) \o y \in ToSet(lines)
               /\ k + Len(v) = Len(t) \/ t[(k + Len(v)) + 1] \in {"B", "N"} => y = <<>>
        BY <3>0, <3>1, <3>2, <3>3, SplitRun DEF lines
      <4> QED BY <3>2, <4>1
    <3>5. o \o v \in ToSet(lines)
      <4>1. \A z \in Seq(Sigma) : z \o <<>> = z
        OBVIOUS
      <4>2. o \o v \in Seq(Sigma)
        BY <3>0, <3>4
      <4> QED BY <3>4, <4>1, <4>2
    <3>6. PICK n \in 1 .. Len(lines) : lines[n] = o \o v /\ lines[n] \in Seq(Sigma) /\ lines[n] # <<>>
      BY <2>0, <3>5
    <3>7. lines[n] = o \o (<<Space>> \o w)
      BY <3>6 DEF v
    <3> QED BY <3>4, <3>6, <3>7
  <2> QED BY <2>1, <2>2
<1>8. PICK o \in Seq(Sigma), n \in 1 .. Len(lines) :
         /\ lines[n] \in Seq(Sigma) /\ lines[n] # <<>>
         /\ lines[n] = o \o (<<Space>> \o w) \/ Holds(lines[n], Spaced(w, e))
  BY <1>7
<1>9. PICK f \in {Space, "N"} \cap Sigma : Holds(Joined(lines[n]), Spaced(w, f))
  <2> DEFINE line == lines[n]
  <2>1. /\ line \in Seq(Sigma) /\ line # <<>>
        /\ line = o \o (<<Space>> \o w) \/ Holds(line, Spaced(w, e))
    BY <1>8
  <2> HIDE DEF line
  <2>2. \E f \in {Space, "N"} \cap Sigma : Holds(Joined(line), Spaced(w, f))
    BY <1>0, <1>8, <2>1, JoinedHolds
  <2> QED BY <2>2 DEF line
<1>10. Holds(JoinLines(lines), Joined(lines[n])) /\ JoinLines(lines) \in Seq(Sigma)
       /\ Joined(lines[n]) \in Seq(Sigma)
  <2> DEFINE X == Seq(Sigma) \ {<<>>}
             Y == Seq(Sigma)
             parts == [m \in DOMAIN lines |-> Joined(lines[m])]
  <2>1. lines \in Seq(X)
    BY <1>5, <1>6
  <2>2. parts \in Seq(Y) /\ JoinLines(lines) \in Y
    BY <1>0, <2>1, JoinLinesType
  <2>3. parts[n] = Joined(lines[n]) /\ Len(parts) = Len(lines)
    BY <1>8, <2>1, <2>2
  <2>4. JoinLines(lines) = FlattenSeq(parts)
    BY DEF JoinLines
  <2> HIDE DEF parts
  <2>5. Holds(FlattenSeq(parts), parts[n])
    BY <1>8, <2>2, <2>3, FlattenHolds
  <2>6. Joined(lines[n]) \in Y
    <3> HIDE DEF Y, X
    <3>1. n \in 1 .. Len(parts)
      BY <2>3
    <3>2. parts[n] \in Y
      BY <2>2, <3>1
    <3> QED BY <2>3, <3>2
  <2> QED BY <2>2, <2>3, <2>4, <2>5, <2>6
<1>11. Spaced(w, f) \in Seq(Sigma)
  BY <1>0, SpacedType
<1>12. Holds(JoinLines(lines), Spaced(w, f))
  BY <1>9, <1>10, <1>11, HoldsTrans
<1> QED BY <1>9, <1>12 DEF lines

\* A word of an element is in the line that the loop of xml_tag_content() makes of it.
LEMMA ElementWord ==
  ASSUME NEW s \in Seq(STRING), NEW j \in 1 .. Len(s), NEW k \in j + 1 .. Len(s) - 1,
         Element(s, j, k),
         NEW b \in Seq(Sigma), NEW e \in Sigma, e \in {Space, "N"}, \A n \in 1 .. Len(b) : Letter(b[n]),
         NEW n \in Nat, j <= n, At(s, n, Spaced(b, e)), (n + Len(b)) + 3 <= k,
         NEW w, w = Wide(b), Len(w) # 0
  PROVE  /\ LineOf(s, j, k) # <<>>
         /\ \E f \in {Space, "N"} \cap Sigma : Holds(Joined(LineOf(s, j, k)), Spaced(w, f))
<1> DEFINE t == SubSeq(s, j + 1, k - 2)
           x == Spaced(b, e)
           q == Len(b)
           line == LineOf(s, j, k)
           v == <<Space>> \o w
<1>0. /\ Space \in Sigma /\ Space \notin {"C"} /\ e # "C" /\ Space \notin Trimmed /\ "N" \notin Trimmed
      /\ \A c : Letter(c) => c \notin Trimmed
  BY SigmaType DEF Space, Letter, Trimmed
<1>1. /\ Wide(x) = Spaced(w, e) /\ Wide(<<Space>> \o b) = v /\ w \in Seq(Sigma)
      /\ \A i \in 1 .. Len(w) : Letter(w[i])
  BY <1>0, WideSpaced
<1>2. q \in Nat /\ Len(s) \in Nat /\ j \in Nat /\ k \in Nat /\ Len(w) \in Nat
  BY <1>1
<1>3. /\ x \in Seq(Sigma) /\ Len(x) = q + 2 /\ x[1] = Space /\ x[q + 2] = e
      /\ \A i \in 1 .. q : x[i + 1] = b[i]
  BY <1>0, SpacedType
<1>4. /\ Spaced(w, e) \in Seq(Sigma) /\ Len(Spaced(w, e)) = Len(w) + 2
      /\ Spaced(w, e)[1] = Space /\ Spaced(w, e)[Len(w) + 2] = e
      /\ \A i \in 1 .. Len(w) : Spaced(w, e)[i + 1] = w[i]
  <2>1. \A z \in Seq(Sigma) :
           /\ Spaced(z, e) \in Seq(Sigma) /\ Len(Spaced(z, e)) = Len(z) + 2
           /\ Spaced(z, e)[1] = Space /\ Spaced(z, e)[Len(z) + 2] = e
           /\ \A i \in 1 .. Len(z) : Spaced(z, e)[i + 1] = z[i]
    BY <1>0, SpacedType
  <2>2. w \in Seq(Sigma)
    BY <1>1
  <2> QED BY <2>1, <2>2
<1>5. v \in Seq(Sigma) /\ Len(v) = Len(w) + 1 /\ v[1] = Space /\ v[Len(w) + 1] = w[Len(w)]
  BY <1>0, <1>1, <1>2
<1>6. t \in Seq(Sigma) /\ line \in Seq(Sigma)
  <2>1. k \in j + 1 .. Len(s)
    BY <1>2
  <2> QED BY <2>1, LineType
<1>7. Len(t) = (k - j) - 2 /\ \A i \in 1 .. Len(t) : t[i] = s[j + i]
  <2>1. s \in Seq(Sigma)
    BY SigmaType
  <2>2. j + 1 \in 1 .. Len(s) + 1 /\ k - 2 \in Int /\ k - 2 <= Len(s) /\ j + 1 <= k - 2
    BY <1>2
  <2>3. Len(t) = ((k - 2) - (j + 1)) + 1 /\ \A i \in 1 .. Len(t) : t[i] = s[((j + 1) + i) - 1]
    BY <2>1, <2>2, CutType
  <2>4. \A i \in 1 .. Len(t) : ((j + 1) + i) - 1 = j + i
    BY <1>2
  <2>5. ((k - 2) - (j + 1)) + 1 = (k - j) - 2
    BY <1>2
  <2> HIDE DEF t
  <2> QED BY <2>3, <2>4, <2>5
<1>8. \A i \in 1 .. Len(x) : s[n + i] = x[i]
  BY DEF At
<1>9. line = Trim(Wide(t))
  BY DEF LineOf
<1> HIDE DEF t, line, x, q, v
<1>10. CASE (n + q) + 3 < k
  <2>1. At(t, n - j, x)
    <3>1. (n - j) + Len(x) <= Len(t)
      BY <1>2, <1>3, <1>7, <1>10
    <3>2. \A i \in 1 .. Len(x) : t[(n - j) + i] = x[i]
      <4> TAKE i \in 1 .. Len(x)
      <4>1. (n - j) + i \in 1 .. Len(t) /\ j + ((n - j) + i) = n + i
        BY <1>2, <1>3, <1>6, <3>1
      <4> QED BY <1>7, <1>8, <4>1
    <3> QED BY <3>1, <3>2 DEF At
  <2>2. Holds(t, x)
    <3>1. n - j \in Nat
      BY <1>2
    <3> QED BY <2>1, <3>1 DEF Holds
  <2>3. Holds(Wide(t), Spaced(w, e)) /\ Wide(t) \in Seq(Sigma)
    <3>1. Wide(t) \in Seq(Sigma \ {"C"})
      BY <1>6, WideType
    <3>2. Wide(t) \in Seq(Sigma)
      BY <3>1
    <3>3. Holds(Wide(t), Wide(x))
      BY <1>3, <1>6, <2>2, WideHolds
    <3> QED BY <1>1, <3>2, <3>3
  <2>4. Holds(line, Spaced(w, e))
    <3> DEFINE y == Spaced(w, e)
               z == Wide(t)
    <3>1. y[1] \notin Trimmed /\ y[Len(y)] \notin Trimmed /\ Len(y) # 0
      <4>1. e \notin Trimmed
        BY <1>0
      <4> QED BY <1>0, <1>2, <1>4, <4>1
    <3>2. y \in Seq(Sigma) /\ z \in Seq(Sigma) /\ Holds(z, y) /\ line = Trim(z)
      BY <1>4, <1>9, <2>3
    <3> HIDE DEF y, z
    <3>3. Holds(Trim(z), y)
      BY <3>1, <3>2, TrimHolds
    <3> QED BY <3>2, <3>3 DEF y
  <2>5. line # <<>>
    <3>1. PICK m \in Nat : At(line, m, Spaced(w, e))
      BY <2>4 DEF Holds
    <3>2. m + (Len(w) + 2) <= Len(line)
      BY <1>4, <3>1 DEF At
    <3> QED BY <1>2, <3>2
  <2>6. \E f \in {Space, "N"} \cap Sigma : Holds(Joined(line), Spaced(w, f))
    BY <1>0, <1>1, <1>6, <2>4, <2>5, JoinedHolds
  <2> QED BY <2>5, <2>6 DEF line
<1>11. CASE (n + q) + 3 = k
  <2> DEFINE y == <<Space>> \o b
  <2>1. y \in Seq(Sigma) /\ Len(y) = q + 1 /\ y[1] = Space /\ \A i \in 1 .. q : y[i + 1] = b[i]
    BY <1>0 DEF q
  <2>a. Wide(y) = v
    BY <1>1
  <2> HIDE DEF y
  <2>2. \A i \in 1 .. Len(y) : y[i] = x[i]
    <3> TAKE i \in 1 .. Len(y)
    <3>1. i = 1 \/ (i - 1 \in 1 .. q /\ (i - 1) + 1 = i)
      BY <1>2, <2>1
    <3>2. CASE i = 1
      BY <1>3, <2>1, <3>2
    <3>3. CASE i - 1 \in 1 .. q /\ (i - 1) + 1 = i
      BY <1>3, <2>1, <3>3
    <3> QED BY <3>1, <3>2, <3>3
  <2>3. At(t, n - j, y) /\ (n - j) + Len(y) = Len(t) /\ n - j \in Nat
    <3>1. (n - j) + Len(y) = Len(t) /\ n - j \in Nat
      BY <1>2, <1>7, <1>11, <2>1
    <3>2. \A i \in 1 .. Len(y) : t[(n - j) + i] = y[i]
      <4> TAKE i \in 1 .. Len(y)
      <4>1. /\ (n - j) + i \in 1 .. Len(t) /\ j + ((n - j) + i) = n + i
            /\ i \in 1 .. Len(x)
        BY <1>2, <1>3, <1>6, <2>1, <3>1
      <4> QED BY <1>7, <1>8, <2>2, <4>1
    <3>3. (n - j) + Len(y) <= Len(t)
      BY <1>2, <2>1, <3>1
    <3> QED BY <3>1, <3>2, <3>3 DEF At
  <2>4. \E o \in Seq(Sigma) : o \o y = t
    <3> DEFINE m == n - j
               o == SubSeq(t, 1, m)
    <3>1. m \in Nat /\ m <= Len(t) /\ 1 \in 1 .. Len(t) + 1 /\ Len(t) = m + Len(y) /\ m \in Int
          /\ Len(y) \in Nat
      BY <1>6, <2>1, <2>3
    <3>2. \A i \in 1 .. Len(y) : t[m + i] = y[i]
      BY <2>3 DEF At
    <3> HIDE DEF m
    <3>3. /\ o \in Seq(Sigma) /\ Len(o) = IF 1 <= m THEN (m - 1) + 1 ELSE 0
          /\ \A i \in 1 .. Len(o) : o[i] = t[(1 + i) - 1]
      BY <1>6, <3>1, CutType
    <3> HIDE DEF o
    <3>4. Len(o) = m
      BY <3>1, <3>3
    <3>5. \A i \in 1 .. Len(o) : t[i] = o[i]
      <4> TAKE i \in 1 .. Len(o)
      <4>1. (1 + i) - 1 = i
        BY <3>1, <3>4
      <4> QED BY <3>3, <4>1
    <3>6. \A i \in 1 .. Len(y) : t[Len(o) + i] = y[i]
      BY <3>2, <3>4
    <3>7. Len(t) = Len(o) + Len(y)
      BY <3>1, <3>4
    <3>8. t = o \o y
      BY <1>6, <2>1, <3>3, <3>5, <3>6, <3>7, IsConcat
    <3> QED BY <3>3, <3>8
  <2>5. PICK o \in Seq(Sigma) : o \o y = t
    BY <2>4
  <2>6. Wide(t) = Wide(o) \o v /\ Wide(o) \in Seq(Sigma)
    <3>1. Wide(o \o y) = Wide(o) \o Wide(y)
      BY <2>1, WideConcat
    <3>2. Wide(o) \in Seq(Sigma \ {"C"})
      BY WideType
    <3>3. Wide(o) \in Seq(Sigma)
      BY <3>2
    <3> QED BY <2>5, <2>a, <3>1, <3>3
  <2>7. \E p \in Seq(Sigma) : p \o v = line
    <3> DEFINE z == Wide(o)
    <3>1. z \in Seq(Sigma) /\ line = Trim(z \o v)
      BY <1>9, <2>6
    <3> HIDE DEF z
    <3>2. v[1] \notin Trimmed /\ v[Len(v)] \notin Trimmed /\ Len(v) # 0
      <4>1. Len(w) \in 1 .. Len(w) /\ Len(v) = Len(w) + 1 /\ Len(v) # 0
        BY <1>2, <1>5
      <4>2. Letter(w[Len(w)])
        BY <1>1, <4>1
      <4>3. w[Len(w)] \notin Trimmed
        BY <1>0, <4>2
      <4> QED BY <1>0, <1>5, <4>1, <4>3
    <3>3. \E p \in Seq(Sigma) : p \o v = Trim(z \o v)
      BY <1>5, <3>1, <3>2, TrimEnds
    <3> QED BY <3>1, <3>3
  <2>8. PICK p \in Seq(Sigma) : line = p \o v
    BY <2>7
  <2>9. line # <<>>
    <3>0. v \in Seq(Sigma)
      BY <1>5
    <3>a. Len(p \o v) = Len(p) + Len(v) /\ Len(p) \in Nat
      BY <3>0
    <3>1. Len(line) = Len(p) + Len(v) /\ Len(p) \in Nat
      BY <2>8, <3>a
    <3> QED BY <1>2, <1>5, <1>6, <3>1
  <2>10. line = p \o (<<Space>> \o w)
    BY <2>8 DEF v
  <2>11. \E f \in {Space, "N"} \cap Sigma : Holds(Joined(line), Spaced(w, f))
    BY <1>0, <1>1, <1>6, <2>9, <2>10, JoinedHolds
  <2> QED BY <2>9, <2>11 DEF line
<1>12. (n + q) + 3 <= k
  BY DEF q
<1> QED BY <1>2, <1>10, <1>11, <1>12

\* An element of a chunk is one of the data that hold the chunk.
LEMMA ElementMoves ==
  ASSUME NEW s \in Seq(STRING), NEW d \in Seq(STRING), NEW m \in Nat, At(d, m, s),
         NEW j \in 1 .. Len(s), NEW k \in j + 1 .. Len(s) - 1, Element(s, j, k)
  PROVE  /\ m + j \in 1 .. Len(d) /\ m + k \in (m + j) + 1 .. Len(d) - 1
         /\ Element(d, m + j, m + k) /\ LineOf(d, m + j, m + k) = LineOf(s, j, k)
<1>0. Len(s) \in Nat /\ Len(d) \in Nat /\ j \in Nat /\ k \in Nat /\ m + Len(s) <= Len(d)
  BY DEF At
<1>1. m + j \in 1 .. Len(d) /\ m + k \in (m + j) + 1 .. Len(d) - 1
  BY <1>0
<1>2. \A n \in 1 .. Len(s) : d[m + n] = s[n]
  BY DEF At
<1> DEFINE x == SubSeq(d, (m + j) + 1, (m + k) - 2)
           y == SubSeq(s, j + 1, k - 2)
<1>3. x = y
  <2>1. /\ (m + j) + 1 \in 1 .. Len(d) + 1 /\ (m + k) - 2 \in Int /\ (m + k) - 2 <= Len(d)
        /\ j + 1 \in 1 .. Len(s) + 1 /\ k - 2 \in Int /\ k - 2 <= Len(s)
    BY <1>0
  <2>2. /\ x \in Seq(STRING)
        /\ Len(x) = IF (m + j) + 1 <= (m + k) - 2 THEN (((m + k) - 2) - ((m + j) + 1)) + 1 ELSE 0
        /\ \A i \in 1 .. Len(x) : x[i] = d[(((m + j) + 1) + i) - 1]
    BY <2>1, CutType
  <2>3. /\ y \in Seq(STRING) /\ Len(y) = IF j + 1 <= k - 2 THEN ((k - 2) - (j + 1)) + 1 ELSE 0
        /\ \A i \in 1 .. Len(y) : y[i] = s[((j + 1) + i) - 1] /\ ((j + 1) + i) - 1 \in j + 1 .. k - 2
    BY <2>1, CutType
  <2> HIDE DEF x, y
  <2>4. Len(x) = Len(y)
    BY <1>0, <2>2, <2>3
  <2>5. \A i \in 1 .. Len(y) : x[i] = y[i]
    <3> TAKE i \in 1 .. Len(y)
    <3>1. (((m + j) + 1) + i) - 1 = m + (((j + 1) + i) - 1) /\ ((j + 1) + i) - 1 \in 1 .. Len(s)
      BY <1>0, <2>3
    <3> QED BY <1>2, <2>2, <2>3, <2>4, <3>1
  <2> QED BY <2>2, <2>3, <2>4, <2>5
<1>4. /\ s[j] = ">" /\ s[k] = "<" /\ \A n \in j + 1 .. k - 1 : s[n] \notin {"<", ">"}
      /\ Convertible(y)
  BY DEF Element
<1> HIDE DEF x, y
<1>5. d[m + j] = ">" /\ d[m + k] = "<"
  <2>1. j \in 1 .. Len(s) /\ k \in 1 .. Len(s)
    BY <1>0
  <2> QED BY <1>2, <1>4, <2>1
<1>6. \A n \in (m + j) + 1 .. (m + k) - 1 : d[n] \notin {"<", ">"}
  <2> TAKE n \in (m + j) + 1 .. (m + k) - 1
  <2>1. n - m \in j + 1 .. k - 1 /\ n - m \in 1 .. Len(s) /\ m + (n - m) = n
    BY <1>0
  <2> QED BY <1>2, <1>4, <2>1
<1>7. Element(d, m + j, m + k)
  BY <1>3, <1>4, <1>5, <1>6 DEF Element, x
<1>8. LineOf(d, m + j, m + k) = LineOf(s, j, k)
  BY <1>3 DEF LineOf, x, y
<1> QED BY <1>1, <1>7, <1>8

\* A piece of an XML text or of an archive stands in the data.
LEMMA PieceHeld ==
  ASSUME IInv, ZipKept, stage = "done", format \in {"xml", "zip"}, Within, NEW s \in Pieces
  PROVE  s \in Seq(STRING) /\ data \in Seq(STRING) /\ \E m \in Nat : At(data, m, s)
<1>1. data \in Seq(STRING) /\ MaxText \in Nat
  BY LimitAssumption DEF IInv, DataOK
<1>2. CASE format = "xml"
  <2>1. s = data
    BY <1>2 DEF Pieces
  <2>2. At(data, 0, data)
    BY <1>1 DEF At
  <2> QED BY <1>1, <2>1, <2>2
<1>3. CASE format = "zip"
  <2>1. PICK e \in DOMAIN input : s \in ToSet(input[e])
    BY <1>3 DEF Pieces
  <2>2. PICK c \in DOMAIN input[e] : input[e][c] = s
    BY <2>1 DEF ToSet
  <2>3. Len(data) < MaxText /\ Len(data) \in Nat
    BY <1>1, <1>3 DEF Within
  <2>4. ChunksKept /\ entry > Len(input)
    BY <1>1, <1>3, <2>3 DEF ZipKept
  <2>5. input \in Seq(Seq(Seq(STRING)))
    BY <1>3, InputAssumption DEF IInv
  <2>6. e < entry
    <3> DEFINE X == Seq(Seq(STRING))
    <3>1. input \in Seq(X)
      BY <2>5
    <3> HIDE DEF X
    <3>2. e \in 1 .. Len(input) /\ Len(input) \in Nat /\ entry \in Nat
      BY <3>1 DEF IInv, DataOK
    <3> QED BY <2>4, <3>2
  <2>7. Holds(data, s)
    BY <2>2, <2>3, <2>4, <2>6 DEF ChunksKept
  <2>8. s \in Seq(STRING)
    <3> DEFINE X == Seq(Seq(STRING))
               Y == Seq(STRING)
    <3>1. input \in Seq(X)
      BY <2>5
    <3> HIDE DEF X
    <3>2. input[e] \in X
      BY <3>1
    <3> USE DEF X
    <3>3. input[e] \in Seq(Y)
      BY <3>2
    <3> HIDE DEF X, Y
    <3>4. input[e][c] \in Y
      BY <3>3
    <3> QED BY <2>2, <3>4 DEF Y
  <2> QED BY <1>1, <2>7, <2>8 DEF Holds
<1> QED BY <1>2, <1>3

\* A word of an element of a piece is in the text of the file.
LEMMA XmlWord ==
  ASSUME IInv, XmlKept, ZipKept, stage = "done", format \in {"xml", "zip"}, Within,
         NEW s \in Pieces, NEW i \in 2 .. Len(s) - 2, NEW j \in i + 1 .. Len(s) - 1,
         s[i - 1] = Space, s[j + 1] \in {Space, "N"}, InElement(s, i - 1),
         \A k \in i .. j : Letter(s[k]), Len(Wide(SubSeq(s, i, j))) # 0
  PROVE  \E f \in {Space, "N"} \cap Sigma : Holds(text, Spaced(Wide(SubSeq(s, i, j)), f))
<1> DEFINE b == SubSeq(s, i, j)
           e == s[j + 1]
           w == Wide(b)
<1>1. s \in Seq(STRING) /\ data \in Seq(STRING) /\ \E m \in Nat : At(data, m, s)
  BY PieceHeld
<1>2. s \in Seq(Sigma)
  BY <1>1, SigmaType
<1>3. /\ b \in Seq(Sigma) /\ e \in Sigma /\ Len(b) = (j - i) + 1
      /\ \A n \in 1 .. Len(b) : b[n] = s[(i + n) - 1] /\ (i + n) - 1 \in i .. j
      /\ At(s, i - 2, Spaced(b, e))
  BY <1>2, CutWord
<1>4. PICK j0 \in 1 .. (i - 1) - 1, k0 \in (i - 1) + 1 .. Len(s) - 1 :
         /\ s[j0] = ">" /\ s[k0] = "<"
         /\ \A n \in j0 + 1 .. k0 - 1 : s[n] \notin {"<", ">"}
         /\ Convertible(SubSeq(s, j0 + 1, k0 - 2))
  BY DEF InElement
<1>5. Len(s) \in Nat /\ i \in Nat /\ j \in Nat /\ j0 \in Nat /\ k0 \in Nat
  BY <1>1
<1>6. j0 \in 1 .. Len(s) /\ k0 \in j0 + 1 .. Len(s) - 1 /\ j0 <= i - 2 /\ i - 2 \in Nat
  BY <1>5
<1>7. Element(s, j0, k0)
  BY <1>4 DEF Element
<1>8. k0 >= j + 2
  <2>1. ~Letter("<") /\ Space # "<" /\ "N" # "<"
    BY DEF Letter, Space
  <2>2. k0 \notin i .. j
    BY <1>4, <2>1
  <2>3. k0 # j + 1
    BY <1>4, <2>1
  <2> QED BY <1>5, <1>6, <2>2, <2>3
<1>9. \A n \in 1 .. Len(b) : Letter(b[n])
  BY <1>3
<1>10. ((i - 2) + Len(b)) + 3 <= k0
  BY <1>3, <1>5, <1>8
<1>a. e \in {Space, "N"} /\ Len(w) # 0
  OBVIOUS
<1> HIDE DEF b, e
<1>11. /\ LineOf(s, j0, k0) # <<>>
       /\ \E f \in {Space, "N"} \cap Sigma : Holds(Joined(LineOf(s, j0, k0)), Spaced(w, f))
  BY <1>1, <1>3, <1>6, <1>7, <1>9, <1>10, <1>a, ElementWord
<1>12. PICK f \in {Space, "N"} \cap Sigma : Holds(Joined(LineOf(s, j0, k0)), Spaced(w, f))
  BY <1>11
<1>13. PICK m \in Nat : At(data, m, s)
  BY <1>1
<1>14. /\ m + j0 \in 1 .. Len(data) /\ m + k0 \in (m + j0) + 1 .. Len(data) - 1
       /\ Element(data, m + j0, m + k0) /\ LineOf(data, m + j0, m + k0) = LineOf(s, j0, k0)
  BY <1>1, <1>6, <1>7, <1>13, ElementMoves
<1>15. Taken /\ (index >= Len(data) \/ size >= MaxText)
  BY DEF XmlKept
<1>16. index \in Nat /\ Len(data) \in Nat /\ size < MaxText /\ size \in Nat /\ MaxText \in Nat
  <2>1. index \in Nat /\ Len(data) \in Nat /\ MaxText \in Nat
    BY <1>1, LimitAssumption DEF IInv, ScanOK
  <2>2. size \in Nat
    BY DEF IInv, ScanOK
  <2>3. size < MaxText
    BY DEF Within
  <2> QED BY <2>1, <2>2, <2>3
<1>17. m + k0 <= index
  BY <1>5, <1>14, <1>15, <1>16
<1>18. Holds(text, Joined(LineOf(s, j0, k0)))
  BY <1>11, <1>14, <1>15, <1>17 DEF Taken
<1>19. /\ text \in Seq(Sigma) /\ Joined(LineOf(s, j0, k0)) \in Seq(Sigma)
       /\ Spaced(w, f) \in Seq(Sigma)
  <2>1. text \in Seq(Sigma)
    BY SigmaType DEF IInv, ScanOK
  <2>2. Joined(LineOf(s, j0, k0)) \in Seq(Sigma)
    <3>1. k0 \in j0 + 1 .. Len(s)
      BY <1>5, <1>6
    <3> QED BY <1>1, <1>6, <1>11, <3>1, LineType
  <2>3. Spaced(w, f) \in Seq(Sigma)
    <3>1. w \in Seq(Sigma \ {"C"})
      BY <1>3, WideType
    <3>2. w \in Seq(Sigma) /\ Space \in Sigma /\ f \in Sigma
      BY <3>1, <1>12, SigmaType
    <3> HIDE DEF w
    <3> QED BY <3>2, SpacedType
  <2> QED BY <2>1, <2>2, <2>3
<1>20. Holds(text, Spaced(w, f))
  BY <1>12, <1>18, <1>19, HoldsTrans
<1> QED BY <1>12, <1>20 DEF b

Kept == DoneKept /\ TxtKept /\ TexKept /\ XmlKept /\ ZipKept

\* The loops keep every word up to the end.
LEMMA KeptWords == IInv /\ Kept => NoSpacedWordLost
<1> SUFFICES ASSUME IInv, Kept, stage = "done", format # "pdf", Within,
                    NEW s \in Pieces, NEW i \in 2 .. Len(s) - 2, NEW j \in i + 1 .. Len(s) - 1,
                    s[i - 1] = Space, s[j + 1] \in {Space, "N"}, Shown(s, i - 1),
                    \A k \in i .. j : Letter(s[k]), Len(Wide(SubSeq(s, i, j))) \in 2 .. MaxWord,
                    Wide(SubSeq(s, i, j)) \notin Spelled
             PROVE  Wide(SubSeq(s, i, j)) \in words
  BY Zenon DEF NoSpacedWordLost, Space
<1> DEFINE b == SubSeq(s, i, j)
           e == s[j + 1]
           w == Wide(b)
<1>0. /\ Space \in Sigma /\ Space # "C" /\ "N" # "C" /\ Space \notin Brackets \cup {"\\", "$"}
      /\ "N" \notin Brackets \cup {"\\", "$"} /\ \A c : Letter(c) => c \notin Brackets \cup {"\\", "$"}
  BY SigmaType DEF Space, Letter, Brackets
<1>1. format \in {"txt", "tex", "xml", "zip"}
  BY FormatAssumption DEF IInv
<1>2. data \in Seq(STRING) /\ text \in Seq(Sigma)
  BY SigmaType DEF IInv, DataOK, ScanOK
<1>3. s \in Seq(STRING)
  <2>1. CASE format \in {"txt", "tex"}
    BY <1>2, <2>1 DEF Pieces
  <2>2. CASE format \in {"xml", "zip"}
    BY <2>2, PieceHeld DEF Kept
  <2> QED BY <1>1, <2>1, <2>2
<1>4. /\ b \in Seq(Sigma) /\ e \in Sigma /\ Len(b) = (j - i) + 1
      /\ \A n \in 1 .. Len(b) : b[n] = s[(i + n) - 1] /\ (i + n) - 1 \in i .. j
      /\ At(s, i - 2, Spaced(b, e)) /\ SubSeq(s, i - 1, j + 1) = Spaced(b, e)
  <2>1. s \in Seq(Sigma)
    BY <1>3, SigmaType
  <2> QED BY <2>1, CutWord
<1>5. /\ Len(s) \in Nat /\ i \in Nat /\ j \in Nat /\ i - 2 \in Nat
      /\ i - 1 \in 1 .. Len(s) /\ j + 1 \in i - 1 .. Len(s)
  BY <1>3
<1>6. \A n \in 1 .. Len(b) : Letter(b[n])
  BY <1>4
<1>7. e \in {Space, "N"} /\ Len(w) \in 2 .. MaxWord /\ Len(w) # 0 /\ w \notin Spelled
  BY LimitAssumption
<1> HIDE DEF b, e
<1>8. /\ Wide(Spaced(b, e)) = Spaced(w, e) /\ w \in Seq(Sigma)
      /\ \A n \in 1 .. Len(w) : Letter(w[n]) /\ w[n] # "C"
  <2>1. e # "C"
    BY <1>0, <1>7
  <2> QED BY <1>4, <1>6, <2>1, WideSpaced
<1>9. \E f \in {Space, "N"} \cap Sigma : Holds(text, Spaced(w, f))
  <2>1. CASE format = "txt"
    <3>1. s = data /\ Convertible(data)
      BY <2>1 DEF Pieces, Shown
    <3>2. text = JoinLines(Split(Wide(data), "N"))
      BY <2>1, <3>1 DEF Kept, TxtKept
    <3> DEFINE t == Wide(data)
    <3>3. t \in Seq(Sigma)
      <4>1. t \in Seq(STRING \ {"C"})
        BY <1>2, WideType
      <4> HIDE DEF t
      <4>2. t \in Seq(STRING)
        BY <4>1
      <4> QED BY <4>2, SigmaType
    <3>4. Holds(t, Spaced(w, e))
      <4>1. Holds(data, Spaced(b, e))
        BY <1>4, <1>5, <3>1 DEF Holds
      <4>2. data \in Seq(Sigma) /\ Spaced(b, e) \in Seq(Sigma)
        BY <1>0, <1>2, <1>4, SigmaType, SpacedType
      <4>3. Holds(Wide(data), Wide(Spaced(b, e)))
        BY <4>1, <4>2, WideHolds
      <4> QED BY <1>8, <4>3
    <3> HIDE DEF t, w
    <3>5. \E f \in {Space, "N"} \cap Sigma : Holds(JoinLines(Split(t, "N")), Spaced(w, f))
      BY <1>4, <1>7, <1>8, <3>3, <3>4, LinesWord
    <3> QED BY <3>2, <3>5 DEF t
  <2>2. CASE format = "tex"
    <3>1. s = data /\ ~InCommand(data, i - 1)
      BY <2>2 DEF Pieces, Shown
    <3>2. TexWide
      BY <2>2 DEF Kept, TexKept
    <3>3. \A n \in i - 1 .. j + 1 : Plain(n)
      <4> TAKE n \in i - 1 .. j + 1
      <4>1. n = i - 1 \/ n = j + 1 \/ n \in i .. j
        BY <1>5
      <4>2. data[i - 1] \notin Brackets \cup {"\\", "$"}
        BY <1>0, <3>1
      <4>3. data[j + 1] \notin Brackets \cup {"\\", "$"}
        BY <1>0, <3>1
      <4>4. n \in i .. j => data[n] \notin Brackets \cup {"\\", "$"}
        BY <1>0, <3>1
      <4> QED BY <4>1, <4>2, <4>3, <4>4 DEF Plain
    <3>4. Holds(text, Wide(SubSeq(data, i - 1, j + 1)))
      <4>1. i - 1 \in 1 .. Len(data) /\ j + 1 \in i - 1 .. Len(data)
        BY <1>5, <3>1
      <4> QED BY <3>1, <3>2, <3>3, <4>1 DEF TexWide
    <3>5. Holds(text, Spaced(w, e))
      BY <1>4, <1>8, <3>1, <3>4
    <3> QED BY <1>4, <1>7, <3>5
  <2>3. CASE format \in {"xml", "zip"}
    <3>1. InElement(s, i - 1)
      BY <2>3 DEF Shown
    <3>2. Len(Wide(SubSeq(s, i, j))) # 0
      BY <1>7 DEF b
    <3>3. \E f \in {Space, "N"} \cap Sigma : Holds(text, Spaced(Wide(SubSeq(s, i, j)), f))
      BY <2>3, <3>1, <3>2, XmlWord DEF Kept
    <3> QED BY <3>3 DEF b
  <2> QED BY <1>1, <2>1, <2>2, <2>3
<1>10. PICK f \in {Space, "N"} \cap Sigma : Holds(text, Spaced(w, f))
  BY <1>9
<1> HIDE DEF w
<1>11. w \in Tokenize(text)
  BY <1>0, <1>2, <1>7, <1>8, <1>10, TokenizeHolds
<1>12. Tokenize(text) \subseteq words
  BY DEF Kept, DoneKept
<1> QED BY <1>11, <1>12 DEF w, b

\* Nothing is kept of a file that has not been read.
LEMMA KeptInit == Init => Kept
<1> SUFFICES ASSUME Init PROVE Kept
  OBVIOUS
<1>1. /\ stage = "read" /\ data = <<>> /\ entry = 1 /\ chunk = 0
      /\ format \in Formats /\ input \in Inputs[format]
  BY DEF Init
<1>2. DoneKept /\ TxtKept /\ TexKept /\ XmlKept
  BY <1>1 DEF DoneKept, TxtKept, TexKept, XmlKept
<1>3. ZipKept
  <2> SUFFICES ASSUME format = "zip" PROVE ChunksKept
    BY <1>1 DEF ZipKept
  <2> DEFINE X == Seq(Seq(STRING))
             Y == Seq(STRING)
  <2>1. input \in Seq(X)
    BY <1>1, InputAssumption
  <2> HIDE DEF X
  <2>2. \A e \in DOMAIN input : input[e] \in X /\ e \in Nat /\ e >= 1
    BY <2>1
  <2> USE DEF X
  <2>3. \A e \in DOMAIN input : input[e] \in Seq(Y)
    BY <2>2
  <2> HIDE DEF X, Y
  <2>4. \A e \in DOMAIN input : \A c \in DOMAIN input[e] : c \in Nat /\ c >= 1
    BY <2>3
  <2> SUFFICES ASSUME NEW e \in DOMAIN input, NEW c \in DOMAIN input[e],
                      e < entry \/ (e = entry /\ c <= chunk)
               PROVE  FALSE
    BY DEF ChunksKept
  <2>5. e \in Nat /\ e >= 1 /\ c \in Nat /\ c >= 1
    BY <2>2, <2>4
  <2> QED BY <1>1, <2>5
<1> QED BY <1>2, <1>3 DEF Kept

\* Every step keeps what the loops have met.
LEMMA KeptNext == IInv /\ Kept /\ [Next]_vars => Kept'
BY DoneStep, TxtStep, TexStep, XmlStep, ZipStep DEF Kept

-----------------------------------------------------------------------------
\* A word that spells no number.
Unspelled(w) == w \notin Spelled

\* Each word is a word of the line that all of them make.
LEMMA OneLineWord ==
  ASSUME NEW list \in Seq(Seq(Sigma)), NEW n \in 1 .. Len(list), NEW s, s = list[n],
         \A i \in 1 .. Len(s) : Letter(s[i]), Len(Wide(s)) \in 2 .. MaxWord, Unspelled(Wide(s))
  PROVE  Wide(s) \in Tokenize(Wide(OneLine(list)))
<1> DEFINE t == [i \in DOMAIN list |-> <<" ">> \o list[i]]
           l == Len(list)
           X == Seq(Sigma)
           w == Wide(s)
           o == OneLine(list)
<1>0. /\ l \in Nat /\ DOMAIN list = 1 .. l /\ s \in Seq(Sigma) /\ Space \in Sigma
      /\ \A i \in 1 .. l : list[i] \in Seq(Sigma)
  BY SigmaType
<1>1. \A i \in 1 .. l : t[i] = <<Space>> \o list[i] /\ t[i] \in X
  <2> TAKE i \in 1 .. l
  <2>1. t[i] = <<Space>> \o list[i]
    BY <1>0 DEF Space
  <2> DEFINE v == list[i]
  <2>2. v \in Seq(Sigma)
    BY <1>0
  <2> HIDE DEF v
  <2>3. <<Space>> \o v \in Seq(Sigma)
    BY <1>0, <2>2
  <2> HIDE DEF t
  <2> QED BY <2>1, <2>3 DEF v
<1>2. t = [i \in 1 .. l |-> t[i]] /\ o = FlattenSeq(t)
  BY <1>0 DEF OneLine
<1> HIDE DEF t, o
<1>3. t \in Seq(X) /\ Len(t) = l
  <2> HIDE DEF X
  <2>1. t \in [1 .. l -> X]
    BY <1>1, <1>2
  <2> QED BY <1>0, <2>1, MapType
<1>4. o \in Seq(Sigma) /\ Wide(o) \in Seq(Sigma)
  <2>1. o \in Seq(Sigma)
    BY <1>2, <1>3, FlattenType
  <2>2. Wide(o) \in Seq(Sigma \ {"C"})
    BY <2>1, WideType
  <2> QED BY <2>1, <2>2
<1>5. /\ w \in Seq(Sigma) /\ \A i \in 1 .. Len(w) : Letter(w[i]) /\ w[i] # "C"
      /\ Wide(<<Space>> \o s) = <<Space>> \o w
      /\ Wide(Spaced(s, Space)) = Spaced(w, Space)
  <2>1. Space # "C"
    BY DEF Space
  <2> QED BY <1>0, <2>1, WideSpaced
<1>6. CASE n < l
  <2> DEFINE u == <<t[n], t[n + 1]>>
             z == list[n + 1]
             b == Spaced(s, Space)
  <2>1. n \in Nat /\ n \in 1 .. l /\ n + 1 \in 1 .. l /\ n - 1 \in Nat
    BY <1>0, <1>6
  <2>2. t[n] \in X /\ t[n + 1] \in X /\ t[n] = <<Space>> \o s /\ t[n + 1] = <<Space>> \o z
    BY <1>1, <2>1
  <2>3. z \in Seq(Sigma)
    BY <1>0, <2>1
  <2>4. u \in Seq(X) /\ Len(u) = 2 /\ u[1] = t[n] /\ u[2] = t[n + 1]
    <3> HIDE DEF X
    <3> QED BY <2>2
  <2>5. At(t, n - 1, u)
    <3> HIDE DEF u
    <3>1. (n - 1) + 2 <= l /\ (n - 1) + 1 = n /\ (n - 1) + 2 = n + 1
      BY <1>0, <2>1
    <3>2. \A i \in 1 .. 2 : t[(n - 1) + i] = u[i]
      <4> TAKE i \in 1 .. 2
      <4>1. i = 1 \/ i = 2
        OBVIOUS
      <4> QED BY <2>4, <3>1, <4>1
    <3> QED BY <1>3, <2>4, <3>1, <3>2 DEF At
  <2>6. Holds(o, FlattenSeq(u))
    <3> HIDE DEF u
    <3>1. t \in Seq(Seq(Sigma)) /\ u \in Seq(Seq(Sigma))
      BY <1>3, <2>4
    <3> QED BY <1>2, <2>1, <2>5, <3>1, FlattenPart
  <2>7. FlattenSeq(u) = t[n] \o t[n + 1]
    <3> DEFINE x == t[n]
               y == t[n + 1]
    <3>1. x \in Seq(Sigma) /\ y \in Seq(Sigma) /\ u = <<x, y>>
      BY <2>2
    <3> HIDE DEF x, y, u
    <3>2. <<x>> \in Seq(Seq(Sigma)) /\ <<x, y>> = Append(<<x>>, y)
      <4> HIDE DEF X
      <4>1. x \in X /\ y \in X
        BY <3>1 DEF X
      <4>2. <<x>> \in Seq(X) /\ <<x, y>> = Append(<<x>>, y)
        BY <4>1
      <4> QED BY <4>2 DEF X
    <3>3. FlattenSeq(<<x>>) = x
      BY <3>1, FlattenOne
    <3>4. FlattenSeq(Append(<<x>>, y)) = FlattenSeq(<<x>>) \o y
      BY <3>1, <3>2, FlattenAppend
    <3> QED BY <3>1, <3>2, <3>3, <3>4 DEF x, y
  <2>8. t[n] \o t[n + 1] = b \o z
    <3>1. (<<Space>> \o s) \o (<<Space>> \o z) = ((<<Space>> \o s) \o <<Space>>) \o z
      <4> DEFINE p == <<Space>> \o s
                 q == <<Space>>
      <4>1. p \in Seq(Sigma) /\ q \in Seq(Sigma)
        BY <1>0
      <4> HIDE DEF p, q, z
      <4>2. z \in Seq(Sigma)
        BY <2>3
      <4>3. (p \o q) \o z = p \o (q \o z)
        <5>1. Regroups(p, q, z)
          BY <4>1, <4>2, ConcatRegroups
        <5> QED BY <5>1, Zenon DEF Regroups
      <4> QED BY <4>3 DEF p, q
    <3> QED BY <2>2, <3>1, Zenon DEF Spaced
  <2>9. b \in Seq(Sigma)
    BY <1>0, SpacedType
  <2>10. Holds(b \o z, b) /\ b \o z \in Seq(Sigma)
    <3> HIDE DEF b, z
    <3>1. <<>> \in Seq(Sigma)
      OBVIOUS
    <3>2. Holds(b \o z, b)
      BY <2>3, <2>9, <3>1, HoldsConcat
    <3>3. b \o z \in Seq(Sigma)
      BY <2>3, <2>9
    <3> QED BY <3>2, <3>3
  <2>11. Holds(o, b)
    <3> HIDE DEF b, z, u
    <3> QED BY <1>4, <2>6, <2>7, <2>8, <2>9, <2>10, HoldsTrans
  <2>12. Holds(Wide(o), Spaced(w, Space))
    BY <1>4, <1>5, <2>9, <2>11, WideHolds
  <2> HIDE DEF w
  <2>13. Space \in {Space, "N"} /\ Len(w) \in 2 .. MaxWord /\ w \notin Spelled
    BY DEF w, Unspelled
  <2>14. w \in Tokenize(Wide(o))
    BY <1>0, <1>4, <1>5, <2>12, <2>13, TokenizeHolds
  <2> QED BY <2>14 DEF w, o
<1>7. CASE ~(n < l)
  <2> DEFINE f == Front(t)
             a == FlattenSeq(f)
             h == Wide(a)
  <2>0. l \in Nat /\ n \in 1 .. l
    BY <1>0
  <2>1. n = l /\ n \in 1 .. l
    <3> HIDE DEF l
    <3> QED BY <1>7, <2>0
  <2>2. f \in Seq(X) /\ t = Append(f, t[n])
    <3>1. t # <<>>
      BY <1>3, <2>1
    <3> HIDE DEF X
    <3>2. Front(t) \in Seq(X) /\ t = Append(Front(t), Last(t))
      BY <1>3, <3>1, FrontLast
    <3>3. Last(t) = t[n]
      BY <1>3, <2>1 DEF Last
    <3> QED BY <3>2, <3>3
  <2>3. t[n] = <<Space>> \o s /\ t[n] \in Seq(Sigma)
    BY <1>1, <2>1
  <2>4. o = a \o (<<Space>> \o s) /\ a \in Seq(Sigma)
    <3> HIDE DEF f
    <3>1. f \in Seq(Seq(Sigma))
      BY <2>2
    <3>2. FlattenSeq(Append(f, t[n])) = FlattenSeq(f) \o t[n]
      BY <2>3, <3>1, FlattenAppend
    <3>3. FlattenSeq(f) \in Seq(Sigma)
      BY <3>1, FlattenType
    <3> QED BY <1>2, <2>2, <2>3, <3>2, <3>3
  <2> HIDE DEF a, f
  <2>5. Wide(o) = h \o (<<Space>> \o w)
    <3>1. <<Space>> \o s \in Seq(Sigma)
      BY <2>3
    <3>2. Wide(a \o (<<Space>> \o s)) = Wide(a) \o Wide(<<Space>> \o s)
      BY <2>4, <3>1, WideConcat
    <3> QED BY <1>5, <2>4, <3>2
  <2>6. h \in Seq(Sigma)
    <3>1. Wide(a) \in Seq(Sigma \ {"C"})
      BY <2>4, WideType
    <3> QED BY <3>1
  <2> DEFINE line == Wide(o)
             m == Len(h)
  <2> HIDE DEF h, w
  <2>7. Len(w) \in 2 .. MaxWord /\ m \in Nat
    BY <2>6 DEF w
  <2>8. /\ m + (Len(w) + 1) = Len(line) /\ line[m + 1] = Space
        /\ \A i \in 1 .. Len(w) : line[m + (i + 1)] = w[i]
    <3> DEFINE v == <<Space>> \o w
    <3>1. Len(v) = Len(w) + 1 /\ v[1] = Space /\ v \in Seq(Sigma) /\ \A i \in 1 .. Len(w) : v[i + 1] = w[i]
      BY <1>0, <1>5
    <3>2. line = h \o v
      BY <2>5
    <3> HIDE DEF v, line
    <3>3. Len(line) = m + Len(v) /\ \A i \in 1 .. Len(v) : line[m + i] = v[i]
      <4>1. h \in Seq(Sigma) /\ v \in Seq(Sigma)
        BY <2>6, <3>1
      <4> HIDE DEF h
      <4>2. Len(h \o v) = Len(h) + Len(v) /\ Len(h) \in Nat /\ Len(v) \in Nat
        BY <4>1
      <4>3. \A i \in 1 .. Len(v) : (h \o v)[Len(h) + i] = v[i]
        <5> TAKE i \in 1 .. Len(v)
        <5>1. Len(h) + i \in 1 .. Len(h) + Len(v) /\ ~(Len(h) + i <= Len(h)) /\ (Len(h) + i) - Len(h) = i
          BY <4>2
        <5> QED BY <4>1, <5>1, ConcatProperties
      <4> QED BY <3>2, <4>2, <4>3
    <3>4. 1 \in 1 .. Len(v) /\ (\A i \in 1 .. Len(w) : i + 1 \in 1 .. Len(v)) /\ Len(w) \in Nat
      BY <1>5, <3>1
    <3> HIDE DEF m
    <3> QED BY <3>1, <3>3, <3>4
  <2> HIDE DEF m, line
  <2>9. StandsAt(line, m, w)
    <3>1. m + (Len(w) + 1) <= Len(line)
      <4>1. m + (Len(w) + 1) = Len(line) /\ Len(line) \in Nat
        BY <1>4, <2>8 DEF line
      <4> QED BY <4>1
    <3> QED BY <2>8, <3>1 DEF StandsAt
  <2>10. w \in Tokenize(line)
    <3>1. line \in Seq(Sigma)
      BY <1>4 DEF line
    <3>2. Unspelled(w) /\ Len(w) \in 2 .. MaxWord
      BY DEF w
    <3> HIDE DEF w
    <3> QED BY <1>0, <1>5, <2>7, <2>9, <3>1, <3>2, TokenizeAt DEF Unspelled
  <2> QED BY <2>10 DEF w, line, o
<1> QED BY <1>6, <1>7

-----------------------------------------------------------------------------
(* No text that a PDF document shows is lost *)

\* What is visible still is when its characters are counted.
LEMMA WideVisible ==
  ASSUME NEW s, NEW n \in Nat, n >= 2, Len(Wide(s)) = n
  PROVE  Visible(s)
<1>1. Len(Wide(<<>>)) \in Nat /\ Len(Wide(<<>>)) <= 0
  <2>1. <<>> \in Seq(Sigma) /\ Len(<<>>) = 0
    OBVIOUS
  <2>2. Wide(<<>>) \in Seq(Sigma \ {"C"}) /\ Len(Wide(<<>>)) <= Len(<<>>)
    BY <2>1, WideType
  <2> QED BY <2>1, <2>2
<1> DEFINE b == <<Space>>
<1>2. Len(Wide(b)) \in Nat /\ Len(Wide(b)) <= 1
  <2>1. b \in Seq(Sigma) /\ Len(b) = 1
    BY SigmaType
  <2> HIDE DEF b
  <2>2. Wide(b) \in Seq(Sigma \ {"C"}) /\ Len(Wide(b)) <= Len(b)
    BY <2>1, WideType
  <2> QED BY <2>1, <2>2
<1> HIDE DEF b
<1>3. s # <<>> /\ s # b
  BY <1>1, <1>2
<1> QED BY <1>3, Zenon DEF Visible, b, Space

\* Every character of a text is there when they are counted.
LEMMA WideMembers ==
  ASSUME NEW S, NEW s \in Seq(S), NEW i \in 1 .. Len(s), s[i] # "C"
  PROVE  \E k \in 1 .. Len(Wide(s)) : Wide(s)[k] = s[i]
<1> DEFINE parts == [n \in DOMAIN s |-> IF s[n] = "C" THEN <<>> ELSE <<s[n]>>]
           l == Len(s)
           w == Wide(s)
           c == s[i]
           X == Seq(S)
<1>1. l \in Nat /\ DOMAIN s = 1 .. l /\ \A n \in 1 .. l : s[n] \in S
  OBVIOUS
<1>2. \A n \in 1 .. l : parts[n] \in X
  <2> TAKE n \in 1 .. l
  <2>1. CASE s[n] = "C"
    BY <1>1, <2>1
  <2>2. CASE s[n] # "C"
    BY <1>1, <2>2
  <2> QED BY <2>1, <2>2
<1>3. parts[i] = <<c>> /\ c \in S /\ parts = [n \in 1 .. l |-> parts[n]] /\ w = FlattenSeq(parts)
  BY <1>1 DEF Wide
<1> HIDE DEF parts, w, c
<1>4. parts \in Seq(X) /\ Len(parts) = l
  <2> HIDE DEF X
  <2>1. parts \in [1 .. l -> X]
    BY <1>2, <1>3
  <2> QED BY <1>1, <2>1, MapType
<1>5. Holds(w, <<c>>)
  <2>1. Holds(FlattenSeq(parts), parts[i])
    BY <1>4, FlattenHolds
  <2> QED BY <1>3, <2>1
<1>6. PICK k \in Nat : At(w, k, <<c>>)
  BY <1>5 DEF Holds
<1>7. w \in Seq(S)
  BY <1>3, <1>4, FlattenType
<1>8. k + 1 \in 1 .. Len(w) /\ w[k + 1] = c
  BY <1>6, <1>7 DEF At
<1> QED BY <1>8 DEF w, c

\* The words of a PDF document are those of the line that its texts make.
PdfKept ==
  format = "pdf" /\ stage \in {"tokenize", "done"} =>
    LET r == ExtractText(input)
    IN r.status # "thrown" /\ size = r.size /\ text = Wide(OneLine(JoinHyphens(r.found)))

\* The text of a PDF file is its words in one line, in every step.
LEMMA PdfStep == PdfKept /\ [Next]_vars => PdfKept'
<1> SUFFICES ASSUME PdfKept, [Next]_vars, format' = "pdf", stage' \in {"tokenize", "done"}
             PROVE  (LET r == ExtractText(input)
                     IN /\ r.status # "thrown" /\ size = r.size
                        /\ text = Wide(OneLine(JoinHyphens(r.found))))'
  BY DEF PdfKept
<1>1. CASE PdfText
  <2>1. input' = input /\ stage' # "thrown"
    BY <1>1 DEF PdfText, given
  <2>2. LET r == ExtractText(input)
        IN r.status # "thrown" /\ size' = r.size /\ text' = Wide(OneLine(JoinHyphens(r.found)))
    BY <1>1, <2>1, Zenon DEF PdfText
  <2> QED BY <2>1, <2>2
<1>2. ~TxtLines /\ ~TexEnd /\ ~XmlEnd
  BY DEF TxtLines, TexEnd, XmlEnd, given
<1>3. CASE Process
  <2>1. stage = "tokenize" /\ UNCHANGED <<format, input, size, text>>
    BY <1>3 DEF Process, given, scan
  <2> QED BY <2>1 DEF PdfKept
<1>4. CASE Stays /\ stage' = stage
  <2>1. UNCHANGED <<format, input, size, text, stage>>
    BY <1>4 DEF Stays
  <2> QED BY <2>1 DEF PdfKept
<1> QED BY <1>1, <1>2, <1>3, <1>4, ToTokenize

\* The words that are shown are among them.
LEMMA KeptTexts == IInv /\ DoneKept /\ PdfKept => NoShownTextLost
<1> SUFFICES ASSUME IInv, DoneKept, PdfKept, stage = "done", format = "pdf", size <= MaxPdf,
                    NEW s \in ShownBy(input), Len(Wide(s)) \in 2 .. MaxWord, Wide(s) \notin Spelled,
                    \A i \in DOMAIN Wide(s) : Letter(Wide(s)[i])
             PROVE  Wide(s) \in words
  BY DEF NoShownTextLost
<1> DEFINE r == ExtractText(input)
           list == JoinHyphens(r.found)
           X == Seq(NoM) \ {<<>>}
           Y == Seq(Sigma)
<1>1. r.status # "thrown" /\ r.size <= MaxPdf /\ text = Wide(OneLine(list))
  BY DEF PdfKept
<1>2. input \in Seq(Seq(TokenOf(NoM)))
  BY DocumentType DEF IInv
<1>3. r.found \in Seq(X)
  BY <1>2, ExtractType, ReaderFields
<1>4. list \in Seq(X)
  BY <1>3, JoinHyphensType
<1>5. Visible(s)
  <2> DEFINE n == Len(Wide(s))
  <2>1. n \in 2 .. MaxWord /\ MaxWord \in Nat
    BY LimitAssumption
  <2>2. n \in Nat /\ n >= 2
    <3> HIDE DEF n
    <3> QED BY <2>1
  <2> QED BY <2>2, WideVisible
<1> HIDE DEF r
<1>6. s \in ToSet(list)
  BY <1>1, <1>2, <1>5, ShownJoined DEF r
<1> HIDE DEF list
<1>7. PICK n \in 1 .. Len(list) : list[n] = s
  <2> HIDE DEF X
  <2> QED BY <1>4, <1>6 DEF ToSet
<1>8. X \subseteq Y
  <2> SUFFICES ASSUME NEW x \in Seq(NoM) PROVE x \in Seq(Sigma)
    OBVIOUS
  <2> QED BY SigmaType
<1>9. list \in Seq(Seq(Sigma)) /\ s \in Seq(Sigma)
  <2> HIDE DEF X, Y
  <2>1. list \in Seq(Y) /\ s \in Y
    BY <1>4, <1>7, <1>8
  <2> QED BY <2>1 DEF Y
<1>10. \A i \in 1 .. Len(s) : Letter(s[i])
  <2> TAKE i \in 1 .. Len(s)
  <2>1. CASE s[i] = "C"
    BY <2>1 DEF Letter
  <2>2. CASE s[i] # "C"
    <3>1. PICK k \in 1 .. Len(Wide(s)) : Wide(s)[k] = s[i]
      BY <1>9, <2>2, WideMembers
    <3>2. Wide(s) \in Seq(Sigma \ {"C"})
      BY <1>9, WideType
    <3>3. k \in DOMAIN Wide(s)
      BY <3>1, <3>2
    <3> QED BY <3>1, <3>3
  <2> QED BY <2>1, <2>2
<1>11. Wide(s) \in Tokenize(Wide(OneLine(list)))
  BY <1>7, <1>9, <1>10, OneLineWord DEF Unspelled
<1> QED BY <1>1, <1>11 DEF DoneKept

\* No word of a file is lost, unless it spells a number: none that stands between spaces
\* outside of the markup of its format, and none that a PDF document draws, be it "TJ" with
\* two operands below its array, and whatever a hyphen joins (txt_tokenizer.cpp:31,
\* tex_tokenizer.cpp:37, string.cpp:241, 287, 298, zip_inflater.cpp:97, pdf_tokenizer.cpp:70,
\* 142, 165, 171, 179, 233).
THEOREM NoneLost == Spec => []NoWordLost
<1>1. Init => IInv /\ Kept /\ PdfKept
  <2>1. Init => PdfKept
    BY DEF Init, PdfKept
  <2> QED BY <2>1, InitInv, KeptInit
<1>2. IInv /\ Kept /\ PdfKept /\ [Next]_vars => (IInv /\ Kept /\ PdfKept)'
  BY NextInv, KeptNext, PdfStep
<1>3. IInv /\ Kept /\ PdfKept => NoWordLost
  BY KeptWords, KeptTexts DEF NoWordLost, Kept
<1> QED BY <1>1, <1>2, <1>3, PTL DEF Spec

=============================================================================
