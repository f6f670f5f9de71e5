---------------------------- MODULE ControlFile ----------------------------
(***************************************************************************)
(* Debian control files (pkg/debian/control.go): ParseControlFile and      *)
(* WriteControlFile as functions between lines and paragraphs, and the     *)
(* search of a .deb for its control file (pkg/debian/deb.go).              *)
(*                                                                         *)
(* A value is a sequence of tokens: words, Space and Newline.  A line is   *)
(* what the parser's tests on it tell apart: a field ("Key: text"), a      *)
(* continuation (text that begins with a blank), an empty line, or junk.   *)
(*                                                                         *)
(* An operator named Action_Fault is that action with a plausible bug.     *)
(***************************************************************************)
EXTENDS Naturals, Sequences, SequencesExt

CONSTANTS
    Alphabet,   \* the field names that occur, in the order of strings.Compare
    Space,      \* a blank
    Newline     \* a line break inside a value

\* The key before the first field of a paragraph: the empty string.
NoKey == "no key"

\* multilineKeys: their values keep line breaks.
Multiline == {"MD5Sum", "SHA256", "Signed-By"}

Field(key, text) == [kind |-> "field", key |-> key, text |-> text]
More(text) == [kind |-> "more", key |-> NoKey, text |-> text]
Junk(text) == [kind |-> "junk", key |-> NoKey, text |-> text]
BlankLine == [kind |-> "blank", key |-> NoKey, text |-> <<>>]

\* strings.TrimSpace.
Trim(text) ==
    LET words == {i \in DOMAIN text : text[i] \notin {Space, Newline}}
    IN IF words = {} THEN <<>> ELSE SubSeq(text, Min(words), Max(words))

-----------------------------------------------------------------------------
(* Parsing.                                                                *)

NoFields == [k \in {} |-> <<>>]

Value(graph, key) == IF key \in DOMAIN graph THEN graph[key] ELSE <<>>

Put(graph, key, text) == (key :> text) @@ graph

\* A continuation of old: a line of its own in a multi-line value, run on otherwise.
Continued(key, old, text) ==
    IF key \notin Multiline THEN old \o text
    ELSE old \o (IF old = <<>> THEN <<>> ELSE <<Newline>>) \o Trim(text)

\* What the scanner has read so far.
Start == [graphs |-> <<>>, key |-> NoKey, graph |-> NoFields]

\* One turn of the scanner's loop.  An empty line before any field is ignored.
ReadLine(st, line) ==
    CASE line.kind = "blank" /\ st.graph # NoFields ->
            [Start EXCEPT !.graphs = Append(st.graphs, st.graph)]
      [] line.kind = "field" ->
            [st EXCEPT !.key = line.key, !.graph = Put(@, line.key, Trim(line.text))]
      [] line.kind = "more" ->
            [st EXCEPT !.graph =
                Put(@, st.key, Continued(st.key, Value(@, st.key), line.text))]
      [] OTHER -> st

ParseControlFile(lines) ==
    LET end == FoldLeft(ReadLine, Start, lines)
    IN IF end.graph = NoFields THEN end.graphs ELSE Append(end.graphs, end.graph)

-----------------------------------------------------------------------------
(* Writing.                                                                *)

\* The keys as the less function of sort.Slice orders them: Package first, three
\* multi-line fields last, and the alphabet in between.
FieldOrder ==
    LET placed == {"Package", "Signed-By", "MD5Sum", "SHA256"}
    IN <<"Package", NoKey>> \o SelectSeq(Alphabet, LAMBDA k : k \notin placed)
           \o <<"Signed-By", "MD5Sum", "SHA256">>

\* strings.Split(v, "\n").
SplitLines(text) ==
    FoldLeft(LAMBDA lines, t : IF t = Newline
                               THEN Append(lines, <<>>)
                               ELSE [lines EXCEPT ![Len(lines)] = Append(@, t)],
             << <<>> >>, text)

\* An empty value is left out.  What a stray continuation left under the empty key is
\* written as ": text", which is no line of a control file.
WriteField(key, text) ==
    CASE text = <<>> -> <<>>
      [] key = NoKey -> <<Junk(text)>>
      [] key \notin Multiline -> <<Field(key, <<Space>> \o text)>>
      [] OTHER -> <<Field(key, <<>>)>> \o
                  [i \in DOMAIN SplitLines(text) |-> More(<<Space>> \o SplitLines(text)[i])]

WriteParagraph(graph) ==
    LET keys == SelectSeq(FieldOrder, LAMBDA k : k \in DOMAIN graph)
    IN FlattenSeq([i \in DOMAIN keys |-> WriteField(keys[i], graph[keys[i]])])

\* Fault: no empty line between paragraphs.
WriteControlFile_NoSeparator(graphs) ==
    FlattenSeq([i \in DOMAIN graphs |-> WriteParagraph(graphs[i])])

WriteControlFile(graphs) ==
    FlattenSeq([i \in DOMAIN graphs |->
        (IF i = 1 THEN <<>> ELSE <<BlankLine>>) \o WriteParagraph(graphs[i])])

-----------------------------------------------------------------------------
(* ParagraphFromDeb.                                                       *)

\* A .deb is read as a sequence of what the two nested readers find: a member or a
\* file to skip, data that cannot be read, or a ./control.
Decisive(deb) ==
    {i \in DOMAIN deb :
        \/ deb[i].kind = "broken"
        \/ deb[i].kind = "control" /\ Len(ParseControlFile(deb[i].lines)) = 1}

\* The first of them decides: what follows ./control is not read.  Nothing is found
\* in an empty file, or when control files do not hold exactly one paragraph.
ParagraphFromDeb(deb) ==
    IF Decisive(deb) = {} THEN [status |-> "nothing", graph |-> NoFields]
    ELSE LET it == deb[Min(Decisive(deb))]
         IN IF it.kind = "broken" THEN [status |-> "error", graph |-> NoFields]
            ELSE [status |-> "ok", graph |-> ParseControlFile(it.lines)[1]]

-----------------------------------------------------------------------------
(* What a reader of a written file is promised.                            *)

\* The fields of a paragraph as a reader sees them: no empty ones, no blanks around.
Essence(graph) ==
    LET keys == {k \in DOMAIN graph \ {NoKey} : Trim(graph[k]) # <<>>}
    IN [k \in keys |-> Trim(graph[k])]

=============================================================================
