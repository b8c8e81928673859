------------------------------ MODULE RowText ------------------------------
(***************************************************************************)
(* What the values of a table become in a data file, and back: the         *)
(* receivers of v4/export/sql_type.go (MakeRowReceiver, escapeSQL,         *)
(* escapeCSV, WriteToBuffer, WriteToBufferInCsv) as WriteInsert and        *)
(* WriteInsertInCsv of writer_util.go use them, row by row, under every    *)
(* setting of --escape-backslash, --csv-delimiter, --csv-separator,        *)
(* --csv-null-value and --no-header.                                       *)
(*                                                                         *)
(* A value is a sequence of characters or Null, a text is a sequence of    *)
(* characters.  A character the code treats in no special way may stand    *)
(* for a run of them: "INSERT" is the whole prefix of a statement, "NULL"  *)
(* the keyword, and a byte in hexadecimal is the one character HexOf       *)
(* gives.  "LF", "CR", "NUL" and "SUB" are the bytes 10, 13, 0 and 26.     *)
(*                                                                         *)
(* The reader is external: it is what mysql and a CSV loader do with such  *)
(* a text when they are told the same delimiter, separator, null value and *)
(* backslash mode (sql_mode NO_BACKSLASH_ESCAPES when there is none).      *)
(***************************************************************************)
EXTENDS Integers, SequencesExt

CONSTANTS
    Null,    \* a nil RawBytes
    Configs  \* how a table may be dumped, and what it may hold

(***************************************************************************)
(* What the configuration has to say for a text to be readable at all; the *)
(* code checks only that the separator is not empty (config.go:399).       *)
(* Without a delimiter and without backslashes a separator in a value is   *)
(* written as it is; a null value that may be mistaken for a number or,    *)
(* without a delimiter, for a string is the user's choice; and doubling a  *)
(* delimiter that overlaps with itself is ambiguous.                       *)
(***************************************************************************)
ASSUME TextAssumption ==
    \A c \in Configs :
        /\ c.format \in {"sql", "csv"}
        /\ c.backslash \in BOOLEAN
        /\ c.header \in BOOLEAN
        /\ c.opt.separator # << >>
        /\ c.format = "csv" /\ c.opt.delimiter = << >> =>
             /\ c.backslash
             /\ c.opt.nullValue # << >> /\ Head(c.opt.nullValue) = "\\"
        /\ ~ c.backslash /\ c.opt.delimiter # << >> =>
             \A n \in 1 .. Len(c.opt.delimiter) - 1 :
                 SubSeq(c.opt.delimiter, 1, n) # SubSeq(c.opt.delimiter,
                     Len(c.opt.delimiter) - n + 1, Len(c.opt.delimiter))

VARIABLES
    conf,   \* conf.EscapeBackslash, csvOption, NoHeader, the columns
    rows,   \* the rows the iterator still has to deliver
    done,   \* the rows written, the header among them
    file,   \* the text written
    pc      \* the step of WriteInsert or WriteInsertInCsv

vars == <<conf, rows, done, file, pc>>

-----------------------------------------------------------------------------
(* sql_type.go: the escaping *)

\* The letter written after the backslash for a character that is escaped.
SQLEscapes ==
    [c \in {"NUL", "LF", "CR", "\\", "'", "\"", "SUB"} |->
        CASE c = "NUL" -> "0" [] c = "LF" -> "n" [] c = "CR" -> "r"
          [] c = "SUB" -> "Z" [] OTHER -> c]

\* Only the first byte of the delimiter, or of the separator when there is no
\* delimiter, is escaped: enough to break every occurrence.
SpecCmt(opt) ==
    IF opt.delimiter # << >> THEN opt.delimiter[1] ELSE opt.separator[1]

\* (faulty variant, for mutation runs) the backslash itself is forgotten
CSVEscapesNoBackslash(opt) ==
    [c \in {"NUL", "LF", "CR", SpecCmt(opt)} |->
        CASE c = "NUL" -> "0" [] c = "LF" -> "n" [] c = "CR" -> "r"
          [] OTHER -> c]

CSVEscapes(opt) ==
    [c \in {"NUL", "LF", "CR", "\\", SpecCmt(opt)} |->
        CASE c = "NUL" -> "0" [] c = "LF" -> "n" [] c = "CR" -> "r"
          [] OTHER -> c]

Escaped(s, escapes) ==
    FlattenSeq([i \in DOMAIN s |->
        IF s[i] \in DOMAIN escapes THEN <<"\\", escapes[s[i]]>> ELSE <<s[i]>>])

\* bytes.ReplaceAll(s, d, dd): leftmost occurrences that do not overlap.
RECURSIVE Doubled(_, _)
Doubled(s, d) ==
    IF Len(s) < Len(d) THEN s
    ELSE IF IsPrefix(d, s) THEN d \o d \o Doubled(SubSeq(s, Len(d) + 1, Len(s)), d)
    ELSE <<Head(s)>> \o Doubled(Tail(s), d)

EscapeSQL(s, backslash) ==
    IF backslash THEN Escaped(s, SQLEscapes) ELSE Doubled(s, <<"'">>)

EscapeCSV(s, backslash, opt) ==
    CASE backslash -> Escaped(s, CSVEscapes(opt))
      [] ~ backslash /\ opt.delimiter # << >> -> Doubled(s, opt.delimiter)
      [] OTHER -> s

-----------------------------------------------------------------------------
(* sql_type.go: the receivers.  A column is "number", "bytes" or, as every *)
(* type MakeRowReceiver does not know, "string".                           *)

HexPairs == {<<"NUL", "00">>, <<"LF", "0a">>, <<"CR", "0d">>, <<"SUB", "1a">>,
    <<"\"", "22">>, <<"'", "27">>, <<",", "2c">>, <<"\\", "5c">>, <<"n", "6e">>,
    <<"N", "4e">>, <<"|", "7c">>, <<"*", "2a">>}

\* fmt's %x
Hex(s) == [i \in DOMAIN s |-> (CHOOSE p \in HexPairs : p[1] = s[i])[2]]

WriteToBuffer(type, v, backslash) ==
    CASE v = Null -> <<"NULL">>
      [] v # Null /\ type = "number" -> v
      [] v # Null /\ type = "bytes" -> <<"x", "'">> \o Hex(v) \o <<"'">>
      [] OTHER -> <<"'">> \o EscapeSQL(v, backslash) \o <<"'">>

WriteToBufferInCsv(type, v, backslash, opt) ==
    CASE v = Null -> opt.nullValue
      [] v # Null /\ type = "number" -> v
      [] OTHER -> opt.delimiter \o EscapeCSV(v, backslash, opt) \o opt.delimiter

\* One row: RowReceiverArr's two methods.
Joined(texts, separator) ==
    FlattenSeq([i \in DOMAIN texts |->
        IF i = Len(texts) THEN texts[i] ELSE texts[i] \o separator])

SQLRow(row) ==
    <<"(">> \o Joined([i \in DOMAIN row |->
        WriteToBuffer(conf.types[i], row[i], conf.backslash)], <<",">>) \o <<")">>

CSVRow(types, row) ==
    Joined([i \in DOMAIN row |->
        WriteToBufferInCsv(types[i], row[i], conf.backslash, conf.opt)],
        conf.opt.separator)

-----------------------------------------------------------------------------
(* The writers.  A table whose columns are all generated has no selected   *)
(* field: types is empty, a row is "()" or an empty line and no header is  *)
(* written.                                                                *)

Values(type, c) ==
    {Null} \cup (IF type = "number" THEN {<<"1">>}
                 ELSE BoundedSeq(c.alphabet, c.length))

Rows(c) ==
    {r \in [DOMAIN c.types -> UNION {Values(t, c) : t \in {"number", "string"}}] :
        \A i \in DOMAIN r : r[i] \in Values(c.types[i], c)}

Init ==
    /\ conf \in Configs
    /\ rows \in [1 .. conf.rows -> Rows(conf)]
    /\ done = << >>
    /\ file = << >>
    /\ pc = "start"

\* writer_util.go:305: the names are escaped as string values are.
WriteHeader ==
    /\ pc = "start"
    /\ pc' = "rows"
    /\ IF conf.format = "csv" /\ conf.header /\ conf.types # << >>
       THEN /\ file' = CSVRow([i \in DOMAIN conf.names |-> "string"], conf.names)
                         \o <<"LF">>
            /\ done' = <<conf.names>>
       ELSE UNCHANGED <<file, done>>
    /\ UNCHANGED <<conf, rows>>

WriteCSVRow ==
    /\ pc = "rows" /\ conf.format = "csv" /\ rows # << >>
    /\ file' = file \o CSVRow(conf.types, Head(rows)) \o <<"LF">>
    /\ done' = Append(done, Head(rows))
    /\ rows' = Tail(rows)
    /\ UNCHANGED <<conf, pc>>

\* The prefix opens the first statement and every one after a ";".
WriteSQLRow ==
    /\ pc = "rows" /\ conf.format = "sql" /\ rows # << >>
    /\ \E shouldSwitch \in BOOLEAN :
         file' = file
           \o (IF file = << >> \/ Last(Front(file)) = ";" THEN <<"INSERT">> ELSE << >>)
           \o SQLRow(Head(rows))
           \o (IF Len(rows) > 1 /\ ~ shouldSwitch THEN <<",", "LF">> ELSE <<";", "LF">>)
    /\ done' = Append(done, Head(rows))
    /\ rows' = Tail(rows)
    /\ UNCHANGED <<conf, pc>>

Finish ==
    /\ pc = "rows" /\ rows = << >>
    /\ pc' = "done"
    /\ UNCHANGED <<conf, rows, done, file>>

Done == pc = "done" /\ UNCHANGED vars

Next == WriteHeader \/ WriteCSVRow \/ WriteSQLRow \/ Finish \/ Done

Spec == Init /\ [][Next]_vars

-----------------------------------------------------------------------------
(* The reader (external). *)

Quote == IF conf.format = "sql" THEN <<"'">> ELSE conf.opt.delimiter
Separator == IF conf.format = "sql" THEN <<",">> ELSE conf.opt.separator
EndOfRow == IF conf.format = "sql" THEN <<")">> ELSE <<"LF">>
NullText == IF conf.format = "sql" THEN <<"NULL">> ELSE conf.opt.nullValue

\* What may stand before a row: a new statement, the next row of one, nothing.
BeforeRow ==
    IF conf.format = "csv" THEN {<< >>}
    ELSE {<<"INSERT", "(">>, <<",", "LF", "(">>, <<";", "LF", "INSERT", "(">>}

Unescape(c) ==
    CASE c = "0" -> "NUL" [] c = "n" -> "LF" [] c = "r" -> "CR" [] c = "Z" -> "SUB"
      [] OTHER -> c

\* The value of a field that has ended: only an unquoted one may be null.
FieldValue(r) ==
    IF r.mode = "bare" /\ r.raw = NullText THEN Null ELSE r.val

NewField(r, fields, mode) ==
    [r EXCEPT !.mode = mode, !.fields = fields, !.raw = << >>, !.val = << >>]

\* The rows a text holds.  A text that breaks off, or goes on where a field
\* has been closed, is in error: what comes after is not read.
RECURSIVE ReadFrom(_, _)
ReadFrom(text, r) ==
    LET Starts(p) == p # << >> /\ IsPrefix(p, text)
        Rest(n) == SubSeq(text, n + 1, Len(text))
        Go(n, q) == ReadFrom(Rest(n), q)
        Take(n, v) == Go(n, [r EXCEPT !.raw = @ \o SubSeq(text, 1, n), !.val = @ \o v])
        ended == r.mode \in {"bare", "closed"}
    IN
    CASE text = << >> \/ r.mode = "error" -> r.rows
      [] text # << >> /\ r.mode = "row" ->
           LET before == {b \in BeforeRow : IsPrefix(b, text)}
           IN IF before = {} THEN r.rows
              ELSE Go(Len(CHOOSE b \in before : TRUE), NewField(r, << >>, "field"))
      [] text # << >> /\ r.mode = "field" ->
           CASE Starts(Quote) -> Go(Len(Quote), [r EXCEPT !.mode = "quoted"])
             [] conf.format = "sql" /\ Starts(<<"x", "'">>) ->
                  Go(2, [r EXCEPT !.mode = "hex"])
             [] OTHER -> Go(0, [r EXCEPT !.mode = "bare"])
      [] text # << >> /\ r.mode = "hex" ->
           IF Head(text) = "'" THEN Go(1, [r EXCEPT !.mode = "closed"])
           ELSE Take(1, <<(CHOOSE p \in HexPairs : p[2] = Head(text))[1]>>)
      [] text # << >> /\ r.mode = "quoted" ->
           CASE conf.backslash /\ Head(text) = "\\" /\ Len(text) > 1 ->
                  Take(2, <<Unescape(text[2])>>)
             [] ~ (conf.backslash /\ Head(text) = "\\") /\ Starts(Quote \o Quote) ->
                  Take(2 * Len(Quote), Quote)
             [] Starts(Quote) /\ ~ Starts(Quote \o Quote) ->
                  Go(Len(Quote), [r EXCEPT !.mode = "closed"])
             [] OTHER -> Take(1, <<Head(text)>>)
      [] text # << >> /\ ended ->
           CASE Starts(Separator) ->
                  Go(Len(Separator), NewField(r, Append(r.fields, FieldValue(r)), "field"))
             [] Starts(EndOfRow) ->
                  Go(1, [NewField(r, << >>, "row") EXCEPT !.rows = Append(@,
                      IF conf.types = << >> THEN << >>
                      ELSE Append(r.fields, FieldValue(r)))])
             [] r.mode = "closed" /\ ~ Starts(Separator) /\ ~ Starts(EndOfRow) ->
                  Go(0, [r EXCEPT !.mode = "error"])
             [] r.mode = "bare" /\ conf.backslash /\ Head(text) = "\\" /\ Len(text) > 1
                  /\ ~ Starts(Separator) /\ ~ Starts(EndOfRow) ->
                  Take(2, <<Unescape(text[2])>>)
             [] OTHER -> Take(1, <<Head(text)>>)

Read(text) ==
    ReadFrom(text, [mode |-> "row", raw |-> << >>, val |-> << >>,
                    fields |-> << >>, rows |-> << >>])

-----------------------------------------------------------------------------
(* Properties *)

(***************************************************************************)
(* What escapeSQL, escapeCSV and the receivers promise together, and the   *)
(* unit tests of the escapes show for two strings: a file read with the    *)
(* settings it was written with gives back, after every row, exactly the   *)
(* rows written so far (the header among them): no value ends early, none  *)
(* swallows the separator, the row or the statement after it, and Null,    *)
(* the empty string and the string that spells the null value stay three   *)
(* different things.                                                       *)
(***************************************************************************)
RowsReadBack == Read(file) = done

=============================================================================
