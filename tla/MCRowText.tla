----------------------------- MODULE MCRowText -----------------------------
(***************************************************************************)
(* The formats and settings TLC checks RowText with: the defaults of both  *)
(* formats, each without backslashes, CSV with a delimiter and a separator *)
(* of several bytes, CSV without a delimiter, and an empty null value.     *)
(***************************************************************************)
EXTENDS RowText

Opt(nullValue, separator, delimiter) ==
    [nullValue |-> nullValue, separator |-> separator, delimiter |-> delimiter]

Config(format, backslash, opt, types, alphabet, length, count) ==
    [format |-> format, backslash |-> backslash, opt |-> opt, types |-> types,
     alphabet |-> alphabet, length |-> length, rows |-> count,
     header |-> format = "csv",
     names |-> [i \in DOMAIN types |-> <<"n", "\"", "|">>]]

N == <<"\\", "N">>
Default == Opt(N, <<",">>, <<"\"">>)
NoDelimiter == Opt(N, <<"|", "*", "|">>, << >>)
LongDelimiter == Opt(N, <<",">>, <<"|", "*">>)
EmptyNull == Opt(<< >>, <<",">>, <<"\"">>)

SQLChars == {"'", "\\", "LF", "n", ","}
CSVChars == {"\"", "\\", "LF", "n", ",", "N"}
LongChars == {"|", "*", "\\", "LF", "N"}

Pair == <<"string", "string">>
Mixed == <<"number", "string", "bytes">>

MCConfigs ==
    UNION {{
        Config("sql", b, Default, Pair, SQLChars, 2, 1),
        Config("sql", b, Default, <<"string">>, {"'", "\\", "CR", "NUL", "SUB", "\""}, 3, 1),
        Config("sql", b, Default, Mixed, {"'", "\\"}, 2, 1),
        Config("sql", b, Default, <<"string">>, {"'", "\\"}, 2, 3),
        Config("csv", b, Default, Pair, CSVChars, 2, 1),
        Config("csv", b, Default, Mixed, {"\"", "\\"}, 2, 1),
        Config("csv", b, LongDelimiter, Pair, LongChars, 2, 1),
        Config("csv", b, LongDelimiter, <<"string">>, LongChars \ {"LF"}, 4, 1),
        Config("csv", b, EmptyNull, Pair, {"\"", "LF"}, 1, 2)} : b \in BOOLEAN}
    \cup
    {Config("csv", TRUE, NoDelimiter, Pair, LongChars, 2, 1),
     Config("csv", TRUE, NoDelimiter, <<"string">>, {"|", "*", "CR", "NUL"}, 4, 1),
     Config("csv", TRUE, NoDelimiter, <<"number", "string">>, {"\\", "N"}, 2, 2),
     Config("sql", TRUE, Default, << >>, {}, 0, 3),
     [Config("csv", TRUE, Default, << >>, {}, 0, 3) EXCEPT !.header = FALSE],
     [Config("csv", TRUE, Default, Pair, {"\""}, 1, 1) EXCEPT !.header = FALSE]}

=============================================================================
