--------------------------- MODULE SqlStatements ----------------------------
(***************************************************************************)
(* How a query is split into statements before it is limited, explained or *)
(* run in part (lib/sql-helper/sql-lexer.ts).  A query is a sequence of    *)
(* symbols: a letter stands for any character that tokens are made of, an  *)
(* unknown one for those that no token is (backtick, @, ?, $, a letter     *)
(* beyond ASCII), escaped for a backslash with the quote after it, a       *)
(* comment bracket for its two, and blanks are newlines.  There is one     *)
(* kind of quotes.  Templates and dotted names in backticks, which have    *)
(* patterns of their own on a line, are left out.                          *)
(***************************************************************************)
EXTENDS Naturals, Integers, Sequences, SequencesExt, FiniteSets, FiniteSetsExt

CONSTANT MaxLength  \* bound

VARIABLE query

Symbols ==
    {"letter", "unknown", "newline", "semi", "quote", "escaped", "open", "close", "dashes"}

Init == query = <<>>

Type(s) == Len(query) < MaxLength /\ query' = Append(query, s)

Next == \E s \in Symbols : Type(s)

-----------------------------------------------------------------------------

Token(type, i, j) == [type |-> type, first |-> i, last |-> j]

\* getQueryLinePosition: where the line of a symbol starts
LineStart(q, i) == Max({0} \cup {j \in 1..(i - 1) : q[j] = "newline"})

\* the symbols after one on its line
RestOfLine(q, i) ==
    {q[j] : j \in {k \in (i + 1)..Len(q) : \A l \in (i + 1)..k : q[l] # "newline"}}

\* The pattern of a string on one line gives its last escaped quote back when
\* it finds no other; a string of several lines ends at a quote alone.
EndsString(q, at, i) ==
    \/ q[i] = "quote"
    \/ /\ q[i] = "escaped"
       /\ LineStart(q, at) = LineStart(q, i)
       /\ RestOfLine(q, i) \cap {"quote", "escaped"} = {}

\* Broken variant: a string ends with its line.
ScanLines(q, acc, i) ==
    CASE acc.mode = "string" /\ q[i] \in {"quote", "newline"} ->
             [acc EXCEPT !.mode = "base",
                         !.tokens = Append(@, Token("string", acc.at, i))]
      [] acc.mode = "base" /\ q[i] = "quote" -> [acc EXCEPT !.mode = "string", !.at = i]
      [] acc.mode = "base" /\ q[i] \in {"letter", "semi", "close"} ->
             [acc EXCEPT !.tokens = Append(@, Token(q[i], i, i))]
      [] OTHER -> acc

\* tokenizeBase, tokenizeString, tokenizeComment: one symbol of the query.  A
\* string that is not closed is no token, and neither is an unknown symbol.
Scan(q, acc, i) ==
    CASE acc.mode = "string" ->
             IF EndsString(q, acc.at, i)
             THEN [acc EXCEPT !.mode = "base",
                              !.tokens = Append(@, Token("string", acc.at, i))]
             ELSE acc
      [] acc.mode = "comment" ->
             IF q[i] = "close" THEN [acc EXCEPT !.mode = "base"] ELSE acc
      [] acc.mode = "line" ->
             IF q[i] = "newline" THEN [acc EXCEPT !.mode = "base"] ELSE acc
      [] acc.mode = "base" ->
             CASE q[i] \in {"quote", "escaped"} -> [acc EXCEPT !.mode = "string", !.at = i]
               [] q[i] = "open" -> [acc EXCEPT !.mode = "comment"]
               [] q[i] = "dashes" -> [acc EXCEPT !.mode = "line"]
               [] q[i] \in {"newline", "unknown"} -> acc
               [] OTHER -> [acc EXCEPT !.tokens = Append(@, Token(q[i], i, i))]

\* tokenize: what has been read once the first symbols of the query are, and
\* the tokens in the end, without the comments, which getStatementRanges ignores
Run(q) ==
    LET run[i \in 0..Len(q)] ==
            IF i = 0 THEN [mode |-> "base", at |-> 0, tokens |-> <<>>]
            ELSE Scan(q, run[i - 1], i)
    IN  run

Tokenize(q) == Run(q)[Len(q)].tokens

\* The statements as lists of tokens, by the number of semicolons before
Semis(tokens, i) == Cardinality({j \in 1..(i - 1) : tokens[j].type = "semi"})

Statement(tokens, k) ==
    {tokens[i] : i \in {j \in DOMAIN tokens : /\ tokens[j].type # "semi"
                                              /\ Semis(tokens, j) = k}}

TokenStatements(q) ==
    LET tokens == Tokenize(q)
    IN  {Statement(tokens, k) : k \in 0..Len(tokens)} \ {{}}

FirstToken(statement) == CHOOSE t \in statement : \A u \in statement : t.first <= u.first
LastToken(statement) == CHOOSE t \in statement : \A u \in statement : u.first <= t.first

\* A token has the line that it starts in and the column that it ends at.
LastCharPosition(q, t) == t.last - LineStart(q, t.last) + LineStart(q, t.first)

\* getStatementRanges, getStatementsFromQuery: empty ranges are left out
Chars(q, s) == FirstToken(s).first .. LastCharPosition(q, LastToken(s))

StatementRanges(q) == {Chars(q, s) : s \in TokenStatements(q)} \ {{}}

-----------------------------------------------------------------------------
(* What is to be split *)

\* The state that each symbol of a query is read in
ReadIn(q) ==
    LET in[i \in 1..(Len(q) + 1)] ==
            IF i = 1 THEN "base"
            ELSE IF in[i - 1] = "base"
            THEN CASE q[i - 1] \in {"quote", "escaped"} -> "quote"
                   [] q[i - 1] \in {"open", "dashes"} -> q[i - 1]
                   [] OTHER -> "base"
            ELSE IF <<in[i - 1], q[i - 1]>> \in
                      {<<"quote", "quote">>, <<"open", "close">>, <<"dashes", "newline">>}
            THEN "base" ELSE in[i - 1]
    IN  in

Separators(q) == {i \in DOMAIN q : ReadIn(q)[i] = "base" /\ q[i] = "semi"}

\* neither a blank nor unknown nor in a comment nor a separator
Text(q) ==
    {i \in DOMAIN q : \/ ReadIn(q)[i] = "quote"
                      \/ /\ ReadIn(q)[i] = "base"
                         /\ q[i] \in {"letter", "quote", "escaped", "close"}}

\* the string that the query ends in before it is closed
Unclosed(q) ==
    {i \in DOMAIN q : \A j \in (i + 1)..(Len(q) + 1) : ReadIn(q)[j] = "quote"}

\* A statement that ends in a string of several lines is cut short.
EndsInLines(q) ==
    \E s \in TokenStatements(q) :
        LineStart(q, LastToken(s).first) # LineStart(q, LastToken(s).last)

\* What an escaped quote is depends on the language when no quote comes after
\* it on its line.
EscapedLast(q) ==
    \E i \in DOMAIN q : q[i] = "escaped" /\ "quote" \notin RestOfLine(q, i)

\* Statements begin with text, do not overlap and hold no separator, and all of
\* the text is in them: a semicolon in a string or a comment separates nothing,
\* and statements, strings and comments may go over lines.  What is in a string
\* that is not closed is in no statement, and of a query where a statement ends
\* in a string of several lines not all of the text may be.  Unknown symbols
\* are not text: a statement is cut before those that it ends in.  A query with
\* an escaped quote that is the last on its line is excepted.
SplitsTheQuery ==
    \/ EscapedLast(query)
    \/ /\ \A r, t \in StatementRanges(query) : r # t => r \cap t = {}
       /\ \A r \in StatementRanges(query) :
             /\ r \cap Separators(query) = {}
             /\ Min(r) \in Text(query)
       /\ ~EndsInLines(query) =>
             /\ Text(query) \ Unclosed(query) \subseteq UNION StatementRanges(query)
             /\ \A r \in StatementRanges(query) : Max(r) \in Text(query)

=============================================================================
