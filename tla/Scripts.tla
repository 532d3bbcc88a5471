------------------------------- MODULE Scripts -------------------------------
(***************************************************************************)
(* Splitting a script into statements (core lib.rs split_script,           *)
(* is_plsql_unit) and a statement into tokens (lexer.rs tokenize): two     *)
(* scanners that must agree on what is a string, a comment and a separator.*)
(* A character is a symbol; a keyword is one symbol, and a word if no      *)
(* letter or digit is next to it.                                          *)
(***************************************************************************)
EXTENDS Integers, Sequences, SequencesExt

Keywords == {"BEGIN", "CREATE", "OR", "EDITIONABLE", "PROCEDURE"}
Letters == {"a", "e"} \cup Keywords
Digit == "1"
WhiteSpace == {" ", "\n"}
Quotes == {"'", "\""}

At(s, i) == IF i \in DOMAIN s THEN s[i] ELSE "end"
Span(s, i, j) == SubSeq(s, i, IF j > Len(s) THEN Len(s) ELSE j - 1)
(* The first place from i on where P, or the end.                           *)
First(s, i, P(_)) == Min({j \in i..Len(s) : P(j)} \cup {Len(s) + 1})

-----------------------------------------------------------------------------
(* The lexer: the place after the token, comment or blank at i, 0 if it has *)
(* no end.                                                                  *)
CommentEnd(s, i) ==
  Min({First(s, i + 2, LAMBDA j : s[j] = "*" /\ At(s, j + 1) = "/") + 2, Len(s) + 1})
RECURSIVE StringEnd(_, _)
StringEnd(s, i) ==
  LET q == First(s, i, LAMBDA j : s[j] = "'") IN
  IF q > Len(s) THEN 0 ELSE IF At(s, q + 1) = "'" THEN StringEnd(s, q + 2) ELSE q + 1
QuotedEnd(s, i) ==
  LET q == First(s, i + 1, LAMBDA j : s[j] = "\"") IN
  IF q > Len(s) \/ q = i + 1 THEN 0 ELSE q + 1

(* Digits and one point, unless another follows it, and an exponent if it   *)
(* has digits.                                                              *)
RECURSIVE Decimal(_, _, _)
Decimal(s, i, seen_point) ==
  IF At(s, i) = Digit THEN Decimal(s, i + 1, seen_point)
  ELSE IF At(s, i) = "." /\ ~seen_point /\ At(s, i + 1) # "." THEN Decimal(s, i + 1, TRUE)
  ELSE i
NumberEnd(s, i) ==
  LET d == Decimal(s, i, FALSE)
      j == IF At(s, d + 1) \in {"+", "-"} THEN d + 2 ELSE d + 1
  IN  IF At(s, d) = "e" /\ At(s, j) = Digit THEN First(s, j, LAMBDA n : s[n] # Digit) ELSE d
WordEnd(s, i) == First(s, i, LAMBDA j : s[j] \notin Letters \cup {Digit})

Symbols2 == {<<".", ".">>, <<"*", "*">>}

Tok(k, end) == [k |-> k, end |-> end]
Scanned(s, i) ==
  LET c == s[i]
      two == <<c, At(s, i + 1)>>
  IN
  CASE c \in WhiteSpace -> Tok("blank", i + 1)
    [] two = <<"-", "-">> -> Tok("blank", First(s, i, LAMBDA j : s[j] = "\n"))
    [] two = <<"/", "*">> -> Tok("blank", CommentEnd(s, i))
    [] c = "'" -> Tok("string", StringEnd(s, i + 1))
    [] c = "\"" -> Tok("quoted", QuotedEnd(s, i))
    [] c = Digit \/ two = <<".", Digit>> -> Tok("number", NumberEnd(s, i))
    [] two = <<":", "=">> -> Tok("symbol", i + 2)
    [] c = ":" /\ two # <<":", "=">> ->
         Tok("bind", IF WordEnd(s, i + 1) = i + 1 THEN 0 ELSE WordEnd(s, i + 1))
    [] c \in Letters -> Tok("word", WordEnd(s, i))
    [] OTHER -> Tok("symbol", IF two \in Symbols2 THEN i + 2 ELSE i + 1)

RECURSIVE TokensFrom(_, _)
TokensFrom(s, i) ==
  LET t == Scanned(s, i)
      rest == TokensFrom(s, t.end)
      token == [k |-> t.k, text |-> Span(s, i, t.end), start |-> i]
  IN
  IF i > Len(s) THEN [ok |-> TRUE, toks |-> << >>]
  ELSE IF t.end = 0 THEN [ok |-> FALSE, toks |-> << >>]
  ELSE IF t.k = "blank" THEN rest
  ELSE [ok |-> rest.ok, toks |-> <<token>> \o rest.toks]
tokenize(s) == TokensFrom(s, 1)

-----------------------------------------------------------------------------
(* The words of a text, whatever is between them; at most five matter.      *)
RECURSIVE WordsFrom(_, _)
WordsFrom(s, i) ==
  LET from == First(s, i, LAMBDA j : s[j] \in Letters \cup {Digit})
      to == WordEnd(s, from)
  IN  IF from > Len(s) THEN << >> ELSE <<Span(s, from, to)>> \o WordsFrom(s, to)

Unit(words) ==
  LET w(i) == IF i \in DOMAIN words THEN words[i] ELSE << >>
      replaced == IF w(2) = <<"OR">> THEN 4 ELSE 2
      kind == IF w(replaced) = <<"EDITIONABLE">> THEN replaced + 1 ELSE replaced
  IN  w(1) = <<"BEGIN">> \/ (w(1) = <<"CREATE">> /\ w(kind) = <<"PROCEDURE">>)
is_plsql_unit(text) == Unit(WordsFrom(text, 1))

Trimmed(s) ==
  LET full == {i \in DOMAIN s : s[i] \notin WhiteSpace} IN
  IF full = {} THEN << >> ELSE SubSeq(s, Min(full), Max(full))
flush(current, out) == IF Trimmed(current) = << >> THEN out ELSE Append(out, Trimmed(current))

(* A line, from i on, of blanks only.                                       *)
BlankLine(s, i) ==
  \A j \in i..(First(s, i, LAMBDA n : s[n] = "\n") - 1) : s[j] \in WhiteSpace

(* Mutant: a slash after a statement on its line separates too. *)
AloneAfter(s, i, at_line_start) == s[i] = "/" /\ BlankLine(s, i + 1)

Alone(s, i, at_line_start) == s[i] = "/" /\ at_line_start /\ BlankLine(s, i + 1)

RECURSIVE Split(_, _, _, _, _)
Split(s, i, current, at_line_start, out) ==
  LET c == s[i]
      next == At(s, i + 1)
      eol == First(s, i, LAMBDA j : s[j] = "\n")
      close == First(s, i + 1, LAMBDA j : s[j] = c)
      comment == First(s, i + 3, LAMBDA j : s[j - 1] = "*" /\ s[j] = "/")
      start == IF c = "\n" THEN TRUE ELSE IF c \in WhiteSpace THEN at_line_start ELSE FALSE
  IN
  IF i > Len(s) THEN flush(current, out)
  ELSE CASE c \in Quotes -> Split(s, close + 1, current \o Span(s, i, close + 1), FALSE, out)
         [] c = "-" /\ next = "-" ->
              Split(s, eol + 1, current \o Span(s, eol, eol + 1), TRUE, out)
         [] c = "/" /\ next = "*" -> Split(s, comment + 1, Append(current, " "), FALSE, out)
         [] c = ";" -> IF is_plsql_unit(current) THEN Split(s, i + 1, Append(current, c), FALSE, out)
                       ELSE Split(s, i + 1, << >>, FALSE, flush(current, out))
         [] next # "*" /\ Alone(s, i, at_line_start) ->
              Split(s, eol, << >>, FALSE, flush(current, out))
         [] OTHER -> Split(s, i + 1, Append(current, c), start, out)
split_script(s) == Split(s, 1, << >>, TRUE, << >>)

-----------------------------------------------------------------------------
(* The reference: the statements are the tokens of the script between those *)
(* that separate, a semicolon outside a PL/SQL unit and a slash that is     *)
(* alone on its line of the script.                                         *)
OwnLine(s, i) ==
  LET before == {j \in 1..(i - 1) : s[j] = "\n"}
      from == IF before = {} THEN 1 ELSE Max(before) + 1
  IN  s[i] = "/" /\ \A j \in from..(First(s, i, LAMBDA n : s[n] = "\n") - 1) :
                      j # i => s[j] \in WhiteSpace
Plain(toks) == [i \in DOMAIN toks |-> <<toks[i].k, toks[i].text>>]
WordsOf(toks) ==
  LET words == SelectSeq(toks, LAMBDA t : t.k = "word") IN
  [i \in DOMAIN words |-> words[i].text]

Statements(s, toks) ==
  LET ends(acc, t) == /\ t.k = "symbol"
                      /\ \/ OwnLine(s, t.start)
                         \/ t.text = <<";">> /\ ~Unit(WordsOf(acc.current))
      step(acc, t) == IF ~ends(acc, t) THEN [acc EXCEPT !.current = Append(@, t)]
                      ELSE [all |-> Append(acc.all, acc.current), current |-> << >>]
      done == FoldLeft(step, [all |-> << >>, current |-> << >>], toks)
  IN  SelectSeq(Append(done.all, done.current), LAMBDA g : g # << >>)

(* Every token is a stretch of the script, in order, with nothing but       *)
(* blanks and comments between them.                                        *)
TokensCover(s, toks) ==
  \A i \in DOMAIN toks :
    LET gap == IF i = 1 THEN Span(s, 1, toks[1].start)
               ELSE Span(s, toks[i - 1].start + Len(toks[i - 1].text), toks[i].start)
    IN  /\ toks[i].text = Span(s, toks[i].start, toks[i].start + Len(toks[i].text))
        /\ tokenize(gap) = [ok |-> TRUE, toks |-> << >>]

SplitsAtTokens(s) ==
  LET t == tokenize(s)
      statements == Statements(s, t.toks)
      pieces == split_script(s)
  IN  t.ok =>
        /\ TokensCover(s, t.toks)
        /\ (\A i \in DOMAIN statements : statements[i][1].k = "word") =>
             /\ \A i \in DOMAIN pieces : tokenize(pieces[i]).ok
             /\ [i \in DOMAIN pieces |-> Plain(tokenize(pieces[i]).toks)]
                  = [i \in DOMAIN statements |-> Plain(statements[i])]
=============================================================================
