------------------------------- MODULE Lexer -------------------------------
(***************************************************************************)
(* The lexer (src/lexer/lexer.py, src/lexer/tokens.py).  A text is a       *)
(* sequence of characters, each a string of length one, and so is every    *)
(* part of it.  One action is one turn of tokenize's loop; an exception    *)
(* ends it, and pos stays where the turn began, for the properties: the    *)
(* scanner is gone with the exception, whose text names a place only for   *)
(* an unknown character, and then this one.                                *)
(***************************************************************************)
EXTENDS Integers, Sequences, FiniteSetsExt

CONSTANTS Texts,      \* the texts to be read
          Letters,    \* the characters isalpha() accepts here
          Digits      \* and isdigit()

VARIABLES text, pos, line, column,
          toks,       \* [type, value, line, column] each
          verdict,    \* "run", "done" or the exception
          spans       \* first and last position of each token: for the properties only

vars == <<text, pos, line, column, toks, verdict, spans>>

-----------------------------------------------------------------------------
KEYWORDS ==
  {<<"u", "i", "n", "t", "3", "2">>, <<"i", "n", "t">>, <<"f", "l", "o", "a", "t">>,
   <<"b", "o", "o", "l">>, <<"c", "h", "a", "r">>, <<"v", "o", "i", "d">>,
   <<"c", "o", "n", "s", "t">>, <<"i", "f">>, <<"e", "l", "s", "e">>,
   <<"w", "h", "i", "l", "e">>, <<"f", "o", "r">>, <<"b", "r", "e", "a", "k">>,
   <<"c", "o", "n", "t", "i", "n", "u", "e">>, <<"r", "e", "t", "u", "r", "n">>,
   <<"s", "w", "i", "t", "c", "h">>, <<"c", "a", "s", "e">>,
   <<"d", "e", "f", "a", "u", "l", "t">>}
SYMBOLS_1 == {"+", "-", "*", "/", "%", "=", ";", ",", "(", ")", "{", "}",
              "[", "]", "<", ">", "!", ":"}
SYMBOLS_2 == {<<"<", "=">>, <<">", "=">>, <<"=", "=">>, <<"!", "=">>,
              <<"&", "&">>, <<"|", "|">>, <<"+", "+">>, <<"-", "-">>}
BOOL_LITERALS == {<<"t", "r", "u", "e">>, <<"f", "a", "l", "s", "e">>}

Backslash == "\\"
Quote     == "\""
None      == ""
Blanks    == {" ", "\n", "\t", "\r"}
WordStart == Letters \cup {"_"}
WordPart  == WordStart \cup Digits

\* The characters the lexer knows by themselves.
Marks == Blanks \cup SYMBOLS_1 \cup {"&", "|", Quote, "'", Backslash, ".", "_"}

\* No character is of two sorts: isspace(), isalpha() and isdigit() exclude each
\* other, and none of them holds of a mark but isspace() of the blanks.
ASSUME SortsApart ==
  /\ Letters \cap Digits = {}
  /\ Letters \cap Marks = {}
  /\ Digits \cap Marks = {}
  /\ None \notin Letters \cup Digits

\* The words of the tables are written with letters and, after the first, digits.
ASSUME WordsSpelled ==
  \A w \in KEYWORDS \cup BOOL_LITERALS :
    w[1] \in Letters /\ \A k \in DOMAIN w : w[k] \in WordPart

\* A text is any string, so a sequence of characters.
ASSUME TextsAreTexts == \A t \in Texts : t \in Seq(STRING) /\ None \notin {t[k] : k \in DOMAIN t}

N == Len(text)

\* peek: the character at a position, or none.
CharAt(p) == IF p \in 1..N THEN text[p] ELSE None

\* t[p : q], the characters before q.
Slice(p, q) == SubSeq(text, p, q - 1)

\* The first position from p on whose character is not in S.
After(p, S) == Min({q \in p..N : text[q] \notin S} \cup {N + 1})

\* Mutant: the columns of later lines count from zero.
LocationFromZero(p, q) ==
  LET ends == {k \in p..(q - 1) : text[k] = "\n"}
  IN  [line   |-> line + Cardinality(ends),
       column |-> IF ends = {} THEN column + (q - p) ELSE q - Max(ends) - 1]

\* Mutant: the column goes on after a newline.
LocationStays(p, q) ==
  [line   |-> line + Cardinality({k \in p..(q - 1) : text[k] = "\n"}),
   column |-> column + (q - p)]

\* Where _adv leaves line and column when p to q - 1 have gone by.
Location(p, q) ==
  LET ends == {k \in p..(q - 1) : text[k] = "\n"}
  IN  [line   |-> line + Cardinality(ends),
       column |-> IF ends = {} THEN column + (q - p) ELSE q - Max(ends)]

Advance(q) ==
  /\ pos' = q
  /\ line' = Location(pos, q).line
  /\ column' = Location(pos, q).column

\* A token from pos to q - 1.
Token(type, value, q) ==
  /\ toks' = Append(toks, [type |-> type, value |-> value, line |-> line, column |-> column])
  /\ spans' = Append(spans, <<pos, q - 1>>)
  /\ Advance(q)
  /\ UNCHANGED <<text, verdict>>

Skip(q)   == Advance(q) /\ UNCHANGED <<text, toks, spans, verdict>>
Raise(why) == verdict' = why /\ UNCHANGED <<text, pos, line, column, toks, spans>>

-----------------------------------------------------------------------------
Going == verdict = "run" /\ pos <= N
InComment == CharAt(pos) = "/" /\ CharAt(pos + 1) = "/"

Init ==
  /\ text \in Texts
  /\ pos = 1 /\ line = 1 /\ column = 1
  /\ toks = <<>> /\ spans = <<>>
  /\ verdict = "run"

Blank == Going /\ text[pos] \in Blanks /\ Skip(pos + 1)

\* Mutant: a comment goes on over the end of its line.
CommentEndNever == N + 1
\* Mutant: a comment that no newline ends is not passed.
CommentEndFound ==
  LET ends == {q \in pos..N : text[q] = "\n"}
  IN  IF ends = {} THEN pos ELSE Min(ends)
\* A comment stops before the end of its line.
CommentEnd == Min({q \in pos..N : text[q] = "\n"} \cup {N + 1})
Comment == Going /\ InComment /\ Skip(CommentEnd)

WordType(w) ==
  IF w \in BOOL_LITERALS THEN "BOOL_LIT"
  ELSE IF w \in KEYWORDS THEN "KEYWORD" ELSE "IDENTIFIER"

Word ==
  /\ Going /\ text[pos] \in WordStart
  /\ LET q == After(pos, WordPart)
     IN  Token(WordType(Slice(pos, q)), Slice(pos, q), q)

\* A point is the number's when a digit follows.
Fraction(q) == CharAt(q) = "." /\ CharAt(q + 1) \in Digits

Number ==
  /\ Going /\ text[pos] \in Digits
  /\ LET q == After(pos, Digits)
     IN  IF Fraction(q) THEN LET z == After(q + 1, Digits) IN Token("FLOAT_LIT", Slice(pos, z), z)
         ELSE Token("NUMBER", Slice(pos, q), q)

\* Mutant: an escaped quote ends the literal.
StringEndPlain == Min({q \in (pos + 1)..N : text[q] = Quote} \cup {N + 1})
\* The closing quote, or a place past the text: a backslash takes the character
\* after it along.
StringEnd ==
  LET end[q \in (pos + 1)..(N + 2)] ==
        IF q > N \/ text[q] = Quote THEN q
        ELSE IF text[q] = Backslash THEN end[q + 2] ELSE end[q + 1]
  IN  end[pos + 1]

\* Mutant: the last character is left out.
InsideShort(q) == Slice(pos + 1, q - 1)
Inside(q)      == Slice(pos + 1, q)

String ==
  /\ Going /\ text[pos] = Quote
  /\ IF StringEnd > N THEN Raise("Unterminated string literal")
     ELSE Token("STRING_LIT", Inside(StringEnd), StringEnd + 1)

\* Mutant: the backslash is a character like another.
CharPlaceRaw == pos + 1
\* The character is the one after the backslash, whatever it is.
CharPlace == IF CharAt(pos + 1) = Backslash THEN pos + 2 ELSE pos + 1

Char ==
  /\ Going /\ text[pos] = "'"
  /\ LET c == CharPlace
     IN \/ CharAt(pos + 1) = None /\ Raise("Unterminated char literal")
        \/ CharAt(pos + 1) # None /\ c > N /\ Raise("Unterminated escape in char literal")
        \/ c <= N /\ CharAt(c + 1) # "'" /\ Raise("Char literal must be single character")
        \/ c <= N /\ CharAt(c + 1) = "'" /\ Token("CHAR_LIT", <<text[c]>>, c + 2)

Pairs == <<CharAt(pos), CharAt(pos + 1)>> \in SYMBOLS_2

Symbol ==
  /\ Going /\ ~InComment
  /\ \/ Pairs /\ Token("SYMBOL", Slice(pos, pos + 2), pos + 2)
     \/ ~Pairs /\ text[pos] \in SYMBOLS_1 /\ Token("SYMBOL", <<text[pos]>>, pos + 1)

Unknown ==
  /\ Going
  /\ text[pos] \notin Blanks \cup WordPart \cup SYMBOLS_1 \cup {Quote, "'"}
  /\ ~Pairs
  /\ Raise("Unknown character")

Finish == verdict = "run" /\ pos > N /\ verdict' = "done"
            /\ UNCHANGED <<text, pos, line, column, toks, spans>>

Turn == Blank \/ Comment \/ Word \/ Number \/ String \/ Char \/ Symbol \/ Unknown \/ Finish
Next == Turn \/ (verdict # "run" /\ UNCHANGED vars)

\* The loop goes round as long as there is text.
Spec == Init /\ [][Next]_vars /\ WF_vars(Turn)

-----------------------------------------------------------------------------
(***************************************************************************)
(* The language of each kind of token, told without the lexer: whether the *)
(* characters p to q are one.                                              *)
(***************************************************************************)
AllIn(p, q, S) == \A k \in p..q : text[k] \in S
IsWord(p, q)   == text[p] \in WordStart /\ AllIn(p, q, WordPart)
IsDigits(p, q) == p <= q /\ AllIn(p, q, Digits)
IsNumber(p, q) ==
  IsDigits(p, q) \/ \E k \in p..q : text[k] = "." /\ IsDigits(p, k - 1) /\ IsDigits(k + 1, q)

\* Escaped: an odd number of backslashes right before it.
Escaped(p, k) ==
  LET run == {j \in p..(k - 1) : \A i \in j..(k - 1) : text[i] = Backslash}
  IN  Cardinality(run) % 2 = 1
IsString(p, q) ==
  /\ p < q /\ text[p] = Quote /\ text[q] = Quote /\ ~Escaped(p + 1, q)
  /\ \A k \in (p + 1)..(q - 1) : text[k] = Quote => Escaped(p + 1, k)
IsChar(p, q) ==
  /\ text[p] = "'" /\ text[q] = "'"
  /\ \/ q = p + 2 /\ text[p + 1] # Backslash
     \/ q = p + 3 /\ text[p + 1] = Backslash
IsSymbol(p, q) ==
  \/ q = p /\ text[p] \in SYMBOLS_1
  \/ q = p + 1 /\ <<text[p], text[q]>> \in SYMBOLS_2

IsToken(p, q) == IsWord(p, q) \/ IsNumber(p, q) \/ IsString(p, q) \/ IsChar(p, q) \/ IsSymbol(p, q)

\* Between tokens: blanks, and comments to the end of their line.
IsGap(p, q) ==
  \A k \in p..q : \/ text[k] \in Blanks
                  \/ \E s \in p..k : /\ s < N /\ text[s] = "/" /\ text[s + 1] = "/"
                                     /\ \A i \in s..k : text[i] # "\n"

TypeOK ==
  /\ verdict \in {"run", "done", "Unterminated string literal", "Unterminated char literal",
                  "Unterminated escape in char literal", "Char literal must be single character",
                  "Unknown character"}
  /\ pos \in 1..(N + 1) /\ line \in 1..(N + 1) /\ column \in 1..(N + 1)
  /\ Len(toks) = Len(spans)

\* The newlines from p to q - 1, and the line and column a reader who knows only
\* the text finds a place on.
Ends(p, q)  == {k \in p..(q - 1) : text[k] = "\n"}
LineAt(p)   == 1 + Cardinality(Ends(1, p))
ColumnAt(p) == p - (IF Ends(1, p) = {} THEN 0 ELSE Max(Ends(1, p)))

\* Every token is where it says it is, however many lines, comments and
\* literals over several lines lie before it (lexer.py:20-28, 47).
LocationsTrue ==
  \A k \in DOMAIN toks : /\ toks[k].line = LineAt(spans[k][1])
                         /\ toks[k].column = ColumnAt(spans[k][1])

\* The scanner and its tokens never lose their place in the text.
PlacesTrue == TypeOK /\ LocationsTrue

\* From where to where nothing is kept: before the k-th token, or after the last.
GapStart(k) == IF k = 1 THEN 1 ELSE spans[k - 1][2] + 1
GapEnd(k)   == IF k <= Len(spans) THEN spans[k][1] - 1 ELSE pos - 1

\* No character is lost and none read twice: between tokens there are only
\* blanks and comments, and a comment ends with its line (lexer.py:36-45).
NothingLost ==
  \A k \in 1..(Len(spans) + 1) :
    GapStart(k) <= GapEnd(k) + 1 /\ IsGap(GapStart(k), GapEnd(k))

\* Every token is the longest there is at its place (lexer.py:49-114).
LongestTaken ==
  \A k \in DOMAIN spans :
    LET p == spans[k][1]  q == spans[k][2]
    IN  IsToken(p, q) /\ \A z \in (q + 1)..N : ~IsToken(p, z)

\* A word, number or symbol of a type is p to q as they stand.
AsItStands(type, value, p, q) ==
  /\ Slice(p, q + 1) = value
  /\ type \in {"NUMBER", "FLOAT_LIT"} <=> text[p] \in Digits
  /\ type = "FLOAT_LIT" <=> \E i \in p..q : text[i] = "."
  /\ type = "KEYWORD" <=> value \in KEYWORDS
  /\ type = "BOOL_LIT" <=> value \in BOOL_LITERALS
  /\ type = "SYMBOL" <=> value \in {<<c>> : c \in SYMBOLS_1} \cup SYMBOLS_2

\* The characters p to q are what a token of this type and value was made of.
Spells(type, value, p, q) ==
  /\ type = "STRING_LIT" => Slice(p, q + 1) = <<Quote>> \o value \o <<Quote>>
  /\ type = "CHAR_LIT" => \/ Slice(p, q + 1) = <<"'">> \o value \o <<"'">>
                          \/ Slice(p, q + 1) = <<"'", Backslash>> \o value \o <<"'">>
  /\ type \notin {"STRING_LIT", "CHAR_LIT"} => AsItStands(type, value, p, q)

\* What a token keeps spells it: nothing of it is lost but quotes and the
\* backslash of a character, and its type is what it looks like
\* (lexer.py:53-55, 66-68, 83, 95-100, 108-113).
SpelledAgain ==
  \A k \in DOMAIN toks : Spells(toks[k].type, toks[k].value, spans[k][1], spans[k][2])

\* A token is all of what stands at its place, and says what it is.
TokensRight == LongestTaken /\ SpelledAgain

\* An exception is raised only in a turn that began where no token begins
\* (lexer.py:81-98, 116).
RefusedRightly ==
  verdict \notin {"run", "done"} => \A q \in pos..N : ~IsToken(pos, q)

\* The loop ends.
Terminates == <>(verdict # "run")

=============================================================================
