------------------------------- MODULE F5Text -------------------------------
(***************************************************************************)
(* How f5_worker.py spells a text for its model: convert_char_to_pinyin.  *)
(* A text is the sequence of segments jieba cuts it into, a segment a      *)
(* sequence of characters. A character matters by its length in UTF-8 and *)
(* by whether it is read as pinyin; jieba gives a segment of three-byte    *)
(* characters that is Chinese throughout or a single character.            *)
(***************************************************************************)
EXTENDS Naturals, Sequences, SequencesExt

CONSTANTS Ascii,        \* one byte each
          Tight,        \* those after which no blank is put: " :'\""
          Curly,        \* quotes that become ASCII ones first
          Latin,        \* two bytes
          Han,          \* three bytes, read as pinyin
          Wide,         \* three bytes, not read as pinyin
          Blank, Quote, \* two of the tight ones
          Semicolon, Comma  \* the one becomes the other

Characters == Ascii \cup Curly \cup Latin \cup Han \cup Wide

ASSUME CharactersAssumption ==
  /\ {Blank, Quote} \subseteq Tight /\ Tight \subseteq Ascii
  /\ {Semicolon, Comma} \subseteq Ascii
  /\ \A S, T \in {Ascii, Latin, Curly, Han, Wide} : S # T => S \cap T = {}

Token(c, pinyin) == [of |-> c, pinyin |-> pinyin]
Separator == Token(Blank, FALSE)

\* str.translate, before jieba cuts the text.
Plain(c) == IF c \in Curly THEN Quote ELSE IF c = Semicolon THEN Comma ELSE c
Translate(segment) == [i \in DOMAIN segment |-> Plain(segment[i])]

Spell(segment) == [i \in DOMAIN segment |-> Token(segment[i], FALSE)]

IsAscii(segment) == \A i \in DOMAIN segment : segment[i] \in Ascii

\* Mutant: a word is set off only when it is the second segment or later.
NeedsBlankLate(cl, segment) == Len(cl) > 1 /\ Len(segment) > 1 /\ Last(cl).of \notin Tight

\* A word of several letters is set off, unless a blank, a colon or a quote
\* goes before it.
NeedsBlank(cl, segment) ==
  /\ cl # <<>>
  /\ Len(segment) > 1
  /\ Last(cl).of \notin Tight

AddCharacter(cl, c) ==
  IF c \in Han THEN cl \o <<Separator, Token(c, TRUE)>> ELSE Append(cl, Token(c, FALSE))

\* As many bytes as characters is an ASCII segment. The other two branches
\* differ in where the pinyin is looked up.
AddSegment(cl, segment) ==
  IF IsAscii(segment)
  THEN (IF NeedsBlank(cl, segment) THEN Append(cl, Separator) ELSE cl) \o Spell(segment)
  ELSE FoldLeft(AddCharacter, cl, segment)

Tokens(text) ==
  FoldLeft(AddSegment, <<>>, [i \in DOMAIN text |-> Translate(text[i])])

(***************************************************************************)
(* What the tokens of a text should be.                                    *)
(***************************************************************************)
\* One token for each character and in order, with a separator before some.
Marked(chars, apart) ==
  FlattenSeq([i \in DOMAIN chars |->
    IF i \in apart THEN <<Separator.of, chars[i]>> ELSE <<chars[i]>>])

Spells(text, tokens) ==
  LET chars == Translate(FlattenSeq(text))
  IN \E apart \in SUBSET DOMAIN chars :
       [i \in DOMAIN tokens |-> tokens[i].of] = Marked(chars, apart)

SetApart(text, tokens) ==
  /\ \A i \in DOMAIN tokens : tokens[i].pinyin => i > 1 /\ tokens[i - 1] = Separator
  /\ \A k \in DOMAIN text : k > 1 /\ Len(text[k]) > 1 /\ IsAscii(text[k]) =>
       LET before == Tokens(SubSeq(text, 1, k - 1))
       IN Last(before).of \in Tight \/ tokens[Len(before) + 1] = Separator
=============================================================================
