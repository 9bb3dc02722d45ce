------------------------------ MODULE MCSpeech ------------------------------
(* Characters of every length in UTF-8, and the texts to speak: words,     *)
(* single letters, Chinese beside both, quotes, accents and punctuation.   *)
EXTENDS Speech

MCAscii == {"a", "b", " ", ":", "'", ";", ","}
MCTight == {" ", ":", "'"}

Cuts ==
  { <<"a", "b">>, <<"a">>, <<" ">>, <<":">>, <<";">>, <<"curly">>,
    <<"han1", "han2">>, <<"han1">>, <<"maru">>, <<"a", "acute">>, <<"a", "han1">> }

MCTexts == UNION {[1..n -> Cuts] : n \in 1..3}
=============================================================================
