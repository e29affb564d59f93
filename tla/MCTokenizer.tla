----------------------------- MODULE MCTokenizer -----------------------------
(* Finite instances of TokenizerMeaning.                                     *)
EXTENDS TokenizerMeaning

MCChars == {"a", "e'", "*", ",", " ", "&", "|", ";", "(", ")", "\\", "\"", "'"}
MCWidth == [c \in MCChars \cup {Special[d] : d \in DOMAIN Special} \cup {End} |->
              IF c = "e'" THEN 2 ELSE IF c \in {Special[d] : d \in DOMAIN Special} THEN 3 ELSE 1]

(* Every line of up to four characters...                                    *)
Short == UNION {[1 .. n -> {"a", "*", " ", "&", "|", "\\", "\"", "'"}] : n \in 0 .. 4}

(* ...and longer ones of words in every kind of quoting, next to each other  *)
(* and next to an operator.                                                  *)
Parts == {<<"e'", "a">>, <<"*", "e'", ",">>, <<"\"", "*", "&", "'", "\"">>, <<"'", "\\", "'">>,
          <<"\\", "*">>, <<"\"">>}
Between == {<<>>, <<" ">>, <<"&", "&", "&">>, <<";", "(">>, <<"|", "|", ")">>}
Long == {p \o b \o q \o c \o r : p \in Parts, q \in Parts, r \in Parts, b \in Between, c \in Between}

MCLines == Short \cup Long
=============================================================================
