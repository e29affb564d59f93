------------------------------ MODULE MCShell ------------------------------
(* Finite instances of ShellMeaning.                                         *)
EXTENDS ShellMeaning

MCWords == {"true", "false", "cd", "exit", "sub", ".."}
MCDirs == {Root, Append(Root, "sub")}

(* Every line of up to three tokens, well-formed or not...                   *)
BareCd(l) == \E i \in DOMAIN l : /\ l[i] = "cd" /\ (i = 1 \/ l[i - 1] \notin MCWords)
                                 /\ (i = Len(l) \/ l[i + 1] \notin MCWords)
Short == UNION {[1 .. n -> {"true", "cd", "sub", "exit", "&&", ";", "(", ")", "&"}] : n \in 0 .. 3}

(* ...and longer ones, put together from commands, operators, parentheses.   *)
Cmds == {<<"true">>, <<"false">>, <<"cd", "sub">>, <<"exit">>}
Lasts == {<<"true">>, <<"cd", "sub">>, <<"cd", "..">>, <<"exit">>}
Pairs == {a \o <<op>> \o b : a \in Cmds, b \in Lasts, op \in Operators}
Groups == {<<"(">> \o p \o <<")">> : p \in Pairs}
Mixed ==
  {p \o <<op>> \o c : p \in Pairs, op \in Operators, c \in Lasts}
  \cup {g \o <<op>> \o c : g \in Groups, op \in Operators, c \in Lasts}
  \cup {c \o <<op>> \o g : g \in Groups, op \in Operators, c \in Cmds}
  \cup {<<"(">> \o g \o <<op>> \o c \o <<")">> : g \in Groups, op \in {"||"}, c \in {<<"cd", "sub">>}}

MCLines == {l \in Short : ~ BareCd(l)} \cup Mixed

(* exit; true                                                                *)
ExitLines == {<<"exit", ";", "true">>}
=============================================================================
