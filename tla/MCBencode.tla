------------------------------- MODULE MCBencode -------------------------------
(***************************************************************************)
(* The texts that Bencode is checked with: all that are short, and longer  *)
(* ones that are sentences of the grammar with a fault.                    *)
(***************************************************************************)
EXTENDS Bencode, SequencesExt

CONSTANT MaxLength \* bound: every text up to this length is read

Ints    == {<<"i">> \o n \o <<"e">> : n \in {<<"0">>, <<"-", "1">>, <<"1", "2">>, <<"-", "1", "2">>}}
Strings == {<<"0", ":">>, <<"1", ":", "e">>, <<"2", ":", "1", ":">>}
Listed(vs) == <<"l">> \o FlattenSeq(vs) \o <<"e">>
Keyed(vs)  == <<"d">> \o FlattenSeq([k \in DOMAIN vs |-> <<"1", ":", IF k = 1 THEN "e" ELSE "d">> \o vs[k]])
                \o <<"e">>
Short   == Ints \cup Strings
Nested  == {Listed(<<a>>) : a \in Short} \cup {Keyed(<<a>>) : a \in Short}
              \cup {Listed(<<>>), Keyed(<<>>)}
\* bound: the longer texts
Sentences ==
    {Keyed(vs) : vs \in SeqOf(Short, 2)} \cup {Keyed(<<a>>) : a \in Nested}
        \cup {Listed(<<a, b>>) : a \in Nested, b \in Short}
        \cup {Keyed(<<Keyed(<<a>>), b>>) : a \in Nested, b \in Strings}

\* A sentence that is cut, or has one character changed, or more behind it.
Damaged(t) ==
    {SubSeq(t, 1, n) : n \in 0 .. Len(t)}
        \cup {[t EXCEPT ![n] = c] : n \in DOMAIN t, c \in Alphabet}
        \cup {Append(t, c) : c \in Alphabet}

BencodeTexts == SeqOf(Alphabet, MaxLength) \cup UNION {Damaged(t) : t \in Sentences}

==============================================================================
