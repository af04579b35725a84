-------------------------------- MODULE Bencode --------------------------------
(***************************************************************************)
(* How a torrent file and an answer of an HTTP tracker are read: the       *)
(* parser of rgTorrent-c/bencoding/bencode_parser.c, and what its callers  *)
(* make of a result that comes with an error.                              *)
(*                                                                         *)
(* A text is a sequence of characters; a position in it is what ftell      *)
(* gives.  The parser looks at one character ahead at most, so ungetc and  *)
(* fpeek are positions that do not advance.  Functions that call each      *)
(* other are given, as loops, what those of them that loop come to from    *)
(* each position.  Memory never runs out: a string is refused because the  *)
(* text is shorter than its length says, not because malloc gives nothing. *)
(***************************************************************************)
EXTENDS Integers, Sequences, FiniteSetsExt

CONSTANTS
    DIGITS_IN_LONG, \* how many characters a number may have, its sign included
    Texts           \* bound: the texts that are read

Digits   == {"0", "1", "2"}    \* bound: no number is written with others
DigitOf  == [c \in Digits |-> CASE c = "0" -> 0 [] c = "1" -> 1 [] c = "2" -> 2]
Alphabet == Digits \cup {"d", "l", "i", "e", ":", "-"}
EOF      == "EOF"
InfoKey  == <<"e">>            \* the one key that stands for "info"

ASSUME BencodeAssumption == DIGITS_IN_LONG \in Nat \ {0} /\ Texts \subseteq Seq(Alphabet)

\* A node has a type, a value, and its place in the text once it has been read.
Node(type, value) == [type |-> type, value |-> value]
NULL              == [type |-> "NULL"]
Undefined         == [undefined |-> 0]  \* a long that was never assigned

VARIABLES
    text,     \* the text of the file, or the body of the response
    read,     \* who read it: "nobody", "torrent", "tracker" or "contents"
    root,     \* the node that the reader goes on with
    hashed    \* the text whose hash identifies the torrent

vars == <<text, read, root, hashed>>

------------------------------------------------------------------------------
(* The parser.  Every function gives its node, the position behind it, and    *)
(* whether an error is reported, or the function never returns.               *)

Result(node, at, status) == [node |-> node, at |-> at, status |-> status]
Good(node, at) == Result(node, at, "good")
Bad(at)        == Result(NULL, at, "error")

At(t, p) == IF p < Len(t) THEN t[p + 1] ELSE EOF

\* Where fgetc leaves the file.
Behind(t, p) == IF p < Len(t) THEN p + 1 ELSE p

\* Where the digits of t that follow position p end.
EndOfDigits(t, p) == Min({q \in p .. Len(t) : At(t, q) \notin Digits})

\* The number written in t from position a to b.
strtol(t, a, b) ==
    LET upTo[q \in a .. b] == IF q = a THEN 0 ELSE 10 * upTo[q - 1] + DigitOf[t[q]]
    IN  upTo[b]

\* Mutant: the sign is not counted.
TooLongUnsigned(sign, digits) == digits > DIGITS_IN_LONG

TooLong(sign, digits) == sign + digits > DIGITS_IN_LONG

\* A number, in the result's node.
extractNumber(t, p) ==
    LET sign  == IF At(t, p) = "-" THEN 1 ELSE 0
        start == p + sign
        end   == EndOfDigits(t, start)
    IN  IF TooLong(sign, end - start) \/ end = start THEN Result(Undefined, p, "error")
        ELSE Good((IF sign = 1 THEN -1 ELSE 1) * strtol(t, start, end), end)

\* The node is there even when an error is reported.
parseInt(t, p) ==
    LET number == extractNumber(t, p + 1)
    IN  IF number.status = "good" /\ At(t, number.at) = "e"
        THEN Good(Node("int", number.node), number.at + 1)
        ELSE Result(Node("int", number.node), number.at, "error")

parseString(t, p) ==
    LET length == extractNumber(t, p)
        start  == length.at + 1
    IN  IF length.status = "error" \/ At(t, length.at) # ":" THEN Bad(p)
        ELSE IF start + length.node > Len(t) THEN Bad(Len(t))
        ELSE Good(Node("str", SubSeq(t, start + 1, start + length.node)), start + length.node)

parseList(t, p, loops) == loops[<<"list", p + 1>>]

parseDict(t, p, loops) == IF At(t, p) = "d" THEN loops[<<"dict", p + 1>>] ELSE Bad(p + 1)

Placed(node, start, end) == [type |-> node.type, value |-> node.value, start |-> start, end |-> end]

\* Mutant: the end is taken before the last character is read.
SpanWithoutEnd(node, start, end) == Placed(node, start, end - 1)

\* The offsets of a node, set when it has been read.
Span(node, start, end) == Placed(node, start, end)

Spanned(p, made) ==
    IF made.node = NULL THEN made
    ELSE Result(Span(made.node, p, made.at), made.at, made.status)

parseCollectionValue(t, p, loops) ==
    LET ch == At(t, p)
    IN  Spanned(p, CASE ch = "l" -> parseList(t, p, loops)
                     [] ch = "d" -> parseDict(t, p, loops)
                     [] ch = "i" -> parseInt(t, p)
                     [] ch \in Digits -> parseString(t, p)
                     [] OTHER -> Good(NULL, p))

\* What was read before the rest of a collection comes before it.
Before(item, rest) ==
    IF rest.node = NULL THEN rest
    ELSE Result(Node(rest.node.type, <<item>> \o rest.node.value), rest.at, rest.status)

\* Mutant: a list that ends with the file is a list.
ListEndsAtEOF(ch) == ch \in {"e", EOF}

ListEnds(ch) == ch = "e"

\* The loop of parseList at position p, and all that it reads from there.  A
\* character that begins no value gives NULL without an error and is not read,
\* so the loop meets it again and again.
ListLoop(t, p, loops) ==
    IF ListEnds(At(t, p)) THEN Good(Node("list", <<>>), Behind(t, p))
    ELSE IF At(t, p) = EOF THEN Bad(p)
    ELSE LET item == parseCollectionValue(t, p, loops)
         IN  IF item.status # "good" THEN Result(NULL, item.at, item.status)
             ELSE IF item.node = NULL THEN Result(NULL, p, "never returns")
             ELSE Before(item.node, loops[<<"list", item.at>>])

\* The loop of parseDict.  The node is there when the text ends early.
DictLoop(t, p, loops) ==
    CASE At(t, p) = "e" -> Good(Node("dict", <<>>), p + 1)
      [] At(t, p) = EOF -> Result(Node("dict", <<>>), p, "error")
      [] At(t, p) \notin Digits \cup {"e", EOF} -> Bad(p)
      [] At(t, p) \in Digits ->
           LET key   == parseString(t, p)
               value == parseCollectionValue(t, key.at, loops)
           IN  IF key.status # "good" THEN Bad(key.at)
               ELSE IF value.status # "good" THEN Result(NULL, value.at, value.status)
               ELSE Before([key |-> key.node.value, value |-> value.node],
                           loops[<<"dict", value.at>>])

Loops(t) ==
    LET loops[w \in {"list", "dict"} \X (0 .. Len(t))] ==
            IF w[1] = "list" THEN ListLoop(t, w[2], loops) ELSE DictLoop(t, w[2], loops)
    IN  loops

\* The value of the first such key, if the node is a dictionary that has it.
getDictValue(node, key) ==
    LET found == IF node.type = "dict"
                 THEN {k \in DOMAIN node.value : node.value[k].key = key} ELSE {}
    IN  IF found = {} THEN NULL ELSE node.value[Min(found)].value

------------------------------------------------------------------------------
Init ==
    /\ text \in Texts
    /\ read = "nobody"
    /\ root = NULL
    /\ hashed = <<>>

\* What the download thread reads from the file again, and hashes.
info_buf(info) == SubSeq(text, info.start + 1, info.end)

\* The reader of a torrent file looks at the node only, not at the error; if
\* it has a dictionary "info", the text of that is hashed.  Which keys that
\* must have is abstracted.
ts_add_torrent ==
    \E result \in {parseCollectionValue(text, 0, Loops(text))} :
    \E info \in {getDictValue(result.node, InfoKey)} :
        /\ read = "nobody"
        /\ result.status # "never returns"
        /\ read' = "torrent"
        /\ root' = result.node
        /\ hashed' = IF info.type = "dict" THEN info_buf(info) ELSE <<>>
        /\ UNCHANGED text

\* The answer of a tracker must be a dictionary without an error.
parse_peers_from_http_body ==
    \E result \in {parseDict(text, 0, Loops(text))} :
        /\ read = "nobody"
        /\ result.status # "never returns"
        /\ read' = "tracker"
        /\ root' = IF result.status = "error" THEN NULL ELSE result.node
        /\ UNCHANGED <<text, hashed>>

\* The window that shows what is in a file wants a node without an error.
torrentContents ==
    \E result \in {parseCollectionValue(text, 0, Loops(text))} :
        /\ read = "nobody"
        /\ result.status # "never returns"
        /\ read' = "contents"
        /\ root' = IF result.status = "error" THEN NULL ELSE result.node
        /\ UNCHANGED <<text, hashed>>

Next == ts_add_torrent \/ parse_peers_from_http_body \/ torrentContents

Spec == Init /\ [][Next]_vars

------------------------------------------------------------------------------
(* What a text means: the grammar, by the ways to cut it.  Denoted(t, a, b,   *)
(* bodies) are the nodes that the characters of t from position a to b stand  *)
(* for, when bodies are what may stand inside a list or a dictionary.         *)

Numbers(t, a, b) ==
    LET sign == IF a < b /\ t[a + 1] = "-" THEN 1 ELSE 0
    IN  IF a + sign < b /\ b - a <= DIGITS_IN_LONG /\ \A k \in a + sign + 1 .. b : t[k] \in Digits
        THEN {(1 - 2 * sign) * strtol(t, a + sign, b)} ELSE {}

\* A string is its length, a colon, and as many characters.
StringsIn(t, a, b) ==
    {SubSeq(t, m + 2, b) : m \in {m \in a + 1 .. b - 1 :
          t[a + 1] \in Digits /\ t[m + 1] = ":" /\ b - m - 1 \in Numbers(t, a, m)}}

Nodes(type, values, a, b) == {Placed(Node(type, v), a, b) : v \in values}

Denoted(t, a, b, bodies) ==
    IF a >= b THEN {}
    ELSE IF t[a + 1] \in Digits THEN Nodes("str", StringsIn(t, a, b), a, b)
    ELSE IF t[b] # "e" \/ a + 1 = b THEN {}
    ELSE CASE t[a + 1] = "i" -> Nodes("int", Numbers(t, a + 1, b - 1), a, b)
           [] t[a + 1] = "l" -> Nodes("list", bodies[<<"list", a + 1, b - 1>>], a, b)
           [] t[a + 1] = "d" -> Nodes("dict", bodies[<<"dict", a + 1, b - 1>>], a, b)
           [] OTHER -> {}

\* A sequence of values.
Lists(t, a, b, bodies) ==
    IF a = b THEN {<<>>}
    ELSE UNION {{<<v>> \o rest : v \in Denoted(t, a, m, bodies), rest \in bodies[<<"list", m, b>>]}
                : m \in {m \in a + 1 .. b : Denoted(t, a, m, bodies) # {}}}

\* A sequence of strings with a value each; the last may be without.
Dicts(t, a, b, bodies) ==
    IF a = b THEN {<<>>}
    ELSE {<<[key |-> k, value |-> NULL]>> : k \in StringsIn(t, a, b)}
           \cup UNION {
             UNION {{<<[key |-> k, value |-> v]>> \o rest :
                        k \in StringsIn(t, a, m), v \in Denoted(t, m, n, bodies),
                        rest \in bodies[<<"dict", n, b>>]}
                    : n \in {n \in m + 1 .. b : Denoted(t, m, n, bodies) # {}}}
             : m \in {m \in a + 1 .. b : StringsIn(t, a, m) # {}}}

Bodies(t) ==
    LET bodies[w \in {"list", "dict"} \X (0 .. Len(t)) \X (0 .. Len(t))] ==
            IF w[1] = "list" THEN Lists(t, w[2], w[3], bodies) ELSE Dicts(t, w[2], w[3], bodies)
    IN  bodies

\* What the text begins with.
Beginnings(t) == UNION {Denoted(t, 0, b, Bodies(t)) : b \in 1 .. Len(t)}

------------------------------------------------------------------------------
(* Properties *)

TypeOK ==
    /\ text \in Seq(Alphabet)
    /\ read \in {"nobody", "torrent", "tracker", "contents"}
    /\ root.type \in {"NULL", "int", "str", "list", "dict"}
    /\ hashed \in Seq(Alphabet)

\* What is read without an error is the one value of the grammar that the text
\* begins with, and a text that begins with none is refused: no way to read a
\* number, a length or an end leads the parser astray.  A tracker's answer is a
\* dictionary.
ExactlyTheGrammar ==
    /\ read = "contents" => {root} \ {NULL} = Beginnings(text)
    /\ read = "tracker" =>
          {r.value : r \in {root} \ {NULL}}
              = {n.value : n \in {m \in Beginnings(text) : m.type = "dict"}}

\* The reader of a torrent file does not look at the error, so that it takes a
\* file that was cut between two items of its dictionary, without those behind
\* the cut.  But it takes no part of a key or of a value: a dictionary that comes
\* out has exactly the items up to where the text, whole or cut, ends, the last
\* of them perhaps a key without its value, and a text that ends, or is damaged,
\* within a key or a value gives no dictionary at all.
OnlyWholeItems ==
    read = "torrent" /\ root.type = "dict" =>
        root.value \in {n.value : n \in {m \in Beginnings(Append(text, "e")) : m.type = "dict"}}

\* The identity of a torrent is the hash of a part of its file that stands for
\* the very dictionary "info" that the program goes on with, from the first
\* character to the last, whatever lies before and behind it.
HashedIsTheInfo ==
    hashed # <<>> =>
        \E a \in 0 .. Len(text) - Len(hashed) :
           LET b == a + Len(hashed)
           IN  /\ hashed = SubSeq(text, a + 1, b)
               /\ getDictValue(root, InfoKey).value
                     \in {n.value : n \in Denoted(text, a, b, Bodies(text))}

==============================================================================
