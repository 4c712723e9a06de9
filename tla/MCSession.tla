------------------------------ MODULE MCSession ------------------------------
(* Session with small sets of frames, names and addresses for TLC. *)
EXTENDS Session

\* A header with a key, and ones that are too short, without a key, with the
\* key too late, and with one that does not end as a key does.
Hello(len, key, spaces, equals) ==
    [len |-> len, key |-> key, spaces |-> spaces, equals |-> equals]
MCHellos == {Hello(450, 300, 1, TRUE), Hello(119, 60, 1, TRUE),
             Hello(450, -1, 1, FALSE), Hello(450, 300, 120, TRUE),
             Hello(450, 300, 1, FALSE)}

Frame(fin, op, len, cmd, name) ==
    [fin |-> fin, op |-> op, len |-> len, cmd |-> cmd, name |-> name]
InitRI(len) == Frame(TRUE, 2, len, "InitRI", <<>>)
CrtUsr(name) == Frame(TRUE, 2, 12 + 2 * Len(name), "CrtUsr", name)

\* ASCII, Greek and a surrogate pair in one; a high surrogate before a letter;
\* a pair above U+FFFFF; no character.
Mixed    == <<97, 945, 55357, 56832>>
Unpaired == <<55357, 97>>
Plane16  == <<56256, 56320>>
MCNames  == {Mixed, Unpaired, Plane16, <<>>}

\* Lengths: empty, usual, 16 bits of two equal bytes, 16 bits that the server
\* reads as 1, as 1485 and as 1492, 64 bits.
MCFrames ==
    {InitRI(len) : len \in {0, 2, 257, 256, 52485, 54277, 70000}}
    \cup {CrtUsr(name) : name \in MCNames}
    \cup {Frame(TRUE, 8, 2, "other", <<>>), Frame(TRUE, 9, 2, "other", <<>>),
          Frame(TRUE, 1, 2, "other", <<>>), Frame(FALSE, 2, 2, "other", <<>>),
          Frame(TRUE, 2, 2, "other", <<>>)}

V4 == <<10, 0, 0, 1>>
V6 == <<32, 1, 13, 184>> \o [i \in 1..12 |-> IF i = 12 THEN 1 ELSE 0]
MCPeers == {[ip |-> V4, super |-> TRUE], [ip |-> V6, super |-> FALSE]}

MCMessages == {<<83, 84, 82>>, [i \in 1..30 |-> 65]}

\* A regular end, one while the disk is nearly full, and errors of the log.
LogEnd(how, cut, room) == [how |-> how, cut |-> cut, room |-> room]
MCEnds == {LogEnd("CLOSE_Normal", 0, 1000), LogEnd("CLOSE_Abort", 0, 30),
           LogEnd("failed", 0, 1000), LogEnd("failed", 1, 1000),
           LogEnd("failed", 5, 1000)}

=============================================================================
