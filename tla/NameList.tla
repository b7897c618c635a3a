------------------------------ MODULE NameList -------------------------------
(***************************************************************************)
(* The files that list names: bans, the white list.  A file is read one    *)
(* character at a time; the characters are letters in both cases, " ", "#" *)
(* and "nl", the end of a line.                                            *)
(***************************************************************************)
EXTENDS Integers, SequencesExt

CONSTANTS
    Letters,    \* the letters in play
    Lower,      \* their lower case
    NameSize,   \* sizeof(namebuf)
    MaxChars    \* bound: characters of a file

ASSUME ListAssumption ==
    /\ Lower \in [Letters -> Letters]
    /\ Letters \cap {" ", "#", "nl"} = {}
    /\ NameSize \in Nat \ {0} /\ MaxChars \in Nat

Char == Letters \cup {" ", "#", "nl"}

VARIABLES
    names,      \* list->names
    namebuf,    \* the characters of namebuf before namep
    spaceskip,
    comment,
    open,       \* the file has not come to its end
    text        \* history: the characters that have been taken

listVars == <<names, namebuf, spaceskip, comment, open, text>>

ListInit ==
    /\ names = << >> /\ namebuf = << >> /\ spaceskip = 0 /\ comment = FALSE
    /\ open = TRUE /\ text = << >>

\* strcasecmp.
SameName(m, n) ==
    /\ Len(m) = Len(n)
    /\ \A k \in DOMAIN m :
        \/ m[k] = n[k]
        \/ m[k] \in Letters /\ n[k] \in Letters /\ Lower[m[k]] = Lower[n[k]]

NameIn(list, n) == \E k \in DOMAIN list : SameName(list[k], n)

EndLine ==
    /\ names' = IF namebuf # << >> /\ ~NameIn(names, namebuf) THEN Append(names, namebuf)
                ELSE names
    /\ namebuf' = << >> /\ spaceskip' = 0 /\ comment' = FALSE

\* Any other "#" is left out.
Hash ==
    /\ comment' = (comment \/ namebuf = << >>)
    /\ UNCHANGED <<names, namebuf, spaceskip>>

SpaceIn == spaceskip' = spaceskip + 1 /\ UNCHANGED <<names, namebuf, comment>>

\* Mutant: spaces before the name belong to it.
Spaces_All == [k \in 1 .. spaceskip |-> " "]

\* The spaces that come back when another letter follows.
Spaces == IF namebuf = << >> THEN << >> ELSE [k \in 1 .. spaceskip |-> " "]

\* The end of a name that fills the buffer is written one past it: over namep, or over
\* nothing in use.
Terminated(name) == IF Len(name) = NameSize THEN {name, << >>} ELSE {name}

Letter(c) ==
    /\ IF comment \/ Len(namebuf) + spaceskip > NameSize - 1
       THEN UNCHANGED <<namebuf, spaceskip>>
       ELSE namebuf' \in Terminated(Append(namebuf \o Spaces, c)) /\ spaceskip' = 0
    /\ UNCHANGED <<names, comment>>

Take(c) ==
    \/ c = "nl" /\ EndLine
    \/ c = "#" /\ Hash
    \/ c = " " /\ SpaceIn
    \/ c \in Letters /\ Letter(c)

ReadChar ==
    /\ open
    /\ Len(text) < MaxChars
    /\ \E c \in Char : Take(c) /\ text' = Append(text, c)
    /\ UNCHANGED open

\* feof() is true after a read has failed only: the loop takes one more character,
\* which nothing has been read into.
ListEnds ==
    /\ open
    /\ \E c \in Char : Take(c) /\ text' = Append(text, c)
    /\ open' = FALSE

ListNext == ReadChar \/ ListEnds

ListSpec == ListInit /\ [][ListNext]_listVars

-----------------------------------------------------------------------------
(* Properties                                                              *)

\* The lines of the file that have ended.
Ends == {k \in DOMAIN text : text[k] = "nl"}

LineBefore(k) ==
    LET from == CHOOSE j \in {0} \cup Ends : j < k /\ \A m \in Ends : m <= j \/ m >= k
    IN  SubSeq(text, from + 1, k - 1)

EndedLines == {LineBefore(k) : k \in Ends}

Trimmed(s) ==
    LET K == {k \in DOMAIN s : s[k] # " "}
    IN  IF K = {} THEN << >> ELSE SubSeq(s, Min(K), Max(K))

\* Lines as they are meant to be: blank, a comment, which has its "#" in front, or a
\* name; the buffer has room for them and an end, with the spaces before the name,
\* which count.
Blank(s)   == Trimmed(s) = << >>
Comment(s) == ~Blank(s) /\ Trimmed(s)[1] = "#"
PlainLine(s) == Blank(s) \/ Comment(s) \/ ("#" \notin Range(s) /\ Len(s) < NameSize)

Listed == {Trimmed(s) : s \in {t \in EndedLines : ~Blank(t) /\ ~Comment(t)}}

\* While the file is read and when its end has come, the list holds the names of the
\* lines that have ended, each of them, whatever its case, once, and nothing else: what
\* is taken after the last character ends the last line or adds nothing (namelist_parse).
ListSays ==
    (\A s \in EndedLines : PlainLine(s)) =>
        /\ \A n \in Listed : NameIn(names, n)
        /\ Range(names) \subseteq Listed
        /\ \A j, k \in DOMAIN names : SameName(names[j], names[k]) => j = k
=============================================================================
