------------------------------- MODULE Config --------------------------------
(***************************************************************************)
(* The configuration file: lines, the parser that takes them one character *)
(* at a time, the settings it calls back with, the defaults.  A character  *)
(* here is a word, a space, the end of a line ("nl") or one of the signs   *)
(* "[", "]", "=" and "#" (";" too).  A setting is a pair of a section and  *)
(* a key; its value is a number, a boolean or a sequence of characters.    *)
(***************************************************************************)
EXTENDS Integers, SequencesExt

CONSTANTS
    Word,       \* the words of a file
    Numbers,    \* words that strtol takes for a number
    NumberOf,   \* and the number of each
    Codes,      \* words of one letter, which name a colour
    Rgba,       \* words of eight hexadecimal digits
    ParserSize,    \* size of the parser's buffers
    ProxySize,     \* of the buffer for one of the web proxies,
    SaltSize,      \* and of that of the salt, without its end
    UIntSize,      \* how many values an unsigned int has
    Resets,        \* what the end of a proxy that fills its buffer is written over, one
                   \* past it: the place of the next character, or nothing in use
    LineSet,    \* the lines in play
    MaxLines,   \* bound: lines of a file
    Unset

Signs == {"[", "]", "=", "#", " ", "nl"}

\* What a buffer of the parser, or a setting, is made of: the words and signs of a file,
\* what was in the memory of a buffer before, and the defaults.
Character ==
    Word \cup Signs \cup {"junk", "Unnamed server", "a MotD", "world", "classic"}

ASSUME ConfigAssumption ==
    /\ NumberOf \in [Numbers -> Int]
    /\ ParserSize \in Nat \ {0} /\ ProxySize \in Nat \ {0} /\ SaltSize \in Nat
    /\ UIntSize \in Nat /\ \E half \in 1 .. UIntSize : UIntSize = 2 * half
    /\ Resets \in BOOLEAN /\ MaxLines \in Nat
    /\ \A l \in LineSet :
        /\ l.says \in {"section", "set", "comment", "word", "nothing"}
        /\ l.says # "nothing" => l.word \in Word
        /\ l.says = "set" => l.value \in Seq(Word \cup (Signs \ {"nl"}))
    /\ Word \cap Signs = {}
    /\ Unset \notin Seq(Character)

Texts == {<<"server", "name">>, <<"server", "motd">>, <<"map", "name">>,
          <<"map", "generator">>, <<"map", "image_path">>, <<"debug", "fixed_salt">>}

Bools == {<<"server", "public">>, <<"server", "offline">>, <<"server", "whitelist">>,
          <<"server", "enable_old_clients">>, <<"debug", "disable_save">>}

Ints == {<<"server", "port">>, <<"server", "max_players">>, <<"map", "width">>,
         <<"map", "depth">>, <<"map", "height">>, <<"map", "image_interval">>,
         <<"map", "seed">>}

Signed == {<<"map", "image_interval">>, <<"map", "seed">>}

Port    == <<"server", "port">>
Players == <<"server", "max_players">>
Proxies == <<"server", "web_proxies">>
Salt    == <<"debug", "fixed_salt">>
Random  == <<"map", "random_seed">>
Colours == <<"colours", "all">>

-----------------------------------------------------------------------------
(* The settings                                                            *)

\* What config_init begins with.
Cleared ==
    [f \in Texts \cup Bools \cup Ints \cup {Proxies, Random, Colours} |->
        CASE f \in {Salt, Colours}  -> << >>
          [] f \in Texts \ {Salt}   -> Unset
          [] f \in Bools            -> FALSE
          [] f \in Ints             -> 0
          [] f = Proxies            -> <<<<"34.223.5.250">>>>
          [] f = Random             -> TRUE]

\* strtol reads as far as the number goes.
IsNumber(value) == value # << >> /\ value[1] \in Numbers
Parsed(value)   == NumberOf[value[1]]

\* Mutant: the port is as wide as the other numbers.
Cast_Wide(f, n) == n

\* A number loses what its type has no room for; that of the port has 16 bits.
UShortSize == 65536
Half == UIntSize \div 2

Cast(f, n) ==
    CASE f = Port    -> n % UShortSize
      [] f \in Signed -> ((n + Half) % UIntSize) - Half
      [] OTHER       -> n % UIntSize

\* The word a character is added to, in a buffer of some size: a full one stays as it is.
Longer(word, c, size) ==
    IF Len(word) >= size THEN word
    ELSE IF Len(word) + 1 = size /\ Resets THEN << >> ELSE Append(word, c)

NextChar(words, c, size) ==
    IF c = " " THEN Append(words, << >>)
    ELSE [words EXCEPT ![Len(words)] = Longer(@, c, size)]

\* A list at its spaces, by way of a buffer for one word.
Split(value, size) == FoldLeft(LAMBDA ws, c : NextChar(ws, c, size), <<<< >>>>, value)

\* There may be more spaces than one between the words.
Words(value, size) == SelectSeq(Split(value, size), LAMBDA w : w # << >>)

\* strncpy: the rest of the salt is cleared.
Copied(f, value) == IF f = Salt /\ Len(value) > SaltSize THEN SubSeq(value, 1, SaltSize) ELSE value

\* cfg_callback: what does not parse and what it does not know changes nothing.
Callback(cfg, section, key, value) ==
    LET f == IF Len(section) = 1 /\ Len(key) = 1 THEN <<section[1], key[1]>> ELSE << >>
    IN  CASE f \in Texts -> [cfg EXCEPT ![f] = Copied(f, value)]
          [] f \in Bools -> [cfg EXCEPT ![f] = (value = <<"true">>)]
          [] f \in Ints /\ IsNumber(value) ->
                [cfg EXCEPT ![f] = Cast(f, Parsed(value)),
                            ![Random] = @ /\ f # <<"map", "seed">>]
          [] f = Proxies -> [cfg EXCEPT ![f] = Words(value, ProxySize)]
          [] /\ section = <<"colours">> /\ Len(key) = 1 /\ Len(value) = 1
             /\ key[1] \in Codes /\ value[1] \in Rgba ->
                [cfg EXCEPT ![Colours] = Append(@, <<key[1], value[1]>>)]
          [] OTHER -> cfg

DefaultText(f) ==
    CASE f = <<"server", "name">>    -> <<"Unnamed server">>
      [] f = <<"server", "motd">>    -> <<"a MotD">>
      [] f = <<"map", "name">>       -> <<"world">>
      [] f = <<"map", "generator">>  -> <<"classic">>
      [] f = <<"map", "image_path">> -> << >>

DefaultInt(f) == IF f = Port THEN 25565 ELSE IF f = Players THEN 8 ELSE 64

Default ==
    [f \in (Texts \ {Salt}) \cup
            {Port, Players, <<"map", "width">>, <<"map", "depth">>, <<"map", "height">>} |->
        IF f \in Texts THEN DefaultText(f) ELSE DefaultInt(f)]

\* Defaults take the place of what is unset, and of numbers that are 0.
WithDefaults(cfg) ==
    [f \in DOMAIN cfg |->
        IF /\ f \in DOMAIN Default
           /\ \/ f \in Texts /\ cfg[f] = Unset
              \/ f \in Ints /\ cfg[f] = 0
        THEN Default[f] ELSE cfg[f]]

\* config_find_colour: the first of a name.
Colour(cfg, code) ==
    LET K == {k \in DOMAIN cfg[Colours] : cfg[Colours][k][1] = code}
    IN  IF K = {} THEN Unset ELSE cfg[Colours][Min(K)][2]

-----------------------------------------------------------------------------
(* The parser: its state, the contents of its three buffers and the place  *)
(* in each where the next character goes.  The contents stay when the      *)
(* place goes back to 0, until a character is written.                     *)

Space(c) == c \in {" ", "nl"}

Trim(s) ==
    LET K == {k \in DOMAIN s : ~Space(s[k])}
    IN  IF K = {} THEN << >> ELSE SubSeq(s, Min(K), Max(K))

\* The buffers are not cleared before the first character.
NewParser(junk) ==
    [state |-> "key", section |-> junk, key |-> junk, value |-> junk,
     sectionp |-> 0, keyp |-> 0, valuep |-> 0]

\* A character that a buffer has no room for is left out.
Put(p, buf, place, c) ==
    IF p[place] >= ParserSize - 1 THEN p
    ELSE [p EXCEPT ![buf] = Append(SubSeq(@, 1, p[place]), c), ![place] = @ + 1]

InSection(p, c) == IF c = "]" THEN [p EXCEPT !.state = "key"] ELSE Put(p, "section", "sectionp", c)

\* Mutant: a section is written behind the one before.
InKey_Appends(p, c) ==
    CASE p.keyp = 0 /\ c = "["  -> [p EXCEPT !.state = "section"]
      [] p.keyp = 0 /\ Space(c) -> p
      [] p.keyp = 0 /\ c = "#"  -> [p EXCEPT !.state = "comment"]
      [] p.keyp > 0 /\ c = "="  -> [p EXCEPT !.state = "value", !.valuep = 0]
      [] OTHER                  -> Put(p, "key", "keyp", c)

InKey(p, c) ==
    CASE p.keyp = 0 /\ c = "["  -> [p EXCEPT !.state = "section", !.sectionp = 0]
      [] p.keyp = 0 /\ Space(c) -> p
      [] p.keyp = 0 /\ c = "#"  -> [p EXCEPT !.state = "comment"]
      [] p.keyp > 0 /\ c = "="  -> [p EXCEPT !.state = "value", !.valuep = 0]
      [] OTHER                  -> Put(p, "key", "keyp", c)

InValue(p, c) ==
    CASE c = "nl"               -> [p EXCEPT !.section = Trim(@), !.key = Trim(@),
                                             !.value = Trim(@), !.state = "key", !.keyp = 0]
      [] p.valuep = 0 /\ c = " " -> p
      [] OTHER                  -> Put(p, "value", "valuep", c)

InComment(p, c) == IF c = "nl" THEN [p EXCEPT !.state = "key"] ELSE p

\* The parser, and the configuration, with one more character.
Parse(s, c) ==
    LET p == s.parser
        q == CASE p.state = "section" -> InSection(p, c)
               [] p.state = "key"     -> InKey(p, c)
               [] p.state = "value"   -> InValue(p, c)
               [] p.state = "comment" -> InComment(p, c)
    IN  [parser |-> q,
         cfg    |-> IF p.state = "value" /\ c = "nl"
                    THEN Callback(s.cfg, q.section, q.key, q.value) ELSE s.cfg]

-----------------------------------------------------------------------------
(* A server that reads its configuration.                                  *)

VARIABLES
    reader,     \* the parser and `config`
    ready,      \* config_init has returned
    file        \* history: the lines that have been read

configVars == <<reader, ready, file>>

\* The characters of a line.
Chars(l) ==
    CASE l.says = "section" -> <<"[", l.word, "]", "nl">>
      [] l.says = "set"     -> <<l.word, " ", "=", " ">> \o l.value \o <<" ", "nl">>
      [] l.says = "comment" -> <<"#", l.word, " ", "=", "nl">>
      [] l.says = "word"    -> <<l.word, "nl">>
      [] l.says = "nothing" -> <<" ", "nl">>

ConfigInit ==
    /\ \E junk \in {<< >>, <<"junk">>} : reader = [parser |-> NewParser(junk), cfg |-> Cleared]
    /\ ready = FALSE /\ file = << >>

ReadLine ==
    /\ ~ready /\ Len(file) < MaxLines
    /\ \E l \in LineSet :
        /\ reader' = FoldLeft(Parse, reader, Chars(l))
        /\ file' = Append(file, l)
    /\ UNCHANGED ready

\* The parser takes one character more than there are, which nothing has been read
\* into: the last one or any other.
Finish(s, c) == LET r == Parse(s, c) IN [r EXCEPT !.cfg = WithDefaults(r.cfg)]

FileEnds ==
    /\ ~ready
    /\ \E c \in {"nl", " ", "#", "junk"} : reader' = Finish(reader, c)
    /\ ready' = TRUE
    /\ UNCHANGED file

\* The last line does not end with "nl".
FileBreaksOff ==
    /\ ~ready /\ Len(file) < MaxLines
    /\ \E l \in LineSet, c \in {"nl", " ", "#", "junk"} :
        /\ reader' = Finish(FoldLeft(Parse, reader, Front(Chars(l))), c)
        /\ file' = IF c = "nl" THEN Append(file, l) ELSE file
    /\ ready' = TRUE

\* There is no file, or it cannot be opened.
NoFile ==
    /\ ~ready /\ file = << >>
    /\ reader' = [reader EXCEPT !.cfg = WithDefaults(Cleared)]
    /\ ready' = TRUE
    /\ UNCHANGED file

ConfigNext == ReadLine \/ FileEnds \/ FileBreaksOff \/ NoFile

ConfigSpec == ConfigInit /\ [][ConfigNext]_configVars

-----------------------------------------------------------------------------
(* Properties                                                              *)

\* Lines as they are meant to be: a setting follows a section, its value is not empty
\* and the buffers have room for it; any other line is a section, a comment or blank.
ProperFile ==
    /\ \A k \in DOMAIN file :
        /\ file[k].says # "word"
        /\ file[k].says = "set" =>
            /\ Trim(file[k].value) # << >> /\ Len(file[k].value) + 1 < ParserSize
            /\ \E j \in 1 .. k : file[j].says = "section"
    /\ ParserSize > 2

\* The settings of the file: pairs of a place and what is set there.
SectionAt(k) == file[Max({j \in 1 .. k : file[j].says = "section"})].word

\* The spaces before and behind a value are not part of it.
ValueAt(k) == Trim(file[k].value)

SetLines(f) == {k \in DOMAIN file : file[k].says = "set" /\ <<SectionAt(k), file[k].word>> = f}

CountingLines(f) == {k \in SetLines(f) : f \in Ints => IsNumber(ValueAt(k))}

\* The words of a list, with room for any of them.
AllWords(value) == Words(value, Len(value) + 1)

\* A value that the setting has room for.
HasRoom(f, v) ==
    CASE f \in Ints    -> Parsed(v) \in (IF f = Port THEN 0 .. UShortSize - 1
                                        ELSE IF f \in Signed THEN -Half .. Half - 1
                                        ELSE 0 .. UIntSize - 1)
      [] f = Salt     -> Len(v) <= SaltSize
      [] f = Proxies  -> \A w \in Range(Split(v, Len(v) + 1)) : Len(w) < ProxySize
      [] OTHER        -> TRUE

\* Of several lines that set the same, the last one counts; for a colour, the first.
Meant(f) ==
    LET K == CountingLines(f)
        v == ValueAt(Max(K))
    IN  IF K = {} THEN WithDefaults(Cleared)[f]
        ELSE CASE f \in Texts -> v
               [] f \in Bools -> v = <<"true">>
               [] f \in Ints  -> IF Parsed(v) = 0 THEN WithDefaults(Cleared)[f] ELSE Parsed(v)
               [] f = Proxies -> AllWords(v)

\* Each setting has the value its last line gives it, or its default: nothing of a line
\* is taken for a part of another one, whatever the order of the lines.  A value that
\* the setting has no room for, which is cut or wraps, is left out.
ConfigSays ==
    (ready /\ ProperFile) =>
        /\ \A f \in Texts \cup Bools \cup Ints \cup {Proxies} :
            (CountingLines(f) = {} \/ HasRoom(f, ValueAt(Max(CountingLines(f)))))
                => reader.cfg[f] = Meant(f)
        /\ \A c \in Codes :
            LET K == {k \in SetLines(<<"colours", c>>) :
                        Len(ValueAt(k)) = 1 /\ ValueAt(k)[1] \in Rgba}
            IN  Colour(reader.cfg, c) = IF K = {} THEN Unset ELSE ValueAt(Min(K))[1]

IsPort(n) == 0 < n /\ n < UShortSize

\* Whatever is in the file, the server can listen and let somebody in, and the map has
\* blocks: none of these numbers is 0 after the defaults, the port fits its 16 bits,
\* and no text is missing.
Usable ==
    ready =>
        /\ IsPort(reader.cfg[Port])
        /\ \A f \in DOMAIN Default : f \in Ints => reader.cfg[f] > 0
        /\ \A f \in Texts : reader.cfg[f] # Unset
=============================================================================
