--------------------------------- MODULE Nbt ---------------------------------
(***************************************************************************)
(* The tags of a world file: trees of tags, the bytes they are written as, *)
(* and the tree that is read from bytes.  A tag is a record of its type,   *)
(* its name (NoName in a list) and its value: a number, a sequence of      *)
(* numbers or, in a list or a compound, a sequence of places that hold a   *)
(* tag or Null.  tag_float and tag_double, which nothing uses, are left    *)
(* out.                                                                    *)
(***************************************************************************)
EXTENDS Integers, SequencesExt

CONSTANTS
    Slots,      \* places of a new compound
    Names,      \* names of tags, which are sequences of bytes
    Leaves,     \* values: records of a type and a value of the type
    Lengths,    \* lengths of lists
    MaxTags,    \* bound: tags of a tree; Slots + 1 of them are added to the root
    Null, NoName, Undefined

ASSUME NbtAssumption == Slots \in Nat /\ Lengths \subseteq Nat /\ MaxTags \in Nat

Kinds == <<"byte", "short", "int", "long", "float", "double", "byte_array",
           "string", "list", "compound", "int_array", "long_array">>

Code(type) == IF type = "end" THEN 0 ELSE CHOOSE k \in DOMAIN Kinds : Kinds[k] = type

TypeOf(code) == IF code = 0 THEN "end" ELSE IF code \in DOMAIN Kinds THEN Kinds[code] ELSE "?"

WidthOf == [byte |-> 1, short |-> 2, int |-> 4, long |-> 8]

Tag(type, name, val, atype) == [type |-> type, name |-> name, val |-> val, atype |-> atype]

Compound(name) == Tag("compound", name, [k \in 1 .. Slots |-> Null], "end")

List(name, type, n) == Tag("list", name, [k \in 1 .. n |-> Null], type)

Leaf(name, v) == Tag(v.type, name, v.val, "end")

Free(t) == {k \in DOMAIN t.val : t.val[k] = Null}

Lowest(K) == CHOOSE k \in K : \A j \in K : k <= j

\* Mutant: the tag takes the last place.
AddTag_Last(t, u) ==
    IF t.type \in {"list", "compound"} /\ Free(t) # {}
    THEN [t EXCEPT !.val[Len(t.val)] = u] ELSE t

\* A tag that finds no place is dropped; nothing tells the caller.
AddTag(t, u) ==
    IF t.type \in {"list", "compound"} /\ Free(t) # {}
    THEN [t EXCEPT !.val[Lowest(Free(t))] = u] ELSE t

\* The tag of that name, or Null.
GetTag(t, n) ==
    LET K == {k \in DOMAIN t.val : t.val[k] # Null /\ t.val[k].name = n}
    IN  IF t.type # "compound" \/ K = {} THEN Null ELSE t.val[Lowest(K)]

-----------------------------------------------------------------------------
(* Writing                                                                 *)

RECURSIVE BigEndian(_, _)
BigEndian(v, w) ==
    IF w = 0 THEN << >> ELSE Append(BigEndian(v \div 256, w - 1), v % 256)

Items(s, w) == FlattenSeq([k \in DOMAIN s |-> BigEndian(s[k], w)])

LenStr(s) == BigEndian(Len(s), 2) \o s

Header(t) == IF t.name = NoName THEN << >> ELSE <<Code(t.type)>> \o LenStr(t.name)

RECURSIVE Encoded(_)
Encoded(t) ==
    LET Held == FlattenSeq([k \in DOMAIN t.val |->
                    IF t.val[k] = Null THEN << >> ELSE Encoded(t.val[k])])
    IN  Header(t) \o
        CASE t.type \in DOMAIN WidthOf  -> BigEndian(t.val, WidthOf[t.type])
          [] t.type = "string"        -> LenStr(t.val)
          [] t.type = "byte_array"    -> BigEndian(Len(t.val), 4) \o t.val
          [] t.type = "int_array"     -> BigEndian(Len(t.val), 4) \o Items(t.val, 4)
          [] t.type = "long_array"    -> BigEndian(Len(t.val), 4) \o Items(t.val, 8)
          [] t.type = "list"          -> <<Code(t.atype)>> \o BigEndian(Len(t.val), 4) \o Held
          [] t.type = "compound"      -> Held \o <<Code("end")>>

-----------------------------------------------------------------------------
(* Reading                                                                 *)

\* What a read comes to: the tag, the position behind it, and `expected`, the type of
\* the elements of the list that was begun last.  The tag is Undefined when the
\* bytes end before it does, and when what is in a compound has a type that is not
\* known; the code then goes on with memory that nothing has been written to.
Came(tag, pos, expected) == [tag |-> tag, pos |-> pos, expected |-> expected]

\* Mutant: the numbers are read as unsigned ones.
Value_Unsigned(bs) == FoldLeft(LAMBDA v, b : v * 256 + b, 0, bs)

\* The number that the bytes stand for; Java's, and so all of them signed.
Value(bs) ==
    FoldLeft(LAMBDA v, b : v * 256 + b,
             IF bs # << >> /\ bs[1] >= 128 THEN -1 ELSE 0, bs)

At(s, p, w) == Value(SubSeq(s, p + 1, p + w))

\* The n numbers of w bytes behind p.
Several(s, p, n, w) == [k \in 1 .. n |-> At(s, p + (k - 1) * w, w)]

RECURSIVE ReadTag(_, _, _, _), Elements(_, _, _, _), Fields(_, _, _)

\* Elements are read as what `expected` has become, which a list among them changes.
Elements(s, p, e, n) ==
    IF n <= 0 THEN Came(<< >>, p, e)
    ELSE LET one  == ReadTag(s, p, e, FALSE)
             rest == Elements(s, one.pos, one.expected, n - 1)
         IN  IF Undefined \in {one.tag, rest.tag} THEN Came(Undefined, p, e)
             ELSE Came(<<one.tag>> \o rest.tag, rest.pos, rest.expected)

\* A compound is gone through twice, and only counted the first time: what a tag
\* with a header is read as has nothing to do with `expected`.
Fields(s, p, e) ==
    LET one  == ReadTag(s, p, e, TRUE)
        rest == Fields(s, one.pos, one.expected)
    IN  IF one.tag \in {Undefined, Null} THEN Came(Undefined, p, e)
        ELSE IF one.tag.type = "end" THEN Came(<< >>, one.pos, one.expected)
        ELSE IF rest.tag = Undefined THEN Came(Undefined, p, e)
        ELSE Came(<<one.tag>> \o rest.tag, rest.pos, rest.expected)

\* The value of type `type` behind p, in the tag called `name`.  The items of a
\* long_array are read as int32_t, a half of each.
ReadValue(s, type, name, p, e) ==
    LET Is(v, q)  == IF q > Len(s) THEN Came(Undefined, p, e)
                     ELSE Came(Tag(type, name, v, "end"), q, e)
        n         == At(s, p, 4)
        short     == At(s, p, 2)
        Array(w)  == Is(Several(s, p + 4, n, w), p + 4 + n * w)
        atype     == TypeOf(s[p + 1])
        length    == At(s, p + 1, 4)
        Held(r, a) == IF r.tag = Undefined THEN r
                      ELSE Came(Tag(type, name, r.tag, a), r.pos, r.expected)
    IN  CASE type = "end" -> Came(Tag("end", name, << >>, "end"), p, e)
          [] type \in DOMAIN WidthOf -> Is(At(s, p, WidthOf[type]), p + WidthOf[type])
          [] type = "string"     -> Is(SubSeq(s, p + 3, p + 2 + short), p + 2 + short)
          [] type = "byte_array" -> Is(SubSeq(s, p + 5, p + 4 + n), p + 4 + n)
          [] type \in {"int_array", "long_array"} -> Array(4)
          [] type = "list"       ->
                IF p + 5 > Len(s) THEN Came(Undefined, p, e)
                ELSE Held(Elements(s, p + 5, atype, length), atype)
          [] type = "compound"   -> Held(Fields(s, p, e), "end")
          [] OTHER               -> Came(Null, p, e)

\* nbt_read: the end of a compound has a header but no name.
ReadTag(s, p, e, named) ==
    IF ~named THEN ReadValue(s, e, NoName, p, e)
    ELSE IF p + 1 > Len(s) THEN Came(Undefined, p, e)
    ELSE IF s[p + 1] = 0 THEN ReadValue(s, "end", NoName, p + 1, e)
    ELSE IF p + 3 + At(s, p + 1, 2) > Len(s) THEN Came(Undefined, p, e)
    ELSE LET n == At(s, p + 1, 2)
         IN  ReadValue(s, TypeOf(s[p + 1]), SubSeq(s, p + 4, p + 3 + n), p + 3 + n, e)

-----------------------------------------------------------------------------
(* A tree is built as map_save does: a tag is made, filled, and then added *)
(* to the one it belongs to.                                               *)

VARIABLES
    making,     \* the root and, in it, the tags that are not yet added
    given       \* history: the tags that were added to the root

nbtVars == <<making, given>>

NbtInit == making = <<Compound(CHOOSE n \in Names : TRUE)>> /\ given = << >>

Top == making[Len(making)]

RECURSIVE Weight(_)
Weight(t) ==
    IF t.type \notin {"list", "compound"} THEN 1
    ELSE 1 + FoldLeft(LAMBDA n, u : n + (IF u = Null THEN 0 ELSE Weight(u)), 0, t.val)

Tags == FoldLeft(LAMBDA n, t : n + Weight(t), 0, making)

\* Names and types that a tag in t has: elements of a list are of its type, and
\* without a name.
NamesIn(t)   == IF t.type = "list" THEN {NoName} ELSE Names
Takes(t, type) == t.type = "list" => t.atype = type

Added(u, rest) ==
    LET k == Len(rest)
    IN  /\ k = 1 => Len(given) <= Slots
        /\ making' = [rest EXCEPT ![k] = AddTag(rest[k], u)]
        /\ given' = IF k = 1 THEN Append(given, u) ELSE given

AddLeaf ==
    /\ Tags < MaxTags
    /\ \E v \in Leaves, n \in NamesIn(Top) :
        Takes(Top, v.type) /\ Added(Leaf(n, v), making)

Begin ==
    /\ Tags < MaxTags
    /\ \E n \in NamesIn(Top) :
        making' \in {Append(making, t) : t \in
            (IF Takes(Top, "compound") THEN {Compound(n)} ELSE {}) \cup
            (IF Takes(Top, "list")
             THEN {List(n, type, l) : type \in {"list", "compound", "short"}, l \in Lengths}
             ELSE {})}
    /\ UNCHANGED given

End == Len(making) > 1 /\ Added(Top, Front(making))

NbtNext == AddLeaf \/ Begin \/ End

NbtSpec == NbtInit /\ [][NbtNext]_nbtVars

-----------------------------------------------------------------------------
(* Properties                                                              *)

Root == making[1]

Has(t, k) == t.val[k] # Null

RECURSIVE HoldsList(_), Plain(_), Compact(_)
HoldsList(t) ==
    \/ t.type = "list"
    \/ t.type = "compound" /\ \E k \in DOMAIN t.val : Has(t, k) /\ HoldsList(t.val[k])

\* Trees that the reader is made for: every list is filled, none but its last element
\* holds a list, and no long_array has an item.
Plain(t) ==
    /\ t.type = "list" => \A k \in DOMAIN t.val :
        Has(t, k) /\ (HoldsList(t.val[k]) => k = Len(t.val))
    /\ t.type \in {"list", "compound"} => \A k \in DOMAIN t.val : Has(t, k) => Plain(t.val[k])
    /\ t.type = "long_array" => t.val = << >>

\* A tree without the places that hold nothing.
Compact(t) ==
    IF t.type \notin {"list", "compound"} THEN t
    ELSE LET full == SelectSeq(t.val, LAMBDA u : u # Null)
         IN  [t EXCEPT !.val = [k \in DOMAIN full |-> Compact(full[k])]]

\* What is read of a tree's bytes is the tree, and all the bytes are read, whatever
\* list was read before it.
RoundTrip ==
    Plain(Root) =>
        LET bytes == Encoded(Root)
        IN  \A e \in {"short", "list"} :
                LET r == ReadTag(bytes, 0, e, TRUE)
                IN  r.tag = Compact(Root) /\ r.pos = Len(bytes)

\* Looking for a name in what was read finds the first tag that was added under it,
\* as long as there was a place for it.
FirstIsFound ==
    Plain(Root) =>
        LET r == ReadTag(Encoded(Root), 0, "end", TRUE)
        IN  \A n \in Names :
                LET K == {k \in DOMAIN given : k <= Slots /\ given[k].name = n}
                IN  GetTag(r.tag, n) =
                        IF K = {} THEN Null ELSE Compact(given[Lowest(K)])
=============================================================================
