------------------------------ MODULE MCParts -------------------------------
(***************************************************************************)
(* Parts that work alone, each on its own: a behaviour is one of a buffer, *)
(* of the list of names, of the configuration, of the tree of a world      *)
(* file, of the water of a new world or of what a client sends, and the    *)
(* others stay as they are.                                                *)
(***************************************************************************)
EXTENDS Buffer, NameList, Config, Nbt, Flood, PacketStream

VARIABLE part

partVars == <<part, bufferVars, listVars, configVars, nbtVars, floodVars,
              streamVars>>

LowerCase == [c \in Letters |-> IF c = "A" THEN "a" ELSE c]

Values == ("0" :> 0) @@ ("7" :> 7) @@ ("65536" :> 65536) @@ ("-1" :> -1) @@ ("131072" :> 131072)

Setting(k, v) == [says |-> "set", word |-> k, value |-> v]

SomeLines ==
    {[says |-> "section", word |-> s] : s \in {"server", "map", "colours", "debug"}} \cup
    {Setting("port", <<v>>) : v \in {"0", "65536"}} \cup
    {Setting("width", <<v>>) : v \in {"-1", "131072"}} \cup
    {Setting("fixed_salt", <<"x", "7", "x">>), Setting("web_proxies", <<"x", "7", "x", "7">>)} \cup
    {Setting("name", << >>), Setting("name", <<" ", "7", "=", " ">>), Setting("public", <<"true">>),
     Setting("port", <<"7", "[", "x">>), Setting("web_proxies", <<"x", " ", "7">>),
     Setting("seed", <<"65536">>), Setting("a", <<"ff">>), Setting("a", <<"00">>)} \cup
    {[says |-> "word", word |-> "port"], [says |-> "nothing"],
     [says |-> "comment", word |-> "port"]}

TagNames == {<< >>, <<7>>}

TagValues ==
    {[type |-> "short", val |-> -2], [type |-> "string", val |-> <<1>>],
     [type |-> "byte_array", val |-> <<0, 3>>],
     [type |-> "int_array", val |-> <<-1, 65537>>], [type |-> "long_array", val |-> <<5>>]}

\* Two layers of stone with any caves in them, in one place those of the generator that
\* fills its caves first, and two layers of air.
Caves ==
    {[n \in Cells |-> IF n \in S THEN "stone" ELSE IF n = 1 THEN "magenta_wool" ELSE "air"] :
        S \in SUBSET (0 .. 7)}

SizesOfPackets == (1 :> 2) @@ (2 :> 3)

SomeKeys == {<<1, 2, 3, 0>>}

PartsInit ==
    /\ part \in {"buffer", "list", "config", "nbt", "flood", "stream"}
    /\ BufferInit /\ ListInit /\ ConfigInit /\ NbtInit /\ FloodInit /\ StreamInit
    /\ part # "buffer" => buf = Allocated(0, TRUE)
    /\ part # "config" => reader.parser.key = << >>
    /\ part # "flood"  => \A n \in 0 .. 7 : blocks[n] = "stone"
    /\ part # "stream" => ~websocket

Works(p) == part = p /\ UNCHANGED part

PartsNext ==
    \/ /\ Works("buffer") /\ BufferNext
       /\ UNCHANGED <<listVars, configVars, nbtVars, floodVars, streamVars>>
    \/ /\ Works("list") /\ ListNext
       /\ UNCHANGED <<bufferVars, configVars, nbtVars, floodVars, streamVars>>
    \/ /\ Works("config") /\ ConfigNext
       /\ UNCHANGED <<bufferVars, listVars, nbtVars, floodVars, streamVars>>
    \/ /\ Works("nbt") /\ NbtNext
       /\ UNCHANGED <<bufferVars, listVars, configVars, floodVars, streamVars>>
    \/ /\ Works("flood") /\ FloodNext
       /\ UNCHANGED <<bufferVars, listVars, configVars, nbtVars, streamVars>>
    \/ /\ Works("stream") /\ StreamNext
       /\ UNCHANGED <<bufferVars, listVars, configVars, nbtVars, floodVars>>

PartsSpec == PartsInit /\ [][PartsNext]_partVars
=============================================================================
