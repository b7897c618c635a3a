----------------------------- MODULE PacketStream -----------------------------
(***************************************************************************)
(* What a client sends, in packets or in frames of packets, and what       *)
(* client_receive makes of it: every call reads from the start of          *)
(* in_buffer, whatever a call of recv() has put there.  The fields of a    *)
(* packet are single bytes here.                                           *)
(***************************************************************************)
EXTENDS Integers, SequencesExt

LOCAL INSTANCE Bitwise

CONSTANTS
    PacketSize,     \* the size of the packets of each id, with the id
    Field,          \* values of the other bytes
    Keys,           \* keys that frames are masked with, of four bytes
    RecvSize,       \* size of in_buffer
    MaxSent,        \* bound: packets and other frames that are sent
    MaxTorn         \* bound: calls of recv() from the first on that cuts one of them

ASSUME StreamAssumption ==
    /\ PacketSize \in [DOMAIN PacketSize -> Nat \ {0}]
    /\ RecvSize \in Nat \ {0, 1} /\ MaxSent \in Nat /\ MaxTorn \in Nat

Packets == UNION {{<<id>> \o f : f \in [1 .. PacketSize[id] - 1 -> Field]} : id \in DOMAIN PacketSize}

VARIABLES
    websocket,  \* client->using_websocket
    connected,
    inBuffer,   \* the bytes of in_buffer
    key,        \* client->ws_mask
    frame,      \* the bytes of client->ws_frame
    handled,    \* history: the packets that have been handled
    socket,     \* the bytes that recv() has not given yet
    edges,      \* history: the lengths of what is in socket, packet by packet or frame
                \* by frame
    sent,       \* history: the packets that have been sent
    others,     \* frames sent that hold no packets
    torn        \* history: calls of recv() since one has cut any of them in two

streamVars == <<websocket, connected, inBuffer, key, frame, handled, socket, edges, sent,
                others, torn>>

StreamInit ==
    /\ websocket \in BOOLEAN /\ connected = TRUE
    /\ inBuffer = [k \in 1 .. RecvSize |-> 0]
    /\ key = <<0, 0, 0, 0>> /\ frame = << >>
    /\ handled = << >> /\ socket = << >> /\ edges = << >> /\ sent = << >>
    /\ others = 0 /\ torn = 0

-----------------------------------------------------------------------------
(* The client's side                                                       *)

Masked(s, m) == [k \in 1 .. Len(s) |-> s[k] ^^ m[((k - 1) % 4) + 1]]

\* A frame; the length of it may be in the two bytes that are meant for longer ones.
Frame(opcode, s, m, long) ==
    <<128 + opcode>> \o (IF long THEN <<128 + 126, 0, Len(s)>> ELSE <<128 + Len(s)>>) \o
    m \o Masked(s, m)

Puts(bytes) == socket' = socket \o bytes /\ edges' = Append(edges, Len(bytes))

CanSend == connected /\ Len(sent) + others < MaxSent

SendPacket ==
    /\ CanSend /\ ~websocket
    /\ \E p \in Packets : Puts(p) /\ sent' = Append(sent, p)
    /\ UNCHANGED <<websocket, connected, inBuffer, key, frame, handled, others, torn>>

SendFrame ==
    /\ CanSend /\ websocket
    /\ \E ps \in BoundedSeq(Packets, MaxSent - Len(sent) - others) \ {<< >>},
          m \in Keys, opcode \in {0, 2}, long \in BOOLEAN :
        Puts(Frame(opcode, FlattenSeq(ps), m, long)) /\ sent' = sent \o ps
    /\ UNCHANGED <<websocket, connected, inBuffer, key, frame, handled, others, torn>>

\* A ping, or a close frame.
SendOther ==
    /\ CanSend /\ websocket
    /\ \E opcode \in {8, 9}, m \in Keys : Puts(Frame(opcode, << >>, m, FALSE))
    /\ others' = others + 1
    /\ UNCHANGED <<websocket, connected, inBuffer, key, frame, handled, sent, torn>>

-----------------------------------------------------------------------------
(* The server's side                                                       *)

\* The byte behind the first o; one that is not there leaves what it is read into (v).
ByteAt(s, o, v) == IF o < Len(s) THEN s[o + 1] ELSE v

Upto(o, s) == IF o < Len(s) THEN o ELSE Len(s)

\* client_handle_in_buffer, from offset o on and for r bytes; v is what is in the variables
\* that nothing is read into.  The packets that it handles, and whether it disconnects.
RECURSIVE Handles(_, _, _, _)
Handles(s, o, r, v) ==
    IF o >= r THEN [packets |-> << >>, gone |-> FALSE]
    ELSE IF s[o + 1] \notin DOMAIN PacketSize THEN [packets |-> << >>, gone |-> TRUE]
    ELSE LET n    == PacketSize[s[o + 1]]
             p    == [k \in 1 .. n |-> ByteAt(s, o + k - 1, v)]
             rest == Handles(s, Upto(o + n, s), r, v)
         IN  [packets |-> <<p>> \o rest.packets, gone |-> rest.gone]

\* Mutant: the key is used up after its four bytes.
Unmasked_NoWrap(s, n, m) ==
    [k \in 1 .. Len(s) |-> IF k <= n /\ k <= 4 THEN s[k] ^^ m[k] ELSE s[k]]

\* The bytes of a frame buffer of which the first n are the frame.
Unmasked(s, n, m) ==
    [k \in 1 .. Len(s) |-> IF k <= n THEN s[k] ^^ m[((k - 1) % 4) + 1] ELSE s[k]]

\* The bytes behind the first o over those that are in t, as far as both go.
ReadOver(t, s, o) == [k \in 1 .. Len(t) |-> ByteAt(s, o + k - 1, t[k])]

\* client_ws_handle_chunk from offset o of s on.  The state it goes on from is always the
\* first: it takes a frame to be complete, however much of it there is.  c is the
\* client: its key, its frame, what is handled, and whether it is there.
Decode(c, s, o, n, opcode, v) ==
    LET buf  == IF n > Len(c.frame) THEN [k \in 1 .. n |-> 0] ELSE c.frame
        data == ReadOver(SubSeq(buf, 1, n), s, o) \o SubSeq(buf, n + 1, Len(buf))
        f    == Unmasked(data, n, c.key)
        h    == Handles(f, 0, n, v)
    IN  IF opcode \in {0, 2}
        THEN [c EXCEPT !.frame = f, !.handled = @ \o h.packets, !.connected = @ /\ ~h.gone,
                       !.at = Upto(o + n, s)]
        ELSE [c EXCEPT !.frame = f, !.at = Upto(o + n, s)]

Chunk(c, s, v) ==
    LET o      == c.at
        first  == ByteAt(s, o, v)
        flags  == ByteAt(s, o + 1, first) % 128
        o2     == Upto(o + 2, s)
        long   == flags = 126
        hasLen == o2 + 2 <= Len(s)
        n      == IF ~long THEN flags ELSE IF hasLen THEN s[o2 + 1] * 256 + s[o2 + 2] ELSE v
        o3     == IF long /\ hasLen THEN o2 + 2 ELSE o2
        d      == [c EXCEPT !.key = ReadOver(@, s, o3)]
    IN  IF flags = 127 THEN [c EXCEPT !.at = o2]
        ELSE Decode(d, s, Upto(o3 + 4, s), n, first % 16, v)

RECURSIVE AllChunks(_, _, _, _)
AllChunks(c, s, r, v) == IF c.at >= r THEN c ELSE AllChunks(Chunk(c, s, v), s, r, v)

\* The first lengths of s that make n, if any do.
MakesUp(s, n) == {k \in 0 .. Len(s) : FoldLeft(LAMBDA x, y : x + y, 0, SubSeq(s, 1, k)) = n}

\* client_receive: recv() gives any number of the bytes; those that were there before
\* stay behind them.
Receive ==
    /\ connected /\ socket # << >> /\ torn < MaxTorn
    /\ \E r \in 1 .. Upto(RecvSize, socket), v \in Field :
        LET s == [k \in 1 .. RecvSize |-> IF k <= r THEN socket[k] ELSE inBuffer[k]]
            h == Handles(s, 0, r, v)
            c == AllChunks([at |-> 0, key |-> key, frame |-> frame, handled |-> handled,
                          connected |-> TRUE], s, r, v)
        IN  /\ inBuffer' = s
            /\ socket' = SubSeq(socket, r + 1, Len(socket))
            /\ torn' = IF torn = 0 /\ MakesUp(edges, r) # {} THEN 0 ELSE torn + 1
            /\ edges' = IF torn' = 0 THEN SubSeq(edges, Max(MakesUp(edges, r)) + 1, Len(edges))
                        ELSE << >>
            /\ IF websocket
               THEN /\ handled' = c.handled /\ key' = c.key /\ frame' = c.frame
                    /\ connected' = c.connected
               ELSE /\ handled' = handled \o h.packets
                    /\ connected' = ~h.gone
                    /\ UNCHANGED <<key, frame>>
    /\ UNCHANGED <<websocket, sent, others>>

StreamNext == SendPacket \/ SendFrame \/ SendOther \/ Receive

StreamSpec == StreamInit /\ [][StreamNext]_streamVars

-----------------------------------------------------------------------------
(* Properties                                                              *)

\* As long as recv() cuts no packet and no frame in two, however many of them it gives
\* at once, the packets that are handled are those that were sent, in their order:
\* nothing of an earlier call, of an earlier and longer frame or of its key is taken
\* for a part of them.
InStep ==
    torn = 0 =>
        /\ connected
        /\ IsPrefix(handled, sent)
        /\ socket = << >> => handled = sent
=============================================================================
