----------------------------- MODULE WorldFile ------------------------------
(***************************************************************************)
(* The world and its file.  The server saves when the last client has left *)
(* and when it stops, to the file it loads when it starts; it may die at   *)
(* any moment, with the file half written.  Time starts again at 0 with    *)
(* every start, so scheduled ticks are saved relative to server.tick.      *)
(***************************************************************************)
EXTENDS World

CONSTANTS
    Faults,     \* of crash (the process dies), deflate (zlib does not
                \* initialise) and disk (fwrite writes less)
    MaxStarts   \* bound: starts of the server

VARIABLES
    file,       \* the .cw file: its kind and, when it is whole, its contents
    next,       \* where the main thread goes after map_save
    starts,     \* starts so far
    faulted,    \* history: the faults since the file was last written or read whole
    late        \* history: an entry was saved whose time had passed

fileVars == <<file, next, starts, faulted, late>>
allVars  == <<vars, fileVars>>

FileKind(k) == [kind |-> k, blocks |-> << >>, ticks |-> << >>]

\* As TypeOK, and the file holds a map of the same size and indices of positions
\* in it: map_load copies that many bytes.
FileTypeOK ==
    /\ world \in World /\ phase \in 0 .. Period - 1 /\ i \in Nat \ {0}
    /\ pc \in {"loop", "ticks", "clients", "end", "saving", "off"}
    /\ \/ file \in {FileKind("none"), FileKind("cut")}
       \/ /\ file.kind = "whole"
          /\ file.blocks \in [0 .. Size - 1 -> Block]
          /\ file.ticks \in Seq([index : 0 .. Size - 1, time : Int])
    /\ next \in {"loop", "end", "off"}
    /\ starts \in 0 .. MaxStarts
    /\ faulted \subseteq {"crash", "deflate", "disk"}
    /\ late \in BOOLEAN

ASSUME FaultAssumption ==
    Faults \subseteq {"crash", "deflate", "disk"} /\ MaxStarts \in Nat

FileInit ==
    /\ world = FirstWorld /\ phase = 0 /\ i = 1 /\ edits = 0 /\ blind = FALSE
    /\ pc = "off"
    /\ file = FileKind("none")
    /\ next = "off"
    /\ starts = 0
    /\ faulted = {} /\ late = FALSE

-----------------------------------------------------------------------------
(* map_save.                                                               *)

\* Mutant: the file is opened whether or not there is anything to save.
Save_OpensFirst(to) ==
    /\ file' = FileKind("cut")
    /\ IF world.modified THEN pc' = "saving" /\ next' = to ELSE pc' = to /\ UNCHANGED next

\* The file is opened, and thereby emptied, when the contents are complete.
Save(to) ==
    IF world.modified
    THEN pc' = "saving" /\ next' = to /\ file' = FileKind("cut")
    ELSE pc' = to /\ UNCHANGED <<next, file>>

\* Mutant: indices from 1.
Saved_FromOne(w) ==
    [kind |-> "whole", blocks |-> w.blocks,
     ticks |-> [k \in DOMAIN w.ticks |-> [index |-> Index(w.ticks[k].pos) + 1,
                                          time  |-> w.ticks[k].wait]]]

\* A time is saved as the 32 bits of its distance from now: an entry that has
\* been skipped gets a negative one, and so does one that never comes.
Saved(w) ==
    [kind |-> "whole", blocks |-> w.blocks,
     ticks |-> [k \in DOMAIN w.ticks |->
                  [index |-> Index(w.ticks[k].pos),
                   time  |-> IF w.ticks[k].wait = Never THEN -1 ELSE w.ticks[k].wait]]]

SaveDone ==
    /\ pc = "saving"
    /\ file' = Saved(world)
    /\ late' = (late \/ \E k \in DOMAIN file'.ticks : file'.ticks[k].time < 0)
    /\ world' = [world EXCEPT !.modified = FALSE]
    /\ faulted' = {}
    /\ pc' = next
    /\ UNCHANGED <<phase, i, edits, blind, next, starts>>

\* Mutant: the flag is cleared whether or not the file has been written.
SaveFails_Clears ==
    /\ pc = "saving"
    /\ \E f \in Faults \cap {"deflate", "disk"} : faulted' = faulted \cup {f}
    /\ world' = [world EXCEPT !.modified = FALSE]
    /\ pc' = next
    /\ UNCHANGED <<phase, i, edits, blind, file, next, starts, late>>

\* Without zlib the save is given up; what fwrite returns is not looked at.
SaveFails ==
    /\ pc = "saving"
    /\ \E f \in Faults \cap {"deflate", "disk"} :
        /\ faulted' = faulted \cup {f}
        /\ world' = IF f = "disk" THEN [world EXCEPT !.modified = FALSE] ELSE world
    /\ pc' = next
    /\ UNCHANGED <<phase, i, edits, blind, file, next, starts, late>>

-----------------------------------------------------------------------------
(* When the server saves: server_tick, server_shutdown.                    *)

LastLeaves ==
    /\ pc = "clients"
    /\ Save("end")
    /\ UNCHANGED <<world, phase, i, edits, blind, starts, faulted, late>>

\* Mutant: the world is not saved when the server stops.
Stop_NoSave ==
    /\ pc = "loop"
    /\ pc' = "off"
    /\ UNCHANGED <<world, phase, i, edits, blind, fileVars>>

\* A signal ends the main loop between two turns.
Stop ==
    /\ pc = "loop"
    /\ Save("off")
    /\ UNCHANGED <<world, phase, i, edits, blind, starts, faulted, late>>

Crash ==
    /\ "crash" \in Faults
    /\ pc # "off"
    /\ pc' = "off"
    /\ faulted' = faulted \cup {"crash"}
    /\ UNCHANGED <<world, phase, i, edits, blind, file, next, starts, late>>

-----------------------------------------------------------------------------
(* server_init and map_load.                                               *)

\* Mutant: the ticks of the file are not scheduled.
Loaded_NoTicks(f) == [blocks |-> f.blocks, ticks |-> << >>, modified |-> FALSE]

\* A negative time turns into one that the 64 bits of server.tick do not reach.
Loaded(f) ==
    LET wait(t) == IF t.time < 0 THEN Never ELSE t.time
        tick(t) ==
            IF PosOf(t.index) \in Pos /\ HasTick(f.blocks[Index(PosOf(t.index))])
            THEN <<[pos |-> PosOf(t.index), wait |-> wait(t)]>>
            ELSE << >>
    IN  [blocks   |-> f.blocks,
         ticks    |-> FlattenSeq([k \in DOMAIN f.ticks |-> tick(f.ticks[k])]),
         modified |-> FALSE]

Started == /\ pc = "off"
           /\ starts < MaxStarts
           /\ starts' = starts + 1
           /\ phase' = 0
           /\ i' = 1
           /\ UNCHANGED <<edits, blind, late>>

Load ==
    /\ file.kind = "whole"
    /\ world' = Loaded(file)
    /\ pc' = "loop"
    /\ faulted' = {}
    /\ UNCHANGED <<file, next>>
    /\ Started

\* Without a file, or with one that is not NBT, a world is generated and saved.
Generate ==
    /\ file.kind # "whole"
    /\ world' = FirstWorld
    /\ pc' = "saving"
    /\ next' = "loop"
    /\ file' = FileKind("cut")
    /\ UNCHANGED faulted
    /\ Started

\* map_load goes on with the tree that nbt_read did not give it.
LoadDies ==
    /\ file.kind = "cut"
    /\ UNCHANGED <<world, pc, file, next, faulted>>
    /\ Started

-----------------------------------------------------------------------------
Turn == Next /\ UNCHANGED fileVars

FileNext ==
    \/ Turn
    \/ SaveDone \/ SaveFails
    \/ LastLeaves \/ Stop \/ Crash
    \/ Load \/ Generate \/ LoadDies

FileSpec == FileInit /\ [][FileNext]_allVars

\* While the server runs its main loop goes on, as in World, and a save ends.
FairFileSpec ==
    /\ FileSpec
    /\ WF_allVars((StartTick \/ TickWaits \/ TicksEnd \/ EndTick) /\ UNCHANGED fileVars)
    /\ WF_allVars(SaveDone \/ SaveFails)
    /\ []<>~Due \/ []<><<Due /\ i' # i>>_allVars

-----------------------------------------------------------------------------
(* Properties                                                              *)

Holds(f) == f.kind = "whole" /\ f.blocks = world.blocks

\* A server that stopped and met no fault since its last save or start left the whole
\* world in its file, whatever faults there were before.
StopSaves == pc = "off" /\ starts > 0 /\ faulted = {} => Holds(file)

\* A running server that thinks it has nothing to save has nothing to save, after
\* crashes and saves that were given up; only a write that fails unnoticed clears the
\* flag of a world that is not in the file.
UnmodifiedIsSaved ==
    pc \notin {"saving", "off"} /\ ~world.modified /\ "disk" \notin faulted => Holds(file)

\* The file is whole but while it is written and, after a fault, until it is written
\* again.
WholeUnlessFault == file.kind = "cut" => pc = "saving" \/ faulted # {}

\* Sand that nothing holds goes on falling after a restart, from the ticks of the
\* file, unless one was saved when its time had passed.
SandFallsOn ==
    pc # "off" /\ ~late => SandIsScheduled

\* When the clients, the stops and the crashes are over the world comes to rest, the
\* ticks of the file included, unless there is water and lava.
SettlesAgain ==
    <>[](\/ pc = "off" \/ late \/ world.ticks = << >>
         \/ {"water", "lava"} \subseteq Range(world.blocks))
=============================================================================
