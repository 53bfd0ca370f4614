---------------------------- MODULE LockContract ----------------------------
(***************************************************************************)
(* The concurrency model of dl.h, without locks: many readers and one      *)
(* writer live at the same time.  Writers queue for the directory, files   *)
(* are replaced only while nobody else opens it, and an open of a reader   *)
(* waits for at most one replacement or is refused.                        *)
(***************************************************************************)
EXTENDS FiniteSets

CONSTANT Procs   \* the processes that use the directory

VARIABLES
    queue,      \* processes whose dl_open waits for the writer to go
    writer,     \* processes with a read-write handle
    replacing,  \* processes that replace files on disk
    asking,     \* processes whose dl_open_ro waits for a replacement to end
    opening,    \* processes inside dl_open_ro: metadata read, WALs replayed
    reading     \* processes with a read-only handle

vars == <<queue, writer, replacing, asking, opening, reading>>

Init ==
    /\ queue = {} /\ writer = {} /\ replacing = {}
    /\ asking = {} /\ opening = {} /\ reading = {}

(***************************************************************************)
(* One handle per directory and process.                                   *)
(***************************************************************************)
Idle(p) == p \notin queue \cup writer \cup asking \cup opening \cup reading

(***************************************************************************)
(* dl_open, dl_open2: the only writer, or in the queue until there is none.*)
(***************************************************************************)
OpenRw(p) ==
    /\ Idle(p) \/ p \in queue
    /\ IF writer = {}
       THEN writer' = {p} /\ queue' = queue \ {p}
       ELSE writer' = writer /\ queue' = queue \cup {p}
    /\ UNCHANGED <<replacing, asking, opening, reading>>

(***************************************************************************)
(* The writer replaces files: a WAL truncation, a publish, rels.txt, the   *)
(* saves of dl_close.  Nobody is inside an open when it starts, and nobody *)
(* gets inside before it ends.                                             *)
(***************************************************************************)
Replace(p) ==
    /\ p \in writer \ replacing
    /\ opening = {}
    /\ replacing' = {p}
    /\ UNCHANGED <<queue, writer, asking, opening, reading>>

ReplaceEnd(p) ==
    /\ p \in replacing
    /\ replacing' = {}
    /\ UNCHANGED <<queue, writer, asking, opening, reading>>

(***************************************************************************)
(* dl_open_ro: a live writer does not keep a reader out, a replacement     *)
(* does, until it ends or the reader's patience does (DL_E_LOCKED).        *)
(***************************************************************************)
OpenRo(p) ==
    /\ Idle(p)
    /\ asking' = asking \cup {p}
    /\ UNCHANGED <<queue, writer, replacing, opening, reading>>

Enter(p) ==
    /\ p \in asking
    /\ replacing = {}
    /\ asking' = asking \ {p}
    /\ opening' = opening \cup {p}
    /\ UNCHANGED <<queue, writer, replacing, reading>>

Refuse(p) ==
    /\ p \in asking
    /\ replacing # {}
    /\ asking' = asking \ {p}
    /\ UNCHANGED <<queue, writer, replacing, opening, reading>>

(***************************************************************************)
(* The handle is returned; from here on the reader stands in nobody's way. *)
(***************************************************************************)
Ready(p) ==
    /\ p \in opening
    /\ opening' = opening \ {p}
    /\ reading' = reading \cup {p}
    /\ UNCHANGED <<queue, writer, replacing, asking>>

(***************************************************************************)
(* dl_close, or the death of the process at any point: nothing stale stays.*)
(***************************************************************************)
Gone(p) ==
    /\ queue' = queue \ {p}
    /\ writer' = writer \ {p}
    /\ replacing' = replacing \ {p}
    /\ asking' = asking \ {p}
    /\ opening' = opening \ {p}
    /\ reading' = reading \ {p}

Next ==
    \E p \in Procs :
        \/ OpenRw(p) \/ Replace(p) \/ ReplaceEnd(p)
        \/ OpenRo(p) \/ Enter(p) \/ Refuse(p) \/ Ready(p) \/ Gone(p)

Spec == Init /\ [][Next]_vars

=============================================================================
