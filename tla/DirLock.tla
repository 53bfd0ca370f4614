------------------------------ MODULE DirLock ------------------------------
(***************************************************************************)
(* The two fcntl byte-range locks of <dir>/LOCK: byte 0 makes a read-write *)
(* handle the only one of the directory, byte 1 is the mutation window a   *)
(* writer holds exclusively around every replacement of files and a reader *)
(* holds shared while it opens.                                            *)
(*                                                                         *)
(* fcntl itself is external: a lock belongs to a process, it conflicts     *)
(* only with locks of other processes, a new lock replaces the process's   *)
(* own one on that byte, closing ANY descriptor of the file drops all the  *)
(* locks the process has on it, and death drops them too.  A waiter in     *)
(* F_SETLKW does not keep later requests out.  A process has one handle of *)
(* the directory at a time, which is the rule of dl.h; closing a second    *)
(* one would drop the locks of the first.                                  *)
(***************************************************************************)
EXTENDS Integers, FiniteSets

CONSTANTS WriterProcs,  \* processes that open the directory read-write
          ReaderProcs,  \* processes that open it read-only
          MaxTries      \* bound: attempts before a reader's deadline

ASSUME MaxTriesAssumption == MaxTries \in Nat

Procs == WriterProcs \cup ReaderProcs

VARIABLES
    rw,      \* the read-write handle of each process
    depth,   \* mut_window_depth
    nested,  \* the inner window of this mutation has been entered
    closing, \* the handle is inside dl_close
    ro,      \* the read-only handle of each process
    tries,   \* failed attempts of the reader's bounded wait
    excl,    \* processes with F_WRLCK on byte 0
    winX,    \* processes with F_WRLCK on byte 1
    winS     \* processes with F_RDLCK on byte 1

lockVars == <<rw, depth, nested, closing, ro, tries, excl, winX, winS>>
rwVars == <<rw, depth, nested, closing>>
roVars == <<ro, tries>>
locks == <<excl, winX, winS>>

(***************************************************************************)
(* rw: "none"; "queued" in F_SETLKW for byte 0; "idle" open; "wait" in     *)
(* F_SETLKW for byte 1; "mutate" inside the window.  ro: "none"; "try" in  *)
(* lockRangeBounded; "open" reading metadata and replaying; "live".        *)
(***************************************************************************)
LockTypeOK ==
    /\ rw \in [Procs -> {"none", "queued", "idle", "wait", "mutate"}]
    /\ depth \in [Procs -> 0..2]
    /\ nested \in [Procs -> BOOLEAN]
    /\ closing \in [Procs -> BOOLEAN]
    /\ ro \in [Procs -> {"none", "try", "open", "live"}]
    /\ tries \in [Procs -> 0..MaxTries]
    /\ excl \subseteq Procs
    /\ winX \subseteq Procs
    /\ winS \subseteq Procs

LockInit ==
    /\ rw = [p \in Procs |-> "none"]
    /\ depth = [p \in Procs |-> 0]
    /\ nested = [p \in Procs |-> FALSE]
    /\ closing = [p \in Procs |-> FALSE]
    /\ ro = [p \in Procs |-> "none"]
    /\ tries = [p \in Procs |-> 0]
    /\ excl = {}
    /\ winX = {}
    /\ winS = {}

-----------------------------------------------------------------------------
(***************************************************************************)
(* fcntl.                                                                  *)
(***************************************************************************)

(***************************************************************************)
(* No other process stands in the way.                                     *)
(***************************************************************************)
ExclFree(p) == excl \subseteq {p}
WriteFree(p) == winX \cup winS \subseteq {p}
ReadFree(p) == winX \subseteq {p}

(***************************************************************************)
(* close of a descriptor of <dir>/LOCK, or death.                          *)
(***************************************************************************)
DropAll(p) ==
    /\ excl' = excl \ {p}
    /\ winX' = winX \ {p}
    /\ winS' = winS \ {p}

-----------------------------------------------------------------------------
(***************************************************************************)
(* Read-write handles.                                                     *)
(***************************************************************************)

(***************************************************************************)
(* dl_open2: F_WRLCK on byte 0, queueing behind another writer.  With      *)
(* DL_LOCK_FAIL_FAST a busy directory is refused instead, which changes    *)
(* nothing here.                                                           *)
(***************************************************************************)
OpenRw(p) ==
    /\ p \in WriterProcs
    /\ rw[p] = "none"
    /\ ro[p] = "none"
    /\ IF ExclFree(p)
       THEN /\ excl' = excl \cup {p}
            /\ rw' = [rw EXCEPT ![p] = "idle"]
       ELSE /\ rw' = [rw EXCEPT ![p] = "queued"]
            /\ UNCHANGED excl
    /\ UNCHANGED <<depth, nested, closing, roVars, winX, winS>>

(***************************************************************************)
(* A grant of byte 0 that overlooks the holder.                            *)
(***************************************************************************)
FaultyGrant(p) ==
    /\ rw[p] = "queued"
    /\ excl' = excl \cup {p}
    /\ rw' = [rw EXCEPT ![p] = "idle"]
    /\ UNCHANGED <<depth, nested, closing, roVars, winX, winS>>

(***************************************************************************)
(* F_SETLKW on byte 0 returns.                                             *)
(***************************************************************************)
Grant(p) ==
    /\ rw[p] = "queued"
    /\ ExclFree(p)
    /\ excl' = excl \cup {p}
    /\ rw' = [rw EXCEPT ![p] = "idle"]
    /\ UNCHANGED <<depth, nested, closing, roVars, winX, winS>>

(***************************************************************************)
(* Entering the outermost window once byte 1 is granted.                   *)
(***************************************************************************)
EnterWindow(p) ==
    /\ winX' = winX \cup {p}
    /\ winS' = winS \ {p}
    /\ depth' = [depth EXCEPT ![p] = 1]
    /\ nested' = [nested EXCEPT ![p] = FALSE]
    /\ rw' = [rw EXCEPT ![p] = "mutate"]

(***************************************************************************)
(* mutWindowBegin: from a compaction, a publish, a metadata write or       *)
(* (close = TRUE) the save sweep of dl_close.                              *)
(* F_SETLKW is taken not to fail: the code treats a lock error as not      *)
(* fatal and would go on without the window.                               *)
(***************************************************************************)
MutWindowBegin(p, close) ==
    /\ rw[p] = "idle"
    /\ ~closing[p]
    /\ closing' = [closing EXCEPT ![p] = close]
    /\ IF WriteFree(p)
       THEN EnterWindow(p)
       ELSE /\ rw' = [rw EXCEPT ![p] = "wait"]
            /\ UNCHANGED <<depth, nested, winX, winS>>
    /\ UNCHANGED <<roVars, excl>>

(***************************************************************************)
(* F_SETLKW on byte 1 returns.                                             *)
(***************************************************************************)
WindowGrant(p) ==
    /\ rw[p] = "wait"
    /\ WriteFree(p)
    /\ EnterWindow(p)
    /\ UNCHANGED <<closing, roVars, excl>>

(***************************************************************************)
(* A mutWindowBegin inside the window (writeRelsTxt in dl_close or in a    *)
(* publish): the depth counts, nothing is locked.                          *)
(***************************************************************************)
MutWindowNest(p) ==
    /\ rw[p] = "mutate"
    /\ ~nested[p]
    /\ nested' = [nested EXCEPT ![p] = TRUE]
    /\ depth' = [depth EXCEPT ![p] = depth[p] + 1]
    /\ UNCHANGED <<rw, closing, roVars, locks>>

(***************************************************************************)
(* A mutWindowEnd that unlocks at the end of the inner window.             *)
(***************************************************************************)
FaultyMutWindowEnd(p) ==
    /\ rw[p] = "mutate"
    /\ depth' = [depth EXCEPT ![p] = depth[p] - 1]
    /\ winX' = winX \ {p}
    /\ rw' = IF depth[p] = 1 THEN [rw EXCEPT ![p] = "idle"] ELSE rw
    /\ UNCHANGED <<nested, closing, roVars, excl, winS>>

(***************************************************************************)
(* mutWindowEnd: only the outermost end unlocks byte 1.                    *)
(***************************************************************************)
MutWindowEnd(p) ==
    /\ rw[p] = "mutate"
    /\ depth' = [depth EXCEPT ![p] = depth[p] - 1]
    /\ IF depth[p] = 1
       THEN /\ winX' = winX \ {p}
            /\ rw' = [rw EXCEPT ![p] = "idle"]
       ELSE UNCHANGED <<winX, rw>>
    /\ UNCHANGED <<nested, closing, roVars, excl, winS>>

(***************************************************************************)
(* A dl_close that leaks the lock descriptor.                              *)
(***************************************************************************)
FaultyCloseRw(p) ==
    /\ rw[p] = "idle"
    /\ closing[p]
    /\ rw' = [rw EXCEPT ![p] = "none"]
    /\ closing' = [closing EXCEPT ![p] = FALSE]
    /\ UNCHANGED <<depth, nested, roVars, locks>>

(***************************************************************************)
(* The end of dl_close: the lock descriptor is closed last.                *)
(***************************************************************************)
CloseRw(p) ==
    /\ rw[p] = "idle"
    /\ closing[p]
    /\ rw' = [rw EXCEPT ![p] = "none"]
    /\ closing' = [closing EXCEPT ![p] = FALSE]
    /\ DropAll(p)
    /\ UNCHANGED <<depth, nested, roVars>>

-----------------------------------------------------------------------------
(***************************************************************************)
(* Read-only handles.                                                      *)
(***************************************************************************)

(***************************************************************************)
(* dl_open_ro enters lockRangeBounded.                                     *)
(***************************************************************************)
OpenRo(p) ==
    /\ p \in ReaderProcs
    /\ ro[p] = "none"
    /\ rw[p] = "none"
    /\ ro' = [ro EXCEPT ![p] = "try"]
    /\ tries' = [tries EXCEPT ![p] = 0]
    /\ UNCHANGED <<rwVars, locks>>

(***************************************************************************)
(* F_SETLK of F_RDLCK on byte 1 succeeds.                                  *)
(***************************************************************************)
RoLock(p) ==
    /\ ro[p] = "try"
    /\ ReadFree(p)
    /\ winS' = winS \cup {p}
    /\ winX' = winX \ {p}
    /\ ro' = [ro EXCEPT ![p] = "open"]
    /\ UNCHANGED <<rwVars, tries, excl>>

(***************************************************************************)
(* A retry loop whose deadline never comes nearer.                         *)
(***************************************************************************)
FaultyRoRetry(p) ==
    /\ ro[p] = "try"
    /\ ~ReadFree(p)
    /\ tries[p] < MaxTries
    /\ UNCHANGED lockVars

(***************************************************************************)
(* It fails, and the reader sleeps until the next attempt.                 *)
(***************************************************************************)
RoRetry(p) ==
    /\ ro[p] = "try"
    /\ ~ReadFree(p)
    /\ tries[p] < MaxTries
    /\ tries' = [tries EXCEPT ![p] = tries[p] + 1]
    /\ UNCHANGED <<rwVars, ro, locks>>

(***************************************************************************)
(* It fails after the deadline: close the descriptor, return DL_E_LOCKED.  *)
(***************************************************************************)
RoTimeout(p) ==
    /\ ro[p] = "try"
    /\ ~ReadFree(p)
    /\ tries[p] = MaxTries
    /\ ro' = [ro EXCEPT ![p] = "none"]
    /\ DropAll(p)
    /\ UNCHANGED <<rwVars, tries>>

(***************************************************************************)
(* A reader that keeps the window after its open.                          *)
(***************************************************************************)
FaultyRoReady(p) ==
    /\ ro[p] = "open"
    /\ ro' = [ro EXCEPT ![p] = "live"]
    /\ UNCHANGED <<rwVars, tries, locks>>

(***************************************************************************)
(* The open is complete: the deferred unlock of byte 1, then the handle is *)
(* returned.                                                               *)
(***************************************************************************)
RoReady(p) ==
    /\ ro[p] = "open"
    /\ ro' = [ro EXCEPT ![p] = "live"]
    /\ winS' = winS \ {p}
    /\ UNCHANGED <<rwVars, tries, excl, winX>>

(***************************************************************************)
(* dl_close of a read-only handle.                                         *)
(***************************************************************************)
CloseRo(p) ==
    /\ ro[p] = "live"
    /\ ro' = [ro EXCEPT ![p] = "none"]
    /\ DropAll(p)
    /\ UNCHANGED <<rwVars, tries>>

(***************************************************************************)
(* The process dies at any point.                                          *)
(***************************************************************************)
Die(p) ==
    /\ rw[p] # "none" \/ ro[p] # "none"
    /\ rw' = [rw EXCEPT ![p] = "none"]
    /\ depth' = [depth EXCEPT ![p] = 0]
    /\ nested' = [nested EXCEPT ![p] = FALSE]
    /\ closing' = [closing EXCEPT ![p] = FALSE]
    /\ ro' = [ro EXCEPT ![p] = "none"]
    /\ DropAll(p)
    /\ UNCHANGED tries

RwStep(p) ==
    \/ OpenRw(p) \/ Grant(p)
    \/ \E close \in BOOLEAN : MutWindowBegin(p, close)
    \/ WindowGrant(p) \/ MutWindowNest(p) \/ MutWindowEnd(p) \/ CloseRw(p)

RoStep(p) ==
    \/ OpenRo(p) \/ RoLock(p) \/ RoRetry(p) \/ RoTimeout(p) \/ RoReady(p) \/ CloseRo(p)

LockNext == \E p \in Procs : RwStep(p) \/ RoStep(p) \/ Die(p)

(***************************************************************************)
(* Calls that have begun go on; an application closes its read-write       *)
(* handle eventually; a waiter in F_SETLKW is not passed over for ever     *)
(* when the byte is free again and again (it may well not be, where        *)
(* readers' opens overlap: see OpensHaveGaps).  Nobody has to open         *)
(* anything.                                                               *)
(***************************************************************************)
Fairness ==
    /\ \A p \in WriterProcs :
          /\ SF_lockVars(Grant(p))
          /\ SF_lockVars(WindowGrant(p))
          /\ SF_lockVars(MutWindowBegin(p, TRUE))
          /\ WF_lockVars(MutWindowEnd(p))
          /\ WF_lockVars(CloseRw(p))
    /\ \A p \in ReaderProcs :
          /\ WF_lockVars(RoLock(p) \/ RoRetry(p) \/ RoTimeout(p))
          /\ WF_lockVars(RoReady(p))

LockSpec == LockInit /\ [][LockNext]_lockVars

FairSpec == LockSpec /\ Fairness

-----------------------------------------------------------------------------
(***************************************************************************)
(* Properties.                                                             *)
(***************************************************************************)

(***************************************************************************)
(* The process has an open read-write handle.                              *)
(***************************************************************************)
Holds(p) == rw[p] \in {"idle", "wait", "mutate"}

(***************************************************************************)
(* Exactly one read-write handle per directory, through queueing, nested   *)
(* windows, reader time-outs, closes and deaths (dl.h, concurrency model). *)
(***************************************************************************)
OneWriter == \A p, q \in Procs : Holds(p) /\ Holds(q) => p = q

(***************************************************************************)
(* No file is replaced and no WAL truncated while another process is       *)
(* inside its open: the windows of mutWindowBegin keep out every reader    *)
(* until the outermost one ends.                                           *)
(***************************************************************************)
WindowExclusive ==
    \A p, q \in Procs : rw[p] = "mutate" /\ ro[q] = "open" => p = q

(***************************************************************************)
(* Readers share byte 1, so opens that overlap without end never leave it  *)
(* free.  The promises to writers hold as long as there is, again and      *)
(* again, a moment when no reader is inside its open.                      *)
(***************************************************************************)
OpensHaveGaps == []<>(\A q \in ReaderProcs : ro[q] # "open")

(***************************************************************************)
(* A writer that queues for byte 0 gets it: holders get their windows,     *)
(* close or die, and a death leaves no stale lock.                         *)
(***************************************************************************)
QueueServed == OpensHaveGaps => \A p \in WriterProcs : rw[p] = "queued" ~> rw[p] # "queued"

(***************************************************************************)
(* A reader's open is bounded: it locks the window or gives up, even       *)
(* behind a writer that never leaves its window.                           *)
(***************************************************************************)
ReaderBounded == \A p \in ReaderProcs : ro[p] = "try" ~> ro[p] # "try"

(***************************************************************************)
(* A writer waits for nothing but opens: neither a reader that has opened, *)
(* nor one that gave up or died, nor another writer keeps it out of its    *)
(* window.  mutWindowBegin concludes that the wait is bounded ("the only   *)
(* holder that can be in the way is another process's open-time replay");  *)
(* without OpensHaveGaps that is false as soon as there are two readers.   *)
(***************************************************************************)
WindowServed == OpensHaveGaps => \A p \in WriterProcs : rw[p] = "wait" ~> rw[p] # "wait"

(***************************************************************************)
(* The two byte-range locks implement the concurrency model of dl.h: every *)
(* lock, retry, nested window, close and death is a step of LockContract   *)
(* or invisible in it.                                                     *)
(***************************************************************************)
Contract == INSTANCE LockContract WITH
    queue     <- {p \in Procs : rw[p] = "queued"},
    writer    <- {p \in Procs : Holds(p)},
    replacing <- {p \in Procs : rw[p] = "mutate"},
    asking    <- {p \in Procs : ro[p] = "try"},
    opening   <- {p \in Procs : ro[p] = "open"},
    reading   <- {p \in Procs : ro[p] = "live"}

KeepsLockContract == Contract!Spec

=============================================================================
