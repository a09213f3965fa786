----------------------------- MODULE VancCache -----------------------------
(***************************************************************************)
(* The VANC cache of one libklvanc context (core-cache.c, cache.h).        *)
(*                                                                         *)
(* The parser thread stores a private copy of every packet it meets in the *)
(* cell of its (DID/SDID, line) pair: klvanc_cache_update.  Application    *)
(* threads query the cells (klvanc_cache_lookup, then the cell's mutex)    *)
(* and call klvanc_cache_reset; klvanc_context_destroy ends the cache with *)
(* klvanc_cache_free.  The mutex of a cell protects only its pkt pointer:  *)
(* active, count and the entry's activeCount are read and written outside  *)
(* it, so each such access is a step of its own here, and "x++" is a load  *)
(* followed by a store.                                                    *)
(*                                                                         *)
(* The loops over DID and SDID are one loop over the entry index           *)
(* (did << 8) | sdid.  Packet contents are abstracted: a packet copy is a  *)
(* heap object, and what matters is who owns it and when it is freed.      *)
(***************************************************************************)
EXTENDS Integers, FiniteSets

CONSTANTS
  Parsers,            \* threads that call klvanc_packet_parse
  Users,              \* threads that query, reset and destroy
  NKeys,              \* number of DID/SDID entries (0x10000 in the code)
  NLines,             \* number of lines of an entry (2048 in the code)
  CountModulus,       \* modulus of uint32_t activeCount (2^32 in the code)
  MaxCount,           \* bound: updates of a cell the model explores
  Objs,               \* addresses malloc can return
  NULL                \* the null pointer; also "no thread" for a mutex

Threads == Parsers \cup Users
Keys    == 0 .. NKeys - 1
Lines   == 0 .. NLines - 1
Cells   == Keys \X Lines

\* The sizes are positive, and the null pointer is neither a thread nor an
\* address.
ASSUME CacheAssumption ==
  /\ NKeys \in Nat \ {0}
  /\ NLines \in Nat \ {0}
  /\ CountModulus \in Nat \ {0, 1}
  /\ MaxCount \in Nat
  /\ NULL \notin Threads
  /\ NULL \notin Objs

VARIABLES
  cache,        \* ctx->cacheLines: "none" (NULL), "on", or "freed"
  activeCount,  \* klvanc_cache_s.activeCount, per entry
  labelled,     \* klvanc_cache_s.did/sdid/desc/spec have been filled in
  active,       \* klvanc_cache_line_s.active, per cell
  count,        \* klvanc_cache_line_s.count, per cell
  mutex,        \* klvanc_cache_line_s.mutex: its holder or NULL
  pkt,          \* klvanc_cache_line_s.pkt, per cell
  heap,         \* addresses of the live packet copies
  op,           \* the call a thread is in
  pc,           \* the step of that call it takes next
  at,           \* the <<entry, line>> it is working on
  tmp           \* the value it loaded for an increment

shared == <<cache, activeCount, labelled, active, count, mutex, pkt, heap>>
local  == <<op, pc, at, tmp>>
vars   == <<cache, activeCount, labelled, active, count, mutex, pkt, heap,
            op, pc, at, tmp>>

Ops   == {"idle", "update", "reset", "free", "read"}
Steps == {"idle", "label", "mark", "load", "bump", "lock", "drop", "clear",
          "copy", "unlock", "cload", "cstore",
          "entry", "zero", "line", "unmark", "uncount", "query"}

\* Steps a thread takes while it holds the mutex of its cell.
Critical == {"drop", "clear", "copy", "unlock", "query"}

TypeOK ==
  /\ cache \in {"none", "on", "freed"}
  /\ activeCount \in [Keys -> 0 .. CountModulus - 1]
  /\ labelled \in [Keys -> BOOLEAN]
  /\ active \in [Cells -> BOOLEAN]
  /\ count \in [Cells -> Nat]
  /\ mutex \in [Cells -> Threads \cup {NULL}]
  /\ pkt \in [Cells -> Objs \cup {NULL}]
  /\ heap \subseteq Objs
  /\ op \in [Threads -> Ops]
  /\ pc \in [Threads -> Steps]
  /\ at \in [Threads -> Cells]
  /\ tmp \in [Threads -> Nat]

\* klvanc_context_create: a zeroed context without a cache.
Init ==
  /\ cache = "none"
  /\ activeCount = [k \in Keys |-> 0]
  /\ labelled = [k \in Keys |-> FALSE]
  /\ active = [c \in Cells |-> FALSE]
  /\ count = [c \in Cells |-> 0]
  /\ mutex = [c \in Cells |-> NULL]
  /\ pkt = [c \in Cells |-> NULL]
  /\ heap = {}
  /\ op = [t \in Threads |-> "idle"]
  /\ pc = [t \in Threads |-> "idle"]
  /\ at = [t \in Threads |-> <<0, 0>>]
  /\ tmp = [t \in Threads |-> 0]

----------------------------------------------------------------------------
(* Control *)

Goto(t, step) ==
  /\ pc' = [pc EXCEPT ![t] = step]
  /\ UNCHANGED <<op, at, tmp>>

Begin(t, call, step, cell) ==
  /\ op[t] = "idle"
  /\ op' = [op EXCEPT ![t] = call]
  /\ pc' = [pc EXCEPT ![t] = step]
  /\ at' = [at EXCEPT ![t] = cell]
  /\ UNCHANGED tmp

Return(t) ==
  /\ op' = [op EXCEPT ![t] = "idle"]
  /\ pc' = [pc EXCEPT ![t] = "idle"]
  /\ UNCHANGED <<at, tmp>>

\* The context is being destroyed: the application no longer uses it.
Closing == \E t \in Threads : op[t] = "free"

----------------------------------------------------------------------------
(* klvanc_context_enable_cache -> klvanc_cache_alloc.  Applications call it  *)
(* once, before they start parsing; a failed calloc leaves cacheLines NULL. *)

klvanc_cache_alloc ==
  /\ cache = "none"
  /\ cache' = "on"
  /\ UNCHANGED <<activeCount, labelled, active, count, mutex, pkt, heap>>
  /\ UNCHANGED local

----------------------------------------------------------------------------
(* klvanc_cache_update.  Its early returns (no cache, line number too big) *)
(* change nothing, and are stuttering steps.                               *)

UpdateBegin(t, cell) ==
  /\ cache = "on" /\ ~Closing
  /\ count[cell] < MaxCount
  /\ Begin(t, "update", "label", cell)
  /\ UNCHANGED shared

\* if (s->activeCount == 0) fill in did, sdid, desc and spec
UpdateLabel(t) ==
  /\ pc[t] = "label"
  /\ LET k == at[t][1] IN
       labelled' = IF activeCount[k] = 0 THEN [labelled EXCEPT ![k] = TRUE]
                                         ELSE labelled
  /\ Goto(t, "mark")
  /\ UNCHANGED <<cache, activeCount, active, count, mutex, pkt, heap>>

\* line->active = 1
UpdateMark(t) ==
  /\ pc[t] = "mark"
  /\ active' = [active EXCEPT ![at[t]] = TRUE]
  /\ Goto(t, "load")
  /\ UNCHANGED <<cache, activeCount, labelled, count, mutex, pkt, heap>>

\* s->activeCount++ is a load and a store that wraps at 2^32.
UpdateLoad(t) ==
  /\ pc[t] = "load"
  /\ tmp' = [tmp EXCEPT ![t] = activeCount[at[t][1]]]
  /\ pc' = [pc EXCEPT ![t] = "bump"]
  /\ UNCHANGED <<op, at>>
  /\ UNCHANGED shared

UpdateBump(t) ==
  /\ pc[t] = "bump"
  /\ activeCount' = [activeCount EXCEPT ![at[t][1]] = (tmp[t] + 1) % CountModulus]
  /\ Goto(t, "lock")
  /\ UNCHANGED <<cache, labelled, active, count, mutex, pkt, heap>>

\* Mutant of UpdateCopy: a failed copy returns without unlocking the cell.
UpdateCopyLeaksLock(t) ==
  /\ pc[t] = "copy"
  /\ \/ \E o \in Objs \ heap :
          /\ heap' = heap \cup {o}
          /\ pkt' = [pkt EXCEPT ![at[t]] = o]
          /\ Goto(t, "unlock")
     \/ /\ pkt' = [pkt EXCEPT ![at[t]] = NULL]
        /\ UNCHANGED heap
        /\ Return(t)
  /\ UNCHANGED <<cache, activeCount, labelled, active, count, mutex>>

\* klvanc_packet_copy(&line->pkt, pkt): malloc stores its result in the
\* cell, NULL when it fails.
UpdateCopy(t) ==
  /\ pc[t] = "copy"
  /\ \/ \E o \in Objs \ heap :
          /\ heap' = heap \cup {o}
          /\ pkt' = [pkt EXCEPT ![at[t]] = o]
     \/ /\ pkt' = [pkt EXCEPT ![at[t]] = NULL]
        /\ UNCHANGED heap
  /\ Goto(t, "unlock")
  /\ UNCHANGED <<cache, activeCount, labelled, active, count, mutex>>

\* line->count++, after the unlock, is a load and a store.
UpdateCountLoad(t) ==
  /\ pc[t] = "cload"
  /\ tmp' = [tmp EXCEPT ![t] = count[at[t]]]
  /\ pc' = [pc EXCEPT ![t] = "cstore"]
  /\ UNCHANGED <<op, at>>
  /\ UNCHANGED shared

UpdateCountStore(t) ==
  /\ pc[t] = "cstore"
  /\ count' = [count EXCEPT ![at[t]] = tmp[t] + 1]
  /\ Return(t)
  /\ UNCHANGED <<cache, activeCount, labelled, active, mutex, pkt, heap>>

----------------------------------------------------------------------------
(* The locked part of a cell, shared by the calls *)

\* pthread_mutex_lock(&line->mutex)
LockLine(t) ==
  /\ pc[t] = "lock"
  /\ mutex[at[t]] = NULL
  /\ mutex' = [mutex EXCEPT ![at[t]] = t]
  /\ Goto(t, IF op[t] = "read" THEN "query" ELSE "drop")
  /\ UNCHANGED <<cache, activeCount, labelled, active, count, pkt, heap>>

AfterDrop(t) == IF op[t] = "update" THEN "copy" ELSE "unlock"

\* Mutant of DropPacket: the old copy is overwritten without being freed.
DropPacketKeepsOld(t) ==
  /\ pc[t] = "drop"
  /\ Goto(t, IF pkt[at[t]] = NULL THEN AfterDrop(t) ELSE "clear")
  /\ UNCHANGED shared

\* if (line->pkt) klvanc_packet_free(line->pkt)
DropPacket(t) ==
  /\ pc[t] = "drop"
  /\ heap' = heap \ {pkt[at[t]]}
  /\ Goto(t, IF pkt[at[t]] = NULL THEN AfterDrop(t) ELSE "clear")
  /\ UNCHANGED <<cache, activeCount, labelled, active, count, mutex, pkt>>

\* Mutant of ClearPacket: the freed pointer is left in the cell.
ClearPacketForgets(t) ==
  /\ pc[t] = "clear"
  /\ Goto(t, AfterDrop(t))
  /\ UNCHANGED shared

\* line->pkt = 0
ClearPacket(t) ==
  /\ pc[t] = "clear"
  /\ pkt' = [pkt EXCEPT ![at[t]] = NULL]
  /\ Goto(t, AfterDrop(t))
  /\ UNCHANGED <<cache, activeCount, labelled, active, count, mutex, heap>>

(* The loops of klvanc_cache_reset: the next line of the entry, the next   *)
(* entry, and the end of the call.                                         *)

ResetNextEntry(t) ==
  LET k == at[t][1] IN
  IF k + 1 < NKeys
  THEN /\ at' = [at EXCEPT ![t] = <<k + 1, 0>>]
       /\ pc' = [pc EXCEPT ![t] = "entry"]
       /\ UNCHANGED <<cache, op, tmp>>
  ELSE /\ cache' = IF op[t] = "free" THEN "freed" ELSE cache
       /\ Return(t)

\* Mutants of ResetNextLine: the loop visits one line too many, one too few.
ResetNextLineTooFar(t) ==
  LET k == at[t][1]
      l == at[t][2] IN
  IF l + 1 <= NLines
  THEN /\ at' = [at EXCEPT ![t] = <<k, l + 1>>]
       /\ pc' = [pc EXCEPT ![t] = "line"]
       /\ UNCHANGED <<cache, op, tmp>>
  ELSE ResetNextEntry(t)

ResetNextLineTooShort(t) ==
  LET k == at[t][1]
      l == at[t][2] IN
  IF l + 2 < NLines
  THEN /\ at' = [at EXCEPT ![t] = <<k, l + 1>>]
       /\ pc' = [pc EXCEPT ![t] = "line"]
       /\ UNCHANGED <<cache, op, tmp>>
  ELSE ResetNextEntry(t)

ResetNextLine(t) ==
  LET k == at[t][1]
      l == at[t][2] IN
  IF l + 1 < NLines
  THEN /\ at' = [at EXCEPT ![t] = <<k, l + 1>>]
       /\ pc' = [pc EXCEPT ![t] = "line"]
       /\ UNCHANGED <<cache, op, tmp>>
  ELSE ResetNextEntry(t)

\* pthread_mutex_unlock(&line->mutex)
UnlockLine(t) ==
  /\ pc[t] = "unlock"
  /\ mutex' = [mutex EXCEPT ![at[t]] = NULL]
  /\ \/ op[t] = "update" /\ Goto(t, "cload") /\ UNCHANGED cache
     \/ op[t] = "read" /\ Return(t) /\ UNCHANGED cache
     \/ op[t] \in {"reset", "free"} /\ ResetNextLine(t)
  /\ UNCHANGED <<activeCount, labelled, active, count, pkt, heap>>

----------------------------------------------------------------------------
(* klvanc_cache_reset, and klvanc_cache_free, which is a reset followed by *)
(* free(ctx->cacheLines).  klvanc_context_destroy calls the latter once no *)
(* other thread uses the context.                                          *)

ResetBegin(t) ==
  /\ cache = "on" /\ ~Closing
  /\ Begin(t, "reset", "entry", <<0, 0>>)
  /\ UNCHANGED shared

klvanc_cache_free(t) ==
  /\ cache = "on"
  /\ \A u \in Threads : op[u] = "idle"
  /\ Begin(t, "free", "entry", <<0, 0>>)
  /\ UNCHANGED shared

\* if (e->activeCount == 0) continue
ResetEntry(t) ==
  /\ pc[t] = "entry"
  /\ IF activeCount[at[t][1]] = 0 THEN ResetNextEntry(t)
                                  ELSE Goto(t, "zero") /\ UNCHANGED cache
  /\ UNCHANGED <<activeCount, labelled, active, count, mutex, pkt, heap>>

\* e->activeCount = 0
ResetZero(t) ==
  /\ pc[t] = "zero"
  /\ activeCount' = [activeCount EXCEPT ![at[t][1]] = 0]
  /\ Goto(t, "line")
  /\ UNCHANGED <<cache, labelled, active, count, mutex, pkt, heap>>

\* if (!line->active) continue
ResetLine(t) ==
  /\ pc[t] = "line"
  /\ IF active[at[t]] THEN Goto(t, "unmark") /\ UNCHANGED cache
                      ELSE ResetNextLine(t)
  /\ UNCHANGED <<activeCount, labelled, active, count, mutex, pkt, heap>>

\* line->active = 0
ResetUnmark(t) ==
  /\ pc[t] = "unmark"
  /\ active' = [active EXCEPT ![at[t]] = FALSE]
  /\ Goto(t, "uncount")
  /\ UNCHANGED <<cache, activeCount, labelled, count, mutex, pkt, heap>>

\* Mutant of ResetUncount: the line's count survives the reset.
ResetUncountForgets(t) ==
  /\ pc[t] = "uncount"
  /\ Goto(t, "lock")
  /\ UNCHANGED shared

\* line->count = 0
ResetUncount(t) ==
  /\ pc[t] = "uncount"
  /\ count' = [count EXCEPT ![at[t]] = 0]
  /\ Goto(t, "lock")
  /\ UNCHANGED <<cache, activeCount, labelled, active, mutex, pkt, heap>>

----------------------------------------------------------------------------
(* An application's query: klvanc_cache_lookup, lock the cell, look at     *)
(* line->pkt, unlock.  The reading code belongs to the application.        *)

ReadBegin(t, cell) ==
  /\ cache = "on" /\ ~Closing
  /\ Begin(t, "read", "lock", cell)
  /\ UNCHANGED shared

ReadQuery(t) ==
  /\ pc[t] = "query"
  /\ Goto(t, "unlock")
  /\ UNCHANGED shared

----------------------------------------------------------------------------

\* The destroyed context takes no further step.
Destroyed == cache = "freed" /\ UNCHANGED vars

UpdateStep(t) ==
  \/ UpdateLabel(t) \/ UpdateMark(t) \/ UpdateLoad(t) \/ UpdateBump(t)
  \/ UpdateCopy(t) \/ UpdateCountLoad(t) \/ UpdateCountStore(t)

ResetStep(t) ==
  \/ ResetEntry(t) \/ ResetZero(t) \/ ResetLine(t)
  \/ ResetUnmark(t) \/ ResetUncount(t)

LockedStep(t) ==
  \/ DropPacket(t) \/ ClearPacket(t) \/ UnlockLine(t) \/ ReadQuery(t)

Step(t) == UpdateStep(t) \/ ResetStep(t) \/ LockLine(t) \/ LockedStep(t)

Call(t) ==
  \/ t \in Parsers /\ \E c \in Cells : UpdateBegin(t, c)
  \/ t \in Users /\ \E c \in Cells : ReadBegin(t, c)
  \/ t \in Users /\ (ResetBegin(t) \/ klvanc_cache_free(t))

Next ==
  \/ klvanc_cache_alloc
  \/ \E t \in Threads : Call(t) \/ Step(t)
  \/ Destroyed

\* A thread inside a library call keeps running: the calls contain no wait
\* other than the mutex, and the operating system schedules every thread.
Fairness == \A t \in Threads : WF_vars(Step(t))

Spec     == Init /\ [][Next]_vars
FairSpec == Spec /\ Fairness

----------------------------------------------------------------------------
(* Properties *)

\* The thread holding the mutex of cell c is about to clear the pointer it
\* has just freed.
Clearing(c) == mutex[c] # NULL /\ pc[mutex[c]] = "clear"

\* Cell c owns the packet copy its pointer names.
Owns(c) == pkt[c] # NULL /\ ~Clearing(c)

\* Mutual exclusion: a cell's mutex is held exactly by the thread that is
\* inside the locked part of core-cache.c on that cell, so no two threads
\* touch one pkt pointer at a time, and no path forgets to unlock.
LockDiscipline ==
  /\ \A c \in Cells : mutex[c] # NULL => pc[mutex[c]] \in Critical /\ at[mutex[c]] = c
  /\ \A t \in Threads : pc[t] \in Critical => mutex[at[t]] = t

\* No use after free and no double free: when a thread reads, copies over
\* or frees line->pkt under the mutex, the pointer is null or points to a
\* live copy, whatever updates, resets and queries are interleaved.
PointerIsLive ==
  \A t \in Threads :
    pc[t] \in {"query", "drop"} /\ pkt[at[t]] # NULL => pkt[at[t]] \in heap

\* Every live packet copy is the pkt of exactly one cell: overwriting and
\* resetting lose no copy and two cells never share one.
SoleOwner ==
  \A o \in heap : \E c \in Cells :
    /\ pkt[c] = o /\ Owns(c)
    /\ \A d \in Cells : pkt[d] = o /\ Owns(d) => d = c

\* The inductive invariant behind PointerIsLive and SoleOwner.  It adds that
\* an owning cell's pointer is live, that the pointer is null where
\* klvanc_packet_copy overwrites it, and that a thread outside a call is at
\* no step of one.
OwnedIsLive == \A c \in Cells : Owns(c) => pkt[c] \in heap
CopyOverNull == \A t \in Threads : pc[t] = "copy" => pkt[at[t]] = NULL
IdleIsOutside == \A t \in Threads : op[t] = "idle" => pc[t] = "idle"

CacheInv ==
  /\ TypeOK
  /\ LockDiscipline
  /\ IdleIsOutside
  /\ CopyOverNull
  /\ OwnedIsLive
  /\ SoleOwner

\* klvanc_cache_free leaves no packet copy behind ("Free any cached lines
\* otherwise we'll memory leak").
FreeReleasesAll == cache = "freed" => heap = {}

\* Number of updates recorded on the first n lines of entry k, and on all.
LineSums(cnt, k) ==
  LET sum[n \in 0 .. NLines] == IF n = 0 THEN 0 ELSE cnt[<<k, n - 1>>] + sum[n - 1]
  IN  sum
UpdatesOf(k) == LineSums(count, k)[NLines]

\* Between calls the cache answers "what message types have I seen on what
\* lines?": the total of an entry is the sum over its lines (modulo the
\* width of activeCount), a line is active exactly when updates were counted
\* on it, and a packet is held only for an active line of a labelled entry.
StatsConsistent ==
  (\A t \in Threads : op[t] = "idle") =>
    \A k \in Keys :
      /\ activeCount[k] = UpdatesOf(k) % CountModulus
      /\ \A l \in Lines : active[<<k, l>>] <=> count[<<k, l>>] > 0
      /\ \A l \in Lines : pkt[<<k, l>>] # NULL => active[<<k, l>>] /\ labelled[k]

\* Whoever takes the mutex of a cell gives it back: no call keeps another
\* thread out of a cell for ever.
LockIsReleased == \A c \in Cells : mutex[c] # NULL ~> mutex[c] = NULL

=============================================================================
