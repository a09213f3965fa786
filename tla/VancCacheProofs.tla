-------------------------- MODULE VancCacheProofs --------------------------
(* Machine-checked proofs about VancCache, for every number of threads,    *)
(* entries, lines and addresses.                                           *)
EXTENDS VancCache, TLAPS, WellFoundedInduction

USE DEF Threads, Cells

\* The reset loop starts at a cell.
LEMMA FirstCell == <<0, 0>> \in Cells
  BY CacheAssumption DEF Keys, Lines

\* The loops of klvanc_cache_reset stay inside the cache: the next cell a
\* resetting thread visits is a cell, and its control state stays typed.
LEMMA ResetLoopTyped ==
  ASSUME TypeOK, NEW t \in Threads, ResetNextLine(t) \/ ResetNextEntry(t)
  PROVE  /\ cache' \in {"none", "on", "freed"}
         /\ op' \in [Threads -> Ops]
         /\ pc' \in [Threads -> Steps]
         /\ at' \in [Threads -> Cells]
         /\ tmp' \in [Threads -> Nat]
<1> DEFINE k == at[t][1]
           l == at[t][2]
<1>1. k \in Keys /\ l \in Lines
  BY DEF TypeOK
<1>2. CASE ResetNextEntry(t)
  <2>1. CASE k + 1 < NKeys
    <3>1. <<k + 1, 0>> \in Cells
      BY <1>1, <2>1, CacheAssumption DEF Keys, Lines
    <3> QED BY <1>2, <2>1, <3>1 DEF TypeOK, ResetNextEntry, Steps
  <2>2. CASE ~(k + 1 < NKeys)
    BY <1>2, <2>2 DEF TypeOK, ResetNextEntry, Return, Ops, Steps
  <2> QED BY <2>1, <2>2
<1>3. CASE ResetNextLine(t)
  <2>1. CASE l + 1 < NLines
    <3>1. <<k, l + 1>> \in Cells
      BY <1>1, <2>1, CacheAssumption DEF Keys, Lines
    <3> QED BY <1>3, <2>1, <3>1 DEF TypeOK, ResetNextLine, Steps
  <2>2. CASE ~(l + 1 < NLines)
    BY <1>2, <1>3, <2>2 DEF ResetNextLine
  <2> QED BY <2>1, <2>2
<1> QED BY <1>2, <1>3

\* Type correctness is inductive by itself.
LEMMA TypeStep == TypeOK /\ [Next]_vars => TypeOK'
<1> SUFFICES ASSUME TypeOK, [Next]_vars PROVE TypeOK'
  OBVIOUS
<1> USE CacheAssumption
<1>1. CASE UNCHANGED vars
  BY <1>1 DEF TypeOK, vars
<1>2. CASE klvanc_cache_alloc
  BY <1>2 DEF TypeOK, klvanc_cache_alloc, local
<1>3. ASSUME NEW t \in Threads, Call(t) PROVE TypeOK'
  <2>1. PICK c \in Cells, call \in Ops, step \in Steps :
          Begin(t, call, step, c) /\ UNCHANGED shared
    BY <1>3, FirstCell DEF Call, UpdateBegin, ReadBegin, ResetBegin, klvanc_cache_free,
       Ops, Steps
  <2> QED BY <2>1 DEF TypeOK, Begin, shared
<1>4. ASSUME NEW t \in Threads, UpdateStep(t) PROVE TypeOK'
  <2>1. at[t][1] \in Keys
    BY DEF TypeOK
  <2>2. CASE UpdateLabel(t)
    BY <2>1, <2>2 DEF TypeOK, UpdateLabel, Goto, Steps
  <2>3. CASE UpdateMark(t)
    BY <2>3 DEF TypeOK, UpdateMark, Goto, Steps
  <2>4. CASE UpdateLoad(t)
    BY <2>1, <2>4 DEF TypeOK, UpdateLoad, shared, Steps
  <2>5. CASE UpdateBump(t)
    <3>1. (tmp[t] + 1) % CountModulus \in 0 .. CountModulus - 1
      BY DEF TypeOK
    <3> QED BY <2>1, <2>5, <3>1 DEF TypeOK, UpdateBump, Goto, Steps
  <2>6. CASE UpdateCopy(t)
    BY <2>6 DEF TypeOK, UpdateCopy, Goto, Steps
  <2>7. CASE UpdateCountLoad(t)
    BY <2>7 DEF TypeOK, UpdateCountLoad, shared, Steps
  <2>8. CASE UpdateCountStore(t)
    BY <2>8 DEF TypeOK, UpdateCountStore, Return, Steps, Ops
  <2> QED BY <1>4, <2>2, <2>3, <2>4, <2>5, <2>6, <2>7, <2>8 DEF UpdateStep
<1>5. ASSUME NEW t \in Threads, ResetStep(t) PROVE TypeOK'
  <2>1. at[t][1] \in Keys
    BY DEF TypeOK
  <2>2. CASE ResetEntry(t)
    BY <2>2, ResetLoopTyped DEF TypeOK, ResetEntry, Goto, Steps
  <2>3. CASE ResetZero(t)
    BY <2>1, <2>3 DEF TypeOK, ResetZero, Goto, Steps
  <2>4. CASE ResetLine(t)
    BY <2>4, ResetLoopTyped DEF TypeOK, ResetLine, Goto, Steps
  <2>5. CASE ResetUnmark(t)
    BY <2>5 DEF TypeOK, ResetUnmark, Goto, Steps
  <2>6. CASE ResetUncount(t)
    BY <2>6 DEF TypeOK, ResetUncount, Goto, Steps
  <2> QED BY <1>5, <2>2, <2>3, <2>4, <2>5, <2>6 DEF ResetStep
<1>6. ASSUME NEW t \in Threads, LockLine(t) PROVE TypeOK'
  BY <1>6 DEF TypeOK, LockLine, Goto, Steps
<1>7. ASSUME NEW t \in Threads, LockedStep(t) PROVE TypeOK'
  <2>1. CASE DropPacket(t)
    BY <2>1 DEF TypeOK, DropPacket, AfterDrop, Goto, Steps
  <2>2. CASE ClearPacket(t)
    BY <2>2 DEF TypeOK, ClearPacket, AfterDrop, Goto, Steps
  <2>3. CASE UnlockLine(t)
    <3>1. mutex' \in [Cells -> Threads \cup {NULL}]
      BY <2>3 DEF TypeOK, UnlockLine
    <3>2. CASE Goto(t, "cload") /\ UNCHANGED cache
      BY <2>3, <3>1, <3>2 DEF TypeOK, UnlockLine, Goto, Steps
    <3>3. CASE Return(t) /\ UNCHANGED cache
      BY <2>3, <3>1, <3>3 DEF TypeOK, UnlockLine, Return, Steps, Ops
    <3>4. CASE ResetNextLine(t)
      BY <2>3, <3>1, <3>4, ResetLoopTyped DEF TypeOK, UnlockLine
    <3> QED BY <2>3, <3>2, <3>3, <3>4 DEF UnlockLine
  <2>4. CASE ReadQuery(t)
    BY <2>4 DEF TypeOK, ReadQuery, Goto, shared, Steps
  <2> QED BY <1>7, <2>1, <2>2, <2>3, <2>4 DEF LockedStep
<1>8. CASE Destroyed
  BY <1>8, <1>1 DEF Destroyed
<1> QED BY <1>1, <1>2, <1>3, <1>4, <1>5, <1>6, <1>7, <1>8 DEF Next, Step

----------------------------------------------------------------------------

\* A step outside the locked part of a cell, by a thread that stays outside
\* it, disturbs neither the locks nor the ownership of the packet copies.
LEMMA OutsideStep ==
  ASSUME CacheInv, TypeOK', NEW t \in Threads,
         pc[t] \notin Critical, pc'[t] \notin Critical,
         op'[t] = "idle" => pc'[t] = "idle",
         \A u \in Threads \ {t} : pc'[u] = pc[u] /\ at'[u] = at[u] /\ op'[u] = op[u],
         UNCHANGED <<mutex, pkt, heap>>
  PROVE  CacheInv'
<1> USE CacheAssumption DEF CacheInv
<1>1. LockDiscipline'
  BY DEF LockDiscipline, TypeOK
<1>2. \A c \in Cells : Clearing(c)' <=> Clearing(c)
  BY DEF LockDiscipline, Clearing, TypeOK
<1>3. \A c \in Cells : Owns(c)' <=> Owns(c)
  BY <1>2 DEF Owns
<1>4. OwnedIsLive' /\ SoleOwner'
  BY <1>3 DEF OwnedIsLive, SoleOwner
<1>5. IdleIsOutside' /\ CopyOverNull'
  BY DEF IdleIsOutside, CopyOverNull, Critical
<1> QED BY <1>1, <1>4, <1>5

\* pthread_mutex_lock on the cell of a waiting thread.
LEMMA LockStep ==
  ASSUME CacheInv, TypeOK', NEW t \in Threads, LockLine(t)
  PROVE  CacheInv'
<1> USE CacheAssumption DEF CacheInv
<1>1. pc' = [pc EXCEPT ![t] = IF op[t] = "read" THEN "query" ELSE "drop"]
  BY DEF LockLine, Goto
<1>2. LockDiscipline'
  BY <1>1 DEF LockDiscipline, TypeOK, LockLine, Goto, Critical
<1>3. \A c \in Cells : Clearing(c)' <=> Clearing(c)
  BY <1>1 DEF LockDiscipline, Clearing, TypeOK, LockLine, Goto, Critical
<1>4. \A c \in Cells : Owns(c)' <=> Owns(c)
  BY <1>3 DEF Owns, LockLine
<1>5. OwnedIsLive' /\ SoleOwner'
  BY <1>4 DEF OwnedIsLive, SoleOwner, LockLine
<1>6. IdleIsOutside' /\ CopyOverNull'
  BY <1>1 DEF IdleIsOutside, CopyOverNull, LockLine, Goto, TypeOK
<1> QED BY <1>2, <1>5, <1>6

\* klvanc_packet_free(line->pkt) under the mutex.
LEMMA DropStep ==
  ASSUME CacheInv, TypeOK', NEW t \in Threads, DropPacket(t)
  PROVE  CacheInv'
<1> USE CacheAssumption DEF CacheInv
<1> DEFINE c == at[t]
           step == IF pkt[c] = NULL THEN AfterDrop(t) ELSE "clear"
<1>1. /\ pc[t] = "drop" /\ pc' = [pc EXCEPT ![t] = step]
      /\ step \in Critical /\ step # "query"
      /\ (step = "clear") <=> (pkt[c] # NULL)
      /\ UNCHANGED <<op, at, mutex, pkt>>
      /\ heap' = heap \ {pkt[c]}
  BY DEF DropPacket, AfterDrop, Goto, Critical
<1>2. c \in Cells /\ mutex[c] = t /\ Clearing(c)' <=> pkt[c] # NULL
  BY <1>1 DEF LockDiscipline, TypeOK, Critical, Clearing
<1>3. LockDiscipline'
  BY <1>1 DEF LockDiscipline, TypeOK, Critical
<1>4. \A d \in Cells : d # c => (Owns(d)' <=> Owns(d))
  BY <1>1, <1>2 DEF LockDiscipline, Owns, Clearing, TypeOK, Critical
<1>5. ~Owns(c)' /\ (Owns(c) <=> pkt[c] # NULL)
  BY <1>1, <1>2 DEF LockDiscipline, Owns, Clearing, TypeOK, Critical
<1>6. OwnedIsLive'
  BY <1>1, <1>2, <1>4, <1>5 DEF OwnedIsLive, SoleOwner, TypeOK
<1>7. SoleOwner'
  BY <1>1, <1>2, <1>4, <1>5 DEF SoleOwner, TypeOK
<1>8. IdleIsOutside' /\ CopyOverNull'
  BY <1>1 DEF IdleIsOutside, CopyOverNull, TypeOK
<1> QED BY <1>3, <1>6, <1>7, <1>8

\* line->pkt = 0 under the mutex.
LEMMA ClearStep ==
  ASSUME CacheInv, TypeOK', NEW t \in Threads, ClearPacket(t)
  PROVE  CacheInv'
<1> USE CacheAssumption DEF CacheInv
<1> DEFINE c == at[t]
<1>1. /\ pc[t] = "clear" /\ pc' = [pc EXCEPT ![t] = AfterDrop(t)]
      /\ AfterDrop(t) \in {"copy", "unlock"}
      /\ UNCHANGED <<op, at, mutex, heap>>
      /\ pkt' = [pkt EXCEPT ![c] = NULL]
  BY DEF ClearPacket, AfterDrop, Goto
<1>2. c \in Cells /\ mutex[c] = t
  BY <1>1 DEF LockDiscipline, TypeOK, Critical
<1>3. LockDiscipline'
  BY <1>1 DEF LockDiscipline, TypeOK, Critical
<1>4. ~Owns(c) /\ ~Owns(c)'
  BY <1>1, <1>2 DEF Owns, Clearing, TypeOK
<1>5. \A d \in Cells : d # c => (Owns(d)' <=> Owns(d)) /\ pkt'[d] = pkt[d]
  BY <1>1, <1>2 DEF LockDiscipline, Owns, Clearing, TypeOK, Critical
<1>6. OwnedIsLive' /\ SoleOwner'
  BY <1>1, <1>4, <1>5 DEF OwnedIsLive, SoleOwner
<1>7. IdleIsOutside' /\ CopyOverNull'
  BY <1>1, <1>2 DEF IdleIsOutside, CopyOverNull, TypeOK
<1> QED BY <1>3, <1>6, <1>7

\* klvanc_packet_copy(&line->pkt, pkt) under the mutex.
LEMMA CopyStep ==
  ASSUME CacheInv, TypeOK', NEW t \in Threads, UpdateCopy(t)
  PROVE  CacheInv'
<1> USE CacheAssumption DEF CacheInv
<1> DEFINE c == at[t]
<1>1. /\ pc[t] = "copy" /\ pc' = [pc EXCEPT ![t] = "unlock"]
      /\ UNCHANGED <<op, at, mutex>>
      /\ \A d \in Cells : d # c => pkt'[d] = pkt[d]
  BY DEF UpdateCopy, Goto, TypeOK
<1>2. c \in Cells /\ mutex[c] = t /\ pkt[c] = NULL /\ ~Owns(c)
  BY <1>1 DEF LockDiscipline, TypeOK, Critical, CopyOverNull, Owns
<1>3. LockDiscipline'
  BY <1>1 DEF LockDiscipline, TypeOK, Critical
<1>4. \A d \in Cells : d # c => (Owns(d)' <=> Owns(d))
  BY <1>1, <1>2 DEF LockDiscipline, Owns, Clearing, TypeOK, Critical
<1>5. IdleIsOutside' /\ CopyOverNull'
  BY <1>1, <1>2 DEF IdleIsOutside, CopyOverNull, TypeOK, LockDiscipline, Critical
<1>6. ASSUME pkt' = [pkt EXCEPT ![c] = NULL], UNCHANGED heap
      PROVE  OwnedIsLive' /\ SoleOwner'
  <2>1. ~Owns(c)'
    BY <1>1, <1>2, <1>6 DEF Owns, TypeOK
  <2>2. \A d \in Cells : (Owns(d)' <=> Owns(d)) /\ (Owns(d) => pkt'[d] = pkt[d])
    BY <1>1, <1>2, <1>4, <2>1
  <2>3. OwnedIsLive'
    BY <1>6, <2>2 DEF OwnedIsLive
  <2>4. SoleOwner'
    BY <1>6, <2>2 DEF SoleOwner
  <2> QED BY <2>3, <2>4
<1>7. ASSUME NEW o \in Objs \ heap,
             heap' = heap \cup {o}, pkt' = [pkt EXCEPT ![c] = o]
      PROVE  OwnedIsLive' /\ SoleOwner'
  <2>0. pkt'[c] = o /\ o # NULL /\ mutex'[c] = t /\ pc'[t] = "unlock"
    BY <1>1, <1>2, <1>7 DEF TypeOK
  <2>1. pkt'[c] = o /\ Owns(c)'
    BY <1>1, <2>0 DEF Owns, Clearing
  <2>2. \A d \in Cells : Owns(d) => pkt[d] # o
    BY <1>7 DEF OwnedIsLive
  <2>3. OwnedIsLive'
    <3>1. \A d \in Cells : d # c /\ Owns(d)' => pkt'[d] \in heap
      BY <1>1, <1>4 DEF OwnedIsLive
    <3> QED BY <1>7, <2>1, <3>1 DEF OwnedIsLive
  <2>4. SoleOwner'
    BY <1>1, <1>2, <1>4, <1>7, <2>1, <2>2 DEF SoleOwner
  <2> QED BY <2>3, <2>4
<1> QED BY <1>3, <1>5, <1>6, <1>7 DEF UpdateCopy

\* pthread_mutex_unlock(&line->mutex).
LEMMA UnlockStep ==
  ASSUME CacheInv, TypeOK', NEW t \in Threads, UnlockLine(t)
  PROVE  CacheInv'
<1> USE CacheAssumption DEF CacheInv
<1> DEFINE c == at[t]
<1>1. /\ pc[t] = "unlock" /\ pc'[t] \notin Critical
      /\ op'[t] = "idle" => pc'[t] = "idle"
      /\ \A u \in Threads \ {t} : pc'[u] = pc[u] /\ at'[u] = at[u] /\ op'[u] = op[u]
  BY DEF UnlockLine, ResetNextLine, ResetNextEntry, Return, Goto, TypeOK, Critical
<1>2. /\ mutex' = [mutex EXCEPT ![c] = NULL]
      /\ UNCHANGED <<pkt, heap>>
  BY DEF UnlockLine
<1>3. c \in Cells /\ mutex[c] = t
  BY <1>1 DEF LockDiscipline, TypeOK, Critical
<1>4. LockDiscipline'
  <2>1. ASSUME NEW d \in Cells, mutex'[d] # NULL
        PROVE  pc'[mutex'[d]] \in Critical /\ at'[mutex'[d]] = d
    <3>1. d # c /\ mutex'[d] = mutex[d] /\ mutex[d] \in Threads
      BY <1>2, <1>3, <2>1 DEF TypeOK
    <3>2. mutex[d] # t
      BY <1>3, <3>1 DEF LockDiscipline, TypeOK
    <3> QED BY <1>1, <3>1, <3>2 DEF LockDiscipline
  <2>2. ASSUME NEW u \in Threads, pc'[u] \in Critical
        PROVE  mutex'[at'[u]] = u
    <3>1. u # t /\ mutex[at[u]] = u /\ at'[u] = at[u] /\ at[u] \in Cells
      BY <1>1, <2>2 DEF LockDiscipline, TypeOK
    <3> QED BY <1>2, <1>3, <3>1 DEF TypeOK
  <2> QED BY <2>1, <2>2 DEF LockDiscipline
<1>5. \A d \in Cells : Clearing(d)' <=> Clearing(d)
  BY <1>1, <1>2, <1>3 DEF LockDiscipline, Clearing, TypeOK
<1>6. \A d \in Cells : Owns(d)' <=> Owns(d)
  BY <1>2, <1>5 DEF Owns
<1>7. OwnedIsLive' /\ SoleOwner'
  BY <1>2, <1>6 DEF OwnedIsLive, SoleOwner
<1>8. IdleIsOutside' /\ CopyOverNull'
  BY <1>1, <1>2 DEF IdleIsOutside, CopyOverNull, Critical
<1> QED BY <1>4, <1>7, <1>8

\* An application's look at line->pkt under the mutex.
LEMMA QueryStep ==
  ASSUME CacheInv, TypeOK', NEW t \in Threads, ReadQuery(t)
  PROVE  CacheInv'
<1> USE CacheAssumption DEF CacheInv
<1>1. /\ pc[t] = "query" /\ pc' = [pc EXCEPT ![t] = "unlock"]
      /\ UNCHANGED <<op, at, mutex, pkt, heap>>
  BY DEF ReadQuery, Goto, shared
<1>2. LockDiscipline'
  BY <1>1 DEF LockDiscipline, TypeOK, Critical
<1>3. \A d \in Cells : Owns(d)' <=> Owns(d)
  BY <1>1 DEF Owns, Clearing, TypeOK
<1>4. OwnedIsLive' /\ SoleOwner'
  BY <1>1, <1>3 DEF OwnedIsLive, SoleOwner
<1>5. IdleIsOutside' /\ CopyOverNull'
  BY <1>1 DEF IdleIsOutside, CopyOverNull, TypeOK
<1> QED BY <1>2, <1>4, <1>5

\* Every step of the cache preserves the inductive invariant.
LEMMA CacheInvStep == CacheInv /\ [Next]_vars => CacheInv'
<1> SUFFICES ASSUME CacheInv, [Next]_vars PROVE CacheInv'
  OBVIOUS
<1>0. TypeOK' /\ TypeOK
  BY TypeStep DEF CacheInv
<1>1. CASE UNCHANGED vars
  BY <1>1, <1>0 DEF CacheInv, vars, LockDiscipline, IdleIsOutside, CopyOverNull,
     OwnedIsLive, SoleOwner, Owns, Clearing
<1>2. CASE klvanc_cache_alloc
  BY <1>2, <1>0 DEF CacheInv, klvanc_cache_alloc, local, LockDiscipline, IdleIsOutside,
     CopyOverNull, OwnedIsLive, SoleOwner, Owns, Clearing
<1>3. ASSUME NEW t \in Threads, Call(t) PROVE CacheInv'
  <2>1. PICK call \in Ops, step \in {"label", "lock", "entry"}, c \in Cells :
          Begin(t, call, step, c) /\ call # "idle" /\ UNCHANGED shared
    BY <1>3, FirstCell DEF Call, UpdateBegin, ReadBegin, ResetBegin, klvanc_cache_free, Ops
  <2>2. pc[t] = "idle"
    BY <2>1 DEF CacheInv, IdleIsOutside, Begin
  <2>3. /\ pc' = [pc EXCEPT ![t] = step] /\ at' = [at EXCEPT ![t] = c]
        /\ op' = [op EXCEPT ![t] = call] /\ UNCHANGED <<mutex, pkt, heap>>
    BY <2>1 DEF Begin, shared
  <2>4. pc[t] \notin Critical /\ pc'[t] \notin Critical /\ op'[t] # "idle"
    BY <1>0, <2>1, <2>2, <2>3 DEF TypeOK, Critical
  <2> QED BY <1>0, <2>3, <2>4, OutsideStep DEF TypeOK
<1>4. ASSUME NEW t \in Threads, UpdateStep(t), ~UpdateCopy(t) PROVE CacheInv'
  <2>1. /\ pc[t] \notin Critical /\ pc'[t] \notin Critical
        /\ op'[t] = "idle" => pc'[t] = "idle"
        /\ \A u \in Threads \ {t} : pc'[u] = pc[u] /\ at'[u] = at[u] /\ op'[u] = op[u]
        /\ UNCHANGED <<mutex, pkt, heap>>
    <3> USE <1>0 DEF TypeOK, Critical, CacheInv, IdleIsOutside, Goto, Return, shared
    <3>1. CASE UpdateLabel(t)
      BY <3>1 DEF UpdateLabel
    <3>2. CASE UpdateMark(t)
      BY <3>2 DEF UpdateMark
    <3>3. CASE UpdateLoad(t)
      BY <3>3 DEF UpdateLoad
    <3>4. CASE UpdateBump(t)
      BY <3>4 DEF UpdateBump
    <3>5. CASE UpdateCountLoad(t)
      BY <3>5 DEF UpdateCountLoad
    <3>6. CASE UpdateCountStore(t)
      BY <3>6 DEF UpdateCountStore
    <3> QED BY <1>4, <3>1, <3>2, <3>3, <3>4, <3>5, <3>6 DEF UpdateStep
  <2> QED BY <1>0, <2>1, OutsideStep
<1>5. ASSUME NEW t \in Threads, ResetStep(t) PROVE CacheInv'
  <2>1. /\ pc[t] \notin Critical /\ pc'[t] \notin Critical
        /\ op'[t] = "idle" => pc'[t] = "idle"
        /\ \A u \in Threads \ {t} : pc'[u] = pc[u] /\ at'[u] = at[u] /\ op'[u] = op[u]
        /\ UNCHANGED <<mutex, pkt, heap>>
    <3> USE <1>0 DEF TypeOK, Critical, CacheInv, IdleIsOutside, Goto, Return
    <3>1. CASE ResetEntry(t)
      BY <3>1 DEF ResetEntry, ResetNextEntry
    <3>2. CASE ResetZero(t)
      BY <3>2 DEF ResetZero
    <3>3. CASE ResetLine(t)
      BY <3>3 DEF ResetLine, ResetNextLine, ResetNextEntry
    <3>4. CASE ResetUnmark(t)
      BY <3>4 DEF ResetUnmark
    <3>5. CASE ResetUncount(t)
      BY <3>5 DEF ResetUncount
    <3> QED BY <1>5, <3>1, <3>2, <3>3, <3>4, <3>5 DEF ResetStep
  <2> QED BY <1>0, <2>1, OutsideStep
<1>6. ASSUME NEW t \in Threads, LockLine(t) \/ LockedStep(t) \/ UpdateCopy(t) PROVE CacheInv'
  BY <1>0, <1>6, LockStep, DropStep, ClearStep, CopyStep, UnlockStep, QueryStep DEF LockedStep
<1>7. CASE Destroyed
  BY <1>1, <1>7 DEF Destroyed
<1> QED BY <1>1, <1>2, <1>3, <1>4, <1>5, <1>6, <1>7 DEF Next, Step

\* A new context satisfies the invariant.
LEMMA CacheInvInit == Init => CacheInv
<1> SUFFICES ASSUME Init PROVE CacheInv
  OBVIOUS
<1> USE CacheAssumption
<1>1. TypeOK
  BY FirstCell DEF Init, TypeOK, Keys, Lines, Ops, Steps
<1>2. LockDiscipline /\ IdleIsOutside /\ CopyOverNull
  BY DEF Init, LockDiscipline, IdleIsOutside, CopyOverNull, Critical
<1>3. OwnedIsLive /\ SoleOwner
  BY DEF Init, OwnedIsLive, SoleOwner, Owns
<1> QED BY <1>1, <1>2, <1>3 DEF CacheInv

\* The inductive invariant of core-cache.c holds in every reachable state.
THEOREM CacheInvariant == Spec => []CacheInv
  BY CacheInvInit, CacheInvStep, PTL DEF Spec

\* Type correctness of the cache in every reachable state.
THEOREM CacheTypeCorrect == Spec => []TypeOK
<1>1. CacheInv => TypeOK
  BY DEF CacheInv
<1> QED BY <1>1, CacheInvariant, PTL

\* The mutex of a cell gives mutual exclusion for its pkt pointer, and every
\* path through update, reset and query releases it.
THEOREM CacheMutualExclusion == Spec => []LockDiscipline
<1>1. CacheInv => LockDiscipline
  BY DEF CacheInv
<1> QED BY <1>1, CacheInvariant, PTL

\* No interleaving of updates, resets, queries and the final free reads or
\* frees a packet copy that has been freed already.
THEOREM CachePointersLive == Spec => []PointerIsLive
<1>1. CacheInv => PointerIsLive
  <2> SUFFICES ASSUME CacheInv, NEW t \in Threads,
                      pc[t] \in {"query", "drop"}, pkt[at[t]] # NULL
               PROVE  pkt[at[t]] \in heap
    BY DEF PointerIsLive
  <2>1. at[t] \in Cells /\ mutex[at[t]] = t /\ pc[t] # "clear"
    BY DEF CacheInv, TypeOK, LockDiscipline, Critical
  <2>2. Owns(at[t])
    BY <2>1 DEF Owns, Clearing
  <2> QED BY <2>1, <2>2 DEF CacheInv, OwnedIsLive
<1> QED BY <1>1, CacheInvariant, PTL

\* Every live packet copy is owned by exactly one cell, so no copy is lost or
\* shared while the cache exists.
THEOREM CacheSoleOwner == Spec => []SoleOwner
<1>1. CacheInv => SoleOwner
  BY DEF CacheInv
<1> QED BY <1>1, CacheInvariant, PTL

----------------------------------------------------------------------------
(* Arithmetic: induction over the naturals, remainders, and the totals of    *)
(* an entry's lines.                                                        *)

Less == {ss \in Nat \X Nat : ss[1] < ss[2]}

\* Every set of naturals that is not empty has a least element.
LEMMA LeastNatural ==
  ASSUME NEW T \in SUBSET Nat, T # {}
  PROVE  \E n \in T : \A m \in T : n <= m
<1>1. IsWellFoundedOn(Less, Nat)
  BY NatLessThanWellFounded DEF OpToRel, Less
<1>2. PICK n \in T : \A m \in T : ~(<<m, n>> \in Less)
  BY <1>1, WFMin
<1>3. \A m \in T : ~(m < n)
  BY <1>2 DEF Less
<1> QED BY <1>3

\* A set of naturals with 0 and all successors is the set of all naturals.
LEMMA InductiveSet ==
  ASSUME NEW T \in SUBSET Nat, 0 \in T, \A n \in T : n + 1 \in T
  PROVE  T = Nat
<1> SUFFICES ASSUME Nat \ T # {} PROVE FALSE
  OBVIOUS
<1>1. PICK n \in Nat \ T : \A m \in Nat \ T : n <= m
  BY LeastNatural
<1>2. n # 0 /\ n - 1 \in Nat
  BY <1>1
<1>3. n - 1 \in T
  BY <1>1, <1>2
<1>4. (n - 1) + 1 \in T
  BY <1>3
<1> QED BY <1>1, <1>4

\* The running totals of an entry exist: they start at 0 and add one line after the other.
LEMMA SumsExist ==
  ASSUME NEW c \in [Keys \X Lines -> Nat], NEW k \in Keys
  PROVE  LET s == LineSums(c, k) IN
           /\ s \in [0 .. NLines -> Nat] /\ s[0] = 0
           /\ \A n \in 1 .. NLines : s[n] = c[<<k, n - 1>>] + s[n - 1]
<1> DEFINE Ok(g, m) == /\ g \in [0 .. m -> Nat] /\ g[0] = 0
                       /\ \A n \in 1 .. m : g[n] = c[<<k, n - 1>>] + g[n - 1]
           T == {m \in Nat : m <= NLines => \E g : Ok(g, m)}
<1>0. NLines \in Nat
  BY CacheAssumption
<1>1. 0 \in T
  <2>1. Ok([n \in 0 .. 0 |-> 0], 0)
    OBVIOUS
  <2> QED BY <2>1
<1>2. ASSUME NEW m \in T PROVE m + 1 \in T
  <2> SUFFICES ASSUME m + 1 <= NLines PROVE \E g : Ok(g, m + 1)
    OBVIOUS
  <2>1. PICK g : Ok(g, m)
    BY <1>0
  <2> DEFINE h == [n \in 0 .. m + 1 |-> IF n <= m THEN g[n] ELSE c[<<k, m>>] + g[m]]
  <2>2. m \in Lines /\ c[<<k, m>>] \in Nat
    BY <1>0 DEF Lines
  <2>3. h \in [0 .. m + 1 -> Nat]
    BY <2>1, <2>2
  <2>4. h[0] = 0
    BY <2>1
  <2>5. ASSUME NEW n \in 1 .. m + 1 PROVE h[n] = c[<<k, n - 1>>] + h[n - 1]
    <3>1. CASE n <= m
      <4>1. h[n] = g[n] /\ h[n - 1] = g[n - 1] /\ n \in 1 .. m
        BY <3>1
      <4> QED BY <2>1, <4>1
    <3>2. CASE n = m + 1
      <4>1. n - 1 = m /\ n \in 0 .. m + 1 /\ ~(n <= m) /\ m \in 0 .. m + 1 /\ m <= m
        BY <3>2
      <4>2. h[n] = c[<<k, m>>] + g[m] /\ h[m] = g[m]
        BY <4>1
      <4> QED BY <4>1, <4>2
    <3> QED BY <3>1, <3>2
  <2> HIDE DEF h
  <2>6. Ok(h, m + 1)
    BY <2>3, <2>4, <2>5
  <2> QED BY <2>6
<1> HIDE DEF Ok
<1>3. NLines \in T
  <2> HIDE DEF T
  <2>1. T \in SUBSET Nat
    BY DEF T
  <2> QED BY <1>0, <1>1, <1>2, <2>1, InductiveSet
<1>4. PICK g : Ok(g, NLines)
  BY <1>0, <1>3
<1> DEFINE F(f) == [n \in 0 .. NLines |-> IF n = 0 THEN 0 ELSE c[<<k, n - 1>>] + f[n - 1]]
<1>5. g = F(g)
  <2>1. g \in [0 .. NLines -> Nat] /\ g[0] = 0
        /\ \A n \in 1 .. NLines : g[n] = c[<<k, n - 1>>] + g[n - 1]
    BY <1>4 DEF Ok
  <2>2. \A n \in 0 .. NLines : g[n] = F(g)[n]
    BY <1>0, <2>1
  <2> QED BY <2>1, <2>2
<1>6. LineSums(c, k) = CHOOSE f : f = F(f)
  BY DEF LineSums
<1> DEFINE s == LineSums(c, k)
<1> HIDE DEF F, s
<1>11. s = F(s)
  BY <1>5, <1>6, Zenon DEF s
<1>7. s = [n \in 0 .. NLines |-> IF n = 0 THEN 0 ELSE c[<<k, n - 1>>] + s[n - 1]]
  BY <1>11 DEF F
<1>8. /\ DOMAIN s = 0 .. NLines /\ s[0] = 0
      /\ \A n \in 1 .. NLines : s[n] = c[<<k, n - 1>>] + s[n - 1]
  BY <1>0, <1>7
<1>9. \A n \in 0 .. NLines : s[n] \in Nat
  <2> DEFINE U == {n \in Nat : n <= NLines => s[n] \in Nat}
  <2>1. 0 \in U
    BY <1>8
  <2>2. ASSUME NEW n \in U PROVE n + 1 \in U
    <3> SUFFICES ASSUME n + 1 <= NLines PROVE s[n + 1] \in Nat
      OBVIOUS
    <3>1. n + 1 \in 1 .. NLines /\ (n + 1) - 1 = n /\ n \in Lines /\ n <= NLines
      BY <1>0 DEF Lines
    <3>2. s[n + 1] = c[<<k, n>>] + s[n]
      BY <1>8, <3>1
    <3> QED BY <3>1, <3>2
  <2>3. U \in SUBSET Nat
    OBVIOUS
  <2> HIDE DEF U
  <2>4. U = Nat
    BY <2>1, <2>2, <2>3, InductiveSet
  <2> QED BY <1>0, <2>4 DEF U
<1>10. s \in [0 .. NLines -> Nat]
  <2>1. s = [n \in 0 .. NLines |-> s[n]]
    BY <1>7
  <2> QED BY <1>9, <2>1
<1> QED BY <1>8, <1>10 DEF s

\* Storing into one line changes the total of its entry by the difference.
LEMMA SumOfChange ==
  ASSUME NEW c \in [Keys \X Lines -> Nat], NEW d \in [Keys \X Lines -> Nat],
         NEW k \in Keys, NEW l \in Lines,
         \A b \in Lines : b # l => d[<<k, b>>] = c[<<k, b>>]
  PROVE  LineSums(d, k)[NLines] = LineSums(c, k)[NLines] - c[<<k, l>>] + d[<<k, l>>]
<1> DEFINE s == LineSums(c, k)
           r == LineSums(d, k)
           want(n) == IF l < n THEN s[n] - c[<<k, l>>] + d[<<k, l>>] ELSE s[n]
           T == {n \in Nat : n <= NLines => r[n] = want(n)}
<1>0. NLines \in Nat /\ l \in Nat /\ l < NLines
  BY CacheAssumption DEF Lines
<1>1. /\ s \in [0 .. NLines -> Nat] /\ s[0] = 0
      /\ \A n \in 1 .. NLines : s[n] = c[<<k, n - 1>>] + s[n - 1]
  BY SumsExist
<1>2. /\ r \in [0 .. NLines -> Nat] /\ r[0] = 0
      /\ \A n \in 1 .. NLines : r[n] = d[<<k, n - 1>>] + r[n - 1]
  BY SumsExist
<1> HIDE DEF s, r
<1>3. 0 \in T
  BY <1>0, <1>1, <1>2
<1>4. ASSUME NEW n \in T PROVE n + 1 \in T
  <2> SUFFICES ASSUME n + 1 <= NLines PROVE r[n + 1] = want(n + 1)
    OBVIOUS
  <2>1. n \in Lines /\ n + 1 \in 1 .. NLines /\ (n + 1) - 1 = n /\ n \in 0 .. NLines
    BY <1>0 DEF Lines
  <2>2. r[n] = want(n) /\ s[n] \in Nat
    BY <1>1, <1>4, <2>1
  <2>3. c[<<k, n>>] \in Nat /\ c[<<k, l>>] \in Nat /\ d[<<k, l>>] \in Nat
    BY <2>1
  <2>4. r[n + 1] = d[<<k, n>>] + r[n] /\ s[n + 1] = c[<<k, n>>] + s[n]
    BY <1>1, <1>2, <2>1
  <2>5. d[<<k, n>>] = IF n = l THEN d[<<k, l>>] ELSE c[<<k, n>>]
    BY <2>1
  <2> QED BY <1>0, <2>1, <2>2, <2>3, <2>4, <2>5
<1>5. T \in SUBSET Nat
  OBVIOUS
<1> HIDE DEF T
<1>6. NLines \in T
  BY <1>0, <1>3, <1>4, <1>5, InductiveSet
<1> QED BY <1>0, <1>6 DEF T, s, r

\* An entry whose lines are the same has the same total.
LEMMA SumOfSame ==
  ASSUME NEW c \in [Keys \X Lines -> Nat], NEW d \in [Keys \X Lines -> Nat],
         NEW k \in Keys, \A b \in Lines : d[<<k, b>>] = c[<<k, b>>]
  PROVE  LineSums(d, k)[NLines] = LineSums(c, k)[NLines]
<1>1. 0 \in Lines /\ NLines \in 0 .. NLines
  BY CacheAssumption DEF Lines
<1>2. LineSums(d, k)[NLines] = LineSums(c, k)[NLines] - c[<<k, 0>>] + d[<<k, 0>>]
  BY <1>1, SumOfChange
<1>3. c[<<k, 0>>] \in Nat /\ d[<<k, 0>>] = c[<<k, 0>>]
  BY <1>1
<1>4. LineSums(c, k)[NLines] \in Nat
  <2>1. LineSums(c, k) \in [0 .. NLines -> Nat]
    BY SumsExist
  <2> QED BY <1>1, <2>1
<1> QED BY <1>2, <1>3, <1>4

\* The total of an entry is at least the count of each line, and at most
\* NLines * b when no count exceeds b.
LEMMA SumBounds ==
  ASSUME NEW c \in [Keys \X Lines -> Nat], NEW k \in Keys, NEW b \in Nat,
         \A l \in Lines : c[<<k, l>>] <= b
  PROVE  /\ LineSums(c, k)[NLines] \in Nat
         /\ \A l \in Lines : c[<<k, l>>] <= LineSums(c, k)[NLines]
         /\ LineSums(c, k)[NLines] <= NLines * b
<1> DEFINE s == LineSums(c, k)
           T == {n \in Nat : n <= NLines => /\ s[n] <= n * b
                                            /\ \A l \in Lines : l < n => c[<<k, l>>] <= s[n]}
<1>0. NLines \in Nat
  BY CacheAssumption
<1>3. /\ s \in [0 .. NLines -> Nat] /\ s[0] = 0
      /\ \A n \in 1 .. NLines : s[n] = c[<<k, n - 1>>] + s[n - 1]
  BY SumsExist
<1> HIDE DEF s
<1>5. 0 \in T
  BY <1>0, <1>3 DEF Lines
<1>6. ASSUME NEW n \in T PROVE n + 1 \in T
  <2> SUFFICES ASSUME n + 1 <= NLines
               PROVE  /\ s[n + 1] <= (n + 1) * b
                      /\ \A l \in Lines : l < n + 1 => c[<<k, l>>] <= s[n + 1]
    OBVIOUS
  <2>1. n \in Lines /\ n + 1 \in 1 .. NLines /\ (n + 1) - 1 = n /\ n \in 0 .. NLines
    BY <1>0 DEF Lines
  <2>2. /\ s[n] <= n * b /\ s[n] \in Nat /\ c[<<k, n>>] \in Nat /\ c[<<k, n>>] <= b
        /\ \A l \in Lines : l < n => c[<<k, l>>] <= s[n]
    BY <1>3, <2>1
  <2>3. s[n + 1] = c[<<k, n>>] + s[n]
    BY <1>3, <2>1
  <2>4. (n + 1) * b = n * b + b /\ n * b \in Nat
    OBVIOUS
  <2>5. s[n + 1] <= (n + 1) * b
    BY <2>2, <2>3, <2>4
  <2>6. ASSUME NEW l \in Lines, l < n + 1 PROVE c[<<k, l>>] <= s[n + 1]
    <3>1. CASE l = n
      BY <2>2, <2>3, <3>1
    <3>2. CASE l < n
      <4>1. c[<<k, l>>] \in Nat
        OBVIOUS
      <4> QED BY <2>2, <2>3, <3>2, <4>1
    <3> QED BY <2>6, <3>1, <3>2 DEF Lines
  <2> QED BY <2>5, <2>6
<1>7. T \in SUBSET Nat
  OBVIOUS
<1> HIDE DEF T
<1>8. NLines \in T
  BY <1>0, <1>5, <1>6, <1>7, InductiveSet
<1> QED BY <1>0, <1>3, <1>8 DEF T, s, Lines

\* The total is 0 exactly when nothing was counted.
LEMMA SumOfNone ==
  ASSUME NEW c \in [Keys \X Lines -> Nat], NEW k \in Keys, \A l \in Lines : c[<<k, l>>] = 0
  PROVE  LineSums(c, k)[NLines] = 0
<1>1. LineSums(c, k)[NLines] \in Nat /\ LineSums(c, k)[NLines] <= NLines * 0
  <2>1. 0 \in Nat /\ \A l \in Lines : c[<<k, l>>] <= 0
    OBVIOUS
  <2> QED BY <2>1, SumBounds
<1>2. NLines * 0 = 0
  BY CacheAssumption
<1> QED BY <1>1, <1>2

\* Counting modulo M: to add one and cut is to cut, add one and cut.
LEMMA ModEq ==
  ASSUME NEW q \in Nat, NEW r \in Nat, NEW M \in Nat, r < M
  PROVE  (q * M + r) % M = r
  OBVIOUS

LEMMA DivMod ==
  ASSUME NEW a \in Nat, NEW M \in Nat, M > 0
  PROVE  a = (a \div M) * M + (a % M) /\ a % M \in 0 .. M - 1 /\ a \div M \in Nat
  OBVIOUS

LEMMA ModNext ==
  ASSUME NEW a \in Nat, NEW M \in Nat, M > 1
  PROVE  ((a % M) + 1) % M = (a + 1) % M
<1>1. PICK q \in Nat, r \in 0 .. M-1 : a = q * M + r /\ r = a % M
  BY DivMod
<1>2. CASE r + 1 < M
  <2>1. (a+1) = q * M + (r+1) /\ r + 1 \in Nat
    BY <1>1
  <2>2. (q * M + (r+1)) % M = r+1
    BY <1>2, <2>1, ModEq
  <2>3. (0 * M + (r+1)) % M = r + 1
    BY <1>2, <2>1, ModEq
  <2>4. 0 * M + (r+1) = r + 1
    BY <2>1
  <2> QED BY <1>1, <2>1, <2>2, <2>3, <2>4
<1>3. CASE r + 1 = M
  <2>1. (a+1) = (q + 1) * M + 0 /\ q + 1 \in Nat
    BY <1>1, <1>3
  <2>2. ((q+1) * M + 0) % M = 0
    BY <2>1, ModEq
  <2>3. (1 * M + 0) % M = 0
    BY ModEq
  <2>4. 1 * M + 0 = r + 1
    BY <1>3
  <2> QED BY <1>1, <2>1, <2>2, <2>3, <2>4
<1> QED BY <1>1, <1>2, <1>3

----------------------------------------------------------------------------
(* Sequential use: one thread t parses, queries, resets and destroys.  What *)
(* is true at each step of its calls.                                       *)

\* Steps between activeCount++ and count++ of an update, and between
\* e->activeCount = 0 and the end of the entry's lines of a reset.
BumpedSteps == {"lock", "drop", "clear", "copy", "unlock", "cload", "cstore"}
ZeroedSteps == {"line", "unmark", "uncount", "lock", "drop", "clear", "unlock"}

Resets    == {"reset", "free"}
Bumped(t) == op[t] = "update" /\ pc[t] \in BumpedSteps
Zeroed(t) == op[t] \in Resets /\ pc[t] \in ZeroedSteps

\* Each call is at one of its steps, and what it loaded is still there.
ControlInv(t) ==
  /\ op[t] = "idle" <=> pc[t] = "idle"
  /\ op[t] = "update" => pc[t] \in {"label", "mark", "load", "bump"} \cup BumpedSteps
  /\ op[t] = "read" => pc[t] \in {"lock", "query", "unlock"}
  /\ op[t] \in Resets => pc[t] \in {"entry", "zero"} \cup ZeroedSteps
  /\ pc[t] \in {"entry", "zero"} => at[t][2] = 0
  /\ pc[t] = "bump" => tmp[t] = activeCount[at[t][1]]
  /\ pc[t] = "cstore" => tmp[t] = count[at[t]]

\* The total of an entry agrees with its lines but for the update or reset
\* that is under way.
TotalInv(t) ==
  \A k \in Keys :
    activeCount[k] = IF at[t][1] = k /\ Bumped(t) THEN (UpdatesOf(k) + 1) % CountModulus
                     ELSE IF at[t][1] = k /\ Zeroed(t) THEN 0
                     ELSE UpdatesOf(k) % CountModulus

\* A line is active exactly when updates were counted on it, and only then
\* holds a packet.
LineAgrees(c) == (active[c] <=> count[c] > 0) /\ (pkt[c] # NULL => active[c])

\* The thread has not begun to change the line it is at.
Untouched(t) ==
  op[t] \in {"idle", "read"} \/ pc[t] \in {"label", "mark", "entry", "zero", "line", "unmark"}

\* The lines agree but for the one the thread is changing.
LinesInv(t) ==
  /\ \A c \in Cells : count[c] > 0 => labelled[c[1]]
  /\ \A c \in Cells : c # at[t] \/ Untouched(t) => LineAgrees(c)
  /\ op[t] = "update" /\ pc[t] # "label" => labelled[at[t][1]]
  /\ op[t] = "update" /\ pc[t] \notin {"label", "mark"} => active[at[t]]
  /\ pc[t] = "unmark" => active[at[t]]
  /\ Zeroed(t) /\ pc[t] \notin {"line", "unmark"} => ~active[at[t]]
  /\ Zeroed(t) /\ pc[t] \notin {"line", "unmark", "uncount"} => count[at[t]] = 0
  /\ Zeroed(t) /\ pc[t] = "unlock" => pkt[at[t]] = NULL
  /\ Zeroed(t) => \A l \in Lines : l < at[t][2] => count[<<at[t][1], l>>] = 0

SeqInv(t) == TypeOK /\ ControlInv(t) /\ TotalInv(t) /\ LinesInv(t)

\* A cell is the pair of its entry and its line.
LEMMA CellPair ==
  ASSUME TypeOK, NEW t \in Threads
  PROVE  /\ at[t] \in Cells /\ at[t][1] \in Keys /\ at[t][2] \in Lines
         /\ at[t] = <<at[t][1], at[t][2]>>
  BY DEF TypeOK

\* The total of an entry is a number, and 0 when nothing was counted on it.
LEMMA UpdatesTyped ==
  ASSUME TypeOK, NEW k \in Keys
  PROVE  /\ UpdatesOf(k) \in Nat
         /\ (\A l \in Lines : count[<<k, l>>] = 0) => UpdatesOf(k) = 0
<1>1. count \in [Keys \X Lines -> Nat]
  BY DEF TypeOK
<1>2. UpdatesOf(k) \in Nat
  <2>1. LineSums(count, k) \in [0 .. NLines -> Nat]
    BY <1>1, SumsExist
  <2> QED BY <2>1, CacheAssumption DEF UpdatesOf
<1> QED BY <1>1, <1>2, SumOfNone DEF UpdatesOf

\* Totals in a step that leaves both counters alone.
LEMMA TotalKept ==
  ASSUME NEW t, TotalInv(t), UNCHANGED <<activeCount, count>>, at'[t][1] = at[t][1],
         Bumped(t)' <=> Bumped(t), Zeroed(t)' <=> Zeroed(t)
  PROVE  TotalInv(t)'
<1>1. \A k \in Keys : UpdatesOf(k)' = UpdatesOf(k)
  BY DEF UpdatesOf
<1> QED BY <1>1 DEF TotalInv

\* klvanc_cache_update up to the total, and its last two steps.
LEMMA UpdateSeq ==
  ASSUME NEW t, Threads = {t}, SeqInv(t), TypeOK', UpdateStep(t)
  PROVE  SeqInv(t)'
<1> USE DEF SeqInv, BumpedSteps, ZeroedSteps, Resets
<1>0. TypeOK /\ t \in Threads /\ CountModulus \in Nat /\ CountModulus > 1
  BY CacheAssumption
<1>c. /\ at[t] \in Cells /\ at[t][1] \in Keys /\ at[t][2] \in Lines
      /\ at[t] = <<at[t][1], at[t][2]>>
  BY <1>0, CellPair
<1>o. op[t] \in Ops /\ pc[t] \in Steps
  BY <1>0 DEF TypeOK
<1>1. CASE UpdateLabel(t)
  <2>1. /\ pc[t] = "label" /\ pc'[t] = "mark" /\ op' = op /\ at' = at /\ tmp' = tmp
        /\ op[t] = "update"
        /\ UNCHANGED <<cache, activeCount, active, count, mutex, pkt, heap>>
        /\ labelled' = IF activeCount[at[t][1]] = 0 THEN [labelled EXCEPT ![at[t][1]] = TRUE]
                                                    ELSE labelled
    BY <1>0, <1>1, <1>o DEF UpdateLabel, Goto, ControlInv, Ops, TypeOK
  <2>2. labelled'[at[t][1]]
    <3> DEFINE k == at[t][1]
    <3>1. CASE activeCount[k] = 0
      BY <1>0, <1>c, <2>1, <3>1 DEF TypeOK
    <3>2. CASE activeCount[k] # 0
      <4>1. UpdatesOf(k) # 0
        <5>1. activeCount[k] = UpdatesOf(k) % CountModulus
          BY <1>c, <2>1 DEF TotalInv, Bumped, Zeroed
        <5>2. 0 % CountModulus = 0
          BY <1>0
        <5> QED BY <3>2, <5>1, <5>2
      <4>2. PICK l \in Lines : count[<<k, l>>] # 0
        BY <1>0, <1>c, <4>1, UpdatesTyped
      <4>3. <<k, l>> \in Cells /\ count[<<k, l>>] > 0
        BY <1>0, <1>c, <4>2 DEF TypeOK
      <4>4. labelled[<<k, l>>[1]]
        BY <4>3 DEF LinesInv
      <4> QED BY <2>1, <3>2, <4>4
    <3> QED BY <3>1, <3>2
  <2>3. \A k \in Keys : labelled[k] => labelled'[k]
    BY <1>0, <2>1 DEF TypeOK
  <2>4. ControlInv(t)'
    BY <2>1 DEF ControlInv
  <2>5. TotalInv(t)'
    BY <2>1, TotalKept DEF Bumped, Zeroed
  <2>6. LinesInv(t)'
    BY <2>1, <2>2, <2>3 DEF LinesInv, Untouched, Zeroed, LineAgrees
  <2> QED BY <2>4, <2>5, <2>6
<1>2. CASE UpdateMark(t)
  <2>1. /\ pc[t] = "mark" /\ pc'[t] = "load" /\ op' = op /\ at' = at /\ tmp' = tmp
        /\ op[t] = "update"
        /\ UNCHANGED <<cache, activeCount, labelled, count, mutex, pkt, heap>>
        /\ active' = [active EXCEPT ![at[t]] = TRUE]
    BY <1>0, <1>2, <1>o DEF UpdateMark, Goto, ControlInv, Ops, TypeOK
  <2>2. active'[at[t]] /\ \A c \in Cells : c # at[t] => active'[c] = active[c]
    BY <1>0, <1>c, <2>1 DEF TypeOK
  <2>4. ControlInv(t)'
    BY <2>1 DEF ControlInv
  <2>5. TotalInv(t)'
    BY <2>1, TotalKept DEF Bumped, Zeroed
  <2>6. LinesInv(t)'
    BY <2>1, <2>2 DEF LinesInv, Untouched, Zeroed, LineAgrees
  <2> QED BY <2>4, <2>5, <2>6
<1>3. CASE UpdateLoad(t)
  <2>1. /\ pc[t] = "load" /\ pc'[t] = "bump" /\ op' = op /\ at' = at
        /\ tmp'[t] = activeCount[at[t][1]] /\ op[t] = "update"
        /\ UNCHANGED <<cache, activeCount, labelled, active, count, mutex, pkt, heap>>
    BY <1>0, <1>3, <1>o DEF UpdateLoad, shared, ControlInv, Ops, TypeOK
  <2>4. ControlInv(t)'
    BY <2>1 DEF ControlInv
  <2>5. TotalInv(t)'
    BY <2>1, TotalKept DEF Bumped, Zeroed
  <2>6. LinesInv(t)'
    BY <2>1 DEF LinesInv, Untouched, Zeroed, LineAgrees
  <2> QED BY <2>4, <2>5, <2>6
<1>4. CASE UpdateBump(t)
  <2>1. /\ pc[t] = "bump" /\ pc'[t] = "lock" /\ op' = op /\ at' = at
        /\ tmp[t] = activeCount[at[t][1]] /\ op[t] = "update"
        /\ UNCHANGED <<cache, labelled, active, count, mutex, pkt, heap>>
        /\ activeCount' = [activeCount EXCEPT ![at[t][1]] = (tmp[t] + 1) % CountModulus]
    BY <1>0, <1>4, <1>o DEF UpdateBump, Goto, ControlInv, Ops, TypeOK
  <2>4. ControlInv(t)'
    BY <2>1 DEF ControlInv
  <2>5. TotalInv(t)'
    <3> SUFFICES ASSUME NEW k \in Keys
                 PROVE  activeCount'[k] = IF at[t][1] = k THEN (UpdatesOf(k) + 1) % CountModulus
                                          ELSE UpdatesOf(k) % CountModulus
      BY <2>1 DEF TotalInv, Bumped, Zeroed, UpdatesOf
    <3>1. activeCount[k] = UpdatesOf(k) % CountModulus /\ UpdatesOf(k) \in Nat
      BY <1>0, <2>1, UpdatesTyped DEF TotalInv, Bumped, Zeroed
    <3>2. ((UpdatesOf(k) % CountModulus) + 1) % CountModulus = (UpdatesOf(k) + 1) % CountModulus
      BY <1>0, <3>1, ModNext
    <3> QED BY <1>0, <1>c, <2>1, <3>1, <3>2 DEF TypeOK
  <2>6. LinesInv(t)'
    BY <2>1 DEF LinesInv, Untouched, Zeroed, LineAgrees
  <2> QED BY <2>4, <2>5, <2>6
<1>5. CASE UpdateCopy(t)
  <2>1. /\ pc[t] = "copy" /\ pc'[t] = "unlock" /\ op' = op /\ at' = at /\ op[t] = "update"
        /\ UNCHANGED <<cache, activeCount, labelled, active, count, mutex>>
        /\ \A c \in Cells : c # at[t] => pkt'[c] = pkt[c]
    BY <1>0, <1>5, <1>o DEF UpdateCopy, Goto, ControlInv, Ops, TypeOK
  <2>4. ControlInv(t)'
    BY <2>1 DEF ControlInv
  <2>5. TotalInv(t)'
    BY <2>1, TotalKept DEF Bumped, Zeroed
  <2>6. LinesInv(t)'
    BY <2>1 DEF LinesInv, Untouched, Zeroed, LineAgrees
  <2> QED BY <2>4, <2>5, <2>6
<1>6. CASE UpdateCountLoad(t)
  <2>1. /\ pc[t] = "cload" /\ pc'[t] = "cstore" /\ op' = op /\ at' = at
        /\ tmp'[t] = count[at[t]] /\ op[t] = "update"
        /\ UNCHANGED <<cache, activeCount, labelled, active, count, mutex, pkt, heap>>
    BY <1>0, <1>6, <1>o DEF UpdateCountLoad, shared, ControlInv, Ops, TypeOK
  <2>4. ControlInv(t)'
    BY <2>1 DEF ControlInv
  <2>5. TotalInv(t)'
    BY <2>1, TotalKept DEF Bumped, Zeroed
  <2>6. LinesInv(t)'
    BY <2>1 DEF LinesInv, Untouched, Zeroed, LineAgrees
  <2> QED BY <2>4, <2>5, <2>6
<1>7. CASE UpdateCountStore(t)
  <2>1. /\ pc[t] = "cstore" /\ pc'[t] = "idle" /\ op'[t] = "idle" /\ at' = at
        /\ tmp[t] = count[at[t]] /\ op[t] = "update"
        /\ UNCHANGED <<cache, activeCount, labelled, active, mutex, pkt, heap>>
        /\ count' = [count EXCEPT ![at[t]] = tmp[t] + 1]
    BY <1>0, <1>7, <1>o DEF UpdateCountStore, Return, ControlInv, Ops, TypeOK
  <2> DEFINE k == at[t][1]
             l == at[t][2]
             v == count[<<k, l>>] + 1
  <2>2. count \in [Keys \X Lines -> Nat] /\ v \in Nat /\ count' = [count EXCEPT ![<<k, l>>] = v]
    BY <1>0, <1>c, <2>1 DEF TypeOK
  <2>3. /\ count'[at[t]] = count[at[t]] + 1 /\ count[at[t]] \in Nat
        /\ \A c \in Cells : c # at[t] => count'[c] = count[c]
    BY <1>0, <1>c, <2>1 DEF TypeOK
  <2>4. ControlInv(t)'
    BY <2>1 DEF ControlInv
  <2>5. TotalInv(t)'
    <3> SUFFICES ASSUME NEW j \in Keys
                 PROVE  activeCount[j] = UpdatesOf(j)' % CountModulus
      BY <2>1 DEF TotalInv, Bumped, Zeroed
    <3>1. activeCount[j] = IF j = k THEN (UpdatesOf(j) + 1) % CountModulus
                           ELSE UpdatesOf(j) % CountModulus
      BY <2>1 DEF TotalInv, Bumped, Zeroed
    <3>2. UpdatesOf(j)' = IF j = k THEN UpdatesOf(j) - count[<<k, l>>] + v ELSE UpdatesOf(j)
      <4>1. /\ count \in [Keys \X Lines -> Nat] /\ count' \in [Keys \X Lines -> Nat]
            /\ k \in Keys /\ l \in Lines
            /\ \A b \in Lines : b # l => count'[<<k, b>>] = count[<<k, b>>]
            /\ count'[<<k, l>>] = v
            /\ j # k => \A b \in Lines : count'[<<j, b>>] = count[<<j, b>>]
        BY <1>c, <2>2
      <4> HIDE DEF v, k, l
      <4>2. LineSums(count', k)[NLines] =
              LineSums(count, k)[NLines] - count[<<k, l>>] + count'[<<k, l>>]
        BY <4>1, SumOfChange
      <4>3. ASSUME j # k PROVE LineSums(count', j)[NLines] = LineSums(count, j)[NLines]
        BY <4>1, <4>3, SumOfSame
      <4> QED BY <4>1, <4>2, <4>3 DEF UpdatesOf
    <3>3. UpdatesOf(j) \in Nat /\ count[<<k, l>>] \in Nat
      BY <1>0, <1>c, <2>2, UpdatesTyped
    <3>4. UpdatesOf(j) - count[<<k, l>>] + v = UpdatesOf(j) + 1
      BY <3>3
    <3> QED BY <3>1, <3>2, <3>4
  <2>6. LinesInv(t)'
    BY <1>c, <2>1, <2>3 DEF LinesInv, Untouched, Zeroed, LineAgrees
  <2> QED BY <2>4, <2>5, <2>6
<1> QED BY <1>1, <1>2, <1>3, <1>4, <1>5, <1>6, <1>7 DEF UpdateStep

\* Between the lines of a reset, or after its last one, all lines agree with the
\* totals again.
LEMMA NextEntrySeq ==
  ASSUME NEW t, Threads = {t}, TypeOK, op[t] \in Resets,
         \A k \in Keys : activeCount[k] = UpdatesOf(k) % CountModulus,
         \A c \in Cells : LineAgrees(c) /\ (count[c] > 0 => labelled[c[1]]),
         ResetNextEntry(t), UNCHANGED <<activeCount, labelled, active, count, pkt>>
  PROVE  ControlInv(t)' /\ TotalInv(t)' /\ LinesInv(t)'
<1> USE DEF BumpedSteps, ZeroedSteps, Resets
<1>1. t \in Threads /\ at[t][1] \in Keys /\ at[t] \in Cells
  BY CellPair
<1>2. \/ pc'[t] = "entry" /\ op'[t] = op[t] /\ at'[t] = <<at[t][1] + 1, 0>>
      \/ pc'[t] = "idle" /\ op'[t] = "idle" /\ at'[t] = at[t]
  BY <1>1 DEF ResetNextEntry, Return, TypeOK
<1>3. ~Bumped(t)' /\ ~Zeroed(t)'
  BY <1>2 DEF Bumped, Zeroed
<1>4. ControlInv(t)'
  <2>1. <<at[t][1] + 1, 0>>[2] = 0
    OBVIOUS
  <2> QED BY <1>2, <2>1 DEF ControlInv
<1>5. TotalInv(t)'
  BY <1>3 DEF TotalInv, UpdatesOf
<1>6. \A c \in Cells : LineAgrees(c)' /\ (count[c] > 0 => labelled[c[1]])'
  BY DEF LineAgrees
<1>7. LinesInv(t)'
  BY <1>2, <1>3, <1>6 DEF LinesInv, Zeroed
<1> QED BY <1>4, <1>5, <1>7

\* The next line of an entry, when the line at hand is empty.
LEMMA NextLineSeq ==
  ASSUME NEW t, Threads = {t}, SeqInv(t), Zeroed(t), LineAgrees(at[t]), count[at[t]] = 0,
         ResetNextLine(t), UNCHANGED <<activeCount, labelled, active, count, pkt>>
  PROVE  ControlInv(t)' /\ TotalInv(t)' /\ LinesInv(t)'
<1> USE DEF BumpedSteps, ZeroedSteps, Resets
<1> DEFINE k == at[t][1]
           l == at[t][2]
<1>1. TypeOK /\ t \in Threads /\ k \in Keys /\ l \in Lines /\ at[t] \in Cells /\ at[t] = <<k, l>>
  BY CellPair DEF SeqInv
<1>2. op[t] \in Resets /\ ~Bumped(t)
  BY DEF Zeroed, Bumped
<1>3. \A c \in Cells : LineAgrees(c) /\ (count[c] > 0 => labelled[c[1]])
  BY DEF SeqInv, LinesInv
<1>4. \A m \in Lines : m < l + 1 => count[<<k, m>>] = 0
  <2> SUFFICES ASSUME NEW m \in Lines, m < l + 1 PROVE count[<<k, m>>] = 0
    OBVIOUS
  <2>1. CASE m = l
    BY <1>1, <2>1
  <2>2. CASE m < l
    BY <2>2 DEF SeqInv, LinesInv
  <2> QED BY <1>1, <2>1, <2>2 DEF Lines
<1>5. CASE l + 1 < NLines
  <2>1. /\ at' = [at EXCEPT ![t] = <<k, l + 1>>] /\ pc' = [pc EXCEPT ![t] = "line"]
        /\ op' = op
    BY <1>5 DEF ResetNextLine
  <2>2. at'[t] = <<k, l + 1>> /\ pc'[t] = "line" /\ op'[t] = op[t]
    BY <1>1, <2>1 DEF TypeOK
  <2>3. at'[t][1] = k /\ at'[t][2] = l + 1 /\ Zeroed(t)' /\ ~Bumped(t)'
    BY <1>2, <2>2 DEF Zeroed, Bumped
  <2>4. ControlInv(t)'
    BY <1>2, <2>2 DEF ControlInv
  <2>5. TotalInv(t)'
    BY <1>2, <2>3, TotalKept DEF SeqInv
  <2>6. \A c \in Cells : LineAgrees(c)' /\ (count[c] > 0 => labelled[c[1]])'
    BY <1>3 DEF LineAgrees
  <2>7. LinesInv(t)'
    BY <1>2, <1>4, <2>2, <2>3, <2>6 DEF LinesInv
  <2> QED BY <2>4, <2>5, <2>7
<1>6. CASE ~(l + 1 < NLines)
  <2>1. ResetNextEntry(t)
    BY <1>6 DEF ResetNextLine
  <2>2. \A m \in Lines : count[<<k, m>>] = 0
    BY <1>1, <1>4, <1>6, CacheAssumption DEF Lines
  <2>3. UpdatesOf(k) = 0
    BY <1>1, <2>2, UpdatesTyped
  <2>4. 0 % CountModulus = 0
    BY CacheAssumption
  <2>5. \A j \in Keys : activeCount[j] = UpdatesOf(j) % CountModulus
    BY <1>2, <2>3, <2>4 DEF SeqInv, TotalInv
  <2> QED BY <1>1, <1>2, <1>3, <2>1, <2>5, NextEntrySeq
<1> QED BY <1>5, <1>6

\* The loops of klvanc_cache_reset up to the lock of a line.
LEMMA ResetSeq ==
  ASSUME NEW t, Threads = {t}, SeqInv(t), TypeOK', ResetStep(t)
  PROVE  SeqInv(t)'
<1> USE DEF BumpedSteps, ZeroedSteps, Resets
<1>0. TypeOK /\ ControlInv(t) /\ TotalInv(t) /\ LinesInv(t) /\ t \in Threads
  BY DEF SeqInv
<1>c. /\ at[t] \in Cells /\ at[t][1] \in Keys /\ at[t][2] \in Lines
      /\ at[t] = <<at[t][1], at[t][2]>>
  BY <1>0, CellPair
<1>o. op[t] \in Ops /\ pc[t] \in Steps
  BY <1>0 DEF TypeOK
<1>1. CASE ResetEntry(t)
  <2>1. /\ pc[t] = "entry" /\ op[t] \in Resets /\ ~Bumped(t) /\ ~Zeroed(t)
        /\ UNCHANGED <<activeCount, labelled, active, count, mutex, pkt, heap>>
    BY <1>0, <1>1, <1>o DEF ResetEntry, ControlInv, Ops, Bumped, Zeroed
  <2>2. \A c \in Cells : LineAgrees(c) /\ (count[c] > 0 => labelled[c[1]])
    BY <1>0, <2>1 DEF LinesInv, Untouched
  <2>3. \A k \in Keys : activeCount[k] = UpdatesOf(k) % CountModulus
    BY <1>0, <2>1 DEF TotalInv
  <2>4. CASE ResetNextEntry(t)
    BY <1>0, <2>1, <2>2, <2>3, <2>4, NextEntrySeq DEF SeqInv
  <2>5. CASE Goto(t, "zero")
    <3>1. pc'[t] = "zero" /\ op' = op /\ at' = at /\ tmp' = tmp
      BY <1>0, <2>5 DEF Goto, TypeOK
    <3>2. ControlInv(t)'
      BY <1>0, <2>1, <3>1 DEF ControlInv
    <3>3. TotalInv(t)'
      BY <1>0, <2>1, <3>1, TotalKept DEF Bumped, Zeroed
    <3>4. LinesInv(t)'
      BY <1>0, <2>1, <3>1 DEF LinesInv, Untouched, Zeroed, LineAgrees
    <3> QED BY <3>2, <3>3, <3>4 DEF SeqInv
  <2> QED BY <1>1, <2>4, <2>5 DEF ResetEntry
<1>2. CASE ResetZero(t)
  <2>1. /\ pc[t] = "zero" /\ pc'[t] = "line" /\ op' = op /\ at' = at /\ tmp' = tmp
        /\ op[t] \in Resets /\ at[t][2] = 0
        /\ UNCHANGED <<cache, labelled, active, count, mutex, pkt, heap>>
        /\ activeCount' = [activeCount EXCEPT ![at[t][1]] = 0]
    BY <1>0, <1>2, <1>o DEF ResetZero, Goto, ControlInv, Ops, TypeOK
  <2>2. ~Bumped(t) /\ ~Zeroed(t) /\ ~Bumped(t)' /\ Zeroed(t)'
    BY <2>1 DEF Bumped, Zeroed
  <2>3. ControlInv(t)'
    BY <1>0, <2>1 DEF ControlInv
  <2>4. TotalInv(t)'
    <3> SUFFICES ASSUME NEW k \in Keys
                 PROVE  activeCount'[k] = IF at[t][1] = k THEN 0
                                          ELSE UpdatesOf(k) % CountModulus
      BY <2>1, <2>2 DEF TotalInv, UpdatesOf
    <3>1. activeCount[k] = UpdatesOf(k) % CountModulus
      BY <1>0, <2>2 DEF TotalInv
    <3> QED BY <1>0, <1>c, <2>1, <3>1 DEF TypeOK
  <2>5. LinesInv(t)'
    <3>1. \A l \in Lines : ~(l < 0)
      BY CacheAssumption DEF Lines
    <3> QED BY <1>0, <2>1, <2>2, <3>1 DEF LinesInv, Untouched, LineAgrees
  <2> QED BY <2>3, <2>4, <2>5 DEF SeqInv
<1>3. CASE ResetLine(t)
  <2>1. /\ pc[t] = "line" /\ op[t] \in Resets /\ Zeroed(t) /\ LineAgrees(at[t])
        /\ UNCHANGED <<activeCount, labelled, active, count, mutex, pkt, heap>>
    BY <1>0, <1>3, <1>o, <1>c DEF ResetLine, ControlInv, Ops, Zeroed, LinesInv, Untouched
  <2>2. CASE ~active[at[t]]
    <3>1. count[at[t]] = 0
      BY <1>0, <1>c, <2>1, <2>2 DEF LineAgrees, TypeOK
    <3>2. ResetNextLine(t)
      BY <1>3, <2>2 DEF ResetLine
    <3> QED BY <2>1, <3>1, <3>2, NextLineSeq DEF SeqInv
  <2>3. CASE active[at[t]]
    <3>1. pc'[t] = "unmark" /\ op' = op /\ at' = at /\ tmp' = tmp
      BY <1>0, <1>3, <2>3 DEF ResetLine, Goto, TypeOK
    <3>2. ControlInv(t)'
      BY <1>0, <2>1, <3>1 DEF ControlInv
    <3>3. TotalInv(t)'
      BY <1>0, <2>1, <3>1, TotalKept DEF Bumped, Zeroed
    <3>4. LinesInv(t)'
      BY <1>0, <2>1, <2>3, <3>1 DEF LinesInv, Untouched, Zeroed, LineAgrees
    <3> QED BY <3>2, <3>3, <3>4 DEF SeqInv
  <2> QED BY <2>2, <2>3
<1>4. CASE ResetUnmark(t)
  <2>1. /\ pc[t] = "unmark" /\ pc'[t] = "uncount" /\ op' = op /\ at' = at /\ tmp' = tmp
        /\ op[t] \in Resets
        /\ UNCHANGED <<cache, activeCount, labelled, count, mutex, pkt, heap>>
        /\ active' = [active EXCEPT ![at[t]] = FALSE]
    BY <1>0, <1>4, <1>o DEF ResetUnmark, Goto, ControlInv, Ops, TypeOK
  <2>2. ~active'[at[t]] /\ \A c \in Cells : c # at[t] => active'[c] = active[c]
    BY <1>0, <1>c, <2>1 DEF TypeOK
  <2>3. ControlInv(t)'
    BY <1>0, <2>1 DEF ControlInv
  <2>4. TotalInv(t)'
    BY <1>0, <2>1, TotalKept DEF Bumped, Zeroed
  <2>5. LinesInv(t)'
    BY <1>0, <2>1, <2>2 DEF LinesInv, Untouched, Zeroed, LineAgrees
  <2> QED BY <2>3, <2>4, <2>5 DEF SeqInv
<1>5. CASE ResetUncount(t)
  <2>1. /\ pc[t] = "uncount" /\ pc'[t] = "lock" /\ op' = op /\ at' = at /\ tmp' = tmp
        /\ op[t] \in Resets
        /\ UNCHANGED <<cache, activeCount, labelled, active, mutex, pkt, heap>>
        /\ count' = [count EXCEPT ![at[t]] = 0]
    BY <1>0, <1>5, <1>o DEF ResetUncount, Goto, ControlInv, Ops, TypeOK
  <2>2. count'[at[t]] = 0 /\ \A c \in Cells : c # at[t] => count'[c] = count[c]
    BY <1>0, <1>c, <2>1 DEF TypeOK
  <2>3. Zeroed(t) /\ Zeroed(t)' /\ ~Bumped(t) /\ ~Bumped(t)'
    BY <2>1 DEF Bumped, Zeroed
  <2>4. ControlInv(t)'
    BY <1>0, <2>1 DEF ControlInv
  <2>5. TotalInv(t)'
    <3> SUFFICES ASSUME NEW j \in Keys
                 PROVE  activeCount[j] = IF at[t][1] = j THEN 0 ELSE UpdatesOf(j)' % CountModulus
      BY <2>1, <2>3 DEF TotalInv
    <3>1. activeCount[j] = IF at[t][1] = j THEN 0 ELSE UpdatesOf(j) % CountModulus
      BY <1>0, <2>3 DEF TotalInv
    <3>2. ASSUME at[t][1] # j PROVE UpdatesOf(j)' = UpdatesOf(j)
      <4>1. /\ count \in [Keys \X Lines -> Nat] /\ count' \in [Keys \X Lines -> Nat]
            /\ \A b \in Lines : count'[<<j, b>>] = count[<<j, b>>]
        BY <1>0, <1>c, <2>2, <3>2 DEF TypeOK
      <4>2. LineSums(count', j)[NLines] = LineSums(count, j)[NLines]
        BY <4>1, SumOfSame
      <4> QED BY <4>2 DEF UpdatesOf
    <3> QED BY <3>1, <3>2
  <2>6. \A l \in Lines : l < at[t][2] => count'[<<at[t][1], l>>] = 0
    <3> SUFFICES ASSUME NEW l \in Lines, l < at[t][2] PROVE count'[<<at[t][1], l>>] = 0
      OBVIOUS
    <3>1. <<at[t][1], l>> \in Cells /\ <<at[t][1], l>> # at[t]
      BY <1>c DEF Lines
    <3>2. count[<<at[t][1], l>>] = 0
      BY <1>0, <2>3 DEF LinesInv
    <3> QED BY <2>2, <3>1, <3>2
  <2>7. LinesInv(t)'
    BY <1>0, <1>c, <2>1, <2>2, <2>3, <2>6 DEF LinesInv, Untouched, LineAgrees
  <2> QED BY <2>4, <2>5, <2>7 DEF SeqInv
<1> QED BY <1>1, <1>2, <1>3, <1>4, <1>5 DEF ResetStep

\* The locked part of a cell.
LEMMA LockedSeq ==
  ASSUME NEW t, Threads = {t}, SeqInv(t), TypeOK', LockLine(t) \/ LockedStep(t)
  PROVE  SeqInv(t)'
<1> USE DEF BumpedSteps, ZeroedSteps, Resets
<1>0. TypeOK /\ ControlInv(t) /\ TotalInv(t) /\ LinesInv(t) /\ t \in Threads
  BY DEF SeqInv
<1>c. /\ at[t] \in Cells /\ at[t][1] \in Keys /\ at[t][2] \in Lines
      /\ at[t] = <<at[t][1], at[t][2]>>
  BY <1>0, CellPair
<1>o. op[t] \in Ops /\ pc[t] \in Steps
  BY <1>0 DEF TypeOK
<1>1. CASE LockLine(t)
  <2>1. /\ pc[t] = "lock" /\ op[t] \in {"update", "read", "reset", "free"}
        /\ pc'[t] = (IF op[t] = "read" THEN "query" ELSE "drop")
        /\ op' = op /\ at' = at /\ tmp' = tmp
        /\ UNCHANGED <<cache, activeCount, labelled, active, count, pkt, heap>>
    BY <1>0, <1>1, <1>o DEF LockLine, Goto, ControlInv, Ops, TypeOK
  <2>2. ControlInv(t)'
    BY <1>0, <2>1 DEF ControlInv
  <2>3. TotalInv(t)'
    BY <1>0, <2>1, TotalKept DEF Bumped, Zeroed
  <2>4. LinesInv(t)'
    BY <1>0, <2>1 DEF LinesInv, Untouched, Zeroed, LineAgrees
  <2> QED BY <2>2, <2>3, <2>4 DEF SeqInv
<1>2. CASE DropPacket(t)
  <2>1. /\ pc[t] = "drop" /\ op[t] \in {"update", "reset", "free"}
        /\ pc'[t] = IF pkt[at[t]] = NULL THEN (IF op[t] = "update" THEN "copy" ELSE "unlock")
                    ELSE "clear"
        /\ op' = op /\ at' = at /\ tmp' = tmp
        /\ UNCHANGED <<cache, activeCount, labelled, active, count, mutex, pkt>>
    BY <1>0, <1>2, <1>o DEF DropPacket, AfterDrop, Goto, ControlInv, Ops, TypeOK
  <2>2. ControlInv(t)'
    BY <1>0, <2>1 DEF ControlInv
  <2>3. TotalInv(t)'
    BY <1>0, <2>1, TotalKept DEF Bumped, Zeroed
  <2>4. LinesInv(t)'
    BY <1>0, <2>1 DEF LinesInv, Untouched, Zeroed, LineAgrees
  <2> QED BY <2>2, <2>3, <2>4 DEF SeqInv
<1>3. CASE ClearPacket(t)
  <2>1. /\ pc[t] = "clear" /\ op[t] \in {"update", "reset", "free"}
        /\ pc'[t] = (IF op[t] = "update" THEN "copy" ELSE "unlock")
        /\ op' = op /\ at' = at /\ tmp' = tmp
        /\ UNCHANGED <<cache, activeCount, labelled, active, count, mutex, heap>>
        /\ pkt' = [pkt EXCEPT ![at[t]] = NULL]
    BY <1>0, <1>3, <1>o DEF ClearPacket, AfterDrop, Goto, ControlInv, Ops, TypeOK
  <2>2. pkt'[at[t]] = NULL /\ \A c \in Cells : c # at[t] => pkt'[c] = pkt[c]
    BY <1>0, <1>c, <2>1 DEF TypeOK
  <2>3. ControlInv(t)'
    BY <1>0, <2>1 DEF ControlInv
  <2>4. TotalInv(t)'
    BY <1>0, <2>1, TotalKept DEF Bumped, Zeroed
  <2>5. LinesInv(t)'
    BY <1>0, <2>1, <2>2 DEF LinesInv, Untouched, Zeroed, LineAgrees
  <2> QED BY <2>3, <2>4, <2>5 DEF SeqInv
<1>4. CASE UnlockLine(t)
  <2>1. pc[t] = "unlock" /\ UNCHANGED <<activeCount, labelled, active, count, pkt, heap>>
    BY <1>4 DEF UnlockLine
  <2>2. CASE op[t] = "update" /\ Goto(t, "cload")
    <3>1. pc'[t] = "cload" /\ op' = op /\ at' = at /\ tmp' = tmp
      BY <1>0, <2>2 DEF Goto, TypeOK
    <3>2. ControlInv(t)'
      BY <1>0, <2>1, <2>2, <3>1 DEF ControlInv
    <3>3. TotalInv(t)'
      BY <1>0, <2>1, <2>2, <3>1, TotalKept DEF Bumped, Zeroed
    <3>4. LinesInv(t)'
      BY <1>0, <2>1, <2>2, <3>1 DEF LinesInv, Untouched, Zeroed, LineAgrees
    <3> QED BY <3>2, <3>3, <3>4 DEF SeqInv
  <2>3. CASE op[t] = "read" /\ Return(t)
    <3>1. pc'[t] = "idle" /\ op'[t] = "idle" /\ at' = at /\ tmp' = tmp
      BY <1>0, <2>3 DEF Return, TypeOK
    <3>2. ControlInv(t)'
      BY <1>0, <2>1, <2>3, <3>1 DEF ControlInv
    <3>3. TotalInv(t)'
      BY <1>0, <2>1, <2>3, <3>1, TotalKept DEF Bumped, Zeroed
    <3>4. LinesInv(t)'
      BY <1>0, <2>1, <2>3, <3>1 DEF LinesInv, Untouched, Zeroed, LineAgrees
    <3> QED BY <3>2, <3>3, <3>4 DEF SeqInv
  <2>4. CASE op[t] \in Resets /\ ResetNextLine(t)
    <3>1. Zeroed(t)
      BY <2>1, <2>4 DEF Zeroed
    <3>2. ~active[at[t]] /\ count[at[t]] = 0 /\ pkt[at[t]] = NULL
      BY <1>0, <2>1, <3>1 DEF LinesInv
    <3>3. LineAgrees(at[t])
      BY <3>2 DEF LineAgrees
    <3> QED BY <2>1, <2>4, <3>1, <3>2, <3>3, NextLineSeq DEF SeqInv
  <2> QED BY <1>4, <2>2, <2>3, <2>4 DEF UnlockLine
<1>5. CASE ReadQuery(t)
  <2>1. /\ pc[t] = "query" /\ op[t] = "read" /\ pc'[t] = "unlock"
        /\ op' = op /\ at' = at /\ tmp' = tmp
        /\ UNCHANGED <<cache, activeCount, labelled, active, count, mutex, pkt, heap>>
    BY <1>0, <1>5, <1>o DEF ReadQuery, Goto, shared, ControlInv, Ops, TypeOK
  <2>2. ControlInv(t)'
    BY <1>0, <2>1 DEF ControlInv
  <2>3. TotalInv(t)'
    BY <1>0, <2>1, TotalKept DEF Bumped, Zeroed
  <2>4. LinesInv(t)'
    BY <1>0, <2>1 DEF LinesInv, Untouched, Zeroed, LineAgrees
  <2> QED BY <2>2, <2>3, <2>4 DEF SeqInv
<1> QED BY <1>1, <1>2, <1>3, <1>4, <1>5 DEF LockedStep

\* The thread enters a call.
LEMMA CallSeq ==
  ASSUME NEW t, Threads = {t}, SeqInv(t), TypeOK', Call(t)
  PROVE  SeqInv(t)'
<1> USE DEF BumpedSteps, ZeroedSteps, Resets
<1>0. TypeOK /\ ControlInv(t) /\ TotalInv(t) /\ LinesInv(t) /\ t \in Threads
  BY DEF SeqInv
<1>1. PICK call \in Ops, step \in Steps, c \in Cells :
        /\ Begin(t, call, step, c) /\ UNCHANGED shared
        /\ \/ call = "update" /\ step = "label"
           \/ call = "read" /\ step = "lock"
           \/ call \in Resets /\ step = "entry" /\ c = <<0, 0>>
  BY FirstCell DEF Call, UpdateBegin, ReadBegin, ResetBegin, klvanc_cache_free, Ops, Steps
<1>2. /\ op[t] = "idle" /\ op'[t] = call /\ pc'[t] = step /\ at'[t] = c /\ tmp' = tmp
      /\ UNCHANGED <<cache, activeCount, labelled, active, count, mutex, pkt, heap>>
  BY <1>0, <1>1 DEF Begin, shared, TypeOK
<1>3. ~Bumped(t) /\ ~Zeroed(t) /\ ~Bumped(t)' /\ ~Zeroed(t)'
  BY <1>1, <1>2 DEF Bumped, Zeroed
<1>4. ControlInv(t)'
  <2>1. <<0, 0>>[2] = 0
    OBVIOUS
  <2> QED BY <1>1, <1>2, <2>1 DEF ControlInv
<1>5. TotalInv(t)'
  BY <1>0, <1>2, <1>3 DEF TotalInv, UpdatesOf
<1>6. \A d \in Cells : LineAgrees(d)' /\ (count[d] > 0 => labelled[d[1]])'
  BY <1>0, <1>2 DEF LinesInv, Untouched, LineAgrees
<1>7. LinesInv(t)'
  BY <1>1, <1>2, <1>3, <1>6 DEF LinesInv
<1> QED BY <1>4, <1>5, <1>7 DEF SeqInv

\* Every step of a single thread keeps totals, lines and packets in agreement.
LEMMA SeqStep ==
  ASSUME NEW t, Threads = {t}, SeqInv(t), [Next]_vars
  PROVE  SeqInv(t)'
<1>0. TypeOK'
  BY TypeStep DEF SeqInv
<1>1. CASE UNCHANGED vars
  BY <1>0, <1>1 DEF SeqInv, vars, ControlInv, TotalInv, LinesInv, UpdatesOf, Bumped, Zeroed,
     Untouched, LineAgrees
<1>2. CASE klvanc_cache_alloc
  BY <1>0, <1>2 DEF klvanc_cache_alloc, local, SeqInv, ControlInv, TotalInv, LinesInv, UpdatesOf,
     Bumped, Zeroed, Untouched, LineAgrees
<1>3. CASE Destroyed
  BY <1>1, <1>3 DEF Destroyed
<1>4. CASE Call(t) \/ Step(t)
  BY <1>0, <1>4, CallSeq, UpdateSeq, ResetSeq, LockedSeq DEF Step
<1> QED BY <1>1, <1>2, <1>3, <1>4 DEF Next

\* A new context agrees with itself.
LEMMA SeqInit ==
  ASSUME NEW t, Threads = {t}, Init
  PROVE  SeqInv(t)
<1>1. TypeOK
  BY CacheInvInit DEF CacheInv
<1>2. /\ t \in Threads /\ op[t] = "idle" /\ pc[t] = "idle" /\ at[t] = <<0, 0>>
      /\ \A c \in Cells : count[c] = 0 /\ active[c] = FALSE /\ pkt[c] = NULL
      /\ \A k \in Keys : activeCount[k] = 0
  BY DEF Init
<1>3. ~Bumped(t) /\ ~Zeroed(t)
  BY <1>2 DEF Bumped, Zeroed, Resets
<1>4. ControlInv(t)
  BY <1>2 DEF ControlInv, Resets
<1>5. TotalInv(t)
  <2>1. \A k \in Keys : UpdatesOf(k) = 0
    BY <1>1, <1>2, UpdatesTyped
  <2>2. 0 % CountModulus = 0
    BY CacheAssumption
  <2> QED BY <1>2, <1>3, <2>1, <2>2 DEF TotalInv
<1>6. LinesInv(t)
  BY <1>2, <1>3 DEF LinesInv, LineAgrees
<1> QED BY <1>1, <1>4, <1>5, <1>6 DEF SeqInv

\* One thread parses, queries, resets and destroys.
Sequential == \E t : Threads = {t}

\* With one thread the cache answers "what message types have I seen on what
\* lines?" after every call: the total of an entry is the sum over its lines, a
\* line is active exactly when updates were counted on it, and a packet is held
\* only for an active line of a labelled entry.  The total wraps with its width.
THEOREM SequentialStats == Sequential => (Spec => []StatsConsistent)
<1> SUFFICES ASSUME Sequential PROVE Spec => []StatsConsistent
  OBVIOUS
<1>1. PICK t : Threads = {t}
  BY DEF Sequential
<1>2. Init => SeqInv(t)
  BY <1>1, SeqInit
<1>3. SeqInv(t) /\ [Next]_vars => SeqInv(t)'
  BY <1>1, SeqStep
<1>4. SeqInv(t) => StatsConsistent
  <2> SUFFICES ASSUME SeqInv(t), op[t] = "idle", NEW k \in Keys
               PROVE  /\ activeCount[k] = UpdatesOf(k) % CountModulus
                      /\ \A l \in Lines : active[<<k, l>>] <=> count[<<k, l>>] > 0
                      /\ \A l \in Lines : pkt[<<k, l>>] # NULL => active[<<k, l>>] /\ labelled[k]
    BY <1>1 DEF StatsConsistent
  <2>1. ~Bumped(t) /\ ~Zeroed(t)
    BY DEF Bumped, Zeroed, Resets
  <2>2. activeCount[k] = UpdatesOf(k) % CountModulus
    BY <2>1 DEF SeqInv, TotalInv
  <2>3. ASSUME NEW l \in Lines
        PROVE  LineAgrees(<<k, l>>) /\ (count[<<k, l>>] > 0 => labelled[<<k, l>>[1]])
    BY DEF SeqInv, LinesInv, Untouched
  <2>4. \A l \in Lines : <<k, l>>[1] = k
    OBVIOUS
  <2> QED BY <2>2, <2>3, <2>4 DEF LineAgrees
<1> QED BY <1>2, <1>3, <1>4, PTL DEF Spec

----------------------------------------------------------------------------
(* The end of the cache.  While the sum of the updates of the lines of an   *)
(* entry fits activeCount, reset skips no entry that holds packets.         *)

\* No line is counted above the bound.
BoundInv(t) ==
  /\ \A c \in Cells : count[c] <= MaxCount
  /\ op[t] = "update" => count[at[t]] < MaxCount

\* klvanc_cache_free has emptied the entries before the one it is at, and in
\* the end all.
EmptiedInv(t) ==
  /\ op[t] = "free" => \A j \in Keys : \A l \in Lines : j < at[t][1] => pkt[<<j, l>>] = NULL
  /\ cache = "freed" => op[t] = "idle" /\ \A c \in Cells : pkt[c] = NULL

\* Steps that begin no update keep the bound, unless they count.
LEMMA BoundStep ==
  ASSUME NEW t, Threads = {t}, SeqInv(t), BoundInv(t), [Next]_vars
  PROVE  BoundInv(t)'
<1>0. /\ TypeOK /\ ControlInv(t) /\ t \in Threads /\ op[t] \in Ops /\ pc[t] \in Steps
      /\ at[t] \in Cells
  BY CellPair DEF SeqInv, TypeOK
<1>1. ASSUME UNCHANGED count, op'[t] = "update" => op[t] = "update" /\ at'[t] = at[t]
      PROVE  BoundInv(t)'
  BY <1>1 DEF BoundInv
<1>2. CASE UNCHANGED vars \/ klvanc_cache_alloc \/ Destroyed
  BY <1>1, <1>2 DEF vars, klvanc_cache_alloc, local, Destroyed
<1>3. CASE Call(t)
  <2>1. CASE \E c \in Cells : UpdateBegin(t, c)
    <3>1. PICK c \in Cells : UpdateBegin(t, c)
      BY <2>1
    <3>2. count' = count /\ at'[t] = c /\ count[c] < MaxCount
      BY <1>0, <3>1 DEF UpdateBegin, Begin, shared, TypeOK
    <3> QED BY <3>2 DEF BoundInv
  <2>2. CASE (\E c \in Cells : ReadBegin(t, c)) \/ ResetBegin(t) \/ klvanc_cache_free(t)
    <3>1. count' = count /\ op'[t] # "update"
      BY <1>0, <2>2 DEF ReadBegin, ResetBegin, klvanc_cache_free, Begin, shared, TypeOK
    <3> QED BY <1>1, <3>1
  <2> QED BY <1>3, <2>1, <2>2 DEF Call
<1>4. CASE UpdateStep(t) /\ ~UpdateCountStore(t)
  <2>1. count' = count /\ op' = op /\ at' = at
    BY <1>4 DEF UpdateStep, UpdateLabel, UpdateMark, UpdateLoad, UpdateBump, UpdateCopy,
       UpdateCountLoad, Goto, shared
  <2> QED BY <1>1, <2>1
<1>5. CASE UpdateCountStore(t)
  <2>1. /\ op[t] = "update" /\ tmp[t] = count[at[t]] /\ op'[t] = "idle"
        /\ count' = [count EXCEPT ![at[t]] = tmp[t] + 1]
    BY <1>0, <1>5 DEF UpdateCountStore, Return, ControlInv, Ops, BumpedSteps, ZeroedSteps,
       Resets, TypeOK
  <2>2. count[at[t]] + 1 <= MaxCount
    BY <1>0, <2>1, CacheAssumption DEF BoundInv, TypeOK
  <2> QED BY <1>0, <2>1, <2>2 DEF BoundInv, TypeOK
<1>6. CASE ResetUncount(t)
  <2>1. op[t] \in Resets /\ op' = op /\ count' = [count EXCEPT ![at[t]] = 0] /\ MaxCount \in Nat
    BY <1>0, <1>6, CacheAssumption DEF ResetUncount, Goto, ControlInv, Ops, BumpedSteps,
       ZeroedSteps, Resets
  <2> QED BY <1>0, <2>1 DEF BoundInv, TypeOK, Resets
<1>7. CASE ResetStep(t) /\ ~ResetUncount(t)
  <2>1. count' = count /\ op[t] \in Resets
    BY <1>0, <1>7 DEF ResetStep, ResetEntry, ResetZero, ResetLine, ResetUnmark, ControlInv, Ops,
       BumpedSteps, ZeroedSteps, Resets
  <2>2. op'[t] # "update"
    BY <1>0, <1>7, <2>1 DEF ResetStep, ResetEntry, ResetZero, ResetLine, ResetUnmark, Goto,
       ResetNextLine, ResetNextEntry, Return, Resets, TypeOK
  <2> QED BY <1>1, <2>1, <2>2
<1>8. CASE LockLine(t) \/ LockedStep(t)
  <2>1. count' = count
    BY <1>8 DEF LockLine, LockedStep, DropPacket, ClearPacket, UnlockLine, ReadQuery, shared
  <2>2. op'[t] = "update" => op[t] = "update" /\ at'[t] = at[t]
    BY <1>0, <1>8 DEF LockLine, LockedStep, DropPacket, ClearPacket, UnlockLine, ReadQuery, Goto,
       ResetNextLine, ResetNextEntry, Return, TypeOK
  <2> QED BY <1>1, <2>1, <2>2
<1> QED BY <1>2, <1>3, <1>4, <1>5, <1>6, <1>7, <1>8 DEF Next, Step

\* Leaving an entry on which nothing is counted, klvanc_cache_free has emptied
\* it.
LEMMA EntryEmptied ==
  ASSUME NEW t, Threads = {t}, TypeOK, EmptiedInv(t), op[t] \in Resets,
         \A l \in Lines : count[<<at[t][1], l>>] = 0,
         \A c \in Cells : LineAgrees(c),
         ResetNextEntry(t), UNCHANGED pkt
  PROVE  EmptiedInv(t)'
<1> DEFINE k == at[t][1]
<1>1. /\ t \in Threads /\ k \in Keys /\ cache # "freed" /\ NKeys \in Nat
      /\ op[t] \in {"reset", "free"}
  BY CellPair, CacheAssumption DEF EmptiedInv, Resets
<1>2. \A l \in Lines : pkt[<<k, l>>] = NULL
  <2> SUFFICES ASSUME NEW l \in Lines PROVE pkt[<<k, l>>] = NULL
    OBVIOUS
  <2>1. <<k, l>> \in Cells /\ count[<<k, l>>] = 0
    BY <1>1
  <2>2. ~active[<<k, l>>]
    BY <2>1 DEF LineAgrees
  <2> QED BY <2>1, <2>2 DEF LineAgrees
<1>3. op[t] = "free" => \A j \in Keys : \A l \in Lines : j < k + 1 => pkt[<<j, l>>] = NULL
  BY <1>1, <1>2 DEF EmptiedInv, Keys
<1>4. CASE k + 1 < NKeys
  <2>1. cache' = cache /\ op' = op /\ at'[t] = <<k + 1, 0>>
    BY <1>1, <1>4 DEF ResetNextEntry, TypeOK
  <2>2. at'[t][1] = k + 1
    BY <2>1
  <2> QED BY <1>1, <1>3, <2>1, <2>2 DEF EmptiedInv
<1>5. CASE ~(k + 1 < NKeys)
  <2>1. op'[t] = "idle" /\ cache' = IF op[t] = "free" THEN "freed" ELSE cache
    BY <1>1, <1>5 DEF ResetNextEntry, Return, TypeOK
  <2>2. ASSUME op[t] = "free", NEW c \in Cells PROVE pkt[c] = NULL
    <3>1. c[1] \in Keys /\ c[2] \in Lines /\ c = <<c[1], c[2]>> /\ c[1] < k + 1
      BY <1>1, <1>5 DEF Keys
    <3> QED BY <1>3, <2>2, <3>1
  <2> QED BY <1>1, <2>1, <2>2 DEF EmptiedInv
<1> QED BY <1>4, <1>5

\* When the total of an entry cannot have wrapped, klvanc_cache_free leaves no
\* packet in an entry it passes.
LEMMA EmptiedStep ==
  ASSUME NEW t, Threads = {t}, SeqInv(t), BoundInv(t), EmptiedInv(t), [Next]_vars,
         NLines * MaxCount < CountModulus
  PROVE  EmptiedInv(t)'
<1> USE DEF BumpedSteps, ZeroedSteps, Resets
<1>0. /\ TypeOK /\ ControlInv(t) /\ TotalInv(t) /\ LinesInv(t) /\ t \in Threads
      /\ op[t] \in Ops /\ pc[t] \in Steps
      /\ at[t] \in Cells /\ at[t][1] \in Keys /\ at[t][2] \in Lines /\ at[t] = <<at[t][1], at[t][2]>>
  BY CellPair DEF SeqInv, TypeOK
<1>1. ASSUME cache' = cache, op'[t] = op[t], at'[t][1] = at[t][1],
             \A c \in Cells : pkt'[c] # NULL => pkt[c] # NULL
      PROVE  EmptiedInv(t)'
  BY <1>1 DEF EmptiedInv
<1>2. ASSUME cache' = cache, op[t] # "idle", op'[t] # "free"
      PROVE  EmptiedInv(t)'
  BY <1>2 DEF EmptiedInv
<1>3. CASE UNCHANGED vars \/ Destroyed
  BY <1>1, <1>3 DEF vars, Destroyed
<1>4. CASE klvanc_cache_alloc
  BY <1>4 DEF klvanc_cache_alloc, local, EmptiedInv
<1>5. CASE Call(t)
  <2>1. cache' = cache /\ cache # "freed"
    BY <1>5 DEF Call, UpdateBegin, ReadBegin, ResetBegin, klvanc_cache_free, shared
  <2>2. op'[t] = "free" => at'[t] = <<0, 0>>
    BY <1>0, <1>5 DEF Call, UpdateBegin, ReadBegin, ResetBegin, klvanc_cache_free, Begin, TypeOK
  <2>3. \A j \in Keys : ~(j < <<0, 0>>[1])
    BY CacheAssumption DEF Keys
  <2> QED BY <2>1, <2>2, <2>3 DEF EmptiedInv
<1>6. CASE UpdateStep(t)
  <2>1. op[t] = "update" /\ cache' = cache
    BY <1>0, <1>6 DEF UpdateStep, UpdateLabel, UpdateMark, UpdateLoad, UpdateBump, UpdateCopy,
       UpdateCountLoad, UpdateCountStore, shared, ControlInv, Ops
  <2>2. op'[t] # "free"
    BY <1>0, <1>6, <2>1 DEF UpdateStep, UpdateLabel, UpdateMark, UpdateLoad, UpdateBump, UpdateCopy,
       UpdateCountLoad, UpdateCountStore, Goto, Return, TypeOK
  <2> QED BY <1>2, <2>1, <2>2
<1>7. CASE LockLine(t) \/ DropPacket(t) \/ ReadQuery(t)
  BY <1>0, <1>1, <1>7 DEF LockLine, DropPacket, ReadQuery, Goto, shared
<1>8. CASE ClearPacket(t)
  <2>1. cache' = cache /\ op' = op /\ at' = at /\ pkt' = [pkt EXCEPT ![at[t]] = NULL]
    BY <1>8 DEF ClearPacket, Goto
  <2>2. \A c \in Cells : pkt'[c] # NULL => pkt[c] # NULL
    BY <1>0, <2>1 DEF TypeOK
  <2> QED BY <1>1, <2>1, <2>2
<1>9. ASSUME Zeroed(t), LineAgrees(at[t]), count[at[t]] = 0, ResetNextLine(t), UNCHANGED pkt
      PROVE  EmptiedInv(t)'
  <2> DEFINE k == at[t][1]
             l == at[t][2]
  <2>1. CASE l + 1 < NLines
    <3>1. cache' = cache /\ op' = op /\ at'[t] = <<k, l + 1>>
      BY <1>0, <1>9, <2>1 DEF ResetNextLine, TypeOK
    <3>2. at'[t][1] = k
      BY <3>1
    <3> QED BY <1>1, <1>9, <3>1, <3>2
  <2>2. CASE ~(l + 1 < NLines)
    <3>1. ResetNextEntry(t)
      BY <1>9, <2>2 DEF ResetNextLine
    <3>2. ASSUME NEW m \in Lines PROVE count[<<k, m>>] = 0
      <4>1. CASE m = l
        BY <1>0, <1>9, <4>1
      <4>2. CASE m < l
        BY <1>0, <1>9, <4>2 DEF LinesInv
      <4> QED BY <1>0, <2>2, <4>1, <4>2, CacheAssumption DEF Lines
    <3>3. \A c \in Cells : LineAgrees(c)
      BY <1>0, <1>9 DEF LinesInv
    <3>4. op[t] \in Resets
      BY <1>9 DEF Zeroed
    <3> QED BY <1>0, <1>9, <3>1, <3>2, <3>3, <3>4, EntryEmptied
  <2> QED BY <2>1, <2>2
<1>10. CASE UnlockLine(t)
  <2>1. pc[t] = "unlock" /\ UNCHANGED pkt
    BY <1>10 DEF UnlockLine
  <2>3. CASE op[t] \in Resets /\ ResetNextLine(t)
    <3>1. Zeroed(t)
      BY <2>1, <2>3 DEF Zeroed
    <3>2. ~active[at[t]] /\ count[at[t]] = 0 /\ pkt[at[t]] = NULL
      BY <1>0, <2>1, <3>1 DEF LinesInv
    <3>3. LineAgrees(at[t])
      BY <3>2 DEF LineAgrees
    <3> QED BY <1>9, <2>1, <2>3, <3>1, <3>2, <3>3
  <2>4. CASE op[t] \in {"update", "read"}
    <3>1. cache' = cache /\ op'[t] # "free"
      BY <1>0, <1>10, <2>4 DEF UnlockLine, Goto, Return, TypeOK
    <3> QED BY <1>2, <2>4, <3>1
  <2> QED BY <1>10, <2>3, <2>4 DEF UnlockLine
<1>11. CASE ResetEntry(t)
  <2>1. pc[t] = "entry" /\ op[t] \in Resets /\ UNCHANGED pkt
    BY <1>0, <1>11 DEF ResetEntry, ControlInv, Ops
  <2>2. CASE Goto(t, "zero") /\ UNCHANGED cache
    BY <1>1, <2>1, <2>2 DEF Goto
  <2>3. CASE activeCount[at[t][1]] = 0 /\ ResetNextEntry(t)
    <3> DEFINE k == at[t][1]
    <3>1. \A c \in Cells : LineAgrees(c)
      BY <1>0, <2>1 DEF LinesInv, Untouched
    <3>2. UpdatesOf(k) % CountModulus = 0
      BY <1>0, <2>1, <2>3 DEF TotalInv, Bumped, Zeroed
    <3>3. /\ UpdatesOf(k) \in Nat /\ UpdatesOf(k) <= NLines * MaxCount
          /\ \A l \in Lines : count[<<k, l>>] <= UpdatesOf(k)
      <4>1. /\ count \in [Keys \X Lines -> Nat] /\ k \in Keys /\ MaxCount \in Nat
            /\ \A l \in Lines : count[<<k, l>>] <= MaxCount
        BY <1>0, CacheAssumption DEF BoundInv, TypeOK
      <4> QED BY <4>1, SumBounds DEF UpdatesOf
    <3>4. UpdatesOf(k) = 0
      <4>1. NLines * MaxCount \in Nat /\ CountModulus \in Nat
        BY CacheAssumption
      <4>2. UpdatesOf(k) < CountModulus
        BY <3>3, <4>1
      <4>3. UpdatesOf(k) % CountModulus = UpdatesOf(k)
        BY <3>3, <4>1, <4>2
      <4> QED BY <3>2, <4>3
    <3>5. \A l \in Lines : count[<<k, l>>] = 0
      <4>1. \A l \in Lines : count[<<k, l>>] \in Nat
        BY <1>0 DEF TypeOK
      <4> QED BY <3>3, <3>4, <4>1
    <3> QED BY <1>0, <2>1, <2>3, <3>1, <3>5, EntryEmptied
  <2> QED BY <1>11, <2>2, <2>3 DEF ResetEntry
<1>12. CASE ResetLine(t)
  <2>1. pc[t] = "line" /\ op[t] \in Resets /\ Zeroed(t) /\ LineAgrees(at[t]) /\ UNCHANGED pkt
    BY <1>0, <1>12 DEF ResetLine, ControlInv, Ops, Zeroed, LinesInv, Untouched
  <2>2. CASE ~active[at[t]]
    <3>1. count[at[t]] = 0
      BY <1>0, <2>1, <2>2 DEF LineAgrees, TypeOK
    <3>2. ResetNextLine(t)
      BY <1>12, <2>2 DEF ResetLine
    <3> QED BY <1>9, <2>1, <3>1, <3>2
  <2>3. CASE active[at[t]]
    BY <1>1, <1>12, <2>1, <2>3 DEF ResetLine, Goto
  <2> QED BY <2>2, <2>3
<1>13. CASE ResetZero(t) \/ ResetUnmark(t) \/ ResetUncount(t)
  BY <1>1, <1>13 DEF ResetZero, ResetUnmark, ResetUncount, Goto, shared
<1> QED BY <1>3, <1>4, <1>5, <1>6, <1>7, <1>8, <1>10, <1>11, <1>12, <1>13
     DEF Next, Step, LockedStep, ResetStep

\* Fewer updates of one entry than activeCount can count.
NoWrap == NLines * MaxCount < CountModulus

\* With one thread, and while activeCount does not wrap, klvanc_cache_free leaves
\* no packet copy behind ("Free any cached lines otherwise we'll memory leak").
THEOREM SequentialFree == Sequential /\ NoWrap => (Spec => []FreeReleasesAll)
<1> SUFFICES ASSUME Sequential, NoWrap PROVE Spec => []FreeReleasesAll
  OBVIOUS
<1>1. PICK t : Threads = {t}
  BY DEF Sequential
<1>2. ASSUME Init PROVE SeqInv(t) /\ BoundInv(t) /\ EmptiedInv(t)
  <2>1. op[t] = "idle"
    BY <1>1, <1>2 DEF Init
  <2>2. cache = "none"
    BY <1>2 DEF Init
  <2>3. ASSUME NEW c \in Cells PROVE count[c] <= MaxCount
    <3>1. count[c] = 0
      BY <1>2, <2>3 DEF Init
    <3> QED BY <3>1, CacheAssumption
  <2>4. BoundInv(t)
    BY <2>1, <2>3 DEF BoundInv
  <2>5. EmptiedInv(t)
    BY <2>1, <2>2 DEF EmptiedInv
  <2> QED BY <1>1, <1>2, <2>4, <2>5, SeqInit
<1>3. SeqInv(t) /\ BoundInv(t) /\ EmptiedInv(t) /\ [Next]_vars
      => SeqInv(t)' /\ BoundInv(t)' /\ EmptiedInv(t)'
  BY <1>1, SeqStep, BoundStep, EmptiedStep DEF NoWrap
<1>4. EmptiedInv(t) /\ SoleOwner => FreeReleasesAll
  BY DEF EmptiedInv, SoleOwner, FreeReleasesAll, Owns
<1> QED BY <1>2, <1>3, <1>4, CacheSoleOwner, PTL DEF Spec

=============================================================================
