------------------------- MODULE EventLogWaitProofs -------------------------
(***************************************************************************)
(* Proofs about EventLogWait for any number of threads and logs: the       *)
(* waiting flag is exact, a thread that left the loop finds its log, it is *)
(* stranded in one window only, and the manager implements Mailbox.        *)
(***************************************************************************)
EXTENDS EventLogWait, SequenceTheorems, TLAPS

USE EventLogAssumption

-----------------------------------------------------------------------------
(* The map of entries                                                      *)

\* erase() removes one entry and keeps the others.
LEMMA EraseEntry ==
    ASSUME NEW id
    PROVE  /\ DOMAIN Without(id) = DOMAIN eventLogMap \ {id}
           /\ \A x \in DOMAIN eventLogMap \ {id} : Without(id)[x] = eventLogMap[x]
BY DEF Without, Restrict

\* What the entry of an id looks like after a step that gives one id an entry.
LEMMA EntryOfPut ==
    ASSUME NEW id, NEW e, eventLogMap' = With(id, e)
    PROVE  /\ EntryOf(id)' = e
           /\ \A x : x # id => EntryOf(x)' = EntryOf(x)
           /\ DOMAIN eventLogMap' = DOMAIN eventLogMap \union {id}
           /\ eventLogMap'[id] = e
           /\ \A x \in DOMAIN eventLogMap \ {id} : eventLogMap'[x] = eventLogMap[x]
<1>1. /\ DOMAIN eventLogMap' = DOMAIN eventLogMap \union {id}
      /\ eventLogMap'[id] = e
      /\ \A x \in DOMAIN eventLogMap \ {id} : eventLogMap'[x] = eventLogMap[x]
  BY DEF With
<1> QED
  BY <1>1 DEF EntryOf

\* And after a step that erases the entry of one id.
LEMMA EntryOfErase ==
    ASSUME NEW id, eventLogMap' = Without(id)
    PROVE  /\ EntryOf(id)' = NewEntry
           /\ \A x : x # id => EntryOf(x)' = EntryOf(x)
           /\ DOMAIN eventLogMap' = DOMAIN eventLogMap \ {id}
           /\ \A x \in DOMAIN eventLogMap \ {id} : eventLogMap'[x] = eventLogMap[x]
BY EraseEntry DEF EntryOf, NewEntry

\* An entry is an entry, whether it is there or would be made.
LEMMA EntryOfType ==
    ASSUME TypeOK, NEW id
    PROVE  EntryOf(id) \in Entry
BY DEF TypeOK, EntryOf, NewEntry, Entry

-----------------------------------------------------------------------------
(* The invariant                                                           *)

\* What the safety invariants need besides: a thread inside getEventLog knows
\* which log it wants, and the listener holds the mutex only to set a log.
Bookkeeping ==
    /\ \A t \in Thread : pc[t] # "idle" => want[t] \in LogId
    /\ mtx = Listener => setting # NoId

WaitInv == TypeOK /\ Bookkeeping /\ WaiterFlagExact /\ TakeFindsLog

\* The flag of an entry tells whether a thread waits for the log.
LEMMA FlagOfWaiter ==
    ASSUME WaitInv, NEW t \in Thread, Registered(t)
    PROVE  /\ want[t] \in LogId
           /\ EntryOf(want[t]).hasWaitingThread
           /\ \A u \in Thread : Registered(u) /\ want[u] = want[t] => u = t
<1>1. want[t] \in LogId
  BY DEF WaitInv, Bookkeeping, Registered
<1> DEFINE waiters == {u \in Thread : Registered(u) /\ want[u] = want[t]}
<1>2. t \in waiters
  OBVIOUS
<1>3. IF EntryOf(want[t]).hasWaitingThread THEN \E u \in Thread : waiters = {u} ELSE waiters = {}
  BY <1>1 DEF WaitInv, WaiterFlagExact
<1>4. EntryOf(want[t]).hasWaitingThread
  BY <1>2, <1>3
<1>5. PICK u \in Thread : waiters = {u}
  BY <1>3, <1>4
<1> QED
  BY <1>1, <1>2, <1>4, <1>5

\* A manager that was just made has no entries and no callers.
LEMMA WaitInvInit == Init => WaitInv
<1> SUFFICES ASSUME Init PROVE WaitInv
  OBVIOUS
<1>1. \A id : EntryOf(id) = NewEntry
  BY DEF Init, EntryOf
<1>2. \A t \in Thread : pc[t] = "idle"
  BY DEF Init
<1>3. TypeOK
  <2>1. eventLogMap = <<>> /\ DOMAIN eventLogMap = {}
    BY DEF Init
  <2>2. inbox \in Seq(LogId)
    BY DEF Init
  <2>3. /\ pc \in [Thread -> PC]
        /\ want \in [Thread -> LogId \union {NoId}]
        /\ outcome \in [Thread -> Outcome]
    BY DEF Init, PC, Outcome
  <2> QED
    BY <2>1, <2>2, <2>3 DEF Init, TypeOK
<1>4. WaiterFlagExact
  BY <1>1, <1>2 DEF WaiterFlagExact, Registered, NewEntry
<1> QED
  BY <1>2, <1>3, <1>4 DEF WaitInv, Bookkeeping, TakeFindsLog, Init

\* A step that leaves the entries alone and moves one thread within the loop,
\* or around outside of it, keeps the flags exact.
LEMMA SameEntries ==
    ASSUME WaitInv, eventLogMap' = eventLogMap,
           \A t \in Thread : (Registered(t) <=> Registered(t)') /\ (Registered(t) => want'[t] = want[t])
    PROVE  WaiterFlagExact'
<1>1. \A id : EntryOf(id)' = EntryOf(id)
  BY DEF EntryOf
<1>2. ASSUME NEW id \in LogId
      PROVE  {t \in Thread : Registered(t)' /\ want'[t] = id}
               = {t \in Thread : Registered(t) /\ want[t] = id}
  OBVIOUS
<1> QED
  BY <1>1, <1>2 DEF WaitInv, WaiterFlagExact

\* Only the thread that runs moves, within getEventLog.
LEMMA GotoEffect ==
    ASSUME TypeOK, NEW t \in Thread, NEW from, NEW to, Goto(t, from, to)
    PROVE  /\ pc[t] = from
           /\ pc'[t] = to
           /\ \A u \in Thread \ {t} : pc'[u] = pc[u]
           /\ to \in PC => pc' \in [Thread -> PC]
BY DEF Goto, TypeOK

\* getEventLog is called: nothing is registered yet.
LEMMA CallInv ==
    ASSUME WaitInv, NEW t \in Thread, NEW id \in LogId, Call(t, id)
    PROVE  WaitInv'
<1>0. TypeOK
  BY DEF WaitInv
<1>1. /\ pc[t] = "idle" /\ pc'[t] = "lock"
      /\ \A u \in Thread \ {t} : pc'[u] = pc[u]
      /\ pc' \in [Thread -> PC]
  BY <1>0, GotoEffect DEF Call, PC
<1>2. /\ want'[t] = id
      /\ \A u \in Thread \ {t} : want'[u] = want[u]
      /\ want' \in [Thread -> LogId \union {NoId}]
      /\ outcome' \in [Thread -> Outcome]
      /\ UNCHANGED <<mtx, eventLogMap, inbox, setting, crashed>>
  BY <1>0 DEF Call, TypeOK, Outcome
<1>3. TypeOK'
  BY <1>0, <1>1, <1>2 DEF TypeOK
<1>4. Bookkeeping'
  BY <1>1, <1>2 DEF WaitInv, Bookkeeping
<1>5. WaiterFlagExact'
  BY <1>1, <1>2, SameEntries DEF Registered
<1>6. TakeFindsLog'
  BY <1>1, <1>2 DEF WaitInv, TakeFindsLog, HasLog, EntryOf
<1> QED
  BY <1>3, <1>4, <1>5, <1>6 DEF WaitInv

\* Steps that move one thread without touching entries, and only let it pass
\* the loop when its log is there.
LEMMA MoveInv ==
    ASSUME WaitInv, NEW t \in Thread, NEW from \in PC \ {"idle"}, NEW to \in PC, Goto(t, from, to),
           UNCHANGED <<eventLogMap, want, inbox, setting, crashed>>,
           mtx' \in {mtx, t, Nobody}, outcome' \in [Thread -> Outcome],
           (from \in {"test", "block", "asleep", "relock", "take"})
              <=> (to \in {"test", "block", "asleep", "relock", "take"}),
           to \in {"relock", "take"} => HasLog(want[t])
    PROVE  WaitInv'
<1>0. TypeOK
  BY DEF WaitInv
<1>1. /\ pc[t] = from /\ pc'[t] = to
      /\ \A u \in Thread \ {t} : pc'[u] = pc[u]
      /\ pc' \in [Thread -> PC]
  BY <1>0, GotoEffect
<1>2. TypeOK'
  BY <1>0, <1>1 DEF TypeOK
<1>3. Bookkeeping'
  BY <1>1 DEF WaitInv, Bookkeeping
<1>4. WaiterFlagExact'
  BY <1>1, SameEntries DEF Registered
<1>5. TakeFindsLog'
  BY <1>1 DEF WaitInv, TakeFindsLog, HasLog, EntryOf
<1> QED
  BY <1>2, <1>3, <1>4, <1>5 DEF WaitInv

\* Steps that touch neither entries nor callers.
LEMMA AsideInv ==
    ASSUME WaitInv, UNCHANGED <<eventLogMap, pc, want, outcome>>,
           mtx' \in {mtx, Listener}, inbox' \in Seq(LogId), setting' \in LogId \union {NoId},
           crashed' \in BOOLEAN, mtx' = Listener => setting' # NoId
    PROVE  WaitInv'
<1>1. TypeOK' /\ Bookkeeping'
  BY DEF WaitInv, TypeOK, Bookkeeping
<1>2. WaiterFlagExact'
  BY SameEntries DEF Registered
<1>3. TakeFindsLog'
  BY DEF WaitInv, TakeFindsLog, HasLog, EntryOf
<1> QED
  BY <1>1, <1>2, <1>3 DEF WaitInv

\* The log is there and nobody waits for it: the entry goes, and no other
\* thread had a claim to it.
LEMMA RegisterAndTakeInv ==
    ASSUME WaitInv, NEW t \in Thread, RegisterAndTake(t)
    PROVE  WaitInv'
<1>0. TypeOK
  BY DEF WaitInv
<1>1. /\ pc[t] = "register" /\ pc'[t] = "idle"
      /\ \A u \in Thread \ {t} : pc'[u] = pc[u]
      /\ pc' \in [Thread -> PC]
  BY <1>0, GotoEffect DEF RegisterAndTake, PC
<1>2. want[t] \in LogId /\ ~ EntryOf(want[t]).hasWaitingThread
  BY <1>1 DEF WaitInv, Bookkeeping, RegisterAndTake
<1>3. /\ eventLogMap' = Without(want[t])
      /\ mtx' = Nobody
      /\ outcome' \in [Thread -> Outcome]
      /\ UNCHANGED <<want, inbox, setting, crashed>>
  BY <1>0 DEF RegisterAndTake, TypeOK, Outcome
<1>4. /\ EntryOf(want[t])' = NewEntry
      /\ \A x : x # want[t] => EntryOf(x)' = EntryOf(x)
      /\ DOMAIN eventLogMap' = DOMAIN eventLogMap \ {want[t]}
      /\ \A x \in DOMAIN eventLogMap \ {want[t]} : eventLogMap'[x] = eventLogMap[x]
  <2>1. want'[t] = want[t]
    BY <1>3
  <2> QED
    BY <1>3, <2>1, EntryOfErase
<1>5. TypeOK'
  BY <1>0, <1>1, <1>3, <1>4 DEF TypeOK
<1>6. Bookkeeping'
  BY <1>1, <1>3 DEF WaitInv, Bookkeeping
<1>7. \A u \in Thread : Registered(u) => want[u] # want[t]
  BY <1>2, FlagOfWaiter
<1>8. WaiterFlagExact'
  BY <1>1, <1>3, <1>4, <1>7 DEF WaitInv, WaiterFlagExact, Registered, NewEntry
<1>9. TakeFindsLog'
  BY <1>1, <1>3, <1>4, <1>7 DEF WaitInv, TakeFindsLog, HasLog, Registered
<1> QED
  BY <1>5, <1>6, <1>8, <1>9 DEF WaitInv

\* The log is not there: the thread leaves its flag and is the only one to
\* wait for that log.
LEMMA RegisterAndWaitInv ==
    ASSUME WaitInv, NEW t \in Thread, RegisterAndWait(t)
    PROVE  WaitInv'
<1> DEFINE e == [NewEntry EXCEPT !.hasWaitingThread = TRUE]
           id == want[t]
<1>0. TypeOK
  BY DEF WaitInv
<1>1. /\ pc[t] = "register" /\ pc'[t] = "test"
      /\ \A u \in Thread \ {t} : pc'[u] = pc[u]
      /\ pc' \in [Thread -> PC]
  BY <1>0, GotoEffect DEF RegisterAndWait, PC
<1>2. id \in LogId /\ ~ EntryOf(id).hasWaitingThread
  BY <1>1 DEF WaitInv, Bookkeeping, RegisterAndWait
<1>3. /\ eventLogMap' = With(id, e)
      /\ mtx' = Nobody
      /\ UNCHANGED <<want, outcome, inbox, setting, crashed>>
  BY DEF RegisterAndWait
<1>4. e \in Entry /\ e.hasWaitingThread
  BY DEF NewEntry, Entry
<1> HIDE DEF e, id
<1>5. /\ \A x : x = id => EntryOf(x)' = e
      /\ \A x : x # id => EntryOf(x)' = EntryOf(x)
      /\ DOMAIN eventLogMap' = DOMAIN eventLogMap \union {id}
      /\ eventLogMap'[id] = e
      /\ \A x \in DOMAIN eventLogMap \ {id} : eventLogMap'[x] = eventLogMap[x]
  <2>1. id' = id
    BY <1>3 DEF id
  <2> QED
    BY <1>3, <2>1, EntryOfPut
<1>6. TypeOK'
  BY <1>0, <1>1, <1>2, <1>3, <1>4, <1>5 DEF TypeOK
<1>7. Bookkeeping'
  BY <1>1, <1>3 DEF WaitInv, Bookkeeping
<1>8. \A u \in Thread : Registered(u) => want[u] # id
  BY <1>2, FlagOfWaiter DEF id
<1>9. WaiterFlagExact'
  <2>1. \A u \in Thread : Registered(u)' <=> (Registered(u) \/ u = t)
    BY <1>1 DEF Registered
  <2>2. ASSUME NEW x \in LogId
        PROVE  IF EntryOf(x)'.hasWaitingThread
               THEN \E u \in Thread : {v \in Thread : Registered(v)' /\ want'[v] = x} = {u}
               ELSE {v \in Thread : Registered(v)' /\ want'[v] = x} = {}
    <3>1. CASE x = id
      <4>1. {v \in Thread : Registered(v)' /\ want'[v] = x} = {t}
        BY <1>3, <1>8, <2>1, <3>1 DEF id
      <4>2. EntryOf(x)'.hasWaitingThread
        BY <1>4, <1>5, <3>1
      <4> QED
        BY <4>1, <4>2
    <3>2. CASE x # id
      <4>1. {v \in Thread : Registered(v)' /\ want'[v] = x}
              = {v \in Thread : Registered(v) /\ want[v] = x}
        BY <1>3, <2>1, <3>2 DEF id
      <4>2. EntryOf(x)' = EntryOf(x)
        BY <1>5, <3>2
      <4> QED
        BY <4>1, <4>2 DEF WaitInv, WaiterFlagExact
    <3> QED
      BY <3>1, <3>2
  <2> QED
    BY <2>2 DEF WaiterFlagExact
<1>10. TakeFindsLog'
  BY <1>1, <1>3, <1>5, <1>8 DEF WaitInv, TakeFindsLog, HasLog, Registered
<1> QED
  BY <1>6, <1>7, <1>9, <1>10 DEF WaitInv

\* The thread that waited takes the log and its entry: no other thread waits
\* for that log.
LEMMA TakeInv ==
    ASSUME WaitInv, NEW t \in Thread, Take(t)
    PROVE  WaitInv'
<1> DEFINE id == want[t]
<1>0. TypeOK
  BY DEF WaitInv
<1>1. /\ pc[t] = "take" /\ pc'[t] = "idle"
      /\ \A u \in Thread \ {t} : pc'[u] = pc[u]
      /\ pc' \in [Thread -> PC]
  BY <1>0, GotoEffect DEF Take, PC
<1>2. /\ id \in LogId
      /\ \A u \in Thread \ {t} : Registered(u) => want[u] # id
  BY <1>1, FlagOfWaiter DEF Registered
<1>3. /\ eventLogMap' = Without(id)
      /\ mtx' = Nobody
      /\ outcome' \in [Thread -> Outcome]
      /\ UNCHANGED <<want, inbox, setting, crashed>>
  BY <1>0 DEF Take, TypeOK, Outcome
<1> HIDE DEF id
<1>4. /\ \A x : x = id => EntryOf(x)' = NewEntry
      /\ \A x : x # id => EntryOf(x)' = EntryOf(x)
      /\ DOMAIN eventLogMap' = DOMAIN eventLogMap \ {id}
      /\ \A x \in DOMAIN eventLogMap \ {id} : eventLogMap'[x] = eventLogMap[x]
  <2>1. id' = id
    BY <1>3 DEF id
  <2> QED
    BY <1>3, <2>1, EntryOfErase
<1>5. TypeOK'
  BY <1>0, <1>1, <1>3, <1>4 DEF TypeOK
<1>6. Bookkeeping'
  BY <1>1, <1>3 DEF WaitInv, Bookkeeping
<1>7. WaiterFlagExact'
  <2>1. \A u \in Thread : Registered(u)' <=> (Registered(u) /\ u # t)
    BY <1>1 DEF Registered
  <2>2. ASSUME NEW x \in LogId
        PROVE  IF EntryOf(x)'.hasWaitingThread
               THEN \E u \in Thread : {v \in Thread : Registered(v)' /\ want'[v] = x} = {u}
               ELSE {v \in Thread : Registered(v)' /\ want'[v] = x} = {}
    <3>1. CASE x = id
      <4>1. {v \in Thread : Registered(v)' /\ want'[v] = x} = {}
        BY <1>2, <1>3, <2>1, <3>1
      <4>2. ~ EntryOf(x)'.hasWaitingThread
        BY <1>4, <3>1 DEF NewEntry
      <4> QED
        BY <4>1, <4>2
    <3>2. CASE x # id
      <4>1. {v \in Thread : Registered(v)' /\ want'[v] = x}
              = {v \in Thread : Registered(v) /\ want[v] = x}
        BY <1>3, <2>1, <3>2 DEF id
      <4>2. EntryOf(x)' = EntryOf(x)
        BY <1>4, <3>2
      <4> QED
        BY <4>1, <4>2 DEF WaitInv, WaiterFlagExact
    <3> QED
      BY <3>1, <3>2
  <2> QED
    BY <2>2 DEF WaiterFlagExact
<1>8. TakeFindsLog'
  BY <1>1, <1>2, <1>3, <1>4 DEF WaitInv, TakeFindsLog, HasLog, Registered
<1> QED
  BY <1>5, <1>6, <1>7, <1>8 DEF WaitInv

\* What setEventLog does to the entries and to the threads.
LEMMA SetEventLogEffect ==
    ASSUME WaitInv, SetEventLog
    PROVE  /\ setting \in LogId
           /\ \A x : x = setting => EntryOf(x)' = [EntryOf(x) EXCEPT !.hasEventLog = TRUE]
           /\ \A x : x # setting => EntryOf(x)' = EntryOf(x)
           /\ DOMAIN eventLogMap' = DOMAIN eventLogMap \union {setting}
           /\ eventLogMap'[setting] = [EntryOf(setting) EXCEPT !.hasEventLog = TRUE]
           /\ \A x \in DOMAIN eventLogMap \ {setting} : eventLogMap'[x] = eventLogMap[x]
           /\ \A x : EntryOf(x)'.hasWaitingThread = EntryOf(x).hasWaitingThread
           /\ \A x : EntryOf(x)'.hasEventLog = (EntryOf(x).hasEventLog \/ x = setting)
<1>0. TypeOK
  BY DEF WaitInv
<1>1. setting \in LogId
  BY <1>0 DEF WaitInv, Bookkeeping, SetEventLog, TypeOK
<1>2. PICK id \in LogId : id = setting
  BY <1>1
<1> DEFINE e == [EntryOf(id) EXCEPT !.hasEventLog = TRUE]
<1>3. PICK f : f = e
  OBVIOUS
<1>4. eventLogMap' = With(id, f)
  BY <1>2, <1>3 DEF SetEventLog
<1>5. /\ EntryOf(id)' = f
      /\ \A x : x # id => EntryOf(x)' = EntryOf(x)
      /\ DOMAIN eventLogMap' = DOMAIN eventLogMap \union {id}
      /\ eventLogMap'[id] = f
      /\ \A x \in DOMAIN eventLogMap \ {id} : eventLogMap'[x] = eventLogMap[x]
  BY <1>4, EntryOfPut
<1>6. EntryOf(id) \in Entry
  BY <1>0, EntryOfType
<1>7. /\ f.hasWaitingThread = EntryOf(id).hasWaitingThread
      /\ f.hasEventLog = TRUE
  BY <1>3, <1>6 DEF Entry
<1>8. \A x : EntryOf(x).hasEventLog \in BOOLEAN
  BY <1>0, EntryOfType DEF Entry
<1>9. /\ \A x : EntryOf(x)'.hasWaitingThread = EntryOf(x).hasWaitingThread
      /\ \A x : EntryOf(x)'.hasEventLog = (EntryOf(x).hasEventLog \/ x = id)
  BY <1>5, <1>7, <1>8
<1> QED
  BY <1>2, <1>3, <1>5, <1>9

\* setEventLog sends sleepers back to the loop condition and moves nobody else.
LEMMA SetEventLogMoves ==
    ASSUME WaitInv, SetEventLog
    PROVE  /\ pc' \in [Thread -> PC]
           /\ \A t \in Thread : \/ pc'[t] = pc[t]
                                \/ pc[t] = "asleep" /\ pc'[t] = "test"
           /\ \A t \in Thread : pc[t] = "asleep" /\ want[t] = setting => pc'[t] = "test"
<1>1. pc' = [t \in Thread |->
               IF EntryOf(setting).hasWaitingThread /\ t \in Sleepers(setting)
               THEN "test" ELSE pc[t]]
  BY DEF SetEventLog
<1>2. pc \in [Thread -> PC]
  BY DEF WaitInv, TypeOK
<1>3. \A t \in Thread : pc[t] = "asleep" /\ want[t] = setting => EntryOf(setting).hasWaitingThread
  BY FlagOfWaiter DEF Registered
<1> QED
  BY <1>1, <1>2, <1>3 DEF PC, Sleepers

\* The listener stores a log: flags and waiters stay what they are.
LEMMA SetEventLogInv ==
    ASSUME WaitInv, SetEventLog
    PROVE  WaitInv'
<1>0. TypeOK
  BY DEF WaitInv
<1>1. /\ pc' \in [Thread -> PC]
      /\ \A t \in Thread : \/ pc'[t] = pc[t]
                           \/ pc[t] = "asleep" /\ pc'[t] = "test"
  BY SetEventLogMoves
<1>2. /\ mtx' = Nobody
      /\ setting' = NoId
      /\ UNCHANGED <<want, outcome, inbox, crashed>>
  BY DEF SetEventLog
<1>3. TypeOK'
  <2>1. [EntryOf(setting) EXCEPT !.hasEventLog = TRUE] \in Entry
    <3>1. EntryOf(setting) \in Entry
      BY <1>0, EntryOfType
    <3> QED
      BY <3>1 DEF Entry
  <2> QED
    BY <1>0, <1>1, <1>2, <2>1, SetEventLogEffect DEF TypeOK
<1>4. Bookkeeping'
  BY <1>1, <1>2 DEF WaitInv, Bookkeeping
<1>5. \A t \in Thread : Registered(t)' <=> Registered(t)
  BY <1>1 DEF Registered
<1>6. WaiterFlagExact'
  <2>1. ASSUME NEW x \in LogId
        PROVE  /\ {v \in Thread : Registered(v)' /\ want'[v] = x}
                    = {v \in Thread : Registered(v) /\ want[v] = x}
               /\ EntryOf(x)'.hasWaitingThread = EntryOf(x).hasWaitingThread
    BY <1>2, <1>5, SetEventLogEffect
  <2> QED
    BY <2>1 DEF WaitInv, WaiterFlagExact
<1>7. TakeFindsLog'
  <2>1. \A x : EntryOf(x)'.hasEventLog = (EntryOf(x).hasEventLog \/ x = setting)
    BY SetEventLogEffect
  <2> QED
    BY <1>1, <1>2, <2>1 DEF WaitInv, TakeFindsLog, HasLog
<1> QED
  BY <1>3, <1>4, <1>6, <1>7 DEF WaitInv

\* Every step keeps the invariant.
LEMMA WaitInvStep == WaitInv /\ [Next]_waitVars => WaitInv'
<1> SUFFICES ASSUME WaitInv, [Next]_waitVars PROVE WaitInv'
  OBVIOUS
<1>0. TypeOK
  BY DEF WaitInv
<1>1. ASSUME NEW t \in Thread, NEW id \in LogId, Call(t, id) PROVE WaitInv'
  BY <1>1, CallInv
<1>2. ASSUME NEW t \in Thread, ThreadStep(t) \/ WakeSpuriously(t) PROVE WaitInv'
  <2>0. outcome \in [Thread -> Outcome]
    BY <1>0 DEF TypeOK
  <2>1. CASE Lock(t)
    BY <2>0, <2>1, MoveInv DEF Lock, Acquire, PC
  <2>2. CASE RegisterBusy(t)
    <3>1. outcome' \in [Thread -> Outcome]
      BY <2>0, <2>2 DEF RegisterBusy, Outcome
    <3> QED
      BY <2>2, <3>1, MoveInv DEF RegisterBusy, PC
  <2>3. CASE RegisterAndTake(t)
    BY <2>3, RegisterAndTakeInv
  <2>4. CASE RegisterAndWait(t)
    BY <2>4, RegisterAndWaitInv
  <2>5. CASE Test(t)
    <3>1. CASE HasLog(want[t])
      BY <2>0, <2>5, <3>1, MoveInv DEF Test, PC
    <3>2. CASE ~ HasLog(want[t])
      BY <2>0, <2>5, <3>2, MoveInv DEF Test, PC
    <3> QED
      BY <3>1, <3>2
  <2>6. CASE Block(t)
    BY <2>0, <2>6, MoveInv DEF Block, PC
  <2>7. CASE Relock(t)
    <3>1. HasLog(want[t])
      BY <2>7 DEF WaitInv, TakeFindsLog, Relock, Goto
    <3> QED
      BY <2>0, <2>7, <3>1, MoveInv DEF Relock, Acquire, PC
  <2>8. CASE Take(t)
    BY <2>8, TakeInv
  <2>9. CASE WakeSpuriously(t)
    BY <2>0, <2>9, MoveInv DEF WakeSpuriously, PC
  <2> QED
    BY <1>2, <2>1, <2>2, <2>3, <2>4, <2>5, <2>6, <2>7, <2>8, <2>9 DEF ThreadStep, Register
<1>3. ASSUME NEW t \in Thread, RaceCrash(t) PROVE WaitInv'
  BY <1>0, <1>3, AsideInv DEF RaceCrash, WaitInv, Bookkeeping, TypeOK
<1>4. ASSUME NEW id \in LogId, Deliver(id) PROVE WaitInv'
  BY <1>0, <1>4, AsideInv, AppendProperties DEF Deliver, WaitInv, Bookkeeping, TypeOK
<1>5. CASE NextLog
  <2>1. Head(inbox) \in LogId /\ Tail(inbox) \in Seq(LogId)
    BY <1>0, <1>5, HeadTailProperties DEF NextLog, TypeOK
  <2> QED
    BY <1>0, <1>5, <2>1, AsideInv DEF NextLog, WaitInv, Bookkeeping, TypeOK
<1>6. CASE SetLock
  BY <1>0, <1>6, AsideInv DEF SetLock, Acquire, TypeOK
<1>7. CASE SetEventLog
  BY <1>7, SetEventLogInv
<1>8. CASE UNCHANGED waitVars
  BY <1>0, <1>8, AsideInv DEF waitVars, WaitInv, Bookkeeping, TypeOK
<1> QED
  BY <1>1, <1>2, <1>3, <1>4, <1>5, <1>6, <1>7, <1>8 DEF Next, ListenerStep

\* Every reachable state satisfies the invariant.
LEMMA WaitInvHolds == Spec => []WaitInv
BY WaitInvInit, WaitInvStep, PTL DEF Spec

-----------------------------------------------------------------------------
(* The theorems                                                            *)

\* The map holds entries under transaction hashes only, and every thread, the
\* listener and the mutex are in one of their states.
THEOREM WaitTypeCorrect == Spec => []TypeOK
<1>1. WaitInv => TypeOK
  BY DEF WaitInv
<1> QED
  BY <1>1, WaitInvHolds, PTL

\* hasWaitingThread is set on an entry exactly while one thread waits for that
\* log, and no two threads ever wait for the same log.
THEOREM FlagExact == Spec => []WaiterFlagExact
<1>1. WaitInv => WaiterFlagExact
  BY DEF WaitInv
<1> QED
  BY <1>1, WaitInvHolds, PTL

\* The log a thread copies after the loop is there, however the wake-ups,
\* notifications and other threads interleave.
THEOREM LogFound == Spec => []TakeFindsLog
<1>1. WaitInv => TakeFindsLog
  BY DEF WaitInv
<1> QED
  BY <1>1, WaitInvHolds, PTL

-----------------------------------------------------------------------------
(* The mutex                                                               *)

Inside(t) == pc[t] \in {"register", "take"}

\* A thread holds the mutex exactly in the critical sections of getEventLog.
HolderInside == \A t \in Thread : Inside(t) <=> mtx = t

LEMMA HolderStep ==
    ASSUME TypeOK, HolderInside, [Next]_waitVars
    PROVE  HolderInside'
<1>1. ASSUME NEW t \in Thread, NEW from, NEW to, Goto(t, from, to), mtx' \in {mtx, t, Nobody},
             from \in {"register", "take"} <=> mtx = t, to \in {"register", "take"} <=> mtx' = t,
             mtx' # mtx => mtx \in {t, Nobody}
      PROVE  HolderInside'
  <2>1. pc[t] = from /\ pc'[t] = to /\ \A u \in Thread \ {t} : pc'[u] = pc[u]
    BY <1>1, GotoEffect
  <2>2. \A u \in Thread : u # Nobody
    OBVIOUS
  <2> QED
    BY <1>1, <2>1, <2>2 DEF HolderInside, Inside
<1>2. ASSUME NEW t \in Thread, NEW id \in LogId, Call(t, id) PROVE HolderInside'
  <2>1. pc[t] = "idle" /\ mtx # t
    BY <1>2 DEF Call, Goto, HolderInside, Inside
  <2> QED
    BY <1>1, <1>2, <2>1 DEF Call
<1>3. ASSUME NEW t \in Thread, Lock(t) \/ Relock(t) PROVE HolderInside'
  <2>1. mtx = Nobody /\ mtx' = t /\ t # Nobody
    BY <1>3 DEF Lock, Relock, Acquire
  <2> QED
    BY <1>1, <1>3, <2>1 DEF Lock, Relock
<1>4. ASSUME NEW t \in Thread, Register(t) \/ Take(t) PROVE HolderInside'
  <2>1. /\ mtx' = Nobody /\ t # Nobody
        /\ \E from \in {"register", "take"}, to \in {"idle", "test"} : Goto(t, from, to)
    BY <1>4 DEF Register, RegisterBusy, RegisterAndTake, RegisterAndWait, Take
  <2>2. mtx = t
    BY <2>1 DEF Goto, HolderInside, Inside
  <2> QED
    BY <1>1, <2>1, <2>2
<1>5. ASSUME NEW t \in Thread, Test(t) \/ Block(t) \/ WakeSpuriously(t) PROVE HolderInside'
  <2>1. /\ UNCHANGED mtx
        /\ \E from \in {"test", "block", "asleep"}, to \in {"relock", "block", "asleep", "test"} : Goto(t, from, to)
    BY <1>5 DEF Test, Block, WakeSpuriously
  <2>2. mtx # t
    BY <2>1 DEF Goto, HolderInside, Inside
  <2> QED
    BY <1>1, <2>1, <2>2
<1>6. CASE UNCHANGED <<pc, mtx>>
  BY <1>6 DEF HolderInside, Inside
<1>7. CASE SetLock
  BY <1>7 DEF SetLock, Acquire, HolderInside, Inside
<1>8. CASE SetEventLog
  <2>1. \A t \in Thread : Inside(t)' <=> Inside(t)
    BY <1>8 DEF SetEventLog, Sleepers, Inside
  <2> QED
    BY <1>8, <2>1 DEF SetEventLog, HolderInside
<1> QED
  BY <1>2, <1>3, <1>4, <1>5, <1>6, <1>7, <1>8
  DEF Next, ThreadStep, ListenerStep, RaceCrash, Deliver, NextLog, waitVars

\* The critical sections of getEventLog and setEventLog exclude each other: a
\* thread that is inside one holds mtx, so no other thread is, nor the listener.
THEOREM SectionsExclude == Spec => []HolderInside
<1>1. Init => HolderInside
  BY DEF Init, HolderInside, Inside
<1> QED
  BY <1>1, HolderStep, WaitTypeCorrect, PTL DEF Spec

\* Whoever changes eventLogMap holds mtx, and releases it by that very step.
MapGuarded ==
    [][eventLogMap' # eventLogMap =>
          /\ mtx' = Nobody
          /\ mtx = Listener \/ \E t \in Thread : mtx = t /\ Inside(t)]_waitVars

\* Entries are made, filled and erased under the mutex only, also by the paths of
\* getEventLog that read them without it.
THEOREM MapChangesGuarded == Spec => MapGuarded
<1> DEFINE Guarded == eventLogMap' # eventLogMap =>
                        /\ mtx' = Nobody
                        /\ mtx = Listener \/ \E t \in Thread : mtx = t /\ Inside(t)
<1>1. ASSUME HolderInside, [Next]_waitVars PROVE Guarded
  <2>1. ASSUME NEW t \in Thread, RegisterAndTake(t) \/ RegisterAndWait(t) \/ Take(t) PROVE Guarded
    <3>1. Inside(t) /\ mtx' = Nobody
      BY <2>1 DEF RegisterAndTake, RegisterAndWait, Take, Goto, Inside
    <3> QED
      BY <1>1, <3>1 DEF HolderInside
  <2>2. CASE SetEventLog
    BY <2>2 DEF SetEventLog
  <2>3. CASE UNCHANGED eventLogMap
    BY <2>3
  <2> QED
    BY <1>1, <2>1, <2>2, <2>3
    DEF Next, Call, ThreadStep, Lock, Register, RegisterBusy, Test, Block, Relock, WakeSpuriously, RaceCrash,
        Deliver, ListenerStep, NextLog, SetLock, waitVars
<1>2. HolderInside /\ [Next]_waitVars => [Guarded]_waitVars
  BY <1>1
<1> QED
  BY <1>2, SectionsExclude, PTL DEF Spec, MapGuarded

\* A thread inside getEventLog that is not asleep, nor in front of a mutex
\* somebody holds, can go on; so can a listener with something to do.
ThreadRuns(t) == pc[t] \notin {"idle", "asleep"} /\ (pc[t] \in {"lock", "relock"} => mtx = Nobody)
ListenerRuns == IF setting = NoId THEN inbox # <<>> ELSE mtx \in {Listener, Nobody}

\* When neither a thread nor the listener can go on, the mutex is free, every log
\* that was received is stored, and a thread that has not returned sleeps in
\* cv.wait(), not in front of the mutex.
RestsOnlyAsleep ==
    ~ ListenerRuns /\ (\A t \in Thread : ~ ThreadRuns(t)) =>
        /\ mtx = Nobody /\ setting = NoId /\ inbox = <<>>
        /\ \A t \in Thread : pc[t] \in {"idle", "asleep"}

\* The manager does not deadlock: no threads wait for each other in a circle
\* through mtx and the condition variables.
THEOREM NoDeadlock == Spec => []RestsOnlyAsleep
<1>1. ASSUME WaitInv, HolderInside PROVE RestsOnlyAsleep
  <2> SUFFICES ASSUME ~ ListenerRuns, \A t \in Thread : ~ ThreadRuns(t)
               PROVE  /\ mtx = Nobody /\ setting = NoId /\ inbox = <<>>
                      /\ \A t \in Thread : pc[t] \in {"idle", "asleep"}
    BY DEF RestsOnlyAsleep
  <2>1. mtx \notin Thread
    BY <1>1 DEF HolderInside, Inside, ThreadRuns
  <2>2. mtx # Listener
    BY <1>1 DEF WaitInv, Bookkeeping, ListenerRuns
  <2>3. mtx = Nobody
    BY <1>1, <2>1, <2>2 DEF WaitInv, TypeOK
  <2>4. setting = NoId /\ inbox = <<>>
    BY <2>3 DEF ListenerRuns
  <2>5. \A t \in Thread : pc[t] \in {"idle", "asleep"}
    BY <2>3 DEF ThreadRuns
  <2> QED
    BY <2>3, <2>4, <2>5
<1> QED
  BY <1>1, WaitInvHolds, SectionsExclude, PTL

-----------------------------------------------------------------------------
(* Stranding                                                               *)

\* A step that strands a thread is that thread's own, into cv.wait().
LEMMA StrandedStep ==
    ASSUME WaitInv, Next, NEW t \in Thread, ~ Stranded(t), Stranded(t)'
    PROVE  pc[t] = "block"
<1>0. /\ TypeOK
      /\ pc'[t] = "asleep"
      /\ EntryOf(want[t])'.hasEventLog
      /\ pc[t] = "asleep" => ~ EntryOf(want[t]).hasEventLog
  BY DEF WaitInv, Stranded, HasLog
<1>1. ASSUME UNCHANGED <<eventLogMap, pc, want>> PROVE FALSE
  BY <1>0, <1>1 DEF EntryOf
<1>2. ASSUME NEW u \in Thread, NEW from, NEW to, Goto(u, from, to),
             UNCHANGED <<eventLogMap, want>>, to = "asleep" => from = "block"
      PROVE  pc[t] = "block"
  <2>1. CASE u = t
    BY <1>0, <1>2, <2>1, GotoEffect
  <2>2. CASE u # t
    <3>1. pc'[t] = pc[t]
      BY <1>0, <1>2, <2>2, GotoEffect
    <3> QED
      BY <1>0, <1>2, <3>1 DEF EntryOf
  <2> QED
    BY <2>1, <2>2
<1>3. ASSUME NEW u \in Thread, NEW id \in LogId, Call(u, id) PROVE FALSE
  <2>1. u # t /\ pc'[t] = pc[t]
    BY <1>0, <1>3, GotoEffect DEF Call
  <2>2. want'[t] = want[t] /\ eventLogMap' = eventLogMap
    BY <1>0, <1>3, <2>1 DEF Call, TypeOK
  <2> QED
    BY <1>0, <2>1, <2>2 DEF EntryOf
<1>4. ASSUME NEW u \in Thread, RegisterAndTake(u) \/ Take(u) PROVE FALSE
  <2>1. u # t /\ pc'[t] = pc[t]
    BY <1>0, <1>4, GotoEffect DEF RegisterAndTake, Take
  <2>2. PICK id : id = want[u]
    OBVIOUS
  <2>3. want' = want /\ eventLogMap' = Without(id)
    BY <1>4, <2>2 DEF RegisterAndTake, Take
  <2>4. EntryOf(want[t])' = EntryOf(want[t]) \/ EntryOf(want[t])' = NewEntry
    <3>1. PICK x : x = want[t]
      OBVIOUS
    <3> QED
      BY <2>3, <3>1, EntryOfErase
  <2> QED
    BY <1>0, <2>1, <2>4 DEF NewEntry
<1>5. ASSUME NEW u \in Thread, RegisterAndWait(u) PROVE FALSE
  <2>1. u # t /\ pc'[t] = pc[t]
    BY <1>0, <1>5, GotoEffect DEF RegisterAndWait
  <2>2. PICK id : id = want[u]
    OBVIOUS
  <2>3. PICK e : e = [NewEntry EXCEPT !.hasWaitingThread = TRUE]
    OBVIOUS
  <2>4. want' = want /\ eventLogMap' = With(id, e)
    BY <1>5, <2>2, <2>3 DEF RegisterAndWait
  <2>5. EntryOf(want[t])' = EntryOf(want[t]) \/ EntryOf(want[t])' = e
    <3>1. PICK x : x = want[t]
      OBVIOUS
    <3> QED
      BY <2>4, <3>1, EntryOfPut
  <2>6. ~ e.hasEventLog
    BY <2>3 DEF NewEntry
  <2> QED
    BY <1>0, <2>1, <2>5, <2>6
<1>6. ASSUME SetEventLog PROVE FALSE
  <2>1. pc[t] = "asleep" /\ want'[t] = want[t] /\ want[t] # setting
    BY <1>0, <1>6, SetEventLogMoves DEF SetEventLog
  <2>2. EntryOf(want[t])' = EntryOf(want[t])
    <3>1. PICK x : x = want[t]
      OBVIOUS
    <3> QED
      BY <1>6, <2>1, <3>1, SetEventLogEffect
  <2> QED
    BY <1>0, <2>1, <2>2
<1>7. ASSUME NEW u \in Thread, ThreadStep(u) \/ WakeSpuriously(u) PROVE pc[t] = "block"
  BY <1>2, <1>4, <1>5, <1>7
     DEF ThreadStep, Lock, Register, RegisterBusy, Test, Block, WakeSpuriously, Relock
<1> QED
  BY <1>1, <1>3, <1>6, <1>7
     DEF Next, RaceCrash, Deliver, ListenerStep, NextLog, SetLock

\* A sleeper whose log is set is sent back to the loop condition, so it can be
\* asleep next to its log only if it fell asleep next to it.
THEOREM StrandedInWindow == Spec => StrandedOnlyInWindow
<1>1. WaitInv /\ [Next]_waitVars =>
         [\A t \in Thread : ~ Stranded(t) /\ Stranded(t)' => pc[t] = "block"]_waitVars
  BY StrandedStep
<1> QED
  BY <1>1, WaitInvHolds, PTL DEF Spec, StrandedOnlyInWindow

-----------------------------------------------------------------------------
(* The manager is a mailbox                                                *)

\* The logs that are set and not taken, and who waits for which.
full == {id \in DOMAIN eventLogMap : eventLogMap[id].hasEventLog}
waitingFor == [t \in Thread |-> IF Registered(t) THEN want[t] ELSE NoId]

\* An id is full when its entry has a log.
LEMMA FullHasLog ==
    ASSUME TypeOK
    PROVE  \A id : id \in full <=> HasLog(id)
BY DEF full, HasLog, EntryOf, NewEntry, TypeOK, Entry

\* The same after a step.
LEMMA FullHasLogNext ==
    ASSUME TypeOK'
    PROVE  \A id : id \in full' <=> EntryOf(id)'.hasEventLog
BY DEF full, EntryOf, NewEntry, TypeOK, Entry

\* A step that neither sets nor takes a log and registers nobody shows nothing.
LEMMA HiddenStep ==
    ASSUME UNCHANGED eventLogMap,
           \A t \in Thread : (Registered(t) <=> Registered(t)') /\ (Registered(t) => want'[t] = want[t])
    PROVE  UNCHANGED <<full, waitingFor>>
BY DEF full, waitingFor

\* A thread that registers or leaves changes what it waits for, and nothing
\* else.
LEMMA OneWaiter ==
    ASSUME TypeOK, NEW t \in Thread, UNCHANGED want,
           \A u \in Thread \ {t} : pc'[u] = pc[u]
    PROVE  waitingFor' = [waitingFor EXCEPT ![t] = IF Registered(t)' THEN want[t] ELSE NoId]
BY DEF waitingFor, Registered

\* Each step of the manager is one operation of the mailbox or hidden.
LEMMA MailboxStep ==
    ASSUME WaitInv, WaitInv', [Next]_waitVars
    PROVE  [Abstract!Next]_(Abstract!vars)
<1> DEFINE hidden == UNCHANGED <<full, waitingFor>>
<1>0. TypeOK /\ TypeOK'
  BY DEF WaitInv
<1>1. ASSUME NEW t \in Thread, NEW from, NEW to, Goto(t, from, to), UNCHANGED <<eventLogMap, want>>,
             (from \in {"test", "block", "asleep", "relock", "take"})
                <=> (to \in {"test", "block", "asleep", "relock", "take"})
      PROVE  hidden
  BY <1>0, <1>1, GotoEffect, HiddenStep DEF Registered
<1>2. ASSUME NEW t \in Thread, NEW id \in LogId, Call(t, id) PROVE hidden
  <2>1. /\ pc[t] = "idle" /\ pc'[t] = "lock"
        /\ \A u \in Thread \ {t} : pc'[u] = pc[u] /\ want'[u] = want[u]
        /\ UNCHANGED eventLogMap
    BY <1>0, <1>2, GotoEffect DEF Call, TypeOK
  <2> QED
    BY <2>1, HiddenStep DEF Registered
<1>3. ASSUME UNCHANGED <<eventLogMap, pc, want>> PROVE hidden
  BY <1>3, HiddenStep DEF Registered
<1>4. ASSUME SetEventLog PROVE Abstract!Next
  <2>1. full' = full \union {setting}
    <3>1. \A x : EntryOf(x)'.hasEventLog <=> (EntryOf(x).hasEventLog \/ x = setting)
      BY <1>4, SetEventLogEffect
    <3>2. \A x : x \in full' <=> x \in full \/ x = setting
      BY <1>0, <3>1, FullHasLog, FullHasLogNext DEF HasLog
    <3> QED
      BY <3>2
  <2>2. waitingFor' = waitingFor
    BY <1>4, SetEventLogMoves DEF SetEventLog, waitingFor, Registered
  <2>3. setting \in LogId
    BY <1>4, SetEventLogEffect
  <2> QED
    BY <2>1, <2>2, <2>3 DEF Abstract!Next, Abstract!Put, full, waitingFor
<1>5. \A t \in Thread, id \in LogId :
         (\A u \in Thread : Registered(u) => want[u] # id) => \A u \in Thread : waitingFor[u] # id
  BY DEF waitingFor
<1>6. ASSUME NEW t \in Thread, NEW id \in LogId, id = want[t], pc[t] = "register",
             ~ EntryOf(id).hasWaitingThread
      PROVE  /\ \A u \in Thread : waitingFor[u] # id
             /\ waitingFor[t] = NoId
  BY <1>5, <1>6, FlagOfWaiter DEF waitingFor, Registered
<1>7. ASSUME NEW t \in Thread, RegisterAndWait(t) PROVE Abstract!Next
  <2>1. PICK id \in LogId : id = want[t]
    BY <1>7 DEF WaitInv, Bookkeeping, RegisterAndWait, Goto
  <2>2. PICK e : e = [NewEntry EXCEPT !.hasWaitingThread = TRUE]
    OBVIOUS
  <2>3. ~ e.hasEventLog
    BY <2>2 DEF NewEntry
  <2>4. /\ pc[t] = "register" /\ pc'[t] = "test"
        /\ \A u \in Thread \ {t} : pc'[u] = pc[u]
        /\ UNCHANGED want
        /\ ~ EntryOf(id).hasWaitingThread
        /\ ~ EntryOf(id).hasEventLog
        /\ eventLogMap' = With(id, e)
    BY <1>0, <1>7, <2>1, <2>2, GotoEffect DEF RegisterAndWait, HasLog
  <2>5. full' = full
    <3>1. /\ EntryOf(id)' = e
          /\ \A x : x # id => EntryOf(x)' = EntryOf(x)
      BY <2>4, EntryOfPut
    <3>2. \A x : EntryOf(x)'.hasEventLog <=> EntryOf(x).hasEventLog
      BY <2>3, <2>4, <3>1
    <3>3. \A x : x \in full' <=> x \in full
      BY <1>0, <3>2, FullHasLog, FullHasLogNext DEF HasLog
    <3> QED
      BY <3>3 DEF full
  <2>6. waitingFor' = [waitingFor EXCEPT ![t] = id]
    BY <1>0, <2>1, <2>4, OneWaiter DEF Registered
  <2>7. /\ \A u \in Thread : waitingFor[u] # id
        /\ waitingFor[t] = NoId
    BY <1>6, <2>1, <2>4
  <2>8. Abstract!Wait(t, id)
    BY <2>5, <2>6, <2>7 DEF Abstract!Wait, Abstract!Free, full, waitingFor
  <2> QED
    BY <2>8 DEF Abstract!Next
<1>8. ASSUME NEW t \in Thread, RegisterAndTake(t) PROVE Abstract!Next
  <2>1. PICK id \in LogId : id = want[t]
    BY <1>8 DEF WaitInv, Bookkeeping, RegisterAndTake, Goto
  <2>2. /\ pc[t] = "register" /\ pc'[t] = "idle"
        /\ \A u \in Thread \ {t} : pc'[u] = pc[u]
        /\ UNCHANGED want
        /\ ~ EntryOf(id).hasWaitingThread
        /\ EntryOf(id).hasEventLog
        /\ eventLogMap' = Without(id)
    BY <1>0, <1>8, <2>1, GotoEffect DEF RegisterAndTake, HasLog
  <2>3. full' = full \ {id}
    <3>1. /\ EntryOf(id)' = NewEntry
          /\ \A x : x # id => EntryOf(x)' = EntryOf(x)
      BY <2>2, EntryOfErase
    <3>2. \A x : EntryOf(x)'.hasEventLog <=> EntryOf(x).hasEventLog /\ x # id
      BY <3>1 DEF NewEntry
    <3>3. \A x : x \in full' <=> x \in full /\ x # id
      BY <1>0, <3>2, FullHasLog, FullHasLogNext DEF HasLog
    <3> QED
      BY <3>3
  <2>4. waitingFor' = waitingFor
    BY <2>2 DEF waitingFor, Registered
  <2>5. id \in full
    BY <1>0, <2>2, FullHasLog DEF HasLog
  <2>6. /\ \A u \in Thread : waitingFor[u] # id
        /\ waitingFor[t] = NoId
    BY <1>6, <2>1, <2>2
  <2>7. Abstract!TakeAtOnce(t, id)
    BY <2>3, <2>4, <2>5, <2>6 DEF Abstract!TakeAtOnce, Abstract!Free, full, waitingFor
  <2> QED
    BY <2>7 DEF Abstract!Next
<1>9. ASSUME NEW t \in Thread, Take(t) PROVE Abstract!Next
  <2>1. PICK id \in LogId : id = want[t]
    BY <1>9 DEF WaitInv, Bookkeeping, Take, Goto
  <2>2. /\ pc[t] = "take" /\ pc'[t] = "idle"
        /\ \A u \in Thread \ {t} : pc'[u] = pc[u]
        /\ UNCHANGED want
        /\ eventLogMap' = Without(id)
    BY <1>0, <1>9, <2>1, GotoEffect DEF Take
  <2>3. EntryOf(id).hasEventLog
    BY <2>1, <2>2 DEF WaitInv, TakeFindsLog, HasLog
  <2>4. full' = full \ {id}
    <3>1. /\ EntryOf(id)' = NewEntry
          /\ \A x : x # id => EntryOf(x)' = EntryOf(x)
      BY <2>2, EntryOfErase
    <3>2. \A x : EntryOf(x)'.hasEventLog <=> EntryOf(x).hasEventLog /\ x # id
      BY <3>1 DEF NewEntry
    <3>3. \A x : x \in full' <=> x \in full /\ x # id
      BY <1>0, <3>2, FullHasLog, FullHasLogNext DEF HasLog
    <3> QED
      BY <3>3
  <2>5. waitingFor' = [waitingFor EXCEPT ![t] = NoId]
    BY <1>0, <2>2, OneWaiter DEF Registered
  <2>6. waitingFor[t] = id /\ id \in full
    BY <1>0, <2>1, <2>2, <2>3, FullHasLog DEF waitingFor, Registered, HasLog
  <2>7. Abstract!Take(t)
    BY <2>4, <2>5, <2>6 DEF Abstract!Take, full, waitingFor
  <2> QED
    BY <2>7 DEF Abstract!Next
<1>10. ASSUME NEW t \in Thread, ThreadStep(t) \/ WakeSpuriously(t) PROVE hidden \/ Abstract!Next
  <2>1. CASE Lock(t) \/ RegisterBusy(t) \/ Block(t) \/ WakeSpuriously(t) \/ Relock(t)
    BY <1>1, <2>1 DEF Lock, RegisterBusy, Block, WakeSpuriously, Relock
  <2>2. CASE Test(t)
    BY <1>1, <2>2 DEF Test
  <2> QED
    BY <1>7, <1>8, <1>9, <1>10, <2>1, <2>2 DEF ThreadStep, Register
<1>11. ASSUME (\E t \in Thread : RaceCrash(t)) \/ (\E id \in LogId : Deliver(id))
              \/ NextLog \/ SetLock \/ UNCHANGED waitVars
       PROVE  hidden
  BY <1>3, <1>11 DEF RaceCrash, Deliver, NextLog, SetLock, waitVars
<1> HIDE DEF hidden
<1>12. hidden \/ Abstract!Next
  BY <1>2, <1>4, <1>10, <1>11 DEF Next, ListenerStep
<1> QED
  BY <1>12 DEF hidden, Abstract!vars, full, waitingFor

\* The manager implements the mailbox: a log that was set stays until one
\* thread takes it, each log is taken once, and one thread at a time waits for
\* a given log.
THEOREM IsMailbox == Spec => ImplementsMailbox
<1>1. Init => Abstract!Init
  BY DEF Init, Abstract!Init, Registered
<1>2. WaitInv /\ WaitInv' /\ [Next]_waitVars => [Abstract!Next]_(Abstract!vars)
  BY MailboxStep
<1> QED
  BY <1>1, <1>2, WaitInvHolds, PTL DEF Spec, ImplementsMailbox, Abstract!Spec

=============================================================================
