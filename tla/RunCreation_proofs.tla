--------------------------- MODULE RunCreation_proofs ---------------------------
(******************************************************************************)
(* Proofs about the creation of runs, for any number of runs, sessions and    *)
(* keys and any poll interval.                                                *)
(******************************************************************************)
EXTENDS RunCreation, TLAPS

--------------------------------------------------------------------------------
(* The inductive invariant.                                                   *)

Locking == {"retry", "schedule"}

\* What a session knows of the runs.
SessionOK(x) ==
  /\ x.pc = "answered" /\ x.key # NoRun => With(x.key) = {x.run}
  /\ x.pc \in Locking =>
       With(x.key) = IF x.pc = "schedule" /\ x.run # NoRun THEN {x.run} ELSE {}
  /\ x.pc \in Locking => x.key # NoRun
  /\ x.pc = "schedule" => nextFetch <= x.at
  /\ x.pc = "original" => x.run \in RunId
  /\ x.pc \in {"insert", "placed"} => x.key \in SuppliedKey \cup {NoRun}
  /\ x.pc = "placed" /\ x.key # NoRun => With(x.key) = {}

\* The unique index on source and key.
OneRunPerKey ==
  \A r, q \in RunId :
    /\ runs[r] # NoRun /\ runs[q] # NoRun
    /\ runs[r].key = runs[q].key /\ runs[r].key # NoRun
    => r = q

\* One session has the source locked.
OneLock ==
  \A s, p \in Session : sessions[s].pc \in Locking /\ sessions[p].pc \in Locking => s = p

\* One request has placed a key.
OneEntry ==
  \A s, p \in Session :
    /\ sessions[s].pc = "placed" /\ sessions[p].pc = "placed"
    /\ sessions[s].key = sessions[p].key /\ sessions[s].key # NoRun
    => s = p

\* The next fetch is due a poll interval after the last scheduled run.
Spaced ==
  \A r \in RunId :
    runs[r] # NoRun /\ runs[r].trigger = "schedule" => runs[r].at + PollInterval <= nextFetch

CreationInv ==
  /\ CreationTypeOK
  /\ OneRunPerKey /\ OneLock /\ OneEntry /\ Spaced /\ ScheduledOncePerInterval
  /\ \A s \in Session : SessionOK(sessions[s])

--------------------------------------------------------------------------------
LEMMA SessionsIdle ==
  /\ IdleSession \in SessionStates
  /\ IdleSession.pc = "idle"
  /\ \A pc, key, run : LET x == [IdleSession EXCEPT !.pc = pc, !.key = key, !.run = run]
                       IN x.pc = pc /\ x.key = key /\ x.run = run
BY RunCreationAssumption DEF IdleSession, SessionStates, Key

LEMMA CreationInitially == CreationInit => CreationInv
<1> SUFFICES ASSUME CreationInit PROVE CreationInv
  OBVIOUS
<1>1. CreationTypeOK
  BY SessionsIdle, RunCreationAssumption DEF CreationInit, CreationTypeOK
<1>2. \A s \in Session : SessionOK(sessions[s])
  BY SessionsIdle DEF CreationInit, SessionOK, Locking
<1> QED BY <1>1, <1>2, SessionsIdle
        DEF CreationInit, CreationInv, OneRunPerKey, OneLock, OneEntry, Spaced, ScheduledOncePerInterval, Locking

\* A session that goes on while the runs and the source stay keeps the invariant
\* if what it then knows is true and it has a lock of the source, and a key it has
\* placed, to itself.
LEMMA OneSessionSteps ==
  ASSUME CreationInv, NEW s \in Session, NEW next \in SessionStates,
         SessionStep(s, next), SessionOK(next),
         next.pc \in Locking => sessions[s].pc \in Locking \/ SourceFree,
         next.pc = "placed" => KeyFree(next.key),
         UNCHANGED <<runs, sourceActive, nextFetch, minute>>
  PROVE  CreationInv'
<1>1. /\ sessions' \in [Session -> SessionStates]
      /\ sessions'[s] = next
      /\ \A p \in Session \ {s} : sessions'[p] = sessions[p]
  BY DEF CreationInv, CreationTypeOK, SessionStep
<1>2. CreationTypeOK'
  BY <1>1 DEF CreationInv, CreationTypeOK
<1>3. OneRunPerKey' /\ Spaced' /\ ScheduledOncePerInterval'
  BY DEF CreationInv, OneRunPerKey, Spaced, ScheduledOncePerInterval
<1>4. OneLock'
  BY <1>1 DEF CreationInv, OneLock, SourceFree, Locking
<1>5. OneEntry'
  BY <1>1 DEF CreationInv, OneEntry, KeyFree
<1>6. \A p \in Session : SessionOK(sessions[p])'
  BY <1>1 DEF CreationInv, SessionOK, With
<1> QED BY <1>2, <1>3, <1>4, <1>5, <1>6 DEF CreationInv

--------------------------------------------------------------------------------
(* Inserting a run.                                                           *)

LEMMA InsertEffect ==
  ASSUME CreationTypeOK, NEW r \in RunId, runs[r] = NoRun, NEW key \in Key,
         NEW trigger \in {"manual", "schedule"}, NEW at \in 0 .. MaxMinute,
         Insert(r, key, trigger, at)
  PROVE  /\ runs' \in [RunId -> RunRecords \cup {NoRun}]
         /\ runs'[r] # NoRun /\ runs'[r].key = key
         /\ runs'[r].trigger = trigger /\ runs'[r].at = at
         /\ \A q \in RunId \ {r} : runs'[q] = runs[q]
         /\ \A k : With(k)' = IF k = key THEN With(k) \cup {r} ELSE With(k)
<1> DEFINE row == [key |-> key, trigger |-> trigger, at |-> at, failed |-> FALSE]
<1>1. /\ row \in RunRecords
      /\ row.key = key /\ row.trigger = trigger /\ row.at = at
  BY DEF RunRecords
<1>2. runs' = [runs EXCEPT ![r] = row]
  BY DEF Insert
<1> HIDE DEF row
<1>3. /\ runs' \in [RunId -> RunRecords \cup {NoRun}]
      /\ runs'[r] = row
      /\ \A q \in RunId \ {r} : runs'[q] = runs[q]
  BY <1>1, <1>2 DEF CreationTypeOK
<1>4. row # NoRun
  BY <1>1, NoRunAssumption
<1>5. ASSUME NEW k PROVE With(k)' = IF k = key THEN With(k) \cup {r} ELSE With(k)
  BY <1>1, <1>3, <1>4 DEF With
<1> QED BY <1>1, <1>3, <1>4, <1>5

\* An insert keeps the invariant if no run has the key, no other session has
\* placed it or has the source locked, and a scheduled run is not before its time.
LEMMA OneRunInserted ==
  ASSUME CreationInv, NEW s \in Session, NEW next \in SessionStates, SessionStep(s, next),
         next.pc \notin Locking, next.pc # "placed", SessionOK(next)',
         NEW r \in RunId, runs[r] = NoRun, NEW key \in Key,
         key # NoRun => With(key) = {},
         NEW trigger \in {"manual", "schedule"}, NEW at \in 0 .. MaxMinute,
         Insert(r, key, trigger, at),
         \A p \in Session \ {s} :
           /\ sessions[p].pc \notin Locking
           /\ key # NoRun => ~(sessions[p].pc = "placed" /\ sessions[p].key = key),
         UNCHANGED <<sourceActive, minute>>,
         IF trigger = "schedule" THEN nextFetch <= at /\ nextFetch' = at + PollInterval
                                 ELSE UNCHANGED nextFetch
  PROVE  CreationInv'
<1>1. /\ sessions' \in [Session -> SessionStates]
      /\ sessions'[s] = next
      /\ \A p \in Session \ {s} : sessions'[p] = sessions[p]
  BY DEF CreationInv, CreationTypeOK, SessionStep
<1>2. /\ runs' \in [RunId -> RunRecords \cup {NoRun}]
      /\ runs'[r] # NoRun /\ runs'[r].key = key
      /\ runs'[r].trigger = trigger /\ runs'[r].at = at
      /\ \A q \in RunId \ {r} : runs'[q] = runs[q]
      /\ \A k : With(k)' = IF k = key THEN With(k) \cup {r} ELSE With(k)
  BY InsertEffect DEF CreationInv
<1>3. /\ nextFetch \in Nat /\ nextFetch' \in 0 .. MaxMinute + PollInterval
      /\ nextFetch <= nextFetch' /\ PollInterval \in Nat \ {0} /\ at \in Nat
  BY RunCreationAssumption DEF CreationInv, CreationTypeOK
<1>4. CreationTypeOK'
  BY <1>1, <1>2, <1>3 DEF CreationInv, CreationTypeOK
<1>5. OneRunPerKey'
  BY <1>2 DEF CreationInv, OneRunPerKey, With
<1>6. OneLock' /\ OneEntry'
  BY <1>1 DEF CreationInv, OneLock, OneEntry
<1>7. \A q \in RunId \ {r} :
        runs[q] # NoRun => runs[q] \in RunRecords /\ runs[q].at \in Nat
  BY RunCreationAssumption DEF CreationInv, CreationTypeOK, RunRecords
<1>8. Spaced'
  <2> SUFFICES ASSUME NEW q \in RunId, runs'[q] # NoRun, runs'[q].trigger = "schedule"
               PROVE  runs'[q].at + PollInterval <= nextFetch'
    BY DEF Spaced
  <2>1. CASE q = r
    BY <1>2, <1>3, <2>1
  <2>2. CASE q # r
    BY <1>2, <1>3, <1>7, <2>2 DEF CreationInv, Spaced
  <2> QED BY <2>1, <2>2
<1>9. ScheduledOncePerInterval'
  <2>1. \A q \in RunId \ {r} :
          runs[q] # NoRun /\ runs[q].trigger = "schedule" /\ trigger = "schedule" =>
            at >= runs[q].at + PollInterval
    BY <1>3, <1>7 DEF CreationInv, Spaced
  <2> QED BY <1>2, <2>1 DEF CreationInv, ScheduledOncePerInterval
<1>10. ASSUME NEW p \in Session PROVE SessionOK(sessions[p])'
  <2>1. CASE p = s
    BY <1>1, <2>1
  <2>2. CASE p # s
    <3>1. PICK x : x = sessions[p] /\ x = sessions'[p]
      BY <1>1, <2>2
    <3>2. SessionOK(x) /\ x.pc \notin Locking
      BY <2>2, <3>1 DEF CreationInv
    <3>3. ASSUME x.pc = "answered", x.key # NoRun PROVE With(x.key)' = {x.run}
      <4>1. With(x.key) = {x.run}
        BY <3>2, <3>3 DEF SessionOK
      <4>2. x.key # key
        BY <3>3, <4>1
      <4> QED BY <1>2, <4>1, <4>2
    <3>4. ASSUME x.pc = "placed", x.key # NoRun PROVE With(x.key)' = {}
      <4>1. With(x.key) = {} /\ x.key # key
        BY <2>2, <3>1, <3>2, <3>4 DEF SessionOK
      <4> QED BY <1>2, <4>1
    <3>5. SessionOK(x)'
      BY <3>2, <3>3, <3>4 DEF SessionOK, Locking
    <3> QED BY <3>1, <3>5 DEF SessionOK, With
  <2> QED BY <2>1, <2>2
<1> QED BY <1>4, <1>5, <1>6, <1>8, <1>9, <1>10 DEF CreationInv

\* A session that is answered with the run of its key.
LEMMA AnsweredKnows ==
  ASSUME NEW s \in Session, NEW key \in Key, NEW r \in RunId, Answer(s, key, r)
  PROVE  \E next \in SessionStates :
           /\ SessionStep(s, next)
           /\ next.pc = "answered" /\ next.key = key /\ next.run = r
<1> DEFINE next == [IdleSession EXCEPT !.pc = "answered", !.key = key, !.run = r]
<1>1. next \in SessionStates /\ next.pc = "answered" /\ next.key = key /\ next.run = r
  BY SessionsIdle DEF SessionStates
<1>2. SessionStep(s, next)
  BY DEF Answer
<1> HIDE DEF next
<1> QED BY <1>1, <1>2

\* With one run of a key at most, any of them is all of them.
LEMMA WithIsOne ==
  ASSUME OneRunPerKey, NEW key, key # NoRun, NEW r \in With(key)
  PROVE  With(key) = {r}
BY DEF OneRunPerKey, With

--------------------------------------------------------------------------------
(* One lemma for each action.                                                 *)

LEMMA RequestRunKeeps ==
  ASSUME CreationInv, NEW s \in Session, NEW key \in SuppliedKey \cup {NoRun}, RequestRun(s, key)
  PROVE  CreationInv'
<1>1. key \in Key
  BY DEF Key
<1>2. CASE key # NoRun /\ With(key) # {}
  <2>1. PICK r \in With(key) : Answer(s, key, r)
    BY <1>2 DEF RequestRun
  <2>2. PICK next \in SessionStates :
          /\ SessionStep(s, next)
          /\ next.pc = "answered" /\ next.key = key /\ next.run = r
    BY <1>1, <2>1, AnsweredKnows DEF With
  <2>3. SessionOK(next)
    BY <1>2, <2>1, <2>2, WithIsOne DEF CreationInv, SessionOK, Locking
  <2> QED BY <2>2, <2>3, OneSessionSteps DEF RequestRun, Locking
<1>3. CASE ~(key # NoRun /\ With(key) # {})
  <2> DEFINE next == [IdleSession EXCEPT !.pc = "insert", !.key = key]
  <2>1. next \in SessionStates /\ next.pc = "insert" /\ next.key = key
    BY <1>1, SessionsIdle DEF SessionStates
  <2>2. SessionStep(s, next)
    BY <1>3 DEF RequestRun
  <2> HIDE DEF next
  <2>3. SessionOK(next)
    BY <2>1 DEF SessionOK, Locking
  <2> QED BY <2>1, <2>2, <2>3, OneSessionSteps DEF RequestRun, Locking
<1> QED BY <1>2, <1>3

LEMMA PlaceManualKeeps ==
  ASSUME CreationInv, NEW s \in Session, PlaceManual(s)
  PROVE  CreationInv'
<1>1. PICK key \in Key : key = sessions[s].key
  BY DEF CreationInv, CreationTypeOK, SessionStates
<1>2. /\ sessions[s] \in SessionStates /\ SessionOK(sessions[s])
      /\ sessions[s].pc = "insert" /\ KeyFree(key)
      /\ UNCHANGED <<runs, sourceActive, nextFetch, minute>>
  BY <1>1 DEF CreationInv, CreationTypeOK, PlaceManual
<1>3. CASE key # NoRun /\ With(key) # {}
  <2>1. PICK r \in With(key) : Answer(s, key, r)
    BY <1>1, <1>3 DEF PlaceManual
  <2>2. PICK next \in SessionStates :
          /\ SessionStep(s, next)
          /\ next.pc = "answered" /\ next.key = key /\ next.run = r
    BY <1>1, <2>1, AnsweredKnows DEF With
  <2>3. SessionOK(next)
    BY <1>3, <2>1, <2>2, WithIsOne DEF CreationInv, SessionOK, Locking
  <2> QED BY <1>2, <2>2, <2>3, OneSessionSteps DEF Locking
<1>4. CASE ~(key # NoRun /\ With(key) # {})
  <2> DEFINE next == [sessions[s] EXCEPT !.pc = "placed"]
  <2>1. next \in SessionStates /\ next.pc = "placed" /\ next.key = key
    BY <1>1, <1>2 DEF SessionStates
  <2>2. SessionStep(s, next)
    BY <1>1, <1>4 DEF PlaceManual
  <2> HIDE DEF next
  <2>3. SessionOK(next)
    BY <1>1, <1>2, <1>4, <2>1 DEF SessionOK, Locking
  <2> QED BY <1>2, <2>1, <2>2, <2>3, OneSessionSteps DEF Locking
<1> QED BY <1>3, <1>4

LEMMA InsertManualKeeps ==
  ASSUME CreationInv, NEW s \in Session, NEW r \in RunId, InsertManual(s, r)
  PROVE  CreationInv'
<1>1. PICK key \in Key : key = sessions[s].key
  BY DEF CreationInv, CreationTypeOK, SessionStates
<1>2. PICK next \in SessionStates :
        /\ SessionStep(s, next)
        /\ next.pc = "answered" /\ next.key = key /\ next.run = r
  BY <1>1, AnsweredKnows DEF InsertManual
<1>3. /\ runs[r] = NoRun /\ Insert(r, key, "manual", 0)
      /\ 0 \in 0 .. MaxMinute
      /\ UNCHANGED <<sourceActive, minute, nextFetch>>
  BY <1>1, RunCreationAssumption DEF InsertManual
<1>4. key # NoRun => With(key) = {}
  BY <1>1 DEF InsertManual, CreationInv, SessionOK
<1>5. \A p \in Session \ {s} :
        /\ sessions[p].pc \notin Locking
        /\ key # NoRun => ~(sessions[p].pc = "placed" /\ sessions[p].key = key)
  BY <1>1 DEF InsertManual, InsertWaits, SourceFree, Locking, CreationInv, OneEntry
<1>6. SessionOK(next)'
  <2>1. \A k : With(k)' = IF k = key THEN With(k) \cup {r} ELSE With(k)
    BY <1>3, InsertEffect DEF CreationInv
  <2>2. key # NoRun => With(key)' = {r}
    BY <1>4, <2>1
  <2> QED BY <1>2, <2>2 DEF SessionOK, Locking
<1> QED BY <1>2, <1>3, <1>4, <1>5, <1>6, OneRunInserted DEF Locking

\* Steps of a session that leave it without a lock of the source or an answer.
LEMMA UnlockedStepKeeps ==
  ASSUME CreationInv, NEW s \in Session,
         \/ \E r \in RunId : LockOriginal(s, r)
         \/ ReadClock(s)
         \/ SessionEnds(s)
  PROVE  CreationInv'
<1> DEFINE Plain(x) == x.pc \in {"beat", "idle"} \/ (x.pc = "original" /\ x.run \in RunId)
<1>1. PICK next \in SessionStates : SessionStep(s, next) /\ Plain(next)
  <2>1. ASSUME NEW r \in RunId, LockOriginal(s, r)
        PROVE  \E next \in SessionStates : SessionStep(s, next) /\ Plain(next)
    <3> DEFINE next == [IdleSession EXCEPT !.pc = "original", !.run = r]
    <3>1. next \in SessionStates /\ next.pc = "original" /\ next.run = r
      BY SessionsIdle DEF SessionStates
    <3>2. SessionStep(s, next)
      BY <2>1 DEF LockOriginal
    <3> HIDE DEF next
    <3> QED BY <3>1, <3>2
  <2>2. ASSUME ReadClock(s)
        PROVE  \E next \in SessionStates : SessionStep(s, next) /\ Plain(next)
    <3> DEFINE next == [IdleSession EXCEPT !.pc = "beat", !.at = minute]
    <3>1. next \in SessionStates /\ next.pc = "beat"
      BY SessionsIdle DEF SessionStates, CreationInv, CreationTypeOK
    <3>2. SessionStep(s, next)
      BY <2>2 DEF ReadClock
    <3> HIDE DEF next
    <3> QED BY <3>1, <3>2
  <2>3. ASSUME SessionEnds(s)
        PROVE  \E next \in SessionStates : SessionStep(s, next) /\ Plain(next)
    <3>1. SessionStep(s, IdleSession)
      BY <2>3 DEF SessionEnds
    <3>2. IdleSession \in SessionStates /\ Plain(IdleSession)
      BY SessionsIdle
    <3> HIDE DEF Plain
    <3> QED BY <3>1, <3>2
  <2> HIDE DEF Plain
  <2> QED BY <2>1, <2>2, <2>3
<1>2. SessionOK(next) /\ next.pc \notin Locking
  BY <1>1 DEF SessionOK, Locking
<1>3. UNCHANGED <<runs, sourceActive, nextFetch, minute>>
  BY DEF LockOriginal, ReadClock, SessionEnds
<1> QED BY <1>1, <1>2, <1>3, OneSessionSteps

LEMMA LockSourceKeeps ==
  ASSUME CreationInv, NEW s \in Session, LockSource(s)
  PROVE  CreationInv'
<1>1. PICK r \in RunId : r = sessions[s].run
  BY DEF CreationInv, SessionOK, LockSource
<1> DEFINE key == RetryKey(r)
           refused == ~sourceActive \/ ~runs[r].failed
<1>2. /\ sessions[s] \in SessionStates /\ SourceFree
      /\ UNCHANGED <<runs, sourceActive, nextFetch, minute>>
      /\ key \in Key /\ key # NoRun
  BY NoRunAssumption DEF CreationInv, CreationTypeOK, LockSource, Key
<1>3. CASE refused
  <2>1. SessionStep(s, IdleSession)
    BY <1>1, <1>3 DEF LockSource
  <2>2. SessionOK(IdleSession)
    BY SessionsIdle DEF SessionOK, Locking
  <2> QED BY <1>2, <2>1, <2>2, SessionsIdle, OneSessionSteps
<1>4. CASE ~refused /\ With(key) # {}
  <2>1. PICK q \in With(key) : Answer(s, key, q)
    BY <1>1, <1>4 DEF LockSource
  <2>2. PICK next \in SessionStates :
          /\ SessionStep(s, next)
          /\ next.pc = "answered" /\ next.key = key /\ next.run = q
    BY <1>2, <2>1, AnsweredKnows DEF With
  <2> HIDE DEF key
  <2>3. SessionOK(next)
    BY <1>2, <2>1, <2>2, WithIsOne DEF CreationInv, SessionOK, Locking
  <2> QED BY <1>2, <2>2, <2>3, OneSessionSteps
<1>5. CASE ~refused /\ With(key) = {}
  <2> DEFINE next == [sessions[s] EXCEPT !.pc = "retry", !.key = key]
  <2>1. SessionStep(s, next)
    BY <1>1, <1>5 DEF LockSource
  <2>2. With(key) = {}
    BY <1>5
  <2> HIDE DEF key
  <2>3. next \in SessionStates /\ next.pc = "retry" /\ next.key = key
    BY <1>2 DEF SessionStates
  <2> HIDE DEF next
  <2>4. SessionOK(next)
    BY <1>2, <2>2, <2>3 DEF SessionOK, Locking
  <2> QED BY <1>2, <2>1, <2>3, <2>4, OneSessionSteps
<1> QED BY <1>3, <1>4, <1>5

LEMMA InsertRetryKeeps ==
  ASSUME CreationInv, NEW s \in Session, NEW q \in RunId, InsertRetry(s, q)
  PROVE  CreationInv'
<1>1. PICK key \in Key : key = sessions[s].key
  BY DEF CreationInv, CreationTypeOK, SessionStates
<1>2. PICK next \in SessionStates :
        /\ SessionStep(s, next)
        /\ next.pc = "answered" /\ next.key = key /\ next.run = q
  BY <1>1, AnsweredKnows DEF InsertRetry
<1>3. /\ runs[q] = NoRun /\ Insert(q, key, "manual", 0) /\ 0 \in 0 .. MaxMinute
      /\ UNCHANGED <<sourceActive, minute, nextFetch>>
  BY <1>1, RunCreationAssumption DEF InsertRetry
<1>4. /\ With(key) = {}
      /\ \A p \in Session \ {s} :
           /\ sessions[p].pc \notin Locking
           /\ key # NoRun => ~(sessions[p].pc = "placed" /\ sessions[p].key = key)
  BY <1>1 DEF InsertRetry, KeyFree, CreationInv, SessionOK, OneLock, Locking
<1>5. SessionOK(next)'
  <2>1. \A k : With(k)' = IF k = key THEN With(k) \cup {q} ELSE With(k)
    BY <1>3, InsertEffect DEF CreationInv
  <2>2. With(key)' = {q}
    BY <1>4, <2>1
  <2> QED BY <1>2, <2>2 DEF SessionOK, Locking
<1> QED BY <1>2, <1>3, <1>4, <1>5, OneRunInserted DEF Locking

LEMMA SelectDueKeeps ==
  ASSUME CreationInv, NEW s \in Session, SelectDue(s)
  PROVE  CreationInv'
<1>1. PICK at \in 0 .. MaxMinute : at = sessions[s].at
  BY DEF CreationInv, CreationTypeOK, SessionStates
<1> DEFINE key == ScheduleKey(at)
           found == IF With(key) = {} THEN NoRun ELSE CHOOSE r \in With(key) : TRUE
           next == [sessions[s] EXCEPT !.pc = "schedule", !.key = key, !.run = found]
           due == sourceActive /\ nextFetch <= at /\ SourceFree
<1>2. /\ sessions[s] \in SessionStates
      /\ UNCHANGED <<runs, sourceActive, nextFetch, minute>>
      /\ key \in Key /\ key # NoRun
  BY NoRunAssumption DEF CreationInv, CreationTypeOK, SelectDue, Key
<1>3. CASE ~due
  <2>1. SessionStep(s, IdleSession)
    BY <1>1, <1>3 DEF SelectDue
  <2>2. SessionOK(IdleSession)
    BY SessionsIdle DEF SessionOK, Locking
  <2> QED BY <1>2, <2>1, <2>2, SessionsIdle, OneSessionSteps DEF Locking
<1>4. CASE due
  <2>1. SessionStep(s, next)
    BY <1>1, <1>4 DEF SelectDue
  <2>2. nextFetch <= at /\ SourceFree
    BY <1>4
  <2> HIDE DEF key
  <2>3. IF With(key) = {} THEN found = NoRun ELSE found \in With(key)
    OBVIOUS
  <2>4. /\ found \in RunId \cup {NoRun}
        /\ With(key) = IF found # NoRun THEN {found} ELSE {}
    BY <1>2, <2>3, WithIsOne, NoRunAssumption DEF CreationInv, With
  <2> HIDE DEF found
  <2>5. /\ next \in SessionStates /\ next.pc = "schedule"
        /\ next.key = key /\ next.run = found /\ next.at = at
    BY <1>1, <1>2, <2>4 DEF SessionStates
  <2> HIDE DEF next
  <2>6. SessionOK(next)
    BY <1>2, <2>2, <2>4, <2>5 DEF SessionOK, Locking
  <2> QED BY <1>2, <2>1, <2>2, <2>5, <2>6, OneSessionSteps
<1> QED BY <1>3, <1>4

LEMMA ScheduleKeeps ==
  ASSUME CreationInv, NEW s \in Session, Schedule(s)
  PROVE  CreationInv'
<1>1. PICK key \in Key, at \in 0 .. MaxMinute :
        key = sessions[s].key /\ at = sessions[s].at
  BY DEF CreationInv, CreationTypeOK, SessionStates
<1>2. /\ nextFetch <= at /\ nextFetch' = at + PollInterval
      /\ SessionStep(s, IdleSession) /\ UNCHANGED <<sourceActive, minute>>
      /\ \A p \in Session \ {s} : sessions[p].pc \notin Locking
  BY <1>1 DEF Schedule, NextFetch, CreationInv, SessionOK, OneLock, Locking
<1>3. CASE sessions[s].run = NoRun
  <2>1. PICK r \in RunId : runs[r] = NoRun /\ Insert(r, key, "schedule", at)
    BY <1>1, <1>3 DEF Schedule
  <2>2. /\ With(key) = {}
        /\ \A p \in Session : key # NoRun => ~(sessions[p].pc = "placed" /\ sessions[p].key = key)
    BY <1>1, <1>3 DEF Schedule, KeyFree, CreationInv, SessionOK, Locking
  <2>3. SessionOK(IdleSession)'
    BY SessionsIdle DEF SessionOK, Locking
  <2> QED BY <1>2, <2>1, <2>2, <2>3, SessionsIdle, OneRunInserted DEF Locking
<1>4. CASE sessions[s].run # NoRun
  <2>1. UNCHANGED runs
    BY <1>4 DEF Schedule
  <2>2. /\ nextFetch \in Nat /\ nextFetch' \in 0 .. MaxMinute + PollInterval
        /\ nextFetch <= nextFetch' /\ PollInterval \in Nat /\ nextFetch' \in Nat
    BY <1>2, RunCreationAssumption DEF CreationInv, CreationTypeOK
  <2>3. /\ sessions' \in [Session -> SessionStates]
        /\ sessions'[s] = IdleSession
        /\ \A p \in Session \ {s} : sessions'[p] = sessions[p]
    BY <1>2, SessionsIdle DEF CreationInv, CreationTypeOK, SessionStep
  <2>4. CreationTypeOK' /\ OneRunPerKey' /\ ScheduledOncePerInterval'
    BY <1>2, <2>1, <2>2, <2>3
       DEF CreationInv, CreationTypeOK, OneRunPerKey, ScheduledOncePerInterval
  <2>5. Spaced'
    <3>1. \A r \in RunId : runs[r] # NoRun => runs[r].at \in Nat
      BY RunCreationAssumption DEF CreationInv, CreationTypeOK, RunRecords
    <3> QED BY <2>1, <2>2, <3>1 DEF CreationInv, Spaced
  <2>6. OneLock' /\ OneEntry'
    BY <2>3, SessionsIdle DEF CreationInv, OneLock, OneEntry, Locking
  <2>7. ASSUME NEW p \in Session PROVE SessionOK(sessions[p])'
    BY <1>2, <2>1, <2>3, SessionsIdle DEF CreationInv, SessionOK, Locking, With
  <2> QED BY <2>4, <2>5, <2>6, <2>7 DEF CreationInv
<1> QED BY <1>3, <1>4

\* The rest of the system leaves keys, times and sessions alone.
LEMMA SurroundingsKeep ==
  ASSUME CreationInv,
         (\E r \in RunId : RunEndsFailed(r)) \/ SwitchSource \/ MinutePasses
  PROVE  CreationInv'
<1>1. CASE \E r \in RunId : RunEndsFailed(r)
  <2>1. PICK r \in RunId : RunEndsFailed(r)
    BY <1>1
  <2> DEFINE row == [runs[r] EXCEPT !.failed = TRUE]
  <2>2. runs[r] \in RunRecords
    BY <2>1 DEF CreationInv, CreationTypeOK, RunEndsFailed
  <2>3. /\ row \in RunRecords /\ row # NoRun /\ row.key = runs[r].key
        /\ row.trigger = runs[r].trigger /\ row.at = runs[r].at
    BY <2>2, NoRunAssumption DEF RunRecords
  <2>4. runs' = [runs EXCEPT ![r] = row] /\ runs[r] # NoRun
    BY <2>1 DEF RunEndsFailed
  <2> HIDE DEF row
  <2>5. /\ runs' \in [RunId -> RunRecords \cup {NoRun}]
        /\ \A q \in RunId :
             /\ runs'[q] # NoRun <=> runs[q] # NoRun
             /\ runs[q] # NoRun => /\ runs'[q].key = runs[q].key
                                   /\ runs'[q].trigger = runs[q].trigger
                                   /\ runs'[q].at = runs[q].at
    BY <2>3, <2>4 DEF CreationInv, CreationTypeOK
  <2>6. \A k : With(k)' = With(k)
    BY <2>5 DEF With
  <2>7. UNCHANGED <<sourceActive, nextFetch, minute, sessions>>
    BY <2>1 DEF RunEndsFailed
  <2>8. CreationTypeOK'
    BY <2>5, <2>7 DEF CreationInv, CreationTypeOK
  <2>9. OneRunPerKey' /\ OneLock' /\ OneEntry' /\ Spaced' /\ ScheduledOncePerInterval'
    BY <2>5, <2>7 DEF CreationInv, OneRunPerKey, OneLock, OneEntry, Spaced, ScheduledOncePerInterval
  <2>10. \A s \in Session : SessionOK(sessions[s])'
    BY <2>6, <2>7 DEF CreationInv, SessionOK
  <2> QED BY <2>8, <2>9, <2>10 DEF CreationInv
<1>2. CASE SwitchSource \/ MinutePasses
  <2>1. UNCHANGED <<runs, nextFetch, sessions>>
    BY <1>2 DEF SwitchSource, MinutePasses
  <2>2. sourceActive' \in BOOLEAN
    BY <1>2 DEF SwitchSource, MinutePasses, CreationInv, CreationTypeOK
  <2>3. minute' \in 0 .. MaxMinute
    <3>1. minute \in 0 .. MaxMinute /\ MaxMinute \in Nat
      BY RunCreationAssumption DEF CreationInv, CreationTypeOK
    <3>2. minute' = minute \/ (minute < MaxMinute /\ minute' = minute + 1)
      BY <1>2 DEF SwitchSource, MinutePasses
    <3> QED BY <3>1, <3>2
  <2> QED BY <2>1, <2>2, <2>3
          DEF CreationInv, CreationTypeOK, OneRunPerKey, OneLock, OneEntry, Spaced,
              ScheduledOncePerInterval, SessionOK, With
<1> QED BY <1>1, <1>2

--------------------------------------------------------------------------------
LEMMA CreationStep ==
  ASSUME CreationInv, [CreationNext]_creationVars
  PROVE  CreationInv'
<1>1. CASE CreationNext
  <2>1. ASSUME NEW s \in Session,
               \/ \E key \in SuppliedKey \cup {NoRun} : RequestRun(s, key)
               \/ \E r \in RunId : InsertManual(s, r) \/ LockOriginal(s, r) \/ InsertRetry(s, r)
               \/ PlaceManual(s) \/ LockSource(s) \/ ReadClock(s) \/ SelectDue(s)
               \/ Schedule(s) \/ SessionEnds(s)
        PROVE  CreationInv'
    BY <2>1, RequestRunKeeps, PlaceManualKeeps, InsertManualKeeps, InsertRetryKeeps, UnlockedStepKeeps,
       LockSourceKeeps, SelectDueKeeps, ScheduleKeeps
  <2> QED BY <1>1, <2>1, SurroundingsKeep DEF CreationNext
<1>2. CASE UNCHANGED creationVars
  BY <1>2 DEF creationVars, CreationInv, CreationTypeOK, OneRunPerKey, OneLock, OneEntry, Spaced,
              ScheduledOncePerInterval, SessionOK, With
<1> QED BY <1>1, <1>2

LEMMA CreationInductive == CreationSpec => []CreationInv
<1>1. CreationInv /\ [CreationNext]_creationVars => CreationInv'
  BY CreationStep
<1> QED BY <1>1, CreationInitially, PTL DEF CreationSpec

\* Every run, key and session stays one of its type. (create_manual_run,
\* create_retry_run, schedule_due_sources)
THEOREM CreationTypeCorrect == CreationSpec => []CreationTypeOK
<1>1. CreationInv => CreationTypeOK
  BY DEF CreationInv
<1> QED BY <1>1, CreationInductive, PTL

\* Whatever keys users send, all requests with one key get one run.
\* (create_manual_run, create_retry_run)
THEOREM KeyHasOneAnswer == CreationSpec => []SameAnswer
<1>1. CreationInv => SameAnswer
  BY DEF CreationInv, SessionOK, SameAnswer
<1> QED BY <1>1, CreationInductive, PTL

\* Whatever keys users send, the unguarded inserts, of a retry and of the
\* scheduler, never meet a committed run of their key. (create_retry_run,
\* schedule_due_sources)
THEOREM LookupsStand == CreationSpec => []LookupStands
<1>1. CreationInv => LookupStands
  BY DEF CreationInv, SessionOK, LookupStands, Locking
<1> QED BY <1>1, CreationInductive, PTL

\* A retry or a scheduler with the source locked and a request that waits for the
\* source with the other's key placed: a circle of waits.
Circle(s, p) ==
  /\ sessions[s].pc \in Locking
  /\ sessions[p].pc = "placed" /\ sessions[p].key = sessions[s].key

SentKeysCircle == \A s, p \in Session : Circle(s, p) => sessions[s].key \in SuppliedKey

\* A retry or a scheduler waits in a circle with a request only if a user sent
\* the very key that it builds: where users' keys are their own, its insert goes
\* through. (create_manual_run, create_retry_run, schedule_due_sources)
THEOREM CirclesNeedSentKeys == CreationSpec => []SentKeysCircle
<1>1. CreationInv => SentKeysCircle
  BY DEF CreationInv, SessionOK, SentKeysCircle, Circle, Locking
<1> QED BY <1>1, CreationInductive, PTL

\* Any number of overlapping schedulers keep the poll interval.
\* (schedule_due_sources)
THEOREM SchedulersKeepInterval == CreationSpec => []ScheduledOncePerInterval
<1>1. CreationInv => ScheduledOncePerInterval
  BY DEF CreationInv
<1> QED BY <1>1, CreationInductive, PTL

--------------------------------------------------------------------------------
(* The run of a key.                                                          *)

\* A key that has a run keeps that run and gets no other.
KeyKeepsItsRun ==
  [][\A key \in Key \ {NoRun} : With(key) # {} => With(key)' = With(key)]_creationVars

\* What an insert, of a run whose key is new or is none, does to the keys.
LEMMA InsertKeepsOtherKeys ==
  ASSUME CreationInv, NEW r \in RunId, runs[r] = NoRun, NEW key \in Key,
         NEW trigger \in {"manual", "schedule"}, NEW at \in 0 .. MaxMinute,
         key # NoRun => With(key) = {},
         Insert(r, key, trigger, at),
         NEW k \in Key \ {NoRun}, With(k) # {}
  PROVE  With(k)' = With(k)
<1>1. With(k)' = IF k = key THEN With(k) \cup {r} ELSE With(k)
  BY InsertEffect DEF CreationInv
<1> QED BY <1>1

\* Every key is bound to its run for good: a request, a retry or a scheduler that
\* comes later, however it interleaves with the others, is given that run and
\* makes no second one. (create_manual_run, create_retry_run,
\* schedule_due_sources)
THEOREM KeysAreBound == CreationSpec => KeyKeepsItsRun
<1> DEFINE Kept == \A key \in Key \ {NoRun} : With(key) # {} => With(key)' = With(key)
<1>1. CreationInv /\ [CreationNext]_creationVars => [Kept]_creationVars
  <2> SUFFICES ASSUME CreationInv, CreationNext,
                      NEW k \in Key \ {NoRun}, With(k) # {}
               PROVE  With(k)' = With(k)
    BY DEF creationVars
  <2>1. ASSUME UNCHANGED runs PROVE With(k)' = With(k)
    BY <2>1 DEF With
  <2>2. ASSUME NEW s \in Session, NEW r \in RunId, InsertManual(s, r)
        PROVE  With(k)' = With(k)
    <3>1. PICK key \in Key : key = sessions[s].key
      BY DEF CreationInv, CreationTypeOK, SessionStates
    <3>2. /\ runs[r] = NoRun /\ Insert(r, key, "manual", 0)
          /\ key # NoRun => With(key) = {}
      BY <2>2, <3>1 DEF InsertManual, CreationInv, SessionOK
    <3>3. 0 \in 0 .. MaxMinute
      BY RunCreationAssumption
    <3> QED BY <3>2, <3>3, InsertKeepsOtherKeys
  <2>3. ASSUME NEW s \in Session, NEW r \in RunId, InsertRetry(s, r)
        PROVE  With(k)' = With(k)
    <3>1. PICK key \in Key : key = sessions[s].key
      BY DEF CreationInv, CreationTypeOK, SessionStates
    <3>2. runs[r] = NoRun /\ Insert(r, key, "manual", 0)
      BY <2>3, <3>1 DEF InsertRetry
    <3>3. With(key) = {}
      BY <2>3, <3>1 DEF InsertRetry, CreationInv, SessionOK, Locking
    <3>4. 0 \in 0 .. MaxMinute
      BY RunCreationAssumption
    <3> QED BY <3>2, <3>3, <3>4, InsertKeepsOtherKeys
  <2>4. ASSUME NEW s \in Session, Schedule(s) PROVE With(k)' = With(k)
    <3>1. PICK key \in Key, at \in 0 .. MaxMinute :
            key = sessions[s].key /\ at = sessions[s].at
      BY DEF CreationInv, CreationTypeOK, SessionStates
    <3>2. CASE sessions[s].run = NoRun
      <4>1. PICK r \in RunId : runs[r] = NoRun /\ Insert(r, key, "schedule", at)
        BY <2>4, <3>1, <3>2 DEF Schedule
      <4>2. With(key) = {}
        BY <2>4, <3>1, <3>2 DEF Schedule, CreationInv, SessionOK, Locking
      <4> QED BY <4>1, <4>2, InsertKeepsOtherKeys
    <3>3. CASE sessions[s].run # NoRun
      BY <2>1, <2>4, <3>3 DEF Schedule
    <3> QED BY <3>2, <3>3
  <2>5. ASSUME NEW r \in RunId, RunEndsFailed(r) PROVE With(k)' = With(k)
    <3>1. runs[r] \in RunRecords
      BY <2>5 DEF RunEndsFailed, CreationInv, CreationTypeOK
    <3> DEFINE row == [runs[r] EXCEPT !.failed = TRUE]
    <3>2. row # NoRun /\ row.key = runs[r].key
      BY <3>1, NoRunAssumption DEF RunRecords
    <3>3. runs' = [runs EXCEPT ![r] = row] /\ runs[r] # NoRun
      BY <2>5 DEF RunEndsFailed
    <3> HIDE DEF row
    <3>4. \A q \in RunId : /\ runs'[q] # NoRun <=> runs[q] # NoRun
                           /\ runs[q] # NoRun => runs'[q].key = runs[q].key
      BY <3>2, <3>3 DEF CreationInv, CreationTypeOK
    <3> QED BY <3>4 DEF With
  <2> QED BY <2>1, <2>2, <2>3, <2>4, <2>5
          DEF CreationNext, RequestRun, PlaceManual, LockOriginal, LockSource, ReadClock, SelectDue,
              SessionEnds, SwitchSource, MinutePasses
<1> QED BY <1>1, CreationInductive, PTL DEF CreationSpec, KeyKeepsItsRun

================================================================================
