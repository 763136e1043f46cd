------------------------------ MODULE RunCreation ------------------------------
(******************************************************************************)
(* How the runs of one source come to be: by request, as the retry of a run,  *)
(* and by the scheduler, told apart by idempotency keys.  A session is an API *)
(* request or a task of beat; the locks it holds follow from where it is.     *)
(* An insert first puts its entry into the unique index on source and key,    *)
(* behind another of that key that is not committed yet, and only then takes  *)
(* a key share of the source, behind those that have locked it for update.    *)
(******************************************************************************)
EXTENDS Naturals, FiniteSets

CONSTANTS
  RunId,
  Session,
  SuppliedKey,     \* the idempotency keys users send
  PollInterval,    \* sources.poll_interval_minutes
  MaxMinute,       \* bound on the clock
  NoRun

ASSUME RunCreationAssumption ==
  /\ PollInterval \in Nat \ {0}
  /\ MaxMinute \in Nat

VARIABLES
  runs,            \* collection_runs of the source; NoRun before the insert
  sourceActive,
  nextFetch,       \* sources.next_fetch_at
  minute,
  sessions

creationVars == <<runs, sourceActive, nextFetch, minute, sessions>>

--------------------------------------------------------------------------------
RetryKey(r) == <<"retry", r>>
ScheduleKey(at) == <<"schedule", at>>

Key == SuppliedKey \cup {NoRun} \cup {RetryKey(r) : r \in RunId}
       \cup {ScheduleKey(at) : at \in 0 .. MaxMinute}

\* The time of a run that is not scheduled does not matter here, and of the status
\* only whether the run has failed, so that it can be retried.
RunRecords ==
  [key : Key, trigger : {"manual", "schedule"}, at : 0 .. MaxMinute, failed : BOOLEAN]

\*   insert    a key was not found, the run not inserted yet
\*   placed    the key is in the index, uncommitted, and the source waited for
\*   original  the run to retry is locked
\*   retry     its source as well, and no retry of it was found
\*   beat      the scheduler has read the clock
\*   schedule  the source is due and locked, its key looked up
\*   answered  the request has got a run
SessionStates ==
  [pc : {"idle", "insert", "placed", "original", "retry", "beat", "schedule", "answered"},
   key : Key, run : RunId \cup {NoRun}, at : 0 .. MaxMinute]

\* NoRun is neither a run, nor its row, nor a key.
ASSUME NoRunAssumption ==
  /\ NoRun \notin RunId /\ NoRun \notin RunRecords /\ NoRun \notin SuppliedKey
  /\ \A r \in RunId : NoRun # RetryKey(r)
  /\ \A at \in 0 .. MaxMinute : NoRun # ScheduleKey(at)

IdleSession == [pc |-> "idle", key |-> NoRun, run |-> NoRun, at |-> 0]

CreationTypeOK ==
  /\ runs \in [RunId -> RunRecords \cup {NoRun}]
  /\ sourceActive \in BOOLEAN
  /\ nextFetch \in 0 .. MaxMinute + PollInterval
  /\ minute \in 0 .. MaxMinute
  /\ sessions \in [Session -> SessionStates]

CreationInit ==
  /\ runs = [r \in RunId |-> NoRun]
  /\ sourceActive = TRUE
  /\ nextFetch = 0
  /\ minute = 0
  /\ sessions = [s \in Session |-> IdleSession]

\* The runs with a key.
With(key) == {r \in RunId : runs[r] # NoRun /\ runs[r].key = key}

SessionStep(s, next) == sessions' = [sessions EXCEPT ![s] = next]

Answer(s, key, r) == SessionStep(s, [IdleSession EXCEPT !.pc = "answered", !.key = key, !.run = r])

SourceFree == \A s \in Session : sessions[s].pc \notin {"retry", "schedule"}

RunFree(r) ==
  \A s \in Session : ~(sessions[s].pc \in {"original", "retry"} /\ sessions[s].run = r)

\* No request has the key in the index without having committed it.
KeyFree(key) ==
  key # NoRun => \A s \in Session : ~(sessions[s].pc = "placed" /\ sessions[s].key = key)

Insert(r, key, trigger, at) ==
  runs' = [runs EXCEPT ![r] = [key |-> key, trigger |-> trigger, at |-> at,
                               failed |-> FALSE]]

--------------------------------------------------------------------------------
(* create_manual_run.                                                         *)

RequestRun(s, key) ==
  /\ sessions[s].pc = "idle"
  /\ sourceActive
  /\ IF key # NoRun /\ With(key) # {}
     THEN \E r \in With(key) : Answer(s, key, r)
     ELSE SessionStep(s, [IdleSession EXCEPT !.pc = "insert", !.key = key])
  /\ UNCHANGED <<runs, sourceActive, nextFetch, minute>>

\* Mutant: two runs may have one key.
PlaceManualAgain(s) ==
  /\ sessions[s].pc = "insert"
  /\ SessionStep(s, [sessions[s] EXCEPT !.pc = "placed"])
  /\ UNCHANGED <<runs, sourceActive, nextFetch, minute>>

\* The unique index refuses a second run of a key, and the request is answered
\* with the first.
PlaceManual(s) ==
  LET key == sessions[s].key IN
  /\ sessions[s].pc = "insert"
  /\ KeyFree(key)
  /\ IF key # NoRun /\ With(key) # {}
     THEN \E r \in With(key) : Answer(s, key, r)
     ELSE SessionStep(s, [sessions[s] EXCEPT !.pc = "placed"])
  /\ UNCHANGED <<runs, sourceActive, nextFetch, minute>>

\* Mutant: the rows of runs do not reference their source.
InsertAtOnce == TRUE

\* The check of the reference waits for the source.
InsertWaits == SourceFree

InsertManual(s, r) ==
  /\ sessions[s].pc = "placed"
  /\ InsertWaits
  /\ runs[r] = NoRun
  /\ Insert(r, sessions[s].key, "manual", 0)
  /\ Answer(s, sessions[s].key, r)
  /\ UNCHANGED <<sourceActive, nextFetch, minute>>

--------------------------------------------------------------------------------
(* create_retry_run.                                                          *)

LockOriginal(s, r) ==
  /\ sessions[s].pc = "idle"
  /\ runs[r] # NoRun
  /\ RunFree(r)
  /\ SessionStep(s, [IdleSession EXCEPT !.pc = "original", !.run = r])
  /\ UNCHANGED <<runs, sourceActive, nextFetch, minute>>

\* The source is locked; a source that is not active or a run that has not failed
\* is refused.
LockSource(s) ==
  LET r == sessions[s].run
      key == RetryKey(r) IN
  /\ sessions[s].pc = "original"
  /\ SourceFree
  /\ IF ~sourceActive \/ ~runs[r].failed THEN SessionStep(s, IdleSession)
     ELSE IF With(key) # {} THEN \E q \in With(key) : Answer(s, key, q)
     ELSE SessionStep(s, [sessions[s] EXCEPT !.pc = "retry", !.key = key])
  /\ UNCHANGED <<runs, sourceActive, nextFetch, minute>>

\* A request that has placed the key waits for the source, and this insert for the
\* request: the database aborts one of the two.
InsertRetry(s, q) ==
  /\ sessions[s].pc = "retry"
  /\ KeyFree(sessions[s].key)
  /\ runs[q] = NoRun
  /\ Insert(q, sessions[s].key, "manual", 0)
  /\ Answer(s, sessions[s].key, q)
  /\ UNCHANGED <<sourceActive, nextFetch, minute>>

--------------------------------------------------------------------------------
(* schedule_due_sources.                                                      *)

ReadClock(s) ==
  /\ sessions[s].pc = "idle"
  /\ SessionStep(s, [IdleSession EXCEPT !.pc = "beat", !.at = minute])
  /\ UNCHANGED <<runs, sourceActive, nextFetch, minute>>

\* A source that is locked is skipped.
SelectDue(s) ==
  LET at == sessions[s].at IN
  /\ sessions[s].pc = "beat"
  /\ SessionStep(s, IF sourceActive /\ nextFetch <= at /\ SourceFree
                    THEN [sessions[s] EXCEPT
                            !.pc = "schedule", !.key = ScheduleKey(at),
                            !.run = IF With(ScheduleKey(at)) = {} THEN NoRun
                                    ELSE CHOOSE r \in With(ScheduleKey(at)) : TRUE]
                    ELSE IdleSession)
  /\ UNCHANGED <<runs, sourceActive, nextFetch, minute>>

\* Mutant: the next fetch is due from the last one that was due.
NextFromDue(s) == nextFetch + PollInterval

NextFetch(s) == sessions[s].at + PollInterval

\* The run is inserted, as a retry is, unless its key was found; the source moves
\* on either way.
Schedule(s) ==
  /\ sessions[s].pc = "schedule"
  /\ IF sessions[s].run = NoRun
     THEN /\ KeyFree(sessions[s].key)
          /\ \E r \in RunId :
               /\ runs[r] = NoRun
               /\ Insert(r, sessions[s].key, "schedule", sessions[s].at)
     ELSE UNCHANGED runs
  /\ nextFetch' = NextFetch(s)
  /\ SessionStep(s, IdleSession)
  /\ UNCHANGED <<sourceActive, minute>>

--------------------------------------------------------------------------------
(* The rest of the system.                                                    *)

\* A worker ends the run in failure, with the source and the run locked.
RunEndsFailed(r) ==
  /\ runs[r] # NoRun
  /\ RunFree(r) /\ SourceFree
  /\ runs' = [runs EXCEPT ![r].failed = TRUE]
  /\ UNCHANGED <<sourceActive, nextFetch, minute, sessions>>

SwitchSource ==
  /\ SourceFree
  /\ sourceActive' = ~sourceActive
  /\ UNCHANGED <<runs, nextFetch, minute, sessions>>

\* A request or task ends, or fails and is rolled back, as one the database picks
\* from a circle of waits.
SessionEnds(s) ==
  /\ sessions[s].pc # "idle"
  /\ SessionStep(s, IdleSession)
  /\ UNCHANGED <<runs, sourceActive, nextFetch, minute>>

MinutePasses ==
  /\ minute < MaxMinute
  /\ minute' = minute + 1
  /\ UNCHANGED <<runs, sourceActive, nextFetch, sessions>>

CreationNext ==
  \/ \E s \in Session :
       \/ \E key \in SuppliedKey \cup {NoRun} : RequestRun(s, key)
       \/ \E r \in RunId : InsertManual(s, r) \/ LockOriginal(s, r) \/ InsertRetry(s, r)
       \/ PlaceManual(s) \/ LockSource(s) \/ ReadClock(s) \/ SelectDue(s) \/ Schedule(s) \/ SessionEnds(s)
  \/ \E r \in RunId : RunEndsFailed(r)
  \/ SwitchSource \/ MinutePasses

CreationSpec == CreationInit /\ [][CreationNext]_creationVars

--------------------------------------------------------------------------------
(* Properties.                                                                *)

\* Requests with one idempotency key, concurrent or not, are all answered with
\* the one run that has it. (create_manual_run, create_retry_run)
SameAnswer ==
  \A s \in Session :
    sessions[s].pc = "answered" /\ sessions[s].key # NoRun =>
      With(sessions[s].key) = {sessions[s].run}

\* What a retry or the scheduler looked up under the lock of the source still
\* stands when it inserts, whatever keys requests send meanwhile: nobody has
\* committed a run with its key, and the unique index never refuses the insert.
\* It may still wait in a circle with a request that sent this very key, which
\* waits for the source. (create_retry_run, schedule_due_sources)
LookupStands ==
  \A s \in Session :
    sessions[s].pc \in {"retry", "schedule"} =>
      With(sessions[s].key) =
        IF sessions[s].pc = "schedule" /\ sessions[s].run # NoRun
        THEN {sessions[s].run} ELSE {}

\* Two scheduled runs of a source are at least its poll interval apart, although
\* schedulers overlap and one may have read the clock long before the other.
\* (schedule_due_sources)
ScheduledOncePerInterval ==
  \A r, q \in RunId :
    /\ r # q /\ runs[r] # NoRun /\ runs[q] # NoRun
    /\ runs[r].trigger = "schedule" /\ runs[q].trigger = "schedule"
    => \/ runs[r].at >= runs[q].at + PollInterval
       \/ runs[q].at >= runs[r].at + PollInterval

================================================================================
