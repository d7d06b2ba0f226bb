------------------------------- MODULE Timer -------------------------------
(***************************************************************************)
(* The timer of a server or client (UA_Timer): callbacks that run once at  *)
(* a date or again and again, in a tree ordered by time and in a tree      *)
(* ordered by id.  UA_Timer_process lets go of the timer's mutex around    *)
(* every callback, so that callbacks and other threads add, change and     *)
(* remove entries in the middle of it.                                     *)
(*                                                                         *)
(* A tree is the set of the ids in it; entries with the same time are      *)
(* ordered by their addresses, so any of them may come first.  What an     *)
(* interval of zero says of an entry (it runs once) is kept as such.       *)
(*                                                                         *)
(* The variants named Defect... are explained in module Subscription.      *)
(***************************************************************************)
EXTENDS Integers

CONSTANTS
  Interval,   \* intervals of repeated callbacks
  Base,       \* base times callers give
  MaxId,      \* bound: entries ever added
  MaxTime,    \* bound: the clock, and the dates of timed callbacks
  MaxWait     \* bound: time that passes between reading the clock and the mutex

ASSUME IntervalAssumption == Interval \subseteq Nat \ {0}
ASSUME BaseAssumption == Base \subseteq Int
ASSUME BoundAssumption == MaxId \in Nat /\ MaxTime \in Nat /\ MaxWait \in Nat

VARIABLES
  clock,      \* UA_DateTime_nowMonotonic()
  entry,      \* the entries by id
  root,       \* the tree ordered by nextTime
  idRoot,     \* the tree ordered by id
  idCounter,
  step,       \* where UA_Timer_process is
  now,        \* its argument nowMonotonic
  deleting    \* UA_Server_delete has begun

vars == <<clock, entry, root, idRoot, idCounter, step, now, deleting>>
trees == <<entry, root, idRoot, idCounter>>

Id == 1..MaxId
Time == 0..MaxTime
Policies == {"CURRENTTIME", "BASETIME"}
Steps == {"idle", "loop", "callback", "drained", "cleared"}
\* A callback of the application, the delayed removal of a channel or session, or a
\* delayed free, which has no callback.
Kinds == {"call", "cleanup", "free"}

\* An entry.  Kept for the properties only: grid, a time at which its owner wants it
\* to run, last, when it last ran, and runs, how often it ran in this call of
\* UA_Timer_process.
Entry(kind, next, interval, policy, grid) ==
  [kind |-> kind, nextTime |-> next, interval |-> interval, timerPolicy |-> policy,
   grid |-> grid, last |-> -1, runs |-> 0]
Freed == Entry("free", 0, 0, "CURRENTTIME", 0)

\* The remainder of C, which has the sign of the dividend.
Remainder(a, b) == IF a >= 0 THEN a % b ELSE -((-a) % b)

DefectTruncate(currentTime, baseTime, interval) ==
  currentTime + interval - Remainder(currentTime - baseTime, interval)
calculateNextTime(currentTime, baseTime, interval) ==
  LET cycleDelay == Remainder(currentTime - baseTime, interval)
  IN  currentTime + interval - (IF cycleDelay < 0 THEN cycleDelay + interval ELSE cycleDelay)

-----------------------------------------------------------------------------
(* Operations on the timer, by any thread that gets the mutex.               *)

\* While the server is deleted only its callbacks still use the timer.
Unlocked == step = "callback" \/ (step = "idle" /\ ~deleting)

\* UA_Timer_addTimerEntry and addCallback.
Add(e) ==
  /\ Unlocked /\ idCounter < MaxId
  /\ idCounter' = idCounter + 1
  /\ entry' = [entry EXCEPT ![idCounter'] = e]
  /\ root' = root \cup {idCounter'} /\ idRoot' = idRoot \cup {idCounter'}
  /\ UNCHANGED <<clock, step, now, deleting>>

\* What is deleted is removed and freed when the calls in progress are over.  When
\* the timer is drained, all of it has been deleted.
AddDelayed(kind) ==
  /\ kind # "call" /\ ~deleting
  /\ Add(Entry(kind, clock + 1, 0, "CURRENTTIME", clock + 1))

AddTimedCallback(date) == Add(Entry("call", date, 0, "CURRENTTIME", date))

\* The first time is computed from a clock that was read before the mutex was taken.
AddRepeatedCallback(read, interval, policy) ==
  Add(Entry("call", read + interval, interval, policy, read))
AddRepeatedWithBase(read, baseTime, interval, policy) ==
  Add(Entry("call", calculateNextTime(read, baseTime, interval), interval, policy, baseTime))

\* The new time of an entry; grid is the base time, now if there is none.  Only
\* the application knows ids.
Change(id, next, interval, policy, grid) ==
  /\ Unlocked /\ id \in idRoot /\ entry[id].kind = "call"
  /\ entry' = [entry EXCEPT ![id] = Entry("call", next, interval, policy, grid)]
  /\ UNCHANGED <<clock, root, idRoot, idCounter, step, now, deleting>>

ChangeRepeatedCallback(id, interval, policy) ==
  Change(id, clock + interval, interval, policy, clock)
ChangeRepeatedWithBase(id, baseTime, interval, policy) ==
  Change(id, calculateNextTime(clock, baseTime, interval), interval, policy, baseTime)

DefectRemoveFromIdRoot(id) ==
  /\ Unlocked /\ id \in idRoot /\ entry[id].kind = "call"
  /\ idRoot' = idRoot \ {id}
  /\ UNCHANGED <<clock, entry, root, idCounter, step, now, deleting>>
RemoveCallback(id) ==
  /\ Unlocked /\ id \in idRoot /\ entry[id].kind = "call"
  /\ root' = root \ {id} /\ idRoot' = idRoot \ {id}
  /\ entry' = [entry EXCEPT ![id] = Freed]
  /\ UNCHANGED <<clock, idCounter, step, now, deleting>>

-----------------------------------------------------------------------------
(* UA_Timer_process.                                                         *)

Begin(time) ==
  /\ step = "idle" /\ ~deleting
  /\ step' = "loop" /\ now' = time
  /\ entry' = [id \in Id |-> [entry[id] EXCEPT !.runs = 0]]
  /\ UNCHANGED <<clock, root, idRoot, idCounter>>

\* The main loops of server and client.
Process == Begin(clock) /\ UNCHANGED deleting

\* UA_Server_delete executes the remaining delayed callbacks: those that are due as
\* soon as the clock moves.
DefectDrainNow == Begin(clock) /\ deleting' = TRUE
Drain == Begin(clock + 1) /\ deleting' = TRUE

\* aa_min, if it is due.
DefectStrictlyBefore(id) ==
  /\ id \in root /\ entry[id].nextTime < now
  /\ \A other \in root : entry[id].nextTime <= entry[other].nextTime
First(id) ==
  /\ id \in root /\ entry[id].nextTime <= now
  /\ \A other \in root : entry[id].nextTime <= entry[other].nextTime

\* An entry that runs once leaves both trees before its callback is called.
RunOnce(id) ==
  /\ step = "loop" /\ First(id) /\ entry[id].interval = 0
  /\ root' = root \ {id} /\ idRoot' = idRoot \ {id}
  /\ entry' = [entry EXCEPT ![id] = Freed]
  /\ step' = IF entry[id].kind = "free" THEN "loop" ELSE "callback"
  /\ UNCHANGED <<clock, idCounter, now, deleting>>

\* When an entry runs next.
NextTime(e) ==
  LET next == e.nextTime + e.interval
  IN  IF next >= now THEN next
      ELSE IF e.timerPolicy = "BASETIME" THEN calculateNextTime(now, next, e.interval)
      ELSE now + e.interval

\* A repeated one is inserted again before its callback is called, which may find,
\* change or remove it.
RunRepeated(id) ==
  /\ step = "loop" /\ First(id) /\ entry[id].interval # 0
  /\ entry' = [entry EXCEPT ![id].nextTime = NextTime(entry[id]),
                            ![id].last = now, ![id].runs = @ + 1]
  /\ step' = "callback"
  /\ UNCHANGED <<clock, root, idRoot, idCounter, now, deleting>>

Return ==
  /\ step = "callback"
  /\ step' = "loop"
  /\ UNCHANGED <<clock, trees, now, deleting>>

Finish ==
  /\ step = "loop" /\ \A id \in root : ~First(id)
  /\ step' = IF deleting THEN "drained" ELSE "idle"
  /\ UNCHANGED <<clock, trees, now, deleting>>

\* UA_Timer_clear.  The client, which deletes nothing later, does not drain its timer.
Clear ==
  /\ step = "drained"
  /\ step' = "cleared"
  /\ root' = {} /\ idRoot' = {}
  /\ entry' = [id \in Id |-> IF id \in idRoot THEN Freed ELSE entry[id]]
  /\ UNCHANGED <<clock, idCounter, now, deleting>>

Tick ==
  /\ clock < MaxTime /\ step # "cleared"
  /\ clock' = clock + 1
  /\ UNCHANGED <<trees, step, now, deleting>>

-----------------------------------------------------------------------------
Init ==
  /\ clock = 0 /\ now = 0
  /\ entry = [id \in Id |-> Freed]
  /\ root = {} /\ idRoot = {} /\ idCounter = 0
  /\ step = "idle" /\ deleting = FALSE

Loop ==
  \/ \E id \in Id : RunOnce(id) \/ RunRepeated(id)
  \/ Return
  \/ Finish

Edit ==
  \/ \E kind \in Kinds : AddDelayed(kind)
  \/ \E date \in Time : AddTimedCallback(date)
  \/ \E interval \in Interval, policy \in Policies :
       \/ \E read \in Time :
            /\ read <= clock /\ clock - read <= MaxWait
            /\ \/ AddRepeatedCallback(read, interval, policy)
               \/ \E baseTime \in Base : AddRepeatedWithBase(read, baseTime, interval, policy)
       \/ \E id \in Id :
            \/ ChangeRepeatedCallback(id, interval, policy)
            \/ \E baseTime \in Base : ChangeRepeatedWithBase(id, baseTime, interval, policy)
  \/ \E id \in Id : RemoveCallback(id)

Next == Tick \/ Process \/ Drain \/ Loop \/ Edit \/ Clear

\* The main loop calls UA_Timer_process again and again, and callbacks return.
Fairness == WF_vars(Process) /\ WF_vars(Loop)

Spec == Init /\ [][Next]_vars /\ Fairness
=============================================================================
