----------------------------- MODULE TimerProofs -----------------------------
(***************************************************************************)
(* What is proved about the timer, for every set of intervals and base     *)
(* times and every bound: both trees always hold the same entries, a       *)
(* repeated callback keeps its schedule, and the delayed removals waiting  *)
(* when the server is deleted are executed.                                *)
(*                                                                         *)
(* One invariant, TimerInv, has the parts these facts lean on each other   *)
(* for: a callback runs twice at most because the time after its second    *)
(* run lies behind the time of the loop, and the loop finishes without     *)
(* leaving a removal behind because every removal added before the server  *)
(* is deleted is due when the timer is drained.                            *)
(***************************************************************************)
EXTENDS TimerProperties, TLAPS, WellFoundedInduction

-----------------------------------------------------------------------------
(* Arithmetic.                                                               *)

\* The remainder of a division lies between zero and the divisor.
LEMMA ModRange ==
    ASSUME NEW a \in Int, NEW b \in Nat \ {0}
    PROVE  a % b \in 0..b - 1
OBVIOUS

\* A number is a multiple of the divisor and the remainder.
LEMMA ModQuotient ==
    ASSUME NEW a \in Int, NEW b \in Nat \ {0}
    PROVE  a \div b \in Int /\ a = (b * (a \div b)) + (a % b)
OBVIOUS

\* The remainder of a multiple is zero.
LEMMA ModMultiple ==
    ASSUME NEW a \in Int, NEW b \in Nat \ {0}, NEW k \in Int, a = k * b
    PROVE  a % b = 0
OBVIOUS

\* The remainder of C, too, leaves a multiple of the divisor.
LEMMA RemainderFacts ==
    ASSUME NEW a \in Int, NEW b \in Nat \ {0}
    PROVE  /\ Remainder(a, b) \in Int
           /\ -b < Remainder(a, b) /\ Remainder(a, b) < b
           /\ \E k \in Int : a = (k * b) + Remainder(a, b)
<1>1. CASE a >= 0
  <2> DEFINE q == a \div b
             r == a % b
  <2>1. Remainder(a, b) = r
    BY <1>1 DEF Remainder
  <2>2. q \in Int /\ a = (b * q) + r /\ r \in 0..b - 1
    BY ModQuotient, ModRange
  <2> HIDE DEF q, r
  <2>3. q * b = b * q
    BY <2>2
  <2>4. a = (q * b) + r
    BY <2>2, <2>3
  <2>5. r \in Int /\ -b < r /\ r < b
    BY <2>2
  <2> QED
    BY <2>1, <2>2, <2>4, <2>5
<1>2. CASE ~(a >= 0)
  <2> DEFINE q == (-a) \div b
             r == (-a) % b
  <2>1. Remainder(a, b) = -r
    BY <1>2 DEF Remainder
  <2>2. q \in Int /\ -a = (b * q) + r /\ r \in 0..b - 1
    BY ModQuotient, ModRange
  <2> HIDE DEF q, r
  <2>3. -q \in Int /\ b * q \in Int /\ (-q) * b = -(b * q)
    BY <2>2
  <2>4. a = ((-q) * b) + (-r)
    BY <2>2, <2>3
  <2>5. -r \in Int /\ -b < -r /\ -r < b
    BY <2>2
  <2> QED
    BY <2>1, <2>3, <2>4, <2>5
<1> QED
  BY <1>1, <1>2

\* The next time lies behind the current one, at most an interval away, on the grid of
\* the base time.
LEMMA CalculateNextTimeFacts ==
    ASSUME NEW currentTime \in Int, NEW baseTime \in Int, NEW interval \in Nat \ {0}
    PROVE  LET next == calculateNextTime(currentTime, baseTime, interval)
           IN  /\ next \in Int
               /\ currentTime < next /\ next <= currentTime + interval
               /\ \E k \in Int : next - baseTime = k * interval
<1> DEFINE a == currentTime - baseTime
           r == Remainder(a, interval)
           d == IF r < 0 THEN r + interval ELSE r
           next == calculateNextTime(currentTime, baseTime, interval)
<1>1. PICK k \in Int : a = (k * interval) + r
  <2>1. a \in Int
    OBVIOUS
  <2> QED
    BY <2>1, RemainderFacts
<1>2. r \in Int /\ -interval < r /\ r < interval
  <2>1. a \in Int
    OBVIOUS
  <2> QED
    BY <2>1, RemainderFacts
<1>3. next = currentTime + interval - d
    BY DEF calculateNextTime
<1> HIDE DEF r, next
<1>4. d \in Int /\ 0 <= d /\ d < interval
    BY <1>2
<1>5. next \in Int /\ currentTime < next /\ next <= currentTime + interval
    BY <1>3, <1>4
<1>6. \E m \in Int : next - baseTime = m * interval
  <2> DEFINE p == k * interval
  <2>0. p \in Int /\ (k + 1) * interval = p + interval
    OBVIOUS
  <2> HIDE DEF p
  <2>1. CASE r < 0
    <3>1. next - baseTime = p
      BY <2>0, <2>1, <1>1, <1>2, <1>3 DEF p
    <3> QED
      BY <3>1 DEF p
  <2>2. CASE ~(r < 0)
    <3>1. next - baseTime = p + interval
      BY <2>0, <2>2, <1>1, <1>2, <1>3 DEF p
    <3> QED
      BY <3>1, <2>0
  <2> QED
    BY <2>1, <2>2
<1> QED
    BY <1>5, <1>6 DEF next

\* Every set of numbers that is not empty has a least element.
LEMMA LeastNumber ==
    ASSUME NEW T \in SUBSET Nat, T # {}
    PROVE  \E x \in T : \A y \in T : x <= y
<1> DEFINE R == {ss \in Nat \X Nat : ss[1] < ss[2]}
<1>1. IsWellFoundedOn(R, Nat)
  <2>1. R = OpToRel(<, Nat)
    BY DEF OpToRel
  <2> QED
    BY <2>1, NatLessThanWellFounded
<1>2. PICK x \in T : \A y \in T : ~(<<y, x>> \in R)
    BY <1>1, WFMin
<1>3. ASSUME NEW y \in T PROVE x <= y
  <2>1. ~(<<y, x>> \in R)
    BY <1>2
  <2>2. x \in Nat /\ y \in Nat /\ <<y, x>> \in Nat \X Nat /\ <<y, x>>[1] = y /\ <<y, x>>[2] = x
    OBVIOUS
  <2>3. ~(y < x)
    BY <2>1, <2>2
  <2> QED
    BY <2>2, <2>3
<1> QED
    BY <1>3

-----------------------------------------------------------------------------
(* The invariant.                                                            *)

EntryType == [kind : Kinds, nextTime : Nat, interval : Interval \cup {0},
              timerPolicy : Policies, grid : Int, last : Int, runs : Nat]

\* The time at which an entry runs next is never before the clock started.
TypeInv ==
  /\ clock \in Time /\ now \in Nat /\ deleting \in BOOLEAN
  /\ step \in Steps /\ idCounter \in 0..MaxId
  /\ root \subseteq Id /\ idRoot \subseteq Id
  /\ entry \in [Id -> EntryType]

\* The time the loop works with has been reached, unless the timer is being drained.
NowReached == deleting \/ now <= clock

\* Some number of intervals away from the base time.
GridInv(id) ==
  entry[id].timerPolicy = "BASETIME" =>
    \E k \in Int : entry[id].nextTime - entry[id].grid = k * entry[id].interval

\* What has run in this loop comes next at its time or later, what has run twice later.
RunsInv(id) ==
  /\ entry[id].runs <= 2
  /\ entry[id].runs >= 1 => entry[id].nextTime >= now
  /\ entry[id].runs >= 2 => entry[id].nextTime > now

ScheduleInv == \A id \in Id : Repeated(id) => GridInv(id) /\ WithinInterval(id) /\ RunsInv(id)

\* Removals run once; the last of them are due at the next tick, and while the timer is
\* drained all of them are due.
CleanupInv ==
  /\ \A id \in Id : entry[id].kind # "call" => entry[id].interval = 0
  /\ \A id \in root :
       entry[id].kind = "cleanup" => entry[id].nextTime <= (IF deleting THEN now ELSE clock + 1)

TimerInv ==
  /\ TypeInv /\ TreesAgree /\ NowReached /\ ScheduleInv /\ CleanupInv /\ CleanupNotLost

-----------------------------------------------------------------------------
(* The operations on the timer.                                              *)

\* What every new or changed entry is like: its time is at most an interval away and on
\* its grid, and a removal is due at the next tick.
NewEntry(e) ==
  /\ e \in EntryType /\ e.runs = 0
  /\ e.interval # 0 =>
       /\ e.nextTime <= clock + e.interval
       /\ e.timerPolicy = "BASETIME" => \E k \in Int : e.nextTime - e.grid = k * e.interval
  /\ e.kind # "call" => ~deleting /\ e.interval = 0 /\ e.nextTime <= clock + 1

\* An entry of the id in both trees becomes e.
Replace(id, e) ==
  /\ Unlocked /\ id \in idRoot /\ e.kind = "call"
  /\ entry' = [entry EXCEPT ![id] = e]
  /\ UNCHANGED <<clock, root, idRoot, idCounter, step, now, deleting>>

\* A callback that runs once, and a delayed removal or free.
LEMMA SingleEntry ==
    ASSUME TypeInv, NEW kind \in Kinds, NEW date \in Nat,
           kind # "call" => ~deleting /\ date <= clock + 1
    PROVE  NewEntry(Entry(kind, date, 0, "CURRENTTIME", date))
<1> DEFINE e == Entry(kind, date, 0, "CURRENTTIME", date)
<1>1. /\ e.kind = kind /\ e.nextTime = date /\ e.interval = 0
      /\ e.runs = 0
    BY DEF Entry
<1>2. e \in EntryType
    BY DEF Entry, EntryType, Policies
<1> HIDE DEF e
<1>3. NewEntry(e)
    BY <1>1, <1>2 DEF NewEntry
<1> QED
    BY <1>3 DEF e

\* A repeated callback that begins at the time at which it is added.
LEMMA RepeatedEntry ==
    ASSUME TypeInv, NEW read \in Nat, read <= clock, NEW interval \in Interval,
           NEW policy \in Policies
    PROVE  NewEntry(Entry("call", read + interval, interval, policy, read))
<1> DEFINE e == Entry("call", read + interval, interval, policy, read)
<1>1. interval \in Nat \ {0} /\ clock \in Nat
    BY IntervalAssumption, BoundAssumption DEF TypeInv, Time
<1>2. /\ e.kind = "call" /\ e.nextTime = read + interval /\ e.interval = interval
      /\ e.grid = read /\ e.runs = 0
    BY DEF Entry
<1>3. e \in EntryType
    BY <1>1 DEF Entry, EntryType, Kinds
<1>4. e.nextTime <= clock + e.interval /\ e.nextTime - e.grid = 1 * e.interval
    BY <1>1, <1>2
<1> HIDE DEF e
<1>5. NewEntry(e)
    BY <1>2, <1>3, <1>4 DEF NewEntry
<1> QED
    BY <1>5 DEF e

\* A repeated callback with a base time.
LEMMA BasedEntry ==
    ASSUME TypeInv, NEW read \in Nat, read <= clock, NEW interval \in Interval,
           NEW policy \in Policies, NEW baseTime \in Base
    PROVE  NewEntry(Entry("call", calculateNextTime(read, baseTime, interval), interval,
                          policy, baseTime))
<1> DEFINE next == calculateNextTime(read, baseTime, interval)
           e == Entry("call", next, interval, policy, baseTime)
<1>1. interval \in Nat \ {0} /\ clock \in Nat /\ baseTime \in Int /\ read \in Int
    BY IntervalAssumption, BaseAssumption, BoundAssumption DEF TypeInv, Time
<1>2. /\ next \in Int
      /\ read < next /\ next <= read + interval
      /\ \E k \in Int : next - baseTime = k * interval
    BY <1>1, CalculateNextTimeFacts, Zenon
<1> HIDE DEF next
<1>3. next \in Nat /\ next <= clock + interval
    BY <1>1, <1>2
<1>4. /\ e.kind = "call" /\ e.nextTime = next /\ e.interval = interval
      /\ e.grid = baseTime /\ e.runs = 0
    BY DEF Entry
<1>5. e \in EntryType
    BY <1>1, <1>3 DEF Entry, EntryType, Kinds
<1> HIDE DEF e
<1>6. NewEntry(e)
    BY <1>2, <1>3, <1>4, <1>5 DEF NewEntry
<1> QED
    BY <1>6 DEF e, next

\* Every operation adds, replaces or removes an entry, as long as the timer is not drained.
LEMMA EditCases ==
    ASSUME TypeInv, Edit
    PROVE  \/ \E e : NewEntry(e) /\ Add(e)
           \/ \E id \in Id : \E e : NewEntry(e) /\ Replace(id, e)
           \/ \E id \in Id : RemoveCallback(id)
<1>0. clock \in Nat /\ clock + 1 \in Nat /\ Time \subseteq Nat
    BY BoundAssumption DEF TypeInv, Time
<1>1. ASSUME NEW kind \in Kinds, AddDelayed(kind)
      PROVE  \E e : NewEntry(e) /\ Add(e)
    BY <1>0, <1>1, SingleEntry DEF AddDelayed
<1>2. ASSUME NEW date \in Time, AddTimedCallback(date)
      PROVE  \E e : NewEntry(e) /\ Add(e)
  <2>1. "call" \in Kinds
    BY DEF Kinds
  <2> QED
    BY <1>0, <1>2, <2>1, SingleEntry DEF AddTimedCallback
<1>3. ASSUME NEW interval \in Interval, NEW policy \in Policies,
             NEW read \in Time, read <= clock,
             \/ AddRepeatedCallback(read, interval, policy)
             \/ \E baseTime \in Base : AddRepeatedWithBase(read, baseTime, interval, policy)
      PROVE  \E e : NewEntry(e) /\ Add(e)
    BY <1>0, <1>3, RepeatedEntry, BasedEntry DEF AddRepeatedCallback, AddRepeatedWithBase
<1>4. ASSUME NEW interval \in Interval, NEW policy \in Policies, NEW id \in Id,
             \/ ChangeRepeatedCallback(id, interval, policy)
             \/ \E baseTime \in Base : ChangeRepeatedWithBase(id, baseTime, interval, policy)
      PROVE  \E e : NewEntry(e) /\ Replace(id, e)
  <2>1. CASE ChangeRepeatedCallback(id, interval, policy)
    <3> DEFINE e == Entry("call", clock + interval, interval, policy, clock)
    <3>1. NewEntry(e)
      BY <1>0, RepeatedEntry
    <3>2. e.kind = "call"
      BY DEF Entry
    <3>3. Replace(id, e)
      BY <2>1, <3>2 DEF ChangeRepeatedCallback, Change, Replace
    <3> QED
      BY <3>1, <3>3
  <2>2. ASSUME NEW baseTime \in Base, ChangeRepeatedWithBase(id, baseTime, interval, policy)
        PROVE  \E e : NewEntry(e) /\ Replace(id, e)
    <3> DEFINE e == Entry("call", calculateNextTime(clock, baseTime, interval), interval,
                          policy, baseTime)
    <3>1. NewEntry(e)
      BY <1>0, BasedEntry
    <3>2. e.kind = "call"
      BY DEF Entry
    <3>3. Replace(id, e)
      BY <2>2, <3>2 DEF ChangeRepeatedWithBase, Change, Replace
    <3> QED
      BY <3>1, <3>3
  <2> QED
    BY <1>4, <2>1, <2>2
<1> QED
    BY <1>1, <1>2, <1>3, <1>4 DEF Edit

\* When the loop runs a repeated callback, it comes again an interval later, or, if that
\* is in the past, at most an interval after the time of the loop; either way on its grid.
LEMMA NextTimeFacts ==
    ASSUME TypeInv, NEW id \in Id, entry[id].interval # 0, entry[id].nextTime <= now
    PROVE  LET e == entry[id]
               next == NextTime(e)
           IN  /\ next \in Nat
               /\ next >= now /\ next <= now + e.interval
               /\ e.nextTime = now => next > now
               /\ e.timerPolicy = "BASETIME" => \E k \in Int : next - e.nextTime = k * e.interval
<1> DEFINE e == entry[id]
           first == e.nextTime + e.interval
           calculated == calculateNextTime(now, first, e.interval)
           next == NextTime(e)
<1>1. /\ e.interval \in Nat \ {0} /\ e.nextTime \in Nat /\ now \in Nat /\ first \in Nat
      /\ e.nextTime <= now
  <2>1. e \in EntryType /\ now \in Nat
    BY DEF TypeInv
  <2>2. e.interval \in Nat \ {0} /\ e.nextTime \in Nat
    BY <2>1, IntervalAssumption DEF EntryType
  <2> QED
    BY <2>1, <2>2
<1>2. CASE first >= now
  <2>1. next = first
    BY <1>2 DEF NextTime
  <2>2. next - e.nextTime = 1 * e.interval
    BY <1>1, <2>1
  <2> QED
    BY <1>1, <1>2, <2>1, <2>2
<1>3. CASE ~(first >= now) /\ e.timerPolicy = "BASETIME"
  <2>1. next = calculated
    BY <1>3 DEF NextTime
  <2>2. PICK k \in Int : /\ calculated \in Int
                         /\ now < calculated /\ calculated <= now + e.interval
                         /\ calculated - first = k * e.interval
    <3>1. now \in Int /\ first \in Int
      BY <1>1
    <3> HIDE DEF first
    <3> QED
      BY <1>1, <3>1, CalculateNextTimeFacts, Zenon
  <2> HIDE DEF calculated
  <2>3. calculated - e.nextTime = (k * e.interval) + e.interval
    BY <1>1, <2>2
  <2>4. (k + 1) * e.interval = (k * e.interval) + e.interval
    BY <1>1
  <2> QED
    BY <1>1, <2>1, <2>2, <2>3, <2>4
<1>4. CASE ~(first >= now) /\ e.timerPolicy # "BASETIME"
  <2>1. next = now + e.interval
    BY <1>4 DEF NextTime
  <2> QED
    BY <1>1, <1>4, <2>1
<1> QED
    BY <1>2, <1>3, <1>4

-----------------------------------------------------------------------------
(* Every step, case by case.                                                 *)

\* The cases of a step.
LEMMA StepCases ==
    ASSUME TypeInv, [Next]_vars
    PROVE  \/ Tick \/ Process \/ Drain \/ Return \/ Finish \/ Clear
           \/ \E id \in Id : RunOnce(id)
           \/ \E id \in Id : RunRepeated(id)
           \/ \E e : NewEntry(e) /\ Add(e)
           \/ \E id \in Id : \E e : NewEntry(e) /\ Replace(id, e)
           \/ \E id \in Id : RemoveCallback(id)
           \/ UNCHANGED vars
BY EditCases DEF Next, Loop

\* The numbers of an entry.
LEMMA EntryFields ==
    ASSUME NEW e \in EntryType
    PROVE  e.interval \in Nat /\ e.nextTime \in Nat /\ e.runs \in Nat /\ e.grid \in Int
<1>1. e.interval \in Interval \cup {0}
    BY DEF EntryType
<1>2. Interval \cup {0} \subseteq Nat
    BY IntervalAssumption
<1>3. e.nextTime \in Nat /\ e.runs \in Nat /\ e.grid \in Int
    BY DEF EntryType
<1> QED
    BY <1>1, <1>2, <1>3, Zenon

\* An entry that ran is an entry.
LEMMA RanEntry ==
    ASSUME NEW e \in EntryType, NEW next \in Nat, NEW time \in Nat
    PROVE  [e EXCEPT !.nextTime = next, !.last = time, !.runs = @ + 1] \in EntryType
<1>1. e.runs + 1 \in Nat /\ time \in Int
    BY DEF EntryType
<1> QED
    BY <1>1 DEF EntryType

\* What a repeated run does to its entry.
LEMMA RunEffect ==
    ASSUME TypeInv, NEW id \in Id, RunRepeated(id)
    PROVE  /\ entry[id].interval # 0 /\ entry[id].nextTime <= now /\ id \in root
           /\ entry'[id] = [entry[id] EXCEPT !.nextTime = NextTime(entry[id]), !.last = now,
                                             !.runs = @ + 1]
           /\ entry'[id] \in EntryType
           /\ entry' \in [Id -> EntryType]
           /\ \A other \in Id \ {id} : entry'[other] = entry[other]
           /\ step = "loop" /\ step' = "callback"
           /\ UNCHANGED <<clock, root, idRoot, idCounter, now, deleting>>
<1> DEFINE e == [entry[id] EXCEPT !.nextTime = NextTime(entry[id]), !.last = now,
                                  !.runs = @ + 1]
<1>1. entry[id].interval # 0 /\ entry[id].nextTime <= now /\ id \in root
    BY DEF RunRepeated, First
<1>2. entry' = [entry EXCEPT ![id] = e]
    BY DEF RunRepeated, TypeInv
<1>3. NextTime(entry[id]) \in Nat
    BY <1>1, NextTimeFacts
<1>4. entry[id] \in EntryType /\ entry \in [Id -> EntryType] /\ now \in Nat
    BY DEF TypeInv
<1>5. e \in EntryType
    BY <1>3, <1>4, RanEntry
<1> HIDE DEF e
<1>6. entry' \in [Id -> EntryType] /\ entry'[id] = e
      /\ \A other \in Id \ {id} : entry'[other] = entry[other]
    BY <1>2, <1>4, <1>5
<1>7. /\ step = "loop" /\ step' = "callback"
      /\ UNCHANGED <<clock, root, idRoot, idCounter, now, deleting>>
    BY DEF RunRepeated
<1> QED
    BY <1>1, <1>5, <1>6, <1>7 DEF e

\* Every entry keeps its type.
LEMMA TypeStep ==
    ASSUME TypeInv, [Next]_vars
    PROVE  TypeInv'
<1> USE BoundAssumption
<1> USE DEF TypeInv, Time, Steps
<1>0. Freed \in EntryType /\ entry \in [Id -> EntryType]
    BY DEF Freed, Entry, EntryType, Kinds, Policies
<1>1. CASE Tick
    BY <1>1 DEF Tick, trees
<1>2. ASSUME NEW time \in Nat, Begin(time) PROVE entry' \in [Id -> EntryType]
    BY <1>0, <1>2 DEF Begin, EntryType
<1>3. CASE Process
    BY <1>3, <1>2 DEF Process, Begin
<1>4. CASE Drain
    BY <1>4, <1>2 DEF Drain, Begin
<1>5. CASE Return
    BY <1>5 DEF Return, trees
<1>6. CASE Finish
    BY <1>6 DEF Finish, trees
<1>7. CASE Clear
    BY <1>0, <1>7 DEF Clear
<1>8. ASSUME NEW id \in Id, RunOnce(id) PROVE TypeInv'
    BY <1>0, <1>8 DEF RunOnce
<1>9. ASSUME NEW id \in Id, RunRepeated(id) PROVE TypeInv'
    BY <1>9, RunEffect
<1>10. ASSUME NEW e, NewEntry(e), Add(e) PROVE TypeInv'
  <2>1. idCounter' \in 1..MaxId
    BY <1>10 DEF Add
  <2> QED
    BY <2>1, <1>10 DEF Add, NewEntry, Id
<1>11. ASSUME NEW id \in Id, NEW e, NewEntry(e), Replace(id, e) PROVE TypeInv'
    BY <1>11 DEF Replace, NewEntry
<1>12. ASSUME NEW id \in Id, RemoveCallback(id) PROVE TypeInv'
    BY <1>0, <1>12 DEF RemoveCallback
<1>13. CASE UNCHANGED vars
    BY <1>13 DEF vars
<1> QED
    BY <1>1, <1>3, <1>4, <1>5, <1>6, <1>7, <1>8, <1>9, <1>10, <1>11, <1>12, <1>13, StepCases

\* Every operation and the loop put an entry into both trees or take it out of both.
LEMMA TreesStep ==
    ASSUME TypeInv, TreesAgree, [Next]_vars
    PROVE  TreesAgree'
<1> USE DEF TreesAgree
<1>0. entry \in [Id -> EntryType] /\ idCounter \in 0..MaxId /\ MaxId \in Nat
    BY BoundAssumption DEF TypeInv
<1>1. CASE UNCHANGED trees
    BY <1>1 DEF trees
<1>2. ASSUME NEW time, Begin(time) PROVE TreesAgree'
  <2>1. ASSUME NEW id \in Id \ root'
        PROVE  entry'[id] = [Freed EXCEPT !.runs = entry'[id].runs]
    <3>1. entry'[id] = [entry[id] EXCEPT !.runs = 0]
      BY <1>2, <2>1 DEF Begin
    <3>2. entry[id] = [Freed EXCEPT !.runs = entry[id].runs]
      BY <1>2, <2>1 DEF Begin
    <3> QED
      BY <3>1, <3>2 DEF Freed, Entry
  <2> QED
    BY <1>2, <2>1 DEF Begin
<1>3. ASSUME NEW id \in Id, RemoveCallback(id) \/ RunOnce(id) PROVE TreesAgree'
  <2>1. /\ root' = root \ {id} /\ idRoot' = idRoot \ {id} /\ idCounter' = idCounter
        /\ entry' = [entry EXCEPT ![id] = Freed]
    BY <1>3 DEF RemoveCallback, RunOnce
  <2>2. Freed = [Freed EXCEPT !.runs = Freed.runs]
    BY DEF Freed, Entry
  <2> QED
    BY <1>0, <2>1, <2>2
<1>4. CASE Clear
  <2>1. Freed = [Freed EXCEPT !.runs = Freed.runs]
    BY DEF Freed, Entry
  <2> QED
    BY <1>4, <2>1 DEF Clear
<1>5. ASSUME NEW id \in Id, RunRepeated(id) PROVE TreesAgree'
    BY <1>5, RunEffect
<1>6. ASSUME NEW e, Add(e) PROVE TreesAgree'
  <2>1. idCounter' = idCounter + 1 /\ 1..idCounter' = 1..idCounter \cup {idCounter'}
    BY <1>0, <1>6 DEF Add
  <2> QED
    BY <1>0, <1>6, <2>1 DEF Add
<1>7. ASSUME NEW id \in Id, NEW e, Replace(id, e) PROVE TreesAgree'
    BY <1>0, <1>7 DEF Replace
<1>8. CASE Tick \/ Return \/ Finish \/ UNCHANGED vars
    BY <1>1, <1>8 DEF Tick, Return, Finish, vars, trees
<1> QED
    BY <1>2, <1>3, <1>4, <1>5, <1>6, <1>7, <1>8, StepCases DEF Process, Drain

\* The time of the loop is read from the clock, which runs on.
LEMMA NowStep ==
    ASSUME TypeInv, NowReached, [Next]_vars
    PROVE  NowReached'
<1> USE DEF NowReached
<1>0. clock \in Nat /\ now \in Nat
    BY BoundAssumption DEF TypeInv, Time
<1>1. CASE Tick \/ Return \/ Finish \/ Clear \/ UNCHANGED vars
    BY <1>0, <1>1 DEF Tick, Return, Finish, Clear, vars
<1>2. CASE Process \/ Drain
    BY <1>0, <1>2 DEF Process, Drain, Begin
<1>3. ASSUME NEW id \in Id, RunRepeated(id) \/ RunOnce(id) \/ RemoveCallback(id)
      PROVE  UNCHANGED <<clock, now, deleting>>
    BY <1>3 DEF RunRepeated, RunOnce, RemoveCallback
<1>4. ASSUME NEW id, NEW e, Replace(id, e) \/ Add(e)
      PROVE  UNCHANGED <<clock, now, deleting>>
    BY <1>4 DEF Replace, Add
<1> QED
    BY <1>1, <1>2, <1>3, <1>4, StepCases

\* The part of ScheduleInv about one entry.
OnScheduleInv(id) == Repeated(id) => GridInv(id) /\ WithinInterval(id) /\ RunsInv(id)

\* An entry that a step leaves alone, while time may go on but the loop keeps its own,
\* stays on schedule.
LEMMA ScheduleKept ==
    ASSUME TypeInv, TypeInv', NEW id \in Id, OnScheduleInv(id),
           root' \subseteq root, entry'[id] = entry[id], now' = now, clock' >= clock
    PROVE  OnScheduleInv(id)'
<1>1. SUFFICES ASSUME Repeated(id)'
               PROVE  GridInv(id)' /\ WithinInterval(id)' /\ RunsInv(id)'
    BY DEF OnScheduleInv
<1>2. Repeated(id)
    BY <1>1 DEF Repeated
<1>3. GridInv(id)'
    BY <1>2, Zenon DEF OnScheduleInv, GridInv
<1>4. RunsInv(id)'
    BY <1>2 DEF OnScheduleInv, RunsInv
<1>5. WithinInterval(id)'
  <2>1. /\ clock \in Nat /\ clock' \in Nat /\ now \in Nat /\ entry[id] \in EntryType
    BY BoundAssumption DEF TypeInv, Time
  <2>2. entry[id].interval \in Nat /\ entry[id].nextTime \in Nat
    BY <2>1, EntryFields
  <2> QED
    BY <1>2, <2>1, <2>2 DEF OnScheduleInv, WithinInterval
<1> QED
    BY <1>3, <1>4, <1>5

\* A new entry is on schedule.
LEMMA ScheduleNew ==
    ASSUME TypeInv, NEW id \in Id, NEW e, NewEntry(e), entry'[id] = e, now' = now, clock' = clock
    PROVE  OnScheduleInv(id)'
<1>1. SUFFICES ASSUME Repeated(id)'
               PROVE  GridInv(id)' /\ WithinInterval(id)' /\ RunsInv(id)'
    BY DEF OnScheduleInv
<1>2. e \in EntryType /\ e.runs = 0 /\ e.interval # 0 /\ clock \in Nat /\ now \in Nat
    BY <1>1, BoundAssumption DEF NewEntry, Repeated, TypeInv, Time
<1>3. e.interval \in Nat /\ e.nextTime \in Nat
    BY <1>2, EntryFields
<1>4. GridInv(id)'
    BY <1>2, Zenon DEF GridInv, NewEntry
<1>5. WithinInterval(id)'
    BY <1>2, <1>3 DEF WithinInterval, NewEntry
<1>6. RunsInv(id)'
    BY <1>2 DEF RunsInv
<1> QED
    BY <1>4, <1>5, <1>6

\* Every entry stays on schedule.
LEMMA ScheduleStep ==
    ASSUME TypeInv, TypeInv', NowReached, ScheduleInv, [Next]_vars
    PROVE  ScheduleInv'
<1>0. SUFFICES ASSUME NEW id \in Id PROVE OnScheduleInv(id)'
    BY DEF ScheduleInv, OnScheduleInv
<1>a. OnScheduleInv(id)
    BY DEF ScheduleInv, OnScheduleInv
<1>b. clock \in Nat /\ now \in Nat /\ entry \in [Id -> EntryType] /\ entry[id] \in EntryType
    BY BoundAssumption DEF TypeInv, Time
<1>c. entry[id].interval \in Nat /\ entry[id].nextTime \in Nat
    BY <1>b, EntryFields
<1>1. CASE Tick \/ Return \/ Finish \/ UNCHANGED vars
  <2>1. entry' = entry /\ root' = root /\ now' = now /\ clock' >= clock
    BY <1>b, <1>1 DEF Tick, Return, Finish, vars, trees
  <2> QED
    BY <1>a, <2>1, ScheduleKept
<1>2. CASE Clear
  <2>1. root' = {}
    BY <1>2 DEF Clear
  <2> QED
    BY <2>1 DEF OnScheduleInv, Repeated
<1>3. CASE Process \/ Drain
  <2>1. /\ entry'[id] = [entry[id] EXCEPT !.runs = 0]
        /\ root' = root /\ clock' = clock /\ now' >= clock /\ ~deleting
    BY <1>3, <1>b DEF Process, Drain, Begin
  <2>2. SUFFICES ASSUME Repeated(id)'
                 PROVE  GridInv(id)' /\ WithinInterval(id)' /\ RunsInv(id)'
    BY DEF OnScheduleInv
  <2>3. /\ entry'[id].interval = entry[id].interval /\ entry'[id].runs = 0
        /\ entry'[id].nextTime = entry[id].nextTime /\ entry'[id].grid = entry[id].grid
        /\ entry'[id].timerPolicy = entry[id].timerPolicy
    BY <1>b, <2>1 DEF EntryType
  <2>4. Repeated(id)
    BY <2>1, <2>2, <2>3 DEF Repeated
  <2>5. GridInv(id)'
    BY <1>a, <2>3, <2>4, Zenon DEF OnScheduleInv, GridInv
  <2>6. WithinInterval(id)'
    <3>1. now <= clock /\ now' \in Nat
      BY <2>1 DEF NowReached, TypeInv
    <3> QED
      BY <1>a, <1>b, <1>c, <2>1, <2>3, <2>4, <3>1 DEF OnScheduleInv, WithinInterval
  <2>7. RunsInv(id)'
    BY <2>3 DEF RunsInv
  <2> QED
    BY <2>5, <2>6, <2>7
<1>4. ASSUME NEW other \in Id, RunOnce(other) \/ RemoveCallback(other)
      PROVE  OnScheduleInv(id)'
  <2>1. /\ root' = root \ {other} /\ entry' = [entry EXCEPT ![other] = Freed]
        /\ now' = now /\ clock' = clock
    BY <1>4 DEF RunOnce, RemoveCallback
  <2>2. CASE id = other
    BY <2>1, <2>2 DEF OnScheduleInv, Repeated
  <2>3. CASE id # other
    <3>1. entry'[id] = entry[id] /\ root' \subseteq root /\ clock' >= clock
      BY <1>b, <2>1, <2>3
    <3> QED
      BY <1>a, <2>1, <3>1, ScheduleKept
  <2> QED
    BY <2>2, <2>3
<1>5. ASSUME NEW other \in Id, RunRepeated(other)
      PROVE  OnScheduleInv(id)'
  <2>1. CASE id # other
    <3>1. entry'[id] = entry[id] /\ root' = root /\ clock' = clock /\ now' = now
      BY <1>5, <2>1, RunEffect
    <3> QED
      BY <1>a, <1>b, <3>1, ScheduleKept
  <2>2. CASE id = other
    <3> DEFINE next == NextTime(entry[id])
    <3>1. /\ entry[id].interval # 0 /\ entry[id].nextTime <= now /\ id \in root
          /\ entry'[id] = [entry[id] EXCEPT !.nextTime = next, !.last = now, !.runs = @ + 1]
          /\ clock' = clock /\ now' = now
      BY <1>5, <2>2, RunEffect
    <3>2. /\ next \in Nat
          /\ next >= now /\ next <= now + entry[id].interval
          /\ entry[id].nextTime = now => next > now
          /\ entry[id].timerPolicy = "BASETIME" =>
               \E k \in Int : next - entry[id].nextTime = k * entry[id].interval
      BY <3>1, NextTimeFacts
    <3> HIDE DEF next
    <3>3. /\ entry'[id].interval = entry[id].interval /\ entry'[id].runs = entry[id].runs + 1
          /\ entry'[id].nextTime = next /\ entry'[id].grid = entry[id].grid
          /\ entry'[id].timerPolicy = entry[id].timerPolicy
      BY <1>b, <3>1 DEF EntryType
    <3>4. GridInv(id) /\ WithinInterval(id) /\ RunsInv(id)
      BY <1>a, <3>1 DEF OnScheduleInv, Repeated
    <3>5. GridInv(id)'
      <4>1. SUFFICES ASSUME entry[id].timerPolicy = "BASETIME"
                     PROVE  \E k \in Int : next - entry[id].grid = k * entry[id].interval
        BY <3>3 DEF GridInv
      <4>2. PICK k \in Int : entry[id].nextTime - entry[id].grid = k * entry[id].interval
        BY <3>4, <4>1, Zenon DEF GridInv
      <4>3. PICK m \in Int : next - entry[id].nextTime = m * entry[id].interval
        BY <3>2, <4>1, Zenon
      <4>4. entry[id].grid \in Int
        BY <1>b DEF EntryType
      <4>5. next - entry[id].grid = (k * entry[id].interval) + (m * entry[id].interval)
        BY <1>c, <3>2, <4>2, <4>3, <4>4
      <4>6. (k + m) * entry[id].interval = (k * entry[id].interval) + (m * entry[id].interval)
        BY <1>c
      <4>7. k + m \in Int /\ next - entry[id].grid = (k + m) * entry[id].interval
        BY <4>5, <4>6
      <4> QED
        BY <4>7, Zenon
    <3>6. WithinInterval(id)'
      BY <1>b, <1>c, <3>1, <3>2, <3>3 DEF WithinInterval
    <3>7. RunsInv(id)'
      <4>1. entry[id].runs \in Nat
        BY <1>b DEF EntryType
      <4> QED
        BY <1>b, <1>c, <3>1, <3>2, <3>3, <3>4, <4>1 DEF RunsInv
    <3> QED
      BY <3>5, <3>6, <3>7 DEF OnScheduleInv
  <2> QED
    BY <2>1, <2>2
<1>6. ASSUME NEW e, NewEntry(e), Add(e)
      PROVE  OnScheduleInv(id)'
  <2>1. /\ entry' = [entry EXCEPT ![idCounter'] = e]
        /\ root' = root \cup {idCounter'} /\ clock' = clock /\ now' = now
    BY <1>6 DEF Add
  <2>2. CASE id = idCounter'
    <3>1. entry'[id] = e
      BY <1>b, <2>1, <2>2
    <3> QED
      BY <1>6, <2>1, <3>1, ScheduleNew
  <2>3. CASE id # idCounter'
    <3>1. entry'[id] = entry[id] /\ (id \in root' <=> id \in root)
      BY <1>b, <2>1, <2>3
    <3> QED
      BY <1>a, <2>1, <3>1 DEF OnScheduleInv, Repeated, GridInv, WithinInterval, RunsInv
  <2> QED
    BY <2>2, <2>3
<1>7. ASSUME NEW other \in Id, NEW e, NewEntry(e), Replace(other, e)
      PROVE  OnScheduleInv(id)'
  <2>1. /\ entry' = [entry EXCEPT ![other] = e]
        /\ root' = root /\ clock' = clock /\ now' = now
    BY <1>7 DEF Replace
  <2>2. CASE id = other
    <3>1. entry'[id] = e
      BY <1>b, <2>1, <2>2
    <3> QED
      BY <1>7, <2>1, <3>1, ScheduleNew
  <2>3. CASE id # other
    <3>1. entry'[id] = entry[id] /\ clock' >= clock
      BY <1>b, <2>1, <2>3
    <3> QED
      BY <1>a, <2>1, <3>1, ScheduleKept
  <2> QED
    BY <2>2, <2>3
<1> QED
    BY <1>1, <1>2, <1>3, <1>4, <1>5, <1>6, <1>7, StepCases

\* A removal waits at most one tick; none is added once the server is being deleted.
LEMMA CleanupStep ==
    ASSUME TypeInv, TypeInv', NowReached, CleanupInv, [Next]_vars
    PROVE  CleanupInv'
<1> USE DEF CleanupInv
<1>0. clock \in Nat /\ now \in Nat /\ entry \in [Id -> EntryType]
    BY BoundAssumption DEF TypeInv, Time
<1>a. \A id \in Id : entry[id] \in EntryType /\ entry[id].nextTime \in Nat
    BY <1>0, EntryFields
<1>b. root \subseteq Id /\ root' \subseteq Id
    BY DEF TypeInv
<1>1. CASE Tick \/ Return \/ Finish \/ UNCHANGED vars
  <2>1. entry' = entry /\ root' = root /\ now' = now /\ clock' >= clock /\ clock' \in Nat
        /\ deleting' = deleting
    BY <1>0, <1>1 DEF Tick, Return, Finish, vars, trees
  <2> QED
    BY <1>0, <1>a, <1>b, <2>1
<1>2. CASE Clear
  <2>1. root' = {} /\ entry' = [id \in Id |-> IF id \in idRoot THEN Freed ELSE entry[id]]
    BY <1>2 DEF Clear
  <2>2. Freed.interval = 0
    BY DEF Freed, Entry
  <2> QED
    BY <2>1, <2>2
<1>3. CASE Process \/ Drain
  <2>1. /\ entry' = [id \in Id |-> [entry[id] EXCEPT !.runs = 0]]
        /\ root' = root /\ clock' = clock /\ ~deleting
        /\ deleting' => now' = clock + 1
    BY <1>3 DEF Process, Drain, Begin
  <2>2. \A id \in Id : /\ entry'[id].kind = entry[id].kind
                       /\ entry'[id].interval = entry[id].interval
                       /\ entry'[id].nextTime = entry[id].nextTime
    BY <1>a, <2>1 DEF EntryType
  <2> QED
    BY <1>b, <2>1, <2>2
<1>4. ASSUME NEW other \in Id, RunOnce(other) \/ RemoveCallback(other)
      PROVE  CleanupInv'
  <2>1. /\ root' = root \ {other} /\ entry' = [entry EXCEPT ![other] = Freed]
        /\ now' = now /\ clock' = clock /\ deleting' = deleting
    BY <1>4 DEF RunOnce, RemoveCallback
  <2>2. Freed.interval = 0
    BY DEF Freed, Entry
  <2> QED
    BY <1>0, <2>1, <2>2, <1>b
<1>5. ASSUME NEW other \in Id, RunRepeated(other)
      PROVE  CleanupInv'
  <2>1. /\ entry[other].interval # 0
        /\ entry'[other] = [entry[other] EXCEPT !.nextTime = NextTime(entry[other]),
                                                !.last = now, !.runs = @ + 1]
        /\ \A id \in Id \ {other} : entry'[id] = entry[id]
        /\ UNCHANGED <<clock, root, now, deleting>>
    BY <1>5, RunEffect
  <2>2. entry[other].kind = "call"
    BY <2>1
  <2>3. entry'[other].kind = "call"
    BY <1>a, <2>1, <2>2 DEF EntryType
  <2>4. ASSUME NEW id \in Id, entry'[id].kind # "call" PROVE entry'[id] = entry[id]
    BY <2>1, <2>3, <2>4
  <2> QED
    BY <1>b, <2>1, <2>4
<1>6. ASSUME NEW e, NewEntry(e), Add(e)
      PROVE  CleanupInv'
  <2>1. /\ entry' = [entry EXCEPT ![idCounter'] = e]
        /\ root' = root \cup {idCounter'} /\ UNCHANGED <<clock, now, deleting>>
    BY <1>6 DEF Add
  <2>2. e.kind # "call" => ~deleting /\ e.interval = 0 /\ e.nextTime <= clock + 1
    BY <1>6 DEF NewEntry
  <2>3. \A id \in Id : entry'[id] = IF id = idCounter' THEN e ELSE entry[id]
    BY <1>0, <2>1
  <2>4. ASSUME NEW id \in Id, entry'[id].kind # "call" PROVE entry'[id].interval = 0
    BY <2>2, <2>3, <2>4
  <2>5. ASSUME NEW id \in root', entry'[id].kind = "cleanup"
        PROVE  entry'[id].nextTime <= (IF deleting THEN now ELSE clock + 1)
    <3>1. CASE id = idCounter'
      BY <1>b, <2>2, <2>3, <2>5, <3>1
    <3>2. CASE id # idCounter'
      BY <1>b, <2>1, <2>3, <2>5, <3>2
    <3> QED
      BY <3>1, <3>2
  <2> QED
    BY <2>1, <2>4, <2>5
<1>7. ASSUME NEW other \in Id, NEW e, NewEntry(e), Replace(other, e)
      PROVE  CleanupInv'
  <2>1. /\ entry' = [entry EXCEPT ![other] = e] /\ e.kind = "call"
        /\ UNCHANGED <<clock, root, now, deleting>>
    BY <1>7 DEF Replace
  <2>2. \A id \in Id : entry'[id].kind # "call" => entry'[id] = entry[id]
    BY <1>0, <2>1
  <2> QED
    BY <1>b, <2>1, <2>2
<1> QED
    BY <1>1, <1>2, <1>3, <1>4, <1>5, <1>6, <1>7, StepCases

\* The loop ends only when nothing is due any more.
LEMMA NothingDue ==
    ASSUME TypeInv, Finish
    PROVE  \A id \in root : entry[id].nextTime > now
<1>1. SUFFICES ASSUME NEW id \in root, ~(entry[id].nextTime > now) PROVE FALSE
    OBVIOUS
<1> DEFINE times == {entry[other].nextTime : other \in root}
<1>2. now \in Nat /\ \A other \in root : other \in Id /\ entry[other].nextTime \in Nat
    BY EntryFields DEF TypeInv
<1>3. times \in SUBSET Nat /\ entry[id].nextTime \in times
    BY <1>2
<1>4. PICK least \in times : \A time \in times : least <= time
    BY <1>3, LeastNumber
<1>5. PICK first \in root : entry[first].nextTime = least
    BY <1>4
<1>6. \A other \in root : entry[first].nextTime <= entry[other].nextTime
    BY <1>4, <1>5
<1>7. entry[first].nextTime <= now
    BY <1>1, <1>2, <1>6
<1>8. First(first)
    BY <1>6, <1>7 DEF First
<1> QED
    BY <1>8 DEF Finish

\* When the timer is drained every removal has been executed: all of them were due.
LEMMA DrainedStep ==
    ASSUME TypeInv, TypeInv', CleanupInv, CleanupNotLost, [Next]_vars
    PROVE  CleanupNotLost'
<1> USE DEF CleanupNotLost
<1>0. SUFFICES ASSUME step' = "drained" PROVE \A id \in root' : entry'[id].kind # "cleanup"
    OBVIOUS
<1>1. CASE Finish
  <2>1. deleting /\ root' = root /\ entry' = entry
    BY <1>0, <1>1 DEF Finish, trees
  <2>2. \A id \in root : id \in Id /\ entry[id].nextTime \in Nat /\ now \in Nat
    BY EntryFields DEF TypeInv
  <2>3. \A id \in root : entry[id].nextTime > now
    BY <1>1, NothingDue
  <2> QED
    BY <2>1, <2>2, <2>3 DEF CleanupInv
<1>2. CASE Tick \/ UNCHANGED vars
    BY <1>0, <1>2 DEF Tick, trees, vars
<1>3. CASE Process \/ Drain \/ Return \/ Clear
    BY <1>0, <1>3 DEF Process, Drain, Begin, Return, Clear
<1>4. ASSUME NEW id \in Id, RunOnce(id) PROVE FALSE
    BY <1>0, <1>4 DEF RunOnce
<1>5. ASSUME NEW id \in Id, RunRepeated(id) PROVE FALSE
    BY <1>0, <1>5 DEF RunRepeated
<1>6. ASSUME NEW id, NEW e, Add(e) \/ Replace(id, e) \/ RemoveCallback(id) PROVE FALSE
    BY <1>0, <1>6 DEF Add, Replace, RemoveCallback, Unlocked
<1> QED
    BY <1>1, <1>2, <1>3, <1>4, <1>5, <1>6, StepCases

-----------------------------------------------------------------------------
(* The theorems.                                                             *)

\* The invariant holds when the server starts.
LEMMA TimerInvInit == Init => TimerInv
<1> SUFFICES ASSUME Init PROVE TimerInv
    OBVIOUS
<1>1. Freed \in EntryType
    BY DEF Freed, Entry, EntryType, Kinds, Policies
<1>2. TypeInv
  <2>1. 0 \in 0..MaxTime /\ 0 \in 0..MaxId
    BY BoundAssumption
  <2>2. entry \in [Id -> EntryType]
    BY <1>1 DEF Init
  <2> QED
    BY <2>1, <2>2 DEF Init, TypeInv, Time, Steps
<1>3. Freed = [Freed EXCEPT !.runs = Freed.runs] /\ Freed.interval = 0
    BY DEF Freed, Entry
<1>4. TreesAgree /\ NowReached /\ ScheduleInv /\ CleanupInv /\ CleanupNotLost
    BY <1>3 DEF Init, TreesAgree, NowReached, ScheduleInv, Repeated, CleanupInv, CleanupNotLost
<1> QED
    BY <1>2, <1>4 DEF TimerInv

\* Every step keeps it.
LEMMA TimerInvStep == TimerInv /\ [Next]_vars => TimerInv'
<1> SUFFICES ASSUME TimerInv, [Next]_vars PROVE TimerInv'
    OBVIOUS
<1> USE DEF TimerInv
<1>1. TypeInv'
    BY TypeStep
<1> QED
    BY <1>1, TreesStep, NowStep, ScheduleStep, CleanupStep, DrainedStep

\* The invariant always holds.
THEOREM TimerInvariance == Spec => []TimerInv
BY TimerInvInit, TimerInvStep, PTL DEF Spec

\* Every variable of the timer has its type.
THEOREM TimerTypeCorrect == Spec => []TimerTypeOK
<1>1. TypeInv => TimerTypeOK
  <2>1. EntryType \subseteq [kind : Kinds, nextTime : Int, interval : Interval \cup {0},
                             timerPolicy : Policies, grid : Int, last : Int, runs : Nat]
    BY DEF EntryType
  <2> QED
    BY <2>1 DEF TypeInv, TimerTypeOK
<1> QED
    BY <1>1, TimerInvariance, PTL DEF TimerInv

\* Both trees hold the same entries whenever the mutex is free, and no identifier is
\* given twice (ua_timer.c: UA_Timer_process, UA_Timer_removeCallback, addTimerEntry).
THEOREM TreesAlwaysAgree == Spec => []TreesAgree
BY TimerInvariance, PTL DEF TimerInv

\* A repeated callback stays on its grid, within an interval, and runs twice at most in one
\* call of UA_Timer_process (calculateNextTime and the two policies).
THEOREM ScheduleKeptAlways == Spec => []OnSchedule
<1>1. TimerInv => OnSchedule
  <2>1. SUFFICES ASSUME TypeInv, ScheduleInv, NEW id \in Id, Repeated(id)
                 PROVE  OnGrid(id) /\ WithinInterval(id) /\ AtMostTwice(id)
    BY DEF TimerInv, OnSchedule
  <2>2. GridInv(id) /\ WithinInterval(id) /\ RunsInv(id)
    BY <2>1 DEF ScheduleInv
  <2>3. OnGrid(id)
    <3>1. SUFFICES ASSUME entry[id].timerPolicy = "BASETIME"
                   PROVE  (entry[id].nextTime - entry[id].grid) % entry[id].interval = 0
      BY DEF OnGrid
    <3>2. PICK k \in Int : entry[id].nextTime - entry[id].grid = k * entry[id].interval
      BY <2>2, <3>1, Zenon DEF GridInv
    <3>3. entry[id] \in EntryType /\ entry[id].interval # 0
      BY <2>1 DEF TypeInv, Repeated
    <3>4. entry[id].interval \in Nat \ {0} /\ entry[id].nextTime - entry[id].grid \in Int
      BY <3>3, EntryFields
    <3> QED
      BY <3>2, <3>4, ModMultiple
  <2> QED
    BY <2>2, <2>3 DEF RunsInv, AtMostTwice
<1> QED
    BY <1>1, TimerInvariance, PTL

\* The removals waiting when the server is deleted are executed before the timer is
\* cleared (UA_Server_delete drains the timer with a time one tick ahead of the clock).
THEOREM CleanupExecuted == Spec => []CleanupNotLost
BY TimerInvariance, PTL DEF TimerInv
=============================================================================
