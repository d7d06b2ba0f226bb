-------------------------- MODULE TimerProperties --------------------------
(* What the timer promises to those who register callbacks with it.          *)
EXTENDS Timer, FiniteSets

\* Every variable has its type.
TimerTypeOK ==
  /\ clock \in Time /\ now \in Nat /\ deleting \in BOOLEAN
  /\ step \in Steps /\ idCounter \in 0..MaxId
  /\ root \subseteq Id /\ idRoot \subseteq Id
  /\ entry \in [Id -> [kind : Kinds, nextTime : Int, interval : Interval \cup {0},
                       timerPolicy : Policies, grid : Int, last : Int, runs : Nat]]

\* Whenever the mutex is free, in the middle of a callback too, both trees hold the same
\* entries: what is found by its id is in the tree of times, what runs can be removed by
\* its id, no entry is freed twice or never (ua_timer.c, comment at line 218), and no
\* identifier is given twice.
TreesAgree ==
  /\ root = idRoot
  /\ root \subseteq 1..idCounter
  /\ \A id \in Id \ root : entry[id] = [Freed EXCEPT !.runs = entry[id].runs]

Repeated(id) == id \in root /\ entry[id].interval # 0

\* A callback with a base time runs at multiples of its interval from there, however
\* many cycles it misses and wherever the base time lies (calculateNextTime).
OnGrid(id) ==
  entry[id].timerPolicy = "BASETIME" =>
    (entry[id].nextTime - entry[id].grid) % entry[id].interval = 0

\* A repeated callback is never more than one interval away, however its base time lies
\* to the current time and however many cycles it missed.
WithinInterval(id) ==
  entry[id].nextTime <= (IF now > clock THEN now ELSE clock) + entry[id].interval

\* However late the timer is, one call of UA_Timer_process runs a repeated callback
\* twice at most, so that it comes to an end.  (It does run twice when the next time is
\* the very time at which it is called.)
AtMostTwice(id) == entry[id].runs <= 2

\* A repeated callback keeps its schedule through missed cycles, changes of its interval
\* and base times before or after the current time: on its grid, not more than an
\* interval away, and without catching up.
OnSchedule == \A id \in Id : Repeated(id) => OnGrid(id) /\ WithinInterval(id) /\ AtMostTwice(id)

\* The delayed removals that are still waiting when the server is deleted are executed,
\* not only thrown away with the timer (UA_Server_delete, comment at line 234).
CleanupNotLost == step = "drained" => \A id \in root : entry[id].kind # "cleanup"

\* A callback that is due runs, unless it is removed, put off, or the server is deleted
\* (the main loops of server and client).
Due(id) == id \in root /\ entry[id].nextTime <= clock /\ ~deleting
DueRuns == \A id \in Id : Due(id) ~> ~Due(id)
=============================================================================
