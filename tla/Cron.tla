-------------------------------- MODULE Cron --------------------------------
(***************************************************************************)
(* The daily work of src/src/main.rs at a wall-clock time: the sleep until *)
(* the next time, the stamp on disk that guards against a second run, and  *)
(* restarts.  What the work is (feeds, root anchors, dynamic DNS, ranking) *)
(* is in the modules Feeds, Anchors and UpstreamPool.                      *)
(*                                                                         *)
(* Time is counted in ticks of half a minute, a day is a few of them.  The *)
(* offset of the time zone is what it was when the process started.  A     *)
(* sleep may end late; the wall's clock is taken to agree with its clock.  *)
(***************************************************************************)
EXTENDS Integers

CONSTANTS
    Day,          \* ticks in a day
    Minute,       \* 2 ticks
    Guard,        \* 61 s, in ticks: the sleep after the work
    Window,       \* 90 s, in ticks: a stamp younger than this forbids the work
    Target,       \* the configured time of the day
    Shift,        \* the offsets the zone may have
    Late,         \* how late a sleep may end
    Busy,         \* bound: the ticks the work takes at most
    Days,         \* bound on time, in days
    MaxReboots    \* bound on restarts

ASSUME CronAssumption ==
    /\ Day \in Nat /\ Minute \in Nat /\ Guard \in Nat /\ Window \in Nat /\ Late \in Nat /\ Busy \in Nat
    /\ Days \in Nat \ {0} /\ MaxReboots \in Nat /\ Shift \subseteq Int
    \* A sleep ends within the minute it is for, the stamp outlasts that minute, and so
    \* does the sleep after the work, which is over long before the next day's.
    /\ Late < Minute /\ Minute <= Window /\ Minute <= Guard /\ Busy + Guard + Minute < Day
    /\ Target \in 0..(Day - Minute)

VARIABLES
    now,          \* UTC
    current,      \* the offset in force
    offset,       \* tz_offset_secs of the process
    parses,       \* parse_simple_cron takes the configured expression
    at,           \* where the task is
    wake,         \* when its sleep is over
    stamp,        \* the file: when the work began last
    since,        \* history: when the process started
    runs,         \* history: when the work was begun
    reboots       \* counts restarts, against MaxReboots

cronVars == <<now, current, offset, parses, at, wake, stamp, since, runs, reboots>>

Never == -Window
TimeOfDay(t, shift) == (t + shift) % Day

\* secs_until_next_cron; 0 in the target minute.
UntilNext ==
    LET local == TimeOfDay(now, offset)
    IN  IF local \in Target..(Target + Minute - 1) THEN 0
        ELSE (Target - local) % Day
Recent == now - stamp < Window

CronInit ==
    /\ now \in 0..(Day - 1)
    /\ current \in Shift /\ offset = current /\ parses \in BOOLEAN
    /\ at = "ask" /\ wake = now /\ since = now
    /\ stamp = Never /\ runs = {} /\ reboots = 0

Sleep(until, where) == wake' = until /\ at' = where
\* The stamp is written first; the work may take until some later tick.
Work ==
    /\ stamp' = now /\ runs' = runs \cup {now}
    /\ Sleep(now, "working")

AskTime ==
    /\ at = "ask" /\ parses
    /\ IF UntilNext > 0
       THEN \E late \in 0..Late : Sleep(now + UntilNext + late, "due") /\ UNCHANGED <<stamp, runs>>
       ELSE IF Recent THEN Sleep(now + Guard, "guard") /\ UNCHANGED <<stamp, runs>>
       ELSE Work
    /\ UNCHANGED <<now, current, offset, parses, since, reboots>>

\* Mutant: the work after a sleep writes no stamp.
Wake_Unstamped ==
    /\ at = "due" /\ now >= wake
    /\ runs' = runs \cup {now}
    /\ Sleep(now, "working")
    /\ UNCHANGED <<now, current, offset, parses, stamp, since, reboots>>
\* After the sleep the stamp is not asked.
Wake ==
    /\ at = "due" /\ now >= wake
    /\ Work
    /\ UNCHANGED <<now, current, offset, parses, since, reboots>>

Worked ==
    /\ at = "working" /\ parses
    /\ Sleep(now + Guard, "guard")
    /\ UNCHANGED <<now, current, offset, parses, stamp, since, runs, reboots>>

GuardEnds ==
    /\ at = "guard" /\ now >= wake
    /\ Sleep(now, "ask")
    /\ UNCHANGED <<now, current, offset, parses, stamp, since, runs, reboots>>

\* The fallback: at once, and every day from then on; there is no stamp.
Interval ==
    /\ ~parses /\ at \in {"ask", "working"} /\ now >= wake
    /\ runs' = runs \cup {now}
    /\ Sleep(wake + Day, "working")
    /\ UNCHANGED <<now, current, offset, parses, stamp, since, reboots>>

\* Nothing that is due waits for the next tick.
Due ==
    \/ at = "ask" \/ (at \in {"due", "guard"} /\ now >= wake)
    \/ at = "working" /\ now >= (IF parses THEN wake + Busy ELSE wake)
TimePasses ==
    /\ now < Days * Day /\ ~Due
    /\ now' = now + 1
    /\ current' \in Shift
    /\ (now + 1) % Day # 0 => current' = current
    /\ UNCHANGED <<offset, parses, at, wake, stamp, since, runs, reboots>>

StartAgain ==
    /\ reboots < MaxReboots /\ reboots' = reboots + 1
    /\ offset' = current /\ since' = now
    /\ Sleep(now, "ask")
    /\ UNCHANGED <<now, current, parses, stamp, runs>>

CronNext == AskTime \/ Wake \/ Worked \/ GuardEnds \/ Interval \/ TimePasses \/ StartAgain

CronSpec == CronInit /\ [][CronNext]_cronVars

---------------------------------------------------------------------------
CronTypeOK ==
    /\ now \in 0..(Days * Day) /\ current \in Shift /\ offset \in Shift /\ parses \in BOOLEAN
    /\ at \in {"ask", "due", "working", "guard"}
    /\ runs \subseteq 0..now /\ stamp <= now /\ since <= now /\ reboots \in 0..MaxReboots

\* Times that belong to one firing of the schedule.
Together(s, t) == s < t /\ t - s < Day - Minute - Late
(***************************************************************************)
(* The work is begun once for a day's time, however the process restarts   *)
(* around it, and a process that has slept up to it has begun it.  (With   *)
(* an expression that is not parsed every start of the process begins it.) *)
(***************************************************************************)
OnceADay ==
  parses =>
    /\ \A s, t \in runs : ~Together(s, t)
    /\ \A t \in (since + 1)..now :
          TimeOfDay(t, offset) = Target /\ now > t + Late + Minute
             => \E s \in runs : s \in (t - Window)..(t + Late + Minute)

\* src/src/main.rs:376-378 "sleeps precisely until each daily firing time": violated when the
\* offset of the zone changes while the process runs.
FiresOnTime ==
    [][parses => \A s \in runs' \ runs : TimeOfDay(s, current) \in Target..(Target + Minute + Late)]_runs
=============================================================================
