--------------------------- MODULE MoyskladClient ---------------------------
(***************************************************************************)
(* The calls the MoySklad client makes in one process: the sliding window  *)
(* of checkRateLimit, the wait before a request that would be one too      *)
(* many, the request with its retries, and the signal that cancels them.   *)
(* A process reads the pages of the warehouses (light requests), then      *)
(* those of the stock report (heavy ones), and ends with the first error.  *)
(*                                                                         *)
(* Data.  A point in time is its age in ticks, up to the window, beyond    *)
(* which nobody asks for it; time has no bound.  A call takes at least a   *)
(* tick, so that no two are admitted, or go out, at the same age.          *)
(***************************************************************************)
EXTENDS Integers, FiniteSets, FiniteSetsExt

CONSTANTS
  Window,       \* the ticks in a minute
  LightLimit, HeavyLimit, \* the code's 45 and 5
  RetryMax,     \* MAX_RETRIES
  StorePages    \* bound: pages of warehouses

ASSUME NumberAssumption ==
  /\ {Window, LightLimit, HeavyLimit} \subseteq Nat \ {0} /\ {RetryMax, StorePages} \subseteq Nat
  /\ HeavyLimit <= LightLimit /\ StorePages > 0

VARIABLES
  timestamps, \* the ages of the client's timestamps
  pc,         \* "idle" between calls, "wait", "request", "pause" before a retry, "over"
  isHeavy,    \* the kind of the latest call
  pages,      \* calls for warehouses so far
  left,       \* what is left of the wait
  retries, live,
  \* history: the ages of the requests as they first went out, by kind
  sentLight, sentHeavy

history == <<sentLight, sentHeavy>>
vars == <<timestamps, pc, isHeavy, pages, left, retries, live, history>>

Calling == pc \in {"wait", "request", "pause"}

Init ==
  /\ timestamps = {} /\ pc = "idle" /\ isHeavy = FALSE /\ pages = 0
  /\ left = 0 /\ retries = 0 /\ live = TRUE
  /\ sentLight = {} /\ sentHeavy = {}

-----------------------------------------------------------------------------
(* The world. *)

\* A slip: a timestamp that is a minute old is still in the window.
Older_Keeps(ages) == {a + 1 : a \in ages} \ {Window + 1}

\* What is a minute old has left the window.
Older(ages) == {a + 1 : a \in ages} \ {Window}

Tick ==
  /\ timestamps' = Older(timestamps)
  /\ left' = IF left > 0 THEN left - 1 ELSE 0
  /\ sentLight' = Older(sentLight) /\ sentHeavy' = Older(sentHeavy)
  /\ UNCHANGED <<pc, isHeavy, pages, retries, live>>

Cancel ==
  /\ pc # "over" /\ live
  /\ live' = FALSE
  /\ UNCHANGED <<timestamps, pc, isHeavy, pages, left, retries, history>>

\* The timer starts a process, whose client is new, when the last one has been
\* over for a minute.
Start ==
  /\ pc = "over" /\ sentLight = {} /\ sentHeavy = {}
  /\ timestamps' = {} /\ pc' = "idle" /\ isHeavy' = FALSE /\ pages' = 0
  /\ left' = 0 /\ retries' = 0 /\ live' = TRUE
  /\ UNCHANGED history

-----------------------------------------------------------------------------
(* One call. *)

Limit(heavy) == IF heavy THEN HeavyLimit ELSE LightLimit

\* A slip: the limit is reached one call too late.
WaitDuration_OffByOne(heavy) ==
  IF Cardinality(timestamps) > Limit(heavy) THEN Window - Max(timestamps) ELSE 0

\* Until the oldest timestamp is a minute old.
WaitDuration(heavy) ==
  IF Cardinality(timestamps) >= Limit(heavy) THEN Window - Max(timestamps) ELSE 0

\* checkRateLimit up to its wait: the call is counted now, whenever it is sent.
CheckRateLimit ==
  /\ pc = "idle" /\ 0 \notin timestamps \cup sentLight \cup sentHeavy
  /\ isHeavy' \in (IF isHeavy \/ pages = StorePages THEN {TRUE}
                   ELSE IF pages = 0 THEN {FALSE} ELSE BOOLEAN)
  /\ pages' = IF isHeavy' THEN pages ELSE pages + 1
  /\ left' = WaitDuration(isHeavy')
  /\ pc' = IF left' > 0 THEN "wait" ELSE "request"
  /\ timestamps' = timestamps \cup {0}
  /\ UNCHANGED <<retries, live, history>>

\* The call returns: with an answer the process goes on, or has all it wanted.
Return(ok) ==
  /\ IF ok THEN pc' \in {"idle", "over"} ELSE pc' = "over"
  /\ retries' = 0

\* A slip: the wait does not look at the context.
Wait_Sleeps ==
  /\ pc = "wait" /\ left = 0
  /\ pc' = "request" /\ UNCHANGED retries
  /\ UNCHANGED <<timestamps, isHeavy, pages, left, live, history>>

\* The select of checkRateLimit.
Wait ==
  /\ pc = "wait"
  /\ \/ left = 0 /\ pc' = "request" /\ UNCHANGED retries
     \/ ~live /\ Return(FALSE)
  /\ UNCHANGED <<timestamps, isHeavy, pages, left, live, history>>

\* A slip: retries are not counted.
Retry_Uncounted == pc' = "pause" /\ UNCHANGED retries

\* retryPolicy asks for another attempt whatever the error, the library gives
\* up after RetryMax of them.
Retry == IF retries < RetryMax THEN pc' = "pause" /\ retries' = retries + 1 ELSE Return(FALSE)

\* An attempt; a first one is what the limiter is about.
Request ==
  /\ pc = "request"
  /\ IF live /\ retries = 0
     THEN IF isHeavy THEN sentHeavy' = sentHeavy \cup {0} /\ UNCHANGED sentLight
                     ELSE sentLight' = sentLight \cup {0} /\ UNCHANGED sentHeavy
     ELSE UNCHANGED history
  /\ \/ live /\ \E ok \in BOOLEAN : Return(ok)  \* an answer: 200, or 4xx but 429
     \/ Retry                                   \* no answer, 429 or 5xx
  /\ UNCHANGED <<timestamps, isHeavy, pages, left, live>>

\* The library's pause, which the context cuts short.
Pause ==
  /\ pc = "pause"
  /\ \/ live /\ pc' = "request" /\ UNCHANGED retries
     \/ ~live /\ Return(FALSE)
  /\ UNCHANGED <<timestamps, isHeavy, pages, left, live, history>>

\* The signal comes between two calls: the next thing the code does fails.
GiveUp ==
  /\ pc = "idle" /\ ~live
  /\ pc' = "over"
  /\ UNCHANGED <<timestamps, isHeavy, pages, left, retries, live, history>>

Step == CheckRateLimit \/ Wait \/ Request \/ Pause \/ GiveUp

Next == Tick \/ Cancel \/ Start \/ Step

Spec == Init /\ [][Next]_vars
FairSpec == Spec /\ WF_vars(Step)

-----------------------------------------------------------------------------
(* Properties *)

Ages == 0..Window - 1

\* The values the variables take; the wait is never more than a minute.
TypeOK ==
  /\ {timestamps, sentLight, sentHeavy} \subseteq SUBSET Ages
  /\ pc \in {"idle", "wait", "request", "pause", "over"}
  /\ {isHeavy, live} \subseteq BOOLEAN /\ pages \in 0..StorePages
  /\ left \in 0..Window /\ retries \in 0..RetryMax

HeaviestMinute == Max({HeavyLimit, Min({StorePages, LightLimit})})

\* A call that waited is counted when it began to wait and not when it was sent,
\* and it waited for one timestamp to leave the window, even if that was a light
\* one that it would take several of to make room.  So checkRateLimit does not
\* keep the limits: of the calls first sent within a minute LightLimit + 1 may be
\* light; and heavy calls that follow light ones may go out as often as those
\* did, and one more.  More than that it never lets out.
CallsPerMinute ==
  /\ Cardinality(sentLight) <= LightLimit + 1
  /\ Cardinality(sentHeavy) <= HeaviestMinute + 1

\* When time passes every call of doRequest comes to its end: the wait is over
\* in a minute at most and the retries are counted.
CallsEnd == WF_vars(Tick) => (Calling ~> ~Calling)

\* A process that is sent a signal ends, were it in the middle of a wait or of a
\* pause between retries, without any time having to pass.
CancelEnds == ~live ~> pc = "over"
=============================================================================
