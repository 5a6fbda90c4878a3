----------------------------- MODULE PollBudget -----------------------------
(***************************************************************************)
(* The bootstrap poll in time: poll_budget_iterations turns the timeout of *)
(* the command line into a number of polls, and poll_bootstrap sleeps      *)
(* between them (run.rs).  One poll is a whole run_with_retries of the     *)
(* client: up to MAX_ATTEMPTS exchanges of up to CALL_TIMEOUT each.        *)
(***************************************************************************)
EXTENDS Cmdline

CONSTANTS
  Interval,        \* POLL_INTERVAL, in seconds
  DefaultBudget,   \* DEFAULT_POLL_BUDGET, in seconds
  MaxU32,          \* u32::MAX
  PollTimes        \* the seconds a poll may take

ASSUME IntervalAssumption == /\ Interval \in Nat \ {0} /\ DefaultBudget \in Nat
                             /\ MaxU32 \in Nat \ {0}
\* A poll is a bounded number of exchanges with a timeout each.
ASSUME PollTimesAssumption == /\ PollTimes \subseteq Nat
                              /\ \E t \in PollTimes : \A u \in PollTimes : u <= t

VARIABLES
  attempt,   \* the polls made
  slept,     \* seconds slept between polls
  spent,     \* seconds since the first poll began
  poll       \* "off", "fetch", "sleep", or how it ended: "data", "aborted", "timedOut"

polling == <<attempt, slept, spent, poll>>
vars == <<cmdline, polling>>

-----------------------------------------------------------------------------
Longest == CHOOSE t \in PollTimes : \A u \in PollTimes : u <= t

\* beskar7.timeout, or the default.
Budget == IF value["beskar7.timeout"] = Empty THEN DefaultBudget
          ELSE Seconds[value["beskar7.timeout"]]

\* Mutant: no clamp at one.
IterationsUnclamped == LET n == Budget \div Interval IN IF n > MaxU32 THEN MaxU32 ELSE n

\* poll_budget_iterations: the division, clamped to 1 .. u32::MAX.
Iterations == LET n == Budget \div Interval IN
              IF n = 0 THEN 1 ELSE IF n > MaxU32 THEN MaxU32 ELSE n

-----------------------------------------------------------------------------
Parse == ParseStep /\ UNCHANGED polling

\* Phase 1 is behind; a line that does not parse has ended the run.
BeginPolling ==
  /\ parsed = "ok" /\ poll = "off"
  /\ poll' = IF Iterations > 0 THEN "fetch" ELSE "timedOut"
  /\ UNCHANGED <<cmdline, attempt, slept, spent>>

\* fetch() takes its time and returns the data, an error that ends the poll, or one that
\* means "not ready"; after the last poll there is no sleep.
Fetch ==
  /\ poll = "fetch"
  /\ \E t \in PollTimes : spent' = spent + t
  /\ attempt' = attempt + 1
  /\ \/ poll' \in {"data", "aborted"}
     \/ poll' = IF attempt + 1 < Iterations THEN "sleep" ELSE "timedOut"
  /\ UNCHANGED <<cmdline, slept>>

Sleep ==
  /\ poll = "sleep"
  /\ slept' = slept + Interval /\ spent' = spent + Interval
  /\ poll' = "fetch"
  /\ UNCHANGED <<cmdline, attempt>>

Init == /\ CmdlineInit
        /\ attempt = 0 /\ slept = 0 /\ spent = 0 /\ poll = "off"

Next == Parse \/ BeginPolling \/ Fetch \/ Sleep

Spec == Init /\ [][Next]_vars

-----------------------------------------------------------------------------
\* What the timeout buys: at least one poll even if it is below the interval, no more
\* sleep than the timeout and, unless the number of polls was cut at u32::MAX, no
\* giving up more than two intervals early.  The clock may run past the timeout by
\* the duration of every single poll, and by no more (run.rs:541-545, 552-571).
PollsFitTheTimeout ==
  /\ slept <= Budget
  /\ spent <= Budget + attempt * Longest /\ attempt <= Iterations
  /\ poll = "timedOut" => /\ attempt >= 1
                          /\ attempt < MaxU32 => slept + 2 * Interval > Budget
=============================================================================
