--------------------------- MODULE PollBudgetProofs ---------------------------
(***************************************************************************)
(* What the command line and the bootstrap poll promise for lines of any   *)
(* length, any timeout and any interval.  The parse holds each key's value *)
(* for the words read so far; the poll holds what it slept for the polls   *)
(* it made.                                                                *)
(***************************************************************************)
EXTENDS PollBudget, Integers, TLAPS

-----------------------------------------------------------------------------
(* The parse.                                                               *)

\* The words for k among those read that may set it.
Setting(k) == {i \in 1 .. Len(line) : /\ line[i].key = k /\ i < at
                                      /\ k \in Plain \/ line[i].value # Empty}

\* A key has the value of the last word that may set it, or none.
HasTheLast(k) ==
  \/ Setting(k) = {} /\ value[k] = Empty
  \/ \E i \in Setting(k) : IsLast(i, Setting(k)) /\ value[k] = line[i].value

ParseTypeOK ==
  /\ line \in Seq([key : STRING, value : STRING]) /\ at \in 1 .. Len(line) + 1
  /\ value = [k \in Keys |-> value[k]]
  /\ parsed \in {"no", "ok", "missing", "invalidIp", "invalidTimeout"}

\* What the words read have left, as long as none of them was refused.
ReadSoFar ==
  /\ \A k \in Keys : HasTheLast(k)
  /\ \A i \in 1 .. Len(line) : i < at =>
       /\ line[i].key = "beskar7.ip" => line[i].value \in StaticIps \cup {Empty}
       /\ line[i].key = "beskar7.timeout" => line[i].value \in DOMAIN Seconds \cup {Empty}
  /\ value["beskar7.timeout"] \in DOMAIN Seconds \cup {Empty}

ParseInv ==
  /\ ParseTypeOK /\ ReadSoFar
  /\ parsed = "ok" => at = Len(line) + 1 /\ \A k \in Required : value[k] # Empty

LEMMA ParseInvInit ==
  ASSUME CmdlineInit
  PROVE  ParseInv
<1>1. line \in Seq([key : STRING, value : STRING])
  BY LinesAssumption DEF CmdlineInit
<1>2. Len(line) \in Nat /\ 1 \in 1 .. Len(line) + 1
  BY <1>1
<1>3. /\ at = 1 /\ parsed = "no" /\ value = [k \in Keys |-> Empty]
      /\ "beskar7.timeout" \in Keys
  BY DEF CmdlineInit, Keys
<1>4. \A k : Setting(k) = {}
  BY <1>2, <1>3 DEF Setting
<1> QED
  BY <1>1, <1>2, <1>3, <1>4 DEF ParseInv, ParseTypeOK, ReadSoFar, HasTheLast

\* One word more: it sets its own key, or passes.
LEMMA OneWordMore ==
  ASSUME ParseInv, parsed = "no", at <= Len(line), at' = at + 1, line' = line,
         NEW set \in BOOLEAN,
         set <=> Word.key \in Plain \/ (Word.key \in Keys /\ Word.value # Empty),
         set => value' = [value EXCEPT ![Word.key] = Word.value],
         ~set => value' = value
  PROVE  /\ \A k \in Keys : HasTheLast(k)'
         /\ at' \in 1 .. Len(line) + 1 /\ value' = [k \in Keys |-> value'[k]]
<1>1. /\ Len(line) \in Nat /\ at \in 1 .. Len(line) /\ value = [k \in Keys |-> value[k]]
  BY DEF ParseInv, ParseTypeOK
<1>2. ASSUME NEW k \in Keys PROVE HasTheLast(k)'
  <2>0. HasTheLast(k)
    BY DEF ParseInv, ReadSoFar
  <2>1. CASE set /\ Word.key = k
    <3>1. PICK n \in 1 .. Len(line) : n = at
      BY <1>1
    <3>2. Setting(k)' = Setting(k) \cup {n}
      BY <1>1, <2>1, <3>1 DEF Setting, Word
    <3>3. \A j \in Setting(k) : j <= n
      BY <1>1, <3>1 DEF Setting
    <3>4. IsLast(n, Setting(k))'
      BY <1>1, <3>2, <3>3 DEF IsLast
    <3>5. value'[k] = line'[n].value
      BY <1>1, <2>1, <3>1 DEF Word
    <3> QED
      BY <3>2, <3>4, <3>5 DEF HasTheLast
  <2>2. CASE ~(set /\ Word.key = k)
    <3>1. Setting(k)' = Setting(k)
      BY <1>1, <2>2 DEF Setting, Word
    <3>2. value'[k] = value[k]
      BY <1>1, <2>2
    <3> QED
      BY <2>0, <3>1, <3>2 DEF HasTheLast, IsLast
  <2> QED
    BY <2>1, <2>2
<1> QED
  BY <1>1, <1>2
\* The parse keeps the invariant: the words before at are the words read.
LEMMA ParseInvKept ==
  ASSUME ParseInv, ParseStep \/ UNCHANGED cmdline
  PROVE  ParseInv'
<1>1. /\ Len(line) \in Nat /\ at \in 1 .. Len(line) + 1 /\ value = [k \in Keys |-> value[k]]
      /\ line \in Seq([key : STRING, value : STRING]) /\ "beskar7.timeout" \in Keys
  BY DEF ParseInv, ParseTypeOK, Keys
<1>2. ASSUME parsed = "no", at <= Len(line), Advance, NEW set \in BOOLEAN,
             set <=> Word.key \in Plain \/ (Word.key \in Keys /\ Word.value # Empty),
             set => value' = [value EXCEPT ![Word.key] = Word.value],
             ~set => value' = value,
             Word.key = "beskar7.ip" => Word.value \in StaticIps \cup {Empty},
             Word.key = "beskar7.timeout" => Word.value \in DOMAIN Seconds \cup {Empty}
      PROVE  ParseInv'
  <2>1. line' = line /\ at' = at + 1 /\ parsed' = "no"
    BY <1>2 DEF Advance
  <2>2. /\ \A k \in Keys : HasTheLast(k)'
        /\ at' \in 1 .. Len(line) + 1 /\ value' = [k \in Keys |-> value'[k]]
    BY <1>2, <2>1, OneWordMore
  <2>3. \A i \in 1 .. Len(line) : i < at' =>
          /\ line[i].key = "beskar7.ip" => line[i].value \in StaticIps \cup {Empty}
          /\ line[i].key = "beskar7.timeout" => line[i].value \in DOMAIN Seconds \cup {Empty}
    <3> SUFFICES ASSUME NEW i \in 1 .. Len(line), i < at'
                 PROVE  /\ line[i].key = "beskar7.ip" => line[i].value \in StaticIps \cup {Empty}
                        /\ line[i].key = "beskar7.timeout" =>
                             line[i].value \in DOMAIN Seconds \cup {Empty}
      OBVIOUS
    <3>1. i < at \/ i = at
      BY <1>1, <2>1
    <3> QED
      BY <1>2, <3>1 DEF ParseInv, ReadSoFar, Word
  <2>4. value'["beskar7.timeout"] \in DOMAIN Seconds \cup {Empty}
    BY <1>1, <1>2 DEF ParseInv, ReadSoFar
  <2> QED
    BY <1>1, <2>1, <2>2, <2>3, <2>4 DEF ParseInv, ParseTypeOK, ReadSoFar
<1>3. CASE SkipWord
  <2>1. Word.key \notin Plain /\ Word.key # "beskar7.ip" /\ Word.key # "beskar7.timeout"
    BY <1>3 DEF SkipWord, Keys
  <2> QED
    BY <1>2, <1>3, <2>1 DEF SkipWord
<1>4. ASSUME NEW k \in Plain, TakePlain(k) PROVE ParseInv'
  <2>1. k \in Keys /\ k # "beskar7.ip" /\ k # "beskar7.timeout"
    BY KeyAssumption DEF Keys
  <2> QED
    BY <1>2, <1>4, <2>1 DEF TakePlain, Reading, Assign
<1>5. ASSUME NEW k \in {"beskar7.ip", "beskar7.timeout"}, NEW accepted, NEW error,
             error \in {"invalidIp", "invalidTimeout"}, TakeChecked(k, accepted, error),
             Empty \notin accepted,
             k = "beskar7.ip" => accepted = StaticIps,
             k = "beskar7.timeout" => accepted = DOMAIN Seconds
      PROVE  ParseInv'
  <2>1. k \in Keys /\ k \notin Plain /\ parsed = "no" /\ at <= Len(line) /\ Word.key = k
    BY <1>5, KeyAssumption DEF Keys, TakeChecked, Reading
  <2>2. CASE Word.value = Empty /\ Advance /\ UNCHANGED value
    BY <1>2, <2>1, <2>2
  <2>3. CASE Word.value \in accepted /\ Assign(k, Word.value) /\ Advance
    BY <1>2, <1>5, <2>1, <2>3 DEF Assign
  <2>4. CASE Reject(error)
    BY <1>5, <2>1, <2>4
       DEF Reject, ParseInv, ParseTypeOK, ReadSoFar, HasTheLast, Setting, IsLast
  <2> QED
    BY <1>5, <2>2, <2>3, <2>4 DEF TakeChecked
<1>6. CASE Finish
  <2>1. /\ UNCHANGED <<line, at, value>> /\ at = Len(line) + 1
        /\ parsed' \in {"ok", "missing"}
        /\ parsed' = "ok" => \A k \in Required : value[k] # Empty
    <3>1. parsed' = IF \E k \in Required : value[k] = Empty THEN "missing" ELSE "ok"
      BY <1>6 DEF Finish
    <3>2. at > Len(line) /\ UNCHANGED <<line, at, value>>
      BY <1>6 DEF Finish
    <3>3. at = Len(line) + 1
      BY <1>1, <3>2
    <3> QED
      BY <3>1, <3>2, <3>3
  <2> QED
    BY <2>1 DEF ParseInv, ParseTypeOK, ReadSoFar, HasTheLast, Setting, IsLast
<1>7. CASE UNCHANGED cmdline
  BY <1>7 DEF cmdline, ParseInv, ParseTypeOK, ReadSoFar, HasTheLast, Setting, IsLast
<1> QED
  BY <1>3, <1>4, <1>5, <1>6, <1>7, SpecAssumption DEF ParseStep, TakeIp, TakeTimeout

-----------------------------------------------------------------------------
(* The poll.                                                                *)

\* poll_budget_iterations: the sleeps between the polls fit the timeout, and one poll
\* more than there are, with its interval, is past it unless their number was cut.
LEMMA IterationsFit ==
  ASSUME Budget \in Nat
  PROVE  /\ Iterations \in 1 .. MaxU32
         /\ (Iterations - 1) * Interval <= Budget
         /\ Iterations < MaxU32 => (Iterations + 1) * Interval > Budget
<1> DEFINE B == Budget
           n == B \div Interval
<1>1. n \in Nat /\ n * Interval <= B /\ B < (n + 1) * Interval
  BY IntervalAssumption
<1> HIDE DEF n, B
<1>2. B \in Nat /\ Interval \in Nat /\ Interval > 0 /\ MaxU32 \in Nat /\ MaxU32 >= 1
  BY IntervalAssumption DEF B
<1>3. Iterations = IF n = 0 THEN 1 ELSE IF n > MaxU32 THEN MaxU32 ELSE n
  BY DEF Iterations, n, B
<1>4. CASE n = 0
  BY <1>1, <1>2, <1>3, <1>4 DEF B
<1>5. CASE n # 0 /\ n > MaxU32
  <2>1. Iterations = MaxU32
    BY <1>3, <1>5
  <2>2. (MaxU32 - 1) * Interval <= n * Interval
    BY <1>1, <1>2, <1>5
  <2> QED
    BY <1>1, <1>2, <2>1, <2>2 DEF B
<1>6. CASE n # 0 /\ ~(n > MaxU32)
  <2>1. Iterations = n
    BY <1>3, <1>6
  <2>2. (n - 1) * Interval <= n * Interval
    BY <1>1, <1>2
  <2> QED
    BY <1>1, <1>2, <1>6, <2>1, <2>2 DEF B
<1> QED
  BY <1>4, <1>5, <1>6
\* What was slept for the polls made; the clock is behind by the polls themselves.
PollInv ==
  /\ attempt \in Nat /\ slept \in Nat /\ spent \in Nat
  /\ poll \in {"off", "fetch", "sleep", "data", "aborted", "timedOut"}
  /\ poll # "off" => parsed = "ok"
  /\ poll = "off" => attempt = 0 /\ slept = 0
  /\ poll = "fetch" => attempt < Iterations /\ slept = attempt * Interval
  /\ poll = "sleep" => attempt < Iterations
  /\ poll \notin {"off", "fetch"} => /\ attempt >= 1 /\ attempt <= Iterations
                                     /\ slept = (attempt - 1) * Interval
  /\ poll = "timedOut" => attempt = Iterations
  /\ spent <= slept + attempt * Longest

Inv == ParseInv /\ PollInv

LEMMA LongestFits == Longest \in Nat /\ \A t \in PollTimes : t \in Nat /\ t <= Longest
  BY PollTimesAssumption DEF Longest

LEMMA BudgetFits == ParseInv => Budget \in Nat
  BY IntervalAssumption, SpecAssumption DEF ParseInv, ReadSoFar, Budget

LEMMA InvInit == Init => Inv
<1> SUFFICES ASSUME Init PROVE Inv
  OBVIOUS
<1>1. ParseInv
  BY ParseInvInit DEF Init
<1>2. Longest \in Nat
  BY LongestFits
<1> QED
  BY <1>1, <1>2 DEF Init, Inv, PollInv

\* A word parsed or a poll made keeps the invariant.
LEMMA InvKept == Inv /\ [Next]_vars => Inv'
<1> SUFFICES ASSUME Inv, [Next]_vars PROVE Inv'
  OBVIOUS
<1>1. ParseInv'
  BY ParseInvKept DEF Inv, Next, Parse, BeginPolling, Fetch, Sleep, vars
<1>2. Budget \in Nat /\ Iterations \in 1 .. MaxU32
  BY BudgetFits, IterationsFit DEF Inv
<1>3. Interval \in Nat /\ MaxU32 \in Nat
  BY IntervalAssumption
<1>4. Longest \in Nat
  BY LongestFits
<1>5. UNCHANGED cmdline => Budget' = Budget /\ Iterations' = Iterations /\ parsed' = parsed
  BY DEF cmdline, Budget, Iterations
<1>6. CASE Parse
  <2>1. poll = "off" /\ UNCHANGED <<attempt, slept, spent, poll>>
    BY <1>6 DEF Parse, ParseStep, SkipWord, TakeIp, TakeTimeout, TakeChecked, TakePlain,
       Reading, Finish, polling, Inv, PollInv
  <2> QED
    BY <1>1, <2>1 DEF Inv, PollInv
<1>7. CASE BeginPolling
  BY <1>1, <1>2, <1>3, <1>5, <1>7 DEF BeginPolling, Inv, PollInv
<1>8. CASE Fetch
  <2>1. PICK t \in PollTimes : spent' = spent + t
    BY <1>8 DEF Fetch
  <2>2. t \in Nat /\ t <= Longest
    BY LongestFits
  <2>3. /\ attempt' = attempt + 1 /\ slept' = slept /\ UNCHANGED cmdline
        /\ attempt \in Nat /\ slept \in Nat /\ spent \in Nat /\ poll = "fetch"
        /\ attempt < Iterations /\ slept = attempt * Interval
        /\ spent <= slept + attempt * Longest
    BY <1>8 DEF Fetch, Inv, PollInv
  <2>4. spent' \in Nat /\ spent' <= slept' + attempt' * Longest
    <3>1. (attempt + 1) * Longest = attempt * Longest + Longest /\ attempt * Longest \in Nat
      BY <1>4, <2>3
    <3> QED
      BY <1>4, <2>1, <2>2, <2>3, <3>1
  <2>5. \/ poll' \in {"data", "aborted"}
        \/ poll' = "sleep" /\ attempt + 1 < Iterations
        \/ poll' = "timedOut" /\ attempt + 1 = Iterations
    BY <1>2, <1>3, <1>8, <2>3 DEF Fetch
  <2>6. PollInv'
    BY <1>2, <1>3, <1>5, <2>3, <2>4, <2>5 DEF Inv, PollInv
  <2> QED
    BY <1>1, <2>6 DEF Inv
<1>9. CASE Sleep
  <2>1. /\ slept' = slept + Interval /\ spent' = spent + Interval /\ poll' = "fetch"
        /\ attempt' = attempt /\ UNCHANGED cmdline /\ poll = "sleep"
        /\ attempt \in Nat /\ slept \in Nat /\ spent \in Nat
        /\ attempt >= 1 /\ attempt < Iterations /\ slept = (attempt - 1) * Interval
        /\ spent <= slept + attempt * Longest
    BY <1>9 DEF Sleep, Inv, PollInv
  <2>2. slept' = attempt * Interval
    BY <1>3, <2>1
  <2>3. spent' <= slept' + attempt' * Longest
    <3>1. attempt * Longest \in Nat
      BY <1>4, <2>1
    <3> QED
      BY <1>3, <2>1, <3>1
  <2>4. PollInv'
    BY <1>2, <1>3, <1>5, <2>1, <2>2, <2>3 DEF Inv, PollInv
  <2> QED
    BY <1>1, <2>4 DEF Inv
<1>10. CASE UNCHANGED vars
  BY <1>1, <1>5, <1>10 DEF vars, polling, Inv, PollInv
<1> QED
  BY <1>6, <1>7, <1>8, <1>9, <1>10 DEF Next

\* The values follow the words read and the time the polls made, in every reachable
\* state.
THEOREM PollInductive == Spec => []Inv
  BY InvInit, InvKept, PTL DEF Spec

-----------------------------------------------------------------------------
\* BootParams::parse gives every key the value of the last word that may set it, for
\* command lines of any length, and succeeds only with all required keys.
THEOREM ParseTakesTheLast == Spec => []ParsesToTheLast
<1>1. ASSUME Inv, parsed = "ok" PROVE ParsesToTheLast
  <2>1. at = Len(line) + 1 /\ Len(line) \in Nat
    BY <1>1 DEF Inv, ParseInv, ParseTypeOK
  <2>2. \A k \in Keys :
          Setting(k) = IF k \in Plain THEN For(k)
                       ELSE {i \in For(k) : line[i].value # Empty}
    BY <2>1 DEF Setting, For
  <2>3. \A i \in For("beskar7.ip") : line[i].value \in StaticIps \cup {Empty}
    BY <1>1, <2>1 DEF Inv, ParseInv, ReadSoFar, For
  <2>4. \A i \in For("beskar7.timeout") : line[i].value \in DOMAIN Seconds \cup {Empty}
    BY <1>1, <2>1 DEF Inv, ParseInv, ReadSoFar, For
  <2>5. \A k \in Required : value[k] # Empty
    BY <1>1 DEF Inv, ParseInv
  <2>6. \A k \in Keys : HasTheLast(k)
    BY <1>1 DEF Inv, ParseInv, ReadSoFar
  <2> QED
    BY <2>2, <2>3, <2>4, <2>5, <2>6 DEF ParsesToTheLast, HasTheLast
<1>2. Inv => ParsesToTheLast
  BY <1>1 DEF ParsesToTheLast
<1> QED
  BY <1>2, PollInductive, PTL

\* Fewer of the intervals take no longer.
LEMMA FewerTakeLess ==
  ASSUME NEW a \in Int, NEW b \in Int, a <= b, NEW c \in Nat
  PROVE  a * c <= b * c
<1>0. b - a \in Nat /\ b = a + (b - a)
  OBVIOUS
<1>1. PICK d \in Nat : b = a + d
  BY <1>0
<1>2. d * c \in Nat
  BY <1>1
<1> QED
  BY <1>1, <1>2

\* For every timeout and interval: at least one poll, no more sleep than the timeout, no
\* giving up more than two intervals early unless the count was cut at u32::MAX, and a
\* clock past the timeout by no more than the polls themselves.
THEOREM PollsFit == Spec => []PollsFitTheTimeout
<1>1. ASSUME Inv PROVE PollsFitTheTimeout
  <2>1. /\ Budget \in Nat /\ Iterations \in 1 .. MaxU32
        /\ (Iterations - 1) * Interval <= Budget
        /\ Iterations < MaxU32 => (Iterations + 1) * Interval > Budget
    BY <1>1, BudgetFits, IterationsFit DEF Inv
  <2>2. Interval \in Nat /\ MaxU32 \in Nat /\ Longest \in Nat
    BY LongestFits, IntervalAssumption
  <2>3. attempt \in Nat /\ slept \in Nat /\ spent \in Nat /\ attempt <= Iterations
    BY <1>1, <2>1 DEF Inv, PollInv
  <2>4. slept <= (Iterations - 1) * Interval
    <3>1. CASE poll = "off"
      BY <1>1, <2>1, <2>2, <3>1 DEF Inv, PollInv
    <3>2. CASE poll = "fetch"
      <4>1. attempt <= Iterations - 1
        BY <1>1, <2>1, <2>3, <3>2 DEF Inv, PollInv
      <4>2. attempt * Interval <= (Iterations - 1) * Interval
        BY <2>1, <2>2, <2>3, <4>1, FewerTakeLess
      <4> QED
        BY <1>1, <3>2, <4>2 DEF Inv, PollInv
    <3>3. CASE poll \notin {"off", "fetch"}
      <4>1. (attempt - 1) * Interval <= (Iterations - 1) * Interval
        BY <2>1, <2>2, <2>3, FewerTakeLess
      <4> QED
        BY <1>1, <3>3, <4>1 DEF Inv, PollInv
    <3> QED
      BY <3>1, <3>2, <3>3
  <2>5. slept <= Budget /\ spent <= Budget + attempt * Longest
    <3>1. spent <= slept + attempt * Longest /\ attempt * Longest \in Nat
      BY <1>1, <2>2, <2>3 DEF Inv, PollInv
    <3>2. (Iterations - 1) * Interval \in Int
      BY <2>1, <2>2
    <3> QED
      BY <2>1, <2>3, <2>4, <3>1, <3>2
  <2>6. poll = "timedOut" => /\ attempt >= 1
                             /\ attempt < MaxU32 => slept + 2 * Interval > Budget
    <3> SUFFICES ASSUME poll = "timedOut"
                 PROVE  attempt >= 1 /\ (attempt < MaxU32 => slept + 2 * Interval > Budget)
      OBVIOUS
    <3>1. attempt = Iterations /\ attempt >= 1 /\ slept = (attempt - 1) * Interval
      BY <1>1 DEF Inv, PollInv
    <3>2. slept + 2 * Interval = (attempt + 1) * Interval
      BY <2>2, <2>3, <3>1
    <3> QED
      BY <2>1, <3>1, <3>2
  <2> QED
    BY <2>3, <2>5, <2>6 DEF PollsFitTheTimeout
<1> QED
  BY <1>1, PollInductive, PTL
=============================================================================
