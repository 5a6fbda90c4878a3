------------------------------ MODULE Cmdline -------------------------------
(***************************************************************************)
(* BootParams::parse (cmdline.rs): the words of /proc/cmdline are read     *)
(* from left to right into one optional value per key.  A word is a key    *)
(* and a value; a word without `=` has no key the loop knows.              *)
(***************************************************************************)
EXTENDS Naturals, Sequences

CONSTANTS
  Required,     \* the keys that must be there: beskar7.api, .namespace, ...
  Optional,     \* the keys taken as they are: beskar7.disk, BOOTIF
  StaticIps,    \* the values StaticIp::parse accepts
  Seconds,      \* Seconds[v]: the number a value v of beskar7.timeout stands for
  Lines         \* the command lines, sequences of words

Plain == Required \cup Optional

Keys == Plain \cup {"beskar7.ip", "beskar7.timeout"}

Empty == ""        \* a value that is empty, and a key without a value

ASSUME KeyAssumption  == Plain \cap {"beskar7.ip", "beskar7.timeout"} = {}
ASSUME SpecAssumption == /\ Empty \notin StaticIps
                         /\ Empty \notin DOMAIN Seconds
                         /\ \A v \in DOMAIN Seconds : Seconds[v] \in Nat
ASSUME LinesAssumption == Lines \subseteq Seq([key : STRING, value : STRING])

VARIABLES
  line,     \* the command line
  at,       \* the word to be read next
  value,    \* per key: the value it has so far, Empty for None
  parsed    \* "no", "ok", or the CmdlineError: "missing", "invalidIp", "invalidTimeout"

cmdline == <<line, at, value, parsed>>

Word == line[at]

-----------------------------------------------------------------------------
Reading(k) == parsed = "no" /\ at <= Len(line) /\ Word.key = k

Assign(k, v) == value' = [value EXCEPT ![k] = v]

Advance == at' = at + 1 /\ UNCHANGED <<line, parsed>>

Reject(error) == parsed' = error /\ UNCHANGED <<line, at, value>>

\* A word without `=`, of another program, or of a key that is not known, and
\* beskar7.debug, which no part of the program reads.
SkipWord ==
  /\ parsed = "no" /\ at <= Len(line) /\ Word.key \notin Keys
  /\ Advance /\ UNCHANGED value

\* Mutant: an empty value leaves the key as it was.
KeepPlain(k) == Reading(k) /\ (IF Word.value = Empty THEN UNCHANGED value ELSE Assign(k, Word.value))
                           /\ Advance

\* non_empty: an empty value takes an earlier one away.
TakePlain(k) == Reading(k) /\ Assign(k, Word.value) /\ Advance

\* An empty beskar7.ip or beskar7.timeout is passed over, one that does not parse ends
\* the parse, whatever follows.
TakeChecked(k, accepted, error) ==
  /\ Reading(k)
  /\ \/ Word.value = Empty /\ Advance /\ UNCHANGED value
     \/ Word.value \in accepted /\ Assign(k, Word.value) /\ Advance
     \/ Word.value \notin accepted \cup {Empty} /\ Reject(error)

TakeIp == TakeChecked("beskar7.ip", StaticIps, "invalidIp")

TakeTimeout == TakeChecked("beskar7.timeout", DOMAIN Seconds, "invalidTimeout")

\* All required keys are there, or the names of those that are not are reported.
Finish ==
  /\ parsed = "no" /\ at > Len(line)
  /\ parsed' = IF \E k \in Required : value[k] = Empty THEN "missing" ELSE "ok"
  /\ UNCHANGED <<line, at, value>>

ParseStep == \/ SkipWord \/ TakeIp \/ TakeTimeout \/ Finish
             \/ \E k \in Plain : TakePlain(k)

CmdlineInit ==
  /\ line \in Lines
  /\ at = 1
  /\ value = [k \in Keys |-> Empty]
  /\ parsed = "no"

-----------------------------------------------------------------------------
\* The words for a key, and the last of them.
For(k) == {i \in 1 .. Len(line) : line[i].key = k}

IsLast(i, S) == i \in S /\ \A j \in S : j <= i

\* The value a key ends with is the value of the last word that may set it: the last
\* one for a plain key, empty or not, the last that is not empty for the other two;
\* and a parse succeeds only with all required keys and no word for those two that is
\* not understood (cmdline.rs:131-190).
ParsesToTheLast ==
  parsed = "ok" =>
    /\ \A k \in Keys :
         LET words == IF k \in Plain THEN For(k)
                      ELSE {i \in For(k) : line[i].value # Empty} IN
         \/ words = {} /\ value[k] = Empty
         \/ \E i \in words : IsLast(i, words) /\ value[k] = line[i].value
    /\ \A k \in Required : value[k] # Empty
    /\ \A i \in For("beskar7.ip") : line[i].value \in StaticIps \cup {Empty}
    /\ \A i \in For("beskar7.timeout") : line[i].value \in DOMAIN Seconds \cup {Empty}
=============================================================================
