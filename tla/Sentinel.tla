------------------------------ MODULE Sentinel ------------------------------
(***************************************************************************)
(* runtime/sentinel.py: after every cycle the execution daemon runs a few  *)
(* checks and tells the operator of what has gone wrong, again after a     *)
(* cooldown, and of what is right again.  What it has told is in a file    *)
(* that is read when a pass begins and written when it ends.               *)
(*                                                                         *)
(* Telegram fails now and then, a check raises, the daemon dies in a pass  *)
(* or while it writes the file (an unreadable file is an empty one).       *)
(***************************************************************************)
EXTENDS Naturals, Sequences

CONSTANTS
  Checks,       \* _CHECKS: the keys of the checks in their order
  Cooldown,     \* _COOLDOWN_SECONDS, in ticks of the clock
  MaxMishaps    \* bound: daemons that die in a pass

ASSUME SentinelAssumption == Checks \in Seq(STRING) /\ Cooldown \in Nat /\ MaxMishaps \in Nat

Keys == {Checks[i] : i \in DOMAIN Checks}

VARIABLES
  problem,      \* what each check finds
  file,         \* sentinel_state.json: bad, and how old last_sent_ts is
  pass,         \* the pass of the daemon and its copy of the state
  told,         \* Telegram: the last message on each key
  quiet,        \* Telegram: how old the last alert on each key is
  repeated,     \* history: keys alerted again within the cooldown
  mishaps

telegram == <<told, quiet, repeated>>
sentinelVars == <<problem, file, pass, telegram, mishaps>>

\* ages beyond the cooldown are not told apart
Old == Cooldown + 1
Ages == 0..Old
Older(age) == IF age = Old THEN Old ELSE age + 1

NothingTold == [k \in Keys |-> [bad |-> FALSE, age |-> Old]]
NoPass == [at |-> 0, state |-> NothingTold]

SentinelInit ==
  /\ problem = [k \in Keys |-> FALSE]
  /\ file = NothingTold /\ pass = NoPass /\ mishaps = 0
  /\ told = [k \in Keys |-> "well"] /\ quiet = [k \in Keys |-> Old]
  /\ repeated = {}

-----------------------------------------------------------------------------
(* The world, and time.                                                    *)

Blocked == "entries_allowed" \in Keys /\ problem["entries_allowed"]

\* a stall is looked for only while entries are allowed
ProblemBegins(k) ==
  /\ ~problem[k] /\ (k = "entry_stall" => ~Blocked)
  /\ problem' = [j \in Keys |->
       IF k = "entries_allowed" /\ j = "entry_stall" THEN FALSE ELSE j = k \/ problem[j]]
  /\ UNCHANGED <<file, pass, telegram, mishaps>>

ProblemEnds(k) ==
  /\ problem[k] /\ problem' = [problem EXCEPT ![k] = FALSE]
  /\ UNCHANGED <<file, pass, telegram, mishaps>>

Aged(state) == [k \in Keys |-> [state[k] EXCEPT !.age = Older(@)]]
Tick ==
  /\ file' = Aged(file) /\ pass' = [pass EXCEPT !.state = Aged(@)]
  /\ quiet' = [k \in Keys |-> Older(quiet[k])]
  /\ UNCHANGED <<problem, told, repeated, mishaps>>

-----------------------------------------------------------------------------
(* check_and_alert                                                         *)

Running == pass.at > 0
CheckedKey == Checks[pass.at]

BeginPass ==
  /\ ~Running /\ pass' = [at |-> 1, state |-> file]
  /\ UNCHANGED <<problem, file, telegram, mishaps>>

\* mutant: no cooldown
ShouldAlertAgain(k) == problem[k]
ShouldAlert(k) == problem[k] /\ (pass.state[k].bad => pass.state[k].age = Old)

SuppressRecovery(k) ==
  k = "entry_stall" /\ "entries_allowed" \in Keys /\ pass.state["entries_allowed"].bad
ShouldRecover(k) == pass.state[k].bad /\ ~problem[k] /\ ~SuppressRecovery(k)

\* mutant: the next check is left out
MarkAfterNext(k, entry) == pass' = [at |-> pass.at + 2, state |-> [pass.state EXCEPT ![k] = entry]]
MarkNext(k, entry) == pass' = [at |-> pass.at + 1, state |-> [pass.state EXCEPT ![k] = entry]]

\* an alert that is sent
Alert(k) ==
  /\ pass.at \in DOMAIN Checks /\ CheckedKey = k /\ ShouldAlert(k)
  /\ MarkNext(k, [bad |-> TRUE, age |-> 0])
  /\ told' = [told EXCEPT ![k] = "bad"] /\ quiet' = [quiet EXCEPT ![k] = 0]
  /\ repeated' = IF told[k] = "bad" /\ quiet[k] # Old THEN repeated \cup {k} ELSE repeated
  /\ UNCHANGED <<problem, file, mishaps>>

\* a recovery notice that is sent
Recover(k) ==
  /\ pass.at \in DOMAIN Checks /\ CheckedKey = k /\ ShouldRecover(k)
  /\ MarkNext(k, [pass.state[k] EXCEPT !.bad = FALSE])
  /\ told' = [told EXCEPT ![k] = "well"]
  /\ UNCHANGED <<problem, file, quiet, repeated, mishaps>>

\* mutant: a recovery notice that fails is forgotten
Found(k) == problem[k]
\* what a key is marked with when no message got through
Unsent(k) == problem[k] \/ ShouldRecover(k)

\* nothing to send, or it could not be sent
TellNothing(k) ==
  /\ pass.at \in DOMAIN Checks /\ CheckedKey = k
  /\ MarkNext(k, [pass.state[k] EXCEPT !.bad = Unsent(k)])
  /\ UNCHANGED <<problem, file, telegram, mishaps>>

CheckRaises ==
  /\ Running /\ pass.at <= Len(Checks)
  /\ pass' = [pass EXCEPT !.at = @ + 1]
  /\ UNCHANGED <<problem, file, telegram, mishaps>>

SaveState ==
  /\ pass.at > Len(Checks)
  /\ file' = pass.state /\ pass' = NoPass
  /\ UNCHANGED <<problem, telegram, mishaps>>

Mishap == mishaps < MaxMishaps /\ mishaps' = mishaps + 1

DaemonDies ==
  /\ Running /\ Mishap /\ pass' = NoPass
  /\ file' \in {file} \cup (IF pass.at > Len(Checks) THEN {NothingTold} ELSE {})
  /\ UNCHANGED <<problem, telegram>>

-----------------------------------------------------------------------------
Sends(k) == Alert(k) \/ Recover(k)
CheckKey(k) == Sends(k) \/ TellNothing(k)
PassStep == BeginPass \/ SaveState \/ CheckRaises \/ \E k \in Keys : CheckKey(k)

SentinelNext ==
  \/ \E k \in Keys : ProblemBegins(k) \/ ProblemEnds(k) \/ CheckKey(k)
  \/ Tick \/ BeginPass \/ CheckRaises \/ SaveState \/ DaemonDies

SentinelSpec == SentinelInit /\ [][SentinelNext]_sentinelVars

-----------------------------------------------------------------------------
(* Each key has an entry in the file and in the pass's copy of it.         *)
SentinelTypeOK ==
  /\ problem \in [Keys -> BOOLEAN] /\ quiet \in [Keys -> Ages]
  /\ file \in [Keys -> [bad : BOOLEAN, age : Ages]]
  /\ pass.state \in [Keys -> [bad : BOOLEAN, age : Ages]]
  /\ pass.at \in 0..(Len(Checks) + 1) /\ mishaps \in 0..MaxMishaps
  /\ told \in [Keys -> {"well", "bad"}] /\ repeated \subseteq Keys

\* A problem that persists is not repeated within the cooldown, however many
\* messages fail, checks raise and notices are put off in between.  A daemon
\* that dies before it has saved repeats itself, and a stall that was forgotten
\* while entries were blocked is news again.
RepeatsWait(k) == mishaps = 0 /\ k # "entry_stall" => k \notin repeated

\* The operator is told of what stays wrong, and that it is right again:
\* a failed message is tried again, at once or after the cooldown.  Only a
\* daemon that dies between the alert and the file, or entries that are blocked
\* over a stall, keep back a recovery notice.
OperatorKnows ==
  \A k \in Keys :
    /\ ~<>[](problem[k] /\ told[k] = "well")
    /\ k # "entry_stall" => ~<>[](~problem[k] /\ told[k] = "bad" /\ mishaps = 0)

\* Each problem is told, and its end, and neither again and again.
TellsOnce == [](\A k \in Keys : RepeatsWait(k)) /\ OperatorKnows
=============================================================================
