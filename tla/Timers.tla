------------------------------- MODULE Timers -------------------------------
(***************************************************************************)
(* The idle timers of the editor: the registry (editor/72-timer.lsp) and   *)
(* the part of the main loop of do_nemacs (cli/main.c) that waits for a    *)
(* key or for the soonest timer.                                           *)
(*                                                                         *)
(* Time is counted in ticks and is relative: a timer holds the ticks left  *)
(* until it is due.  now is a float: a delay below its precision is lost,  *)
(* and the timer is due at once.  The registry is a list in the code; its  *)
(* order decides only which of the timers that are due together fires      *)
(* first, which is left open here.                                         *)
(***************************************************************************)
EXTENDS Integers, FiniteSets, FiniteSetsExt

CONSTANTS
  Delays,     \* seconds of run-with-timer, in ticks
  Repeats,    \* its repeat: 0 stands for nil and for what is not positive
  Precision,  \* delays below it may be lost
  PollFloor,  \* the 10 ms below which the loop does not poll
  PollCap,    \* POLL_MS_MAX
  ArmMax,     \* bound: timers armed
  KeyMax      \* bound: keys typed and signals taken

ASSUME TimersAssumption ==
  /\ Delays \subseteq Nat /\ Repeats \subseteq Nat
  /\ {PollFloor, ArmMax, KeyMax, Precision} \subseteq Nat /\ PollCap \in Nat \ {0}
  /\ PollFloor <= PollCap

VARIABLES
  timers,   \* *timers*: a set of [id, left, every]
  seq,      \* *timer-seq*
  at,       \* where the loop is: "top", "poll", "prompt", "fire"
  ms,       \* the timeout that poll was given
  slept,    \* ticks until poll gives up, or Forever
  due,      \* the snapshot of timers-advance! that has yet to fire
  keys,     \* keys typed and signals taken
  gone,     \* history: the timers that were cancelled, or fired for good
  awake     \* history: ticks since timers last fired, up to PollFloor

timersVars == <<timers, seq, at, ms, slept, due, keys, gone, awake>>

Forever == -1

Ids(s) == {tm.id : tm \in s}

(* now + d, as a float: d ticks from now, unless they are lost.            *)
Rounded(d) == {d} \cup (IF d < Precision THEN {0} ELSE {})

Without(s, ids) == {tm \in s : tm.id \notin ids}
-----------------------------------------------------------------------------
(* What a thunk or a key may do to the registry.                           *)
RunWithTimer ==
  /\ seq < ArmMax
  /\ seq' = seq + 1
  /\ \E d \in Delays, r \in Repeats : \E left \in Rounded(d) :
       timers' = timers \cup {[id |-> seq + 1, left |-> left, every |-> r]}
  /\ UNCHANGED gone

CancelTimer(ids) ==
  /\ timers' = Without(timers, ids)
  /\ gone' = gone \cup ids
  /\ UNCHANGED seq

RegistryCommand ==
  \/ RunWithTimer
  \/ \E id \in 1..seq : CancelTimer({id})
  \/ CancelTimer(1..seq)          \* cancel-all-timers!
  \/ UNCHANGED <<timers, seq, gone>>
-----------------------------------------------------------------------------
(* timers-poll-ms, and the clamp of the loop.                              *)
(* Slip: a timer that is already due counts as none.                       *)
PollUnlessDue ==
  LET d == Min({tm.left : tm \in timers})
  IN IF timers = {} \/ d <= 0 THEN Forever
     ELSE IF d < PollFloor THEN PollFloor ELSE IF d > PollCap THEN PollCap ELSE d

(* Slip: no floor.                                                         *)
PollUnclamped ==
  IF timers = {} THEN Forever ELSE Min({tm.left : tm \in timers})

PollMs ==
  LET d == Min({tm.left : tm \in timers})
  IN IF timers = {} THEN Forever
     ELSE IF d < PollFloor THEN PollFloor ELSE IF d > PollCap THEN PollCap ELSE d

Poll ==
  /\ at = "top"
  /\ at' = "poll" /\ ms' = PollMs /\ slept' = ms'
  /\ UNCHANGED <<timers, seq, due, keys, gone, awake>>

(* A tick passes while the editor waits.                                   *)
Tick ==
  /\ at \in {"poll", "prompt"} /\ slept # 0
  /\ timers' = {[tm EXCEPT !.left = IF tm.left > 0 THEN tm.left - 1 ELSE 0] : tm \in timers}
  /\ slept' = IF slept = Forever THEN Forever ELSE slept - 1
  /\ awake' = IF awake < PollFloor THEN awake + 1 ELSE awake
  /\ UNCHANGED <<seq, at, ms, due, keys, gone>>

(* A signal: the same wait starts again.                                   *)
Interrupted ==
  /\ at = "poll" /\ slept # 0 /\ keys < KeyMax
  /\ keys' = keys + 1 /\ slept' = ms
  /\ UNCHANGED <<timers, seq, at, ms, due, gone, awake>>

(* A key: a command, or the start or the end of a prompt, which blocks.    *)
KeyTyped ==
  /\ at \in {"poll", "prompt"} /\ keys < KeyMax
  /\ keys' = keys + 1
  /\ slept' = Forever
  /\ \/ at = "poll" /\ at' = "top" /\ RegistryCommand
     \/ at' \in {"top", "prompt"} /\ UNCHANGED <<timers, seq, gone>>
  /\ UNCHANGED <<ms, due, awake>>
-----------------------------------------------------------------------------
Due  == {tm \in timers : tm.left = 0}
Keep == {tm \in timers : tm.left # 0}

Once(s)  == {tm.id : tm \in {u \in s : u.every = 0}}

(* The repeats of a snapshot, due again at now + repeat.                   *)
Rearmed(s, lost) ==
  {[tm EXCEPT !.left = IF lost /\ tm.every < Precision THEN 0 ELSE tm.every] :
     tm \in {u \in s : u.every > 0}}

(* timers-advance!: what is due is set aside and the registry rebuilt      *)
(* before any thunk runs.                                                  *)
Advance ==
  /\ at = "poll" /\ slept = 0
  /\ at' = "fire" /\ due' = Due
  /\ \E lost \in BOOLEAN : timers' = Keep \cup Rearmed(Due, lost)
  /\ gone' = gone \cup Once(Due)
  /\ awake' = 0
  /\ UNCHANGED <<seq, ms, slept, keys>>

(* What a thunk of the snapshot does, as often as it likes, while it runs. *)
Thunk ==
  /\ at = "fire" /\ due # {}
  /\ RegistryCommand
  /\ UNCHANGED <<at, ms, slept, due, keys, awake>>

(* A thunk ends; one that raises has its timer cancelled.                  *)
(* Slip: a repeat is armed again after its thunk has run.                  *)
FireThenRearm ==
  /\ at = "fire"
  /\ \E tm \in due :
       /\ due' = due \ {tm}
       /\ \/ CancelTimer({tm.id})
          \/ /\ timers' = Without(timers, {tm.id}) \cup Rearmed({tm}, FALSE)
             /\ UNCHANGED <<seq, gone>>
  /\ UNCHANGED <<at, ms, slept, keys, awake>>

Fire ==
  /\ at = "fire"
  /\ \E tm \in due :
       /\ due' = due \ {tm}
       /\ CancelTimer({tm.id}) \/ UNCHANGED <<timers, seq, gone>>
  /\ UNCHANGED <<at, ms, slept, keys, awake>>

Fired ==
  /\ at = "fire" /\ due = {}
  /\ at' = "top"
  /\ UNCHANGED <<timers, seq, ms, slept, due, keys, gone, awake>>

TimersInit ==
  /\ timers = {} /\ seq = 0 /\ at = "top" /\ ms = Forever /\ slept = Forever
  /\ due = {} /\ keys = 0 /\ gone = {} /\ awake = PollFloor

TimersNext ==
  Poll \/ Tick \/ Interrupted \/ KeyTyped \/ Advance \/ Thunk \/ Fire \/ Fired

(* Time passes, and the loop goes on; nothing makes a user type.           *)
Waiting == Poll \/ Tick \/ Advance \/ Fire \/ Fired

TimersSpec == TimersInit /\ [][TimersNext]_timersVars /\ WF_timersVars(Waiting)
-----------------------------------------------------------------------------
(* The registry holds the timers that were armed and neither cancelled     *)
(* nor spent, once each: whatever thunks arm and cancel while the others   *)
(* that are due wait for their turn, nothing is lost and nothing revived.  *)
NeitherLostNorRevived ==
  /\ Ids(timers) = (1..seq) \ gone
  /\ \A t, u \in timers : t.id = u.id => t = u

(* Idle timers never make the editor spin: from one firing to the next at  *)
(* least the poll floor passes, though a timer may be due at once for ever.*)
NoBusySpin == [][at = "poll" /\ at' = "fire" => awake >= PollFloor]_timersVars

(* A timer that is due fires or is cancelled, unless the editor waits in a *)
(* prompt.                                                                 *)
Overdue(id)  == \E tm \in timers : tm.id = id /\ tm.left = 0
Answered(id) == id \in gone \/ (at = "fire" /\ id \in Ids(due)) \/ at = "prompt"

DueFires == \A id \in 1..ArmMax : Overdue(id) ~> Answered(id)

TimersTypeOK ==
  /\ at \in {"top", "poll", "prompt", "fire"} /\ seq \in 0..ArmMax /\ keys \in 0..KeyMax
  /\ gone \subseteq 1..seq /\ slept >= Forever /\ awake \in 0..PollFloor
=============================================================================
