--------------------------------- MODULE Power ---------------------------------
(***************************************************************************)
(* What the machine and the clock do to an open store: the thread that     *)
(* listens to logind (daemon/logind.py) with its delay inhibitor, and the  *)
(* scheduler's tick (daemon/scheduler.py), over StoreHandlers.  A machine  *)
(* that is asleep takes no step.                                           *)
(*                                                                         *)
(* logind is external.  It says PrepareForSleep(true), waits while a delay *)
(* inhibitor is held, suspends, and says PrepareForSleep(false) after it   *)
(* woke up; that it stops waiting after a limit of its own, longer than    *)
(* SLEEP_WAIT_S, is left out.  One uid: a screen lock or the end of its    *)
(* last session is a Lock of StoreGate.  The clock is free: idle_lock_s    *)
(* and next_sync_at may be reached at any time.                            *)
(***************************************************************************)
EXTENDS StoreHandlers

CONSTANT MaxNights   \* bound: how often the machine is asked to sleep

ASSUME NightsAssumption == MaxNights \in Nat \ {0}

VARIABLES
  machine,     \* "awake"; "leaving": PrepareForSleep(true) was said; "asleep"
  nights,      \* how often it was asked to sleep
  signals,     \* the watcher's queue
  pump,        \* its thread: "idle", "locking" in call_in_loop, "waiting" for the wipes
  owed,        \* lock_all was handed to the event loop, which has not run it
  late,        \* SLEEP_WAIT_S are over
  watching,    \* start() reached logind
  inhibitor,   \* LogindWatcher._inhibitor is held
  excuse       \* history: this night is not covered, see NotReady and Approves

sleepVars == <<machine, nights, signals, pump, owed, late, watching, inhibitor, excuse>>
allVars   == <<vars, sleepVars>>

PowerInit ==
  /\ Init
  /\ machine = "awake" /\ nights = 0
  /\ signals = << >> /\ pump = "idle" /\ owed = FALSE /\ late = FALSE
  /\ watching \in BOOLEAN /\ inhibitor \in {FALSE, watching} /\ excuse = FALSE

Awake == machine # "asleep"

-----------------------------------------------------------------------------
(* Sleep *)

\* The bus hands a signal to the watcher's queue, if there is one.
Signal(b) == signals' = IF watching THEN Append(signals, b) ELSE signals

\* There is no inhibitor, or the thread is still at the signals of an earlier night: the stale
\* PrepareForSleep(true) among them releases the inhibitor that by now serves the new one.
NotReady == ~inhibitor \/ signals # << >> \/ pump # "idle"

PrepareForSleep ==
  /\ machine = "awake" /\ nights < MaxNights
  /\ machine' = "leaving" /\ nights' = nights + 1
  /\ Signal(TRUE)
  /\ excuse' = NotReady
  /\ UNCHANGED <<vars, pump, owed, late, watching, inhibitor>>

Suspend ==
  /\ machine = "leaving" /\ ~inhibitor
  /\ machine' = "asleep"
  /\ UNCHANGED <<vars, nights, signals, pump, owed, late, watching, inhibitor, excuse>>

WakeUp ==
  /\ machine = "asleep"
  /\ machine' = "awake"
  /\ Signal(FALSE)
  /\ UNCHANGED <<vars, nights, pump, owed, late, watching, inhibitor, excuse>>

\* before_sleep hands lock_all to the event loop.
BeforeSleep ==
  /\ Awake /\ pump = "idle" /\ signals # << >> /\ Head(signals)
  /\ signals' = Tail(signals)
  /\ pump' = "locking" /\ owed' = TRUE /\ late' = FALSE
  /\ UNCHANGED <<vars, machine, nights, watching, inhibitor, excuse>>

\* The loop runs it, also after the thread gave up on it.
LockAll ==
  /\ Awake /\ owed
  /\ Lock
  /\ owed' = FALSE
  /\ pump' = IF pump = "locking" THEN "waiting" ELSE pump
  /\ UNCHANGED <<machine, nights, signals, late, watching, inhibitor, excuse>>

SleepWaitOver ==
  /\ Awake /\ pump # "idle" /\ ~late
  /\ late' = TRUE
  /\ UNCHANGED <<vars, machine, nights, signals, pump, owed, watching, inhibitor, excuse>>

\* Mutant: the lock is handed over and not waited for.
DoneAtOnce ==
  \/ pump = "locking"
  \/ pump = "waiting" /\ (~wipe_after \/ late)

\* before_sleep is done: no wipe is pending any more, or the time is up, be it in the wait for
\* the event loop (a TimeoutError) or in the wait for the wipes.
Done ==
  \/ pump = "locking" /\ late
  \/ pump = "waiting" /\ (~wipe_after \/ late)

\* Mutant: an error skips the release.
HeldOnError == inhibitor /\ pump = "locking"

\* release_inhibitor is in the finally clause.
HeldAfter == FALSE

ReleaseInhibitor ==
  /\ Awake /\ Done
  /\ pump' = "idle" /\ inhibitor' = HeldAfter
  /\ UNCHANGED <<vars, machine, nights, signals, owed, late, watching, excuse>>

\* PrepareForSleep(false): a new inhibitor, which logind may refuse.
TakeInhibitor ==
  /\ Awake /\ pump = "idle" /\ signals # << >> /\ ~Head(signals)
  /\ signals' = Tail(signals)
  /\ inhibitor' \in {inhibitor, TRUE}
  /\ UNCHANGED <<vars, machine, nights, pump, owed, late, watching, excuse>>

-----------------------------------------------------------------------------
(* The scheduler *)

\* tick: a window that is idle for idle_lock_s is locked; a locked uid is left alone.
IdleLock ==
  /\ Awake /\ Unlocked
  /\ Lock
  /\ UNCHANGED sleepVars

\* run: a sync is due every two hours.
SyncDue ==
  /\ Awake /\ Unlocked
  /\ \E t \in Task : SyncStarts(t)
  /\ UNCHANGED sleepVars

-----------------------------------------------------------------------------

\* A step of StoreHandlers; a person may approve a dialog that came after the lock.
Wiped    == signals = << >> /\ ~owed
Approves == \E t \in Task : pc[t] = "ask" /\ pc'[t] \in {"wait", "run"}

StoreStep ==
  /\ Awake /\ Next
  /\ excuse' = (excuse \/ (machine = "leaving" /\ Wiped /\ Approves))
  /\ UNCHANGED <<machine, nights, signals, pump, owed, late, watching, inhibitor>>

Watcher == BeforeSleep \/ ReleaseInhibitor \/ TakeInhibitor

PowerNext ==
  \/ StoreStep \/ PrepareForSleep \/ Suspend \/ WakeUp
  \/ Watcher \/ LockAll \/ SleepWaitOver \/ IdleLock \/ SyncDue

\* As in StoreHandlers; the watcher's thread runs, time passes for it, logind does as it says,
\* and a machine that sleeps wakes up.
PowerFairness ==
  /\ Fairness
  /\ WF_allVars(Watcher) /\ WF_allVars(LockAll) /\ WF_allVars(SleepWaitOver)
  /\ WF_allVars(Suspend \/ WakeUp)

PowerSpec == PowerInit /\ [][PowerNext]_allVars /\ PowerFairness

-----------------------------------------------------------------------------
(* Properties *)

\* logind.py: the inhibitor is released only after every uid is locked, "so no key is in RAM or
\* in a hibernation image - unless a store call is still running then".  Also not if the event
\* loop did not run the lock in time, if there was no inhibitor, if the thread had not caught up
\* with an earlier night, or if a person approved a dialog in that second.
NoKeysAsleep ==
  machine = "asleep" /\ keys # {} => excuse \/ (owed /\ late) \/ \E t \in Task : Running(t)

\* The daemon never holds the suspend back for good, whether the wipes are done in time, the
\* running call outlasts SLEEP_WAIT_S, or the event loop does not get to the lock at all.
SleepGoesOn == machine = "leaving" ~> machine = "asleep"

=============================================================================
