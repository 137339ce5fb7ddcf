-------------------------------- MODULE Gnss --------------------------------
(***************************************************************************)
(* The GNSS receiver of samples/tmo_shell: the thread that sets the        *)
(* receiver up and polls it (tmo_gnss.c), the location it hands to the     *)
(* Bluetooth demo, and the shell commands that suspend, resume, switch and *)
(* lock the receiver (tmo_pm.c) or switch the kit off (tmo_pm_sys.c).      *)
(*                                                                         *)
(* Time passes in ticks of 250 ms, the shortest sleep of the thread; the   *)
(* steps of a thread take none, but a sentence of the receiver, or a read  *)
(* of the location by the Bluetooth stack, may fall between any two.       *)
(*                                                                         *)
(* The receiver and its driver are external.  The receiver needs BootTicks *)
(* after power on, takes commands when it is powered and not put to sleep, *)
(* forgets them without power, and once it is set up sends a sentence at   *)
(* most every second.  The driver keeps the last sentence.                 *)
(***************************************************************************)
EXTENDS Naturals

CONSTANTS
    MaxSentences,   \* bound of the model: sentences of the receiver
    MaxCommands     \* bound of the model: commands of the shell

ASSUME GnssAssumption == MaxSentences \in Nat /\ MaxCommands \in Nat

VARIABLES
    chip,           \* the receiver: power management state, power, ticks until it has
                    \* booted, the commands it took, ticks until its next sentence
    locked,         \* its power management state is locked
    drv,            \* the last sentence: its number and validity, and the validity before
    up,             \* the kit is switched on
    current_state, restart_setup,
    pc, wait,       \* where gnss_thread is, and the ticks it sleeps
    gnss_values,    \* number of the sentence each value is from
    timer,          \* startGetFixTimer, gotFix, and ghosts about the last cold start:
                    \* whether there was a fix before it, whether there has been one
                    \* since, whether timeToFix was measured from it
    shell,          \* the command of the shell that sleeps, and its ticks
    commands,
    stale,          \* ghost: no poll was finished since the last setup
    asked,          \* ghost: gnss_enable_hardware fell into this setup
    overtaken,      \* ghost: it fell into the last setup
    deaf            \* ghost: a command of the last setup met a receiver that was asleep

receiver == <<chip, locked, drv>>
control == <<current_state, restart_setup>>
values == <<gnss_values, timer>>
ghosts == <<stale, asked, overtaken, deaf>>
vars == <<receiver, up, control, pc, wait, values, shell, commands, ghosts>>

ENABLE_HARDWARE == 0
CHECK_LOCATION == 1

\* k_msleep(2000) and k_msleep(250), and the delay of K_THREAD_DEFINE, in ticks.
BootTicks == 8
Pause == 1
StartDelay == 12

\* The commands of ENABLE_HARDWARE, and what follows each of them after a pause.
After == [version |-> "mode", mode |-> "sentence", sentence |-> "cold", cold |-> "wake",
          wake |-> "end"]
Setup == DOMAIN After
SetupSteps == Setup \cup {"end"}

SentenceTicks == 4

\* What the driver leaves at boot, and at TURN_ON.
Powered(pm) == [pm |-> pm, power |-> "on", boot |-> BootTicks, conf |-> {}, next |-> 0]

NoSentence == [n |-> 0, valid |-> FALSE, before |-> FALSE]

NoValues == [lat |-> 0, lon |-> 0, valid |-> FALSE, alt |-> 0]
NoTimer == [start |-> FALSE, gotFix |-> FALSE, had |-> FALSE, fixed |-> FALSE,
            measured |-> FALSE]

Init ==
    /\ chip = Powered("active") /\ locked = FALSE /\ drv = NoSentence
    /\ up = TRUE /\ commands = 0
    /\ current_state = ENABLE_HARDWARE /\ restart_setup = FALSE
    /\ pc = "top" /\ wait = StartDelay
    /\ gnss_values = NoValues /\ timer = NoTimer
    /\ shell = [cmd |-> "boot", wait |-> 0]
    /\ stale = TRUE /\ asked = FALSE /\ overtaken = FALSE /\ deaf = FALSE

-----------------------------------------------------------------------------
(* gnss_thread: setting the receiver up                                    *)

Runs(at) == up /\ pc = at /\ wait = 0
Goto(to, ticks) == pc' = to /\ wait' = ticks

\* The top of the loop; restart_setup is the request of cxd5605_init.
Top ==
    LET state == IF restart_setup THEN ENABLE_HARDWARE ELSE current_state IN
    /\ Runs("top")
    /\ current_state' = state /\ restart_setup' = FALSE
    /\ IF state = ENABLE_HARDWARE
       THEN /\ Goto("version", BootTicks)
            /\ stale' = TRUE /\ asked' = FALSE /\ overtaken' = FALSE /\ deaf' = FALSE
       ELSE Goto("lat", 0) /\ UNCHANGED ghosts
    /\ UNCHANGED <<receiver, up, values, shell, commands>>

\* A receiver that is off or boots does not answer; nobody looks at the result.
Takes == chip.power = "on" /\ chip.boot = 0

\* Faulty variant: the time to fix is not measured again.
F_ColdStart == timer

\* The cold start: the time to the next fix is measured from here.
ColdStart == [timer EXCEPT !.start = TRUE]

\* One command; the receiver loses its fix with a cold start.
SetupCommand(cmd) ==
    /\ Runs(cmd) /\ Goto(After[cmd], Pause)
    /\ chip' = IF Takes THEN [chip EXCEPT !.conf = @ \cup {cmd}] ELSE chip
    /\ deaf' = (deaf \/ chip.power = "asleep")
    /\ timer' = IF cmd = "cold"
                THEN [ColdStart EXCEPT !.had = drv.valid, !.fixed = FALSE, !.measured = FALSE]
                ELSE timer
    /\ UNCHANGED <<locked, drv, up, control, gnss_values, shell, commands, stale, asked,
                   overtaken>>

\* The end of the setup, whoever has asked for another one in the meantime.
SetupEnd ==
    /\ Runs("end") /\ Goto("top", Pause)
    /\ current_state' = CHECK_LOCATION
    /\ overtaken' = asked
    /\ UNCHANGED <<receiver, up, restart_setup, values, shell, commands, stale, asked, deaf>>

-----------------------------------------------------------------------------
(* gnss_thread: polling it                                                 *)

\* One value after the other is read from the driver and stored.
Store(at, value, to) ==
    /\ Runs(at) /\ Goto(to, 0)
    /\ gnss_values' = value
    /\ UNCHANGED <<receiver, up, control, timer, shell, commands, ghosts>>

StoreLat == Store("lat", [gnss_values EXCEPT !.lat = drv.n], "lon")
StoreLon == Store("lon", [gnss_values EXCEPT !.lon = drv.n], "valid")
StoreValid == Store("valid", [gnss_values EXCEPT !.valid = drv.valid], "alt")
StoreAlt == Store("alt", [gnss_values EXCEPT !.alt = drv.n], "ttff")

\* Faulty variant: the sleep of the setup, for every poll.
F_PollPause == BootTicks

\* The sleep between two polls.
PollPause == Pause

\* The time to fix is that of the first poll with a fix after a cold start.
PollEnd ==
    LET got == timer.gotFix /\ ~timer.start IN
    /\ Runs("ttff") /\ Goto("top", PollPause)
    /\ timer' = [timer EXCEPT !.start = FALSE, !.gotFix = got \/ drv.valid,
                              !.measured = @ \/ (~got /\ drv.valid)]
    /\ stale' = FALSE
    /\ UNCHANGED <<receiver, up, control, gnss_values, shell, commands, asked, overtaken, deaf>>

Thread ==
    \/ Top \/ (\E cmd \in Setup : SetupCommand(cmd)) \/ SetupEnd
    \/ StoreLat \/ StoreLon \/ StoreValid \/ StoreAlt \/ PollEnd

\* ln_buf_gen: the location as it is read by a central, or notified to it.
ln_buf_gen == [present |-> gnss_values.valid,
               position |-> <<gnss_values.lat, gnss_values.lon, gnss_values.alt>>]

-----------------------------------------------------------------------------
(* The shell                                                               *)

\* cxd5605_init, called once when the shell starts, before it takes commands.
cxd5605_init ==
    /\ up /\ shell.cmd = "boot"
    /\ restart_setup' = TRUE
    /\ shell' = [cmd |-> "idle", wait |-> 0]
    /\ UNCHANGED <<receiver, up, current_state, pc, wait, values, commands, ghosts>>

Command ==
    /\ up /\ shell.cmd = "idle"
    /\ commands < MaxCommands /\ commands' = commands + 1

\* pm_device_action_run: one state leads to another, a locked device stays as it is,
\* and so does one whose driver fails.
Suspended(c, ok) ==
    IF ok /\ c.pm = "active" /\ ~locked THEN [c EXCEPT !.pm = "suspended", !.power = "asleep"]
                                        ELSE c
Resumed(c, ok) ==
    IF ok /\ c.pm = "suspended" /\ ~locked THEN [c EXCEPT !.pm = "active", !.power = "on"]
                                           ELSE c
TurnedOff(c, ok) ==
    IF ok /\ c.pm = "suspended" /\ ~locked
    THEN [c EXCEPT !.pm = "off", !.power = "off", !.conf = {}] ELSE c
TurnedOn(c) == IF c.pm = "off" THEN Powered("suspended") ELSE c

\* The commands that are done at once.
AtOnce(c) ==
    /\ Command /\ chip' = c
    /\ UNCHANGED <<locked, drv, up, control, pc, wait, values, shell, ghosts>>

cmd_pmsuspend(ok) == AtOnce(Suspended(chip, ok))

\* An active device is suspended before it is turned off.
cmd_pmoff(ok1, ok2) == AtOnce(TurnedOff(Suspended(chip, ok1), ok2))

\* A device that is off is turned on by cmd_pmon first.
cmd_pmresume(ok) == chip.pm # "off" /\ AtOnce(Resumed(chip, ok))

cmd_pmlock ==
    /\ Command /\ locked' \in BOOLEAN
    /\ UNCHANGED <<chip, drv, up, control, pc, wait, values, shell, ghosts>>

\* cmd_pmon, by itself or for cmd_pmresume: unless the device is locked the shell sleeps,
\* whatever the result was, until the receiver has booted.
cmd_pmon(cmd) ==
    /\ Command /\ ~locked
    /\ cmd = "resume" => chip.pm = "off"
    /\ chip' = TurnedOn(chip)
    /\ shell' = [cmd |-> cmd, wait |-> BootTicks]
    /\ UNCHANGED <<locked, drv, up, control, pc, wait, values, ghosts>>

\* Faulty variant: nothing is asked of the thread.
F_Enable == current_state

\* gnss_enable_hardware, after its sleep.
Enable == ENABLE_HARDWARE

\* The rest of cmd_pmon, and of cmd_pmresume.
ShellWakes(ok) ==
    /\ up /\ shell.cmd \in {"on", "resume"} /\ shell.wait = 0
    /\ current_state' = Enable
    /\ asked' = (asked \/ pc \in SetupSteps)
    /\ chip' = IF shell.cmd = "resume" THEN Resumed(chip, ok) ELSE chip
    /\ shell' = [cmd |-> "idle", wait |-> 0]
    /\ UNCHANGED <<locked, drv, up, restart_setup, pc, wait, values, commands, stale,
                   overtaken, deaf>>

\* cmd_pmsysoff, cmd_pmsysfulloff: the results of switching the receiver off are ignored.
cmd_pmsysoff(ok1, ok2) ==
    /\ Command /\ up' = FALSE
    /\ chip' = TurnedOff(Suspended(chip, ok1), ok2)
    /\ UNCHANGED <<locked, drv, control, pc, wait, values, shell, ghosts>>

\* Reset or the button brings the kit back; every static is as at first.
Reset ==
    /\ ~up /\ up' = TRUE
    /\ chip' = Powered("active") /\ locked' = FALSE /\ drv' = NoSentence
    /\ current_state' = ENABLE_HARDWARE /\ restart_setup' = FALSE
    /\ Goto("top", StartDelay)
    /\ gnss_values' = NoValues /\ timer' = NoTimer
    /\ shell' = [cmd |-> "boot", wait |-> 0]
    /\ stale' = TRUE /\ asked' = FALSE /\ overtaken' = FALSE /\ deaf' = FALSE
    /\ UNCHANGED commands

-----------------------------------------------------------------------------
(* The receiver, and time                                                  *)

Configured == {"mode", "sentence", "cold", "wake"} \subseteq chip.conf

Sentence(valid) ==
    /\ up /\ Takes /\ Configured /\ chip.next = 0 /\ drv.n < MaxSentences
    /\ drv' = [n |-> drv.n + 1, valid |-> valid, before |-> drv.valid]
    /\ chip' = [chip EXCEPT !.next = SentenceTicks]
    /\ timer' = [timer EXCEPT !.fixed = @ \/ valid]
    /\ UNCHANGED <<locked, up, control, pc, wait, gnss_values, shell, commands, ghosts>>

Less(n) == IF n = 0 THEN 0 ELSE n - 1

\* Time passes when nobody is ready to run.
Tick ==
    /\ up /\ wait > 0
    /\ shell.cmd \in {"on", "resume"} => shell.wait > 0
    /\ wait' = wait - 1
    /\ shell' = [shell EXCEPT !.wait = Less(@)]
    /\ chip' = [chip EXCEPT !.boot = Less(@), !.next = Less(@)]
    /\ UNCHANGED <<locked, drv, up, control, pc, values, commands, ghosts>>

-----------------------------------------------------------------------------
Shell ==
    \/ \E ok1, ok2 \in BOOLEAN : cmd_pmoff(ok1, ok2) \/ cmd_pmsysoff(ok1, ok2)
    \/ \E ok \in BOOLEAN : cmd_pmsuspend(ok) \/ cmd_pmresume(ok)
    \/ cmd_pmlock
    \/ \E cmd \in {"on", "resume"} : cmd_pmon(cmd)

Wakes == \E ok \in BOOLEAN : ShellWakes(ok)

Next ==
    \/ Thread \/ cxd5605_init \/ Shell \/ Wakes \/ Reset \/ Tick
    \/ \E valid \in BOOLEAN : Sentence(valid)

Spec == Init /\ [][Next]_vars

\* The thread and a shell that sleeps go on, and time passes; nobody is bound to enter
\* a command, and the receiver to find a fix.
FairSpec == Spec /\ WF_vars(Thread) /\ WF_vars(Wakes) /\ WF_vars(Tick)

-----------------------------------------------------------------------------
TypeOK ==
    /\ chip \in [pm : {"active", "suspended", "off"}, power : {"on", "asleep", "off"},
                 boot : 0 .. BootTicks, conf : SUBSET Setup, next : 0 .. SentenceTicks]
    /\ drv \in [n : Nat, valid : BOOLEAN, before : BOOLEAN] /\ drv.n <= MaxSentences
    /\ up \in BOOLEAN /\ locked \in BOOLEAN
    /\ current_state \in {ENABLE_HARDWARE, CHECK_LOCATION} /\ restart_setup \in BOOLEAN
    /\ pc \in SetupSteps \cup {"top", "lat", "lon", "valid", "alt", "ttff"}
    /\ wait \in 0 .. StartDelay
    /\ gnss_values \in [lat : Nat, lon : Nat, valid : BOOLEAN, alt : Nat]
    /\ timer \in [start : BOOLEAN, gotFix : BOOLEAN, had : BOOLEAN, fixed : BOOLEAN,
                  measured : BOOLEAN]
    /\ shell \in [cmd : {"boot", "idle", "on", "resume"}, wait : 0 .. BootTicks]
    /\ commands \in 0 .. MaxCommands
    /\ stale \in BOOLEAN /\ asked \in BOOLEAN /\ overtaken \in BOOLEAN /\ deaf \in BOOLEAN

\* The location a central reads or is notified of, at any moment, is that of the last
\* sentence of the receiver or of the one before, value by value, and so is the flag that
\* says it is present: ln_buf_gen may mix two fixes, but never older ones.  Only from a
\* setup to the end of the poll after it the values may be older, and of more fixes.
FreshLocation ==
    /\ TypeOK
    /\ ~stale =>
          /\ \A i \in 1 .. 3 : ln_buf_gen.position[i] \in {drv.n, Less(drv.n)}
          /\ ln_buf_gen.present \in {drv.valid, drv.before}

\* After a poll the time to fix, if there was one, is that of the last cold start: it
\* was measured after it, and with a fix that was found after it.  The exception is a
\* receiver that is set up again while it has a fix: the sentence before the cold start
\* is taken for the fix after it.
TimedByColdStart ==
    ~stale =>
        /\ timer.gotFix => timer.measured
        /\ timer.measured => timer.fixed \/ timer.had

\* A receiver that is powered is set up, also after it has been turned off and on or
\* the kit was switched off.  The exceptions: the request of the shell falls into a setup
\* that is under way and is overwritten at its end; or the receiver was suspended
\* during the setup, which is not repeated when it is resumed.
SetUpAgain ==
    (up /\ chip.power = "on" /\ ~Configured)
        ~> (Configured \/ ~up \/ chip.power # "on" \/ overtaken \/ deaf)

-----------------------------------------------------------------------------
(* The inductive invariant of the proofs (GnssProofs)                      *)

\* The receiver sends nothing for the next k ticks.
Quiet(k) == chip.next >= k \/ chip.boot >= k

\* A value read within this tick, k being 4, or within the last one, k being 3: a
\* sentence that has come since leaves the receiver quiet for the rest of its second.
ReadAgo(k, v) == v = drv.n \/ (v + 1 = drv.n /\ Quiet(k))
FlagReadAgo(k, b) == b = drv.valid \/ (b = drv.before /\ Quiet(k))

\* The values a poll has already stored are as fresh as they can be.
Polled ==
    /\ pc \in {"lon", "valid", "alt", "ttff"} => ReadAgo(4, gnss_values.lat)
    /\ pc \in {"valid", "alt", "ttff"} => ReadAgo(4, gnss_values.lon)
    /\ pc \in {"alt", "ttff"} => FlagReadAgo(4, gnss_values.valid)
    /\ pc = "ttff" => ReadAgo(4, gnss_values.alt)

\* After a poll the others are one tick older at most.
Lagging ==
    LET k == IF pc = "top" /\ wait > 0 THEN 4 ELSE 3 IN
    ~stale => /\ ReadAgo(k, gnss_values.lat) /\ ReadAgo(k, gnss_values.lon)
              /\ ReadAgo(k, gnss_values.alt) /\ FlagReadAgo(k, gnss_values.valid)

\* Where the thread is: it never sleeps in a poll, and after one for a pause only.
Position ==
    /\ pc \in SetupSteps => stale
    /\ pc \notin SetupSteps \cup {"top"} => wait = 0
    /\ ~stale => wait <= Pause

\* How the flags of the time to fix hang together.
Timing ==
    /\ ~stale => ~timer.start
    /\ timer.gotFix /\ ~timer.start => timer.measured
    /\ timer.measured \/ drv.valid => timer.fixed \/ timer.had

IInv == TypeOK /\ Polled /\ Lagging /\ Position /\ Timing
=============================================================================
