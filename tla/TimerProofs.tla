----------------------------- MODULE TimerProofs -----------------------------
(***************************************************************************)
(* Proofs about the components whose behaviour hangs on timers: the thread *)
(* of the GNSS receiver (Gnss) and the button module (ButtonPress).        *)
(*                                                                         *)
(* The receiver, for any number of sentences and of shell commands: the    *)
(* location is never older than the sentence before the last, and the time *)
(* to fix belongs to the last cold start.  After a sentence the receiver   *)
(* is quiet for four ticks, after power on for longer.  A poll takes no    *)
(* time and is followed by a pause of one tick, so that at most one        *)
(* sentence comes between the read of a value and the next read of it.     *)
(*                                                                         *)
(* The button, whatever the interleaving of the pin, the two timers and    *)
(* the main thread, and for every length of the time-outs: a press is      *)
(* reported once, a normal press with the button up again, and a module    *)
(* that was shut down is quiet.  As long as nothing was reported of a      *)
(* press, its time-out runs.                                               *)
(*                                                                         *)
(* The two share no variables.                                             *)
(***************************************************************************)
EXTENDS Gnss, ButtonPress, TLAPS

-----------------------------------------------------------------------------
(* The receiver                                                            *)

\* The states of the receiver TypeOK allows.
Chips == [pm : {"active", "suspended", "off"}, power : {"on", "asleep", "off"},
          boot : 0 .. BootTicks, conf : SUBSET Setup, next : 0 .. SentenceTicks]

\* What the power management leaves alone: a receiver is as quiet as before, or it has
\* just been powered.
AsQuiet(c) == c \in Chips /\ ((c.next = chip.next /\ c.boot = chip.boot) \/ c.boot = BootTicks)

-----------------------------------------------------------------------------
(* Operators                                                               *)

\* The commands of the setup, by name, and that each leads to another or to the end.
LEMMA SetupNames ==
    /\ Setup = {"version", "mode", "sentence", "cold", "wake"}
    /\ SetupSteps = {"version", "mode", "sentence", "cold", "wake", "end"}
    /\ \A cmd \in Setup : After[cmd] \in SetupSteps
  BY DEF Setup, SetupSteps, After

\* Counting down stays within the bound, and goes down by at most one.
LEMMA LessBound ==
    ASSUME NEW m \in Nat, NEW n \in 0 .. m
    PROVE  Less(n) \in 0 .. m /\ Less(n) >= n - 1
  BY DEF Less

\* Every action of the power management keeps the receiver as quiet as it is.
LEMMA PowerManagement ==
    ASSUME chip \in Chips, NEW ok1 \in BOOLEAN, NEW ok2 \in BOOLEAN
    PROVE  /\ AsQuiet(Suspended(chip, ok1))
           /\ AsQuiet(Resumed(chip, ok1))
           /\ AsQuiet(TurnedOff(Suspended(chip, ok1), ok2))
           /\ AsQuiet(TurnedOn(chip))
  <1>1. AsQuiet(Suspended(chip, ok1))
    BY DEF Chips, AsQuiet, Suspended
  <1>2. AsQuiet(Resumed(chip, ok1))
    BY DEF Chips, AsQuiet, Resumed
  <1>3. AsQuiet(TurnedOff(Suspended(chip, ok1), ok2))
    BY <1>1 DEF Chips, AsQuiet, TurnedOff
  <1>4. AsQuiet(TurnedOn(chip))
    BY DEF Chips, AsQuiet, TurnedOn, Powered, BootTicks, SentenceTicks
  <1> QED
    BY <1>1, <1>2, <1>3, <1>4

\* Whoever leaves the thread and the driver alone and the receiver as quiet as it is
\* keeps the invariant, apart from the types.
LEMMA Undisturbed ==
    ASSUME TypeOK, Polled, Lagging, Position, Timing, AsQuiet(chip'),
           UNCHANGED <<drv, pc, wait, gnss_values, timer, stale>>
    PROVE  Polled' /\ Lagging' /\ Position' /\ Timing'
  <1>1. \A k \in {3, 4} : Quiet(k) => Quiet(k)'
    BY DEF Quiet, AsQuiet, Chips, BootTicks
  <1>2. Polled'
    BY <1>1 DEF Polled, ReadAgo, FlagReadAgo
  <1>3. Lagging'
    BY <1>1 DEF Lagging, ReadAgo, FlagReadAgo
  <1>4. Position' /\ Timing'
    BY DEF Position, Timing
  <1> QED
    BY <1>2, <1>3, <1>4

-----------------------------------------------------------------------------
(* The types                                                               *)

\* Every step keeps the types, and the sentences and commands within their bounds.
LEMMA TypeStep == TypeOK /\ [Next]_vars => TypeOK'
  <1> SUFFICES ASSUME TypeOK, [Next]_vars PROVE TypeOK'
    OBVIOUS
  <1> USE GnssAssumption DEF TypeOK, ENABLE_HARDWARE, CHECK_LOCATION, StartDelay, BootTicks,
          Pause, SentenceTicks
  <1>0. chip \in Chips
    BY DEF Chips
  <1>1. CASE Top
    <2>1. current_state' \in {ENABLE_HARDWARE, CHECK_LOCATION} /\ restart_setup' \in BOOLEAN
      BY <1>1 DEF Top
    <2>2. pc' \in {"version", "lat"} /\ wait' \in 0 .. StartDelay
      BY <1>1 DEF Top, Goto
    <2>3. stale' \in BOOLEAN /\ asked' \in BOOLEAN /\ overtaken' \in BOOLEAN
          /\ deaf' \in BOOLEAN
      BY <1>1 DEF Top, ghosts
    <2>4. UNCHANGED <<chip, locked, drv, up, gnss_values, timer, shell, commands>>
      BY <1>1 DEF Top, receiver, values
    <2> QED
      BY <2>1, <2>2, <2>3, <2>4, SetupNames
  <1>2. ASSUME NEW cmd \in Setup, SetupCommand(cmd) PROVE TypeOK'
    <2>1. chip' \in Chips
      BY <1>0, <1>2 DEF SetupCommand, Chips
    <2>2. timer' \in [start : BOOLEAN, gotFix : BOOLEAN, had : BOOLEAN, fixed : BOOLEAN,
                      measured : BOOLEAN]
      BY <1>2 DEF SetupCommand, ColdStart
    <2>3. pc' \in SetupSteps /\ wait' = Pause
      BY <1>2, SetupNames DEF SetupCommand, Goto
    <2>4. deaf' \in BOOLEAN
      BY <1>2 DEF SetupCommand
    <2> QED
      BY <1>2, <2>1, <2>2, <2>3, <2>4 DEF SetupCommand, Chips, control
  <1>3. CASE SetupEnd
    BY <1>3 DEF SetupEnd, Runs, Goto, receiver, values
  <1>4. CASE StoreLat \/ StoreLon \/ StoreValid \/ StoreAlt
    BY <1>4 DEF StoreLat, StoreLon, StoreValid, StoreAlt, Store, Runs, Goto, receiver,
                control, ghosts
  <1>5. CASE PollEnd
    <2>1. timer' \in [start : BOOLEAN, gotFix : BOOLEAN, had : BOOLEAN, fixed : BOOLEAN,
                      measured : BOOLEAN]
      BY <1>5 DEF PollEnd
    <2>2. pc' = "top" /\ wait' = 1 /\ stale' \in BOOLEAN
      BY <1>5 DEF PollEnd, PollPause, Goto
    <2>3. UNCHANGED <<chip, locked, drv, up, current_state, restart_setup, gnss_values,
                      shell, commands, asked, overtaken, deaf>>
      BY <1>5 DEF PollEnd, receiver, control
    <2> QED
      BY <2>1, <2>2, <2>3
  <1>6. CASE cxd5605_init
    BY <1>6 DEF cxd5605_init, receiver, values, ghosts
  <1>7. ASSUME NEW c, AtOnce(c), AsQuiet(c) PROVE TypeOK'
    BY <1>7 DEF AtOnce, Command, AsQuiet, Chips, control, values, ghosts
  <1>8. CASE cmd_pmlock
    BY <1>8 DEF cmd_pmlock, Command, control, values, ghosts
  <1>9. ASSUME NEW cmd \in {"on", "resume"}, cmd_pmon(cmd) PROVE TypeOK'
    <2>1. chip' \in Chips
      BY <1>0, <1>9, PowerManagement DEF cmd_pmon, AsQuiet
    <2> QED
      BY <1>9, <2>1 DEF cmd_pmon, Command, Chips, control, values, ghosts
  <1>10. ASSUME NEW ok \in BOOLEAN, ShellWakes(ok) PROVE TypeOK'
    <2>1. chip' \in Chips
      BY <1>0, <1>10, PowerManagement DEF ShellWakes, AsQuiet
    <2>2. asked' \in BOOLEAN /\ current_state' = ENABLE_HARDWARE
      BY <1>10 DEF ShellWakes, Enable
    <2> QED
      BY <1>10, <2>1, <2>2 DEF ShellWakes, Chips, values
  <1>11. ASSUME NEW ok1 \in BOOLEAN, NEW ok2 \in BOOLEAN, cmd_pmsysoff(ok1, ok2) PROVE TypeOK'
    <2>1. chip' \in Chips
      BY <1>0, <1>11, PowerManagement DEF cmd_pmsysoff, AsQuiet
    <2> QED
      <3>1. commands' \in 0 .. MaxCommands
        BY <1>11 DEF cmd_pmsysoff, Command
      <3>2. up' \in BOOLEAN
        BY <1>11 DEF cmd_pmsysoff
      <3>3. UNCHANGED <<locked, drv, current_state, restart_setup, pc, wait, gnss_values,
                        timer, shell, stale, asked, overtaken, deaf>>
        BY <1>11 DEF cmd_pmsysoff, control, values, ghosts
      <3> QED
        BY <2>1, <3>1, <3>2, <3>3 DEF Chips
  <1>12. CASE Reset
    <2>1. chip' \in Chips /\ drv' \in [n : Nat, valid : BOOLEAN, before : BOOLEAN]
          /\ drv'.n <= MaxSentences
      BY <1>12 DEF Reset, Powered, Chips, NoSentence
    <2>2. gnss_values' \in [lat : Nat, lon : Nat, valid : BOOLEAN, alt : Nat]
          /\ timer' \in [start : BOOLEAN, gotFix : BOOLEAN, had : BOOLEAN, fixed : BOOLEAN,
                         measured : BOOLEAN]
          /\ shell' \in [cmd : {"boot", "idle", "on", "resume"}, wait : 0 .. BootTicks]
      BY <1>12 DEF Reset, NoValues, NoTimer
    <2>3. pc' = "top" /\ wait' = 12 /\ current_state' = 0 /\ UNCHANGED commands
      BY <1>12 DEF Reset, Goto
    <2>4. up' \in BOOLEAN /\ locked' \in BOOLEAN /\ restart_setup' \in BOOLEAN
          /\ stale' \in BOOLEAN /\ asked' \in BOOLEAN /\ overtaken' \in BOOLEAN
          /\ deaf' \in BOOLEAN
      BY <1>12 DEF Reset
    <2> QED
      BY <2>1, <2>2, <2>3, <2>4 DEF Chips
  <1>13. CASE Tick
    <2>1. Less(chip.boot) \in 0 .. BootTicks /\ Less(chip.next) \in 0 .. SentenceTicks
          /\ Less(shell.wait) \in 0 .. BootTicks
      BY LessBound
    <2>2. chip' \in Chips
      BY <1>0, <1>13, <2>1 DEF Tick, Chips
    <2> QED
      BY <1>13, <2>1, <2>2 DEF Tick, Chips, control, values, ghosts
  <1>14. ASSUME NEW b \in BOOLEAN, Sentence(b) PROVE TypeOK'
    BY <1>14 DEF Sentence, control, ghosts
  <1>15. CASE UNCHANGED vars
    BY <1>15 DEF vars, receiver, control, values, ghosts
  <1>16. CASE Shell
    <2>1. ASSUME NEW ok1 \in BOOLEAN, NEW ok2 \in BOOLEAN, cmd_pmoff(ok1, ok2) PROVE TypeOK'
      BY <1>0, <1>7, <2>1, PowerManagement DEF cmd_pmoff
    <2>2. ASSUME NEW ok \in BOOLEAN, cmd_pmsuspend(ok) \/ cmd_pmresume(ok) PROVE TypeOK'
      BY <1>0, <1>7, <2>2, PowerManagement DEF cmd_pmsuspend, cmd_pmresume
    <2> QED
      BY <1>16, <1>8, <1>9, <1>11, <2>1, <2>2 DEF Shell
  <1> QED
    BY <1>1, <1>2, <1>3, <1>4, <1>5, <1>6, <1>10, <1>12, <1>13, <1>14, <1>15, <1>16
       DEF Next, Thread, Wakes

-----------------------------------------------------------------------------
(* The invariant                                                           *)

\* The kit starts in it.
LEMMA Starts == Init => IInv
  <1> SUFFICES ASSUME Init PROVE IInv
    OBVIOUS
  <1>1. /\ chip \in Chips /\ drv \in [n : Nat, valid : BOOLEAN, before : BOOLEAN]
        /\ drv.n <= MaxSentences /\ drv.valid = FALSE
        /\ shell \in [cmd : {"boot", "idle", "on", "resume"}, wait : 0 .. BootTicks]
    BY GnssAssumption DEF Init, Chips, Powered, NoSentence, BootTicks, SentenceTicks
  <1>2. /\ gnss_values \in [lat : Nat, lon : Nat, valid : BOOLEAN, alt : Nat]
        /\ timer \in [start : BOOLEAN, gotFix : BOOLEAN, had : BOOLEAN, fixed : BOOLEAN,
                      measured : BOOLEAN]
    BY DEF Init, NoValues, NoTimer
  <1>3. /\ up \in BOOLEAN /\ locked \in BOOLEAN /\ restart_setup \in BOOLEAN
        /\ stale \in BOOLEAN /\ asked \in BOOLEAN /\ overtaken \in BOOLEAN
        /\ deaf \in BOOLEAN
    BY DEF Init
  <1>4. /\ current_state \in {ENABLE_HARDWARE, CHECK_LOCATION} /\ pc = "top"
        /\ wait \in 0 .. StartDelay /\ commands \in 0 .. MaxCommands
    BY GnssAssumption DEF Init, StartDelay
  <1>5. TypeOK
    BY <1>1, <1>2, <1>3, <1>4 DEF TypeOK, Chips
  <1>6. Polled /\ Lagging /\ Position
    <2>1. stale
      BY DEF Init
    <2> QED
      BY <1>4, <2>1, SetupNames DEF Polled, Lagging, Position
  <1>7. Timing
    BY <1>1 DEF Init, Timing, NoTimer
  <1> QED
    BY <1>5, <1>6, <1>7 DEF IInv

\* Every command of the shell, from its start to its end.
LEMMA ShellStep ==
    ASSUME IInv, cxd5605_init \/ Shell \/ Wakes
    PROVE  Polled' /\ Lagging' /\ Position' /\ Timing'
  <1> DEFINE Same == UNCHANGED <<drv, pc, wait, gnss_values, timer, stale>>
  <1>1. chip \in Chips
    BY DEF IInv, TypeOK, Chips
  <1>2. SUFFICES AsQuiet(chip') /\ Same
    BY Undisturbed DEF IInv
  <1>3. CASE cxd5605_init
    BY <1>1, <1>3 DEF cxd5605_init, AsQuiet, receiver, values, ghosts
  <1>4. ASSUME NEW ok1 \in BOOLEAN, NEW ok2 \in BOOLEAN,
               cmd_pmoff(ok1, ok2) \/ cmd_pmsysoff(ok1, ok2)
        PROVE  AsQuiet(chip') /\ Same
    <2>1. chip' = TurnedOff(Suspended(chip, ok1), ok2)
      BY <1>4 DEF cmd_pmoff, cmd_pmsysoff, AtOnce
    <2>2. Same
      BY <1>4 DEF cmd_pmoff, cmd_pmsysoff, AtOnce, values, ghosts
    <2> QED
      BY <1>1, <2>1, <2>2, PowerManagement
  <1>5. ASSUME NEW ok \in BOOLEAN, cmd_pmsuspend(ok) \/ cmd_pmresume(ok)
        PROVE  AsQuiet(chip') /\ Same
    <2>1. chip' \in {Suspended(chip, ok), Resumed(chip, ok)}
      BY <1>5 DEF cmd_pmsuspend, cmd_pmresume, AtOnce
    <2>2. Same
      BY <1>5 DEF cmd_pmsuspend, cmd_pmresume, AtOnce, values, ghosts
    <2> QED
      BY <1>1, <2>1, <2>2, PowerManagement
  <1>6. CASE cmd_pmlock
    BY <1>1, <1>6 DEF cmd_pmlock, AsQuiet, values, ghosts
  <1>7. ASSUME NEW cmd \in {"on", "resume"}, cmd_pmon(cmd)
        PROVE  AsQuiet(chip') /\ Same
    <2>1. Same
      BY <1>7 DEF cmd_pmon, values, ghosts
    <2> QED
      BY <1>1, <1>7, <2>1, PowerManagement DEF cmd_pmon
  <1>8. ASSUME NEW ok \in BOOLEAN, ShellWakes(ok)
        PROVE  AsQuiet(chip') /\ Same
    <2>1. chip' \in {chip, Resumed(chip, ok)}
      BY <1>8 DEF ShellWakes
    <2>2. Same
      BY <1>8 DEF ShellWakes, values
    <2>3. AsQuiet(chip)
      BY <1>1 DEF AsQuiet
    <2> QED
      BY <1>1, <2>1, <2>2, <2>3, PowerManagement
  <1> QED
    BY <1>3, <1>4, <1>5, <1>6, <1>7, <1>8 DEF Shell, Wakes

\* The steps of a setup: the values are stale already, or become so.
LEMMA SetupStep ==
    ASSUME IInv, Top \/ SetupEnd \/ (\E cmd \in Setup : SetupCommand(cmd))
    PROVE  Polled' /\ Lagging' /\ Position' /\ Timing'
  <1> USE DEF IInv
  <1>1. CASE Top
    <2>1. UNCHANGED <<chip, drv, gnss_values, timer>> /\ pc = "top" /\ wait = 0
      BY <1>1 DEF Top, Runs, receiver, values
    <2>2. \/ pc' = "version" /\ stale'
          \/ pc' = "lat" /\ wait' = 0 /\ UNCHANGED stale
      BY <1>1 DEF Top, Goto, ghosts
    <2>3. Polled' /\ Position'
      BY <2>2, SetupNames DEF Polled, Position, Pause
    <2>4. Lagging'
      BY <2>1, <2>2 DEF Lagging, ReadAgo, FlagReadAgo, Quiet
    <2>5. Timing'
      BY <2>1, <2>2 DEF Timing
    <2> QED
      BY <2>3, <2>4, <2>5
  <1>2. CASE SetupEnd
    <2>1. UNCHANGED <<drv, timer, stale>> /\ pc = "end" /\ pc' = "top"
      BY <1>2 DEF SetupEnd, Runs, Goto, receiver, values
    <2>2. stale
      BY <2>1, SetupNames DEF Position
    <2> QED
      BY <2>1, <2>2, SetupNames DEF Polled, Lagging, Position, Timing
  <1>3. ASSUME NEW cmd \in Setup, SetupCommand(cmd)
        PROVE  Polled' /\ Lagging' /\ Position' /\ Timing'
    <2>1. UNCHANGED <<drv, stale>> /\ pc = cmd /\ pc' \in SetupSteps
      BY <1>3, SetupNames DEF SetupCommand, Runs, Goto
    <2>2. stale /\ stale'
      BY <2>1, SetupNames DEF Position
    <2>3. Polled' /\ Lagging' /\ Position'
      BY <2>1, <2>2, SetupNames DEF Polled, Lagging, Position
    <2>4. Timing'
      <3>1. CASE cmd = "cold"
        <4>1. timer'.start /\ timer'.had = drv.valid /\ ~timer'.measured
          BY <1>3, <3>1 DEF SetupCommand, ColdStart, TypeOK
        <4> QED
          BY <2>1, <2>2, <4>1 DEF Timing
      <3>2. CASE cmd # "cold"
        <4>1. UNCHANGED timer
          BY <1>3, <3>2 DEF SetupCommand
        <4> QED
          BY <2>1, <2>2, <4>1 DEF Timing
      <3> QED
        BY <3>1, <3>2
    <2> QED
      BY <2>3, <2>4
  <1> QED
    BY <1>1, <1>2, <1>3

\* One value is stored: it is the driver's, and the others are as they were.
LEMMA StoreStep ==
    ASSUME IInv, StoreLat \/ StoreLon \/ StoreValid \/ StoreAlt
    PROVE  Polled' /\ Lagging' /\ Position' /\ Timing'
  <1> USE DEF IInv, Store, Runs, Goto, receiver, ghosts
  <1>1. UNCHANGED <<chip, drv, timer, stale>> /\ wait = 0 /\ wait' = 0
    BY DEF StoreLat, StoreLon, StoreValid, StoreAlt
  <1>2. \/ pc = "lat" /\ pc' = "lon" /\ gnss_values' = [gnss_values EXCEPT !.lat = drv.n]
        \/ pc = "lon" /\ pc' = "valid" /\ gnss_values' = [gnss_values EXCEPT !.lon = drv.n]
        \/ pc = "valid" /\ pc' = "alt" /\ gnss_values' = [gnss_values EXCEPT !.valid = drv.valid]
        \/ pc = "alt" /\ pc' = "ttff" /\ gnss_values' = [gnss_values EXCEPT !.alt = drv.n]
    BY DEF StoreLat, StoreLon, StoreValid, StoreAlt
  <1>3. Polled'
    BY <1>1, <1>2 DEF Polled, ReadAgo, FlagReadAgo, Quiet, TypeOK
  <1>4. Lagging'
    BY <1>1, <1>2 DEF Lagging, ReadAgo, FlagReadAgo, Quiet, TypeOK
  <1>5. Position'
    BY <1>1, <1>2, SetupNames DEF Position, Pause
  <1>6. Timing'
    BY <1>1 DEF Timing
  <1> QED
    BY <1>3, <1>4, <1>5, <1>6

\* The end of a poll: whatever was read is of this tick, and the time to fix is judged.
LEMMA PollEndStep ==
    ASSUME IInv, PollEnd
    PROVE  Polled' /\ Lagging' /\ Position' /\ Timing'
  <1> USE DEF IInv, PollEnd
  <1>1. /\ UNCHANGED <<chip, drv, gnss_values>> /\ pc = "ttff" /\ pc' = "top" /\ wait' = 1
        /\ ~stale'
    BY DEF Runs, Goto, receiver, PollPause, Pause
  <1>2. Polled'
    BY <1>1 DEF Polled
  <1>3. Lagging'
    BY <1>1 DEF Polled, Lagging, ReadAgo, FlagReadAgo, Quiet
  <1>4. Position'
    BY <1>1, SetupNames DEF Position, Pause
  <1>5. Timing'
    BY <1>1 DEF Timing, TypeOK
  <1> QED
    BY <1>2, <1>3, <1>4, <1>5

\* Time passes only between two polls, or in a setup.
LEMMA TickStep ==
    ASSUME IInv, Tick
    PROVE  Polled' /\ Lagging' /\ Position' /\ Timing'
  <1> USE DEF IInv, Tick
  <1>1. UNCHANGED <<drv, pc, gnss_values, timer, stale>> /\ wait > 0 /\ wait' = wait - 1
    BY DEF values, ghosts
  <1>2. pc \in SetupSteps \cup {"top"}
    BY <1>1 DEF Position
  <1>3. Polled'
    BY <1>1, <1>2, SetupNames DEF Polled
  <1>4. Lagging'
    <2>1. SUFFICES ASSUME ~stale PROVE Lagging'
      BY <1>1 DEF Lagging
    <2>2. pc = "top" /\ wait = 1
      BY <1>1, <1>2, <2>1 DEF Position, Pause, TypeOK
    <2>3. chip'.boot = Less(chip.boot) /\ chip'.next = Less(chip.next)
      BY DEF TypeOK
    <2>4. Quiet(4) => Quiet(3)'
      BY <2>3, LessBound DEF Quiet, TypeOK, BootTicks, SentenceTicks
    <2> QED
      BY <1>1, <2>2, <2>4 DEF Lagging, ReadAgo, FlagReadAgo
  <1>5. Position'
    BY <1>1, <1>2 DEF Position, Pause, TypeOK
  <1>6. Timing'
    BY <1>1 DEF Timing
  <1> QED
    BY <1>3, <1>4, <1>5, <1>6

\* A sentence: the receiver was not quiet, so that every value was the driver's.
LEMMA SentenceStep ==
    ASSUME IInv, NEW b \in BOOLEAN, Sentence(b)
    PROVE  Polled' /\ Lagging' /\ Position' /\ Timing'
  <1> USE DEF IInv, Sentence
  <1>1. UNCHANGED <<pc, wait, gnss_values, stale>>
    BY DEF ghosts
  <1>2. drv'.n = drv.n + 1 /\ drv'.valid = b /\ drv'.before = drv.valid
    BY DEF TypeOK
  <1>3. ~Quiet(3) /\ ~Quiet(4)
    BY DEF Takes, Quiet
  <1>4. Quiet(3)' /\ Quiet(4)'
    BY DEF Quiet, TypeOK, SentenceTicks
  <1>5. Polled'
    BY <1>1, <1>2, <1>3, <1>4 DEF Polled, ReadAgo, FlagReadAgo
  <1>6. Lagging'
    BY <1>1, <1>2, <1>3, <1>4 DEF Lagging, ReadAgo, FlagReadAgo
  <1>7. Position'
    BY <1>1 DEF Position
  <1>8. Timing'
    BY <1>1, <1>2 DEF Timing, TypeOK
  <1> QED
    BY <1>5, <1>6, <1>7, <1>8

\* A reset brings the kit to where it starts.
LEMMA ResetStep ==
    ASSUME Reset
    PROVE  Polled' /\ Lagging' /\ Position' /\ Timing'
  <1>1. pc' = "top" /\ stale' /\ drv'.valid = FALSE /\ timer' = NoTimer
    BY DEF Reset, Goto, NoSentence
  <1>2. Polled' /\ Lagging' /\ Position'
    BY <1>1, SetupNames DEF Polled, Lagging, Position
  <1>3. Timing'
    BY <1>1 DEF Timing, NoTimer
  <1> QED
    BY <1>2, <1>3

-----------------------------------------------------------------------------
(* The theorems                                                            *)

\* The inductive invariant: where a value was read from, and how long ago, follows from
\* where the thread of tmo_gnss.c is.
THEOREM GnssInvariance == Spec => []IInv
  <1>1. Init => IInv
    BY Starts
  <1>2. IInv /\ [Next]_vars => IInv'
    <2> SUFFICES ASSUME IInv, [Next]_vars PROVE IInv'
      OBVIOUS
    <2>1. TypeOK'
      BY TypeStep DEF IInv
    <2>2. Polled' /\ Lagging' /\ Position' /\ Timing'
      <3>1. CASE UNCHANGED vars
        BY <3>1 DEF IInv, vars, receiver, values, ghosts, Polled, Lagging, Position, Timing,
                    ReadAgo, FlagReadAgo, Quiet
      <3>2. CASE Thread
        BY <3>2, SetupStep, StoreStep, PollEndStep DEF Thread
      <3> QED
        BY <3>1, <3>2, ShellStep, ResetStep, TickStep, SentenceStep DEF Next
    <2> QED
      BY <2>1, <2>2 DEF IInv
  <1> QED
    BY <1>1, <1>2, PTL DEF Spec

\* The location read from ln_buf_gen is of the last two sentences, value by value, once
\* a poll was finished after the setup, whatever the shell does and whenever it is read.
THEOREM LocationFresh == Spec => []FreshLocation
  <1>1. IInv => FreshLocation
    <2> SUFFICES ASSUME IInv PROVE FreshLocation
      OBVIOUS
    <2> USE DEF IInv
    <2>1. \A k \in {3, 4}, v \in Nat : ReadAgo(k, v) => v \in {drv.n, Less(drv.n)}
      BY DEF ReadAgo, Less, TypeOK
    <2>2. \A k \in {3, 4}, b \in BOOLEAN : FlagReadAgo(k, b) => b \in {drv.valid, drv.before}
      BY DEF FlagReadAgo
    <2>3. SUFFICES ASSUME ~stale
                   PROVE  /\ gnss_values.lat \in {drv.n, Less(drv.n)}
                          /\ gnss_values.lon \in {drv.n, Less(drv.n)}
                          /\ gnss_values.alt \in {drv.n, Less(drv.n)}
                          /\ gnss_values.valid \in {drv.valid, drv.before}
      BY DEF FreshLocation, ln_buf_gen
    <2>4. PICK k \in {3, 4} : /\ ReadAgo(k, gnss_values.lat) /\ ReadAgo(k, gnss_values.lon)
                              /\ ReadAgo(k, gnss_values.alt)
                              /\ FlagReadAgo(k, gnss_values.valid)
      BY <2>3 DEF Lagging
    <2> QED
      BY <2>1, <2>2, <2>4 DEF TypeOK
  <1> QED
    BY <1>1, GnssInvariance, PTL

\* The time to fix of tmo_gnss.c is that of the last cold start, and of a fix after it
\* unless the receiver had one before.
THEOREM TimeToFixTrue == Spec => []TimedByColdStart
  <1>1. IInv => TimedByColdStart
    BY DEF IInv, Timing, TimedByColdStart
  <1> QED
    BY <1>1, GnssInvariance, PTL

-----------------------------------------------------------------------------
(* The receiver: a setup that is due                                       *)

\* The commands a setup has sent when it reaches each of its steps.
Sent == [version |-> {}, mode |-> {"version"}, sentence |-> {"version", "mode"},
         cold |-> {"version", "mode", "sentence"},
         wake |-> {"version", "mode", "sentence", "cold"}, end |-> Setup]

\* A command of the shell sleeps that asks for a setup at its end.
Asking == shell.cmd \in {"on", "resume"}

\* A setup that is under way is not taken for finished before its end.
UnderWay == pc \in SetupSteps => current_state = ENABLE_HARDWARE

\* The receiver has booted before the first command of a setup, and takes every one of
\* them, unless the shell switched it or asked for another setup, or it was asleep.
Accepted ==
    pc \in SetupSteps /\ chip.power # "off" /\ ~asked /\ ~deaf /\ ~Asking =>
        /\ Sent[pc] \subseteq chip.conf
        /\ chip.boot <= IF pc = "version" THEN wait ELSE 0

\* A receiver with power that is not set up has a setup before it, in gnss_thread or
\* still in the shell, apart from the exceptions of SetUpAgain.
SetUpDue ==
    up /\ chip.power # "off" /\ ~Configured =>
        \/ current_state = ENABLE_HARDWARE \/ restart_setup \/ Asking
        \/ overtaken \/ deaf

\* The power management knows of a receiver without power.
Known(c) == c.power = "off" <=> c.pm = "off"

\* The invariant of the setup.
SetupInv == UnderWay /\ Accepted /\ SetUpDue /\ Known(chip)

\* Each command adds itself to what was sent, and the last one completes the setup.
LEMMA SentFact ==
    /\ Sent["version"] = {}
    /\ \A cmd \in Setup : Sent[After[cmd]] \subseteq Sent[cmd] \cup {cmd} /\ After[cmd] # "version"
    /\ Sent["end"] = Setup
    /\ {"mode", "sentence", "cold", "wake"} \subseteq Setup
  BY SetupNames DEF Sent, After, Setup

\* Whoever leaves the thread alone keeps the invariant of the setup if it leaves the
\* receiver with what it took and as far from its boot, takes its power, or sleeps to
\* ask for a setup at its end.
LEMMA SetupUndisturbed ==
    ASSUME SetupInv, UNCHANGED <<pc, wait, current_state, asked, overtaken, deaf>>,
           restart_setup => restart_setup', up' => up, Known(chip'),
           \/ Asking'
           \/ /\ ~Asking
              /\ \/ chip'.power = "off"
                 \/ /\ chip.power # "off"
                    /\ chip'.conf = chip.conf /\ chip'.boot = chip.boot
    PROVE  SetupInv'
  <1> USE DEF SetupInv
  <1>1. UnderWay'
    BY DEF UnderWay
  <1>2. Accepted'
    BY DEF Accepted
  <1>3. SetUpDue'
    BY DEF SetUpDue, Configured
  <1> QED
    BY <1>1, <1>2, <1>3 DEF Known

\* What the power management does to the receiver: it takes its power, or leaves it with
\* what it took and as far from its boot.
KeptOrOff(c, d) ==
    /\ Known(d)
    /\ \/ d.power = "off"
       \/ c.power # "off" /\ d.conf = c.conf /\ d.boot = c.boot

LEMMA PowerKept ==
    ASSUME NEW c \in Chips, Known(c), NEW ok \in BOOLEAN
    PROVE  /\ Suspended(c, ok) \in Chips /\ KeptOrOff(c, Suspended(c, ok))
           /\ Resumed(c, ok) \in Chips /\ KeptOrOff(c, Resumed(c, ok))
           /\ TurnedOff(c, ok) \in Chips /\ KeptOrOff(c, TurnedOff(c, ok))
  <1>1. Suspended(c, ok) \in Chips /\ KeptOrOff(c, Suspended(c, ok))
    BY DEF Suspended, Chips, Known, KeptOrOff
  <1>2. Resumed(c, ok) \in Chips /\ KeptOrOff(c, Resumed(c, ok))
    BY DEF Resumed, Chips, Known, KeptOrOff
  <1>3. TurnedOff(c, ok) \in Chips /\ KeptOrOff(c, TurnedOff(c, ok))
    BY DEF TurnedOff, Chips, Known, KeptOrOff
  <1> QED
    BY <1>1, <1>2, <1>3

\* The commands of the shell: a setup under way is asked for again, and one that is over
\* is due again, when the receiver has been without power.
LEMMA ShellSetupStep ==
    ASSUME TypeOK, SetupInv, cxd5605_init \/ Shell
    PROVE  SetupInv'
  <1>1. chip \in Chips /\ Known(chip) /\ KeptOrOff(chip, chip)
    BY DEF TypeOK, Chips, SetupInv, KeptOrOff
  <1>2. CASE cxd5605_init
    BY <1>1, <1>2, SetupUndisturbed DEF cxd5605_init, Asking, KeptOrOff, receiver, values, ghosts
  <1>3. ASSUME NEW c, AtOnce(c), KeptOrOff(chip, c) PROVE SetupInv'
    <2>1. ~Asking /\ chip' = c /\ UNCHANGED <<pc, wait, current_state, asked, overtaken, deaf>>
      BY <1>3 DEF AtOnce, Command, Asking, control, ghosts
    <2>2. UNCHANGED <<restart_setup, up>>
      BY <1>3 DEF AtOnce, control
    <2> QED
      BY <1>3, <2>1, <2>2, SetupUndisturbed DEF KeptOrOff
  <1>4. ASSUME NEW ok1 \in BOOLEAN, NEW ok2 \in BOOLEAN
        PROVE  KeptOrOff(chip, TurnedOff(Suspended(chip, ok1), ok2))
    <2> DEFINE c == Suspended(chip, ok1)
               d == TurnedOff(c, ok2)
    <2>1. c \in Chips /\ KeptOrOff(chip, c)
      BY <1>1, PowerKept
    <2>2. KeptOrOff(c, d)
      BY <2>1, PowerKept DEF KeptOrOff
    <2> HIDE DEF c, d
    <2> QED
      BY <2>1, <2>2 DEF KeptOrOff, c, d
  <1>5. ASSUME NEW ok1 \in BOOLEAN, NEW ok2 \in BOOLEAN, cmd_pmoff(ok1, ok2) PROVE SetupInv'
    BY <1>3, <1>4, <1>5 DEF cmd_pmoff
  <1>6. ASSUME NEW ok1 \in BOOLEAN, NEW ok2 \in BOOLEAN, cmd_pmsysoff(ok1, ok2) PROVE SetupInv'
    <2>1. /\ ~Asking /\ KeptOrOff(chip, chip') /\ ~up'
          /\ UNCHANGED <<pc, wait, current_state, asked, overtaken, deaf, restart_setup>>
      BY <1>4, <1>6 DEF cmd_pmsysoff, Command, Asking, control, ghosts
    <2> QED
      BY <2>1, SetupUndisturbed DEF KeptOrOff
  <1>7. ASSUME NEW ok \in BOOLEAN, cmd_pmsuspend(ok) \/ cmd_pmresume(ok) PROVE SetupInv'
    BY <1>1, <1>3, <1>7, PowerKept DEF cmd_pmsuspend, cmd_pmresume
  <1>8. CASE cmd_pmlock
    <2>1. /\ ~Asking /\ chip' = chip
          /\ UNCHANGED <<pc, wait, current_state, asked, overtaken, deaf, restart_setup, up>>
      BY <1>8 DEF cmd_pmlock, Command, Asking, control, ghosts
    <2> QED
      BY <1>1, <2>1, SetupUndisturbed DEF KeptOrOff
  <1>9. ASSUME NEW cmd \in {"on", "resume"}, cmd_pmon(cmd) PROVE SetupInv'
    <2>1. /\ Asking' /\ chip' = TurnedOn(chip)
          /\ UNCHANGED <<pc, wait, current_state, asked, overtaken, deaf, restart_setup, up>>
      BY <1>9 DEF cmd_pmon, Asking, control, ghosts
    <2>2. Known(chip')
      BY <1>1, <2>1 DEF TurnedOn, Powered, Known
    <2> QED
      BY <2>1, <2>2, SetupUndisturbed
  <1> QED
    BY <1>2, <1>5, <1>6, <1>7, <1>8, <1>9 DEF Shell

\* The request of the shell falls into a setup, or is the next one.
LEMMA WakesSetupStep ==
    ASSUME TypeOK, SetupInv, Wakes
    PROVE  SetupInv'
  <1>1. PICK ok \in BOOLEAN : ShellWakes(ok)
    BY DEF Wakes
  <1>2. current_state' = ENABLE_HARDWARE /\ (pc \in SetupSteps => asked') /\ UNCHANGED pc
    BY <1>1 DEF ShellWakes, Enable
  <1>3. Known(chip')
    <2>1. chip \in Chips /\ Known(chip)
      BY DEF TypeOK, Chips, SetupInv
    <2>2. KeptOrOff(chip, Resumed(chip, ok))
      BY <2>1, PowerKept
    <2> QED
      BY <1>1, <2>1, <2>2 DEF ShellWakes, KeptOrOff
  <1> QED
    BY <1>2, <1>3 DEF SetupInv, UnderWay, Accepted, SetUpDue

\* The steps of a setup.
LEMMA ThreadSetupStep ==
    ASSUME TypeOK, SetupInv, Thread
    PROVE  SetupInv'
  <1> USE DEF SetupInv
  <1>1. CASE Top
    <2>1. UNCHANGED <<chip, up, shell>> /\ Known(chip')
      BY <1>1 DEF Top, receiver, Known
    <2>2. CASE current_state' = ENABLE_HARDWARE
      <3>1. pc' = "version" /\ wait' = BootTicks
        BY <1>1, <2>2 DEF Top, Goto
      <3>2. chip.boot <= BootTicks
        BY DEF TypeOK, BootTicks
      <3>3. Accepted'
        BY <2>1, <3>1, <3>2, SentFact DEF Accepted
      <3> QED
        BY <2>1, <2>2, <3>3 DEF UnderWay, SetUpDue
    <2>3. CASE current_state' # ENABLE_HARDWARE
      <3>1. /\ pc' = "lat" /\ ~restart_setup /\ UNCHANGED current_state
            /\ UNCHANGED <<asked, overtaken, deaf, restart_setup>>
        BY <1>1, <2>3 DEF Top, Goto, ghosts, TypeOK
      <3> QED
        BY <2>1, <3>1, SetupNames DEF UnderWay, Accepted, SetUpDue, Configured, Asking
    <2> QED
      BY <2>2, <2>3
  <1>2. ASSUME NEW cmd \in Setup, SetupCommand(cmd) PROVE SetupInv'
    <2>1. /\ pc = cmd /\ wait = 0 /\ pc' = After[cmd] /\ pc' \in SetupSteps
          /\ UNCHANGED <<up, current_state, restart_setup, shell, asked, overtaken>>
          /\ pc \in SetupSteps
      BY <1>2, SetupNames DEF SetupCommand, Runs, Goto, control
    <2>2. /\ chip'.power = chip.power /\ chip'.pm = chip.pm /\ chip'.boot = chip.boot
          /\ chip.conf \subseteq chip'.conf /\ (deaf => deaf')
          /\ Takes => cmd \in chip'.conf
      BY <1>2 DEF SetupCommand, TypeOK
    <2>3. chip.power = "asleep" => deaf'
      BY <1>2 DEF SetupCommand
    <2>4. UnderWay' /\ Known(chip')
      BY <2>1, <2>2 DEF UnderWay, Known
    <2>5. SetUpDue'
      BY <2>1 DEF UnderWay, SetUpDue
    <2>6. Accepted'
      <3> SUFFICES ASSUME chip.power # "off", ~asked, ~deaf', ~Asking
                   PROVE  Sent[pc]' \subseteq chip'.conf /\ pc' # "version" /\ chip'.boot <= 0
        BY <2>1, <2>2 DEF Accepted, Asking
      <3>1. Sent[cmd] \subseteq chip.conf /\ chip.boot <= 0
        BY <2>1, <2>2 DEF Accepted
      <3>2. Takes
        BY <2>3, <3>1 DEF Takes, TypeOK
      <3> QED
        BY <2>1, <2>2, <3>1, <3>2, SentFact
    <2> QED
      BY <2>4, <2>5, <2>6
  <1>3. CASE SetupEnd
    <2>1. /\ pc = "end" /\ pc' = "top" /\ overtaken' = asked
          /\ UNCHANGED <<chip, up, restart_setup, shell, asked, deaf>>
      BY <1>3 DEF SetupEnd, Runs, Goto, receiver
    <2>2. chip.power # "off" /\ ~asked /\ ~deaf /\ ~Asking => Configured
      BY <2>1, SetupNames, SentFact DEF Accepted, Configured
    <2> QED
      BY <2>1, <2>2, SetupNames DEF UnderWay, Accepted, SetUpDue, Configured, Asking, Known
  <1>4. CASE StoreLat \/ StoreLon \/ StoreValid \/ StoreAlt \/ PollEnd
    <2>1. /\ pc' \notin SetupSteps
          /\ UNCHANGED <<chip, up, current_state, restart_setup, shell, overtaken, deaf>>
      BY <1>4, SetupNames DEF StoreLat, StoreLon, StoreValid, StoreAlt, Store, PollEnd, Goto,
                               receiver, control, ghosts
    <2> QED
      BY <2>1 DEF UnderWay, Accepted, SetUpDue, Configured, Asking, Known
  <1> QED
    BY <1>1, <1>2, <1>3, <1>4 DEF Thread

\* Time, sentences and a reset.
LEMMA OtherSetupStep ==
    ASSUME TypeOK, SetupInv, Tick \/ Reset \/ (\E b \in BOOLEAN : Sentence(b))
    PROVE  SetupInv'
  <1> USE DEF SetupInv
  <1>1. CASE Tick
    <2>1. /\ UNCHANGED <<up, current_state, restart_setup, pc, asked, overtaken, deaf>>
          /\ shell'.cmd = shell.cmd /\ chip'.power = chip.power /\ chip'.pm = chip.pm
          /\ chip'.conf = chip.conf /\ chip'.boot = Less(chip.boot)
          /\ wait > 0 /\ wait' = wait - 1
      BY <1>1 DEF Tick, control, ghosts, TypeOK
    <2>2. wait \in Nat /\ chip.boot \in Nat
      BY DEF TypeOK
    <2>3. Accepted'
      BY <2>1, <2>2 DEF Accepted, Asking, Less
    <2> QED
      BY <2>1, <2>3 DEF UnderWay, SetUpDue, Configured, Asking, Known
  <1>2. CASE Reset
    <2>1. /\ pc' = "top" /\ current_state' = ENABLE_HARDWARE
          /\ chip'.power = "on" /\ chip'.pm = "active"
      BY <1>2 DEF Reset, Goto, Powered
    <2> QED
      BY <2>1, SetupNames DEF UnderWay, Accepted, SetUpDue, Known
  <1>3. ASSUME NEW b \in BOOLEAN, Sentence(b) PROVE SetupInv'
    <2>1. /\ UNCHANGED <<up, current_state, restart_setup, pc, wait, shell, asked, overtaken, deaf>>
          /\ chip'.power = chip.power /\ chip'.pm = chip.pm
          /\ chip'.conf = chip.conf /\ chip'.boot = chip.boot
      BY <1>3 DEF Sentence, control, ghosts, TypeOK
    <2> QED
      BY <2>1 DEF UnderWay, Accepted, SetUpDue, Configured, Asking, Known
  <1> QED
    BY <1>1, <1>2, <1>3

\* A receiver that has been without power, or that the kit has just started, never waits
\* for a setup nobody has asked for: what remains of SetUpAgain is that the thread and
\* the shell go on.
THEOREM SetupNeverForgotten == Spec => []SetUpDue
  <1>1. Init => SetupInv
    BY SetupNames DEF Init, SetupInv, UnderWay, Accepted, SetUpDue, Known, Powered
  <1>2. TypeOK /\ SetupInv /\ [Next]_vars => SetupInv'
    <2> SUFFICES ASSUME TypeOK, SetupInv, [Next]_vars PROVE SetupInv'
      OBVIOUS
    <2>1. CASE UNCHANGED vars
      BY <2>1 DEF vars, receiver, control, ghosts, SetupInv, UnderWay, Accepted, SetUpDue,
                  Configured, Asking, Known
    <2> QED
      BY <2>1, ThreadSetupStep, ShellSetupStep, WakesSetupStep, OtherSetupStep DEF Next
  <1>3. SetupInv => SetUpDue
    BY DEF SetupInv
  <1>4. IInv => TypeOK
    BY DEF IInv
  <1> QED
    BY <1>1, <1>2, <1>3, <1>4, GnssInvariance, PTL DEF Spec

-----------------------------------------------------------------------------
(* The button: the inductive invariant                                     *)

\* While the module is set up and shut down no time passes: an edge may start
\* the debounce timer, but nothing can be debounced.
Transient ==
    /\ main_pc \in {"init", "arm"} => button_state = "deinit"
    /\ main_pc \in {"timers", "ready"} => armed
    /\ main_pc = "stop" => ~armed
    /\ main_pc \in {"timers", "ready", "deinit", "disarm", "stop"} =>
           ~pressed /\ timeout_timer = Off /\ debounce_timer # 0

\* A module that says it is not initialized is on its way up, or was shut down.
Deinitialized ==
    button_state = "deinit" =>
        /\ main_pc \in {"init", "arm", "timers", "ready", "reinit"}
        /\ ~pressed /\ timeout_timer = Off
        /\ main_pc \notin {"timers", "ready"} => ~armed /\ debounce_timer = Off

\* main finds the state "init" only after a release that no edge has followed,
\* unless it is the state of a module just set up.
Initialized ==
    button_state = "init" =>
        ~pressed /\ (debounce_timer # Off => main_pc \in {"sleep", "end"})

\* Only an edge that interrupts starts the debounce timer, and only the
\* debounce handler the other one: for a press not yet reported, so that it
\* expires when the press has lasted as long as the configuration says.
TimersRun ==
    /\ debounce_timer # Off => armed \/ main_pc = "stop"
    /\ timeout_timer # Off =>
           /\ pressed /\ report = NoReport
           /\ registered_callback => since + timeout_timer = max_button_press_timeout

\* A press that was reported and goes on has lasted that long.
Overdue ==
    registered_callback /\ pressed /\ report # NoReport =>
        since >= max_button_press_timeout

\* As long as every event was a change of the pin, the module has a press in
\* progress when the button was down at the last one.
InPhase ==
    ~glitch /\ armed /\ registered_callback => (pressed <=> level = "down")

\* A press was not reported twice, a normal one when the button was up.
Reports ==
    /\ ~again
    /\ report.type = "normal" /\ ~glitch => report.pin = "up"

\* The inductive invariant.
ButtonIInv ==
    /\ ButtonTypeOK /\ Transient /\ Deinitialized /\ Initialized /\ TimersRun
    /\ Overdue /\ InPhase /\ Reports

Flags == /\ armed \in BOOLEAN /\ pressed \in BOOLEAN /\ registered_callback \in BOOLEAN
         /\ glitch \in BOOLEAN /\ again \in BOOLEAN

Times ==
    /\ since \in 0 .. TimeCap
    /\ max_button_press_timeout \in 0 .. FACTORY_RESET_TIMEOUT
    /\ debounce_timer \in Off .. DEBOUNCE
    /\ timeout_timer \in Off .. FACTORY_RESET_TIMEOUT
    /\ timeout \in {FACTORY_RESET_TIMEOUT, FACTORY_RESET_TIMEOUT \div 2}

Labels ==
    /\ pin \in {"up", "down"} /\ level \in {"up", "down"}
    /\ button_state \in States
    /\ main_pc \in {"init", "arm", "timers", "ready", "sleep", "woken", "poll", "check",
                    "deinit", "disarm", "stop", "reinit", "end"}
    /\ report \in [type : {"none", "normal", "timeout"}, pin : {"up", "down"}]

LEMMA TypeParts == /\ ButtonTypeOK <=> Flags /\ Times /\ Labels
                   /\ ButtonTypeOK' <=> Flags' /\ Times' /\ Labels'
  BY DEF ButtonTypeOK, Flags, Times, Labels

\* The time-outs of both configurations.
LEMMA TimeoutFact ==
  /\ FACTORY_RESET_TIMEOUT \in Nat /\ FACTORY_RESET_TIMEOUT >= 2
  /\ FACTORY_RESET_TIMEOUT \div 2 \in 0 .. FACTORY_RESET_TIMEOUT
  /\ DEBOUNCE \in Nat /\ DEBOUNCE > 0
  /\ TimeCap \in Nat /\ TimeCap > FACTORY_RESET_TIMEOUT
  <1>1. \A n \in Nat : n \div 2 \in 0 .. n
    OBVIOUS
  <1>2. QED
    BY <1>1, ConstAssumption

LEMMA AfterInitFact == AfterInit \in {"sleep", "end"}
  BY DEF AfterInit

LEMMA InitInv == ButtonInit => ButtonIInv
  <1> SUFFICES ASSUME ButtonInit PROVE ButtonIInv
    OBVIOUS
  <1> USE DEF ButtonInit, Off
  <1>1. /\ armed = FALSE /\ pressed = FALSE /\ registered_callback = FALSE
        /\ glitch = FALSE /\ again = FALSE
    OBVIOUS
  <1>2. Flags
    BY <1>1 DEF Flags
  <1>3. Times
    BY TimeoutFact DEF Times
  <1>4. Labels
    BY DEF Labels, States, NoReport
  <1>5. ~armed /\ ~pressed /\ ~registered_callback /\ ~again
    BY <1>1
  <1>6. QED
    BY <1>2, <1>3, <1>4, <1>5, TypeParts
       DEF ButtonIInv, Transient, Deinitialized, Initialized, TimersRun, Overdue, InPhase, Reports,
           NoReport

-----------------------------------------------------------------------------
(* The interrupts                                                          *)

LEMMA EdgeStep == ASSUME ButtonIInv, Edge PROVE ButtonIInv'
  <1> USE DEF press, config, observed
  <1>1. Flags /\ Times /\ Labels
    BY TypeParts DEF ButtonIInv
  <1>2. ButtonTypeOK'
    <2>1. Flags'
      BY <1>1 DEF Edge, Flags
    <2>2. Times'
      BY <1>1, TimeoutFact DEF Edge, Times, Off
    <2>3. Labels'
      BY <1>1 DEF Edge, Labels, States
    <2>4. QED
      BY <2>1, <2>2, <2>3, TypeParts
  <1>3. /\ UNCHANGED <<armed, pressed, since, max_button_press_timeout, registered_callback,
                       timeout_timer, main_pc, timeout, level, glitch, report, again>>
        /\ \/ armed /\ debounce_timer' = DEBOUNCE /\ button_state' = "debouncing"
           \/ ~armed /\ UNCHANGED <<debounce_timer, button_state>>
    BY DEF Edge
  <1>4. DEBOUNCE # 0
    BY TimeoutFact
  <1>5. Transient' /\ Deinitialized' /\ Initialized'
    BY <1>3, <1>4 DEF ButtonIInv, Transient, Deinitialized, Initialized
  <1>6. TimersRun'
    BY <1>3 DEF ButtonIInv, TimersRun
  <1>7. Overdue' /\ InPhase' /\ Reports'
    BY <1>3 DEF ButtonIInv, Overdue, InPhase, Reports
  <1>8. QED
    BY <1>2, <1>5, <1>6, <1>7 DEF ButtonIInv

\* The time-out expires: the press was not reported before, and has lasted as
\* long as the configuration says.
LEMMA TimeoutStep == ASSUME ButtonIInv, button_timeout_handler PROVE ButtonIInv'
  <1> USE DEF press, config
  <1>1. Flags /\ Times /\ Labels
    BY TypeParts DEF ButtonIInv
  <1>2. /\ timeout_timer = 0 /\ timeout_timer' = Off /\ button_state' = "timeout"
        /\ UNCHANGED <<pin, armed, pressed, since, max_button_press_timeout,
                       registered_callback, debounce_timer, timeout, level, glitch>>
    BY DEF button_timeout_handler
  <1>3. \/ /\ registered_callback
           /\ report' = [type |-> "timeout", pin |-> pin]
           /\ again' = (again \/ report # NoReport)
           /\ main_pc' = IF main_pc = "sleep" THEN "woken" ELSE main_pc
        \/ ~registered_callback /\ UNCHANGED <<report, again, main_pc>>
    BY DEF button_timeout_handler, Report, Wakeup, NothingReported
  <1>4. /\ pressed /\ report = NoReport
        /\ registered_callback => since = max_button_press_timeout
    BY <1>1, <1>2 DEF ButtonIInv, TimersRun, Off, Times
  <1>5. main_pc \notin {"init", "arm", "timers", "ready", "deinit", "disarm", "stop"}
    BY <1>2, <1>4 DEF ButtonIInv, Transient, Deinitialized, Off
  <1>6. ButtonTypeOK'
    <2>1. again' \in BOOLEAN
      BY <1>1, <1>3 DEF Flags
    <2>2. Flags'
      BY <1>1, <1>2, <2>1 DEF Flags
    <2>3. Times'
      BY <1>1, <1>2, TimeoutFact DEF Times, Off
    <2>4. Labels'
      BY <1>1, <1>2, <1>3 DEF Labels, States
    <2>5. QED
      BY <2>2, <2>3, <2>4, TypeParts
  <1>7. main_pc' \notin {"init", "arm", "timers", "ready", "deinit", "disarm", "stop"}
    BY <1>3, <1>5
  <1>8. Transient' /\ Deinitialized' /\ Initialized'
    BY <1>2, <1>7 DEF Transient, Deinitialized, Initialized
  <1>9. TimersRun'
    BY <1>2, <1>3, <1>5 DEF ButtonIInv, TimersRun, Off
  <1>10. Overdue'
    BY <1>1, <1>2, <1>3, <1>4 DEF ButtonIInv, Overdue, Times
  <1>11. InPhase'
    BY <1>2 DEF ButtonIInv, InPhase
  <1>12. Reports'
    <2>1. ~again'
      BY <1>1, <1>3, <1>4 DEF ButtonIInv, Reports, Flags
    <2>2. report'.type = "normal" /\ ~glitch' => report'.pin = "up"
      BY <1>2, <1>3 DEF ButtonIInv, Reports
    <2>3. QED
      BY <2>1, <2>2 DEF Reports
  <1>13. QED
    BY <1>6, <1>8, <1>9, <1>10, <1>11, <1>12 DEF ButtonIInv

\* An event is debounced only while the main thread sleeps, polls, is done or
\* is on its way from one to the other.
LEMMA DebounceFact ==
  ASSUME ButtonIInv, debounce_timer = 0
  PROVE  /\ main_pc \notin {"init", "arm", "timers", "ready", "deinit", "disarm", "stop"}
         /\ button_state # "deinit" /\ armed
  <1>1. main_pc \notin {"timers", "ready", "deinit", "disarm", "stop"}
    BY DEF ButtonIInv, Transient
  <1>2. button_state # "deinit"
    BY <1>1 DEF ButtonIInv, Deinitialized, Off
  <1>3. QED
    BY <1>1, <1>2 DEF ButtonIInv, Transient, TimersRun, Off

LEMMA DebounceStep == ASSUME ButtonIInv, button_debounce_timer_handler PROVE ButtonIInv'
  <1> USE DEF config
  <1>1. Flags /\ Times /\ Labels
    BY TypeParts DEF ButtonIInv
  <1>2. /\ debounce_timer = 0 /\ debounce_timer' = Off
        /\ level' = pin /\ glitch' = (glitch \/ pin = level)
        /\ UNCHANGED <<pin, armed, max_button_press_timeout, registered_callback, timeout>>
    BY DEF button_debounce_timer_handler
  <1>3. /\ main_pc \notin {"init", "arm", "timers", "ready", "deinit", "disarm", "stop"}
        /\ button_state # "deinit" /\ armed
    BY <1>2, DebounceFact
  <1>4. CASE ~pressed /\ PressDetected
    <2>1. /\ pressed' = TRUE /\ since' = 0 /\ timeout_timer' = max_button_press_timeout
          /\ button_state' = "debounced" /\ report' = NoReport /\ again' = FALSE
          /\ main_pc' = main_pc
      BY <1>4 DEF PressDetected, StartTimeout
    <2>2. /\ pressed' \in BOOLEAN /\ pressed'
          /\ again' \in BOOLEAN /\ ~again'
      BY <2>1
    <2>3. ButtonTypeOK'
      <3>1. glitch' \in BOOLEAN
        BY <1>2
      <3>2. Flags'
        BY <1>1, <1>2, <2>2, <3>1 DEF Flags
      <3>3. Times'
        BY <1>1, <1>2, <2>1, TimeoutFact DEF Times, Off
      <3>4. Labels'
        BY <1>1, <1>2, <2>1 DEF Labels, States, NoReport
      <3>5. QED
        BY <3>2, <3>3, <3>4, TypeParts
    <2>4. Transient' /\ Deinitialized' /\ Initialized'
      BY <1>3, <2>1 DEF Transient, Deinitialized, Initialized
    <2>5. TimersRun'
      <3>1. since' + timeout_timer' = max_button_press_timeout'
        BY <1>1, <1>2, <2>1 DEF Times
      <3>2. QED
        BY <1>2, <2>1, <2>2, <3>1 DEF TimersRun
    <2>6. Overdue'
      BY <2>1 DEF Overdue
    <2>7. InPhase'
      <3>1. ASSUME ~glitch', registered_callback PROVE level' = "down"
        <4>1. ~glitch /\ pin # level
          BY <1>2, <3>1
        <4>2. level # "down"
          BY <1>3, <1>4, <3>1, <4>1 DEF ButtonIInv, InPhase
        <4>3. QED
          BY <1>1, <1>2, <4>1, <4>2 DEF Labels
      <3>2. QED
        BY <1>2, <2>2, <3>1 DEF InPhase
    <2>8. Reports'
      BY <2>1, <2>2 DEF Reports, NoReport
    <2>9. QED
      BY <2>3, <2>4, <2>5, <2>6, <2>7, <2>8 DEF ButtonIInv
  <1>5. CASE pressed /\ registered_callback /\ ReleaseDetected
    <2>1. /\ timeout_timer' = Off /\ pressed' = FALSE /\ button_state' = "init"
          /\ since' = since
          /\ \/ /\ since < max_button_press_timeout
                /\ report' = [type |-> "normal", pin |-> pin]
                /\ again' = (again \/ report # NoReport)
                /\ main_pc' = IF main_pc = "sleep" THEN "woken" ELSE main_pc
             \/ UNCHANGED <<report, again, main_pc>>
      BY <1>5 DEF ReleaseDetected, IsNormal, Report, Wakeup, NothingReported
    <2>2. pressed' \in BOOLEAN /\ ~pressed'
      BY <2>1
    <2>3. since < max_button_press_timeout => report = NoReport
      BY <1>1, <1>5 DEF ButtonIInv, Overdue, Times
    <2>4. ButtonTypeOK'
      <3>1. glitch' \in BOOLEAN
        BY <1>2
      <3>2. again' \in BOOLEAN
        BY <1>1, <2>1 DEF Flags
      <3>3. Flags'
        BY <1>1, <1>2, <2>2, <3>1, <3>2 DEF Flags
      <3>4. Times'
        BY <1>1, <1>2, <2>1, TimeoutFact DEF Times, Off
      <3>5. Labels'
        BY <1>1, <1>2, <2>1 DEF Labels, States
      <3>6. QED
        BY <3>3, <3>4, <3>5, TypeParts
    <2>5. main_pc' \notin {"init", "arm", "timers", "ready", "deinit", "disarm", "stop"}
      BY <1>3, <2>1
    <2>6. Transient' /\ Deinitialized' /\ Initialized'
      BY <1>2, <2>1, <2>2, <2>5 DEF Transient, Deinitialized, Initialized
    <2>7. TimersRun' /\ Overdue'
      BY <1>2, <2>1, <2>2 DEF TimersRun, Overdue
    <2>8. ASSUME ~glitch' PROVE level' = "up" /\ pin = "up" /\ ~glitch
      <3>1. ~glitch /\ pin # level
        BY <1>2, <2>8
      <3>2. level = "down"
        BY <1>3, <1>5, <3>1 DEF ButtonIInv, InPhase
      <3>3. QED
        BY <1>1, <1>2, <3>1, <3>2 DEF Labels
    <2>9. InPhase'
      BY <2>2, <2>8 DEF InPhase
    <2>10. Reports'
      <3>1. ~again'
        BY <1>1, <2>1, <2>3 DEF ButtonIInv, Reports, Flags
      <3>2. ~glitch' => ~glitch
        BY <2>8
      <3>3. report'.type = "normal" /\ ~glitch' => report'.pin = "up"
        BY <2>1, <2>8, <3>2 DEF ButtonIInv, Reports
      <3>4. QED
        BY <3>1, <3>3 DEF Reports
    <2>11. QED
      BY <2>4, <2>6, <2>7, <2>9, <2>10 DEF ButtonIInv
  <1>6. CASE pressed /\ ~registered_callback /\ EventIgnored("debounced")
    <2>1. /\ timeout_timer' = Off /\ button_state' = "debounced"
          /\ UNCHANGED <<pressed, since, report, again, main_pc>>
      BY <1>6 DEF EventIgnored, press, NothingReported
    <2>2. ButtonTypeOK'
      <3>1. glitch' \in BOOLEAN
        BY <1>2
      <3>2. Flags'
        BY <1>1, <1>2, <2>1, <3>1 DEF Flags
      <3>3. Times'
        BY <1>1, <1>2, <2>1, TimeoutFact DEF Times, Off
      <3>4. Labels'
        BY <1>1, <1>2, <2>1 DEF Labels, States
      <3>5. QED
        BY <3>2, <3>3, <3>4, TypeParts
    <2>3. Transient' /\ Deinitialized' /\ Initialized'
      BY <1>3, <2>1 DEF Transient, Deinitialized, Initialized
    <2>4. TimersRun' /\ Overdue' /\ InPhase'
      BY <1>2, <1>6, <2>1 DEF TimersRun, Overdue, InPhase
    <2>5. Reports'
      BY <1>2, <2>1 DEF ButtonIInv, Reports
    <2>6. QED
      BY <2>2, <2>3, <2>4, <2>5 DEF ButtonIInv
  <1>7. QED
    BY <1>3, <1>4, <1>5, <1>6 DEF button_debounce_timer_handler

\* Time passes for the press and for its timer alike.
LEMMA UnitPassesStep == ASSUME ButtonIInv, UnitPasses PROVE ButtonIInv'
  <1> USE DEF config, observed
  <1>1. Flags /\ Times /\ Labels
    BY TypeParts DEF ButtonIInv
  <1>2. /\ main_pc \in {"sleep", "poll", "end"} /\ debounce_timer # 0 /\ timeout_timer # 0
        /\ debounce_timer' = Left(debounce_timer) /\ timeout_timer' = Left(timeout_timer)
        /\ since' = IF pressed /\ since < TimeCap THEN since + 1 ELSE since
        /\ UNCHANGED <<pin, armed, button_state, pressed, max_button_press_timeout,
                       registered_callback, main_pc, timeout, level, glitch, report, again>>
    BY DEF UnitPasses
  <1>3. /\ debounce_timer' \in Off .. DEBOUNCE
        /\ debounce_timer' # Off => debounce_timer # Off
        /\ debounce_timer = Off => debounce_timer' = Off
        /\ timeout_timer' \in Off .. FACTORY_RESET_TIMEOUT
        /\ timeout_timer' # Off =>
               timeout_timer # Off /\ timeout_timer' = timeout_timer - 1
        /\ timeout_timer = Off => timeout_timer' = Off
    BY <1>1, <1>2, TimeoutFact DEF Times, Left, Off
  <1>4. /\ since' \in 0 .. TimeCap /\ since' >= since
        /\ pressed /\ since < TimeCap => since' = since + 1
    BY <1>1, <1>2, TimeoutFact DEF Times
  <1>5. ButtonTypeOK'
    <2>1. Flags' /\ Labels'
      BY <1>1, <1>2 DEF Flags, Labels
    <2>2. Times'
      BY <1>1, <1>2, <1>3, <1>4 DEF Times
    <2>3. QED
      BY <2>1, <2>2, TypeParts
  <1>6. Transient' /\ Deinitialized' /\ Initialized'
    BY <1>2, <1>3 DEF ButtonIInv, Transient, Deinitialized, Initialized
  <1>7. TimersRun'
    <2>1. timeout_timer' # Off /\ registered_callback =>
              since' + timeout_timer' = max_button_press_timeout
      BY <1>1, <1>2, <1>3, <1>4, TimeoutFact DEF ButtonIInv, TimersRun, Times, Off
    <2>2. QED
      BY <1>2, <1>3, <2>1 DEF ButtonIInv, TimersRun
  <1>8. Overdue'
    BY <1>1, <1>2, <1>4, TimeoutFact DEF ButtonIInv, Overdue, Times
  <1>9. InPhase' /\ Reports'
    BY <1>2 DEF ButtonIInv, InPhase, Reports
  <1>10. QED
    BY <1>5, <1>6, <1>7, <1>8, <1>9 DEF ButtonIInv

-----------------------------------------------------------------------------
(* The main thread                                                         *)

\* Steps of the main thread that touch neither timers nor flags.
LEMMA QuietStep ==
  ASSUME ButtonIInv, Woken \/ Reinit
  PROVE  ButtonIInv'
  <1> USE DEF press, config, timers, observed
  <1>1. Flags /\ Times /\ Labels
    BY TypeParts DEF ButtonIInv
  <1>2. /\ UNCHANGED <<pin, armed, button_state, pressed, since, max_button_press_timeout,
                       registered_callback, debounce_timer, timeout_timer, level, glitch,
                       report, again>>
        /\ timeout' = timeout \/ timeout' = FACTORY_RESET_TIMEOUT \div 2
    BY DEF Woken, Reinit
  <1>3. \/ main_pc \in {"woken", "poll"} /\ main_pc' \in {"poll", "check"}
        \/ main_pc = "check" /\ button_state = "init" /\ main_pc' = "deinit"
        \/ main_pc = "check" /\ button_state # "init" /\ main_pc' = "reinit"
        \/ main_pc = "reinit" /\ button_state = "deinit" /\ main_pc' = "init"
        \/ main_pc = "reinit" /\ button_state # "deinit" /\ main_pc' = "end"
    BY DEF Woken, Reinit
  <1>4. ButtonTypeOK'
    <2>1. Flags' /\ Times' /\ Labels'
      BY <1>1, <1>2, <1>3 DEF Flags, Times, Labels
    <2>2. QED
      BY <2>1, TypeParts
  <1>5. Deinitialized' /\ Initialized'
    BY <1>2, <1>3 DEF ButtonIInv, Deinitialized, Initialized
  <1>6. Transient'
    <2>1. button_state = "init" /\ main_pc = "check" =>
              ~pressed /\ timeout_timer = Off /\ debounce_timer = Off
      BY DEF ButtonIInv, Initialized, TimersRun
    <2>2. QED
      BY <1>2, <1>3, <2>1 DEF ButtonIInv, Transient, Deinitialized, Off
  <1>7. TimersRun'
    BY <1>2, <1>3 DEF ButtonIInv, TimersRun
  <1>8. Overdue' /\ InPhase' /\ Reports'
    BY <1>2 DEF ButtonIInv, Overdue, InPhase, Reports
  <1>9. QED
    BY <1>4, <1>5, <1>6, <1>7, <1>8 DEF ButtonIInv

\* Setting the module up.
LEMMA SetUpStep ==
  ASSUME ButtonIInv, InitConfig \/ InitArm \/ InitTimers \/ InitDone
  PROVE  ButtonIInv'
  <1> USE DEF press, config, timers, observed
  <1>1. Flags /\ Times /\ Labels
    BY TypeParts DEF ButtonIInv
  <1>2. CASE InitConfig
    <2>1. /\ main_pc = "init" /\ button_state = "deinit"
          /\ ~pressed /\ timeout_timer = Off /\ debounce_timer = Off /\ ~armed
      BY <1>2 DEF ButtonIInv, Transient, Deinitialized, InitConfig
    <2>2. /\ max_button_press_timeout' = timeout /\ registered_callback' = TRUE
          /\ main_pc' = "arm"
          /\ UNCHANGED <<pin, armed, button_state, pressed, since, debounce_timer,
                         timeout_timer, timeout, level, glitch, report, again>>
      BY <1>2, <2>1 DEF InitConfig
    <2>3. registered_callback' \in BOOLEAN
      BY <2>2
    <2>4. ButtonTypeOK'
      <3>1. Flags' /\ Labels'
        BY <1>1, <2>2, <2>3 DEF Flags, Labels
      <3>2. Times'
        BY <1>1, <2>2, TimeoutFact DEF Times
      <3>3. QED
        BY <3>1, <3>2, TypeParts
    <2>5. /\ Transient' /\ Deinitialized' /\ Initialized' /\ TimersRun' /\ Overdue'
          /\ InPhase' /\ Reports'
      BY <2>1, <2>2 DEF ButtonIInv, Transient, Deinitialized, Initialized, TimersRun, Overdue,
         InPhase, Reports
    <2>6. QED
      BY <2>4, <2>5 DEF ButtonIInv
  <1>3. CASE InitArm
    <2>1. /\ main_pc = "arm" /\ button_state = "deinit"
          /\ ~pressed /\ timeout_timer = Off /\ debounce_timer = Off
      BY <1>3 DEF ButtonIInv, Transient, Deinitialized, InitArm
    <2>2. /\ armed' = TRUE /\ level' = pin /\ glitch' = (glitch \/ pin = "down")
          /\ main_pc' = "timers"
          /\ UNCHANGED <<pin, button_state, pressed, since, max_button_press_timeout,
                         registered_callback, debounce_timer, timeout_timer, timeout,
                         report, again>>
      BY <1>3 DEF InitArm
    <2>3. /\ armed' \in BOOLEAN /\ armed'
          /\ glitch' \in BOOLEAN
      BY <2>2
    <2>4. ButtonTypeOK'
      <3>1. Flags' /\ Labels'
        BY <1>1, <2>2, <2>3 DEF Flags, Labels
      <3>2. Times'
        BY <1>1, <2>2 DEF Times
      <3>3. QED
        BY <3>1, <3>2, TypeParts
    <2>5. Transient' /\ Deinitialized' /\ Initialized' /\ TimersRun' /\ Overdue'
      BY <2>1, <2>2, <2>3 DEF ButtonIInv, Transient, Deinitialized, Initialized, TimersRun,
         Overdue, Off
    <2>6. ~glitch' => ~glitch /\ pin # "down"
      BY <2>2
    <2>7. InPhase'
      BY <2>1, <2>2, <2>6 DEF InPhase
    <2>8. Reports'
      BY <2>2, <2>6 DEF ButtonIInv, Reports
    <2>9. QED
      BY <2>4, <2>5, <2>7, <2>8 DEF ButtonIInv
  <1>4. CASE InitTimers
    <2>1. /\ main_pc = "timers" /\ main_pc' = "ready" /\ armed
          /\ ~pressed /\ timeout_timer = Off /\ debounce_timer # 0
      BY <1>4 DEF ButtonIInv, Transient, InitTimers
    <2>2. /\ debounce_timer' \in {debounce_timer, Off} /\ timeout_timer' = Off
          /\ UNCHANGED <<pin, armed, button_state, pressed, since,
                         max_button_press_timeout, registered_callback, timeout, level,
                         glitch, report, again>>
      BY <1>4, <2>1 DEF InitTimers
    <2>3. ButtonTypeOK'
      <3>1. Flags' /\ Labels'
        BY <1>1, <2>1, <2>2 DEF Flags, Labels
      <3>2. Times'
        BY <1>1, <2>2, TimeoutFact DEF Times, Off
      <3>3. QED
        BY <3>1, <3>2, TypeParts
    <2>4. Transient' /\ Deinitialized'
      BY <2>1, <2>2 DEF Transient, Deinitialized, Off
    <2>5. Initialized' /\ TimersRun' /\ Overdue' /\ InPhase' /\ Reports'
      BY <2>1, <2>2 DEF ButtonIInv, Initialized, TimersRun, Overdue, InPhase, Reports
    <2>6. QED
      BY <2>3, <2>4, <2>5 DEF ButtonIInv
  <1>5. CASE InitDone
    <2>1. /\ main_pc = "ready" /\ main_pc' \in {"sleep", "end"} /\ armed /\ ~pressed
          /\ button_state' = "init"
          /\ UNCHANGED <<pin, armed, pressed, since, max_button_press_timeout,
                         registered_callback, debounce_timer, timeout_timer, timeout, level,
                         glitch, report, again>>
      BY <1>5, AfterInitFact DEF ButtonIInv, Transient, InitDone
    <2>2. ButtonTypeOK'
      <3>1. Flags' /\ Times' /\ Labels'
        BY <1>1, <2>1 DEF Flags, Times, Labels, States
      <3>2. QED
        BY <3>1, TypeParts
    <2>3. Transient' /\ Deinitialized' /\ Initialized'
      BY <2>1 DEF Transient, Deinitialized, Initialized
    <2>4. TimersRun' /\ Overdue' /\ InPhase' /\ Reports'
      BY <2>1 DEF ButtonIInv, TimersRun, Overdue, InPhase, Reports
    <2>5. QED
      BY <2>2, <2>3, <2>4 DEF ButtonIInv
  <1>6. QED
    BY <1>2, <1>3, <1>4, <1>5

\* Shutting the module down, and the failures of both.
LEMMA ShutDownStep ==
  ASSUME ButtonIInv, ConfigureFails \/ Deinit \/ Disarm \/ DeinitDone
  PROVE  ButtonIInv'
  <1> USE DEF press, config, timers, observed
  <1>1. Flags /\ Times /\ Labels
    BY TypeParts DEF ButtonIInv
  <1>2. CASE ConfigureFails
    <2>1. /\ \/ main_pc = "arm" /\ main_pc' \in {"sleep", "end"}
             \/ main_pc = "disarm" /\ main_pc' = "reinit"
          /\ button_state' = "error"
          /\ UNCHANGED <<pin, armed, pressed, since, max_button_press_timeout,
                         registered_callback, debounce_timer, timeout_timer, timeout, level,
                         glitch, report, again>>
      BY <1>2, AfterInitFact DEF ConfigureFails
    <2>2. ButtonTypeOK'
      <3>1. Flags' /\ Times' /\ Labels'
        BY <1>1, <2>1 DEF Flags, Times, Labels, States
      <3>2. QED
        BY <3>1, TypeParts
    <2>3. Transient' /\ Deinitialized' /\ Initialized'
      BY <2>1 DEF Transient, Deinitialized, Initialized
    <2>4. TimersRun' /\ Overdue' /\ InPhase' /\ Reports'
      BY <2>1 DEF ButtonIInv, TimersRun, Overdue, InPhase, Reports
    <2>5. QED
      BY <2>2, <2>3, <2>4 DEF ButtonIInv
  <1>3. CASE Deinit
    <2>1. /\ main_pc = "deinit" /\ button_state # "deinit"
          /\ ~pressed /\ timeout_timer = Off /\ debounce_timer # 0
      BY <1>3 DEF ButtonIInv, Transient, Deinitialized, Deinit
    <2>2. /\ max_button_press_timeout' = 0 /\ registered_callback' = FALSE
          /\ main_pc' = "disarm"
          /\ UNCHANGED <<pin, armed, button_state, pressed, since, debounce_timer,
                         timeout_timer, timeout, level, glitch, report, again>>
      BY <1>3, <2>1 DEF Deinit
    <2>3. registered_callback' \in BOOLEAN /\ ~registered_callback'
      BY <2>2
    <2>4. ButtonTypeOK'
      <3>1. Flags' /\ Labels'
        BY <1>1, <2>2, <2>3 DEF Flags, Labels
      <3>2. Times'
        BY <1>1, <2>2, TimeoutFact DEF Times
      <3>3. QED
        BY <3>1, <3>2, TypeParts
    <2>5. Initialized'
      BY <2>1, <2>2 DEF ButtonIInv, Initialized
    <2>6. /\ Transient' /\ Deinitialized' /\ TimersRun' /\ Overdue'
          /\ InPhase' /\ Reports'
      BY <2>1, <2>2, <2>3 DEF ButtonIInv, Transient, Deinitialized, TimersRun, Overdue,
         InPhase, Reports
    <2>7. QED
      BY <2>4, <2>5, <2>6 DEF ButtonIInv
  <1>4. CASE Disarm
    <2>1. /\ main_pc = "disarm" /\ main_pc' = "stop" /\ armed' = FALSE
          /\ ~pressed /\ timeout_timer = Off /\ debounce_timer # 0
          /\ UNCHANGED <<pin, button_state, pressed, since, max_button_press_timeout,
                         registered_callback, debounce_timer, timeout_timer, timeout, level,
                         glitch, report, again>>
      BY <1>4 DEF ButtonIInv, Transient, Disarm
    <2>2. armed' \in BOOLEAN /\ ~armed'
      BY <2>1
    <2>3. ButtonTypeOK'
      <3>1. Flags' /\ Times' /\ Labels'
        BY <1>1, <2>1, <2>2 DEF Flags, Times, Labels
      <3>2. QED
        BY <3>1, TypeParts
    <2>4. Transient' /\ Deinitialized' /\ Initialized'
      BY <2>1 DEF ButtonIInv, Transient, Deinitialized, Initialized
    <2>5. TimersRun' /\ Overdue' /\ InPhase' /\ Reports'
      BY <2>1, <2>2 DEF ButtonIInv, TimersRun, Overdue, InPhase, Reports
    <2>6. QED
      BY <2>3, <2>4, <2>5 DEF ButtonIInv
  <1>5. CASE DeinitDone
    <2>1. /\ main_pc = "stop" /\ main_pc' = "reinit" /\ button_state' = "deinit"
          /\ ~pressed /\ timeout_timer' = Off /\ debounce_timer' = Off
          /\ UNCHANGED <<pin, armed, pressed, since, max_button_press_timeout,
                         registered_callback, timeout, level, glitch, report, again>>
      BY <1>5 DEF ButtonIInv, Transient, DeinitDone, StopTimers
    <2>2. ~armed
      BY <2>1 DEF ButtonIInv, Transient
    <2>3. ButtonTypeOK'
      <3>1. Flags' /\ Labels'
        BY <1>1, <2>1 DEF Flags, Labels, States
      <3>2. Times'
        BY <1>1, <2>1, TimeoutFact DEF Times, Off
      <3>3. QED
        BY <3>1, <3>2, TypeParts
    <2>4. Transient' /\ Deinitialized' /\ Initialized'
      BY <2>1, <2>2 DEF Transient, Deinitialized, Initialized
    <2>5. TimersRun' /\ Overdue' /\ InPhase' /\ Reports'
      BY <2>1 DEF ButtonIInv, TimersRun, Overdue, InPhase, Reports
    <2>6. QED
      BY <2>3, <2>4, <2>5 DEF ButtonIInv
  <1>6. QED
    BY <1>2, <1>3, <1>4, <1>5

-----------------------------------------------------------------------------
(* The theorems                                                            *)

LEMMA StutterStep == ASSUME ButtonIInv, UNCHANGED buttonVars PROVE ButtonIInv'
  <1> USE DEF press, config, timers, observed
  <1>1. UNCHANGED <<pin, armed, button_state, pressed, since, max_button_press_timeout,
                    registered_callback, debounce_timer, timeout_timer, main_pc, timeout,
                    level, glitch, report, again>>
    BY DEF buttonVars
  <1>2. ButtonTypeOK'
    <2>1. Flags' /\ Times' /\ Labels'
      BY <1>1, TypeParts DEF ButtonIInv, Flags, Times, Labels
    <2>2. QED
      BY <2>1, TypeParts
  <1>3. Transient' /\ Deinitialized' /\ Initialized' /\ TimersRun'
    BY <1>1 DEF ButtonIInv, Transient, Deinitialized, Initialized, TimersRun
  <1>4. Overdue' /\ InPhase' /\ Reports'
    BY <1>1 DEF ButtonIInv, Overdue, InPhase, Reports
  <1>5. QED
    BY <1>2, <1>3, <1>4 DEF ButtonIInv

\* The inductive invariant holds in every run, however the pin, the timers and main
\* interleave.
THEOREM ButtonInvariant == ButtonSpec => []ButtonIInv
  <1>1. ASSUME ButtonIInv, [ButtonNext]_buttonVars
        PROVE  ButtonIInv'
    <2>1. CASE Edge
      BY <1>1, <2>1, EdgeStep
    <2>2. CASE Timers
      BY <1>1, <2>2, TimeoutStep, DebounceStep DEF Timers
    <2>3. CASE UnitPasses
      BY <1>1, <2>3, UnitPassesStep
    <2>4. CASE Main
      BY <1>1, <2>4, SetUpStep, ShutDownStep, QuietStep DEF Main
    <2>5. CASE UNCHANGED buttonVars
      BY <1>1, <2>5, StutterStep
    <2>6. QED
      BY <1>1, <2>1, <2>2, <2>3, <2>4, <2>5 DEF ButtonNext
  <1>2. QED
    BY InitInv, <1>1, PTL DEF ButtonSpec

\* No press is reported by both handlers, and a normal one is reported when the
\* button has been released.
THEOREM ReportedOnce == ButtonSpec => []OneReport
  <1>1. ButtonIInv => OneReport
    BY DEF ButtonIInv, Reports, OneReport
  <1>2. QED
    BY <1>1, ButtonInvariant, PTL

\* A module that says it is not initialized has neither an interrupt nor a timer that
\* could run one of its handlers.
THEOREM ShutDownIsQuiet == ButtonSpec => []DeinitIsQuiet
  <1>1. ButtonIInv => DeinitIsQuiet
    BY DEF ButtonIInv, Deinitialized, DeinitIsQuiet
  <1>2. QED
    BY <1>1, ButtonInvariant, PTL

-----------------------------------------------------------------------------
(* The button: a press in progress                                         *)

\* A press of which nothing was reported yet.
Unreported == registered_callback /\ pressed /\ report = NoReport

\* The time-out of such a press runs: nothing but the release stops it.
Awaited == Unreported => timeout_timer # Off

\* A press of which nothing was reported is no older than the configuration says: the
\* release ends it before, or the timeout handler reports it then, however many edges
\* restart the debounce timer.
ReportedInTime == Unreported => since <= max_button_press_timeout

\* No step leaves a press that was detected without its time-out.
LEMMA AwaitedStep ==
    ASSUME ButtonIInv, Awaited, [ButtonNext]_buttonVars
    PROVE  Awaited'
  <1> USE DEF Awaited, Unreported
  <1>1. Times /\ Times' /\ Transient /\ TimersRun /\ Deinitialized
    <2>1. ButtonIInv'
      BY EdgeStep, TimeoutStep, DebounceStep, UnitPassesStep, SetUpStep, ShutDownStep,
         QuietStep, StutterStep DEF ButtonNext, Timers, Main
    <2> QED
      BY <2>1, TypeParts DEF ButtonIInv
  <1>2. CASE Edge
    BY <1>2 DEF Edge, press, config, observed
  <1>3. CASE button_timeout_handler
    BY <1>1, <1>3 DEF button_timeout_handler, Report, NothingReported, NoReport, press, config,
                      TimersRun
  <1>4. CASE button_debounce_timer_handler
    <2>1. CASE PressDetected
      <3>1. timeout_timer' = max_button_press_timeout
        BY <2>1 DEF PressDetected, StartTimeout
      <3> QED
        BY <1>1, <3>1, TimeoutFact DEF Times, Off
    <2>2. CASE registered_callback /\ ReleaseDetected
      BY <2>2 DEF ReleaseDetected
    <2>3. CASE button_state = "deinit" /\ EventIgnored("deinit")
      BY <1>1, <2>3 DEF Deinitialized, EventIgnored, press
    <2>4. CASE ~registered_callback
      BY <1>4, <2>4 DEF button_debounce_timer_handler, config
    <2> QED
      BY <1>4, <2>1, <2>2, <2>3, <2>4 DEF button_debounce_timer_handler
  <1>5. CASE UnitPasses
    <2>1. timeout_timer # 0 /\ timeout_timer' = Left(timeout_timer)
      BY <1>5 DEF UnitPasses
    <2>2. timeout_timer # Off => timeout_timer' # Off
      BY <1>1, <2>1, TimeoutFact DEF Left, Off, Times
    <2>3. UNCHANGED <<registered_callback, pressed, report>>
      BY <1>5 DEF UnitPasses, config, observed
    <2> QED
      BY <2>2, <2>3
  <1>6. CASE InitConfig
    BY <1>1, <1>6 DEF InitConfig, Transient, Deinitialized, press, timers, observed
  <1>7. CASE InitTimers \/ Deinit \/ DeinitDone
    BY <1>1, <1>7 DEF InitTimers, Deinit, DeinitDone, Transient, press, config, timers
  <1>8. CASE ConfigureFails \/ InitArm \/ InitDone \/ Woken \/ Disarm \/ Reinit
    BY <1>8 DEF ConfigureFails, InitArm, InitDone, Woken, Disarm, Reinit, press, config, timers,
                observed
  <1>9. CASE UNCHANGED buttonVars
    BY <1>9 DEF buttonVars, press, config, timers, observed
  <1> QED
    BY <1>2, <1>3, <1>4, <1>5, <1>6, <1>7, <1>8, <1>9 DEF ButtonNext, Timers, Main

\* What a press is reported by is never lost: what remains of PressReported is that time
\* goes on and an expired timer is served.
THEOREM PressTimed == ButtonSpec => [](Awaited /\ ReportedInTime)
  <1>1. ButtonInit => Awaited
    BY DEF ButtonInit, Awaited, Unreported
  <1>2. ButtonIInv /\ Awaited => ReportedInTime
    <2> SUFFICES ASSUME ButtonIInv, Awaited, Unreported PROVE since <= max_button_press_timeout
      BY DEF ReportedInTime
    <2>1. timeout_timer # Off /\ since + timeout_timer = max_button_press_timeout
      BY DEF ButtonIInv, TimersRun, Awaited, Unreported
    <2>2. timeout_timer \in Nat /\ since \in Nat
      BY <2>1, TimeoutFact DEF ButtonIInv, ButtonTypeOK, Off
    <2> QED
      BY <2>1, <2>2
  <1> QED
    BY <1>1, <1>2, AwaitedStep, ButtonInvariant, PTL DEF ButtonSpec

=============================================================================
