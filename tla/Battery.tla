------------------------------ MODULE Battery ------------------------------
(***************************************************************************)
(* The battery of the kit in samples/tmo_shell: the converter that the     *)
(* threads share behind adc_sem (tmo_adc.c), the charger whose interrupts  *)
(* a thread of its own looks after (tmo_bq24250.c), and the command of the *)
(* shell that discharges the battery for shipping and then switches the    *)
(* kit off (tmo_shell.c, tmo_battery_ctrl.c, tmo_pm_sys.c).                *)
(*                                                                         *)
(* adc_sem starts with 0 and nobody gives it before the first reading is   *)
(* over: at boot a thread waits for 500 ms and then goes on without it.    *)
(* Once it is going round, a reading of 100 ms cannot make another thread  *)
(* that begins to wait then miss its time.  The voltage counts as the      *)
(* level it stands for, given whether the battery is being charged: the    *)
(* table to look it up in is chosen by a status that is read afterwards.   *)
(* The charger counts as what its registers tell apart.                    *)
(***************************************************************************)
EXTENDS Integers, FiniteSets

CONSTANTS
    Clients,         \* the threads that read the converter
    Hwid,            \* the one that reads the divider of the board, at boot
    Shell,           \* the one that runs the commands
    MaxLevel,        \* levels of the battery: 0 .. MaxLevel
    Chargers,        \* states of the charger, among those of AllChargers
    MaxChanges       \* bound for the changes of the charger

AllChargers == {"charging", "done", "no_vbus", "no_battery"}

ASSUME BatteryAssumption ==
    /\ {Hwid, Shell} \subseteq Clients /\ Hwid # Shell
    /\ MaxLevel \in Nat \ {0} /\ MaxChanges \in Nat
    /\ Chargers \subseteq AllChargers /\ "charging" \in Chargers

VARIABLES
    adc_sem,
    at,              \* where each client is in its reading
    early,           \* clients that began to wait before adc_sem was ever given
    given,           \* adc_sem has been given
    settled,         \* ghost: those who went without it have once all been gone
    channel,         \* the input ADC0 is set up for
    sense,           \* VBAT_SNS_EN
    level,           \* the level of the battery
    charger,         \* the state of the charger
    changed,         \* bq_battery_charge_int_state_change
    bq,              \* where bq_thread is
    seen,            \* the registers as it has read them
    reported,        \* what it has printed
    lost,            \* ghost: a change between the reading and the clearing of the
                     \* flag, or a register that could not be read
    changes,
    pc,              \* where the shell is
    set_point,
    millivolts,      \* the voltage that the discharge goes by
    measured,        \* ghost: the level of the battery when it was read
    pushed,          \* aio_btn_pushed
    blind            \* ghost: the reading was not alone, or was looked up in the
                     \* table for the other state of the charger

adc == <<adc_sem, at, early, given, settled, channel, sense>>
chip == <<charger, changed, bq, seen, reported, lost, changes>>
command == <<pc, set_point, millivolts, measured, blind>>
world == <<level, pushed>>
vars == <<adc, chip, command, world>>

\* What a voltage depends on.
Voltages == [level : 0 .. MaxLevel, charging : BOOLEAN]
Voltage == [level |-> level, charging |-> charger = "charging"]

\* What the variables of the command hold that are not in use.
Unread == [level |-> 0, charging |-> FALSE]

Init ==
    /\ adc_sem = 0 /\ at = [c \in Clients |-> "out"] /\ early = {} /\ given = FALSE
    /\ settled = FALSE
    /\ channel = "none" /\ sense = FALSE
    /\ level = MaxLevel
    /\ charger \in Chargers
    /\ changed = FALSE /\ bq = "start" /\ seen = "none" /\ reported = "none"
    /\ lost = FALSE /\ changes = 0
    /\ pc = "idle" /\ set_point = 0 /\ pushed = FALSE
    /\ millivolts = Unread /\ measured = 0
    /\ blind = FALSE

-----------------------------------------------------------------------------
(* read_battery_voltage and read_hwid                                      *)

Inside == {c \in Clients : at[c] \in {"in", "converting"}}

\* The thread begins to wait for the semaphore.
Wait(c) ==
    /\ at[c] = "out"
    /\ at' = [at EXCEPT ![c] = "wait"]
    /\ early' = IF given THEN early ELSE early \cup {c}
    /\ UNCHANGED <<adc_sem, given, settled, channel, sense>>

\* Faulty variant: one who takes the semaphore leaves it to the others.
F_Taken == adc_sem

\* What k_sem_take leaves of the semaphore.
Taken == 0

\* k_sem_take(&adc_sem, K_MSEC(500)) returns, with the semaphore or after its time;
\* the result is not looked at, and the divider of the battery is switched on.
Enter(c) ==
    /\ at[c] = "wait"
    /\ \/ adc_sem = 1 /\ adc_sem' = Taken
       \/ c \in early /\ adc_sem = 0 /\ UNCHANGED adc_sem
    /\ at' = [at EXCEPT ![c] = "in"]
    /\ sense' = TRUE
    /\ UNCHANGED <<early, given, settled, channel>>

\* ADC_InitSingle and ADC_Start.
Convert(c) ==
    /\ at[c] = "in"
    /\ at' = [at EXCEPT ![c] = "converting"]
    /\ channel' = IF c = Hwid THEN "hwid" ELSE "battery"
    /\ UNCHANGED <<adc_sem, early, given, settled, sense>>

\* The result is fetched, the divider switched off and the semaphore given,
\* whose limit is 1.
Leave(c) ==
    /\ at[c] = "converting"
    /\ at' = [at EXCEPT ![c] = IF c = Hwid THEN "done" ELSE "out"]
    /\ adc_sem' = 1 /\ given' = TRUE
    /\ early' = early \ {c}
    /\ settled' = (settled \/ (Inside = {c} /\ early' = {}))
    /\ sense' = FALSE
    /\ UNCHANGED channel

\* What a client fetches: the voltage of the battery, unless another one has switched
\* the divider off or set up another input.
Fetched == IF sense /\ channel = "battery" THEN {Voltage} ELSE Voltages

\* The threads that read for themselves: of the board once, of the battery for the
\* notifications over Bluetooth and for the web.
ClientStep(c) ==
    /\ c # Shell
    /\ Wait(c) \/ Enter(c) \/ Convert(c) \/ Leave(c)
    /\ UNCHANGED <<chip, command, world>>

-----------------------------------------------------------------------------
(* The discharge command                                                   *)

\* What get_bq24250_status gives: the state of the charger, or any other when its
\* register cannot be read, for the byte is parsed all the same.
StatusRead == AllChargers

\* What it makes of the charger and fault bits.
attached(status) == status # "no_battery"
is_battery_charging(status) == status = "charging"

\* A command reads the status, and then, with a battery, its voltage.
CheckStatus(to) ==
    \E status \in StatusRead :
        \/ attached(status) /\ pc' = to /\ Wait(Shell)
        \/ ~attached(status) /\ pc' = "idle" /\ UNCHANGED adc

\* cmd_battery_voltage and cmd_battery_percentage.
Query ==
    /\ pc = "idle" /\ CheckStatus("query")
    /\ UNCHANGED <<chip, set_point, millivolts, measured, blind, world>>

cmd_battery_discharge ==
    /\ pc = "idle" /\ CheckStatus("first")
    /\ set_point' \in 0 .. MaxLevel
    /\ UNCHANGED <<chip, millivolts, measured, blind, world>>

ShellConverts ==
    /\ Enter(Shell) \/ Convert(Shell)
    /\ UNCHANGED <<chip, command, world>>

QueryEnds ==
    /\ pc = "query" /\ pc' = "idle"
    /\ Leave(Shell)
    /\ UNCHANGED <<chip, set_point, millivolts, measured, blind, world>>

\* The voltage is there.
GotVoltage ==
    /\ \/ pc = "first" /\ pc' = "judge first"
       \/ pc = "round" /\ pc' = "judge"
    /\ Leave(Shell)
    /\ millivolts' \in Fetched /\ measured' = level
    /\ blind' = (~settled /\ Fetched # {Voltage})
    /\ UNCHANGED <<chip, set_point, world>>

\* get_remaining_capacity: in the table for the other state of the charger the voltage
\* stands for another level.
Percent(status) ==
    IF is_battery_charging(status) <=> millivolts.charging
    THEN {millivolts.level} ELSE 0 .. MaxLevel

\* Faulty variant: the loop goes on only well above the set point.
F_Discharged(value) == value <= set_point + 1

\* percent > set_point does not hold, at the loop or right before it.
Discharged(value) == value <= set_point

\* millivolts_to_percent reads the status again.  The kit is switched off at the set
\* point, before the first round as well; in a round the button is looked at first.
GotLevel ==
    /\ pc \in {"judge first", "judge"}
    /\ \E status \in StatusRead : \E percent \in Percent(status) :
        /\ pc' = IF pc = "judge" /\ pushed THEN "idle"
                 ELSE IF Discharged(percent) THEN "off" ELSE "again"
        /\ blind' = (pc' = "off" /\ (blind \/ Percent(status) # {millivolts.level}))
    /\ millivolts' = Unread
    /\ measured' = IF pc' = "off" THEN measured ELSE 0
    /\ UNCHANGED <<adc, chip, set_point, world>>

Again ==
    /\ pc = "again" /\ CheckStatus("round")
    /\ UNCHANGED <<chip, set_point, millivolts, measured, blind, world>>

\* cmd_pmsysfulloff
SwitchOff ==
    /\ pc = "off" /\ pc' = "dark"
    /\ UNCHANGED <<adc, chip, set_point, millivolts, measured, blind, world>>

ShellStep ==
    \/ Query \/ cmd_battery_discharge \/ ShellConverts \/ QueryEnds
    \/ GotVoltage \/ GotLevel \/ Again \/ SwitchOff

-----------------------------------------------------------------------------
(* The charger                                                             *)

\* bq_intr_callback, at a change of the charger; it is added by the thread.
Change ==
    /\ changes < MaxChanges /\ changes' = changes + 1
    /\ charger' \in Chargers \ {charger}
    /\ changed' = (changed \/ bq # "start")
    /\ lost' = (lost \/ bq = "read")
    /\ UNCHANGED <<adc, command, world, bq, seen, reported>>

Bq(from, to) ==
    /\ bq = from /\ bq' = to
    /\ UNCHANGED <<adc, command, world, charger, changes>>

\* BQ_INIT: the callback is added; a second later the flag is cleared, for the
\* registers are about to be read.
Arm == Bq("start", "armed") /\ UNCHANGED <<changed, seen, reported, lost>>

Clear ==
    /\ Bq("armed", "first check") /\ changed' = FALSE
    /\ UNCHANGED <<seen, reported, lost>>

\* BQ_INT_MONITOR, every 250 ms.
Monitor ==
    /\ changed /\ Bq("monitor", "check")
    /\ UNCHANGED <<changed, seen, reported, lost>>

\* check_battery_charger_regs: the registers are read twice, and what counts is the
\* second time; a register that cannot be read counts as it did the first time, or as
\* ready to charge.
check_battery_charger_regs ==
    /\ \/ Bq("check", "read")
       \/ Bq("first check", "first read")
    /\ \/ seen' = charger /\ lost' = FALSE
       \/ seen' \in Chargers /\ lost' = TRUE
    /\ UNCHANGED <<changed, reported>>

\* Faulty variant: the flag is cleared after the first check as well.
F_AfterFirst == FALSE

\* The flag after the check of BQ_INIT.
AfterFirst == changed

\* The state is printed; the monitor clears the flag after that.
Report ==
    /\ \/ Bq("read", "monitor") /\ changed' = FALSE
       \/ Bq("first read", "monitor") /\ changed' = AfterFirst
    /\ reported' = seen
    /\ UNCHANGED <<seen, lost>>

BqStep == Arm \/ Clear \/ Monitor \/ check_battery_charger_regs \/ Report

-----------------------------------------------------------------------------
\* The battery is charged or runs down, the button is pressed or released.
World ==
    /\ \/ /\ level' = IF charger = "charging" THEN level + 1 ELSE level - 1
          /\ level' \in 0 .. MaxLevel
          /\ UNCHANGED pushed
       \/ pushed' = ~pushed /\ UNCHANGED level
    /\ UNCHANGED <<adc, chip, command>>

Next ==
    /\ pc # "dark"
    /\ (\E c \in Clients : ClientStep(c)) \/ ShellStep \/ Change \/ BqStep \/ World

Spec == Init /\ [][Next]_vars

-----------------------------------------------------------------------------
TypeOK ==
    /\ adc_sem \in {0, 1} /\ early \subseteq Clients
    /\ at \in [Clients -> {"out", "wait", "in", "converting", "done"}]
    /\ given \in BOOLEAN /\ settled \in BOOLEAN /\ sense \in BOOLEAN
    /\ channel \in {"none", "hwid", "battery"}
    /\ level \in 0 .. MaxLevel
    /\ charger \in Chargers /\ changed \in BOOLEAN /\ lost \in BOOLEAN
    /\ bq \in {"start", "armed", "first check", "first read", "monitor", "check", "read"}
    /\ {seen, reported} \subseteq Chargers \cup {"none"} /\ changes \in 0 .. MaxChanges
    /\ pc \in {"idle", "query", "first", "judge first", "round", "judge", "again",
               "off", "dark"}
    /\ set_point \in 0 .. MaxLevel /\ millivolts \in Voltages
    /\ measured \in 0 .. MaxLevel
    /\ pushed \in BOOLEAN /\ blind \in BOOLEAN

\* Once the threads that went without the semaphore at boot have all been gone, it is
\* a lock: one thread at a time reads the converter, with its own input set up and
\* the divider on.  Before, a semaphore given twice lets two threads in, for as long
\* as they keep overlapping.
AloneOnAdc ==
    /\ TypeOK
    /\ settled => /\ Cardinality(Inside) + adc_sem = 1
                  /\ \A c \in Inside : sense /\ (at[c] = "converting" =>
                                        channel = IF c = Hwid THEN "hwid" ELSE "battery")

\* The kit is switched off for shipping only if the battery was at or below the set
\* point when this command read it last: the value the loop ends on is of this battery,
\* whoever else reads the converter.  The exceptions are a reading that was disturbed
\* at boot, and one that was looked up in the wrong table, since the status that
\* chooses the table could not be read or changed after the voltage was taken.
ShipsDischarged == pc \in {"off", "dark"} => measured <= set_point \/ blind

\* When the thread of the charger has nothing to do, the state it printed last is the
\* state of the charger, unless the charger changed again while the registers were
\* being printed: the flag of that interrupt is cleared unseen.
ChargerReported == bq = "monitor" /\ ~changed /\ ~lost => reported = charger
=============================================================================
