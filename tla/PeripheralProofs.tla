---------------------------- MODULE PeripheralProofs ---------------------------
(***************************************************************************)
(* Proofs about the peripherals of the kit that several threads use: the   *)
(* converter and the charger of the battery (Battery), and the button and  *)
(* the buzzer of the BLE demo (BleDemo).                                   *)
(*                                                                         *)
(* The battery, for any threads that read the converter, any levels and    *)
(* any changes of the charger: the converter has one reader at a time once *)
(* the boot is over, the kit is switched off for shipping only when the    *)
(* battery was down, and what was printed last is the state of the         *)
(* charger.  A thread goes without the semaphore only if it began to wait  *)
(* before the semaphore was first given, and when the last of them has     *)
(* left an empty converter, the semaphore and the thread inside add up to  *)
(* one for good.  A reader that is alone fetches the voltage, and between  *)
(* the reading and the look at the table the command knows what it read.   *)
(*                                                                         *)
(* The BLE demo, wherever its interrupt, the callbacks of the stack, the   *)
(* timer of the player and the shell fall: a central that was notified     *)
(* knows what the thread has on record, and a note that sounds is ended.   *)
(* The thread records the button it compares with before it notifies it,   *)
(* so that what each point of its loop knows is enough.  A central that    *)
(* connects wakes it, and every round of it ends.  The two share no        *)
(* variables.                                                              *)
(***************************************************************************)
EXTENDS Battery, BleDemo, FiniteSetTheorems, TLAPS

\* The semaphore is a lock: given and nobody inside, or taken by the one inside.
Lock == \/ adc_sem = 1 /\ Inside = {}
        \/ adc_sem = 0 /\ \E c \in Clients : Inside = {c}

\* The input that c sets up.
Input(c) == IF c = Hwid THEN "hwid" ELSE "battery"

\* After the boot nobody goes without the semaphore, it is a lock, and whoever is inside
\* finds the divider on and its own input set up.
Settled ==
    settled => /\ given /\ early = {} /\ Lock
               /\ \A c \in Inside : sense /\ (at[c] = "converting" => channel = Input(c))

\* What was read is the state of the charger, unless an interrupt says otherwise or one
\* is about to be lost.
SeenTrue ==
    /\ bq = "read" /\ ~lost => seen = charger
    /\ bq = "first read" /\ ~lost /\ ~changed => seen = charger

\* The voltage that was read undisturbed stands for the level of that moment.
ReadTrue == pc \in {"judge first", "judge"} /\ ~blind => millivolts.level = measured

\* The inductive invariant.
IInv == TypeOK /\ Settled /\ SeenTrue /\ ReadTrue /\ ShipsDischarged /\ ChargerReported

-----------------------------------------------------------------------------
(* The types in groups: the converter, the charger, the command, the world *)

AdcTypes ==
    /\ adc_sem \in {0, 1} /\ early \subseteq Clients
    /\ at \in [Clients -> {"out", "wait", "in", "converting", "done"}]
    /\ given \in BOOLEAN /\ settled \in BOOLEAN /\ sense \in BOOLEAN
    /\ channel \in {"none", "hwid", "battery"}

ChipTypes ==
    /\ charger \in Chargers /\ changed \in BOOLEAN /\ lost \in BOOLEAN
    /\ bq \in {"start", "armed", "first check", "first read", "monitor", "check", "read"}
    /\ {seen, reported} \subseteq Chargers \cup {"none"} /\ changes \in 0 .. MaxChanges

CommandTypes ==
    /\ pc \in {"idle", "query", "first", "judge first", "round", "judge", "again",
               "off", "dark"}
    /\ set_point \in 0 .. MaxLevel /\ measured \in 0 .. MaxLevel
    /\ millivolts \in Voltages /\ blind \in BOOLEAN

WorldTypes == level \in 0 .. MaxLevel /\ pushed \in BOOLEAN

\* The groups are the type invariant.
LEMMA TypeGroups ==
    /\ TypeOK => AdcTypes /\ ChipTypes /\ CommandTypes /\ WorldTypes
    /\ AdcTypes /\ ChipTypes /\ CommandTypes /\ WorldTypes => TypeOK
    /\ AdcTypes' /\ ChipTypes' /\ CommandTypes' /\ WorldTypes' => TypeOK'
  BY DEF TypeOK, AdcTypes, ChipTypes, CommandTypes, WorldTypes

-----------------------------------------------------------------------------
(* The converter                                                           *)

\* A reader keeps the types and the lock.
LEMMA ReaderStep ==
    ASSUME AdcTypes, Settled, NEW c \in Clients, Wait(c) \/ Enter(c) \/ Convert(c)
           \/ Leave(c)
    PROVE  AdcTypes' /\ Settled'
  <1> USE DEF AdcTypes
  <1>1. CASE Wait(c)
    <2>1. Inside' = Inside /\ \A d \in Inside : at'[d] = at[d]
      BY <1>1 DEF Wait, Inside
    <2>2. AdcTypes'
      BY <1>1 DEF Wait
    <2>3. Settled'
      BY <1>1, <2>1 DEF Wait, Settled, Lock, Input
    <2> QED
      BY <2>2, <2>3
  <1>2. CASE Enter(c)
    <2>1. /\ Inside' = Inside \cup {c} /\ at'[c] = "in"
          /\ \A d \in Clients \ {c} : at'[d] = at[d]
      BY <1>2 DEF Enter, Inside
    <2>2. sense' \in BOOLEAN /\ sense'
      <3>1. sense' = TRUE
        BY <1>2 DEF Enter
      <3> QED
        BY <3>1
    <2>3. AdcTypes'
      BY <1>2, <2>2 DEF Enter, Taken
    <2>4. settled => adc_sem = 1 /\ adc_sem' = 0 /\ Inside' = {c}
      <3>1. settled => Inside = {} /\ adc_sem = 1 /\ adc_sem' = 0
        BY <1>2 DEF Enter, Taken, Settled, Lock
      <3> QED
        BY <2>1, <3>1
    <2>5. UNCHANGED <<early, given, settled, channel>>
      BY <1>2 DEF Enter
    <2>6. Settled'
      <3> SUFFICES ASSUME settled
                   PROVE  /\ given' /\ early' = {} /\ Lock'
                          /\ \A d \in Inside' : sense' /\ at'[d] # "converting"
        BY <2>5 DEF Settled
      <3>1. Inside' = {c} /\ adc_sem' = 0 /\ given /\ early = {}
        BY <2>4 DEF Settled
      <3>2. Lock'
        BY <3>1 DEF Lock
      <3> QED
        <4>1. \A d \in Inside' : at'[d] # "converting"
          BY <2>1, <3>1
        <4>2. given' /\ early' = {}
          BY <2>5, <3>1
        <4> QED
          BY <2>2, <3>2, <4>1, <4>2
    <2> QED
      BY <2>3, <2>6
  <1>3. CASE Convert(c)
    <2>1. Inside' = Inside /\ c \in Inside /\ \A d \in Clients \ {c} : at'[d] = at[d]
      BY <1>3 DEF Convert, Inside
    <2>2. AdcTypes'
      BY <1>3 DEF Convert
    <2>3. channel' = Input(c) /\ UNCHANGED <<adc_sem, early, given, settled, sense>>
      BY <1>3 DEF Convert, Input
    <2>4. settled => Inside = {c}
      BY <2>1 DEF Settled, Lock
    <2>5. Settled'
      BY <2>1, <2>3, <2>4 DEF Settled, Lock, Input
    <2> QED
      BY <2>2, <2>5
  <1>4. CASE Leave(c)
    <2>1. Inside' = Inside \ {c} /\ c \in Inside
      BY <1>4 DEF Leave, Inside
    <2>2. given' \in BOOLEAN /\ given' /\ sense' \in BOOLEAN /\ adc_sem' = 1
          /\ early' = early \ {c}
      <3>1. given' = TRUE /\ sense' = FALSE /\ adc_sem' = 1 /\ early' = early \ {c}
        BY <1>4 DEF Leave
      <3>2. given' \in BOOLEAN /\ given' /\ sense' \in BOOLEAN
        BY <3>1
      <3> QED
        BY <3>1, <3>2
    <2>3. settled' \in BOOLEAN /\ (settled' <=> settled \/ (Inside = {c} /\ early' = {}))
      BY <1>4 DEF Leave
    <2>4. AdcTypes'
      BY <1>4, <2>2, <2>3 DEF Leave
    <2>5. settled' => Inside' = {} /\ early' = {}
      BY <2>1, <2>2, <2>3 DEF Settled, Lock
    <2>6. Settled'
      BY <2>2, <2>5 DEF Settled, Lock
    <2> QED
      BY <2>4, <2>6
  <1> QED
    BY <1>1, <1>2, <1>3, <1>4

\* Whoever leaves the converter alone keeps its part.
LEMMA AdcUndisturbed ==
    ASSUME AdcTypes, Settled, UNCHANGED adc
    PROVE  AdcTypes' /\ Settled'
  BY DEF AdcTypes, Settled, Lock, Inside, Input, adc

\* After the boot a client other than that of the board fetches the voltage.
LEMMA FetchedIsVoltage ==
    ASSUME Settled, settled, NEW c \in Clients, c # Hwid, at[c] = "converting"
    PROVE  Fetched = {Voltage}
  <1>1. c \in Inside
    BY DEF Inside
  <1> QED
    BY <1>1 DEF Settled, Fetched, Input

-----------------------------------------------------------------------------
(* The charger                                                             *)

\* The interrupts and the thread keep the types and the truth of what was read.
LEMMA ChargerStep ==
    ASSUME ChipTypes, SeenTrue, ChargerReported, Change \/ BqStep
    PROVE  ChipTypes' /\ SeenTrue' /\ ChargerReported'
  <1> USE DEF ChipTypes
  <1>1. CASE Change
    <2>1. changed' \in BOOLEAN /\ (changed' <=> changed \/ bq # "start")
          /\ lost' \in BOOLEAN /\ (lost' <=> lost \/ bq = "read")
      BY <1>1 DEF Change
    <2>2. ChipTypes'
      <3>1. charger' \in Chargers /\ changes' \in 0 .. MaxChanges
        <4>1. charger' \in Chargers
          BY <1>1 DEF Change
        <4>2. changes' = changes + 1 /\ changes < MaxChanges
          BY <1>1 DEF Change
        <4>3. changes \in 0 .. MaxChanges
          OBVIOUS
        <4> HIDE DEF ChipTypes
        <4>4. changes' \in 0 .. MaxChanges
          BY <4>2, <4>3, BatteryAssumption
        <4> QED
          BY <4>1, <4>4
      <3>2. UNCHANGED <<bq, seen, reported>>
        BY <1>1 DEF Change
      <3> QED
        BY <2>1, <3>1, <3>2
    <2>3. bq' = bq
      BY <1>1 DEF Change
    <2> QED
      BY <2>1, <2>2, <2>3 DEF SeenTrue, ChargerReported
  <1>2. CASE Arm \/ Monitor
    BY <1>2 DEF Arm, Monitor, Bq, SeenTrue, ChargerReported
  <1>3. CASE Clear
    <2>1. changed' = FALSE
      BY <1>3 DEF Clear
    <2>2. changed' \in BOOLEAN
      BY <2>1
    <2> QED
      BY <1>3, <2>2 DEF Clear, Bq, SeenTrue, ChargerReported
  <1>4. CASE check_battery_charger_regs
    <2>1. /\ bq' \in {"read", "first read"}
          /\ UNCHANGED <<charger, changes, changed, reported>>
      BY <1>4 DEF check_battery_charger_regs, Bq
    <2>2. CASE seen' = charger /\ lost' = FALSE
      <3>1. lost' \in BOOLEAN
        BY <2>2
      <3> QED
        BY <2>1, <2>2, <3>1 DEF SeenTrue, ChargerReported
    <2>3. CASE seen' \in Chargers /\ lost' = TRUE
      <3>1. lost' \in BOOLEAN /\ lost'
        BY <2>3
      <3> QED
        BY <2>1, <2>3, <3>1 DEF SeenTrue, ChargerReported
    <2> QED
      BY <1>4, <2>2, <2>3 DEF check_battery_charger_regs
  <1>5. CASE Report
    <2>1. /\ bq' = "monitor" /\ reported' = seen
          /\ UNCHANGED <<charger, changes, seen, lost>>
      BY <1>5 DEF Report, Bq
    <2>2. changed' \in BOOLEAN
      <3>1. changed' = FALSE \/ changed' = changed
        BY <1>5 DEF Report, AfterFirst
      <3> QED
        BY <3>1
    <2>3. ~changed' /\ ~lost => seen = charger
      BY <1>5 DEF Report, AfterFirst, Bq, SeenTrue
    <2> QED
      BY <2>1, <2>2, <2>3 DEF SeenTrue, ChargerReported
  <1> QED
    BY <1>1, <1>2, <1>3, <1>4, <1>5 DEF BqStep

\* Whoever leaves the charger and its thread alone keeps their part.
LEMMA ChipUndisturbed ==
    ASSUME ChipTypes, SeenTrue, ChargerReported, UNCHANGED chip
    PROVE  ChipTypes' /\ SeenTrue' /\ ChargerReported'
  BY DEF ChipTypes, SeenTrue, ChargerReported, chip

-----------------------------------------------------------------------------
(* The command                                                             *)

\* A step of the shell is also a step of the converter's reader, or leaves it alone.
LEMMA ShellReads ==
    ASSUME ShellStep
    PROVE  /\ Wait(Shell) \/ Enter(Shell) \/ Convert(Shell) \/ Leave(Shell) \/ UNCHANGED adc
           /\ UNCHANGED <<chip, world>>
  BY DEF ShellStep, Query, cmd_battery_discharge, ShellConverts, QueryEnds, GotVoltage, GotLevel,
         Again, SwitchOff, CheckStatus

\* The voltage that the command reads is one of a level.
LEMMA VoltageTypes ==
    ASSUME WorldTypes
    PROVE  /\ Voltage \in Voltages /\ Unread \in Voltages
           /\ Fetched \subseteq Voltages /\ Voltage.level = level
  <1>1. (charger = "charging") \in BOOLEAN /\ FALSE \in BOOLEAN
    OBVIOUS
  <1>2. Voltage \in Voltages /\ Unread \in Voltages /\ Voltage.level = level
    BY <1>1, BatteryAssumption DEF WorldTypes, Voltage, Voltages, Unread
  <1> QED
    BY <1>2 DEF Fetched

\* Of the level that it read, the command keeps the level that there was, or knows not.
LEMMA GotVoltageKeeps ==
    ASSUME CommandTypes, WorldTypes, Settled, GotVoltage
    PROVE  CommandTypes' /\ ReadTrue' /\ ShipsDischarged'
  <1>1. pc' \in {"judge first", "judge"} /\ measured' = level /\ set_point' = set_point
    BY DEF GotVoltage
  <1>2. millivolts' \in Fetched
    BY DEF GotVoltage
  <1>3. blind' \in BOOLEAN /\ (blind' <=> ~settled /\ Fetched # {Voltage})
    BY DEF GotVoltage
  <1>4. at[Shell] = "converting" /\ Shell \in Clients /\ Shell # Hwid
    BY BatteryAssumption DEF GotVoltage, Leave
  <1>5. ~blind' => millivolts' = Voltage
    BY <1>2, <1>3, <1>4, FetchedIsVoltage
  <1>6. CommandTypes'
    BY <1>1, <1>2, <1>3, VoltageTypes DEF CommandTypes, WorldTypes
  <1> QED
    BY <1>1, <1>5, <1>6, VoltageTypes DEF ReadTrue, ShipsDischarged

\* Judged by the right table, what was read undisturbed is the level itself.
LEMMA GotLevelKeeps ==
    ASSUME CommandTypes, WorldTypes, ReadTrue, GotLevel
    PROVE  CommandTypes' /\ ReadTrue' /\ ShipsDischarged'
  <1>1. pc \in {"judge first", "judge"} /\ millivolts' = Unread /\ set_point' = set_point
        /\ measured' = IF pc' = "off" THEN measured ELSE 0
    BY DEF GotLevel
  <1>2. PICK status \in StatusRead : \E percent \in Percent(status) :
            /\ pc' = IF pc = "judge" /\ pushed THEN "idle"
                     ELSE IF Discharged(percent) THEN "off" ELSE "again"
            /\ blind' = (pc' = "off" /\ (blind \/ Percent(status) # {millivolts.level}))
    BY DEF GotLevel
  <1>3. PICK percent \in Percent(status) :
            /\ pc' = IF pc = "judge" /\ pushed THEN "idle"
                     ELSE IF Discharged(percent) THEN "off" ELSE "again"
            /\ blind' = (pc' = "off" /\ (blind \/ Percent(status) # {millivolts.level}))
    BY <1>2
  <1>4. pc' \in {"idle", "off", "again"}
    BY <1>3
  <1>5. blind' \in BOOLEAN
        /\ (blind' <=> pc' = "off" /\ (blind \/ Percent(status) # {millivolts.level}))
    BY <1>3
  <1>6. ASSUME pc' = "off", ~blind' PROVE measured <= set_point
    <2>1. ~blind /\ Percent(status) = {millivolts.level}
      BY <1>5, <1>6
    <2>2. percent = measured
      BY <1>1, <1>3, <2>1 DEF ReadTrue
    <2>3. percent <= set_point
      BY <1>3, <1>6 DEF Discharged
    <2> QED
      BY <2>2, <2>3
  <1>7. CommandTypes'
    <2>1. measured' \in 0 .. MaxLevel
      <3>1. measured' = measured \/ measured' = 0
        BY <1>1
      <3>2. measured \in 0 .. MaxLevel
        BY DEF CommandTypes
      <3>3. 0 \in 0 .. MaxLevel
        BY BatteryAssumption
      <3> QED
        BY <3>1, <3>2, <3>3
    <2>2. millivolts' \in Voltages
      BY <1>1, VoltageTypes
    <2> QED
      BY <1>1, <1>4, <1>5, <2>1, <2>2 DEF CommandTypes
  <1> QED
    BY <1>1, <1>4, <1>6, <1>7 DEF ReadTrue, ShipsDischarged

\* The kit is switched off with the battery at the set point, or after a reading that
\* was disturbed or misjudged.
LEMMA ShellKeeps ==
    ASSUME CommandTypes, WorldTypes, Settled, ReadTrue, ShipsDischarged, ShellStep
    PROVE  CommandTypes' /\ ReadTrue' /\ ShipsDischarged'
  <1>1. CASE Query \/ Again \/ cmd_battery_discharge \/ QueryEnds
    <2>1. /\ pc' \in {"query", "first", "round", "idle"}
          /\ set_point' \in {set_point} \cup 0 .. MaxLevel
          /\ UNCHANGED <<millivolts, measured, blind>>
      BY <1>1 DEF Query, Again, cmd_battery_discharge, QueryEnds, CheckStatus
    <2>2. CommandTypes'
      BY <2>1 DEF CommandTypes
    <2> QED
      BY <2>1, <2>2 DEF ReadTrue, ShipsDischarged
  <1>2. CASE ShellConverts
    BY <1>2 DEF ShellConverts, CommandTypes, ReadTrue, ShipsDischarged, command
  <1>3. CASE GotVoltage
    BY <1>3, GotVoltageKeeps
  <1>4. CASE GotLevel
    BY <1>4, GotLevelKeeps
  <1>5. CASE SwitchOff
    BY <1>5 DEF SwitchOff, CommandTypes, ReadTrue, ShipsDischarged
  <1> QED
    BY <1>1, <1>2, <1>3, <1>4, <1>5 DEF ShellStep

\* The battery and the button leave the command alone.
LEMMA WorldKeeps ==
    ASSUME CommandTypes, WorldTypes, ReadTrue, ShipsDischarged, World
    PROVE  /\ WorldTypes' /\ CommandTypes' /\ ReadTrue' /\ ShipsDischarged'
           /\ UNCHANGED <<adc, chip>>
  <1>1. UNCHANGED <<adc, chip, pc, set_point, millivolts, measured, blind>>
    BY DEF World, command
  <1>2. level' \in 0 .. MaxLevel
    BY BatteryAssumption DEF WorldTypes, World
  <1>3. pushed' \in BOOLEAN
    <2>1. pushed' = ~pushed \/ pushed' = pushed
      BY DEF World
    <2> QED
      BY <2>1 DEF WorldTypes
  <1> QED
    BY <1>1, <1>2, <1>3 DEF WorldTypes, CommandTypes, ReadTrue, ShipsDischarged

-----------------------------------------------------------------------------
(* The theorems                                                            *)

\* The inductive invariant holds initially.
LEMMA InitInv == Init => IInv
  <1> SUFFICES ASSUME Init PROVE IInv
    OBVIOUS
  <1>1. /\ given = FALSE /\ settled = FALSE /\ sense = FALSE /\ changed = FALSE
           /\ lost = FALSE
        /\ pushed = FALSE /\ blind = FALSE
    BY DEF Init
  <1>2. /\ given \in BOOLEAN /\ settled \in BOOLEAN /\ sense \in BOOLEAN
           /\ changed \in BOOLEAN
        /\ lost \in BOOLEAN /\ pushed \in BOOLEAN /\ blind \in BOOLEAN /\ ~settled
    BY <1>1
  <1>3. AdcTypes
    BY <1>2 DEF Init, AdcTypes
  <1>4. ChipTypes
    BY <1>2, BatteryAssumption DEF Init, ChipTypes
  <1>5. CommandTypes /\ WorldTypes
    <2>1. WorldTypes
      BY <1>2, BatteryAssumption DEF Init, WorldTypes
    <2> QED
      BY <1>2, <2>1, VoltageTypes, BatteryAssumption DEF Init, CommandTypes
  <1>6. pc = "idle" /\ bq = "start"
    BY DEF Init
  <1> QED
    BY <1>2, <1>3, <1>4, <1>5, <1>6, TypeGroups
       DEF IInv, Settled, SeenTrue, ReadTrue, ShipsDischarged, ChargerReported

\* Every step keeps the inductive invariant.
LEMMA InvStep == IInv /\ [Next]_vars => IInv'
  <1> SUFFICES ASSUME IInv, [Next]_vars PROVE IInv'
    OBVIOUS
  <1> USE DEF IInv
  <1>0. AdcTypes /\ ChipTypes /\ CommandTypes /\ WorldTypes
    BY TypeGroups
  <1>1. UNCHANGED <<command, world>> =>
            CommandTypes' /\ WorldTypes' /\ ReadTrue' /\ ShipsDischarged'
    <2> SUFFICES ASSUME UNCHANGED <<command, world>>
                 PROVE  CommandTypes' /\ WorldTypes' /\ ReadTrue' /\ ShipsDischarged'
      OBVIOUS
    <2>1. UNCHANGED <<pc, set_point, millivolts, measured, blind, level, pushed>>
      BY DEF command, world
    <2>2. CommandTypes' /\ WorldTypes'
      BY <1>0, <2>1 DEF CommandTypes, WorldTypes
    <2> QED
      BY <2>1, <2>2 DEF ReadTrue, ShipsDischarged
  <1>2. UNCHANGED world => WorldTypes'
    BY <1>0 DEF WorldTypes, world
  <1>3. CASE \E c \in Clients : ClientStep(c)
    <2>1. AdcTypes' /\ Settled' /\ UNCHANGED <<chip, command, world>>
      BY <1>0, <1>3, ReaderStep DEF ClientStep
    <2> QED
      BY <1>0, <1>1, <2>1, ChipUndisturbed, TypeGroups
  <1>4. CASE ShellStep
    <2>1. AdcTypes' /\ Settled'
      BY <1>0, <1>4, ShellReads, ReaderStep, AdcUndisturbed, BatteryAssumption
    <2>2. CommandTypes' /\ ReadTrue' /\ ShipsDischarged' /\ UNCHANGED <<chip, world>>
      BY <1>0, <1>4, ShellReads, ShellKeeps
    <2> QED
      BY <1>0, <1>2, <2>1, <2>2, ChipUndisturbed, TypeGroups
  <1>5. CASE Change \/ BqStep
    <2>1. UNCHANGED <<adc, command, world>>
      BY <1>5 DEF Change, BqStep, Arm, Clear, Monitor, check_battery_charger_regs,
         Report, Bq
    <2> QED
      BY <1>0, <1>1, <1>5, <2>1, ChargerStep, AdcUndisturbed, TypeGroups
  <1>6. CASE World
    BY <1>0, <1>6, WorldKeeps, AdcUndisturbed, ChipUndisturbed, TypeGroups
  <1>7. CASE UNCHANGED vars
    BY <1>0, <1>1, <1>7, AdcUndisturbed, ChipUndisturbed, TypeGroups DEF vars
  <1> QED
    BY <1>3, <1>4, <1>5, <1>6, <1>7 DEF Next

\* The inductive invariant holds in every run.
THEOREM BatteryInvariant == Spec => []IInv
  <1> QED
    BY InitInv, InvStep, PTL DEF Spec

\* Once the threads that went without the semaphore at boot have all been gone, one
\* thread at a time reads the converter, with its own input and the divider on.
THEOREM OneReader == Spec => []AloneOnAdc
  <1>1. IInv => AloneOnAdc
    <2> SUFFICES ASSUME IInv PROVE AloneOnAdc
      OBVIOUS
    <2>1. Lock => Cardinality(Inside) + adc_sem = 1
      <3>1. Inside = {} => Cardinality(Inside) = 0
        BY FS_EmptySet
      <3>2. \A c : Inside = {c} => Cardinality(Inside) = 1
        BY FS_Singleton
      <3> QED
        BY <3>1, <3>2 DEF Lock
    <2> QED
      BY <2>1 DEF IInv, Settled, AloneOnAdc, Input
  <1> QED
    BY <1>1, BatteryInvariant, PTL

\* The kit is switched off for shipping only if the battery was at or below the set point
\* when the command read it last, unless that reading was disturbed at boot or looked up
\* in the wrong table.
THEOREM OffOnlyDischarged == Spec => []ShipsDischarged
  <1> QED
    BY BatteryInvariant, PTL DEF IInv

\* When the thread of the charger is at rest, what it printed last is the state of the
\* charger, unless the flag of an interrupt was cleared unseen.
THEOREM PrintedIsTrue == Spec => []ChargerReported
  <1> QED
    BY BatteryInvariant, PTL DEF IInv

-----------------------------------------------------------------------------
(* The BLE demo, with the buzzer that it shares with the player of tones   *)

\* The types but those of the tone player: what is of a Boolean apart.
BleFlags == /\ buttons \in BOOLEAN /\ adv \in BOOLEAN /\ conn \in BOOLEAN
            /\ raced \in BOOLEAN /\ accSent \in BOOLEAN

BleLabels ==
    /\ up \in {"no", "yes", "partly"} /\ subs \subseteq {"acc", "btn"}
    /\ ble_thd_sem \in {0, 1}
    /\ aio_btn_pushed \in Buttons /\ button_last_state \in Buttons
    /\ aio_digital_output_state \subseteq {"buzzer"}
    /\ told \in Buttons \cup {Nothing}
    /\ edges \in 0 .. MaxEdges /\ links \in 0 .. MaxLinks

BlePlace ==
    /\ notif_pc \in {"boot", "idle", "parked", "wait", "compare", "notify", "again",
               "record", "jingle", "pause", "las"}
    /\ notes \in 0 .. JingleNotes /\ (notif_pc = "jingle" => notes > 0)

\* The groups are the type invariant.
LEMMA BleParts ==
  /\ BleTypeOK <=> ToneTypeOK /\ BleFlags /\ BleLabels /\ BlePlace
  /\ BleTypeOK' <=> ToneTypeOK' /\ BleFlags' /\ BleLabels' /\ BlePlace'
  BY DEF BleTypeOK, BleFlags, BleLabels, BlePlace

\* The part of the invariant that is about the buzzer, and the part about the button.
BleBuzzer == ToneTypeOK /\ SomebodySilences /\ Playing

BleButton == Subscribed /\ Notified

\* The parts are the inductive invariant.
LEMMA BleInvParts ==
  /\ BleIInv <=> BleFlags /\ BleLabels /\ BlePlace /\ BleBuzzer /\ BleButton
  /\ BleIInv' <=> BleFlags' /\ BleLabels' /\ BlePlace' /\ BleBuzzer' /\ BleButton'
  BY BleParts DEF BleIInv, BleBuzzer, BleButton

\* Nobody touches the buzzer: neither the pitch nor those who will end it change.
LEMMA BuzzerKept ==
  ASSUME BleBuzzer, UNCHANGED <<buzzer, aio_digital_output_state, notes>>,
         notif_pc' = notif_pc \/ (notif_pc # "jingle" /\ notif_pc' # "pause")
  PROVE  BleBuzzer'
  <1>1. UNCHANGED <<sound, timer, timer_running, next_note, left, file, shell>>
    BY DEF buzzer, player
  <1>2. ToneTypeOK'
    BY <1>1 DEF BleBuzzer, ToneTypeOK
  <1>3. SomebodySilences' /\ Playing'
    BY <1>1 DEF BleBuzzer, SomebodySilences, Playing
  <1>4. QED
    BY <1>2, <1>3 DEF BleBuzzer

\* The button, the record and the central stay as they are.
LEMMA ButtonKept ==
  ASSUME BleButton,
         UNCHANGED <<aio_btn_pushed, button_last_state, told, raced, conn, subs>>,
         \/ notif_pc' = notif_pc
         \/ notif_pc # "notify" /\ notif_pc' \notin {"notify", "again", "record"}
  PROVE  BleButton'
  BY DEF BleButton, Subscribed, Notified

-----------------------------------------------------------------------------
(* The steps of the BLE demo                                               *)

\* The inductive invariant holds initially.
LEMMA BleInitial == ASSUME BleInit PROVE BleIInv
  <1>1. /\ sound = "none" /\ timer = FALSE /\ timer_running = FALSE /\ file = FALSE
        /\ buttons = FALSE /\ adv = FALSE /\ conn = FALSE
        /\ accSent = FALSE /\ raced = FALSE
    BY DEF BleInit, ToneInit
  <1>2. /\ next_note = "end" /\ left = 0 /\ shell = "idle" /\ up = "no" /\ subs = {}
        /\ links = 0 /\ ble_thd_sem = 0 /\ aio_btn_pushed = 0
        /\ aio_digital_output_state = {} /\ edges = 0 /\ notif_pc = "boot"
        /\ button_last_state = 0 /\ notes = 0 /\ told = Nothing
    BY DEF BleInit, ToneInit
  <1>3. MaxNotes \in Nat /\ JingleNotes \in Nat /\ MaxEdges \in Nat /\ MaxLinks \in Nat
    BY BleAssumption, NotesAssumption
  <1>4. ToneTypeOK
    <2>1. timer \in BOOLEAN /\ timer_running \in BOOLEAN
          /\ file \in BOOLEAN
      BY <1>1
    <2>2. QED
      BY <1>1, <1>2, <1>3, <2>1 DEF ToneTypeOK
  <1>5. BleFlags /\ BleLabels /\ BlePlace
    <2>1. BleFlags
      BY <1>1 DEF BleFlags
    <2>2. QED
      BY <1>2, <1>3, <2>1 DEF BleLabels, BlePlace, Buttons
  <1>6. sound = "none" /\ ~timer
    BY <1>1
  <1>7. SomebodySilences /\ Playing
    BY <1>2, <1>6 DEF SomebodySilences, Playing
  <1>8. Subscribed /\ Notified
    BY <1>2 DEF Subscribed, Notified
  <1>9. QED
    BY <1>4, <1>5, <1>7, <1>8, BleInvParts DEF BleBuzzer, BleButton

\* The boot and the beacons of the shell.
LEMMA RadioStep ==
  ASSUME BleIInv, BtInit \/ cmd_ble_adv \/ cmd_ble_adv_ibeacon_refused
  PROVE  BleIInv'
  <1> USE DEF radio, link, thread, central, io
  <1>1. /\ UNCHANGED <<buzzer, conn, subs, links, ble_thd_sem, told, accSent,
                       aio_btn_pushed, aio_digital_output_state, edges, raced,
                       button_last_state, notes>>
        /\ notif_pc' = notif_pc \/ (notif_pc = "boot" /\ notif_pc' = "idle")
        /\ up' \in {up, "partly", "yes"}
        /\ buttons' = buttons \/ buttons' \in BOOLEAN
        /\ adv' = adv \/ adv' \in BOOLEAN
    BY DEF BtInit, cmd_ble_adv, cmd_ble_adv_ibeacon_refused
  <1>2. BleFlags /\ BleLabels /\ BlePlace /\ BleBuzzer /\ BleButton
    BY BleInvParts
  <1>3. BleFlags'
    BY <1>1, <1>2 DEF BleFlags
  <1>4. BleLabels' /\ BlePlace'
    BY <1>1, <1>2 DEF BleLabels, BlePlace
  <1>5. BleBuzzer'
    BY <1>1, <1>2, BuzzerKept
  <1>6. BleButton'
    BY <1>1, <1>2, ButtonKept
  <1>7. QED
    BY <1>3, <1>4, <1>5, <1>6, BleInvParts

\* The interrupt of the button.
LEMMA InterruptStep ==
  ASSUME BleIInv, button_stat_change
  PROVE  BleIInv'
  <1> USE DEF radio, link, thread, central, io
  <1>1. /\ UNCHANGED <<buzzer, up, buttons, adv, conn, subs, links, notif_pc,
                       button_last_state, notes, told, accSent,
                       aio_digital_output_state>>
        /\ aio_btn_pushed' \in Buttons /\ ble_thd_sem' = 1
        /\ edges < MaxEdges /\ edges' = edges + 1
        /\ raced' = (raced \/ (aio_btn_pushed' # aio_btn_pushed
                               /\ notif_pc \in Comparing))
    BY DEF button_stat_change
  <1>2. BleFlags /\ BleLabels /\ BlePlace /\ BleBuzzer /\ BleButton
    BY BleInvParts
  <1>3. BleFlags'
    BY <1>1, <1>2 DEF BleFlags
  <1>4. BleLabels' /\ BlePlace'
    BY <1>1, <1>2, BleAssumption DEF BleLabels, BlePlace
  <1>5. BleBuzzer'
    BY <1>1, <1>2, BuzzerKept
  <1>6. Notified'
    <2>1. SUFFICES ASSUME ~raced' PROVE Notified'
      BY DEF Notified
    <2>2. ~raced /\ (aio_btn_pushed' = aio_btn_pushed \/ notif_pc \notin Comparing)
      BY <1>1, <2>1
    <2>3. QED
      BY <1>1, <1>2, <2>2 DEF BleButton, Notified, Comparing
  <1>7. Subscribed'
    BY <1>1, <1>2 DEF BleButton, Subscribed
  <1>8. QED
    BY <1>3, <1>4, <1>5, <1>6, <1>7, BleInvParts DEF BleButton

\* The central: it connects, leaves, subscribes and writes.
LEMMA CentralStep ==
  ASSUME BleIInv,
         \/ Connect \/ Disconnect
         \/ \E service \in {"acc", "btn"} : ccc_cfg_changed(service)
  PROVE  BleIInv'
  <1> USE DEF radio, link, thread, central, io
  <1>1. /\ UNCHANGED <<buzzer, up, buttons, adv, notif_pc, button_last_state, notes,
                       aio_btn_pushed, aio_digital_output_state, edges, raced>>
        /\ \/ /\ ~conn /\ conn' \in BOOLEAN /\ UNCHANGED <<subs, told, accSent>>
              /\ links < MaxLinks /\ links' = links + 1
              /\ ble_thd_sem' \in {1, ble_thd_sem}
           \/ /\ conn' = FALSE /\ subs' = {} /\ told' = Nothing /\ accSent' = FALSE
              /\ UNCHANGED <<links, ble_thd_sem>>
           \/ /\ conn /\ conn' = conn /\ UNCHANGED <<links, ble_thd_sem>>
              /\ subs' \subseteq subs \cup {"acc", "btn"}
              /\ accSent' \in {FALSE, accSent}
              /\ \/ told' = Nothing
                 \/ told' = told /\ ("btn" \in subs' <=> "btn" \in subs)
    BY DEF Connect, Disconnect, ccc_cfg_changed, OnConnect
  <1>2. BleFlags /\ BleLabels /\ BlePlace /\ BleBuzzer /\ BleButton
    BY BleInvParts
  <1>3. BleFlags'
    <2>1. conn' \in BOOLEAN /\ accSent' \in BOOLEAN
      BY <1>1, <1>2 DEF BleFlags
    <2>2. QED
      BY <1>1, <1>2, <2>1 DEF BleFlags
  <1>4. BleLabels' /\ BlePlace'
    <2>1. told' \in Buttons \cup {Nothing} /\ subs' \subseteq {"acc", "btn"}
          /\ ble_thd_sem' \in {0, 1}
      BY <1>1, <1>2 DEF BleLabels
    <2>2. links' \in 0 .. MaxLinks
      <3>1. links' = links \/ (links < MaxLinks /\ links' = links + 1)
        BY <1>1
      <3>2. links \in 0 .. MaxLinks /\ MaxLinks \in Nat
        BY <1>2, BleAssumption DEF BleLabels
      <3>3. QED
        BY <3>1, <3>2
    <2>3. QED
      BY <1>1, <1>2, <2>1, <2>2 DEF BleLabels, BlePlace
  <1>5. BleBuzzer'
    BY <1>1, <1>2, BuzzerKept
  <1>6. Subscribed' /\ (told' = told \/ told' = Nothing)
    BY <1>1, <1>2 DEF BleButton, Subscribed
  <1>7. Notified'
    BY <1>1, <1>2, <1>6 DEF BleButton, Notified
  <1>8. QED
    BY <1>3, <1>4, <1>5, <1>6, <1>7, BleInvParts DEF BleButton

\* The output that the central writes sounds the buzzer or silences it.
LEMMA OutputStep == ASSUME BleIInv, write_aio_digital_output PROVE BleIInv'
  <1> USE DEF radio, link, thread, central, io
  <1>1. /\ UNCHANGED <<timer, timer_running, next_note, left, file, shell, up, buttons, adv,
                       conn, subs, links, ble_thd_sem, notif_pc, button_last_state,
                       notes, told, accSent, raced, aio_btn_pushed, edges>>
        /\ aio_digital_output_state' \in SUBSET {"buzzer"}
        /\ sound' = IF "buzzer" \in aio_digital_output_state' THEN "output" ELSE "none"
    BY DEF write_aio_digital_output, player
  <1>2. BleFlags /\ BleLabels /\ BlePlace /\ BleBuzzer /\ BleButton
    BY BleInvParts
  <1>3. BleFlags'
    BY <1>1, <1>2 DEF BleFlags
  <1>4. BleLabels' /\ BlePlace'
    BY <1>1, <1>2 DEF BleLabels, BlePlace
  <1>5. \/ sound' = "none"
        \/ sound' = "output" /\ aio_digital_output_state' = {"buzzer"}
    BY <1>1
  <1>6. ToneTypeOK'
    BY <1>1, <1>2, <1>5 DEF BleBuzzer, ToneTypeOK
  <1>7. SomebodySilences' /\ Playing'
    BY <1>1, <1>2, <1>5 DEF BleBuzzer, SomebodySilences, Playing
  <1>8. BleButton'
    BY <1>1, <1>2, ButtonKept
  <1>9. QED
    BY <1>3, <1>4, <1>6, <1>7, <1>8, BleInvParts DEF BleBuzzer

\* The player of songs and the tones of the shell: whoever makes the buzzer sound is
\* there to end it.
LEMMA NoiseStep ==
  ASSUME BleIInv, Noise
  PROVE  BleIInv'
  <1> USE DEF radio, link, thread, central, io, player
  <1>1. UNCHANGED <<up, buttons, adv, conn, subs, links, ble_thd_sem, notif_pc,
                    button_last_state, notes, told, accSent, aio_btn_pushed,
                    aio_digital_output_state, edges, raced>>
    BY DEF Noise
  <1>2. BleFlags /\ BleLabels /\ BlePlace /\ BleBuzzer /\ BleButton
    BY BleInvParts
  <1>3. BleFlags'
    BY <1>1, <1>2 DEF BleFlags
  <1>4. BleLabels' /\ BlePlace'
    BY <1>1, <1>2 DEF BleLabels, BlePlace
  <1>5. BleButton'
    BY <1>1, <1>2, ButtonKept
  <1>6. ToneTypeOK /\ SomebodySilences /\ Playing
    BY <1>2 DEF BleBuzzer
  <1>7. MaxNotes \in Nat
    BY NotesAssumption
  <1>8. BleBuzzer'
    <2>1. CASE next_note_f
      <3>1. /\ timer /\ shell' = shell
            /\ sound' = IF next_note = "tone" THEN "note" ELSE "none"
            /\ \/ /\ next_note # "end" /\ UNCHANGED <<timer, timer_running>>
                  /\ \/ /\ left > 0 /\ next_note' \in {"tone", "rest"} /\ left' = left - 1
                        /\ UNCHANGED file
                     \/ next_note' = "end" /\ file' = FALSE /\ UNCHANGED left
               \/ /\ next_note = "end" /\ timer' = FALSE /\ timer_running' = FALSE
                  /\ UNCHANGED <<next_note, left, file>>
        BY <2>1 DEF next_note_f, ReadNext, AfterLast, set_tone
      <3>2. timer' \in BOOLEAN /\ timer_running' \in BOOLEAN
            /\ file' \in BOOLEAN
        BY <1>6, <3>1 DEF ToneTypeOK
      <3>3. left' \in 0 .. MaxNotes /\ next_note' \in {"tone", "rest", "end"}
        <4>1. left' = left \/ (left > 0 /\ left' = left - 1)
          BY <3>1
        <4>2. next_note' = next_note \/ next_note' \in {"tone", "rest", "end"}
          BY <3>1
        <4>3. QED
          BY <1>6, <1>7, <4>1, <4>2 DEF ToneTypeOK
      <3>4. ToneTypeOK'
        BY <1>6, <3>1, <3>2, <3>3 DEF ToneTypeOK
      <3>5. (sound' = "note" => timer') /\ sound' # "output" /\ (timer' => timer_running')
        <4>1. CASE next_note = "end"
          <5>1. sound' = "none" /\ ~timer'
            BY <3>1, <4>1
          <5>2. QED
            BY <5>1
        <4>2. CASE next_note # "end"
          <5>1. timer' /\ timer_running'
            <6>1. timer' = timer /\ timer_running' = timer_running
              BY <3>1, <4>2
            <6>2. timer /\ timer_running
              BY <1>6, <3>1 DEF Playing
            <6>3. QED
              BY <6>1, <6>2
          <5>2. QED
            BY <3>1, <5>1
        <4>3. QED
          BY <4>1, <4>2
      <3>6. QED
        BY <1>1, <1>6, <3>4, <3>5 DEF BleBuzzer, SomebodySilences, Playing
    <2>2. CASE NoSong
      <3>1. /\ shell = "idle" /\ timer' = FALSE /\ file' = FALSE
            /\ UNCHANGED <<sound, timer_running, next_note, left, shell>>
        BY <2>2 DEF NoSong
      <3>2. timer' \in BOOLEAN /\ file' \in BOOLEAN /\ ~timer'
        BY <3>1
      <3>3. ToneTypeOK'
        BY <1>6, <3>1, <3>2 DEF ToneTypeOK
      <3>4. SomebodySilences' /\ Playing'
        BY <1>1, <1>6, <3>1, <3>2 DEF SomebodySilences, Playing
      <3>5. QED
        BY <3>3, <3>4 DEF BleBuzzer
    <2>3. CASE play_tone_bin
      <3>1. PICK first \in {"tone", "rest"}, n \in 1 .. MaxNotes :
                /\ sound' = IF first = "tone" THEN "note" ELSE "none"
                /\ timer' = TRUE /\ timer_running' = TRUE
                /\ shell' = shell
                /\ \/ /\ n > 1 /\ left' = n - 2 /\ file' = TRUE
                      /\ next_note' \in {"tone", "rest"}
                   \/ n = 1 /\ left' = 0 /\ file' = FALSE /\ next_note' = "end"
        BY <2>3 DEF play_tone_bin, set_tone, AfterLast
      <3>2. timer' \in BOOLEAN /\ timer_running' \in BOOLEAN
            /\ file' \in BOOLEAN
        BY <3>1
      <3>3. left' \in 0 .. MaxNotes /\ next_note' \in {"tone", "rest", "end"}
        BY <1>7, <3>1
      <3>4. ToneTypeOK'
        BY <1>6, <3>1, <3>2, <3>3 DEF ToneTypeOK
      <3>5. timer' /\ timer_running' /\ sound' # "output"
        BY <3>1
      <3>6. QED
        BY <1>1, <1>6, <3>4, <3>5 DEF BleBuzzer, SomebodySilences, Playing
    <2>4. CASE \/ NextTone \/ EndTone
               \/ \E note \in {"tone", "rest"} : StartTone(note)
      <3>1. /\ UNCHANGED <<timer, timer_running, next_note, left, file>>
            /\ \/ shell' = "tone" /\ sound' \in {"none", "note"}
               \/ shell' = "idle" /\ sound' = "none"
        BY <1>6, <2>4 DEF NextTone, EndTone, StartTone, set_tone,
           AfterTone
      <3>2. ToneTypeOK'
        BY <1>6, <3>1 DEF ToneTypeOK
      <3>3. SomebodySilences' /\ Playing'
        BY <1>1, <1>6, <3>1 DEF SomebodySilences, Playing
      <3>4. QED
        BY <3>2, <3>3 DEF BleBuzzer
    <2>5. QED
      BY <2>1, <2>2, <2>3, <2>4 DEF Noise, ToneCommand, ToneStep
  <1>9. QED
    BY <1>3, <1>4, <1>5, <1>8, BleInvParts

\* The steps of the thread that only read, and the notification of the acceleration.
LEMMA ReadingStep ==
  ASSUME BleIInv, Top \/ Unpark \/ NotifyAcc \/ CompareAgain
         \/ NotifyOthers
  PROVE  BleIInv'
  <1> USE DEF radio, link, thread, central, io
  <1>1. /\ UNCHANGED <<buzzer, up, buttons, adv, conn, subs, links,
                       button_last_state, notes, told, aio_btn_pushed,
                       aio_digital_output_state, edges, raced>>
        /\ ble_thd_sem' \in {0, ble_thd_sem}
        /\ accSent' = accSent \/ accSent' \in BOOLEAN
        /\ \/ notif_pc = "idle" /\ notif_pc' \in {"wait", "parked"}
           \/ notif_pc = "parked" /\ notif_pc' = "wait"
           \/ notif_pc = "wait" /\ notif_pc' = "compare"
           \/ notif_pc = "again" /\ notif_pc' = "las"
           \/ notif_pc = "again" /\ notif_pc' = "record"
              /\ aio_btn_pushed # button_last_state
           \/ notif_pc = "las" /\ notif_pc' = "idle"
    BY DEF Top, Unpark, NotifyAcc, CompareAgain, NotifyOthers,
       Move, Goto
  <1>2. BleFlags /\ BleLabels /\ BlePlace /\ BleBuzzer /\ BleButton
    BY BleInvParts
  <1>3. BleFlags'
    BY <1>1, <1>2 DEF BleFlags
  <1>4. BleLabels' /\ BlePlace'
    BY <1>1, <1>2 DEF BleLabels, BlePlace
  <1>5. BleBuzzer'
    BY <1>1, <1>2, BuzzerKept
  <1>6. Subscribed' /\ Notified'
    BY <1>1, <1>2 DEF BleButton, Subscribed, Notified
  <1>7. QED
    BY <1>3, <1>4, <1>5, <1>6, BleInvParts DEF BleButton

\* The comparison, and the notification of the button.
LEMMA NotifyStep ==
  ASSUME BleIInv, Compare \/ NotifyButton
  PROVE  BleIInv'
  <1> USE DEF radio, link, thread, central, io
  <1>1. UNCHANGED <<buzzer, up, buttons, adv, conn, subs, links, ble_thd_sem, notes,
                    accSent, aio_btn_pushed, aio_digital_output_state, edges>>
    BY DEF Compare, NotifyButton
  <1>2. BleFlags /\ BleLabels /\ BlePlace /\ BleBuzzer /\ BleButton
    BY BleInvParts
  <1>3. /\ notif_pc \in {"compare", "notify"} /\ notif_pc' \in {"notify", "again", "las"}
        /\ button_last_state' \in {button_last_state, aio_btn_pushed}
        /\ told' \in {told, aio_btn_pushed}
        /\ raced' = raced \/ raced' \in BOOLEAN
    BY DEF Compare, NotifyButton, Goto
  <1>4. BleFlags'
    BY <1>1, <1>2, <1>3 DEF BleFlags
  <1>5. BleLabels' /\ BlePlace'
    BY <1>1, <1>2, <1>3 DEF BleLabels, BlePlace
  <1>6. BleBuzzer'
    BY <1>1, <1>2, <1>3, BuzzerKept
  <1>7. CASE Compare /\ Wanted
    <2>1. /\ notif_pc' = "notify" /\ button_last_state' = aio_btn_pushed /\ told' = told
      BY <1>7 DEF Compare, Goto
    <2>2. Subscribed' /\ Notified'
      BY <1>1, <1>2, <2>1 DEF BleButton, Subscribed, Notified
    <2>3. QED
      BY <1>4, <1>5, <1>6, <2>2, BleInvParts DEF BleButton
  <1>8. CASE Compare /\ ~Wanted
    <2>1. /\ notif_pc = "compare" /\ notif_pc' = "again"
          /\ button_last_state' = button_last_state
          /\ told' = told /\ (raced' <=> raced)
      BY <1>8 DEF Compare, Goto
    <2>2. told # Nothing => aio_btn_pushed = button_last_state
      BY <1>2, <1>8 DEF BleButton, Subscribed, Wanted
    <2>3. Subscribed' /\ Notified'
      BY <1>1, <1>2, <2>1, <2>2 DEF BleButton, Subscribed, Notified
    <2>4. QED
      BY <1>4, <1>5, <1>6, <2>3, BleInvParts DEF BleButton
  <1>9. CASE NotifyButton
    <2>1. /\ notif_pc = "notify" /\ notif_pc' = "las"
          /\ button_last_state' = button_last_state
          /\ raced' = raced
          /\ told' = IF conn /\ "btn" \in subs THEN aio_btn_pushed ELSE told
      BY <1>9 DEF NotifyButton, Goto
    <2>2. (conn /\ "btn" \in subs) \/ told' = Nothing
      BY <1>2, <2>1 DEF BleButton, Subscribed
    <2>3. Subscribed' /\ Notified'
      BY <1>1, <1>2, <2>1, <2>2 DEF BleButton, Subscribed, Notified
    <2>4. QED
      BY <1>4, <1>5, <1>6, <2>3, BleInvParts DEF BleButton
  <1>10. QED
    BY <1>7, <1>8, <1>9

\* A press recorded for nobody plays the jingle, which ends its notes itself.
LEMMA JingleSteps ==
  ASSUME BleIInv, Record \/ JingleStep
  PROVE  BleIInv'
  <1> USE DEF radio, link, thread, central, io
  <1>1. UNCHANGED <<timer, timer_running, next_note, left, file, shell, up, buttons, adv,
                    conn, subs, links, ble_thd_sem, told, accSent, raced,
                    aio_btn_pushed, aio_digital_output_state, edges>>
    BY DEF Record, JingleStep, player
  <1>2. BleFlags /\ BleLabels /\ BlePlace /\ BleBuzzer /\ BleButton
    BY BleInvParts
  <1>3. JingleNotes \in Nat \ {0}
    BY BleAssumption
  <1>4. /\ \/ /\ notif_pc = "record" /\ button_last_state' = aio_btn_pushed
              /\ \/ notif_pc' = "jingle" /\ notes' = JingleNotes
                 \/ notif_pc' = "las" /\ UNCHANGED <<notes, sound>>
           \/ /\ notif_pc = "jingle" /\ notes' = notes - 1 /\ sound' = "none"
              /\ button_last_state' = button_last_state
              /\ \/ notes = 1 /\ notif_pc' = "las"
                 \/ notes # 1 /\ notif_pc' = "pause"
           \/ /\ notif_pc = "pause" /\ notif_pc' = "jingle" /\ notes' = notes
              /\ button_last_state' = button_last_state
        /\ sound' = sound \/ sound' = "none" \/ (sound' = "note" /\ notif_pc' = "jingle")
    BY DEF Record, JingleStep, LastNote, JinglePause, Goto, set_tone
  <1>5. BleFlags'
    BY <1>1, <1>2 DEF BleFlags
  <1>6. BleLabels'
    BY <1>1, <1>2, <1>4 DEF BleLabels
  <1>7. BlePlace' /\ Playing'
    BY <1>1, <1>2, <1>3, <1>4 DEF BlePlace, BleBuzzer, Playing
  <1>8. ToneTypeOK'
    BY <1>1, <1>2, <1>4 DEF BleBuzzer, ToneTypeOK
  <1>9. SomebodySilences'
    BY <1>1, <1>2, <1>4 DEF BleBuzzer, SomebodySilences
  <1>10. BleButton'
    BY <1>1, <1>2, <1>4 DEF BleButton, Subscribed, Notified
  <1>11. QED
    BY <1>5, <1>6, <1>7, <1>8, <1>9, <1>10, BleInvParts DEF BleBuzzer

\* A step of another component.
LEMMA BleStutter == ASSUME BleIInv, UNCHANGED bleVars PROVE BleIInv'
  <1> USE DEF radio, link, thread, central, io
  <1>1. BleFlags /\ BleLabels /\ BlePlace /\ BleBuzzer /\ BleButton
    BY BleInvParts
  <1>2. BleFlags'
    BY <1>1 DEF bleVars, BleFlags
  <1>3. BleLabels' /\ BlePlace'
    BY <1>1 DEF bleVars, BleLabels, BlePlace
  <1>4. BleBuzzer'
    BY <1>1, BuzzerKept DEF bleVars
  <1>5. BleButton'
    BY <1>1, ButtonKept DEF bleVars
  <1>6. QED
    BY <1>2, <1>3, <1>4, <1>5, BleInvParts

-----------------------------------------------------------------------------
(* The theorems on the BLE demo                                            *)

\* The inductive invariant holds in every run, wherever the interrupt, the callbacks of
\* the stack, the timer of the player and the shell fall between the steps of the thread.
THEOREM BleInvariant == BleSpec => []BleIInv
  <1>1. BleInit => BleIInv
    BY BleInitial
  <1>2. ASSUME BleIInv, [BleNext]_bleVars
        PROVE  BleIInv'
    <2>1. CASE BtInit \/ cmd_ble_adv \/ cmd_ble_adv_ibeacon_refused
      BY <1>2, <2>1, RadioStep
    <2>2. CASE Thread
      BY <1>2, <2>2, ReadingStep, NotifyStep, JingleSteps DEF Thread
    <2>3. CASE Noise
      BY <1>2, <2>3, NoiseStep
    <2>4. CASE button_stat_change
      BY <1>2, <2>4, InterruptStep
    <2>5. CASE \/ Connect \/ Disconnect
               \/ \E service \in {"acc", "btn"} : ccc_cfg_changed(service)
      BY <1>2, <2>5, CentralStep
    <2>6. CASE write_aio_digital_output
      BY <1>2, <2>6, OutputStep
    <2>7. CASE UNCHANGED bleVars
      BY <1>2, <2>7, BleStutter
    <2>8. QED
      BY <1>2, <2>1, <2>2, <2>3, <2>4, <2>5, <2>6, <2>7 DEF BleNext
  <1>3. QED
    BY <1>1, <1>2, PTL DEF BleSpec

\* Outside the branch that notifies, and unless the button changed between comparison
\* and notification, a central that was notified knows what the thread has on record.
THEOREM CentralKnowsRecord == BleSpec => []ToldIsRecorded
  <1>1. BleIInv => ToldIsRecorded
    BY DEF BleIInv, Notified, ToldIsRecorded
  <1>2. QED
    BY <1>1, BleInvariant, PTL

\* Whoever of the player, the shell and the jingle set the last note, somebody is left to
\* end it, and a buzzer that a central switched on is known to be on.
THEOREM BuzzerIsEnded == BleSpec => []SomebodySilences
  <1>1. BleIInv => SomebodySilences
    BY DEF BleIInv
  <1>2. QED
    BY <1>1, BleInvariant, PTL

-----------------------------------------------------------------------------
(* The rounds of ble_notif_thread                                          *)

\* The thread is not left waiting for a connection there is: a central that connects
\* between the test at the top of the loop and the wait has given the semaphore.
NoLostWakeUp == notif_pc = "parked" /\ conn /\ up = "yes" => ble_thd_sem = 1

\* The steps left of a round; a jingle takes two for each of its notes.
RoundLeft ==
    CASE notif_pc = "las" -> 1
      [] notif_pc = "jingle" -> 2 * notes
      [] notif_pc = "pause" -> 2 * notes + 1
      [] notif_pc = "record" -> 2 * JingleNotes + 2
      [] notif_pc \in {"again", "notify"} -> 2 * JingleNotes + 3
      [] notif_pc = "compare" -> 2 * JingleNotes + 4
      [] notif_pc = "wait" -> 2 * JingleNotes + 5
      [] notif_pc = "parked" -> 2 * JingleNotes + 6
      [] OTHER -> 2 * JingleNotes + 7

\* Every step of the thread brings it nearer to the top of its loop, and no interrupt,
\* callback, command or note of a song takes it back.
RoundAdvances ==
    [][/\ RoundLeft \in Nat
       /\ notif_pc' = notif_pc \/ notif_pc' = "idle" \/ RoundLeft' < RoundLeft]_bleVars

\* The thread waits only without a central, and every connection gives the semaphore.
LEMMA WakeUpStep ==
    ASSUME NoLostWakeUp, [BleNext]_bleVars
    PROVE  NoLostWakeUp'
  <1> USE DEF NoLostWakeUp, radio, link, thread, central, io
  <1>1. CASE BtInit
    BY <1>1 DEF BtInit
  <1>2. CASE Top
    BY <1>2 DEF Top, Move, Goto
  <1>3. CASE Unpark \/ NotifyAcc \/ Compare \/ NotifyButton \/ CompareAgain \/ NotifyOthers
    BY <1>3 DEF Unpark, NotifyAcc, Compare, NotifyButton, CompareAgain, NotifyOthers, Move, Goto
  <1>4. CASE Record \/ JingleStep
    BY <1>4 DEF Record, JingleStep, Goto
  <1>5. CASE Noise \/ write_aio_digital_output
    BY <1>5 DEF Noise, write_aio_digital_output
  <1>6. CASE cmd_ble_adv \/ cmd_ble_adv_ibeacon_refused \/ button_stat_change
    BY <1>6 DEF cmd_ble_adv, cmd_ble_adv_ibeacon_refused, button_stat_change
  <1>7. CASE Connect \/ Disconnect
    BY <1>7 DEF Connect, Disconnect, OnConnect
  <1>8. ASSUME NEW service \in {"acc", "btn"}, ccc_cfg_changed(service) PROVE NoLostWakeUp'
    BY <1>8 DEF ccc_cfg_changed
  <1>9. CASE UNCHANGED bleVars
    BY <1>9 DEF bleVars
  <1> QED
    BY <1>1, <1>2, <1>3, <1>4, <1>5, <1>6, <1>7, <1>8, <1>9 DEF BleNext, Thread

\* A central that connects is served although the thread was waiting for it, whenever
\* the connection falls.
THEOREM ThreadIsWoken == BleSpec => []NoLostWakeUp
  <1>1. BleInit => NoLostWakeUp
    BY DEF BleInit, NoLostWakeUp
  <1> QED
    BY <1>1, WakeUpStep, PTL DEF BleSpec

\* Every round of the thread ends, the jingle in it too: with ThreadIsWoken, what remains
\* of Served is that the thread runs.
THEOREM RoundsEnd == BleSpec => RoundAdvances
  <1> DEFINE Advances ==
        /\ RoundLeft \in Nat
        /\ notif_pc' = notif_pc \/ notif_pc' = "idle" \/ RoundLeft' < RoundLeft
  <1>1. BleIInv /\ [BleNext]_bleVars => [Advances]_bleVars
    <2> SUFFICES ASSUME BleIInv, BleNext
                 PROVE  /\ RoundLeft \in Nat
                        /\ notif_pc' = notif_pc \/ notif_pc' = "idle" \/ RoundLeft' < RoundLeft
      OBVIOUS
    <2>1. BlePlace /\ Playing /\ JingleNotes \in Nat \ {0} /\ notes \in Nat
      BY BleInvParts, BleAssumption DEF BleBuzzer, BlePlace
    <2>2. RoundLeft \in Nat
      BY <2>1 DEF RoundLeft
    <2>3. CASE Thread
      <3> USE DEF radio, link, thread, central, io
      <3>1. CASE Top \/ Unpark \/ NotifyAcc \/ Compare \/ NotifyButton \/ CompareAgain
        <4>1. \/ notif_pc = "idle" /\ notif_pc' \in {"wait", "parked"}
              \/ notif_pc = "parked" /\ notif_pc' = "wait"
              \/ notif_pc = "wait" /\ notif_pc' = "compare"
              \/ notif_pc = "compare" /\ notif_pc' \in {"notify", "again"}
              \/ notif_pc \in {"notify", "again"} /\ notif_pc' \in {"record", "las"}
          BY <3>1 DEF Top, Unpark, NotifyAcc, Compare, NotifyButton, CompareAgain, Move, Goto
        <4> QED
          BY <2>1, <2>2, <4>1 DEF RoundLeft
      <3>2. CASE Record
        <4>1. notif_pc = "record" /\ (notif_pc' = "las" \/ (notif_pc' = "jingle" /\ notes' = JingleNotes))
          BY <3>2 DEF Record
        <4> QED
          BY <2>1, <2>2, <4>1 DEF RoundLeft
      <3>3. CASE JingleStep
        <4>1. \/ notif_pc = "jingle" /\ notes' = notes - 1 /\ notif_pc' \in {"las", "pause"}
              \/ notif_pc = "pause" /\ notes' = notes /\ notif_pc' = "jingle"
          BY <3>3 DEF JingleStep, Goto
        <4>2. notes > 0
          BY <2>1, <4>1 DEF BlePlace, Playing
        <4> QED
          BY <2>1, <2>2, <4>1, <4>2 DEF RoundLeft
      <3>4. CASE NotifyOthers
        BY <2>2, <3>4 DEF NotifyOthers, Move, Goto
      <3> QED
        BY <2>3, <3>1, <3>2, <3>3, <3>4 DEF Thread
    <2>4. CASE BtInit
      BY <2>2, <2>4 DEF BtInit
    <2>5. CASE ~Thread /\ ~BtInit
      <3>1. notif_pc' = notif_pc
        BY <2>5 DEF BleNext, Noise, cmd_ble_adv, cmd_ble_adv_ibeacon_refused, button_stat_change,
                    Connect, Disconnect, ccc_cfg_changed, write_aio_digital_output, thread
      <3> QED
        BY <2>2, <3>1
    <2> QED
      BY <2>3, <2>4, <2>5
  <1> QED
    BY <1>1, BleInvariant, PTL DEF RoundAdvances, BleSpec

=============================================================================
