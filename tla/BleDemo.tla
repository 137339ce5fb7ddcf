------------------------------ MODULE BleDemo ------------------------------
(***************************************************************************)
(* The Bluetooth demo of samples/tmo_shell (tmo_ble_demo.c): the thread    *)
(* that notifies the central of the acceleration, the button, the location *)
(* and the battery, the interrupt of the button, the callbacks of the      *)
(* stack and the shell commands that advertise.  It shares the buzzer with *)
(* the tones of TonePlayer.                                                *)
(*                                                                         *)
(* The interrupt and the callbacks run between any two steps of the        *)
(* thread; each access of the thread to a shared variable is a step.  The  *)
(* stack (external) delivers a notification to a central that subscribed,  *)
(* and withdraws the subscriptions of a central that leaves.               *)
(***************************************************************************)
EXTENDS TonePlayer

CONSTANTS
    JingleNotes,     \* the notes of the jingle: 5 in the code
    MaxEdges,        \* bound for the interrupts of the button
    MaxLinks         \* bound for the connections

ASSUME BleAssumption ==
    /\ JingleNotes \in Nat \ {0} /\ MaxEdges \in Nat /\ MaxLinks \in Nat

VARIABLES
    up,              \* "no", "yes", or "partly" when advertising failed at boot
    buttons,         \* setup_buttons has added its callback
    adv,             \* whether a beacon is advertised: every one is connectable
    conn,            \* whether a central is connected
    subs,            \* its subscriptions: acc_notify, aio_btn_notify
    ble_thd_sem,     \* update_sem is left out: it only cuts the wait for it short
    aio_btn_pushed,
    aio_digital_output_state,
    notif_pc,        \* where ble_notif_thread is
    button_last_state,
    notes,           \* notes of the jingle that are left
    told,            \* ghost: the state of the button the central was notified of
    raced,           \* ghost: the button changed between the comparison and the
                     \* notification, and no notification was begun since
    accSent,         \* ghost: the acceleration was notified since the subscription
    edges, links

Buttons == {0, 1}
Nothing == -1

radio == <<up, buttons, adv>>
link == <<conn, subs, links>>
thread == <<notif_pc, button_last_state, notes>>
central == <<told, accSent>>
io == <<aio_btn_pushed, aio_digital_output_state, edges>>
bleVars == <<buzzer, radio, link, ble_thd_sem, thread, central, io, raced>>

BleInit ==
    /\ ToneInit
    /\ up = "no" /\ buttons = FALSE /\ adv = FALSE
    /\ conn = FALSE /\ subs = {} /\ links = 0
    /\ ble_thd_sem = 0
    /\ aio_btn_pushed = 0 /\ aio_digital_output_state = {} /\ edges = 0
    /\ notif_pc = "boot" /\ button_last_state = 0 /\ notes = 0
    /\ told = Nothing /\ accSent = FALSE
    /\ raced = FALSE

-----------------------------------------------------------------------------
(* Boot and the shell                                                      *)

\* tmo_ble_demo_init: it returns early, without the sensors, the callback for
\* connections and the button, if the stack or its advertising does not start;
\* setup_buttons may fail on its own.
BtInit ==
    /\ notif_pc = "boot" /\ notif_pc' = "idle"
    /\ \/ up' = "partly" /\ UNCHANGED <<buttons, adv>>
       \/ up' = "yes" /\ adv' = TRUE /\ buttons' \in BOOLEAN
    /\ UNCHANGED <<buzzer, link, ble_thd_sem, central, io, raced,
                   button_last_state, notes>>

\* cmd_ble_adv_conn, cmd_ble_adv_ebeacon and cmd_ble_adv_ibeacon: bt_le_adv_stop and
\* bt_le_adv_start of another beacon, connectable like the others; it may fail.
cmd_ble_adv ==
    /\ notif_pc # "boot" /\ shell = "idle"
    /\ adv' \in BOOLEAN
    /\ UNCHANGED <<up, buttons, buzzer, link, ble_thd_sem, thread, central, io, raced>>

\* cmd_ble_adv_ibeacon refuses its arguments (a group of the uuid that is missing or
\* short, a number out of range, too many arguments) with the advertising stopped.
cmd_ble_adv_ibeacon_refused ==
    /\ notif_pc # "boot" /\ shell = "idle"
    /\ adv' = FALSE
    /\ UNCHANGED <<up, buttons, buzzer, link, ble_thd_sem, thread, central, io, raced>>

-----------------------------------------------------------------------------
(* Interrupts and callbacks of the stack                                   *)

\* The steps in which a change of the button goes unnoticed by the thread, or is
\* noticed twice: from the comparison to the notification.
Comparing == {"notify", "again", "record", "jingle"}

\* button_stat_change, for either edge; a bounce may leave the state as it was.
button_stat_change ==
    /\ buttons /\ edges < MaxEdges /\ edges' = edges + 1
    /\ aio_btn_pushed' \in Buttons
    /\ ble_thd_sem' = 1
    /\ raced' = (raced \/ (aio_btn_pushed' # aio_btn_pushed /\ notif_pc \in Comparing))
    /\ UNCHANGED <<buzzer, radio, link, thread, central,
                   aio_digital_output_state>>

\* Faulty variant: the thread is not woken up.
F_OnConnect == ble_thd_sem

\* What ble_connected leaves in ble_thd_sem.
OnConnect == 1

\* ble_connected, called for attempts that fail as well; it is registered only when
\* the demo came up.
Connect ==
    /\ notif_pc # "boot" /\ adv /\ ~conn /\ links < MaxLinks
    /\ conn' \in BOOLEAN /\ links' = links + 1
    /\ ble_thd_sem' = IF up = "yes" THEN OnConnect ELSE ble_thd_sem
    /\ UNCHANGED <<buzzer, radio, subs, thread, central, io, raced>>

Disconnect ==
    /\ conn /\ conn' = FALSE
    /\ subs' = {}
    /\ told' = Nothing /\ accSent' = FALSE
    /\ UNCHANGED <<buzzer, radio, links, ble_thd_sem, thread, io, raced>>

\* The callbacks for a change of the client configuration.
ccc_cfg_changed(service) ==
    /\ conn
    /\ subs' = IF service \in subs THEN subs \ {service} ELSE subs \cup {service}
    /\ accSent' = IF service = "acc" THEN FALSE ELSE accSent
    /\ told' = IF service = "btn" THEN Nothing ELSE told
    /\ UNCHANGED <<buzzer, radio, conn, links, ble_thd_sem, thread, io, raced>>

\* write_aio_digital_output: the lights and the buzzer.
write_aio_digital_output ==
    /\ conn
    /\ aio_digital_output_state' \in SUBSET {"buzzer"}
    /\ sound' = IF "buzzer" \in aio_digital_output_state' THEN "output" ELSE "none"
    /\ UNCHANGED <<player, shell, radio, link, ble_thd_sem, thread, central, raced,
                   aio_btn_pushed, edges>>

-----------------------------------------------------------------------------
(* ble_notif_thread                                                        *)

Goto(from, to) == notif_pc = from /\ notif_pc' = to

\* A step that reads and goes on.
Move(from, to) ==
    /\ Goto(from, to)
    /\ UNCHANGED <<buzzer, radio, link, ble_thd_sem, central, io, raced,
                   button_last_state, notes>>

\* The top of the loop: without a central the thread waits for one, or the button.
Top == Move("idle", IF conn THEN "wait" ELSE "parked")

Unpark ==
    /\ Goto("parked", "wait")
    /\ ble_thd_sem = 1 /\ ble_thd_sem' = 0
    /\ UNCHANGED <<buzzer, radio, link, central, io, raced,
                   button_last_state, notes>>

\* k_sem_take(&update_sem, K_MSEC(200)) gets it or times out; then the acceleration.
NotifyAcc ==
    /\ Goto("wait", "compare")
    /\ accSent' = (accSent \/ (conn /\ "acc" \in subs))
    /\ UNCHANGED <<buzzer, radio, link, ble_thd_sem, io, raced, told,
                   button_last_state, notes>>

\* Faulty variant: only a press is reported.
F_Wanted == conn /\ "btn" \in subs /\ aio_btn_pushed = 1 /\ button_last_state = 0

\* The condition of the first branch.
Wanted == conn /\ "btn" \in subs /\ aio_btn_pushed # button_last_state

\* The value of the button is read again for the record, and again to be notified.
Compare ==
    /\ Goto("compare", IF Wanted THEN "notify" ELSE "again")
    /\ button_last_state' = IF Wanted THEN aio_btn_pushed ELSE button_last_state
    /\ raced' = (raced /\ ~Wanted)
    /\ UNCHANGED <<buzzer, radio, link, ble_thd_sem, central, io,
                   notes>>

NotifyButton ==
    /\ Goto("notify", "las")
    /\ told' = IF conn /\ "btn" \in subs THEN aio_btn_pushed ELSE told
    /\ UNCHANGED <<buzzer, radio, link, ble_thd_sem, io, raced, accSent,
                   button_last_state, notes>>

\* The branches for nobody who listens compare afresh: a press plays the jingle.
CompareAgain ==
    Move("again", IF aio_btn_pushed = button_last_state THEN "las" ELSE "record")

\* The note that sounds is the last one of the jingle.
LastNote == notes = 1

\* tmo_play_jingle: a note and a pause for each of its notes.
Record ==
    /\ notif_pc = "record"
    /\ button_last_state' = aio_btn_pushed
    /\ IF aio_btn_pushed = 1
       THEN notif_pc' = "jingle" /\ notes' = JingleNotes /\ set_tone("tone")
       ELSE notif_pc' = "las" /\ UNCHANGED <<notes, sound>>
    /\ UNCHANGED <<player, shell, radio, link, ble_thd_sem, central, io, raced>>

\* Faulty variant: the pitch stays after the last note.
F_JinglePause == IF LastNote THEN "tone" ELSE "rest"

\* The pitch a note of the jingle ends with.
JinglePause == "rest"

JingleStep ==
    /\ \/ /\ notif_pc = "jingle" /\ notes' = notes - 1
          /\ set_tone(JinglePause)
          /\ notif_pc' = IF LastNote THEN "las" ELSE "pause"
       \/ /\ Goto("pause", "jingle")
          /\ set_tone("tone") /\ UNCHANGED notes
    /\ UNCHANGED <<player, shell, radio, link, ble_thd_sem, central, io, raced,
                   button_last_state>>

\* The location is notified to one who listens, then the level of the battery if it
\* is another than in the last round; neither disturbs the rest.
NotifyOthers == Move("las", "idle")

Thread ==
    \/ Top \/ Unpark \/ NotifyAcc \/ Compare \/ NotifyButton \/ CompareAgain
    \/ Record \/ JingleStep \/ NotifyOthers

-----------------------------------------------------------------------------
Noise ==
    /\ notif_pc # "boot"
    /\ ToneCommand \/ ToneStep
    /\ UNCHANGED <<radio, link, ble_thd_sem, thread, central, io, raced>>

BleNext ==
    \/ BtInit \/ Thread \/ Noise
    \/ cmd_ble_adv \/ cmd_ble_adv_ibeacon_refused
    \/ button_stat_change \/ Connect \/ Disconnect
    \/ \E service \in {"acc", "btn"} : ccc_cfg_changed(service)
    \/ write_aio_digital_output

BleSpec == BleInit /\ [][BleNext]_bleVars

\* The thread runs; nothing is assumed of the shell, the timer and the central.
BleFairSpec ==
    /\ BleSpec
    /\ WF_bleVars(BtInit)
    /\ WF_bleVars(Thread)

-----------------------------------------------------------------------------
BleTypeOK ==
    /\ ToneTypeOK
    /\ up \in {"no", "yes", "partly"} /\ buttons \in BOOLEAN /\ adv \in BOOLEAN
    /\ conn \in BOOLEAN /\ subs \subseteq {"acc", "btn"}
    /\ ble_thd_sem \in {0, 1}
    /\ aio_btn_pushed \in Buttons /\ button_last_state \in Buttons
    /\ aio_digital_output_state \subseteq {"buzzer"}
    /\ notif_pc \in {"boot", "idle", "parked", "wait", "compare", "notify", "again",
               "record", "jingle", "pause", "las"}
    /\ notes \in 0 .. JingleNotes /\ (notif_pc = "jingle" => notes > 0)
    /\ told \in Buttons \cup {Nothing}
    /\ raced \in BOOLEAN /\ accSent \in BOOLEAN
    /\ edges \in 0 .. MaxEdges /\ links \in 0 .. MaxLinks

\* A central that was notified of the button knows what the thread takes it to know,
\* outside the branch that notifies.  The exception is an interrupt between the
\* comparison and the notification: the button is read again for each of the two, and
\* a press that is over by then leaves the central with "released" for a press on
\* record, or without a press that is on record.
ToldIsRecorded ==
    /\ BleTypeOK
    /\ told # Nothing /\ ~raced /\ notif_pc # "notify" => told = button_last_state

\* A note never sounds with nobody left to end it: the player, the shell or the jingle
\* that plays on will, even if another of them set the pitch, or set another.  The
\* exception is a song that was stopped for a file that cannot be opened.  What a
\* central switched on is no note: it sounds on when the central leaves, for as long as
\* no note follows, and then any central can read that it is on.
SomebodySilences ==
    /\ sound = "note" => \/ timer \/ shell = "tone" \/ notif_pc = "jingle"
                         \/ (timer_running /\ ~timer)
    /\ sound = "output" => aio_digital_output_state = {"buzzer"}

\* A central that stays and asked for the acceleration gets it, and one that asked for
\* the button hears of a change, although the thread may have been waiting for a
\* connection.
Served ==
    /\ (conn /\ up = "yes" /\ "acc" \in subs) ~> (accSent \/ ~conn \/ "acc" \notin subs)
    /\ (conn /\ up = "yes" /\ "btn" \in subs /\ aio_btn_pushed # button_last_state)
         ~> (told = aio_btn_pushed \/ raced \/ ~conn \/ "btn" \notin subs
             \/ aio_btn_pushed = button_last_state)

-----------------------------------------------------------------------------
(* The inductive invariant                                                 *)

\* A song that is armed is running, and between two notes of the jingle one is left.
Playing == (timer => timer_running) /\ (notif_pc = "pause" => notes > 0)

\* Only a central that is subscribed has been notified.
Subscribed == told # Nothing => conn /\ "btn" \in subs

\* While the button keeps still, what is on record is what is about to be notified, what
\* a central was notified of is what is on record, and a press without a notification
\* is recorded only for nobody who listens.
Notified ==
    ~raced =>
        /\ notif_pc = "notify" => button_last_state = aio_btn_pushed
        /\ notif_pc # "notify" /\ told # Nothing => told = button_last_state
        /\ notif_pc = "again" /\ told # Nothing => button_last_state = aio_btn_pushed
        /\ notif_pc = "record" => told = Nothing

BleIInv == BleTypeOK /\ SomebodySilences /\ Playing /\ Subscribed /\ Notified

=============================================================================
