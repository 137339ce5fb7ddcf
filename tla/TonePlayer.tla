----------------------------- MODULE TonePlayer -----------------------------
(***************************************************************************)
(* The buzzer of samples/tmo_shell and those who sound it: the player of   *)
(* tone files (tmo_tone_player.c), whose timer takes one note of the open  *)
(* file after the other in interrupts, and the tones of the shell          *)
(* (tmo_buzzer.c), whose caller sleeps while the buzzer sounds.  BleDemo   *)
(* adds the jingle of the button and the output the central switches.      *)
(*                                                                         *)
(* All of them set the one pulse width channel: what counts is whether it  *)
(* sounds, and by whom, so a pitch is audible or silence.  Files are well-formed: a     *)
(* note has a duration of at least 1 ms.                                   *)
(***************************************************************************)
EXTENDS Integers

CONSTANT MaxNotes      \* bound for the notes of a file

ASSUME NotesAssumption == MaxNotes \in Nat \ {0}

VARIABLES
    sound,           \* what the channel was last set to: "none", a "note", or the
                     \* "output" of a central
    timer,           \* next_tone is armed
    timer_running,
    next_note,       \* what is played next; "end" is the zeroed note
    left,            \* notes of tone_bin that were not read yet
    file,            \* tone_bin is open
    shell            \* where the shell thread is, as far as it makes noise

player == <<timer, timer_running, next_note, left, file>>
buzzer == <<sound, player, shell>>

ToneInit ==
    /\ sound = "none" /\ timer = FALSE /\ timer_running = FALSE
    /\ next_note = "end" /\ left = 0 /\ file = FALSE
    /\ shell = "idle"

-----------------------------------------------------------------------------
\* set_tone and pwm_set_frequency: the last one to set the pitch is heard.
set_tone(note) == sound' = IF note = "tone" THEN "note" ELSE "none"

\* What fs_read leaves in next_note at the end of the file.
AfterLast == "end"

\* The read of the note after the one that begins to sound.
ReadNext ==
    IF left > 0
    THEN /\ next_note' \in {"tone", "rest"} /\ left' = left - 1
         /\ UNCHANGED file
    ELSE /\ next_note' = AfterLast /\ file' = FALSE
         /\ UNCHANGED left

\* next_note_f: the timer expires, in an interrupt.
next_note_f ==
    /\ timer
    /\ set_tone(next_note)
    /\ IF next_note # "end"
       THEN ReadNext /\ UNCHANGED <<timer, timer_running>>
       ELSE /\ timer' = FALSE /\ timer_running' = FALSE
            /\ UNCHANGED <<next_note, left, file>>
    /\ UNCHANGED shell

\* play_tone_bin fails: the file cannot be opened or is empty.  A song that was
\* playing has been stopped, its last tone has not.
NoSong ==
    /\ shell = "idle"
    /\ timer' = FALSE /\ file' = FALSE
    /\ UNCHANGED <<sound, timer_running, next_note, left, shell>>

\* play_tone_bin of a file of n notes, its first one audible or a rest.  The timer
\* of a song that still plays is stopped first, so nothing happens in between.
play_tone_bin ==
    /\ shell = "idle"
    /\ \E first \in {"tone", "rest"}, n \in 1 .. MaxNotes :
        /\ set_tone(first)
        /\ timer' = TRUE /\ timer_running' = TRUE
        /\ \/ n > 1 /\ left' = n - 2 /\ file' = TRUE /\ next_note' \in {"tone", "rest"}
           \/ n = 1 /\ left' = 0 /\ file' = FALSE /\ next_note' = AfterLast
    /\ UNCHANGED shell

\* tmo buzzer tone and tmo buzzer ramp: the shell thread sleeps in them; the pitch
\* of a tone may be 0, and any pitch of the ramp follows another.
StartTone(note) ==
    /\ shell = "idle" /\ shell' = "tone"
    /\ set_tone(note)
    /\ UNCHANGED player

NextTone ==
    /\ shell = "tone"
    /\ set_tone("tone")
    /\ UNCHANGED <<player, shell>>

\* The pitch the tones end with.
AfterTone == "rest"

EndTone ==
    /\ shell = "tone" /\ shell' = "idle"
    /\ set_tone(AfterTone)
    /\ UNCHANGED player

ToneCommand ==
    \/ play_tone_bin
    \/ NoSong
    \/ \E note \in {"tone", "rest"} : StartTone(note)

ToneStep == next_note_f \/ NextTone \/ EndTone

ToneTypeOK ==
    /\ sound \in {"none", "note", "output"} /\ timer \in BOOLEAN /\ timer_running \in BOOLEAN
    /\ next_note \in {"tone", "rest", "end"} /\ left \in 0 .. MaxNotes
    /\ file \in BOOLEAN /\ shell \in {"idle", "tone"}
=============================================================================
