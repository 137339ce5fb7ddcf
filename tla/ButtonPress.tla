---------------------------- MODULE ButtonPress ----------------------------
(***************************************************************************)
(* The button module (samples/button_press_cb/src/button.c) and the sample *)
(* that uses it (main.c): both edges of the pin restart a debounce timer;  *)
(* of the debounced events every other is the press, which starts the      *)
(* timeout timer, and the one after it the release.  The registered        *)
(* callback learns of a release as a normal press, or of the timeout.      *)
(*                                                                         *)
(* The handlers of the pin and of the two timers run in interrupts,        *)
(* between any two steps of the main thread.  Time is counted in units     *)
(* that are long against a run of the thread: it passes while main sleeps, *)
(* polls or is done.  Timers that expire in the same unit do so in any     *)
(* order, as K_MSEC rounds to clock ticks and k_uptime_get to              *)
(* milliseconds.                                                           *)
(***************************************************************************)
EXTENDS Integers

CONSTANTS
    DEBOUNCE,    \* 50 ms, in units of time
    FACTORY_RESET_TIMEOUT,   \* the timeout of the first configuration
    TimeCap      \* bound for the time since a press

ASSUME ConstAssumption ==
    /\ DEBOUNCE \in Nat \ {0}
    /\ FACTORY_RESET_TIMEOUT \in Nat /\ FACTORY_RESET_TIMEOUT >= 2
    /\ TimeCap \in Nat /\ TimeCap > FACTORY_RESET_TIMEOUT

VARIABLES
    pin,             \* the button: "up" or "down"
    armed,           \* whether an edge interrupts
    button_state,
    pressed,         \* last_button_press_time is not 0
    since,           \* time since last_button_press_time, up to TimeCap
    max_button_press_timeout,
    registered_callback,   \* whether there is one
    debounce_timer, timeout_timer,   \* time left, or Off
    main_pc,         \* where the main thread is
    timeout,         \* the parameter of the configuration main sets up
    level,           \* ghost: the pin at the last debounced event
    glitch,          \* ghost: an event was debounced without a change of the pin,
                     \* or the module armed while the button was down
    report,          \* ghost: the report on the last press, or NoReport
    again            \* ghost: there was another report on the same press

Off == -1
NoReport == [type |-> "none", pin |-> "up"]

press == <<pressed, since>>
timers == <<debounce_timer, timeout_timer>>
config == <<max_button_press_timeout, registered_callback>>
observed == <<level, glitch, report, again>>
buttonVars ==
    <<pin, armed, button_state, press, config, timers, main_pc, timeout, observed>>

ButtonInit ==
    /\ pin \in {"up", "down"}
    /\ armed = FALSE
    /\ button_state = "deinit"
    /\ pressed = FALSE /\ since = 0
    /\ max_button_press_timeout = 0 /\ registered_callback = FALSE
    /\ debounce_timer = Off /\ timeout_timer = Off
    /\ main_pc = "init" /\ timeout = FACTORY_RESET_TIMEOUT
    /\ level = "up" /\ glitch = FALSE /\ report = NoReport /\ again = FALSE

-----------------------------------------------------------------------------
(* The interrupts                                                          *)

\* The button is pressed, released or bounces; button_press_handler restarts
\* the debounce timer.
Edge ==
    /\ pin' = IF pin = "up" THEN "down" ELSE "up"
    /\ IF armed
       THEN debounce_timer' = DEBOUNCE /\ button_state' = "debouncing"
       ELSE UNCHANGED <<debounce_timer, button_state>>
    /\ UNCHANGED <<armed, press, config, timeout_timer, main_pc, timeout, observed>>

\* The callback of the sample wakes main up if it sleeps.
Wakeup == main_pc' = IF main_pc = "sleep" THEN "woken" ELSE main_pc

\* The registered callback is invoked.
Report(type) ==
    /\ report' = [type |-> type, pin |-> pin]
    /\ again' = (again \/ report # NoReport)
    /\ Wakeup

NothingReported == UNCHANGED <<report, again, main_pc>>

\* button_timeout_handler; last_button_press_time is restored by it.
button_timeout_handler ==
    /\ timeout_timer = 0
    /\ timeout_timer' = Off
    /\ button_state' = "timeout"
    /\ IF registered_callback THEN Report("timeout") ELSE NothingReported
    /\ UNCHANGED <<pin, armed, press, config, debounce_timer, timeout, level, glitch>>

\* Faulty variant: the time out of a press is not started.
F_StartTimeout == Off

\* What the timeout timer is started with for a press.
StartTimeout == max_button_press_timeout

\* "button press detected"
PressDetected ==
    /\ pressed' = TRUE /\ since' = 0
    /\ timeout_timer' = StartTimeout
    /\ button_state' = "debounced"
    /\ report' = NoReport /\ again' = FALSE
    /\ UNCHANGED main_pc

\* Faulty variant: the release is always a normal one unless the state says
\* timeout, which the handler has just overwritten.
F_IsNormal == TRUE

\* The state the handler tests is the one it has set before.
IsNormal == since < max_button_press_timeout

\* "button release detected"
ReleaseDetected ==
    /\ timeout_timer' = Off
    /\ IF IsNormal THEN Report("normal") ELSE NothingReported
    /\ pressed' = FALSE
    /\ button_state' = "init"
    /\ UNCHANGED since

\* An event after the module was shut down, or a release while it is.
EventIgnored(state) ==
    /\ timeout_timer' = Off
    /\ button_state' = state
    /\ UNCHANGED press /\ NothingReported

\* The edges have settled.
button_debounce_timer_handler ==
    /\ debounce_timer = 0
    /\ debounce_timer' = Off
    /\ level' = pin /\ glitch' = (glitch \/ pin = level)
    /\ CASE button_state = "deinit" -> EventIgnored("deinit")
         [] button_state # "deinit" /\ ~pressed -> PressDetected
         [] button_state # "deinit" /\ pressed ->
                IF registered_callback THEN ReleaseDetected ELSE EventIgnored("debounced")
    /\ UNCHANGED <<pin, armed, config, timeout>>

\* One unit of time later.
Left(timer) == IF timer = Off THEN Off ELSE timer - 1

\* Time passes; a timer that has expired comes first.
UnitPasses ==
    /\ main_pc \in {"sleep", "poll", "end"}
    /\ debounce_timer # 0 /\ timeout_timer # 0
    /\ debounce_timer' = Left(debounce_timer)
    /\ timeout_timer' = Left(timeout_timer)
    /\ since' = IF pressed /\ since < TimeCap THEN since + 1 ELSE since
    /\ UNCHANGED <<pin, armed, button_state, pressed, config, main_pc, timeout, observed>>

-----------------------------------------------------------------------------
(* The main thread                                                         *)

\* main after an initialization: it waits for a callback, or is done.
AfterInit == IF timeout = FACTORY_RESET_TIMEOUT THEN "sleep" ELSE "end"

\* button_press_module_init: unless the module is busy the parameters are
\* stored.
InitConfig ==
    /\ main_pc = "init"
    /\ IF button_state \in {"error", "deinit"}
       THEN /\ max_button_press_timeout' = timeout /\ registered_callback' = TRUE
            /\ main_pc' = "arm"
       ELSE main_pc' = AfterInit /\ UNCHANGED config
    /\ UNCHANGED <<pin, armed, button_state, press, timers, timeout, observed>>

\* The pin or its interrupt cannot be configured, or not be disconnected.
ConfigureFails ==
    /\ main_pc \in {"arm", "disarm"}
    /\ button_state' = "error"
    /\ main_pc' = IF main_pc = "arm" THEN AfterInit ELSE "reinit"
    /\ UNCHANGED <<pin, armed, press, config, timers, timeout, observed>>

\* Edges interrupt, and the handler is in place.
InitArm ==
    /\ main_pc = "arm"
    /\ armed' = TRUE
    /\ level' = pin /\ glitch' = (glitch \/ pin = "down")
    /\ main_pc' = "timers"
    /\ UNCHANGED <<pin, button_state, press, config, timers, timeout, report, again>>

\* The timers are initialized only now: what becomes of one that an edge has
\* started already is undefined.
InitTimers ==
    /\ main_pc = "timers"
    /\ debounce_timer' \in {debounce_timer, Off}
    /\ timeout_timer' \in {timeout_timer, Off}
    /\ main_pc' = "ready"
    /\ UNCHANGED <<pin, armed, button_state, press, config, timeout, observed>>

\* "Set state of button as configured"
InitDone ==
    /\ main_pc = "ready"
    /\ button_state' = "init"
    /\ main_pc' = AfterInit
    /\ UNCHANGED <<pin, armed, press, config, timers, timeout, observed>>

\* main has been woken up: after a timeout it waits for the release, then it
\* shuts the module down if that is initialized.
Woken ==
    /\ \/ main_pc = "woken" /\ main_pc' = IF button_state = "timeout" THEN "poll" ELSE "check"
       \/ main_pc = "poll" /\ button_state = "init" /\ main_pc' = "check"
       \/ main_pc = "check" /\ main_pc' = IF button_state = "init" THEN "deinit" ELSE "reinit"
    /\ UNCHANGED <<pin, armed, button_state, press, config, timers, timeout, observed>>

\* button_press_module_deinit begins: the configuration is dropped.
Deinit ==
    /\ main_pc = "deinit"
    /\ IF button_state = "deinit" THEN main_pc' = "reinit" /\ UNCHANGED config
       ELSE /\ max_button_press_timeout' = 0 /\ registered_callback' = FALSE
            /\ main_pc' = "disarm"
    /\ UNCHANGED <<pin, armed, button_state, press, timers, timeout, observed>>

\* The interrupt is disabled and the handler removed.
Disarm ==
    /\ main_pc = "disarm"
    /\ armed' = FALSE
    /\ main_pc' = "stop"
    /\ UNCHANGED <<pin, button_state, press, config, timers, timeout, observed>>

\* Faulty variant: only the timeout timer is stopped.
F_StopTimers ==
    /\ timeout_timer' = Off
    /\ UNCHANGED debounce_timer

\* k_timer_stop of both timers.
StopTimers ==
    /\ timeout_timer' = Off
    /\ debounce_timer' = Off

\* The last steps of button_press_module_deinit.
DeinitDone ==
    /\ main_pc = "stop"
    /\ StopTimers
    /\ button_state' = "deinit"
    /\ main_pc' = "reinit"
    /\ UNCHANGED <<pin, armed, press, config, timeout, observed>>

\* After a successful deinit the module is initialized with half the timeout.
Reinit ==
    /\ main_pc = "reinit"
    /\ IF button_state = "deinit"
       THEN main_pc' = "init" /\ timeout' = FACTORY_RESET_TIMEOUT \div 2
       ELSE main_pc' = "end" /\ UNCHANGED timeout
    /\ UNCHANGED <<pin, armed, button_state, press, config, timers, observed>>

-----------------------------------------------------------------------------
Timers == button_timeout_handler \/ button_debounce_timer_handler

Main ==
    \/ InitConfig \/ ConfigureFails \/ InitArm \/ InitTimers \/ InitDone
    \/ Woken \/ Deinit \/ Disarm \/ DeinitDone \/ Reinit

ButtonNext == Edge \/ Timers \/ UnitPasses \/ Main

ButtonSpec == ButtonInit /\ [][ButtonNext]_buttonVars

\* Time passes, expired timers are served and the main thread is scheduled;
\* nobody has to touch the button.
ButtonFairSpec ==
    ButtonSpec /\ WF_buttonVars(UnitPasses) /\ WF_buttonVars(Timers) /\ WF_buttonVars(Main)

-----------------------------------------------------------------------------
(* Properties                                                              *)

States == {"error", "deinit", "init", "debouncing", "debounced", "timeout"}

\* The values the variables range over.
ButtonTypeOK ==
    /\ pin \in {"up", "down"} /\ armed \in BOOLEAN
    /\ button_state \in States
    /\ pressed \in BOOLEAN /\ since \in 0 .. TimeCap
    /\ max_button_press_timeout \in 0 .. FACTORY_RESET_TIMEOUT
    /\ registered_callback \in BOOLEAN
    /\ debounce_timer \in Off .. DEBOUNCE
    /\ timeout_timer \in Off .. FACTORY_RESET_TIMEOUT
    /\ main_pc \in {"init", "arm", "timers", "ready", "sleep", "woken", "poll", "check",
                    "deinit", "disarm", "stop", "reinit", "end"}
    /\ timeout \in {FACTORY_RESET_TIMEOUT, FACTORY_RESET_TIMEOUT \div 2}
    /\ level \in {"up", "down"} /\ glitch \in BOOLEAN
    /\ report \in [type : {"none", "normal", "timeout"}, pin : {"up", "down"}]
    /\ again \in BOOLEAN

\* A press is reported once: a press that was reported as a timeout is not
\* reported again when the button is released, although the handler has
\* overwritten the state that says so.  "button release detected": when a normal
\* press is reported the button has been released, unless bounces had hidden a
\* press or a release before, from which on the two are taken for each other.
OneReport ==
    /\ ButtonTypeOK
    /\ ~again
    /\ report.type = "normal" /\ ~glitch => report.pin = "up"

\* A module that says it is not initialized has no handler to run: no edge
\* interrupts and no timer is running.
DeinitIsQuiet ==
    button_state = "deinit" /\ main_pc \notin {"timers", "ready"} =>
        ~armed /\ debounce_timer = Off /\ timeout_timer = Off

\* A press that was detected is reported, by the release or by the timeout,
\* unless the module is shut down or the release comes just at the timeout.
PressReported ==
    (pressed /\ report = NoReport /\ registered_callback) ~>
        \/ report # NoReport
        \/ ~registered_callback
        \/ ~pressed /\ since = max_button_press_timeout

=============================================================================
