----------------------------- MODULE GuestInput -----------------------------
(***************************************************************************)
(* android_shim.c: the activity of Android as the game sees it.  The game  *)
(* runs its own loop over ALooper_pollAll: each call first pumps the host  *)
(* (SDL events, the pads of nxinput, the ways out, the memory), then       *)
(* answers with at most one source, the pipe of commands before the queue  *)
(* of input, whose handler the game calls.  Only two things happen between *)
(* these steps: a SIGTERM, and the passing of time, which fires SIGALRM.   *)
(*                                                                         *)
(* External: the player and the system (what SDL and nxinput report), and  *)
(* the game (when it polls, what it does in its handlers).                 *)
(***************************************************************************)
EXTENDS Integers, Sequences

CONSTANTS
  NPads,       \* NXINPUT_MAX_PADS
  NButtons,    \* buttons of a pad that have a key code
  KeyCodes,    \* the key codes of the keyboard fallback
  RingSize,    \* MAX_INPUT_EVENTS, 128 in the program
  Grace,       \* TS_SHUTDOWN_GRACE_MS, in ticks of the clock
  AlarmTime,   \* the 5 seconds of alarm(), in ticks
  MaxStimuli   \* bound: external events that are explored

ASSUME InputAssumption ==
  /\ NPads \in Nat /\ NButtons \in Nat \ {0}
  /\ KeyCodes \subseteq Nat \ {0} /\ 1 \in KeyCodes
  /\ RingSize \in Nat \ {0, 1}
  /\ Grace \in Nat /\ AlarmTime \in Nat /\ Grace < AlarmTime
  /\ MaxStimuli \in Nat

\* The key code of a button is the same on every pad, and the keys of the
\* fallback share the codes of buttons: Enter is Menu, as START is.
Pads     == 1..NPads
Keyboard == 0
Devices  == Pads \cup {Keyboard}
Buttons  == 1..NButtons
Menu     == 1
Codes    == Buttons \cup KeyCodes
TheAxis  == 0
Arrows   == {-1, 1}        \* the two arrow keys of one axis
Axis     == {-1, 0, 1}     \* an axis at rest, and away from it
Edges    == {"DOWN", "UP"}

\* An event does not name its device: AInputEvent_getDeviceId is always 1.
Key(c, edge) == [kind |-> "key", of |-> c, value |-> edge]
Arrow(edge)  == [kind |-> "arrow", of |-> TheAxis, value |-> edge]
Motion(v)    == [kind |-> "motion", of |-> TheAxis, value |-> v]
Events == [kind : {"key"}, of : Codes, value : Edges] \cup
          [kind : {"arrow"}, of : {TheAxis}, value : Edges] \cup
          [kind : {"motion"}, of : {TheAxis}, value : Axis]

\* lifecycle_run_android_main and begin_shutdown write these to the pipe.
Starting == <<"INPUT_CHANGED", "START", "RESUME", "INIT_WINDOW",
              "GAINED_FOCUS">>
Leaving  == <<"LOST_FOCUS", "SAVE_STATE", "PAUSE">>
Commands == {Starting[k] : k \in DOMAIN Starting} \cup
            {Leaving[k] : k \in DOMAIN Leaving} \cup {"LOW_MEMORY"}

VARIABLES
  pc,        \* where the one thread is, see Steps
  slot,      \* the pad emit_nxinput_state looks at next ...
  button,    \* ... and its button
  fallback,  \* gptk_on(): the keyboard of gptokeyb plays
  held,      \* external: what the player holds on each device
  arrows,    \* external: the arrow keys the player holds
  edges,     \* external: the edges nxinput has not handed out yet
  connected, \* external: the pads nxinput has
  stick,     \* external: the axis of each pad, 0 while it has no focus
  hat,       \* g_kb_hat: the axis of the keyboard fallback
  pushed,    \* g_ax_*, g_hat_*: the axis of the pad that was last pushed
  ring,      \* g_input_queue
  wake,      \* bytes wait in g_input_pipe
  keys,      \* the game's view: the keys that are down ...
  axis,      \* ... and the axis
  lost,      \* history: the newest event about these was dropped
  crossed,   \* history: the newest one was a release, of what is held still
  cmds,      \* the pipe of commands
  current,   \* the command the game is handling
  told,      \* history: the commands it was told, "current" the last of them
  state,     \* app->activityState
  window,    \* app->window is set
  saved,     \* app->stateSaved
  memory,    \* check_low_memory is armed
  esc,       \* g_kb_esc; g_kb_ent is Menu \in held[Keyboard]
  quit,      \* external: nxinput holds a request to quit
  sigterm,   \* g_sigterm
  destroy,   \* app->destroyRequested
  shutdown,  \* g_shutdown
  elapsed,   \* ticks since g_shutdown_at, up to Grace
  alarm,     \* ticks until SIGALRM; 0 when none is pending
  exit,      \* how the process ended
  stimuli    \* external events so far

turn    == <<slot, button>>
player  == <<fallback, held, arrows, edges, connected, stick>>
queue   == <<pushed, ring, wake, lost, crossed>>
view    == <<keys, axis>>
app     == <<current, told, state, window, saved>>
ways    == <<esc, quit, sigterm, destroy, shutdown, elapsed, alarm>>
vars    == <<pc, turn, player, hat, queue, view, cmds, app, memory, ways,
             exit, stimuli>>

Steps == {"game", "pump", "command", "handler", "input"}

TypeOK ==
  /\ pc \in Steps /\ slot \in 1..(NPads + 1) /\ button \in Buttons
  /\ held \in [Devices -> SUBSET Codes] /\ keys \subseteq Codes
  /\ \A p \in Pads : held[p] \subseteq Buttons
  /\ arrows \subseteq Arrows /\ connected \subseteq Pads
  /\ edges \in [Pads -> [Buttons -> SUBSET Edges]]
  /\ stick \in [Pads -> {0, 1}] /\ pushed \in {0, 1}
  /\ {hat, axis} \subseteq Axis
  /\ {lost, crossed} \subseteq SUBSET (Codes \cup {TheAxis})
  /\ ring \in Seq(Events) /\ Len(ring) < RingSize
  /\ cmds \in Seq(Commands) /\ told \in Seq(Commands)
  /\ current \in Commands \cup {"none"}
  /\ state \in {"none", "START", "RESUME", "PAUSE"}
  /\ {fallback, wake, window, saved, memory} \subseteq BOOLEAN
  /\ {esc, quit, sigterm, destroy, shutdown} \subseteq BOOLEAN
  /\ elapsed \in 0..Grace /\ alarm \in 0..AlarmTime
  /\ exit \in {"none", "grace", "alarm", "returned"}
  /\ stimuli \in 0..MaxStimuli

\* android_shim_init, then the commands of lifecycle_run_android_main.
Init ==
  /\ pc = "game" /\ slot = 1 /\ button = 1
  /\ fallback \in BOOLEAN /\ connected = Pads
  /\ held = [d \in Devices |-> {}] /\ arrows = {}
  /\ edges = [p \in Pads |-> [b \in Buttons |-> {}]]
  /\ stick = [p \in Pads |-> 0] /\ hat = 0
  /\ pushed = 0 /\ ring = <<>> /\ wake = FALSE
  /\ keys = {} /\ axis = 0 /\ lost = {} /\ crossed = {}
  /\ cmds = Starting /\ current = "none" /\ told = <<>>
  /\ state = "none" /\ window = FALSE /\ saved = FALSE /\ memory = TRUE
  /\ esc = FALSE /\ quit = FALSE /\ sigterm = FALSE /\ destroy = FALSE
  /\ shutdown = FALSE /\ elapsed = 0 /\ alarm = 0
  /\ exit = "none" /\ stimuli = 0

Alive == exit = "none"

Stimulus == stimuli < MaxStimuli /\ stimuli' = stimuli + 1

-----------------------------------------------------------------------------
\* The ring of input events

\* Mutant: the slot that tells a full ring from an empty one is used.
PushedFull(q, wanted, e) ==
  IF wanted /\ Len(q) < RingSize THEN Append(q, e) ELSE q

\* input_queue_push, when "wanted": a full ring drops the newest event.
Pushed(q, wanted, e) ==
  IF wanted /\ Len(q) + 1 < RingSize THEN Append(q, e) ELSE q

\* There is no room for n events more.
Overflows(n) == Len(ring) + n >= RingSize

\* The histories, when n events about m are pushed: the last of them is
\* dropped or not, and is a release of what is held still ("over") or not.
Missing(m, n) ==
  IF n = 0 THEN lost ELSE IF Overflows(n) THEN lost \cup {m} ELSE lost \ {m}

Crossing(m, n, over) ==
  IF n = 0 THEN crossed ELSE IF over THEN crossed \cup {m} ELSE crossed \ {m}

\* A device the game listens to holds c.
Heard(c) == \/ \E p \in Pads : c \in held[p]
            \/ fallback /\ c \in held[Keyboard]

\* push_motion_axes: a direction on the keyboard covers that of the pad.
Direction(pad, kb) == IF kb # 0 THEN kb ELSE pad

\* Mutant: the release is pushed before the press.
WithButtonSwapped(p, b) ==
  Pushed(Pushed(ring, "UP" \in edges[p][b], Key(b, "UP")),
         "DOWN" \in edges[p][b], Key(b, "DOWN"))

\* emit_nxinput_buttons: one DOWN and one UP at most for each button, in this
\* order even where the release came first.
WithButton(p, b) ==
  Pushed(Pushed(ring, "DOWN" \in edges[p][b], Key(b, "DOWN")),
         "UP" \in edges[p][b], Key(b, "UP"))

\* nxinput_first_connected: the motion is that of the first pad there is.
LeadAxis ==
  IF \E p \in connected : stick[p] = 1 /\ \A q \in connected : p <= q
  THEN 1 ELSE 0

\* emit_nxinput_motion: only a change of the pad's axes is pushed, and it is
\* remembered before it is pushed.
EmitMotion ==
  /\ ring' = Pushed(ring, LeadAxis # pushed, Motion(Direction(LeadAxis, hat)))
  /\ lost' = Missing(TheAxis, IF LeadAxis # pushed THEN 1 ELSE 0)
  /\ pushed' = LeadAxis
  /\ UNCHANGED crossed

-----------------------------------------------------------------------------
\* The ways out

\* Mutant: every way out begins a shutdown of its own.
BeginShutdownAgain(wanted, more) ==
  /\ shutdown' = (shutdown \/ wanted)
  /\ elapsed' = IF wanted THEN 0 ELSE elapsed
  /\ alarm' = IF wanted THEN AlarmTime ELSE alarm
  /\ cmds' = cmds \o (IF wanted THEN Leaving ELSE <<>>) \o more

\* Mutant: the shutdown trusts the game to poll until the grace is over.
BeginShutdownUnwatched(wanted, more) ==
  LET begins == wanted /\ ~shutdown IN
    /\ shutdown' = (shutdown \/ begins)
    /\ elapsed' = IF begins THEN 0 ELSE elapsed
    /\ alarm' = alarm
    /\ cmds' = cmds \o (IF begins THEN Leaving ELSE <<>>) \o more

\* begin_shutdown, when "wanted", which does nothing the second time: the
\* commands of an activity that leaves go to the pipe, "more" behind them.
BeginShutdown(wanted, more) ==
  LET begins == wanted /\ ~shutdown IN
    /\ shutdown' = (shutdown \/ begins)
    /\ elapsed' = IF begins THEN 0 ELSE elapsed
    /\ alarm' = IF begins THEN AlarmTime ELSE alarm
    /\ cmds' = cmds \o (IF begins THEN Leaving ELSE <<>>) \o more

GraceOver == shutdown /\ elapsed = Grace

Combo == esc /\ Menu \in held[Keyboard]

\* check_exit_hotkey, when it does not end the process: the request of
\* nxinput is consumed only where it decides.
CheckExit(more) ==
  /\ ~GraceOver
  /\ BeginShutdown(sigterm \/ quit \/ Combo, more)
  /\ quit' = (quit /\ (shutdown \/ sigterm))

\* check_low_memory, which looks on one pump in 240: pressure is told to the
\* game once, until there is room again.
CheckLowMemory(more) ==
  \/ more = <<>> /\ UNCHANGED <<memory, stimuli>>
  \/ more = <<>> /\ ~memory /\ Stimulus /\ memory' = TRUE
  \/ more = <<"LOW_MEMORY">> /\ memory /\ Stimulus /\ memory' = FALSE

-----------------------------------------------------------------------------
\* ALooper_pollAll: process_sdl_events ...

PollStart ==
  /\ Alive /\ pc = "game"
  /\ pc' = "pump"
  /\ UNCHANGED <<turn, player, hat, queue, view, cmds, app, memory, ways,
                 exit, stimuli>>

\* The pads have not been asked yet.
Pumping == Alive /\ pc = "pump" /\ slot = 1 /\ button = 1

\* One event of SDL that nxinput observes.  Of a pad that is gone it may
\* still report that a button was released, or never do so.
PadButton(p, b) ==
  /\ Pumping /\ Stimulus
  /\ IF b \in held[p]
     THEN /\ held' = [held EXCEPT ![p] = @ \ {b}]
          /\ edges' = [edges EXCEPT ![p][b] = @ \cup {"UP"}]
     ELSE /\ p \in connected
          /\ held' = [held EXCEPT ![p] = @ \cup {b}]
          /\ edges' = [edges EXCEPT ![p][b] = @ \cup {"DOWN"}]
  /\ UNCHANGED <<pc, turn, fallback, arrows, connected, stick, hat, queue,
                 view, cmds, app, memory, ways, exit>>

PadAxis(p) ==
  /\ Pumping /\ Stimulus
  /\ stick' = [stick EXCEPT ![p] = 1 - @]
  /\ UNCHANGED <<pc, turn, fallback, held, arrows, edges, connected, hat,
                 queue, view, cmds, app, memory, ways, exit>>

PadPlugged(p) ==
  /\ Pumping /\ Stimulus
  /\ connected' = IF p \in connected THEN connected \ {p}
                  ELSE connected \cup {p}
  /\ UNCHANGED <<pc, turn, fallback, held, arrows, edges, stick, hat, queue,
                 view, cmds, app, memory, ways, exit>>

PadQuit ==
  /\ Pumping /\ Stimulus
  /\ quit' = TRUE
  /\ UNCHANGED <<pc, turn, player, hat, queue, view, cmds, app, memory, esc,
                 sigterm, destroy, shutdown, elapsed, alarm, exit>>

\* An arrow key of the fallback: its key code, which this build of the game
\* ignores, and the axis, which a release zeroes whatever else is held.
KeyboardArrow(v) ==
  /\ Pumping /\ fallback /\ Stimulus
  /\ arrows' = IF v \in arrows THEN arrows \ {v} ELSE arrows \cup {v}
  /\ hat' = IF v \in arrows THEN 0 ELSE v
  /\ ring' = Pushed(Pushed(ring, TRUE,
                           Arrow(IF v \in arrows THEN "UP" ELSE "DOWN")),
                    TRUE, Motion(Direction(pushed, hat')))
  /\ lost' = Missing(TheAxis, 2)
  /\ crossed' = Crossing(TheAxis, 2, v \in arrows /\ arrows # {v})
  /\ UNCHANGED <<pc, turn, fallback, held, edges, connected, stick, pushed,
                 wake, view, cmds, app, memory, ways, exit>>

\* A key of the fallback goes to the ring at once.  Enter and Escape are half
\* of a way out each, with or without the fallback.
KeyboardKey(c) ==
  /\ Pumping /\ (fallback \/ c = Menu) /\ Stimulus
  /\ LET up == c \in held[Keyboard]
         n  == IF fallback THEN 1 ELSE 0
     IN  /\ held' = [held EXCEPT ![Keyboard] = IF up THEN @ \ {c}
                                               ELSE @ \cup {c}]
         /\ ring' = Pushed(ring, fallback, Key(c, IF up THEN "UP" ELSE "DOWN"))
         /\ lost' = Missing(c, n)
         /\ crossed' = Crossing(c, n, up /\ \E p \in Pads : c \in held[p])
  /\ UNCHANGED <<pc, turn, fallback, arrows, edges, connected, stick, hat,
                 pushed, wake, view, cmds, app, memory, ways, exit>>

KeyboardEscape ==
  /\ Pumping /\ Stimulus
  /\ esc' = ~esc
  /\ UNCHANGED <<pc, turn, player, hat, queue, view, cmds, app, memory,
                 quit, sigterm, destroy, shutdown, elapsed, alarm, exit>>

SdlQuit ==
  /\ Pumping /\ Stimulus
  /\ destroy' = TRUE
  /\ BeginShutdown(TRUE, <<>>)
  /\ UNCHANGED <<pc, turn, player, hat, queue, view, app, memory, esc, quit,
                 sigterm, exit>>

\* ... then, when SDL has no more events, the pads, one button after the
\* other ...
EmitButton ==
  /\ Alive /\ pc = "pump" /\ slot \in Pads
  /\ ring' = WithButton(slot, button)
  /\ LET es == edges[slot][button]
         n  == IF es = {} THEN 0 ELSE IF es = Edges THEN 2 ELSE 1
     IN  /\ lost' = Missing(button, n)
         /\ crossed' = Crossing(button, n, "UP" \in es /\ Heard(button))
  /\ edges' = [edges EXCEPT ![slot][button] = {}]
  /\ IF button < NButtons THEN button' = button + 1 /\ slot' = slot
                          ELSE button' = 1 /\ slot' = slot + 1
  /\ UNCHANGED <<pc, fallback, held, arrows, connected, stick, hat, pushed,
                 wake, view, cmds, app, memory, ways, exit, stimuli>>

PadsDone == Alive /\ pc = "pump" /\ slot \notin Pads

\* ... their axes, the ways out and the memory; the pipe of the input is
\* armed, and one source is answered.
Ready(pipe, woken) ==
  IF pipe # <<>> THEN "command" ELSE IF woken THEN "input" ELSE "game"

PollEnd ==
  /\ PadsDone
  /\ EmitMotion
  /\ \E more \in {<<>>, <<"LOW_MEMORY">>} :
       CheckExit(more) /\ CheckLowMemory(more)
  /\ wake' = (wake \/ ring' # <<>>)
  /\ pc' = Ready(cmds', wake') /\ slot' = 1 /\ button' = 1
  /\ UNCHANGED <<player, hat, view, app, esc, sigterm, destroy, exit>>

GraceExit ==
  /\ PadsDone
  /\ EmitMotion
  /\ GraceOver
  /\ exit' = "grace"
  /\ UNCHANGED <<pc, turn, player, hat, wake, view, cmds, app, memory, ways,
                 stimuli>>

-----------------------------------------------------------------------------
\* The handlers the game calls for the source that was answered

\* process_cmd up to app->onAppCmd.
CommandRead ==
  /\ Alive /\ pc = "command"
  /\ pc' = "handler"
  /\ current' = Head(cmds) /\ cmds' = Tail(cmds)
  /\ state' = IF current' \in {"START", "RESUME", "PAUSE"} THEN current'
              ELSE state
  /\ window' = (window \/ current' = "INIT_WINDOW")
  /\ saved' = (saved /\ current' # "SAVE_STATE")
  /\ told' = Append(told, current')
  /\ UNCHANGED <<turn, player, hat, queue, view, memory, ways, exit,
                 stimuli>>

\* The game has handled it: the rest of process_cmd.
CommandDone ==
  /\ Alive /\ pc = "handler"
  /\ pc' = "game"
  /\ saved' = (saved \/ current = "SAVE_STATE")
  /\ current' = "none"
  /\ UNCHANGED <<turn, player, hat, queue, view, told, cmds, state, window,
                 memory, ways, exit, stimuli>>

\* AInputQueue_getEvent, called until it has no event left: what it has handed
\* out, the oldest first.
Delivered == ring

\* e is the last word of the events q about its key or axis.
LastWord(q, e) ==
  \E i \in DOMAIN q :
    /\ q[i] = e
    /\ \A j \in DOMAIN q :
         j > i => q[j].kind # e.kind \/ q[j].of # e.of

\* process_input: the pipe is emptied, and the game takes one event after the
\* other.  The last one about a key, and about the axis, decides.
KeysAfter(evs) ==
  {c \in Codes : \/ LastWord(evs, Key(c, "DOWN"))
                 \/ c \in keys /\ ~LastWord(evs, Key(c, "UP"))}

AxisAfter(evs) ==
  IF \E v \in Axis : LastWord(evs, Motion(v))
  THEN CHOOSE v \in Axis : LastWord(evs, Motion(v)) ELSE axis

InputHandled ==
  /\ Alive /\ pc = "input"
  /\ pc' = "game"
  /\ wake' = FALSE
  /\ keys' = KeysAfter(Delivered) /\ axis' = AxisAfter(Delivered)
  /\ ring' = <<>>
  /\ UNCHANGED <<turn, player, hat, pushed, lost, crossed, cmds, app, memory, ways,
                 exit, stimuli>>

\* ANativeActivity_finish, called by the game.
Finish ==
  /\ Alive /\ pc \in {"game", "handler", "input"} /\ Stimulus
  /\ destroy' = TRUE
  /\ BeginShutdown(TRUE, <<>>)
  /\ UNCHANGED <<pc, turn, player, hat, queue, view, app, memory, esc, quit,
                 sigterm, exit>>

\* The game sees destroyRequested and returns from android_main.
GuestReturns ==
  /\ Alive /\ pc = "game" /\ destroy
  /\ exit' = "returned"
  /\ UNCHANGED <<pc, turn, player, hat, queue, view, cmds, app, memory,
                 ways, stimuli>>

-----------------------------------------------------------------------------
\* What interrupts all of them

\* ts_sigterm_handler
Sigterm ==
  /\ Alive /\ Stimulus
  /\ sigterm' = TRUE /\ alarm' = AlarmTime
  /\ UNCHANGED <<pc, turn, player, hat, queue, view, cmds, app, memory, esc,
                 quit, destroy, shutdown, elapsed, exit>>

\* Time passes while somebody waits for it; ts_sigalrm_handler at its end.
Tick ==
  /\ Alive /\ alarm > 0
  /\ alarm' = alarm - 1
  /\ exit' = IF alarm = 1 THEN "alarm" ELSE exit
  /\ elapsed' = IF shutdown /\ elapsed < Grace THEN elapsed + 1 ELSE elapsed
  /\ UNCHANGED <<pc, turn, player, hat, queue, view, cmds, app, memory, esc,
                 quit, sigterm, destroy, shutdown, stimuli>>

Next ==
  \/ PollStart \/ EmitButton \/ PollEnd \/ GraceExit
  \/ \E p \in Pads : PadAxis(p) \/ PadPlugged(p)
  \/ \E p \in Pads, b \in Buttons : PadButton(p, b)
  \/ \E v \in Arrows : KeyboardArrow(v)
  \/ \E c \in KeyCodes : KeyboardKey(c)
  \/ PadQuit \/ KeyboardEscape \/ SdlQuit
  \/ CommandRead \/ CommandDone \/ InputHandled \/ Finish \/ GuestReturns
  \/ Sigterm \/ Tick

Spec == Init /\ [][Next]_vars

\* Time passes.  Nothing is assumed of the game.
FairSpec == Spec /\ WF_vars(Tick)

-----------------------------------------------------------------------------
\* Properties

\* When the game has taken the last event, it believes what is true of all
\* devices together.  A key it takes for down is held on one of them: no key
\* sticks, whatever the order in which pads and keyboard press and release a
\* code they share and however edges fold between two polls, unless the
\* newest event about it was dropped by a full ring.  A key that is held is
\* taken for down, unless the newest event about it is a release: of another
\* device that has the code too, or folded behind the press.  The axis is
\* that of the first pad or of an arrow that is held, and with an arrow held
\* it is the arrow's, unless the opposite one was released after it.
ViewConverges ==
  pc = "game" /\ ring = <<>> =>
    /\ \A c \in Codes \ lost : /\ c \in keys => Heard(c)
                               /\ Heard(c) => c \in keys \cup crossed
    /\ TheAxis \notin lost =>
         /\ axis \in arrows \cup {LeadAxis}
         /\ arrows # {} => axis \in arrows \/ TheAxis \in crossed

\* The place of a command in the life of an activity; LOW_MEMORY has none.
Life  == Starting \o Leaving
Place == [c \in Commands |-> IF c = "LOW_MEMORY" THEN 0
                             ELSE CHOOSE k \in DOMAIN Life : Life[k] = c]
Due   == 1..(IF shutdown THEN Len(Life) ELSE Len(Starting))

\* Whatever ways out the player, the system and the game take, in any order
\* and more than once, the game is told to leave once: it loses the focus,
\* saves and pauses, in this order, after all it was told at the start.  In
\* what it was told and what is on the way no command that is due is lost,
\* repeated or overtaken, and none comes that is not due.
ShutdownSequence ==
  LET stream == told \o cmds IN
    /\ {Place[stream[i]] : i \in DOMAIN stream} \ {0} = Due
    /\ \A i, j \in DOMAIN stream :
         i < j /\ Place[stream[j]] # 0 => Place[stream[i]] < Place[stream[j]]
    /\ state = "PAUSE" => saved

\* A process that was asked to leave ends, even when the game never polls
\* again or never comes back from its handler.
ProcessEnds == (shutdown \/ sigterm) ~> ~Alive
=============================================================================
