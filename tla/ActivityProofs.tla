-------------------------- MODULE ActivityProofs ---------------------------
(***************************************************************************)
(* Theorems about what the game sees of Android: its activity (GuestInput) *)
(* and the menu of languages that is patched into it (LanguageMenu), for   *)
(* pads of any number of buttons, rings of any size, any grace, and any    *)
(* number of languages.                                                    *)
(*                                                                         *)
(* For the activity the invariant IInv has a part for each question:       *)
(*   PlaceInv   between two polls the pads have nothing to hand out;       *)
(*   ViewInv    what the game will believe once it has read the ring is    *)
(*              true of all devices together, but for the edges nxinput    *)
(*              still holds, what was dropped, and what was crossed;       *)
(*   StreamInv  what the game was told, with what is on the way, is in the *)
(*              order of the life of an activity;                          *)
(*   SavedInv   what follows for the state it was told to save;            *)
(*   WatchInv   the alarm outlasts the grace.                              *)
(* The menu has MenuInv: it is empty, the game's own pair, a prefix of the *)
(* extension that can not be taken for complete, or the choices of the     *)
(* policy in their order.                                                  *)
(***************************************************************************)
EXTENDS GuestInput, LanguageMenu, SequenceTheorems, TLAPS

-----------------------------------------------------------------------------
(* The ring: what the last event about a key, or about the axis, says.     *)

\* Two events are about the same key, or both about the axis.
SameMatter(e, f) == e.kind = f.kind /\ e.of = f.of

\* An empty ring says nothing.
LEMMA EmptyIsSilent == \A e : ~LastWord(<<>>, e)
  BY DEF LastWord

\* An event that is appended has the last word about its matter, and takes
\* nothing away from any other.
LEMMA AppendedWord ==
  ASSUME NEW q \in Seq(Events), NEW f \in Events, NEW e \in Events
  PROVE  LastWord(Append(q, f), e) <=>
           e = f \/ (LastWord(q, e) /\ ~SameMatter(f, e))
<1> DEFINE a == Append(q, f)
<1>1. /\ Len(q) \in Nat /\ DOMAIN q = 1..Len(q) /\ DOMAIN a = 1..(Len(q) + 1)
      /\ a[Len(q) + 1] = f /\ \A i \in 1..Len(q) : a[i] = q[i]
  BY AppendProperties, LenProperties
<1> HIDE DEF a
<1>2. ASSUME e = f PROVE LastWord(a, e)
  BY <1>1, <1>2 DEF LastWord
<1>3. ASSUME LastWord(q, e), ~SameMatter(f, e) PROVE LastWord(a, e)
  <2>1. PICK i \in 1..Len(q) : /\ q[i] = e
                               /\ \A j \in 1..Len(q) :
                                    j > i => q[j].kind # e.kind \/ q[j].of # e.of
    BY <1>1, <1>3 DEF LastWord
  <2>2. \A j \in 1..(Len(q) + 1) : j > i => a[j].kind # e.kind \/ a[j].of # e.of
    BY <1>1, <1>3, <2>1 DEF SameMatter
  <2>3. QED
    BY <1>1, <2>1, <2>2 DEF LastWord
<1>4. ASSUME LastWord(a, e), e # f PROVE LastWord(q, e) /\ ~SameMatter(f, e)
  <2>1. PICK i \in 1..(Len(q) + 1) :
               /\ a[i] = e
               /\ \A j \in 1..(Len(q) + 1) :
                    j > i => a[j].kind # e.kind \/ a[j].of # e.of
    BY <1>1, <1>4 DEF LastWord
  <2>2. i \in 1..Len(q)
    BY <1>1, <1>4, <2>1
  <2>3. ~SameMatter(f, e)
    BY <1>1, <2>1, <2>2 DEF SameMatter
  <2>4. QED
    BY <1>1, <2>1, <2>2, <2>3 DEF LastWord
<1>5. QED
  BY <1>2, <1>3, <1>4 DEF a

\* Of two events about one matter one has the last word.
LEMMA OneLastWord ==
  ASSUME NEW q \in Seq(Events), NEW e \in Events, NEW f \in Events,
         LastWord(q, e), LastWord(q, f), SameMatter(e, f)
  PROVE  e = f
<1>1. Len(q) \in Nat /\ DOMAIN q = 1..Len(q)
  BY LenProperties
<1>2. PICK i \in 1..Len(q) : /\ q[i] = e
                             /\ \A j \in 1..Len(q) :
                                  j > i => q[j].kind # e.kind \/ q[j].of # e.of
  BY <1>1 DEF LastWord
<1>3. PICK k \in 1..Len(q) : /\ q[k] = f
                             /\ \A j \in 1..Len(q) :
                                  j > k => q[j].kind # f.kind \/ q[j].of # f.of
  BY <1>1 DEF LastWord
<1>4. i = k
  BY <1>1, <1>2, <1>3 DEF SameMatter
<1>5. QED
  BY <1>2, <1>3, <1>4

\* What the shim pushes is an event.
LEMMA EventTypes ==
  /\ \A b \in Codes, edge \in Edges : Key(b, edge) \in Events
  /\ \A edge \in Edges : Arrow(edge) \in Events
  /\ \A v \in Axis : Motion(v) \in Events
  BY DEF Key, Arrow, Motion, Events

\* A key event decides about its key alone.
LEMMA KeyDecides ==
  ASSUME NEW q \in Seq(Events), NEW b \in Codes, NEW edge \in Edges
  PROVE  /\ KeysAfter(Append(q, Key(b, edge))) =
              IF edge = "DOWN" THEN KeysAfter(q) \cup {b} ELSE KeysAfter(q) \ {b}
         /\ AxisAfter(Append(q, Key(b, edge))) = AxisAfter(q)
<1>1. \A c \in Codes, d \in Edges :
        /\ Key(c, d) \in Events
        /\ Key(c, d) = Key(b, edge) <=> c = b /\ d = edge
        /\ SameMatter(Key(b, edge), Key(c, d)) <=> c = b
  BY EventTypes DEF Key, SameMatter
<1>2. \A c \in Codes, d \in Edges :
        LastWord(Append(q, Key(b, edge)), Key(c, d)) <=>
          (c = b /\ d = edge) \/ (LastWord(q, Key(c, d)) /\ c # b)
  BY <1>1, AppendedWord
<1>3. \A v \in Axis : LastWord(Append(q, Key(b, edge)), Motion(v)) <=>
                        LastWord(q, Motion(v))
  <2>1. \A v \in Axis : /\ Motion(v) \in Events
                        /\ Motion(v) # Key(b, edge)
                        /\ ~SameMatter(Key(b, edge), Motion(v))
    BY EventTypes DEF Motion, Key, SameMatter
  <2>2. QED
    BY <1>1, <2>1, AppendedWord
<1>4. AxisAfter(Append(q, Key(b, edge))) = AxisAfter(q)
  BY <1>3 DEF AxisAfter
<1>5. CASE edge = "DOWN"
  BY <1>2, <1>4, <1>5 DEF KeysAfter, Edges
<1>6. CASE edge = "UP"
  BY <1>2, <1>4, <1>6 DEF KeysAfter, Edges
<1>7. QED
  BY <1>5, <1>6 DEF Edges

\* An arrow decides nothing: this build of the game ignores its key code.
LEMMA ArrowIgnored ==
  ASSUME NEW q \in Seq(Events), NEW edge \in Edges
  PROVE  /\ KeysAfter(Append(q, Arrow(edge))) = KeysAfter(q)
         /\ AxisAfter(Append(q, Arrow(edge))) = AxisAfter(q)
<1>1. \A c \in Codes, d \in Edges :
        LastWord(Append(q, Arrow(edge)), Key(c, d)) <=> LastWord(q, Key(c, d))
  <2>1. \A c \in Codes, d \in Edges : /\ Key(c, d) \in Events
                                      /\ Key(c, d) # Arrow(edge)
                                      /\ ~SameMatter(Arrow(edge), Key(c, d))
    BY EventTypes DEF Arrow, Key, SameMatter
  <2>2. QED
    BY <2>1, EventTypes, AppendedWord
<1>2. \A v \in Axis :
        LastWord(Append(q, Arrow(edge)), Motion(v)) <=> LastWord(q, Motion(v))
  <2>1. \A v \in Axis : /\ Motion(v) \in Events
                        /\ Motion(v) # Arrow(edge)
                        /\ ~SameMatter(Arrow(edge), Motion(v))
    BY EventTypes DEF Arrow, Motion, SameMatter
  <2>2. QED
    BY <2>1, EventTypes, AppendedWord
<1>3. KeysAfter(Append(q, Arrow(edge))) = KeysAfter(q)
  BY <1>1 DEF KeysAfter, Edges
<1>4. AxisAfter(Append(q, Arrow(edge))) = AxisAfter(q)
  BY <1>2 DEF AxisAfter
<1>5. QED
  BY <1>3, <1>4

\* A motion decides about the axis alone.
LEMMA MotionDecides ==
  ASSUME NEW q \in Seq(Events), NEW v \in Axis
  PROVE  /\ KeysAfter(Append(q, Motion(v))) = KeysAfter(q)
         /\ AxisAfter(Append(q, Motion(v))) = v
<1>1. \A c \in Codes, d \in Edges :
        LastWord(Append(q, Motion(v)), Key(c, d)) <=> LastWord(q, Key(c, d))
  <2>1. \A c \in Codes, d \in Edges : /\ Key(c, d) \in Events
                                      /\ Key(c, d) # Motion(v)
                                      /\ ~SameMatter(Motion(v), Key(c, d))
    BY EventTypes DEF Motion, Key, SameMatter
  <2>2. QED
    BY <2>1, EventTypes, AppendedWord
<1>2. \A w \in Axis : LastWord(Append(q, Motion(v)), Motion(w)) <=> w = v
  <2>1. \A w \in Axis : /\ Motion(w) \in Events
                        /\ Motion(w) = Motion(v) <=> w = v
                        /\ SameMatter(Motion(v), Motion(w))
    BY EventTypes DEF Motion, SameMatter
  <2>2. QED
    BY <2>1, EventTypes, AppendedWord
<1>3. KeysAfter(Append(q, Motion(v))) = KeysAfter(q)
  BY <1>1 DEF KeysAfter, Edges
<1>4. AxisAfter(Append(q, Motion(v))) = v
  BY <1>2 DEF AxisAfter
<1>5. QED
  BY <1>3, <1>4

\* What the game believes after any events has its type; after none it
\* believes what it did.
LEMMA ViewTypes ==
  ASSUME NEW q, axis \in Axis, keys \subseteq Codes
  PROVE  /\ KeysAfter(q) \subseteq Codes
         /\ AxisAfter(q) \in Axis
         /\ KeysAfter(<<>>) = keys /\ AxisAfter(<<>>) = axis
<1>1. KeysAfter(q) \subseteq Codes
  BY DEF KeysAfter
<1>2. AxisAfter(q) \in Axis
  BY DEF AxisAfter
<1>3. KeysAfter(<<>>) = keys
  BY EmptyIsSilent DEF KeysAfter
<1>4. AxisAfter(<<>>) = axis
  BY EmptyIsSilent DEF AxisAfter
<1>5. QED
  BY <1>1, <1>2, <1>3, <1>4

-----------------------------------------------------------------------------
(* Types, and where the one thread is.                                     *)

\* A source is answered only where it has something, and between two polls
\* nothing of the pads is waiting.
PlaceInv ==
  /\ pc = "command" => cmds # <<>>
  /\ pc = "handler" => current \in Commands
  /\ pc # "pump" => slot = 1 /\ button = 1 /\ pushed = LeadAxis
  /\ \A p \in Pads, b \in Buttons :
       pc # "pump" \/ p < slot \/ (p = slot /\ b < button) => edges[p][b] = {}

\* What the shim writes to the pipe are commands.
LEMMA CommandTypes ==
  /\ Starting \in Seq(Commands) /\ Leaving \in Seq(Commands)
  /\ <<"LOW_MEMORY">> \in Seq(Commands) /\ <<>> \in Seq(Commands)
<1>1. /\ {"INPUT_CHANGED", "START", "RESUME", "INIT_WINDOW", "GAINED_FOCUS",
          "LOST_FOCUS", "SAVE_STATE", "PAUSE", "LOW_MEMORY"} \subseteq Commands
  <2>1. /\ DOMAIN Starting = 1..5
        /\ Starting[1] = "INPUT_CHANGED" /\ Starting[2] = "START"
        /\ Starting[3] = "RESUME" /\ Starting[4] = "INIT_WINDOW"
        /\ Starting[5] = "GAINED_FOCUS"
    BY DEF Starting
  <2>2. /\ DOMAIN Leaving = 1..3
        /\ Leaving[1] = "LOST_FOCUS" /\ Leaving[2] = "SAVE_STATE"
        /\ Leaving[3] = "PAUSE"
    BY DEF Leaving
  <2>3. QED
    BY <2>1, <2>2 DEF Commands
<1>2. QED
  BY <1>1 DEF Starting, Leaving

\* The bound on external events holds.
LEMMA StimulusType == ASSUME TypeOK, Stimulus PROVE stimuli' \in 0..MaxStimuli
<1>1. stimuli \in 0..MaxStimuli
  BY DEF TypeOK
<1>2. QED
  BY <1>1, InputAssumption DEF Stimulus

\* input_queue_push keeps the ring a ring.
LEMMA PushedType ==
  ASSUME NEW q \in Seq(Events), Len(q) < RingSize, NEW wanted, NEW e \in Events
  PROVE  Pushed(q, wanted, e) \in Seq(Events) /\ Len(Pushed(q, wanted, e)) < RingSize
  BY InputAssumption, AppendProperties, LenProperties DEF Pushed

\* emit_nxinput_buttons keeps the ring a ring.
LEMMA ButtonType ==
  ASSUME TypeOK, NEW p \in Pads, NEW b \in Buttons
  PROVE  WithButton(p, b) \in Seq(Events) /\ Len(WithButton(p, b)) < RingSize
<1>1. b \in Codes /\ Key(b, "DOWN") \in Events /\ Key(b, "UP") \in Events
  BY EventTypes DEF Codes, Edges
<1>2. QED
  BY <1>1, PushedType DEF WithButton, TypeOK

\* The histories speak of key codes and of the axis.
LEMMA HistoryTypes ==
  ASSUME TypeOK, NEW m \in Codes \cup {TheAxis}, NEW n, NEW over
  PROVE  /\ Missing(m, n) \in SUBSET (Codes \cup {TheAxis})
         /\ Crossing(m, n, over) \in SUBSET (Codes \cup {TheAxis})
         /\ TheAxis \in Codes \cup {TheAxis}
  BY DEF TypeOK, Missing, Crossing

\* begin_shutdown writes to the pipe what belongs there, and takes nothing out.
LEMMA ShutdownType ==
  ASSUME TypeOK, NEW wanted \in BOOLEAN, NEW more \in {<<>>, <<"LOW_MEMORY">>},
         BeginShutdown(wanted, more)
  PROVE  /\ shutdown' \in BOOLEAN /\ elapsed' \in 0..Grace
         /\ alarm' \in 0..AlarmTime
         /\ cmds' \in Seq(Commands) /\ (cmds # <<>> => cmds' # <<>>)
<1>1. shutdown \in BOOLEAN /\ elapsed \in 0..Grace /\ alarm \in 0..AlarmTime
      /\ cmds \in Seq(Commands)
  BY DEF TypeOK
<1>2. shutdown' \in BOOLEAN
  BY <1>1 DEF BeginShutdown
<1>3. elapsed' \in 0..Grace /\ alarm' \in 0..AlarmTime
  BY <1>1, InputAssumption DEF BeginShutdown
<1>4. PICK leaving \in Seq(Commands) : cmds' = cmds \o leaving \o more
  BY CommandTypes DEF BeginShutdown
<1>5. more \in Seq(Commands) /\ cmds \o leaving \in Seq(Commands)
  BY <1>1, CommandTypes, ConcatProperties
<1>6. /\ cmds' \in Seq(Commands)
      /\ Len(cmds') = Len(cmds) + Len(leaving) + Len(more)
  BY <1>1, <1>4, <1>5, ConcatProperties
<1>7. cmds # <<>> => cmds' # <<>>
  BY <1>1, <1>5, <1>6, LenProperties, EmptySeq
<1>8. QED
  BY <1>2, <1>3, <1>6, <1>7

\* android_shim_init and the commands of the start have their types.
LEMMA TypeInitially == Init => TypeOK /\ PlaceInv
<1> SUFFICES ASSUME Init PROVE TypeOK /\ PlaceInv
  OBVIOUS
<1>1. TypeOK
  <2>1. ring \in Seq(Events) /\ Len(ring) < RingSize
    BY InputAssumption DEF Init
  <2>2. cmds \in Seq(Commands) /\ told \in Seq(Commands)
    BY CommandTypes DEF Init
  <2>3. /\ edges \in [Pads -> [Buttons -> SUBSET Edges]]
        /\ slot \in 1..(NPads + 1) /\ button \in Buttons
        /\ elapsed \in 0..Grace /\ alarm \in 0..AlarmTime /\ stimuli \in 0..MaxStimuli
    BY InputAssumption DEF Init, Buttons
  <2>4. /\ held \in [Devices -> SUBSET Codes] /\ keys \subseteq Codes
        /\ \A p \in Pads : held[p] \subseteq Buttons
        /\ arrows \subseteq Arrows /\ connected \subseteq Pads
        /\ stick \in [Pads -> {0, 1}] /\ pushed \in {0, 1}
        /\ {hat, axis} \subseteq Axis
        /\ {lost, crossed} \subseteq SUBSET (Codes \cup {TheAxis})
    BY DEF Init, Axis, Devices
  <2>5. /\ {fallback, wake, window, saved, memory} \subseteq BOOLEAN
        /\ {esc, quit, sigterm, destroy, shutdown} \subseteq BOOLEAN
    BY DEF Init
  <2>6. QED
    BY <2>1, <2>2, <2>3, <2>4, <2>5 DEF Init, TypeOK, Steps
<1>2. PlaceInv
  <2>1. LeadAxis = 0
    BY DEF Init, LeadAxis
  <2>2. QED
    BY <2>1 DEF Init, PlaceInv
<1>3. QED
  BY <1>1, <1>2

\* Every step keeps the types and the place of the one thread.
LEMMA TypeStep == TypeOK /\ PlaceInv /\ [Next]_vars => TypeOK' /\ PlaceInv'
<1> SUFFICES ASSUME TypeOK, PlaceInv, [Next]_vars PROVE TypeOK' /\ PlaceInv'
  OBVIOUS
<1> USE InputAssumption
<1>1. CASE UNCHANGED vars
  BY <1>1 DEF vars, turn, player, queue, view, app, ways, TypeOK, PlaceInv, LeadAxis
<1>2. CASE PollStart
  BY <1>2 DEF PollStart, Alive, turn, player, queue, view, app, ways, TypeOK, PlaceInv, LeadAxis, Steps
<1>3. ASSUME NEW p \in Pads, NEW b \in Buttons, PadButton(p, b)
      PROVE  TypeOK' /\ PlaceInv'
  <2>1. stimuli' \in 0..MaxStimuli /\ pc = "pump" /\ slot = 1 /\ button = 1
    BY <1>3, StimulusType DEF PadButton, Pumping
  <2>2. /\ held' \in [Devices -> SUBSET Codes]
        /\ \A q \in Pads : held'[q] \subseteq Buttons
        /\ edges' \in [Pads -> [Buttons -> SUBSET Edges]]
    <3>1. /\ p \in Devices /\ b \in Codes /\ Pads \subseteq Devices
          /\ held \in [Devices -> SUBSET Codes] /\ held[p] \subseteq Buttons
          /\ edges \in [Pads -> [Buttons -> SUBSET Edges]]
      BY DEF TypeOK, Devices, Codes
    <3>2. /\ held[p] \ {b} \subseteq Buttons /\ held[p] \cup {b} \subseteq Buttons
          /\ held[p] \ {b} \subseteq Codes /\ held[p] \cup {b} \subseteq Codes
          /\ edges[p][b] \cup {"UP"} \subseteq Edges
          /\ edges[p][b] \cup {"DOWN"} \subseteq Edges
      BY <3>1 DEF Edges, Codes
    <3>3. \/ /\ held' = [held EXCEPT ![p] = held[p] \ {b}]
             /\ edges' = [edges EXCEPT ![p][b] = edges[p][b] \cup {"UP"}]
          \/ /\ held' = [held EXCEPT ![p] = held[p] \cup {b}]
             /\ edges' = [edges EXCEPT ![p][b] = edges[p][b] \cup {"DOWN"}]
      BY <1>3 DEF PadButton
    <3>4. ASSUME NEW h, h \subseteq Buttons, NEW e, e \subseteq Edges,
                 held' = [held EXCEPT ![p] = h], edges' = [edges EXCEPT ![p][b] = e]
          PROVE  /\ held' \in [Devices -> SUBSET Codes]
                 /\ \A q \in Pads : held'[q] \subseteq Buttons
                 /\ edges' \in [Pads -> [Buttons -> SUBSET Edges]]
      <4>1. h \in SUBSET Codes /\ \A q \in Pads : held[q] \subseteq Buttons
        BY <3>4 DEF Codes, TypeOK
      <4>2. held' \in [Devices -> SUBSET Codes]
        BY <3>1, <3>4, <4>1
      <4>3. \A q \in Pads : held'[q] \subseteq Buttons
        BY <3>1, <3>4, <4>1
      <4>4. edges' \in [Pads -> [Buttons -> SUBSET Edges]]
        BY <3>1, <3>4
      <4>5. QED
        BY <4>2, <4>3, <4>4
    <3>5. QED
      BY <3>2, <3>3, <3>4
  <2>3. UNCHANGED <<pc, slot, button, fallback, arrows, connected, stick, hat, pushed,
                    ring, wake, lost, crossed, keys, axis, cmds, current, told, state,
                    window, saved, memory, esc, quit, sigterm, destroy, shutdown,
                    elapsed, alarm, exit>>
    BY <1>3 DEF PadButton, turn, queue, view, app, ways
  <2>4. TypeOK'
    BY <2>1, <2>2, <2>3 DEF TypeOK
  <2>5. PlaceInv'
    BY <2>1, <2>3 DEF PlaceInv, Pads, Buttons
  <2>6. QED
    BY <2>4, <2>5
<1>4. CASE \/ (\E p \in Pads : PadAxis(p) \/ PadPlugged(p))
           \/ PadQuit \/ KeyboardEscape \/ Sigterm
  <2>1. stimuli' \in 0..MaxStimuli
    BY <1>4, StimulusType DEF PadAxis, PadPlugged, PadQuit, KeyboardEscape, Sigterm
  <2>2. /\ stick' \in [Pads -> {0, 1}] /\ connected' \subseteq Pads
        /\ {quit', esc', sigterm'} \subseteq BOOLEAN
        /\ alarm' \in 0..AlarmTime
        /\ (stick' = stick /\ connected' = connected) \/ pc = "pump"
    <3>1. /\ stick \in [Pads -> {0, 1}] /\ connected \subseteq Pads
          /\ {quit, esc, sigterm} \subseteq BOOLEAN
          /\ alarm \in 0..AlarmTime /\ AlarmTime \in 0..AlarmTime
      BY DEF TypeOK
    <3>2. ASSUME NEW p \in Pads, PadAxis(p) \/ PadPlugged(p)
          PROVE  /\ stick' \in [Pads -> {0, 1}] /\ connected' \subseteq Pads
                 /\ pc = "pump" /\ UNCHANGED <<quit, esc, sigterm, alarm>>
      BY <3>1, <3>2 DEF PadAxis, PadPlugged, Pumping, ways
    <3>3. CASE PadQuit \/ KeyboardEscape \/ Sigterm
      BY <3>1, <3>3 DEF PadQuit, KeyboardEscape, Sigterm, player
    <3>4. QED
      BY <1>4, <3>1, <3>2, <3>3
  <2>3. UNCHANGED <<pc, slot, button, fallback, held, arrows, edges, hat, pushed, ring,
                    wake, lost, crossed, keys, axis, cmds, current, told, state, window,
                    saved, memory, destroy, shutdown, elapsed, exit>>
    BY <1>4 DEF PadAxis, PadPlugged, PadQuit, KeyboardEscape, Sigterm, turn, player,
                queue, view, app, ways
  <2>4. TypeOK'
    BY <2>1, <2>2, <2>3 DEF TypeOK
  <2>5. PlaceInv'
    BY <2>2, <2>3 DEF PlaceInv, LeadAxis
  <2>6. QED
    BY <2>4, <2>5
<1>5. ASSUME NEW v \in Arrows, KeyboardArrow(v) PROVE TypeOK' /\ PlaceInv'
  <2>1. hat' \in Axis /\ arrows' \subseteq Arrows
    BY <1>5 DEF KeyboardArrow, TypeOK, Arrows, Axis
  <2>2. /\ Arrow(IF v \in arrows THEN "UP" ELSE "DOWN") \in Events
        /\ Motion(Direction(pushed, hat')) \in Events
    BY <2>1, EventTypes DEF TypeOK, Direction, Axis, Edges
  <2>3. ring' \in Seq(Events) /\ Len(ring') < RingSize
    BY <1>5, <2>2, PushedType DEF KeyboardArrow, TypeOK
  <2>4. /\ stimuli' \in 0..MaxStimuli
        /\ {lost', crossed'} \subseteq SUBSET (Codes \cup {TheAxis})
    BY <1>5, StimulusType, HistoryTypes DEF KeyboardArrow
  <2>5. UNCHANGED <<pc, slot, button, fallback, held, edges, connected, stick, pushed,
                    wake, keys, axis, cmds, current, told, state, window, saved, memory,
                    esc, quit, sigterm, destroy, shutdown, elapsed, alarm, exit>>
    BY <1>5 DEF KeyboardArrow, turn, view, app, ways
  <2>6. TypeOK'
    BY <2>1, <2>3, <2>4, <2>5 DEF TypeOK
  <2>7. PlaceInv'
    BY <2>5 DEF PlaceInv, LeadAxis
  <2>8. QED
    BY <2>6, <2>7
<1>6. ASSUME NEW c \in KeyCodes, KeyboardKey(c) PROVE TypeOK' /\ PlaceInv'
  <2>1. /\ c \in Codes
        /\ Key(c, IF c \in held[Keyboard] THEN "UP" ELSE "DOWN") \in Events
    BY EventTypes DEF Codes, Edges
  <2>2. ring' \in Seq(Events) /\ Len(ring') < RingSize
    BY <1>6, <2>1, PushedType DEF KeyboardKey, TypeOK
  <2>3. /\ held' \in [Devices -> SUBSET Codes]
        /\ \A p \in Pads : held'[p] \subseteq Buttons
    <3>1. /\ held \in [Devices -> SUBSET Codes] /\ Keyboard \in Devices
          /\ \A p \in Pads : p \in Devices /\ p # Keyboard
      BY DEF TypeOK, Devices, Pads, Keyboard
    <3>2. PICK h \in SUBSET Codes : held' = [held EXCEPT ![Keyboard] = h]
      BY <1>6, <2>1, <3>1 DEF KeyboardKey
    <3>3. QED
      BY <3>1, <3>2 DEF TypeOK
  <2>4. /\ stimuli' \in 0..MaxStimuli
        /\ {lost', crossed'} \subseteq SUBSET (Codes \cup {TheAxis})
    BY <1>6, <2>1, StimulusType, HistoryTypes DEF KeyboardKey
  <2>5. UNCHANGED <<pc, slot, button, fallback, arrows, edges, connected, stick, hat,
                    pushed, wake, keys, axis, cmds, current, told, state, window, saved,
                    memory, esc, quit, sigterm, destroy, shutdown, elapsed, alarm, exit>>
    BY <1>6 DEF KeyboardKey, turn, view, app, ways
  <2>6. TypeOK'
    BY <2>2, <2>3, <2>4, <2>5 DEF TypeOK
  <2>7. PlaceInv'
    BY <2>5 DEF PlaceInv, LeadAxis
  <2>8. QED
    BY <2>6, <2>7
<1>7. CASE SdlQuit \/ Finish
  <2>1. BeginShutdown(TRUE, <<>>) /\ destroy' = TRUE /\ stimuli' \in 0..MaxStimuli
    BY <1>7, StimulusType DEF SdlQuit, Finish
  <2>2. UNCHANGED <<pc, slot, button, fallback, held, arrows, edges, connected, stick, hat, pushed, ring, wake,
                    lost, crossed, keys, axis, current, told, state, window, saved, memory,
                    esc, quit, sigterm, exit>>
    BY <1>7 DEF SdlQuit, Finish, turn, player, queue, view, app
  <2>3. QED
    BY <2>1, <2>2, ShutdownType DEF TypeOK, PlaceInv, LeadAxis
<1>8. CASE EmitButton
  <2>1. /\ pc = "pump" /\ slot \in Pads /\ button \in Buttons
        /\ slot' \in 1..(NPads + 1) /\ button' \in Buttons
    <3>1. /\ pc = "pump" /\ slot \in Pads /\ button \in Buttons
          /\ \/ button < NButtons /\ button' = button + 1 /\ slot' = slot
             \/ button' = 1 /\ slot' = slot + 1
      BY <1>8 DEF EmitButton, TypeOK
    <3>2. button' \in Buttons
      BY <3>1, InputAssumption DEF Buttons
    <3>3. slot' \in 1..(NPads + 1)
      BY <3>1, InputAssumption DEF Pads
    <3>4. QED
      BY <3>1, <3>2, <3>3
  <2>2. ring' \in Seq(Events) /\ Len(ring') < RingSize
    BY <1>8, <2>1, ButtonType DEF EmitButton
  <2>3. /\ edges' = [edges EXCEPT ![slot][button] = {}]
        /\ edges' \in [Pads -> [Buttons -> SUBSET Edges]]
    BY <1>8, <2>1 DEF EmitButton, TypeOK
  <2>4. {lost', crossed'} \subseteq SUBSET (Codes \cup {TheAxis})
    BY <1>8, <2>1, HistoryTypes DEF EmitButton, Codes
  <2>5. UNCHANGED <<pc, fallback, held, arrows, connected, stick, hat, pushed, wake,
                    keys, axis, cmds, current, told, state, window, saved, memory, esc,
                    quit, sigterm, destroy, shutdown, elapsed, alarm, exit, stimuli>>
    BY <1>8 DEF EmitButton, view, app, ways
  <2>6. TypeOK'
    BY <2>1, <2>2, <2>3, <2>4, <2>5 DEF TypeOK
  <2>7. PlaceInv'
    <3>1. ASSUME NEW p \in Pads, NEW b \in Buttons,
                 p < slot' \/ (p = slot' /\ b < button')
          PROVE  edges'[p][b] = {}
      <4>1. p < slot \/ (p = slot /\ b < button) \/ (p = slot /\ b = button)
        BY <1>8, <2>1, <3>1 DEF EmitButton, Pads, Buttons
      <4>2. edges[p][b] = {} \/ (p = slot /\ b = button)
        BY <4>1 DEF PlaceInv
      <4>3. edges \in [Pads -> [Buttons -> SUBSET Edges]]
        BY DEF TypeOK
      <4>4. QED
        BY <2>1, <2>3, <4>2, <4>3
    <3>2. QED
      BY <2>1, <2>5, <3>1 DEF PlaceInv
  <2>8. QED
    BY <2>6, <2>7
<1>9. ASSUME PadsDone, EmitMotion
      PROVE  /\ ring' \in Seq(Events) /\ Len(ring') < RingSize
             /\ {lost', crossed'} \subseteq SUBSET (Codes \cup {TheAxis})
             /\ pushed' \in {0, 1} /\ pushed' = LeadAxis
             /\ pc = "pump" /\ \A p \in Pads, b \in Buttons : edges[p][b] = {}
  <2>1. LeadAxis \in {0, 1} /\ Motion(Direction(LeadAxis, hat)) \in Events
    BY EventTypes DEF TypeOK, LeadAxis, Direction, Axis
  <2>2. ring' \in Seq(Events) /\ Len(ring') < RingSize
    BY <1>9, <2>1, PushedType DEF EmitMotion, TypeOK
  <2>3. \A p \in Pads : p < slot
    BY <1>9 DEF PadsDone, TypeOK, Pads
  <2>4. pc = "pump" /\ \A p \in Pads, b \in Buttons : edges[p][b] = {}
    BY <1>9, <2>3 DEF PadsDone, PlaceInv
  <2>5. {lost', crossed'} \subseteq SUBSET (Codes \cup {TheAxis})
    BY <1>9 DEF EmitMotion, Missing, TypeOK
  <2>6. QED
    BY <1>9, <2>1, <2>2, <2>4, <2>5 DEF EmitMotion
<1>10. CASE PollEnd
  <2>1. PICK more \in {<<>>, <<"LOW_MEMORY">>} : CheckExit(more) /\ CheckLowMemory(more)
    BY <1>10 DEF PollEnd
  <2>2. BeginShutdown(sigterm \/ quit \/ Combo, more) /\ quit' \in BOOLEAN
    BY <2>1 DEF CheckExit, TypeOK
  <2>3. /\ shutdown' \in BOOLEAN /\ elapsed' \in 0..Grace
        /\ alarm' \in 0..AlarmTime /\ cmds' \in Seq(Commands)
    BY <2>2, ShutdownType
  <2>4. memory' \in BOOLEAN /\ stimuli' \in 0..MaxStimuli
    BY <2>1, StimulusType DEF CheckLowMemory, TypeOK
  <2>5. /\ wake' \in BOOLEAN /\ slot' = 1 /\ button' = 1
        /\ pc' \in {"command", "input", "game"}
        /\ pc' = "command" => cmds' # <<>>
    BY <1>10 DEF PollEnd, Ready, TypeOK
  <2>6. UNCHANGED <<fallback, held, arrows, edges, connected, stick, hat, keys, axis, current, told, state,
                    window, saved, esc, sigterm, destroy, exit>>
    BY <1>10 DEF PollEnd, turn, player, view, app
  <2>7. /\ ring' \in Seq(Events) /\ Len(ring') < RingSize
        /\ {lost', crossed'} \subseteq SUBSET (Codes \cup {TheAxis})
        /\ pushed' \in {0, 1} /\ pushed' = LeadAxis
        /\ \A p \in Pads, b \in Buttons : edges[p][b] = {}
    BY <1>9, <1>10 DEF PollEnd
  <2>8. TypeOK'
    <3>1. slot' \in 1..(NPads + 1) /\ button' \in Buttons
      BY <2>5 DEF Buttons
    <3>2. QED
      BY <2>2, <2>3, <2>4, <2>5, <2>6, <2>7, <3>1 DEF TypeOK, Steps
  <2>9. PlaceInv'
    <3>1. LeadAxis' = LeadAxis
      BY <2>6 DEF LeadAxis
    <3>2. QED
      BY <2>5, <2>6, <2>7, <3>1 DEF PlaceInv
  <2>10. QED
    BY <2>8, <2>9
<1>11. CASE GraceExit
  <2>1. /\ ring' \in Seq(Events) /\ Len(ring') < RingSize
        /\ {lost', crossed'} \subseteq SUBSET (Codes \cup {TheAxis})
        /\ pushed' \in {0, 1} /\ pc = "pump" /\ exit' = "grace"
    BY <1>9, <1>11 DEF GraceExit
  <2>2. UNCHANGED <<pc, slot, button, fallback, held, arrows, edges, connected, stick, hat, wake, keys, axis,
                    cmds, current, told, state, window, saved, memory, esc, quit,
                    sigterm, destroy, shutdown, elapsed, alarm, stimuli>>
    BY <1>11 DEF GraceExit, turn, player, view, app, ways
  <2>3. QED
    BY <2>1, <2>2 DEF TypeOK, PlaceInv, LeadAxis
<1>12. CASE CommandRead
  <2>1. /\ Head(cmds) \in Commands /\ cmds' \in Seq(Commands)
        /\ current' = Head(cmds) /\ pc = "command" /\ pc' = "handler"
    BY <1>12, HeadTailProperties DEF CommandRead, TypeOK, PlaceInv
  <2>2. told' \in Seq(Commands)
    BY <1>12, <2>1, AppendProperties DEF CommandRead, TypeOK
  <2>3. /\ state' \in {"none", "START", "RESUME", "PAUSE"}
        /\ {window', saved'} \subseteq BOOLEAN
    BY <1>12 DEF CommandRead, TypeOK
  <2>4. UNCHANGED <<slot, button, fallback, held, arrows, edges, connected, stick, hat, pushed, ring, wake, lost, crossed,
                    keys, axis, memory, esc, quit, sigterm, destroy, shutdown, elapsed,
                    alarm, exit, stimuli>>
    BY <1>12 DEF CommandRead, turn, player, queue, view, ways
  <2>5. QED
    BY <2>1, <2>2, <2>3, <2>4 DEF TypeOK, PlaceInv, LeadAxis, Steps
<1>13. CASE CommandDone
  <2>1. /\ pc = "handler" /\ pc' = "game" /\ current' = "none" /\ saved' \in BOOLEAN
    BY <1>13 DEF CommandDone, TypeOK
  <2>2. UNCHANGED <<slot, button, fallback, held, arrows, edges, connected, stick, hat, pushed, ring, wake, lost, crossed,
                    keys, axis, cmds, told, state, window, memory, esc, quit, sigterm,
                    destroy, shutdown, elapsed, alarm, exit, stimuli>>
    BY <1>13 DEF CommandDone, turn, player, queue, view, ways
  <2>3. QED
    BY <2>1, <2>2 DEF TypeOK, PlaceInv, LeadAxis, Steps
<1>14. CASE InputHandled
  <2>1. keys' \subseteq Codes /\ axis' \in Axis
    BY <1>14, ViewTypes DEF InputHandled, TypeOK
  <2>2. ring' \in Seq(Events) /\ Len(ring') < RingSize
    BY <1>14 DEF InputHandled
  <2>3. pc = "input" /\ pc' = "game" /\ wake' = FALSE
    BY <1>14 DEF InputHandled
  <2>4. UNCHANGED <<slot, button, fallback, held, arrows, edges, connected, stick, hat, pushed, lost, crossed, cmds,
                    current, told, state, window, saved, memory, esc, quit, sigterm,
                    destroy, shutdown, elapsed, alarm, exit, stimuli>>
    BY <1>14 DEF InputHandled, turn, player, app, ways
  <2>5. QED
    BY <2>1, <2>2, <2>3, <2>4 DEF TypeOK, PlaceInv, LeadAxis, Steps
<1>15. CASE GuestReturns \/ Tick
  <2>1. /\ exit' \in {"none", "grace", "alarm", "returned"}
        /\ elapsed' \in 0..Grace /\ alarm' \in 0..AlarmTime
    BY <1>15 DEF GuestReturns, Tick, ways, TypeOK
  <2>2. UNCHANGED <<pc, slot, button, fallback, held, arrows, edges, connected, stick, hat, pushed, ring, wake,
                    lost, crossed, keys, axis, cmds, current, told, state, window, saved,
                    memory, esc, quit, sigterm, destroy, shutdown, stimuli>>
    BY <1>15 DEF GuestReturns, Tick, turn, player, queue, view, app, ways
  <2>3. QED
    BY <2>1, <2>2 DEF TypeOK, PlaceInv, LeadAxis
<1>16. QED
  BY <1>1, <1>2, <1>3, <1>4, <1>5, <1>6, <1>7, <1>8, <1>10, <1>11, <1>12, <1>13, <1>14,
     <1>15 DEF Next

-----------------------------------------------------------------------------
(* The game's view.  Of a code whose newest event was not dropped it takes *)
(* for down, once it has read the ring, only what some device holds or is  *)
(* about to release, and all that a device holds but for what was crossed; *)
(* the axis is where it was last pushed.                                   *)

\* The edges that wait with nxinput end with what is true of the button.
EdgesInv(p, b) ==
  /\ edges[p][b] = {"DOWN"} => b \in held[p]
  /\ edges[p][b] = {"UP"}   => b \notin held[p]

\* A release of c waits with nxinput.
Releasing(c) == c \in Buttons /\ \E p \in Pads : "UP" \in edges[p][c]

\* A device holds c, and has nothing more to say about it.
Settled(c) ==
  \/ c \in Buttons /\ \E p \in Pads : c \in held[p] /\ edges[p][c] = {}
  \/ fallback /\ c \in held[Keyboard]

KeyInv(c) ==
  c \notin lost => /\ c \in KeysAfter(ring) => Heard(c) \/ Releasing(c)
                   /\ Settled(c) => c \in KeysAfter(ring) \/ c \in crossed

AxisInv ==
  /\ hat # 0 => hat \in arrows
  /\ arrows # {} => hat # 0 \/ TheAxis \in crossed
  /\ TheAxis \notin lost => AxisAfter(ring) = Direction(pushed, hat)

ViewInv ==
  /\ \A p \in Pads, b \in Buttons : EdgesInv(p, b)
  /\ \A c \in Codes : KeyInv(c)
  /\ AxisInv

\* The axis is no key code, and the keyboard is no pad.
LEMMA CodeFacts ==
  /\ Buttons \subseteq Codes /\ KeyCodes \subseteq Codes /\ TheAxis \notin Codes
  /\ Keyboard \notin Pads /\ Keyboard \in Devices /\ Pads \subseteq Devices
  /\ Edges = {"DOWN", "UP"} /\ 0 \in Axis /\ 0 \notin Arrows
  /\ \A c \in Codes : \A edge \in Edges : Key(c, edge) \in Events
  BY InputAssumption, EventTypes
  DEF Buttons, Codes, TheAxis, Keyboard, Pads, Devices, Edges, Axis, Arrows

\* Nothing the view depends on changes.
LEMMA ViewKept ==
  ASSUME ViewInv,
         UNCHANGED <<fallback, held, arrows, edges, hat, pushed, ring, keys, axis,
                     lost, crossed>>
  PROVE  ViewInv'
<1>1. KeysAfter(ring)' = KeysAfter(ring) /\ AxisAfter(ring)' = AxisAfter(ring)
  BY DEF KeysAfter, AxisAfter
<1>2. \A c \in Codes : KeyInv(c)'
  BY <1>1 DEF ViewInv, KeyInv, Heard, Releasing, Settled
<1>3. QED
  BY <1>1, <1>2 DEF ViewInv, EdgesInv, AxisInv, Direction

\* An event that is pushed, or dropped, leaves the other matters alone.
LEMMA KeyPushed ==
  ASSUME NEW q \in Seq(Events), NEW wanted, NEW b \in Codes, NEW edge \in Edges
  PROVE  LET p == Pushed(q, wanted, Key(b, edge)) IN
           /\ p \in Seq(Events)
           /\ \A c \in Codes \ {b} : c \in KeysAfter(p) <=> c \in KeysAfter(q)
           /\ AxisAfter(p) = AxisAfter(q)
           /\ wanted /\ Len(q) + 1 < RingSize =>
                (b \in KeysAfter(p) <=> edge = "DOWN") /\ Len(p) = Len(q) + 1
<1> DEFINE a == Append(q, Key(b, edge))
<1>1. Key(b, edge) \in Events
  BY CodeFacts
<1>2. a \in Seq(Events) /\ Len(a) = Len(q) + 1
  BY <1>1, AppendProperties
<1>3. /\ KeysAfter(a) = IF edge = "DOWN" THEN KeysAfter(q) \cup {b}
                        ELSE KeysAfter(q) \ {b}
      /\ AxisAfter(a) = AxisAfter(q)
  BY KeyDecides
<1> HIDE DEF a
<1>4. Pushed(q, wanted, Key(b, edge)) =
        IF wanted /\ Len(q) + 1 < RingSize THEN a ELSE q
  BY DEF Pushed, a
<1>5. CASE wanted /\ Len(q) + 1 < RingSize
  BY <1>2, <1>3, <1>4, <1>5
<1>6. CASE ~(wanted /\ Len(q) + 1 < RingSize)
  BY <1>4, <1>6
<1>7. QED
  BY <1>5, <1>6

\* emit_nxinput_buttons speaks of one key only, and where all of it fits its
\* release has the last word.
LEMMA ButtonSeen ==
  ASSUME TypeOK, NEW p \in Pads, NEW b \in Buttons
  PROVE  LET q  == WithButton(p, b)
             es == edges[p][b]
         IN  /\ \A c \in Codes \ {b} : c \in KeysAfter(q) <=> c \in KeysAfter(ring)
             /\ AxisAfter(q) = AxisAfter(ring)
             /\ es = {} => q = ring
             /\ es = {"DOWN"} /\ ~Overflows(1) => b \in KeysAfter(q)
             /\ es = {"UP"} /\ ~Overflows(1) => b \notin KeysAfter(q)
             /\ es = Edges /\ ~Overflows(2) => b \notin KeysAfter(q)
<1> DEFINE es == edges[p][b]
           r  == Pushed(ring, "DOWN" \in es, Key(b, "DOWN"))
           q  == Pushed(r, "UP" \in es, Key(b, "UP"))
<1>1. /\ b \in Codes /\ Edges = {"DOWN", "UP"} /\ ring \in Seq(Events)
      /\ Len(ring) \in Nat /\ RingSize \in Nat
  BY CodeFacts, LenProperties, InputAssumption DEF TypeOK
<1>2. /\ r \in Seq(Events)
      /\ \A c \in Codes \ {b} : c \in KeysAfter(r) <=> c \in KeysAfter(ring)
      /\ AxisAfter(r) = AxisAfter(ring)
      /\ "DOWN" \in es /\ Len(ring) + 1 < RingSize =>
           b \in KeysAfter(r) /\ Len(r) = Len(ring) + 1
      /\ "DOWN" \notin es => r = ring
  <2>1. "DOWN" \notin es => r = ring
    BY DEF Pushed
  <2>2. QED
    BY <1>1, <2>1, KeyPushed
<1> HIDE DEF r
<1>3. /\ \A c \in Codes \ {b} : c \in KeysAfter(q) <=> c \in KeysAfter(r)
      /\ AxisAfter(q) = AxisAfter(r)
      /\ "UP" \in es /\ Len(r) + 1 < RingSize => b \notin KeysAfter(q)
      /\ "UP" \notin es => q = r
  <2>1. "UP" \notin es => q = r
    BY DEF Pushed
  <2>2. QED
    BY <1>1, <1>2, <2>1, KeyPushed
<1>4. q = WithButton(p, b)
  BY DEF q, r, WithButton
<1> HIDE DEF q, es
<1>5. /\ es = {} => q = ring
      /\ es = {"DOWN"} /\ ~Overflows(1) => b \in KeysAfter(q)
      /\ es = {"UP"} /\ ~Overflows(1) => b \notin KeysAfter(q)
      /\ es = Edges /\ ~Overflows(2) => b \notin KeysAfter(q)
  BY <1>1, <1>2, <1>3 DEF Overflows
<1>6. QED
  BY <1>2, <1>3, <1>4, <1>5 DEF es

\* The motion that is pushed when the pads have moved brings the axis to them.
LEMMA MotionSeen ==
  ASSUME TypeOK, ViewInv, EmitMotion,
         UNCHANGED <<fallback, held, arrows, edges, hat, keys, axis>>
  PROVE  ViewInv'
<1> DEFINE v == Direction(LeadAxis, hat)
           moved == LeadAxis # pushed
<1>1. /\ v \in Axis /\ Motion(v) \in Events /\ ring \in Seq(Events)
      /\ Len(ring) \in Nat /\ RingSize \in Nat
  BY EventTypes, LenProperties, InputAssumption
  DEF LeadAxis, Direction, TypeOK, Axis
<1>2. /\ ring' = Pushed(ring, moved, Motion(v)) /\ pushed' = LeadAxis
      /\ lost' = Missing(TheAxis, IF moved THEN 1 ELSE 0) /\ crossed' = crossed
  BY DEF EmitMotion
<1>3. /\ KeysAfter(ring') = KeysAfter(ring)
      /\ moved /\ ~Overflows(1) => AxisAfter(ring') = v
      /\ ~moved => ring' = ring
  <2>1. /\ KeysAfter(Append(ring, Motion(v))) = KeysAfter(ring)
        /\ AxisAfter(Append(ring, Motion(v))) = v
    BY <1>1, MotionDecides
  <2>2. ring' = IF moved /\ ~Overflows(1) THEN Append(ring, Motion(v)) ELSE ring
    BY <1>1, <1>2 DEF Pushed, Overflows
  <2>3. QED
    BY <2>1, <2>2
<1>4. KeysAfter(ring)' = KeysAfter(ring') /\ AxisAfter(ring)' = AxisAfter(ring')
  BY DEF KeysAfter, AxisAfter
<1>5. \A c \in Codes : KeyInv(c)'
  <2>1. \A c \in Codes : c \in lost' <=> c \in lost
    BY <1>2, CodeFacts DEF Missing
  <2>2. QED
    BY <1>2, <1>3, <1>4, <2>1 DEF ViewInv, KeyInv, Heard, Releasing, Settled
<1>6. TheAxis \notin lost' => AxisAfter(ring') = Direction(pushed', hat)
  <2>1. CASE moved
    BY <1>2, <1>3, <2>1 DEF Missing
  <2>2. CASE ~moved
    BY <1>2, <1>3, <2>2 DEF Missing, ViewInv, AxisInv
  <2>3. QED
    BY <2>1, <2>2
<1>7. AxisInv'
  BY <1>2, <1>4, <1>6 DEF ViewInv, AxisInv, Direction
<1>8. QED
  BY <1>5, <1>7 DEF ViewInv, EdgesInv

\* At the start nothing is held and the game believes nothing.
LEMMA ViewInitially == Init => ViewInv
<1> SUFFICES ASSUME Init PROVE ViewInv
  OBVIOUS
<1>1. keys \subseteq Codes /\ axis \in Axis /\ ring = <<>>
  BY CodeFacts DEF Init
<1>2. KeysAfter(ring) = keys /\ AxisAfter(ring) = axis
  BY <1>1, ViewTypes
<1>3. \A c \in Codes : KeyInv(c)
  BY <1>2, CodeFacts DEF Init, KeyInv, Settled
<1>4. \A p \in Pads, b \in Buttons : EdgesInv(p, b)
  BY DEF Init, EdgesInv
<1>5. AxisInv
  BY <1>2 DEF Init, AxisInv, Direction
<1>6. QED
  BY <1>3, <1>4, <1>5 DEF ViewInv

\* A button is pressed or released: the edge waits with nxinput.
LEMMA ButtonMoves ==
  ASSUME TypeOK, ViewInv, NEW p \in Pads, NEW b \in Buttons, PadButton(p, b)
  PROVE  ViewInv'
<1>1. /\ edges \in [Pads -> [Buttons -> SUBSET Edges]]
      /\ held \in [Devices -> SUBSET Codes] /\ Edges = {"DOWN", "UP"}
      /\ p \in Devices /\ Keyboard \in Devices /\ Keyboard \notin Pads
      /\ Pads \subseteq Devices
  BY CodeFacts DEF TypeOK
<1>2. UNCHANGED <<fallback, arrows, hat, pushed, ring, keys, axis, lost, crossed>>
  BY DEF PadButton, queue, view
<1>3. KeysAfter(ring)' = KeysAfter(ring) /\ AxisAfter(ring)' = AxisAfter(ring)
  BY <1>2 DEF KeysAfter, AxisAfter
<1>4. \/ /\ b \in held[p]
         /\ held'[p] = held[p] \ {b} /\ edges'[p][b] = edges[p][b] \cup {"UP"}
      \/ /\ b \notin held[p]
         /\ held'[p] = held[p] \cup {b} /\ edges'[p][b] = edges[p][b] \cup {"DOWN"}
  BY <1>1 DEF PadButton
<1>5. /\ \A d \in Devices : d # p => held'[d] = held[d]
      /\ \A r \in Pads, c \in Buttons : r # p \/ c # b => edges'[r][c] = edges[r][c]
  BY <1>1 DEF PadButton
<1>6. ASSUME NEW r \in Pads, NEW c \in Buttons PROVE EdgesInv(r, c)'
  <2>1. EdgesInv(r, c)
    BY DEF ViewInv
  <2>2. CASE r = p /\ c = b
    <3>1. edges[p][b] \subseteq {"DOWN", "UP"}
      BY <1>1
    <3>2. QED
      BY <1>4, <2>1, <2>2, <3>1 DEF EdgesInv
  <2>3. CASE r # p \/ c # b
    <3>1. c \in held'[r] <=> c \in held[r]
      BY <1>1, <1>4, <1>5, <2>3
    <3>2. QED
      BY <1>5, <2>1, <2>3, <3>1 DEF EdgesInv
  <2>4. QED
    BY <2>2, <2>3
<1>7. ASSUME NEW c \in Codes PROVE KeyInv(c)'
  <2>1. KeyInv(c)
    BY DEF ViewInv
  <2>2. Heard(c) \/ Releasing(c) => Heard(c)' \/ Releasing(c)'
    <3>1. CASE c = b
      <4>1. "UP" \in edges'[p][b] \/ b \in held'[p]
        BY <1>4
      <4>2. QED
        BY <3>1, <4>1 DEF Heard, Releasing
    <3>2. CASE c # b
      <4>1. /\ \A d \in Devices : c \in held'[d] <=> c \in held[d]
            /\ \A r \in Pads : c \in Buttons => edges'[r][c] = edges[r][c]
        BY <1>4, <1>5, <3>2
      <4>2. QED
        BY <1>1, <1>2, <4>1 DEF Heard, Releasing
    <3>3. QED
      BY <3>1, <3>2
  <2>3. Settled(c)' => Settled(c)
    <3>1. edges'[p][b] # {}
      BY <1>4
    <3>2. \A r \in Pads : c \in Buttons /\ c \in held'[r] /\ edges'[r][c] = {} =>
                            c \in held[r] /\ edges[r][c] = {}
      BY <1>1, <1>4, <1>5, <3>1
    <3>3. held'[Keyboard] = held[Keyboard]
      BY <1>1, <1>5
    <3>4. QED
      BY <1>2, <3>2, <3>3 DEF Settled
  <2>4. QED
    BY <1>2, <1>3, <2>1, <2>2, <2>3 DEF KeyInv
<1>8. AxisInv'
  BY <1>2, <1>3 DEF ViewInv, AxisInv, Direction
<1>9. QED
  BY <1>6, <1>7, <1>8 DEF ViewInv

\* The keyboard covers the pad from now on, or no longer.
LEMMA ArrowMoves ==
  ASSUME TypeOK, ViewInv, NEW v \in Arrows, KeyboardArrow(v)
  PROVE  ViewInv'
<1> DEFINE edge == IF v \in arrows THEN "UP" ELSE "DOWN"
           m == Direction(pushed, hat')
           q == Pushed(ring, TRUE, Arrow(edge))
<1>1. /\ edge \in Edges /\ m \in Axis
      /\ Arrow(edge) \in Events /\ Motion(m) \in Events
      /\ ring \in Seq(Events) /\ Len(ring) \in Nat /\ RingSize \in Nat
  <2>1. edge \in Edges /\ m \in Axis
    BY DEF KeyboardArrow, TypeOK, Direction, Axis, Arrows, Edges
  <2>2. QED
    BY <2>1, EventTypes, LenProperties, InputAssumption DEF TypeOK
<1>2. /\ arrows' = IF v \in arrows THEN arrows \ {v} ELSE arrows \cup {v}
      /\ hat' = IF v \in arrows THEN 0 ELSE v
      /\ ring' = Pushed(q, TRUE, Motion(m))
      /\ lost' = Missing(TheAxis, 2)
      /\ crossed' = Crossing(TheAxis, 2, v \in arrows /\ arrows # {v})
      /\ UNCHANGED <<fallback, held, edges, pushed, keys, axis>>
  BY DEF KeyboardArrow, view
<1> HIDE DEF edge, m
<1>3. /\ q \in Seq(Events) /\ KeysAfter(q) = KeysAfter(ring)
      /\ ~Overflows(2) => Len(q) = Len(ring) + 1
  <2>1. /\ Append(ring, Arrow(edge)) \in Seq(Events)
        /\ Len(Append(ring, Arrow(edge))) = Len(ring) + 1
        /\ KeysAfter(Append(ring, Arrow(edge))) = KeysAfter(ring)
    BY <1>1, AppendProperties, ArrowIgnored
  <2>2. q = IF Len(ring) + 1 < RingSize THEN Append(ring, Arrow(edge)) ELSE ring
    BY DEF Pushed
  <2>3. ~Overflows(2) => Len(ring) + 1 < RingSize
    BY <1>1 DEF Overflows
  <2>4. q = Append(ring, Arrow(edge)) \/ q = ring
    BY <2>2
  <2>5. q \in Seq(Events) /\ KeysAfter(q) = KeysAfter(ring)
    BY <1>1, <2>1, <2>4
  <2>6. QED
    BY <2>1, <2>2, <2>3, <2>5
<1> HIDE DEF q
<1>4. /\ KeysAfter(ring') = KeysAfter(ring)
      /\ ~Overflows(2) => AxisAfter(ring') = m
  <2>1. /\ KeysAfter(Append(q, Motion(m))) = KeysAfter(q)
        /\ AxisAfter(Append(q, Motion(m))) = m
    BY <1>1, <1>3, MotionDecides
  <2>2. ring' = IF Len(q) + 1 < RingSize THEN Append(q, Motion(m)) ELSE q
    BY <1>2 DEF Pushed
  <2>3. ~Overflows(2) => Len(q) + 1 < RingSize
    BY <1>1, <1>3 DEF Overflows
  <2>4. QED
    BY <1>3, <2>1, <2>2, <2>3
<1>5. KeysAfter(ring)' = KeysAfter(ring') /\ AxisAfter(ring)' = AxisAfter(ring')
  BY <1>2 DEF KeysAfter, AxisAfter
<1>6. \A c \in Codes : KeyInv(c)'
  <2>1. \A c \in Codes : (c \in lost' <=> c \in lost) /\ (c \in crossed' <=> c \in crossed)
    BY <1>2, CodeFacts DEF Missing, Crossing
  <2>2. QED
    BY <1>2, <1>4, <1>5, <2>1 DEF ViewInv, KeyInv, Heard, Releasing, Settled
<1>7. TheAxis \notin lost' => AxisAfter(ring)' = Direction(pushed, hat)'
  <2>1. TheAxis \notin lost' => ~Overflows(2)
    BY <1>2 DEF Missing
  <2>2. QED
    BY <1>2, <1>4, <1>5, <2>1 DEF m, Direction
<1>8. hat' # 0 => hat' \in arrows'
  BY <1>2
<1>9. arrows' # {} => hat' # 0 \/ TheAxis \in crossed'
  BY <1>2, CodeFacts DEF Crossing
<1>10. QED
  BY <1>2, <1>6, <1>7, <1>8, <1>9 DEF ViewInv, EdgesInv, AxisInv

\* A key of the keyboard has no edges that wait: its event is in the ring at
\* once.  Its release is crossed by what a pad holds.
LEMMA KeyMoves ==
  ASSUME TypeOK, ViewInv, NEW k \in KeyCodes, KeyboardKey(k)
  PROVE  ViewInv'
<1> DEFINE up == k \in held[Keyboard]
           edge == IF up THEN "UP" ELSE "DOWN"
<1>1. /\ k \in Codes /\ k # TheAxis /\ edge \in Edges /\ TheAxis \notin Codes
      /\ held \in [Devices -> SUBSET Codes]
      /\ Keyboard \in Devices /\ Keyboard \notin Pads /\ Pads \subseteq Devices
      /\ ring \in Seq(Events) /\ Len(ring) \in Nat /\ RingSize \in Nat
  BY CodeFacts, LenProperties, InputAssumption DEF TypeOK
<1>2. /\ ring' = Pushed(ring, fallback, Key(k, edge))
      /\ lost' = Missing(k, IF fallback THEN 1 ELSE 0)
      /\ crossed' = Crossing(k, IF fallback THEN 1 ELSE 0,
                             up /\ \E p \in Pads : k \in held[p])
      /\ UNCHANGED <<fallback, arrows, edges, hat, pushed, keys, axis>>
  BY DEF KeyboardKey, view
<1>3. /\ held'[Keyboard] = IF up THEN held[Keyboard] \ {k} ELSE held[Keyboard] \cup {k}
      /\ \A p \in Pads : held'[p] = held[p]
  BY <1>1 DEF KeyboardKey
<1> HIDE DEF edge
<1>4. /\ \A c \in Codes \ {k} : c \in KeysAfter(ring') <=> c \in KeysAfter(ring)
      /\ AxisAfter(ring') = AxisAfter(ring)
      /\ fallback /\ ~Overflows(1) => (k \in KeysAfter(ring') <=> edge = "DOWN")
      /\ ~fallback => ring' = ring
  <2>1. ~fallback => ring' = ring
    BY <1>2 DEF Pushed
  <2>2. ~Overflows(1) => Len(ring) + 1 < RingSize
    BY <1>1 DEF Overflows
  <2>3. QED
    BY <1>1, <1>2, <2>1, <2>2, KeyPushed
<1>5. KeysAfter(ring)' = KeysAfter(ring') /\ AxisAfter(ring)' = AxisAfter(ring')
  BY <1>2 DEF KeysAfter, AxisAfter
<1>6. \A m \in Codes \cup {TheAxis} :
        m # k \/ ~fallback => (m \in lost' <=> m \in lost) /\ (m \in crossed' <=> m \in crossed)
  BY <1>2 DEF Missing, Crossing
<1>7. ASSUME NEW c \in Codes PROVE KeyInv(c)'
  <2>1. KeyInv(c)
    BY DEF ViewInv
  <2>2. CASE c # k \/ ~fallback
    <3>1. (Heard(c)' <=> Heard(c)) /\ (Releasing(c)' <=> Releasing(c))
          /\ (Settled(c)' <=> Settled(c))
      BY <1>2, <1>3, <2>2 DEF Heard, Releasing, Settled
    <3>2. c \in KeysAfter(ring') <=> c \in KeysAfter(ring)
      BY <1>4, <2>2
    <3>3. QED
      BY <1>5, <1>6, <2>1, <2>2, <3>1, <3>2 DEF KeyInv
  <2>3. CASE c = k /\ fallback
    <3>1. k \notin lost' => ~Overflows(1)
      BY <1>2, <2>3 DEF Missing
    <3>2. CASE up
      <4>1. k \notin lost' => k \notin KeysAfter(ring')
        BY <1>4, <2>3, <3>1, <3>2 DEF edge
      <4>2. Settled(k)' => \E p \in Pads : k \in held[p]
        BY <1>3, <3>2 DEF Settled
      <4>3. Settled(k)' => k \in crossed'
        BY <1>2, <2>3, <3>2, <4>2 DEF Crossing
      <4>4. QED
        BY <1>5, <2>3, <4>1, <4>3 DEF KeyInv
    <3>3. CASE ~up
      <4>1. k \notin lost' => k \in KeysAfter(ring')
        BY <1>4, <2>3, <3>1, <3>3 DEF edge
      <4>2. Heard(k)'
        BY <1>2, <1>3, <2>3, <3>3 DEF Heard
      <4>3. QED
        BY <1>5, <2>3, <4>1, <4>2 DEF KeyInv
    <3>4. QED
      BY <3>2, <3>3
  <2>4. QED
    BY <2>2, <2>3
<1>8. AxisInv'
  <2>1. (TheAxis \in lost' <=> TheAxis \in lost)
        /\ (TheAxis \in crossed' <=> TheAxis \in crossed)
    BY <1>1, <1>6
  <2>2. QED
    BY <1>2, <1>4, <1>5, <2>1 DEF ViewInv, AxisInv, Direction
<1>9. \A p \in Pads, b \in Buttons : EdgesInv(p, b)'
  BY <1>2, <1>3 DEF ViewInv, EdgesInv
<1>10. QED
  BY <1>7, <1>8, <1>9 DEF ViewInv

\* The edges of one button of one pad are handed out: the view of this key
\* follows the last of them, whoever else holds it.
LEMMA ButtonEmitted ==
  ASSUME TypeOK, ViewInv, EmitButton
  PROVE  ViewInv'
<1> DEFINE es == edges[slot][button]
           n  == IF es = {} THEN 0 ELSE IF es = Edges THEN 2 ELSE 1
<1>1. /\ slot \in Pads /\ button \in Buttons /\ button \in Codes
      /\ button # TheAxis /\ TheAxis \notin Codes /\ Edges = {"DOWN", "UP"}
      /\ edges \in [Pads -> [Buttons -> SUBSET Edges]] /\ es \subseteq Edges
  BY CodeFacts DEF EmitButton, TypeOK
<1>2. /\ ring' = WithButton(slot, button)
      /\ lost' = Missing(button, n)
      /\ crossed' = Crossing(button, n, "UP" \in es /\ Heard(button))
      /\ UNCHANGED <<fallback, held, arrows, hat, pushed, keys, axis>>
  BY DEF EmitButton, view
<1>3. /\ edges'[slot][button] = {}
      /\ \A p \in Pads, b \in Buttons :
           p # slot \/ b # button => edges'[p][b] = edges[p][b]
  BY <1>1 DEF EmitButton
<1>4. /\ \A c \in Codes \ {button} : c \in KeysAfter(ring') <=> c \in KeysAfter(ring)
      /\ AxisAfter(ring') = AxisAfter(ring)
      /\ es = {} => ring' = ring
      /\ es = {"DOWN"} /\ ~Overflows(1) => button \in KeysAfter(ring')
      /\ es = {"UP"} /\ ~Overflows(1) => button \notin KeysAfter(ring')
      /\ es = Edges /\ ~Overflows(2) => button \notin KeysAfter(ring')
  BY <1>1, <1>2, ButtonSeen
<1>5. KeysAfter(ring)' = KeysAfter(ring') /\ AxisAfter(ring)' = AxisAfter(ring')
  BY <1>2 DEF KeysAfter, AxisAfter
<1>6. \A m \in Codes \cup {TheAxis} :
        m # button => (m \in lost' <=> m \in lost) /\ (m \in crossed' <=> m \in crossed)
  BY <1>2 DEF Missing, Crossing
<1>7. \A c \in Codes : Heard(c)' <=> Heard(c)
  BY <1>2 DEF Heard
<1>8. ASSUME NEW p \in Pads, NEW b \in Buttons PROVE EdgesInv(p, b)'
  <2>1. edges'[p][b] = {} \/ edges'[p][b] = edges[p][b]
    BY <1>3
  <2>2. QED
    BY <1>2, <2>1 DEF ViewInv, EdgesInv
<1>9. ASSUME NEW c \in Codes PROVE KeyInv(c)'
  <2>1. KeyInv(c)
    BY DEF ViewInv
  <2>2. CASE c # button
    <3>1. \A p \in Pads : c \in Buttons => edges'[p][c] = edges[p][c]
      BY <1>3, <2>2
    <3>2. (Heard(c)' <=> Heard(c)) /\ (Releasing(c)' <=> Releasing(c))
          /\ (Settled(c)' <=> Settled(c))
      BY <1>2, <3>1 DEF Heard, Releasing, Settled
    <3>3. QED
      BY <1>4, <1>5, <1>6, <2>1, <2>2, <3>2 DEF KeyInv
  <2>3. CASE c = button /\ es = {}
    <3>1. \A p \in Pads : edges'[p][c] = edges[p][c]
      BY <1>1, <1>3, <2>3
    <3>2. (Heard(c)' <=> Heard(c)) /\ (Releasing(c)' <=> Releasing(c))
          /\ (Settled(c)' <=> Settled(c))
      BY <1>2, <3>1 DEF Heard, Releasing, Settled
    <3>3. lost' = lost /\ crossed' = crossed /\ ring' = ring
      BY <1>2, <1>4, <2>3 DEF Missing, Crossing
    <3>4. QED
      BY <1>5, <2>1, <3>2, <3>3 DEF KeyInv
  <2>4. CASE c = button /\ es = {"DOWN"}
    <3>1. button \in held[slot]
      BY <1>1, <2>4 DEF ViewInv, EdgesInv
    <3>2. Heard(c)'
      BY <1>1, <1>7, <2>4, <3>1 DEF Heard
    <3>3. n = 1
      BY <1>1, <2>4
    <3>4. button \notin lost' => button \in KeysAfter(ring')
      BY <1>2, <1>4, <2>4, <3>3 DEF Missing
    <3>5. QED
      BY <1>5, <2>4, <3>2, <3>4 DEF KeyInv
  <2>5. CASE c = button /\ "UP" \in es
    <3>1. /\ n = IF es = Edges THEN 2 ELSE 1
          /\ es = Edges \/ es = {"UP"}
      BY <1>1, <2>5
    <3>2. button \notin lost' => button \notin KeysAfter(ring')
      <4>1. button \notin lost' => ~Overflows(n)
        BY <1>2, <3>1 DEF Missing
      <4>2. QED
        BY <1>4, <3>1, <4>1
    <3>3. Heard(button) => button \in crossed'
      BY <1>2, <2>5, <3>1 DEF Crossing
    <3>4. Settled(c)' => Heard(c)
      BY <1>7 DEF Settled, Heard
    <3>5. QED
      BY <1>5, <2>5, <3>2, <3>3, <3>4 DEF KeyInv
  <2>6. QED
    BY <1>1, <2>2, <2>3, <2>4, <2>5
<1>10. AxisInv'
  <2>1. (TheAxis \in lost' <=> TheAxis \in lost)
        /\ (TheAxis \in crossed' <=> TheAxis \in crossed)
    BY <1>1, <1>6
  <2>2. QED
    BY <1>2, <1>4, <1>5, <2>1 DEF ViewInv, AxisInv, Direction
<1>11. QED
  BY <1>8, <1>9, <1>10 DEF ViewInv

\* Every step keeps what the game will believe true.
LEMMA ViewStep == TypeOK /\ ViewInv /\ [Next]_vars => ViewInv'
<1> SUFFICES ASSUME TypeOK, ViewInv, [Next]_vars PROVE ViewInv'
  OBVIOUS
\* Nothing that the view depends on is touched.
<1>1. CASE \/ UNCHANGED vars \/ PollStart
           \/ (\E p \in Pads : PadAxis(p) \/ PadPlugged(p)) \/ PadQuit
           \/ KeyboardEscape \/ SdlQuit \/ CommandRead \/ CommandDone \/ Finish
           \/ GuestReturns \/ Sigterm \/ Tick
  <2>1. UNCHANGED <<fallback, held, arrows, edges, hat, pushed, ring, keys, axis, lost,
                    crossed>>
    BY <1>1 DEF vars, PollStart, PadAxis, PadPlugged, PadQuit, KeyboardEscape, SdlQuit,
                CommandRead, CommandDone, Finish, GuestReturns, Sigterm, Tick, player,
                queue, view
  <2>2. QED
    BY <2>1, ViewKept
<1>2. ASSUME NEW p \in Pads, NEW b \in Buttons, PadButton(p, b) PROVE ViewInv'
  BY <1>2, ButtonMoves
<1>3. ASSUME NEW v \in Arrows, KeyboardArrow(v) PROVE ViewInv'
  BY <1>3, ArrowMoves
<1>4. ASSUME NEW c \in KeyCodes, KeyboardKey(c) PROVE ViewInv'
  BY <1>4, KeyMoves
<1>5. CASE EmitButton
  BY <1>5, ButtonEmitted
<1>6. CASE PollEnd \/ GraceExit
  <2>1. EmitMotion /\ UNCHANGED <<fallback, held, arrows, edges, hat, keys, axis>>
    BY <1>6 DEF PollEnd, GraceExit, player, view
  <2>2. QED
    BY <2>1, MotionSeen
\* The game has read the ring.
<1>7. CASE InputHandled
  <2>1. /\ keys' = KeysAfter(ring) /\ axis' = AxisAfter(ring) /\ ring' = <<>>
        /\ UNCHANGED <<fallback, held, arrows, edges, hat, pushed, lost, crossed>>
    BY <1>7 DEF InputHandled, Delivered, player
  <2>2. keys' \subseteq Codes /\ axis' \in Axis
    BY <2>1, ViewTypes DEF TypeOK
  <2>3. KeysAfter(ring)' = keys' /\ AxisAfter(ring)' = axis'
    <3>1. \A e : ~LastWord(ring', e)
      BY <2>1, EmptyIsSilent
    <3>2. QED
      BY <2>2, <3>1 DEF KeysAfter, AxisAfter
  <2>4. \A c \in Codes : KeyInv(c)'
    BY <2>1, <2>3 DEF ViewInv, KeyInv, Heard, Releasing, Settled
  <2>5. QED
    BY <2>1, <2>3, <2>4 DEF ViewInv, EdgesInv, AxisInv, Direction
<1>8. QED
  BY <1>1, <1>2, <1>3, <1>4, <1>5, <1>6, <1>7 DEF Next

-----------------------------------------------------------------------------
(* The commands, in what the game was told and what is on the way.         *)

\* The places in q are 1..n, each once and in ascending order.
InOrder(q, n) ==
  /\ {Place[q[i]] : i \in DOMAIN q} \ {0} = 1..n
  /\ \A i, j \in DOMAIN q : i < j /\ Place[q[j]] # 0 => Place[q[i]] < Place[q[j]]

\* The last place that is due.
Last == IF shutdown THEN Len(Life) ELSE Len(Starting)

StreamInv == InOrder(told \o cmds, Last)

\* The game was told c.
Told(c) == \E i \in DOMAIN told : told[i] = c

\* The game is paused, and its state saved, when it was told so.
SavedInv ==
  /\ state = "PAUSE" => Told("PAUSE") /\ saved
  /\ Told("SAVE_STATE") => saved \/ current = "SAVE_STATE"
  /\ pc # "handler" => current = "none"

\* The life of an activity has eight commands, LOW_MEMORY is none of them.
LEMMA PlaceFacts ==
  /\ Len(Starting) = 5 /\ Len(Life) = 8
  /\ \A c \in Commands : Place[c] \in 0..8
  /\ Place["LOW_MEMORY"] = 0
  /\ \A k \in 1..5 : Place[Starting[k]] = k
  /\ \A k \in 1..3 : Place[Leaving[k]] = k + 5
  /\ \A c \in Commands : /\ Place[c] = 7 <=> c = "SAVE_STATE"
                         /\ Place[c] = 8 <=> c = "PAUSE"
<1>1. /\ Len(Starting) = 5 /\ DOMAIN Starting = 1..5
      /\ Starting[1] = "INPUT_CHANGED" /\ Starting[2] = "START"
      /\ Starting[3] = "RESUME" /\ Starting[4] = "INIT_WINDOW"
      /\ Starting[5] = "GAINED_FOCUS"
  BY DEF Starting
<1>2. /\ Len(Leaving) = 3 /\ DOMAIN Leaving = 1..3
      /\ Leaving[1] = "LOST_FOCUS" /\ Leaving[2] = "SAVE_STATE"
      /\ Leaving[3] = "PAUSE"
  BY DEF Leaving
<1>3. /\ Len(Life) = 8 /\ DOMAIN Life = 1..8
      /\ \A k \in 1..5 : Life[k] = Starting[k]
      /\ \A k \in 6..8 : Life[k] = Leaving[k - 5]
  <2>1. /\ Life \in Seq(Commands) /\ Len(Life) = Len(Starting) + Len(Leaving)
        /\ \A i \in 1..(Len(Starting) + Len(Leaving)) :
             Life[i] = IF i <= Len(Starting) THEN Starting[i] ELSE Leaving[i - Len(Starting)]
    BY CommandTypes, ConcatProperties DEF Life
  <2>2. /\ Len(Life) = 8
        /\ \A i \in 1..8 : Life[i] = IF i <= 5 THEN Starting[i] ELSE Leaving[i - 5]
    BY <1>1, <1>2, <2>1
  <2>3. DOMAIN Life = 1..8
    BY <2>1, <2>2, LenProperties
  <2>4. QED
    BY <2>2, <2>3
<1>4. \A j, k \in 1..8 : Life[j] = Life[k] => j = k
  BY <1>1, <1>2, <1>3
<1>5. \A k \in 1..8 : Life[k] \in Commands /\ Life[k] # "LOW_MEMORY"
  <2>1. \A k \in 1..5 : Starting[k] \in Commands /\ Starting[k] # "LOW_MEMORY"
    BY <1>1 DEF Commands
  <2>2. \A k \in 1..3 : Leaving[k] \in Commands /\ Leaving[k] # "LOW_MEMORY"
    BY <1>2 DEF Commands
  <2>3. QED
    BY <1>3, <2>1, <2>2
<1>6. ASSUME NEW k \in 1..8 PROVE Place[Life[k]] = k
  <2>1. Place[Life[k]] = CHOOSE j \in DOMAIN Life : Life[j] = Life[k]
    BY <1>5 DEF Place
  <2>2. QED
    BY <1>3, <1>4, <2>1
<1>7. Place["LOW_MEMORY"] = 0
  BY DEF Place, Commands
<1>8. \A c \in Commands : c = "LOW_MEMORY" \/ \E k \in 1..8 : c = Life[k]
  <2>1. ASSUME NEW c \in Commands PROVE c = "LOW_MEMORY" \/ \E k \in 1..8 : c = Life[k]
    <3>1. CASE \E k \in 1..5 : c = Starting[k]
      BY <1>3, <3>1
    <3>2. CASE \E k \in 1..3 : c = Leaving[k]
      <4>1. PICK k \in 1..3 : c = Leaving[k]
        BY <3>2
      <4>2. k + 5 \in 6..8 /\ (k + 5) - 5 = k /\ k + 5 \in 1..8
        OBVIOUS
      <4>3. QED
        BY <1>3, <4>1, <4>2
    <3>3. QED
      BY <1>1, <1>2, <3>1, <3>2 DEF Commands
  <2>2. QED
    BY <2>1
<1>9. \A c \in Commands : Place[c] \in 0..8
  BY <1>6, <1>7, <1>8
<1>10. /\ Life[7] = "SAVE_STATE" /\ Life[8] = "PAUSE"
  BY <1>2, <1>3
<1>11. \A c \in Commands : /\ Place[c] = 7 <=> c = "SAVE_STATE"
                           /\ Place[c] = 8 <=> c = "PAUSE"
  BY <1>4, <1>6, <1>7, <1>8, <1>10
<1>12. \A k \in 1..5 : Place[Starting[k]] = k
  BY <1>3, <1>6
<1>13. \A k \in 1..3 : Place[Leaving[k]] = k + 5
  <2>1. ASSUME NEW k \in 1..3 PROVE Place[Leaving[k]] = k + 5
    <3>1. k + 5 \in 6..8 /\ k + 5 \in 1..8 /\ (k + 5) - 5 = k
      OBVIOUS
    <3>2. QED
      BY <1>3, <1>6, <3>1
  <2>2. QED
    BY <2>1
<1>14. QED
  BY <1>1, <1>3, <1>7, <1>9, <1>11, <1>12, <1>13

\* LOW_MEMORY may come at any place.
LEMMA LowAppended ==
  ASSUME NEW q \in Seq(Commands), NEW n \in Nat, InOrder(q, n)
  PROVE  InOrder(q \o <<"LOW_MEMORY">>, n)
<1> DEFINE a == q \o <<"LOW_MEMORY">>
<1>1. /\ Len(q) \in Nat /\ DOMAIN q = 1..Len(q) /\ DOMAIN a = 1..(Len(q) + 1)
      /\ \A i \in 1..Len(q) : a[i] = q[i]
      /\ a[Len(q) + 1] = "LOW_MEMORY"
  BY CommandTypes, ConcatProperties, LenProperties
<1> HIDE DEF a
<1>2. {Place[a[i]] : i \in DOMAIN a} = {Place[q[i]] : i \in DOMAIN q} \cup {0}
  <2>1. \A i \in DOMAIN a : i \in DOMAIN q \/ i = Len(q) + 1
    BY <1>1
  <2>2. \A i \in DOMAIN q : i \in DOMAIN a /\ Place[a[i]] = Place[q[i]]
    BY <1>1
  <2>3. Len(q) + 1 \in DOMAIN a /\ Place[a[Len(q) + 1]] = 0
    BY <1>1, PlaceFacts
  <2>4. QED
    BY <2>1, <2>2, <2>3
<1>3. {Place[a[i]] : i \in DOMAIN a} \ {0} = 1..n
  BY <1>2 DEF InOrder
<1>4. \A i, j \in DOMAIN a : i < j /\ Place[a[j]] # 0 => Place[a[i]] < Place[a[j]]
  <2>1. ASSUME NEW i \in DOMAIN a, NEW j \in DOMAIN a, i < j, Place[a[j]] # 0
        PROVE  Place[a[i]] < Place[a[j]]
    <3>1. i \in 1..Len(q) /\ j \in 1..Len(q)
      BY <1>1, <2>1, PlaceFacts
    <3>2. QED
      BY <1>1, <2>1, <3>1 DEF InOrder
  <2>2. QED
    BY <2>1
<1>5. QED
  BY <1>3, <1>4 DEF InOrder, a

\* The commands of leaving come behind those of the start.
LEMMA LeavingAppended ==
  ASSUME NEW q \in Seq(Commands), InOrder(q, 5)
  PROVE  InOrder(q \o Leaving, 8)
<1> DEFINE a == q \o Leaving
<1>0. Len(Leaving) = 3
  BY DEF Leaving
<1>1. /\ Len(q) \in Nat /\ DOMAIN q = 1..Len(q) /\ DOMAIN a = 1..(Len(q) + 3)
      /\ \A i \in 1..Len(q) : a[i] = q[i]
      /\ \A k \in 1..3 : a[Len(q) + k] = Leaving[k]
  <2>1. /\ a \in Seq(Commands) /\ Len(a) = Len(q) + Len(Leaving)
        /\ \A i \in 1..(Len(q) + Len(Leaving)) :
             a[i] = IF i <= Len(q) THEN q[i] ELSE Leaving[i - Len(q)]
    BY CommandTypes, ConcatProperties
  <2>2. /\ Len(q) \in Nat /\ DOMAIN q = 1..Len(q) /\ DOMAIN a = 1..Len(a)
    BY <2>1, LenProperties
  <2> HIDE DEF a
  <2>3. \A i \in 1..(Len(q) + 3) :
          a[i] = IF i <= Len(q) THEN q[i] ELSE Leaving[i - Len(q)]
    BY <1>0, <2>1
  <2>4. \A k \in 1..3 : a[Len(q) + k] = Leaving[k]
    <3>1. ASSUME NEW k \in 1..3 PROVE a[Len(q) + k] = Leaving[k]
      <4>1. /\ Len(q) + k \in 1..(Len(q) + 3) /\ ~(Len(q) + k <= Len(q))
            /\ (Len(q) + k) - Len(q) = k
        BY <2>2
      <4>2. QED
        BY <2>3, <4>1
    <3>2. QED
      BY <3>1
  <2>5. QED
    BY <1>0, <2>1, <2>2, <2>3, <2>4
<1> HIDE DEF a
<1>2. \A k \in 1..3 : Place[a[Len(q) + k]] = k + 5
  BY <1>1, PlaceFacts
<1>3. \A i \in DOMAIN a : i \in 1..Len(q) \/ \E k \in 1..3 : i = Len(q) + k
  <2>1. ASSUME NEW i \in DOMAIN a, i \notin 1..Len(q)
        PROVE  i - Len(q) \in 1..3 /\ i = Len(q) + (i - Len(q))
    BY <1>1, <2>1
  <2>2. QED
    BY <2>1
<1>4. \A i \in 1..Len(q) : Place[a[i]] \in 0..5 /\ Place[a[i]] = Place[q[i]]
  <2>1. \A i \in 1..Len(q) : Place[q[i]] \in 0..8
    BY <1>1, PlaceFacts, ElementOfSeq
  <2>2. \A i \in 1..Len(q) : Place[q[i]] # 0 => Place[q[i]] \in 1..5
    BY <1>1 DEF InOrder
  <2>3. QED
    BY <1>1, <2>1, <2>2
<1>5. {Place[a[i]] : i \in DOMAIN a} \ {0} = 1..8
  <2>1. ASSUME NEW p \in 1..8 PROVE \E i \in DOMAIN a : Place[a[i]] = p
    <3>1. CASE p \in 1..5
      <4>1. PICK i \in DOMAIN q : Place[q[i]] = p
        BY <3>1 DEF InOrder
      <4>2. QED
        BY <1>1, <1>4, <4>1
    <3>2. CASE p \in 6..8
      <4>1. p - 5 \in 1..3 /\ (p - 5) + 5 = p
        BY <3>2
      <4>2. Place[a[Len(q) + (p - 5)]] = p /\ Len(q) + (p - 5) \in DOMAIN a
        BY <1>1, <1>2, <4>1
      <4>3. QED
        BY <4>2
    <3>3. QED
      BY <3>1, <3>2
  <2>2. ASSUME NEW i \in DOMAIN a PROVE Place[a[i]] \in 0..8
    <3>1. CASE i \in 1..Len(q)
      BY <1>4, <3>1
    <3>2. CASE \E k \in 1..3 : i = Len(q) + k
      BY <1>2, <3>2
    <3>3. QED
      BY <1>3, <3>1, <3>2
  <2>3. QED
    BY <2>1, <2>2
<1>6. \A i, j \in DOMAIN a : i < j /\ Place[a[j]] # 0 => Place[a[i]] < Place[a[j]]
  <2>1. ASSUME NEW i \in DOMAIN a, NEW j \in DOMAIN a, i < j, Place[a[j]] # 0
        PROVE  Place[a[i]] < Place[a[j]]
    <3>1. CASE j \in 1..Len(q)
      <4>1. i \in 1..Len(q)
        BY <1>1, <2>1, <3>1
      <4>2. QED
        BY <1>1, <2>1, <3>1, <4>1 DEF InOrder
    <3>2. CASE \E k \in 1..3 : j = Len(q) + k
      <4>1. PICK k \in 1..3 : j = Len(q) + k
        BY <3>2
      <4>2. Place[a[j]] = k + 5
        BY <1>2, <4>1
      <4>3. CASE i \in 1..Len(q)
        BY <1>4, <4>2, <4>3
      <4>4. CASE \E l \in 1..3 : i = Len(q) + l
        <5>1. PICK l \in 1..3 : i = Len(q) + l
          BY <4>4
        <5>2. Place[a[i]] = l + 5 /\ l < k
          BY <1>1, <1>2, <2>1, <4>1, <5>1
        <5>3. QED
          BY <4>2, <5>2
      <4>5. QED
        BY <1>3, <4>3, <4>4
    <3>3. QED
      BY <1>3, <3>1, <3>2
  <2>2. QED
    BY <2>1
<1>7. QED
  BY <1>5, <1>6 DEF InOrder, a

\* begin_shutdown keeps the order, the first time and later.
LEMMA ShutdownInOrder ==
  ASSUME TypeOK, StreamInv, told' = told,
         NEW wanted \in BOOLEAN, NEW more \in {<<>>, <<"LOW_MEMORY">>},
         BeginShutdown(wanted, more)
  PROVE  StreamInv'
<1> DEFINE q == told \o cmds
<1>1. told \in Seq(Commands) /\ cmds \in Seq(Commands) /\ q \in Seq(Commands)
      /\ InOrder(q, Last) /\ Last = (IF shutdown THEN 8 ELSE 5)
  BY ConcatProperties, PlaceFacts DEF TypeOK, StreamInv, Last
<1>2. PICK leaving \in Seq(Commands) :
         /\ leaving = IF wanted /\ ~shutdown THEN Leaving ELSE <<>>
         /\ cmds' = cmds \o leaving \o more
         /\ shutdown' = (shutdown \/ (wanted /\ ~shutdown))
  BY CommandTypes DEF BeginShutdown
<1>3. told' \o cmds' = (q \o leaving) \o more /\ q \o leaving \in Seq(Commands)
  <2>1. cmds \o leaving \in Seq(Commands) /\ more \in Seq(Commands)
    BY <1>1, <1>2, CommandTypes, ConcatProperties
  <2>2. \A x, y, z \in Seq(Commands) : (x \o y) \o z = x \o (y \o z)
    BY ConcatAssociative
  <2>3. told \o (cmds \o leaving) = q \o leaving
    BY <1>1, ConcatAssociative
  <2>4. q \o leaving \in Seq(Commands)
    BY <1>1, ConcatProperties
  <2>5. told' \o cmds' = (told \o (cmds \o leaving)) \o more
    <3>1. told' \o cmds' = told \o ((cmds \o leaving) \o more)
      BY <1>2
    <3>2. told \o ((cmds \o leaving) \o more) = (told \o (cmds \o leaving)) \o more
      <4> DEFINE x == cmds \o leaving
      <4>1. x \in Seq(Commands) /\ told \in Seq(Commands) /\ more \in Seq(Commands)
        BY <1>1, <2>1
      <4> HIDE DEF x
      <4>2. told \o (x \o more) = (told \o x) \o more
        BY <2>2, <4>1
      <4>3. QED
        BY <4>2 DEF x
    <3>3. QED
      BY <3>1, <3>2
  <2>6. QED
    BY <2>3, <2>4, <2>5
<1> HIDE DEF q
<1>4. InOrder(q \o leaving, Last')
  <2>1. CASE wanted /\ ~shutdown
    <3>1. Last = 5 /\ leaving = Leaving /\ shutdown'
      BY <1>1, <1>2, <2>1
    <3>2. Last' = 8
      BY <3>1, PlaceFacts DEF Last
    <3>3. QED
      BY <1>1, <3>1, <3>2, LeavingAppended
  <2>2. CASE ~(wanted /\ ~shutdown)
    <3>1. leaving = <<>> /\ (shutdown' <=> shutdown)
      BY <1>2, <2>2
    <3>2. Last' = Last /\ q \o leaving = q
      BY <1>1, <3>1, ConcatEmptySeq DEF Last
    <3>3. QED
      BY <1>1, <3>2
  <2>3. QED
    BY <2>1, <2>2
<1>5. InOrder((q \o leaving) \o more, Last')
  <2>1. CASE more = <<>>
    BY <1>3, <1>4, <2>1, ConcatEmptySeq
  <2>2. CASE more = <<"LOW_MEMORY">>
    <3>1. Last' \in Nat
      BY PlaceFacts DEF Last
    <3>2. QED
      BY <1>3, <1>4, <2>2, <3>1, LowAppended
  <2>3. QED
    BY <2>1, <2>2
<1>6. QED
  BY <1>3, <1>5 DEF StreamInv

\* Reading a command moves it from the way to the told.
LEMMA ReadKeepsStream ==
  ASSUME NEW s \in Seq(Commands), NEW t \in Seq(Commands), t # <<>>
  PROVE  Append(s, Head(t)) \o Tail(t) = s \o t
<1>1. /\ Head(t) \in Commands /\ Tail(t) \in Seq(Commands) /\ Len(Tail(t)) = Len(t) - 1
      /\ \A i \in 1..Len(Tail(t)) : Tail(t)[i] = t[i + 1]
      /\ Head(t) = t[1] /\ Len(t) \in Nat /\ Len(s) \in Nat
  BY HeadTailProperties, LenProperties
<1> DEFINE h == Append(s, Head(t))
<1>2. /\ h \in Seq(Commands) /\ Len(h) = Len(s) + 1
      /\ \A i \in 1..Len(s) : h[i] = s[i] /\ h[Len(s) + 1] = t[1]
      /\ h[Len(s) + 1] = t[1]
  BY <1>1, AppendProperties
<1> HIDE DEF h
<1>3. /\ h \o Tail(t) \in Seq(Commands) /\ s \o t \in Seq(Commands)
      /\ Len(h \o Tail(t)) = Len(s) + Len(t) /\ Len(s \o t) = Len(s) + Len(t)
  <2>1. /\ h \o Tail(t) \in Seq(Commands) /\ s \o t \in Seq(Commands)
        /\ Len(h \o Tail(t)) = Len(h) + Len(Tail(t)) /\ Len(s \o t) = Len(s) + Len(t)
    BY <1>1, <1>2, ConcatProperties
  <2>2. Len(h) + Len(Tail(t)) = Len(s) + Len(t)
    BY <1>1, <1>2
  <2>3. QED
    BY <2>1, <2>2
<1>4. ASSUME NEW i \in 1..(Len(s) + Len(t)) PROVE (h \o Tail(t))[i] = (s \o t)[i]
  <2>1. (s \o t)[i] = IF i <= Len(s) THEN s[i] ELSE t[i - Len(s)]
    BY ConcatProperties
  <2>2. (h \o Tail(t))[i] = IF i <= Len(h) THEN h[i] ELSE Tail(t)[i - Len(h)]
    BY <1>1, <1>2, ConcatProperties
  <2>3. CASE i <= Len(s) + 1
    BY <1>1, <1>2, <2>1, <2>2, <2>3
  <2>4. CASE i > Len(s) + 1
    <3>1. i - Len(h) \in 1..Len(Tail(t)) /\ (i - Len(h)) + 1 = i - Len(s)
      BY <1>1, <1>2, <2>4
    <3>2. Tail(t)[i - Len(h)] = t[(i - Len(h)) + 1]
      BY <1>1, <3>1
    <3>3. QED
      BY <1>1, <1>2, <2>1, <2>2, <2>4, <3>1, <3>2
  <2>5. i <= Len(s) + 1 \/ i > Len(s) + 1
    BY <1>1
  <2>6. QED
    BY <2>3, <2>4, <2>5
<1>5. QED
  BY <1>3, <1>4, SeqEqual DEF h

\* When the command to pause is read, the game has been told to save; when it
\* is told to save, it has not been told to pause.
LEMMA SavedBeforePause ==
  ASSUME TypeOK, StreamInv, cmds # <<>>
  PROVE  /\ Head(cmds) = "PAUSE" => Told("SAVE_STATE")
         /\ Head(cmds) = "SAVE_STATE" => ~Told("PAUSE")
<1> DEFINE q == told \o cmds
           n == Len(told) + 1
<1>1. /\ told \in Seq(Commands) /\ cmds \in Seq(Commands) /\ Len(told) \in Nat
      /\ Len(cmds) \in Nat \ {0} /\ DOMAIN told = 1..Len(told)
      /\ Head(cmds) = cmds[1] /\ Head(cmds) \in Commands
  BY LenProperties, HeadTailProperties, EmptySeq DEF TypeOK
<1>2. /\ q \in Seq(Commands) /\ DOMAIN q = 1..(Len(told) + Len(cmds))
      /\ \A i \in 1..Len(told) : q[i] = told[i]
      /\ q[n] = Head(cmds) /\ n \in DOMAIN q
  BY <1>1, ConcatProperties, LenProperties
<1>3. \A i \in DOMAIN q : q[i] \in Commands
  BY <1>2, ElementOfSeq, LenProperties
<1>4. InOrder(q, Last) /\ Last \in {5, 8}
  BY PlaceFacts DEF StreamInv, Last
<1> HIDE DEF q
<1>5. ASSUME Head(cmds) = "PAUSE" PROVE Told("SAVE_STATE")
  <2>1. Place[q[n]] = 8
    BY <1>2, <1>3, <1>5, PlaceFacts
  <2>2. 8 \in 1..Last
    <3>1. 8 \in {Place[q[i]] : i \in DOMAIN q} \ {0}
      BY <1>2, <2>1
    <3>2. QED
      BY <1>4, <3>1 DEF InOrder
  <2>3. PICK i \in DOMAIN q : Place[q[i]] = 7
    <3>1. 7 \in 1..Last
      BY <1>4, <2>2
    <3>2. QED
      BY <1>4, <3>1 DEF InOrder
  <2>4. i < n
    <3>1. i # n /\ ~(n < i)
      BY <1>2, <1>4, <2>1, <2>3 DEF InOrder
    <3>2. QED
      BY <1>1, <1>2, <3>1
  <2>5. i \in 1..Len(told) /\ told[i] = "SAVE_STATE"
    BY <1>1, <1>2, <1>3, <2>3, <2>4, PlaceFacts
  <2>6. QED
    BY <1>1, <2>5 DEF Told
<1>6. ASSUME Head(cmds) = "SAVE_STATE", Told("PAUSE") PROVE FALSE
  <2>1. PICK i \in 1..Len(told) : told[i] = "PAUSE"
    BY <1>1, <1>6 DEF Told
  <2>2. i < n /\ i \in DOMAIN q /\ Place[q[i]] = 8 /\ Place[q[n]] = 7
    BY <1>1, <1>2, <1>3, <1>6, <2>1, PlaceFacts
  <2>3. QED
    BY <1>2, <1>4, <2>2 DEF InOrder
<1>7. QED
  BY <1>5, <1>6

\* The commands of the start are in the pipe, in their order.
LEMMA StreamInitially == Init => StreamInv /\ SavedInv
<1> SUFFICES ASSUME Init PROVE StreamInv /\ SavedInv
  OBVIOUS
<1>1. told \o cmds = Starting /\ Last = 5
  BY CommandTypes, ConcatEmptySeq, PlaceFacts DEF Init, Last
<1>2. DOMAIN Starting = 1..5
  BY DEF Starting
<1>3. InOrder(Starting, 5)
  BY <1>2, PlaceFacts DEF InOrder
<1>4. SavedInv
  BY DEF Init, SavedInv, Told
<1>5. QED
  BY <1>1, <1>3, <1>4 DEF StreamInv

\* Every step keeps the order of the commands and what is saved.
LEMMA StreamStep ==
  TypeOK /\ PlaceInv /\ StreamInv /\ SavedInv /\ [Next]_vars => StreamInv' /\ SavedInv'
<1> SUFFICES ASSUME TypeOK, PlaceInv, StreamInv, SavedInv, [Next]_vars
             PROVE  StreamInv' /\ SavedInv'
  OBVIOUS
\* Nothing about commands.
<1>1. CASE \/ UNCHANGED vars \/ PadQuit \/ KeyboardEscape
           \/ (\E p \in Pads : PadAxis(p) \/ PadPlugged(p))
           \/ (\E p \in Pads, b \in Buttons : PadButton(p, b))
           \/ (\E c \in KeyCodes : KeyboardKey(c)) \/ (\E v \in Arrows : KeyboardArrow(v))
           \/ EmitButton \/ GraceExit \/ GuestReturns \/ Sigterm \/ Tick
  <2>1. UNCHANGED <<pc, told, cmds, shutdown, state, saved, current>>
    BY <1>1 DEF vars, PadAxis, PadPlugged, PadQuit, KeyboardKey, KeyboardEscape,
                PadButton, KeyboardArrow, EmitButton, GraceExit, GuestReturns,
                Sigterm, Tick, app, ways
  <2>2. QED
    BY <2>1 DEF StreamInv, SavedInv, Last, Told
<1>2. CASE PollStart \/ InputHandled
  <2>1. /\ pc # "handler" /\ pc' # "handler"
        /\ UNCHANGED <<told, cmds, shutdown, state, saved, current>>
    BY <1>2 DEF PollStart, InputHandled, app, ways
  <2>2. QED
    BY <2>1 DEF StreamInv, SavedInv, Last, Told
<1>3. CASE SdlQuit \/ Finish
  <2>1. BeginShutdown(TRUE, <<>>) /\ UNCHANGED <<pc, told, state, saved, current>>
    BY <1>3 DEF SdlQuit, Finish, app
  <2>2. StreamInv'
    BY <2>1, ShutdownInOrder
  <2>3. QED
    BY <2>1, <2>2 DEF SavedInv, Told
<1>4. CASE PollEnd
  <2>1. PICK more \in {<<>>, <<"LOW_MEMORY">>} : BeginShutdown(sigterm \/ quit \/ Combo, more)
    BY <1>4 DEF PollEnd, CheckExit
  <2>2. /\ pc # "handler" /\ pc' # "handler" /\ UNCHANGED <<told, state, saved, current>>
    BY <1>4 DEF PollEnd, PadsDone, Ready, app
  <2>3. StreamInv'
    BY <2>1, <2>2, ShutdownInOrder
  <2>4. QED
    BY <2>2, <2>3 DEF SavedInv, Told
<1>5. CASE CommandRead
  <2>1. /\ pc = "command" /\ pc' = "handler" /\ cmds # <<>>
        /\ current' = Head(cmds) /\ cmds' = Tail(cmds) /\ told' = Append(told, Head(cmds))
        /\ state' = IF Head(cmds) \in {"START", "RESUME", "PAUSE"} THEN Head(cmds) ELSE state
        /\ saved' = (saved /\ Head(cmds) # "SAVE_STATE")
        /\ shutdown' = shutdown
    BY <1>5 DEF CommandRead, PlaceInv, ways
  <2>2. told \in Seq(Commands) /\ cmds \in Seq(Commands) /\ Head(cmds) \in Commands
    BY <2>1, HeadTailProperties DEF TypeOK
  <2>3. StreamInv'
    <3>1. told' \o cmds' = told \o cmds
      BY <2>1, <2>2, ReadKeepsStream
    <3>2. Last' = Last
      BY <2>1 DEF Last
    <3>3. QED
      BY <3>1, <3>2 DEF StreamInv
  <2>4. /\ \A c : Told(c) => Told(c)'
        /\ \A c : c = Head(cmds) => Told(c)'
        /\ \A c : Told(c)' => Told(c) \/ c = Head(cmds)
    <3>1. /\ Len(told) \in Nat /\ DOMAIN told = 1..Len(told)
          /\ DOMAIN told' = 1..(Len(told) + 1)
          /\ told'[Len(told) + 1] = Head(cmds)
          /\ \A i \in 1..Len(told) : told'[i] = told[i]
      BY <2>1, <2>2, AppendProperties, LenProperties
    <3>2. QED
      BY <3>1 DEF Told
  <2>5. current = "none"
    BY <2>1 DEF SavedInv
  <2>6. state' = "PAUSE" => Told("PAUSE")' /\ saved'
    <3>1. CASE Head(cmds) = "PAUSE"
      <4>1. Told("SAVE_STATE")
        BY <2>1, <3>1, SavedBeforePause
      <4>2. saved
        BY <2>5, <4>1 DEF SavedInv
      <4>3. QED
        BY <2>1, <2>4, <3>1, <4>2
    <3>2. CASE Head(cmds) # "PAUSE"
      <4>1. SUFFICES ASSUME state' = "PAUSE" PROVE Told("PAUSE")' /\ saved'
        OBVIOUS
      <4>2. state = "PAUSE"
        BY <2>1, <3>2, <4>1
      <4>3. Told("PAUSE") /\ saved
        BY <4>2 DEF SavedInv
      <4>4. Head(cmds) # "SAVE_STATE"
        BY <2>1, <4>3, SavedBeforePause
      <4>5. QED
        BY <2>1, <2>4, <4>3, <4>4
    <3>3. QED
      BY <3>1, <3>2
  <2>7. Told("SAVE_STATE")' => saved' \/ current' = "SAVE_STATE"
    BY <2>1, <2>4, <2>5 DEF SavedInv
  <2>8. QED
    BY <2>1, <2>3, <2>6, <2>7 DEF SavedInv
<1>6. CASE CommandDone
  <2>1. /\ pc' = "game" /\ saved' = (saved \/ current = "SAVE_STATE") /\ current' = "none"
        /\ UNCHANGED <<told, cmds, shutdown, state>>
    BY <1>6 DEF CommandDone, ways
  <2>2. StreamInv'
    BY <2>1 DEF StreamInv, Last
  <2>3. QED
    BY <2>1, <2>2 DEF SavedInv, Told
<1>7. QED
  BY <1>1, <1>2, <1>3, <1>4, <1>5, <1>6 DEF Next

-----------------------------------------------------------------------------
(* The alarm: it watches over every shutdown, and leaves it its grace.     *)

WatchInv ==
  /\ (shutdown \/ sigterm) /\ Alive => alarm > 0
  /\ shutdown => elapsed = Grace \/ alarm + elapsed >= AlarmTime
  /\ exit = "alarm" => alarm = 0

\* begin_shutdown arms the alarm for the whole grace, or leaves both alone.
LEMMA ShutdownWatched ==
  ASSUME TypeOK, WatchInv, Alive, NEW wanted \in BOOLEAN, NEW more,
         BeginShutdown(wanted, more), UNCHANGED exit,
         sigterm' <=> sigterm
  PROVE  WatchInv'
<1>1. CASE wanted /\ ~shutdown
  <2>1. shutdown' /\ elapsed' = 0 /\ alarm' = AlarmTime
    BY <1>1 DEF BeginShutdown
  <2>2. alarm' > 0 /\ alarm' + elapsed' >= AlarmTime
    BY <2>1, InputAssumption
  <2>3. exit' # "alarm"
    BY DEF Alive
  <2>4. QED
    BY <2>2, <2>3 DEF WatchInv
<1>2. CASE ~(wanted /\ ~shutdown)
  <2>1. (shutdown' <=> shutdown) /\ elapsed' = elapsed /\ alarm' = alarm
    BY <1>2 DEF BeginShutdown
  <2>2. QED
    BY <2>1 DEF WatchInv, Alive
<1>3. QED
  BY <1>1, <1>2

\* Time takes from the alarm what it gives to the grace.
LEMMA TickWatched == ASSUME TypeOK, WatchInv, Tick PROVE WatchInv'
<1>1. /\ elapsed \in Nat /\ alarm \in Nat /\ alarm > 0 /\ alarm' = alarm - 1
      /\ Grace \in Nat /\ AlarmTime \in Nat /\ elapsed <= Grace
      /\ exit' = IF alarm = 1 THEN "alarm" ELSE exit
      /\ exit = "none"
  BY InputAssumption DEF TypeOK, Tick, Alive
<1>2. shutdown' = shutdown /\ sigterm' = sigterm
  BY DEF Tick
<1>3. shutdown /\ elapsed < Grace => elapsed' = elapsed + 1
  BY DEF Tick
<1>4. shutdown /\ elapsed = Grace => elapsed' = elapsed
  BY <1>1 DEF Tick
<1>5. shutdown => elapsed' = Grace \/ alarm' + elapsed' >= AlarmTime
  <2>1. SUFFICES ASSUME shutdown
                 PROVE  elapsed' = Grace \/ alarm' + elapsed' >= AlarmTime
    OBVIOUS
  <2>2. elapsed = Grace \/ alarm + elapsed >= AlarmTime
    BY <2>1 DEF WatchInv
  <2>3. elapsed = Grace => elapsed' = Grace
    BY <1>4, <2>1
  <2>4. elapsed < Grace => elapsed' = elapsed + 1
    BY <1>3, <2>1
  <2>5. QED
    BY <1>1, <2>2, <2>3, <2>4
<1>6. exit' = "none" => alarm' > 0
  BY <1>1
<1>7. exit' = "alarm" => alarm' = 0
  BY <1>1
<1>8. QED
  BY <1>2, <1>5, <1>6, <1>7 DEF WatchInv, Alive

\* Nothing is to be watched at the start.
LEMMA WatchInitially == Init => WatchInv
  BY DEF Init, WatchInv

\* Every step keeps the watch.
LEMMA WatchStep == TypeOK /\ WatchInv /\ [Next]_vars => WatchInv'
<1> SUFFICES ASSUME TypeOK, WatchInv, [Next]_vars PROVE WatchInv'
  OBVIOUS
<1>1. CASE \/ UNCHANGED vars \/ PollStart \/ PadQuit \/ KeyboardEscape
           \/ (\E p \in Pads : PadAxis(p) \/ PadPlugged(p))
           \/ (\E p \in Pads, b \in Buttons : PadButton(p, b))
           \/ (\E c \in KeyCodes : KeyboardKey(c)) \/ (\E v \in Arrows : KeyboardArrow(v))
           \/ EmitButton \/ CommandRead \/ CommandDone \/ InputHandled
  <2>1. UNCHANGED <<shutdown, sigterm, elapsed, alarm, exit>>
    BY <1>1 DEF vars, PollStart, PadAxis, PadPlugged, PadQuit, KeyboardKey,
                KeyboardEscape, PadButton, KeyboardArrow, EmitButton, CommandRead,
                CommandDone, InputHandled, ways
  <2>2. QED
    BY <2>1 DEF WatchInv, Alive
<1>2. CASE SdlQuit \/ Finish
  <2>1. /\ Alive /\ BeginShutdown(TRUE, <<>>)
        /\ UNCHANGED <<exit, sigterm>>
    BY <1>2 DEF SdlQuit, Finish, Pumping
  <2>2. QED
    BY <2>1, ShutdownWatched
<1>3. CASE PollEnd
  <2>1. PICK more \in {<<>>, <<"LOW_MEMORY">>} :
          BeginShutdown(sigterm \/ quit \/ Combo, more)
    BY <1>3 DEF PollEnd, CheckExit
  <2>2. Alive /\ UNCHANGED <<exit, sigterm>>
    BY <1>3 DEF PollEnd, PadsDone
  <2>3. (sigterm \/ quit \/ Combo) \in BOOLEAN
    OBVIOUS
  <2>4. QED
    BY <2>1, <2>2, <2>3, ShutdownWatched
<1>4. CASE GraceExit \/ GuestReturns
  <2>1. /\ exit' \in {"grace", "returned"}
        /\ UNCHANGED <<shutdown, elapsed, alarm>>
    BY <1>4 DEF GraceExit, GuestReturns, ways
  <2>2. QED
    BY <2>1 DEF WatchInv, Alive
<1>5. CASE Sigterm
  <2>1. /\ alarm' = AlarmTime /\ exit' = "none"
        /\ UNCHANGED <<shutdown, elapsed>>
    BY <1>5 DEF Sigterm, Alive
  <2>2. alarm' > 0 /\ alarm' + elapsed' >= AlarmTime
    BY <2>1, InputAssumption DEF TypeOK
  <2>3. QED
    BY <2>1, <2>2 DEF WatchInv
<1>6. CASE Tick
  BY <1>6, TickWatched
<1>7. QED
  BY <1>1, <1>2, <1>3, <1>4, <1>5, <1>6 DEF Next

-----------------------------------------------------------------------------
(* The theorems.                                                           *)

IInv ==
  TypeOK /\ PlaceInv /\ ViewInv /\ StreamInv /\ SavedInv /\ WatchInv

\* The invariant holds in every reachable state.
THEOREM InputInvariance == Spec => []IInv
<1>1. Init => IInv
  BY TypeInitially, ViewInitially, StreamInitially, WatchInitially DEF IInv
<1>2. IInv /\ [Next]_vars => IInv'
  BY TypeStep, ViewStep, StreamStep, WatchStep DEF IInv
<1>3. QED
  BY <1>1, <1>2, PTL DEF Spec

\* Every part of the activity keeps its type: the ring never becomes full, and
\* the pipe holds commands only.
THEOREM InputTypes == Spec => []TypeOK
<1>1. IInv => TypeOK
  BY DEF IInv
<1>2. QED
  BY <1>1, InputInvariance, PTL

\* A game that has read all its events believes what is true of all devices
\* together: no key sticks that no device holds, unless its newest event was
\* dropped; a key that is held is down, unless the newest event about it was
\* the release of another device or folded; the axis is that of the first pad
\* or of an arrow that is held.  For any number of pads, buttons and keys of
\* the keyboard that share their codes, and any size of the ring.
THEOREM ViewIsTrue == Spec => []ViewConverges
<1>1. IInv => ViewConverges
  <2> SUFFICES ASSUME IInv, pc = "game", ring = <<>> PROVE ViewConverges
    BY DEF ViewConverges
  <2>1. KeysAfter(ring) = keys /\ AxisAfter(ring) = axis
    BY ViewTypes DEF IInv, TypeOK
  <2>2. pushed = LeadAxis /\ \A p \in Pads, b \in Buttons : edges[p][b] = {}
    BY DEF IInv, PlaceInv
  <2>3. ASSUME NEW c \in Codes \ lost
        PROVE  (c \in keys => Heard(c)) /\ (Heard(c) => c \in keys \cup crossed)
    <3>1. KeyInv(c)
      BY <2>3 DEF IInv, ViewInv
    <3>2. ~Releasing(c)
      BY <2>2 DEF Releasing
    <3>3. Heard(c) => Settled(c)
      <4>1. \A p \in Pads : held[p] \subseteq Buttons
        BY DEF IInv, TypeOK
      <4>2. QED
        BY <2>2, <4>1 DEF Heard, Settled
    <3>4. QED
      BY <2>1, <2>3, <3>1, <3>2, <3>3 DEF KeyInv
  <2>4. ASSUME TheAxis \notin lost
        PROVE  /\ axis \in arrows \cup {LeadAxis}
               /\ arrows # {} => axis \in arrows \/ TheAxis \in crossed
    <3>1. axis = Direction(LeadAxis, hat)
      BY <2>1, <2>2, <2>4 DEF IInv, ViewInv, AxisInv
    <3>2. QED
      BY <3>1 DEF IInv, ViewInv, AxisInv, Direction
  <2>5. QED
    BY <2>3, <2>4 DEF ViewConverges
<1>2. QED
  BY <1>1, InputInvariance, PTL

\* The game is told to leave once and in order, after all it was told at the
\* start, however often and by whom it is asked to.
THEOREM ToldOnceInOrder == Spec => []ShutdownSequence
<1>1. IInv => ShutdownSequence
  BY DEF IInv, StreamInv, SavedInv, InOrder, Last, Due, ShutdownSequence
<1>2. QED
  BY <1>1, InputInvariance, PTL

\* android_shim.c: a process that was asked to leave has its alarm pending as
\* long as it lives, and when the alarm ends a shutdown that had begun, the
\* grace given to the game was over: time kills no game that still had some.
Watched ==
  /\ (shutdown \/ sigterm) /\ Alive => alarm > 0
  /\ exit = "alarm" /\ shutdown => elapsed = Grace

\* Every way out is watched, and none is cut short, wherever the game is and
\* however often it is asked to leave.
THEOREM EveryWayOutWatched == Spec => []Watched
<1>1. IInv => Watched
  <2> SUFFICES ASSUME IInv PROVE Watched
    OBVIOUS
  <2>1. elapsed \in Nat /\ elapsed <= Grace /\ Grace < AlarmTime
        /\ Grace \in Nat /\ AlarmTime \in Nat
    BY InputAssumption DEF IInv, TypeOK
  <2>2. ASSUME exit = "alarm", shutdown PROVE elapsed = Grace
    <3>1. alarm = 0 /\ (elapsed = Grace \/ alarm + elapsed >= AlarmTime)
      BY <2>2 DEF IInv, WatchInv
    <3>2. QED
      BY <2>1, <3>1
  <2>3. QED
    BY <2>2 DEF IInv, WatchInv, Watched
<1>2. QED
  BY <1>1, InputInvariance, PTL

-----------------------------------------------------------------------------
(* The menu of languages.                                                 *)

MenuInv ==
  /\ MenuTypeOK
  /\ Len(entries) = 2 => entries[1] = 0 /\ entries[2] = Titan
  /\ Complete(entries) => \A i \in 1..(LastChoice + 1) : entries[i] = i - 1
  /\ entries # <<>> => prepared
  /\ locale = LocaleOf(selIndex, sysLocale)

\* The policy has its two ends and at least one language between them.
LEMMA Constants ==
  /\ LastChoice \in Nat /\ LastChoice > 1
  /\ Titan = LastChoice /\ Titan \in Choices /\ 0 \in Choices
  /\ English \in Locales /\ Locales \subseteq Choices
  /\ Choices = 0..LastChoice /\ Locales = 1..(LastChoice - 1)
  BY LastChoiceAssumption DEF Titan, Choices, English, Locales

\* A function on 1..n is a sequence of length n.
LEMMA FunctionIsSeq ==
  ASSUME NEW S, NEW n \in Nat, NEW f \in [1..n -> S]
  PROVE  f \in Seq(S) /\ Len(f) = n
<1>1. f \in Seq(S)
  BY SeqDef
<1>2. Len(f) \in Nat /\ DOMAIN f = 1..Len(f)
  BY <1>1, LenProperties
<1> QED BY <1>1, <1>2

\* A choice and the locale of the system always name a locale.
LEMMA LocaleType ==
  ASSUME NEW c \in Choices, NEW native \in Locales
  PROVE  LocaleOf(c, native) \in Locales
  BY Constants DEF LocaleOf

\* language_menu.c: n labels appended to the pair of the game make n + 2.
LEMMA AppendedIsSeq ==
  ASSUME MenuInv, Len(entries) = 2, NEW n \in 0..(LastChoice - 1)
  PROVE  /\ Appended(n) \in Seq(Choices) /\ Len(Appended(n)) = n + 2
         /\ Appended(n)[1] = 0 /\ Appended(n)[2] = Titan
         /\ \A i \in 3..(n + 2) : Appended(n)[i] = i - 2
<1>1. Appended(n) \in [1..(n + 2) -> Choices]
  BY Constants DEF Appended, MenuInv
<1>2. n + 2 \in Nat
  BY Constants
<1> QED BY <1>1, <1>2, FunctionIsSeq, Constants DEF Appended, MenuInv

\* The label of TITAN moved last leaves the choices in the order of the
\* policy.
LEMMA MovedInOrder ==
  ASSUME MenuInv, Len(entries) = 2
  PROVE  LET v == TitanMovedLast(Appended(LastChoice - 1)) IN
           /\ v \in Seq(Choices) /\ Len(v) = LastChoice + 1
           /\ \A i \in 1..(LastChoice + 1) : v[i] = i - 1
<1> DEFINE a == Appended(LastChoice - 1)
           v == TitanMovedLast(a)
<1>1. LastChoice - 1 \in 0..(LastChoice - 1)
  BY Constants
<1>2. /\ Len(a) = LastChoice + 1 /\ a[1] = 0 /\ a[2] = Titan
      /\ \A i \in 3..(LastChoice + 1) : a[i] = i - 2
  BY <1>1, AppendedIsSeq, Constants
<1> HIDE DEF a
<1>3. v = [i \in 1..(LastChoice + 1) |->
             IF i = 1 THEN a[1] ELSE IF i = LastChoice + 1 THEN a[2]
             ELSE a[i + 1]]
  BY <1>2 DEF TitanMovedLast
<1>4. ASSUME NEW i \in 1..(LastChoice + 1) PROVE v[i] = i - 1
  <2>1. v[i] = IF i = 1 THEN a[1] ELSE IF i = LastChoice + 1 THEN a[2] ELSE a[i + 1]
    BY <1>3
  <2> HIDE DEF v
  <2>2. CASE i = 1
    BY <1>2, <2>1, <2>2
  <2>3. CASE i = LastChoice + 1
    BY <1>2, <2>1, <2>3, Constants DEF Titan
  <2>4. CASE i # 1 /\ i # LastChoice + 1
    <3>1. i + 1 \in 3..(LastChoice + 1) /\ (i + 1) - 2 = i - 1
      BY <2>4, Constants
    <3>2. QED
      BY <1>2, <2>1, <2>4, <3>1
  <2>5. QED
    BY <2>2, <2>3, <2>4
<1>5. v \in [1..(LastChoice + 1) -> Choices]
  BY <1>3, <1>4, Constants
<1>6. v \in Seq(Choices) /\ Len(v) = LastChoice + 1
  BY <1>5, FunctionIsSeq, Constants
<1> QED BY <1>4, <1>6 DEF a

\* No menu is built at the start.
LEMMA MenuInitially == MenuInit => MenuInv
<1> SUFFICES ASSUME MenuInit PROVE MenuInv
  OBVIOUS
<1>1. entries = <<>> /\ Len(entries) = 0 /\ entries \in Seq(Choices)
  BY DEF MenuInit
<1>2. /\ prepared = FALSE /\ selIndex = 0 /\ shown = 0
      /\ sysLocale = English /\ locale = English /\ spoken = English
  BY DEF MenuInit
<1>3. Len(entries) <= LastChoice + 1
  BY <1>1, Constants
<1>4. MenuTypeOK /\ locale = LocaleOf(selIndex, sysLocale)
  <2>1. MenuTypeOK
    BY <1>1, <1>2, <1>3, Constants DEF MenuTypeOK
  <2> QED BY <2>1, <1>2 DEF LocaleOf
<1>5. ~Complete(entries) /\ Len(entries) # 2
  BY <1>1, Constants DEF Complete
<1> QED BY <1>1, <1>4, <1>5 DEF MenuInv

\* Every step keeps the order of the labels and the locale of the index.
LEMMA MenuStep == MenuInv /\ [MenuNext]_menuVars => MenuInv'
<1> SUFFICES ASSUME MenuInv, [MenuNext]_menuVars PROVE MenuInv'
  OBVIOUS
<1>1. ASSUME NEW native \in Locales, NEW key \in Choices \cup {NoKey},
             PrepareMenu(native, key)
      PROVE  MenuInv'
  <2>1. selIndex' \in Choices /\ sysLocale' = native
    BY <1>1, Constants DEF PrepareMenu
  <2>2. locale' = LocaleOf(selIndex', sysLocale') /\ locale' \in Locales
    BY <1>1, <2>1, LocaleType DEF PrepareMenu
  <2>3. prepared' = TRUE /\ spoken' \in Locales \cup {Titan}
        /\ UNCHANGED <<entries, shown>>
    BY <1>1 DEF PrepareMenu
  <2> QED BY <2>1, <2>2, <2>3 DEF MenuInv, MenuTypeOK, Complete
<1>2. CASE MenuBuilt
  <2>1. /\ entries' \in Seq(Choices) /\ Len(entries') = 2
        /\ entries'[1] = 0 /\ entries'[2] = Titan /\ shown' \in Choices
    BY <1>2, Constants DEF MenuBuilt
  <2>2. prepared /\ UNCHANGED <<prepared, sysLocale, selIndex, locale, spoken>>
    BY <1>2 DEF MenuBuilt
  <2> QED BY <2>1, <2>2, Constants DEF MenuInv, MenuTypeOK, Complete
<1>3. CASE OptionsAdded
  <2>1. /\ prepared /\ shown' \in Choices
        /\ UNCHANGED <<prepared, sysLocale, selIndex, locale, spoken>>
    BY <1>3 DEF OptionsAdded, MenuInv, MenuTypeOK
  <2>2. CASE Len(entries) = 2
    <3>1. /\ entries' \in Seq(Choices) /\ Len(entries') = LastChoice + 1
          /\ \A i \in 1..(LastChoice + 1) : entries'[i] = i - 1
      BY <1>3, <2>2, MovedInOrder DEF OptionsAdded
    <3> QED BY <2>1, <3>1, Constants DEF MenuInv, MenuTypeOK, Complete
  <2>3. CASE Len(entries) # 2
    <3>1. entries' = entries
      BY <1>3, <2>3 DEF OptionsAdded
    <3> QED BY <2>1, <3>1 DEF MenuInv, MenuTypeOK, Complete
  <2> QED BY <2>2, <2>3
<1>4. ASSUME NEW n \in 0..(LastChoice - 2), OptionsAddedPart(n) PROVE MenuInv'
  <2>1. n \in 0..(LastChoice - 1) /\ n + 2 < LastChoice + 1
    BY Constants
  <2>2. /\ entries' \in Seq(Choices) /\ Len(entries') = n + 2
        /\ entries'[1] = 0 /\ entries'[2] = Titan
    BY <1>4, <2>1, AppendedIsSeq DEF OptionsAddedPart
  <2>3. entries # <<>>
    BY <1>4 DEF OptionsAddedPart
  <2>4. UNCHANGED <<prepared, sysLocale, selIndex, locale, shown, spoken>>
    BY <1>4 DEF OptionsAddedPart
  <2> QED BY <2>1, <2>2, <2>3, <2>4, Constants DEF MenuInv, MenuTypeOK, Complete
<1>5. ASSUME NEW i \in Choices, Toggle(i) PROVE MenuInv'
  BY <1>5 DEF Toggle, MenuInv, MenuTypeOK, Complete
<1>6. ASSUME Switch, spoken' \in Locales \cup {Titan} PROVE MenuInv'
  <2>1. shown \in Choices /\ sysLocale \in Locales
    BY DEF MenuInv, MenuTypeOK
  <2>2. locale' \in Locales /\ locale' = LocaleOf(selIndex', sysLocale')
    BY <1>6, <2>1, LocaleType DEF Switch
  <2>3. selIndex' = shown /\ UNCHANGED <<prepared, sysLocale, entries, shown>>
    BY <1>6 DEF Switch
  <2> QED BY <1>6, <2>1, <2>2, <2>3 DEF MenuInv, MenuTypeOK, Complete
<1>7. CASE ApplyLanguage
  <2>1. locale' \in Locales
    BY <1>7, LocaleType DEF ApplyLanguage, Switch, MenuInv, MenuTypeOK
  <2> QED BY <1>6, <1>7, <2>1 DEF ApplyLanguage
<1>8. CASE ApplyFails
  BY <1>6, <1>8 DEF ApplyFails, MenuInv, MenuTypeOK
<1>9. CASE UNCHANGED menuVars
  BY <1>9 DEF menuVars, MenuInv, MenuTypeOK, Complete
<1> QED BY <1>1, <1>2, <1>3, <1>4, <1>5, <1>7, <1>8, <1>9 DEF MenuNext

\* The inductive invariant.
LEMMA MenuAlways == MenuSpec => []MenuInv
  BY MenuInitially, MenuStep, PTL DEF MenuSpec

\* LanguageMenu keeps its types.
THEOREM MenuTypes == MenuSpec => []MenuTypeOK
<1>1. MenuInv => MenuTypeOK
  BY DEF MenuInv
<1> QED BY <1>1, MenuAlways, PTL

\* language_menu.c: in a complete menu the restored index is the label of the
\* locale that the shim answers.
THEOREM IndexLabelled == MenuSpec => []IndexIsLabel
<1>1. MenuInv => IndexIsLabel
  <2> SUFFICES ASSUME MenuInv, Complete(entries)
               PROVE  locale = LocaleOf(entries[selIndex + 1], sysLocale)
    BY DEF IndexIsLabel
  <2>1. selIndex + 1 \in 1..(LastChoice + 1) /\ selIndex \in Nat
    BY Constants DEF MenuInv, MenuTypeOK
  <2>2. entries[selIndex + 1] = selIndex
    BY <2>1 DEF MenuInv
  <2> QED BY <2>2 DEF MenuInv
<1> QED BY <1>1, MenuAlways, PTL

\* language_menu.c: the language of a running game changes only to the one
\* that the label under the toggle promises.
THEOREM ChangesAsShown == MenuSpec => SpokenAsShown
<1> DEFINE Change ==
      spoken' # spoken /\ prepared => spoken' = Promised(entries[shown + 1])
<1>1. MenuInv /\ [MenuNext]_menuVars => [Change]_menuVars
  <2> SUFFICES ASSUME MenuInv, MenuNext, spoken' # spoken, prepared
               PROVE  spoken' = Promised(entries[shown + 1])
    OBVIOUS
  <2>1. ApplyLanguage
    BY DEF MenuNext, PrepareMenu, MenuBuilt, OptionsAdded, OptionsAddedPart,
       Toggle, ApplyFails
  <2>2. shown + 1 \in 1..(LastChoice + 1) /\ shown \in Nat
    BY Constants DEF MenuInv, MenuTypeOK
  <2>3. entries[shown + 1] = shown
    BY <2>1, <2>2 DEF ApplyLanguage, Switch, MenuInv
  <2> QED BY <2>1, <2>3, Constants DEF ApplyLanguage, Switch, Promised
<1> QED BY <1>1, MenuAlways, PTL DEF MenuSpec, SpokenAsShown
=============================================================================
