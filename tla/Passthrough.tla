---------------------------- MODULE Passthrough ----------------------------
(***************************************************************************)
(* The control path from the remote (the CT) to the player: AVRCP PASS     *)
(* THROUGH press and release, the key code avrcp_input_sendkey injects,    *)
(* the key layout of patch_avrcp_kl.py, the framework's input dispatcher   *)
(* with its key repeats, dispatchKeyEvent of the activity in front         *)
(* (Patches H and H', KeyEventPatch), the media button broadcast, and the  *)
(* receiver of Patch E.                                                    *)
(*                                                                         *)
(* The kernel, the dispatcher, the broadcast and the stock bodies are not  *)
(* in the repository: they are modelled from how the patches use them.     *)
(***************************************************************************)
EXTENDS KeyEventPatch

CONSTANTS
    Builds,      \* each build's two stock dispatchKeyEvent methods, by name
    Flashed,     \* bound: the builds on which keys are pressed
    TouchOps,    \* the keys of the device itself that are pressed
    MaxPresses,  \* bound: presses in a behaviour
    MaxRepeat,   \* bound: repeats the dispatcher makes of one held key
    LongPress    \* repeat count at which the stock activity scrubs

ASSUME PassthroughAssumption ==
    /\ Flashed \subseteq DOMAIN Builds
    /\ TouchOps \subseteq {"touch PLAY", "touch RIGHT", "touch LEFT"}
    /\ MaxPresses \in Nat \ {0}
    /\ LongPress \in Nat \ {0}
    /\ MaxRepeat >= LongPress

----------------------------------------------------------------------------
(* Keys                                                                    *)

RemoteOps == {"PLAY", "STOP", "PAUSE", "FORWARD", "BACKWARD"}
Ops       == RemoteOps \union TouchOps

\* What avrcp_input_sendkey writes to the input device.
LinuxKey ==
    [PLAY |-> 200, STOP |-> 166, PAUSE |-> 201, FORWARD |-> 163, BACKWARD |-> 165]

StockKeyLayout(key) ==
    CASE key = 200 -> MEDIA_PLAY
      [] key = 201 -> PLAY_PAUSE
      [] key = 166 -> MEDIA_STOP
      [] key = 163 -> MEDIA_NEXT
      [] key = 165 -> MEDIA_PREVIOUS

KeyLayoutBroken(key) == IF key = 201 THEN 0 ELSE StockKeyLayout(key)
\* AVRCP.kl after [K1]: row 201 is the discrete pause.
KeyLayout(key) == IF key = 201 THEN MEDIA_PAUSE ELSE StockKeyLayout(key)

KeyCode(op) ==
    CASE op \in RemoteOps    -> KeyLayout(LinuxKey[op])
      [] op = "touch PLAY"   -> PLAY_PAUSE
      [] op = "touch RIGHT"  -> MEDIA_NEXT
      [] op = "touch LEFT"   -> MEDIA_PREVIOUS

Activities == {"BaseActivity", "BasePlayerActivity"}
Fronts == Activities \union {"other"}

ASSUME StockAssumption ==
    \A b \in DOMAIN Builds :
        /\ Builds[b].debug \in BOOLEAN
        /\ \A f \in Activities :
               StockMethod(Builds[b][f]) /\ ScratchV3(Builds[b][f])

----------------------------------------------------------------------------

VARIABLES
    build,     \* the build the image was made from
    actsOn,    \* the event the stock receiver's short press handler takes
    service,   \* getPlayerService() is not null
    front,     \* the activity that has the focus
    sent,      \* the op of every press so far; its index is the press's name
    holding,   \* the press the remote holds, or 0
    held,      \* kernel: the press that holds each key, or 0
    last,      \* dispatcher: the key it repeats, [code, press, count]
    inq,       \* key events on their way to the activity
    intents,   \* ACTION_MEDIA_BUTTON broadcasts on their way to the receiver
    player,    \* "playing", "paused" or "stopped"
    scrub,     \* the player screen is fast forwarding or rewinding
    acted,     \* how often each press did something to the player
    outside    \* presses some event of which went to another application

devvars == <<build, actsOn>>
vars == <<build, actsOn, service, front, sent, holding, held, last, inq,
          intents, player, scrub, acted, outside>>

NoKey == [code |-> 0, press |-> 0, count |-> 0]
KeyEvent(code, action, repeat, press) ==
    [code |-> code, action |-> action, repeat |-> repeat, press |-> press]

\* The two classes of each image that patch_y1_apk.py makes.
Image ==
    [b \in DOMAIN Builds |->
        LET log(m) == IF Builds[b].debug THEN WithLog(m) ELSE m
        IN  [BaseActivity       |-> log(PatchH(Builds[b].BaseActivity)),
             BasePlayerActivity |-> log(PatchHPrime(Builds[b].BasePlayerActivity))]]

\* Dalvik refuses a class with a method that does not verify.
Verdicts ==
    {<<b, f, Verifies(Image[b][f])>> : b \in DOMAIN Builds, f \in Activities}

\* How each class of each image answers each key.
Answers ==
    {<<b, f, e.code, e.repeat, Run(Image[b][f], e).out>> :
        b \in DOMAIN Builds, f \in Activities, e \in Events}

\* What dispatchKeyEvent of the activity in front does with the event; another
\* application leaves media keys to the framework.
Does(out, e) ==
    IF front = "other" THEN out = "propagate"
    ELSE <<build, front, e.code, Min({e.repeat, 1}), out>> \in Answers

Init ==
    /\ build \in DOMAIN Builds
    /\ actsOn \in {"down", "up"}
    /\ service = FALSE
    /\ front = "other"
    /\ sent = <<>>
    /\ holding = 0
    /\ held = [op \in Ops |-> 0]
    /\ last = NoKey
    /\ inq = <<>>
    /\ intents = <<>>
    /\ player = "stopped"
    /\ scrub = FALSE
    /\ acted = [n \in 1 .. MaxPresses |-> 0]
    /\ outside = {}

----------------------------------------------------------------------------
(* Kernel and input dispatcher                                             *)

\* The kernel drops a key event that does not change the key's state; the
\* dispatcher counts a second DOWN of the code it is repeating as a repeat.
KeyDown(op, press) ==
    IF held[op] # 0 THEN UNCHANGED <<held, last, inq>>
    ELSE LET code  == KeyCode(op)
             count == IF last.code = code THEN last.count + 1 ELSE 0
         IN  /\ held' = [held EXCEPT ![op] = press]
             /\ last' = [code |-> code, press |-> press, count |-> count]
             /\ inq' = Append(inq, KeyEvent(code, "down", count, press))

KeyUp(op) ==
    IF held[op] = 0 THEN UNCHANGED <<held, last, inq>>
    ELSE /\ held' = [held EXCEPT ![op] = 0]
         /\ last' = NoKey
         /\ inq' = Append(inq, KeyEvent(KeyCode(op), "up", 0, held[op]))

Press(op) ==
    /\ build \in Flashed
    /\ Len(sent) < MaxPresses
    /\ sent' = Append(sent, op)
    /\ KeyDown(op, Len(sent) + 1)
    /\ UNCHANGED <<devvars, service, front, intents, player, scrub, acted, outside>>

RemotePress(op) ==
    /\ holding = 0
    /\ Press(op)
    /\ holding' = Len(sent) + 1

TouchPress(op) ==
    /\ held[op] = 0
    /\ Press(op)
    /\ UNCHANGED holding

rest == <<devvars, service, front, sent, intents, player, scrub, acted, outside>>

RemoteRelease ==
    /\ holding # 0
    /\ KeyUp(sent[holding])
    /\ holding' = 0
    /\ UNCHANGED rest

\* AVCTP is saturated and the RELEASE frame never arrives.
LoseRelease ==
    /\ holding # 0
    /\ holding' = 0
    /\ UNCHANGED <<rest, held, last, inq>>

TouchRelease(op) ==
    /\ held[op] # 0
    /\ KeyUp(op)
    /\ UNCHANGED <<rest, holding>>

\* InputDispatcher repeats the last key until it, or another, comes up.
SynthesizeRepeat ==
    /\ last # NoKey
    /\ last.count < MaxRepeat
    /\ last' = [last EXCEPT !.count = @ + 1]
    /\ inq' = Append(inq, KeyEvent(last.code, "down", last.count + 1, last.press))
    /\ UNCHANGED <<rest, holding, held>>

----------------------------------------------------------------------------
(* The player                                                              *)

playOrPause == {IF player = "playing" THEN "paused" ELSE "playing"}
play        == {"playing"}
pause       == {IF player = "playing" THEN "paused" ELSE player}
stop        == {"stopped"}
\* The next song plays, or is only put up, as the stock service decides.
changeSong  == {"playing", player}

\* PlayControllerReceiver.onReceive after Patch E; {} falls through to stock
\* code that does nothing with these keys.
Arm(code) ==
    CASE code = PLAY_PAUSE     -> playOrPause
      [] code = MEDIA_PLAY     -> IF player = "playing" THEN playOrPause ELSE play
      [] code = MEDIA_PAUSE    -> pause
      [] code = MEDIA_STOP     -> stop
      [] code = MEDIA_NEXT     -> changeSong
      [] code = MEDIA_PREVIOUS -> changeSong

Act(press, outcomes) ==
    /\ player' \in outcomes
    /\ acted' = [acted EXCEPT ![press] = @ + 1]

DoNothing == UNCHANGED <<player, acted>>

\* The stock player screen: a held RIGHT or LEFT scrubs, a short one changes
\* the song, the play key toggles, and everything else is swallowed.
StockKey(e) ==
    LET sideways == e.code \in {MEDIA_NEXT, MEDIA_PREVIOUS}
    IN  CASE sideways /\ e.repeat = LongPress ->
                 scrub' = TRUE /\ DoNothing
          [] sideways /\ e.action = "up" /\ scrub ->
                 scrub' = FALSE /\ DoNothing
          [] sideways /\ e.action = "up" /\ ~scrub ->
                 Act(e.press, changeSong) /\ UNCHANGED scrub
          [] e.code = PLAY_PAUSE /\ e.action = "up" ->
                 Act(e.press, playOrPause) /\ UNCHANGED scrub
          [] OTHER -> DoNothing /\ UNCHANGED scrub

Dispatch ==
    /\ inq # <<>>
    /\ LET e == Head(inq)
       IN  /\ IF Does("propagate", e)
              THEN /\ intents' = Append(intents, e)
                   /\ DoNothing
                   /\ UNCHANGED scrub
              ELSE IF Does("consume", e)
              THEN DoNothing /\ UNCHANGED <<intents, scrub>>
              ELSE StockKey(e) /\ UNCHANGED intents
           /\ outside' = IF front = "other" THEN outside \union {e.press} ELSE outside
    /\ inq' = Tail(inq)
    /\ UNCHANGED <<devvars, service, front, sent, holding, held, last>>

\* onReceive: the short press handler, on one of the two events of a key.
Receive ==
    /\ intents # <<>>
    /\ LET e == Head(intents)
       IN  IF e.action = actsOn /\ service /\ Arm(e.code) # {}
           THEN Act(e.press, Arm(e.code))
           ELSE DoNothing
    /\ intents' = Tail(intents)
    /\ UNCHANGED <<devvars, service, front, sent, holding, held, last, inq,
                   scrub, outside>>

----------------------------------------------------------------------------
(* The rest of the device                                                  *)

StartService ==
    /\ ~service
    /\ service' = TRUE
    /\ UNCHANGED <<devvars, front, sent, holding, held, last, inq, intents,
                   player, scrub, acted, outside>>

SwitchFront(f) ==
    /\ f # front
    /\ f = "other" \/ <<build, f, TRUE>> \in Verdicts
    /\ front' = f
    /\ UNCHANGED <<devvars, service, sent, holding, held, last, inq, intents,
                   player, scrub, acted, outside>>

Next ==
    \/ \E op \in RemoteOps : RemotePress(op)
    \/ \E op \in TouchOps : TouchPress(op) \/ TouchRelease(op)
    \/ RemoteRelease \/ LoseRelease
    \/ SynthesizeRepeat
    \/ Dispatch \/ Receive
    \/ StartService
    \/ \E f \in Fronts : SwitchFront(f)

Spec == Init /\ [][Next]_vars /\ WF_vars(Dispatch) /\ WF_vars(Receive)

----------------------------------------------------------------------------
(* Properties                                                              *)

Presses == 1 .. Len(sent)

\* Every variable has its type, and every event names a press that was made.
TypeOK ==
    /\ actsOn \in {"down", "up"}
    /\ {service, scrub} \subseteq BOOLEAN
    /\ front \in Fronts
    /\ sent \in Seq(Ops) /\ Len(sent) <= MaxPresses
    /\ holding \in {0} \union Presses
    /\ held \in [Ops -> {0} \union Presses]
    /\ last # NoKey => last.code \in KeyCodes /\ last.press \in Presses
    /\ \A e \in ToSet(inq \o intents) :
          e.code \in KeyCodes /\ e.press \in Presses /\ (e.action = "up" => e.repeat = 0)
    /\ player \in {"playing", "paused", "stopped"}
    /\ outside \subseteq Presses

\* Patches H, H' and H'': while the music application is in front, a press does
\* at most one thing to the player, however long it is held, whether or not its
\* RELEASE arrives and whichever activity gets which of its events; and it never
\* leaves the player screen fast forwarding.
OnePressOneAction ==
    /\ \A n \in Presses \ outside : acted[n] <= 1
    /\ ~scrub

\* The press behind the event that this step handles.
Cause == IF Len(intents') < Len(intents) THEN Head(intents).press ELSE Head(inq).press

StartsPlaying == player # "playing" /\ player' = "playing"

\* K1, Patch E: the discrete PAUSE and STOP of the remote never start the
\* player, whichever application is in front and however often they are sent.
PauseNeverPlays ==
    [][StartsPlaying => sent[Cause] \notin {"PAUSE", "STOP"}]_vars

\* Patches E, H, H': a press of the remote whose event the receiver takes does
\* something to the player, whichever activity that loads is in front. (A DOWN
\* the dispatcher counted as a repeat of another press is not such an event.)
Coming(n) ==
    /\ service
    /\ n \in Presses
    /\ sent[n] \in RemoteOps
    /\ \E e \in ToSet(inq) : e.press = n /\ e.action = actsOn /\ e.repeat = 0

PressReachesPlayer ==
    \A n \in 1 .. MaxPresses : Coming(n) ~> (n \in Presses /\ acted[n] > 0)

\* Patches H, H': where the script finds a known prologue or a getKeyCode, the
\* patched method verifies, with and without --debug, and a key that is not one
\* of the five leaves the registers the rest of the body reads as stock does.
Transparent(stock, patched) ==
    /\ Verifies(patched)
    /\ \A e \in [code : KeyCodes \ AvrcpKeys, repeat : 0 .. 1] :
          Found(patched, e) = Found(stock, e)

Transparency ==
    {<<b, /\ \/ OnlyTheEntry(BaseActivityPairs, Builds[b].BaseActivity)
             \/ Transparent(Builds[b].BaseActivity, Image[b].BaseActivity)
          /\ \/ OnlyTheEntry(PlayerPairs, Builds[b].BasePlayerActivity)
             \/ Transparent(Builds[b].BasePlayerActivity, Image[b].BasePlayerActivity)>> :
        b \in DOMAIN Builds}

PatchIsTransparent == <<build, TRUE>> \in Transparency
=============================================================================
