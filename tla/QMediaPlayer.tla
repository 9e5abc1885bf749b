---------------------------- MODULE QMediaPlayer ----------------------------
(***************************************************************************)
(* QMediaPlayer (src/src/multimedia/qmediaplayer.cpp) between a playlist    *)
(* and the player control of the GStreamer plugin.  The playlist tells the  *)
(* player its current media, which the player loads and goes on with; the   *)
(* control tells it of a stop, and at the end of the media or after an      *)
(* error the player asks the playlist for the next.  Each of these calls    *)
(* happens inside the other's: what is still to be done when the innermost  *)
(* returns is the agenda of the navigator, with tasks of the player and of  *)
(* the session added.                                                       *)
(***************************************************************************)
EXTENDS QMediaPlaylistNavigator

CONSTANTS
    Unreadable, FailsAtOnce, FailsLate, Unseekable, Buffered, MaxBus
                    \* see QGstreamerPlayerControl

ASSUME PlayerAssumption ==
    /\ UNION {Unreadable, FailsAtOnce, FailsLate, Unseekable, Buffered} \subseteq Media
    /\ MaxBus \in Nat

VARIABLES
    control,    \* the control, its session and the pipeline
    state,      \* what the player takes for the state of the control
    bound,      \* the playlist is that of the player
    reported,   \* history: the state the application was told last
    sought      \* history: a position was set since the control was stopped,
                \* or still waits until it can be sought

playerVars == <<control, state, bound, reported, sought>>
allVars == <<vars, playerVars>>

Control == INSTANCE QGstreamerPlayerControl

\* The rest of a call: of _q_stateChanged, after it has called next(); of
\* play(), after it has set the index; of busMessage, after invalidMedia().
PlayerTask ==
    [do : {"stateChanged"}, state : Control!State]
        \cup [do : {"advanced", "play", "sessionStop"}]

StateChanged(s) == [do |-> "stateChanged", state |-> s]

PlayerTypeOK ==
    /\ Control!ControlTypeOK
    /\ {state, reported} \subseteq Control!State
    /\ {bound, sought} \subseteq BOOLEAN
    /\ agenda \in Seq(NavTask \cup PlayerTask)

PlayerInit ==
    /\ Init
    /\ control = Control!Unloaded
    /\ state = "Stopped" /\ reported = "Stopped"
    /\ bound = FALSE /\ sought = FALSE

-----------------------------------------------------------------------------
(* Mutants: plausible slips in the code below.                             *)

\* Only the end of the media leads on to the next.
OverUnlessInvalid(s) ==
    bound /\ s # state /\ s = "Stopped" /\ control.status = "EndOfMedia"

\* The state that was announced is reported, without asking for it again.
AdvancedStale ==
    /\ agenda # <<>> /\ agenda[1].do = "advanced"
    /\ state' = "Stopped" /\ reported' = "Stopped"
    /\ agenda' = Tail(agenda) /\ inSlot' = TRUE
    /\ UNCHANGED <<navVars, heardMedia, heardIndex, promise, control, bound, sought>>

\* The playlist stays with other media.
KeepsAlways(m) == TRUE

-----------------------------------------------------------------------------
(* Calls of the control.                                                   *)

\* The control becomes c, announces a change of its state, and then the rest
\* is left to do.
Changes(c, rest) ==
    /\ control' = c
    /\ agenda' = (IF c.state = control.state THEN <<>> ELSE <<StateChanged(c.state)>>)
                    \o rest
    /\ inSlot' = FALSE
    /\ UNCHANGED <<navVars, heardMedia, heardIndex, promise>>

StillSought(c) == c.pendingSeek # "none" \/ (sought /\ c.state = "Stopped")

Becomes(c, rest) == Changes(c, rest) /\ sought' = StillSought(c)
Loads(c, rest) == Changes(c, rest) /\ sought' = FALSE

\* play(), which goes to the first item if there is no current one.
play ==
    /\ MayCall
    /\ IF bound /\ currentPos = -1 /\ Count > 0
       THEN /\ Jump(0, resources, currentPos, ThisHistory,
                    <<[do |-> "play"]>> \o agenda)
            /\ promise' = <<>>
            /\ UNCHANGED <<resources, playbackMode, control, sought>>
       ELSE Becomes(Control!playOrPause(control, "Playing"), agenda)
    /\ UNCHANGED <<state, bound, reported>>

PlayAfterJump ==
    /\ agenda # <<>> /\ agenda[1].do = "play"
    /\ Becomes(Control!playOrPause(control, "Playing"), Tail(agenda))
    /\ UNCHANGED <<state, bound, reported>>

pause ==
    /\ MayCall
    /\ Becomes(Control!playOrPause(control, "Paused"), agenda)
    /\ UNCHANGED <<state, bound, reported>>

stop ==
    /\ MayCall
    /\ Becomes(Control!stop(control), agenda)
    /\ UNCHANGED <<state, bound, reported>>

setPosition(place) ==
    /\ MayCall
    /\ control.seekable
    /\ Changes(Control!setPosition(control, place), agenda)
    /\ sought' = TRUE
    /\ UNCHANGED <<state, bound, reported>>

\* The playlist stays if m is what it has at its current position.
Keeps(m) == itemAt(currentPos) = m

\* setMedia(), where setPlaylist(0) comes first if the playlist goes.
setMedia(m) ==
    LET unbinds == bound /\ ~Keeps(m)
        c == IF unbinds THEN Control!setMedia(control, NoContent) ELSE control
    IN  /\ MayCall
        /\ bound' = (bound /\ ~unbinds)
        /\ Loads(Control!setMedia(c, m), agenda)
        /\ UNCHANGED <<state, reported>>

\* The playlist, which may have been there before, or none.
setPlaylist(playlist) ==
    /\ MayCall
    /\ bound' = playlist
    /\ Loads(Control!setMedia(control, IF playlist THEN itemAt(currentPos) ELSE NoContent),
             agenda)
    /\ UNCHANGED <<state, reported>>

-----------------------------------------------------------------------------
(* What the control tells: _q_stateChanged                                 *)

\* The media that stopped is over.
Over(s) ==
    /\ bound /\ s # state /\ s = "Stopped"
    /\ control.status \in {"EndOfMedia", "Invalid"}

\* The application hears only of a change.
Report(s) ==
    /\ state' = s
    /\ reported' = s
    /\ agenda' = Tail(agenda)
    /\ inSlot' = (s # state)
    /\ UNCHANGED <<navVars, heardMedia, heardIndex, promise, control, bound, sought>>

HearState ==
    /\ agenda # <<>> /\ agenda[1].do = "stateChanged"
    /\ ~Over(agenda[1].state)
    /\ Report(agenda[1].state)

\* playlist->next()
Advance ==
    /\ ~fault
    /\ agenda # <<>> /\ agenda[1].do = "stateChanged"
    /\ Over(agenda[1].state)
    /\ Move(nextItemPos(1), 1, <<[do |-> "advanced"]>> \o Tail(agenda))
    /\ promise' = Kept("next")
    /\ UNCHANGED <<resources, playbackMode, playerVars>>

Advanced ==
    /\ agenda # <<>> /\ agenda[1].do = "advanced"
    /\ Report(control.state)

-----------------------------------------------------------------------------
(* What the playlist tells: _q_updateMedia                                 *)

\* The control goes on with its new media as the player was.
Resumed(c, s) == IF s = "Stopped" THEN c ELSE Control!playOrPause(c, s)

\* What the control announces meanwhile is filtered out.
UpdateMedia ==
    /\ Hear
    /\ IF bound
       THEN LET m == Announced(agenda[1])
                c == Control!setMedia(control, m)
            IN  /\ control' = IF m = NoContent THEN c ELSE Resumed(c, state)
                /\ state' = control'.state
                /\ reported' = control'.state
                /\ sought' = FALSE
       ELSE UNCHANGED <<control, state, reported, sought>>
    /\ UNCHANGED bound

-----------------------------------------------------------------------------
(* The bus, in the event loop.                                             *)

TakeMessage ==
    /\ agenda = <<>>
    /\ control.bus # <<>> /\ control.bus[1] # "error"
    /\ Becomes(Control!Handle(Control!Taken, control.bus[1]), <<>>)
    /\ UNCHANGED <<state, bound, reported>>

\* invalidMedia() is emitted first, and stop() is called after that, twice.
TakeError ==
    /\ agenda = <<>>
    /\ control.bus # <<>> /\ control.bus[1] = "error"
    /\ Becomes(Control!handleInvalidMedia(Control!Taken),
               <<[do |-> "sessionStop"], [do |-> "sessionStop"]>>)
    /\ UNCHANGED <<state, bound, reported>>

StopSession ==
    /\ agenda # <<>> /\ agenda[1].do = "sessionStop"
    /\ Becomes(Control!sessionStop(control), Tail(agenda))
    /\ UNCHANGED <<state, bound, reported>>

Pipeline == Control!Pipeline /\ UNCHANGED <<vars, state, bound, reported, sought>>

-----------------------------------------------------------------------------
PlayerCalls ==
    \/ play \/ pause \/ stop \/ setPosition("later")
    \/ \E m \in Media : setMedia(m)
    \/ \E playlist \in BOOLEAN : setPlaylist(playlist)

ListCalls == Calls /\ UNCHANGED playerVars

Deliver == (DeliverIndex \/ DeliverMedia) /\ UNCHANGED playerVars

PlayerNext ==
    /\ \/ PlayerCalls \/ ListCalls
       \/ Deliver \/ HearState \/ Advance \/ Advanced \/ UpdateMedia
       \/ PlayAfterJump \/ StopSession \/ TakeMessage \/ TakeError
       \/ Pipeline
    /\ Len(control'.bus) <= MaxBus /\ Len(randomModePositions') <= MaxHistory

PlayerSpec == PlayerInit /\ [][PlayerNext]_allVars

\* A call that has begun ends, the main loop runs, and so does the pipeline.
PlayerFairness ==
    /\ WF_allVars(Deliver \/ HearState \/ Advance \/ Advanced \/ UpdateMedia
                    \/ PlayAfterJump \/ StopSession)
    /\ WF_allVars(TakeMessage) /\ WF_allVars(TakeError)
    /\ WF_allVars(Control!Settle /\ UNCHANGED <<vars, state, bound, reported, sought>>)
    /\ WF_allVars(Control!Proceed /\ UNCHANGED <<vars, state, bound, reported, sought>>)
    /\ WF_allVars(Control!Finish /\ UNCHANGED <<vars, state, bound, reported, sought>>)

PlayerFairSpec == PlayerSpec /\ PlayerFairness

-----------------------------------------------------------------------------
(* Properties.                                                             *)

\* Between calls, the control has the media that is current in the playlist of
\* the player (currentMediaChanged, setPlaylist, setMedia).
PlaysCurrent == agenda = <<>> /\ bound => control.media = currentItem

\* Between calls, the player knows the state of the control, and so does the
\* application, although the player does not listen while it changes the media
\* (filterStates).
StateReported == agenda = <<>> => state = control.state /\ reported = state

\* A list is played to its end: that an item has ended, or cannot be played on,
\* is no reason for the application to hear of a stop (_q_stateChanged).
PlaysThrough ==
    [][ reported' # reported /\ reported' = "Stopped" /\ bound
        => control'.status \notin {"EndOfMedia", "Invalid"} ]_allVars

\* The error path of the session has stopped the pipeline again that the player
\* has started for the next item (busMessage).
StoppedUnderneath == FailsLate # {} /\ control.target = "null"

\* The pipeline of a player that plays was asked to play, unless a buffer has run
\* low, and that of one that does not was not (playOrPause, stop, setMedia, and
\* the error path of busMessage).
PlayingRuns ==
    agenda = <<>> =>
        IF control.state = "Playing"
        THEN control.target = "playing" \/ control.uri \in Buffered \/ StoppedUnderneath
        ELSE control.target # "playing"

\* The error path has still to stop the session, whatever plays by then.
WillStop == \E k \in 1 .. Len(agenda) : agenda[k].do = "sessionStop"

\* Playing begins at the start again after a stop, at the end of the media, and
\* after an error, unless a position was set meanwhile or waits to be sought
\* (m_seekToStartPending), or a slot plays on before the error path has come to
\* its stop().
BeginsAtStart ==
    [][ /\ control.state = "Stopped" /\ control'.state = "Playing"
        /\ ~sought
        => control'.place = "start" \/ WillStop ]_allVars

\* What plays comes to its end, item by item, once the application leaves the
\* player and the playlist alone.
ListEnds ==
    <>[][~(PlayerCalls \/ ListCalls)]_allVars
        => []<>(control.state # "Playing" \/ control.uri \in Buffered \/ StoppedUnderneath)

\* Without media, at the end of it, when it is loaded only or cannot be played,
\* the control is stopped, as the documentation of MediaStatus says.
StoppedStatus ==
    control.status \in {"NoMedia", "Loaded", "EndOfMedia", "Invalid"}
        => control.state = "Stopped"

-----------------------------------------------------------------------------
(* What the code promises and does not keep: see the README.               *)

\* A player that plays has its pipeline play.
PlayingPlays == agenda = <<>> /\ control.state = "Playing" => control.target = "playing"

\* What the pipeline has loaded is what the control says is its media
\* (setMedia, play).
LoadedIsMedia == control.target # "null" => control.uri = control.media

\* Nothing is under way.
AtRest == agenda = <<>> /\ control.bus = <<>> /\ control.at = control.target

\* The statuses of buffered media come with playing and pausing, once the
\* messages of the pipeline have been handled.
BufferedStatus ==
    AtRest /\ control.status \in {"Stalled", "Buffering", "Buffered"}
        => control.state # "Stopped"

\* A control that plays does play, unless its buffer is low.
PlaysWhenFull ==
    AtRest /\ control.state = "Playing" /\ control.buffer # "low"
        => control.target = "playing"

\* The control is at the end of the media only when the pipeline is.
EndIsEnd == control.status = "EndOfMedia" => control.place = "end"
=============================================================================
