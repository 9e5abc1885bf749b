---------------------- MODULE QGstreamerPlayerControl ----------------------
(***************************************************************************)
(* The player control of the GStreamer plugin                              *)
(* (src/plugins/multimedia/gstreamer/mediaplayer): the control, its        *)
(* session, and the pipeline below, which does what it is asked to later   *)
(* and tells by messages on its bus.                                       *)
(*                                                                         *)
(* One record holds all of them, because a call runs through control and   *)
(* session in one go; an operator takes it and gives the one after the     *)
(* call.  The build is that without resource policy, where resources are   *)
(* granted when they are asked for, and without streams.                   *)
(***************************************************************************)
EXTENDS Integers, Sequences, SequencesExt

CONSTANTS
    Media, NoContent,   \* contents, and the null content
    Unreadable,         \* Qt resources that cannot be opened
    FailsAtOnce,        \* the pipeline refuses to change its state
    FailsLate,          \* the pipeline reports an error when it runs
    Unseekable,         \* the pipeline cannot seek in them
    Buffered,           \* the pipeline buffers them
    MaxBus              \* bound on the messages under way

VARIABLE control    \* the record

State == {"Stopped", "Paused", "Playing"}
Status == {"NoMedia", "Loading", "Loaded", "Stalled", "Buffering", "Buffered",
           "EndOfMedia", "Invalid"}
Place == {"start", "later", "end"}

\* Messages: the pipeline has prerolled, is paused again, plays, is at the end,
\* has failed; a buffer is low or full.
Message == {"prerolled", "paused", "playing", "eos", "error", "low", "full"}

Control ==
    [state : State, status : Status, media : Media \cup {NoContent},
     seekToStart : BOOLEAN, pendingSeek : Place \cup {"none"},
     buffer : {"none", "low", "full"},
     \* of the session
     session : State, seekable : BOOLEAN, uri : Media \cup {NoContent},
     \* of the pipeline: the state asked for and the one it is in, the place in
     \* the media, the buffer it reported last, the messages under way
     target : {"null", "paused", "playing"}, at : {"null", "paused", "playing"},
     place : Place, level : {"none", "low", "full"}, bus : Seq(Message)]

ControlTypeOK ==
    /\ control \in Control
    /\ Len(control.bus) <= MaxBus

Unloaded ==
    [state |-> "Stopped", status |-> "NoMedia", media |-> NoContent,
     seekToStart |-> FALSE, pendingSeek |-> "none", buffer |-> "none",
     session |-> "Stopped", seekable |-> FALSE, uri |-> NoContent,
     target |-> "null", at |-> "null", place |-> "start", level |-> "none",
     bus |-> <<>>]

-----------------------------------------------------------------------------
(* Mutants: plausible slips in the code below.                             *)

\* The media ends, and plays on from where it is.
RewoundNot(c) == c

\* A full buffer starts the pipeline, whether the control plays or not.
setBufferProgressEager(c, level) ==
    IF c.buffer = level \/ c.status = "NoMedia" THEN c
    ELSE [c EXCEPT !.buffer = level,
                   !.target = IF level = "full" THEN "playing" ELSE "paused"]

-----------------------------------------------------------------------------
(* QGstreamerPlayerControl::updateMediaStatus and updateSessionState       *)

FullyBuffered(c) == c.buffer \in {"none", "full"}

\* The end of the media is kept until play, pause or setMedia.
updateMediaStatus(c) ==
    [c EXCEPT !.status =
        CASE @ = "EndOfMedia" -> @
          [] @ # "EndOfMedia" /\ c.session = "Stopped" ->
                IF c.media = NoContent THEN "NoMedia" ELSE "Loading"
          [] @ # "EndOfMedia" /\ c.session # "Stopped" ->
                IF c.state = "Stopped" THEN "Loaded"
                ELSE IF FullyBuffered(c) THEN "Buffered" ELSE "Stalled"]

updateSessionState(c, s) ==
    updateMediaStatus(IF s = "Stopped" THEN [c EXCEPT !.state = "Stopped"] ELSE c)

-----------------------------------------------------------------------------
(* QGstreamerPlayerSession                                                 *)

\* Whether the pipeline accepts to leave its null state, if it is in it.
Starts(c) == c.target # "null" \/ c.uri \notin FailsAtOnce \cup {NoContent}

\* play() and pause().  A pipeline that refuses has put an error on its bus.
Ask(c, target) ==
    IF Starts(c) THEN [c EXCEPT !.target = target]
    ELSE updateSessionState([c EXCEPT !.session = "Stopped",
                                      !.bus = Append(@, "error")], "Stopped")

\* stop(), by which the pipeline drops what it has on its bus.
sessionStop(c) ==
    LET s == [c EXCEPT !.target = "null", !.at = "null", !.place = "start",
                       !.level = "none", !.bus = <<>>,
                       !.session = "Stopped", !.seekable = FALSE]
    IN  IF c.session = "Stopped" THEN s ELSE updateSessionState(s, "Stopped")

CanSeek(c) == c.session # "Stopped" /\ c.uri \notin Unseekable

-----------------------------------------------------------------------------
(* Calls of the control.                                                   *)

Rewound(c) ==
    LET p == Ask(c, "paused")
    IN  [IF CanSeek(p) THEN [p EXCEPT !.place = "start"]
         ELSE [sessionStop([p EXCEPT !.buffer = "none"]) EXCEPT !.status = "Loading"]
         EXCEPT !.seekToStart = FALSE]

\* The status with which playing or pausing begins.
Begun(c) ==
    CASE c.status = "Invalid" -> "Loading"
      [] c.status \in {"EndOfMedia", "Loaded"} ->
            IF FullyBuffered(c) THEN "Buffered" ELSE "Buffering"
      [] OTHER -> c.status

playOrPause(c, state) ==
    LET atEnd == c.status = "EndOfMedia"
        b == [c EXCEPT !.status = IF atEnd THEN "Buffered" ELSE @,
                       !.seekToStart = @ \/ atEnd]
        r == IF b.seekToStart THEN Rewound(b) ELSE b
        s == Ask(r, IF state = "Playing" THEN "playing" ELSE "paused")
    IN  IF c.status = "NoMedia" THEN c
        ELSE [s EXCEPT !.status = Begun(s),
                       !.state = IF Starts(r) THEN state ELSE "Stopped"]

stop(c) ==
    LET s == Ask([c EXCEPT !.state = "Stopped"], "paused")
    IN  IF c.state = "Stopped" THEN c
        ELSE [s EXCEPT !.seekToStart = @ \/ s.status # "EndOfMedia"]

setMedia(c, m) ==
    LET s == [sessionStop([c EXCEPT !.state = "Stopped", !.pendingSeek = "none"])
              EXCEPT !.buffer = "none"]
        l == [s EXCEPT !.media = m, !.uri = m, !.seekToStart = FALSE]
    IN  IF m \in Unreadable THEN [s EXCEPT !.status = "Invalid", !.media = m]
        ELSE IF m = NoContent THEN [l EXCEPT !.status = "NoMedia"]
        ELSE Ask([l EXCEPT !.status = "Loading"], "paused")

setPosition(c, place) ==
    LET atEnd == c.status = "EndOfMedia"
        b == [c EXCEPT !.status = IF atEnd THEN "Loaded" ELSE @,
                       !.seekToStart = @ \/ atEnd]
    IN  IF c.seekable /\ CanSeek(b)
        THEN [b EXCEPT !.seekToStart = FALSE, !.pendingSeek = "none", !.place = place]
        ELSE [b EXCEPT !.pendingSeek = place]

-----------------------------------------------------------------------------
(* QGstreamerPlayerSession::busMessage and the slots of the control        *)

\* applyPendingSeek, when the session has become seekable.
Seekable(c) ==
    LET s == [c EXCEPT !.seekable = TRUE]
    IN  IF ~c.seekable /\ c.pendingSeek # "none" THEN setPosition(s, c.pendingSeek)
        ELSE s

SessionIs(c, s) ==
    IF c.session = s THEN c ELSE updateSessionState([c EXCEPT !.session = s], s)

EndReached(c) == stop([c EXCEPT !.status = "EndOfMedia"])

setBufferProgress(c, level) ==
    LET b == [c EXCEPT !.buffer = level]
    IN  IF c.buffer = level \/ c.status = "NoMedia" THEN c
        ELSE updateMediaStatus(
            IF level = "full" /\ c.state = "Playing" /\ c.session # "Playing"
            THEN Ask(b, "playing")
            ELSE IF level = "low" /\ c.session = "Playing" THEN Ask(b, "paused")
            ELSE b)

handleInvalidMedia(c) == [c EXCEPT !.status = "Invalid", !.state = "Stopped"]

\* What the control does with a message that is not an error.  The session is
\* paused when setSeekable is called, and tells so afterwards.
Handle(c, message) ==
    CASE message = "prerolled" ->
            IF c.session = "Paused" THEN Seekable(c)
            ELSE updateSessionState(Seekable([c EXCEPT !.session = "Paused"]), "Paused")
      [] message = "paused" -> SessionIs(c, "Paused")
      [] message = "playing" -> SessionIs(c, "Playing")
      [] message = "eos" -> EndReached(c)
      [] message \in {"low", "full"} -> setBufferProgress(c, message)

Taken == [control EXCEPT !.bus = Tail(@)]

-----------------------------------------------------------------------------
(* The pipeline.                                                           *)

\* There is room on the bus for one more message.
Post == Len(control.bus) < MaxBus

\* It goes one state further to the one that it was asked for.
Settle ==
    LET to == IF control.at = "paused" THEN "playing" ELSE "paused"
        message == IF control.at = "null" THEN "prerolled" ELSE to
    IN  /\ control.at # control.target
        /\ Post
        /\ control' = [control EXCEPT !.at = to, !.bus = Append(@, message)]

Proceed ==
    /\ control.at = "playing" /\ control.place = "start"
    /\ control' = [control EXCEPT !.place = "later"]

Finish ==
    /\ control.at = "playing" /\ control.place = "later"
    /\ Post
    /\ control' = [control EXCEPT !.place = "end", !.bus = Append(@, "eos")]

Fail ==
    /\ control.at # "null" /\ control.uri \in FailsLate
    /\ "error" \notin Range(control.bus)
    /\ Post
    /\ control' = [control EXCEPT !.bus = Append(@, "error")]

Buffer ==
    LET level == IF control.level = "low" THEN "full" ELSE "low"
    IN  /\ control.at # "null" /\ control.uri \in Buffered
        /\ Post
        /\ control' = [control EXCEPT !.level = level, !.bus = Append(@, level)]

Pipeline == Settle \/ Proceed \/ Finish \/ Fail \/ Buffer
=============================================================================
