---------------------- MODULE QMediaPlaylistNavigator ----------------------
(***************************************************************************)
(* A QMediaPlaylist with its local control: the list of media              *)
(* (src/src/multimedia/qlocalmediaplaylistprovider.cpp) and the navigator, *)
(* which keeps the current position and, in random mode, the history of    *)
(* positions (src/src/multimedia/qmediaplaylistnavigator.cpp).             *)
(*                                                                         *)
(* Signals are delivered one receiver after the other, first to a slot of  *)
(* the application, then to the player.  What is still to be delivered is  *)
(* agenda, innermost first: the slot may call the playlist, and what that  *)
(* emits comes before what was on its way.  Positions count from 0.        *)
(***************************************************************************)
EXTENDS Integers, Sequences, FiniteSets, SequencesExt

CONSTANTS
    Media,          \* contents
    NoContent,      \* the null content
    Modes,          \* playback modes in use
    SlotsOnChange,  \* slots may call while a changed item is announced
    EmptyRandom,    \* next() and previous() may be called in random mode when
                    \* the list is empty
    MaxItems,       \* bound on the list
    MaxHistory,     \* bound on the history, which the code does not limit
    MaxSteps,       \* bound on the steps asked of nextIndex and previousIndex
    MaxAgenda       \* slots call while no more than this waits

ASSUME NavigatorAssumption ==
    /\ NoContent \notin Media
    /\ Modes \subseteq {"CurrentItemOnce", "CurrentItemInLoop", "Sequential",
                        "Loop", "Random"}
    /\ "Sequential" \in Modes
    /\ {SlotsOnChange, EmptyRandom} \subseteq BOOLEAN
    /\ {MaxItems, MaxHistory, MaxSteps, MaxAgenda} \subseteq Nat

VARIABLES
    resources,              \* the list
    playbackMode,
    currentPos,             \* -1 if no item is current
    currentItem,
    randomModePositions,    \* history of random mode; -1 where it is open
    randomPositionsOffset,  \* the place of currentPos in it, -1 outside the mode
    fault,                  \* the history has been indexed out of its range
    agenda, inSlot,         \* inSlot: a slot has been called and may call
    heardMedia, heardIndex, \* history: what the player, the slot heard last
    promise                 \* history: the last answer of nextIndex or previousIndex

navVars == <<resources, playbackMode, currentPos, currentItem,
             randomModePositions, randomPositionsOffset, fault>>
listeners == <<agenda, inSlot, heardMedia, heardIndex>>
vars == <<navVars, listeners, promise>>

Count == Len(resources)
Position == -1 .. MaxItems - 1

itemAt(p) == IF p \in 0 .. Count - 1 THEN resources[p + 1] ELSE NoContent

\* Two signals.  activated refers to currentItem itself; announced with a copy
\* it carries the item it was emitted with.
IndexChanged(p) == [do |-> "currentIndexChanged", pos |-> p]
Activated == [do |-> "activated", copy |-> <<>>]
ActivatedCopy(m) == [do |-> "activated", copy |-> <<m>>]
Update(copy) == [do |-> "update", copy |-> copy]

NavTask ==
    [do : {"currentIndexChanged"}, pos : Position]
        \cup [do : {"activated", "update"},
              copy : {<<>>} \cup {<<m>> : m \in Media \cup {NoContent}}]

Promise == [at : Position, left : Nat, way : {"next", "previous"}]

NavTypeOK ==
    /\ resources \in Seq(Media) /\ Count <= MaxItems
    /\ playbackMode \in Modes
    /\ currentPos \in Position
    /\ currentItem \in Media \cup {NoContent}
    /\ randomModePositions \in Seq(Position)
    /\ randomPositionsOffset \in Int
    /\ {fault, inSlot} \subseteq BOOLEAN
    /\ agenda \in Seq(NavTask)
    /\ heardMedia \in Media \cup {NoContent}
    /\ heardIndex \in Position
    /\ promise \in Seq(Promise)

\* An empty playlist; it is in sequential mode until it is told otherwise.
Init ==
    /\ resources = <<>>
    /\ playbackMode = "Sequential"
    /\ currentPos = -1 /\ heardIndex = -1
    /\ currentItem = NoContent /\ heardMedia = NoContent
    /\ randomModePositions = <<>> /\ randomPositionsOffset = -1
    /\ fault = FALSE
    /\ agenda = <<>> /\ inSlot = FALSE
    /\ promise = <<>>

-----------------------------------------------------------------------------
(* Mutants: plausible slips in the code below.                             *)

\* The item is announced only when the position has changed.
SignalsOnMove(pos, old) ==
    IF pos # old THEN <<IndexChanged(pos), Activated>> ELSE <<>>

\* The new position is not taken to the list.
MediaInsertedNoJump(list, start, end) ==
    /\ currentPos' = IF currentPos >= start THEN end - start + 1 ELSE currentPos
    /\ UNCHANGED <<currentItem, randomModePositions, randomPositionsOffset,
                   fault, listeners>>

\* The current position is not put into the history.
setPlaybackModeNoStart(mode) ==
    /\ ~fault /\ agenda = <<>>
    /\ playbackMode # mode
    /\ randomPositionsOffset' = IF mode = "Random" THEN 0 ELSE -1
    /\ randomModePositions' = <<>>
    /\ playbackMode' = mode
    /\ promise' = <<>>
    /\ UNCHANGED <<resources, currentPos, currentItem, fault, listeners>>

\* A random choice is not written down.
EntryForgotten(h, k) ==
    LET p == h.positions[k + 1]
    IN  IF p \in 0 .. Count - 1 THEN {[pos |-> p, history |-> h]}
        ELSE {[pos |-> r, history |-> h] : r \in 0 .. Count - 1}

-----------------------------------------------------------------------------
(* Calls.                                                                  *)

\* The application calls from its event loop or from a slot.
MayCall == ~fault /\ (agenda = <<>> \/ (inSlot /\ Len(agenda) <= MaxAgenda))

\* What a call emits is delivered before the rest.
Emit(tasks, rest) == /\ agenda' = tasks \o rest
                     /\ inSlot' = FALSE
                     /\ UNCHANGED <<heardMedia, heardIndex>>

\* A history and the place of the current position in it.
History(positions, offset) == [positions |-> positions, offset |-> offset]
ThisHistory == History(randomModePositions, randomPositionsOffset)

\* What jump() emits.
Signals(pos, old) ==
    IF pos # old THEN <<IndexChanged(pos), Activated>> ELSE <<Activated>>

\* The position that jump(p) goes to in the list.
PositionIn(p, list) == IF p \in 0 .. Len(list) - 1 THEN p ELSE -1

\* jump() to p in list, when old was current, h is the history, and rest is
\* still to be delivered afterwards.
Jump(p, list, old, h, rest) ==
    LET pos == PositionIn(p, list)
    IN  IF playbackMode = "Random" /\ h.offset + 1 \notin DOMAIN h.positions
        THEN /\ fault' = TRUE
             /\ UNCHANGED <<currentPos, currentItem, randomModePositions,
                            randomPositionsOffset, listeners>>
        ELSE /\ currentPos' = pos
             /\ currentItem' = IF pos \in 0 .. Len(list) - 1 THEN list[pos + 1]
                                                          ELSE NoContent
             /\ IF playbackMode = "Random" /\ h.positions[h.offset + 1] # pos
                THEN randomModePositions' = <<pos>> /\ randomPositionsOffset' = 0
                ELSE /\ randomModePositions' = h.positions
                     /\ randomPositionsOffset' = h.offset
             /\ Emit(Signals(pos, old), rest)
             /\ fault' = fault

-----------------------------------------------------------------------------
(* nextItemPos and previousItemPos: the positions they may answer, with    *)
(* the history they leave.                                                 *)

Answer(p) == {[pos |-> p, history |-> ThisHistory]}

Started == IF randomPositionsOffset = -1 THEN History(<<currentPos>>, 0) ELSE ThisHistory

Open(n) == IF n > 0 THEN [k \in 1 .. n |-> -1] ELSE <<>>

\* The entry at k, chosen now if it is open or beyond the end of the list.
Entry(h, k) ==
    LET p == h.positions[k + 1]
    IN  IF p \in 0 .. Count - 1 THEN {[pos |-> p, history |-> h]}
        ELSE {[pos |-> r, history |-> [h EXCEPT !.positions[k + 1] = r]] :
                 r \in 0 .. Count - 1}

nextItemPos(steps) ==
    LET missing == Started.offset + steps + 1 - Len(Started.positions)
        ahead == History(Started.positions \o Open(missing), Started.offset)
    IN  CASE Count = 0 \/ playbackMode = "CurrentItemOnce" -> Answer(-1)
          [] Count > 0 /\ playbackMode = "CurrentItemInLoop" -> Answer(currentPos)
          [] Count > 0 /\ playbackMode = "Sequential" ->
                Answer(IF currentPos + steps < Count THEN currentPos + steps ELSE -1)
          [] Count > 0 /\ playbackMode = "Loop" -> Answer((currentPos + steps) % Count)
          [] Count > 0 /\ playbackMode = "Random" -> Entry(ahead, ahead.offset + steps)

previousItemPos(steps) ==
    LET missing == steps - Started.offset
        behind == History(Open(missing) \o Started.positions,
                          IF missing > 0 THEN steps ELSE Started.offset)
        from == IF currentPos = -1 THEN Count ELSE currentPos
    IN  CASE Count = 0 \/ playbackMode = "CurrentItemOnce" -> Answer(-1)
          [] Count > 0 /\ playbackMode = "CurrentItemInLoop" -> Answer(currentPos)
          [] Count > 0 /\ playbackMode = "Sequential" ->
                Answer(IF from >= steps THEN from - steps ELSE -1)
          [] Count > 0 /\ playbackMode = "Loop" -> Answer((currentPos - steps) % Count)
          [] Count > 0 /\ playbackMode = "Random" -> Entry(behind, behind.offset - steps)

-----------------------------------------------------------------------------
(* Navigation.                                                             *)

Kept(way) == IF promise # <<>> /\ promise[1].way = way /\ promise[1].left > 0
             THEN <<[promise[1] EXCEPT !.left = @ - 1]>>
             ELSE <<>>

Move(answers, by, rest) ==
    \E a \in answers :
        LET h == History(a.history.positions,
                         a.history.offset + (IF playbackMode = "Random" THEN by ELSE 0))
        IN  Jump(a.pos, resources, currentPos, h, rest)

next ==
    /\ MayCall
    /\ EmptyRandom \/ Count > 0 \/ playbackMode # "Random"
    /\ Move(nextItemPos(1), 1, agenda)
    /\ promise' = Kept("next")
    /\ UNCHANGED <<resources, playbackMode>>

previous ==
    /\ MayCall
    /\ EmptyRandom \/ Count > 0 \/ playbackMode # "Random"
    /\ Move(previousItemPos(1), -1, agenda)
    /\ promise' = Kept("previous")
    /\ UNCHANGED <<resources, playbackMode>>

\* QMediaPlaylist::setCurrentIndex, for positions inside and outside the list.
setCurrentIndex(p) ==
    /\ MayCall
    /\ Jump(p, resources, currentPos, ThisHistory, agenda)
    /\ promise' = <<>>
    /\ UNCHANGED <<resources, playbackMode>>

\* The question commits random mode to its answer.
Ask(answers, steps, way) ==
    /\ MayCall
    /\ \E a \in answers :
          /\ randomModePositions' = a.history.positions
          /\ randomPositionsOffset' = a.history.offset
          /\ promise' = <<[at |-> a.pos, left |-> steps, way |-> way]>>
    /\ UNCHANGED <<resources, playbackMode, currentPos, currentItem, fault, listeners>>

nextIndex(steps) == Ask(nextItemPos(steps), steps, "next")
previousIndex(steps) == Ask(previousItemPos(steps), steps, "previous")

setPlaybackMode(mode) ==
    /\ MayCall
    /\ playbackMode # mode
    /\ IF mode = "Random"
       THEN /\ randomPositionsOffset' = 0
            /\ randomModePositions' = Append(randomModePositions, currentPos)
       ELSE IF playbackMode = "Random"
       THEN randomPositionsOffset' = -1 /\ randomModePositions' = <<>>
       ELSE UNCHANGED <<randomPositionsOffset, randomModePositions>>
    /\ playbackMode' = mode
    /\ promise' = <<>>
    /\ UNCHANGED <<resources, currentPos, currentItem, fault, listeners>>

-----------------------------------------------------------------------------
(* Changes of the list, each with the navigator's slot, which is the first *)
(* receiver of the provider's signals.                                     *)

\* Nothing is emitted.
Silent == UNCHANGED <<currentPos, currentItem, randomModePositions,
                      randomPositionsOffset, fault, listeners>>

\* _q_mediaInserted(start, end)
MediaInserted(list, start, end) ==
    IF currentPos >= start
    THEN Jump(end - start + 1, list, end - start + 1, ThisHistory, agenda)
    ELSE Silent

\* insertMedia, and addMedia at the end.
insertMedia(pos, items) ==
    /\ MayCall
    /\ Count + Len(items) <= MaxItems
    /\ resources' = SubSeq(resources, 1, pos) \o items
                        \o SubSeq(resources, pos + 1, Count)
    /\ MediaInserted(resources', pos, pos + Len(items) - 1)
    /\ promise' = <<>>
    /\ UNCHANGED playbackMode

\* _q_mediaRemoved(start, end)
MediaRemoved(list, start, end) ==
    LET moved == currentPos - end - start + 1
        kept == IF start < Len(list) THEN start ELSE Len(list) - 1
    IN  IF currentPos > end THEN Jump(moved, list, moved, ThisHistory, agenda)
        ELSE IF currentPos >= start THEN Jump(kept, list, kept, ThisHistory, agenda)
        ELSE Silent

\* removeMedia; clear() removes everything.
removeMedia(start, end) ==
    /\ MayCall
    /\ resources' = SubSeq(resources, 1, start) \o SubSeq(resources, end + 2, Count)
    /\ MediaRemoved(resources', start, end)
    /\ promise' = <<>>
    /\ UNCHANGED playbackMode

\* _q_mediaChanged for the whole list
MediaChanged(list) ==
    IF currentPos >= 0 /\ list[currentPos + 1] # currentItem
    THEN /\ currentItem' = list[currentPos + 1]
         /\ Emit(<<ActivatedCopy(list[currentPos + 1])>>, agenda)
         /\ UNCHANGED <<currentPos, randomModePositions, randomPositionsOffset, fault>>
    ELSE Silent

shuffle ==
    /\ MayCall
    /\ \E order \in {f \in [1 .. Count -> 1 .. Count] :
                        Cardinality({f[k] : k \in 1 .. Count}) = Count} :
          /\ resources' = [k \in 1 .. Count |-> resources[order[k]]]
          /\ MediaChanged(resources')
    /\ promise' = <<>>
    /\ UNCHANGED playbackMode

-----------------------------------------------------------------------------
(* Delivery.                                                               *)

DeliverIndex ==
    /\ agenda # <<>> /\ agenda[1].do = "currentIndexChanged"
    /\ heardIndex' = agenda[1].pos
    /\ agenda' = Tail(agenda)
    /\ inSlot' = TRUE
    /\ UNCHANGED <<navVars, heardMedia, promise>>

\* To the slot of the application, which comes before the player.
DeliverMedia ==
    /\ agenda # <<>> /\ agenda[1].do = "activated"
    /\ agenda' = <<Update(agenda[1].copy)>> \o Tail(agenda)
    /\ inSlot' = (SlotsOnChange \/ agenda[1].copy = <<>>)
    /\ UNCHANGED <<navVars, heardMedia, heardIndex, promise>>

\* The content the last receiver gets.
Announced(task) == IF task.copy = <<>> THEN currentItem ELSE task.copy[1]

Hear ==
    /\ agenda # <<>> /\ agenda[1].do = "update"
    /\ heardMedia' = Announced(agenda[1])
    /\ agenda' = Tail(agenda)
    /\ inSlot' = FALSE
    /\ UNCHANGED <<navVars, heardIndex, promise>>

-----------------------------------------------------------------------------
Calls ==
    \/ next \/ previous \/ shuffle
    \/ \E p \in Position \cup {MaxItems} : setCurrentIndex(p)
    \/ \E steps \in 1 .. MaxSteps : nextIndex(steps) \/ previousIndex(steps)
    \/ \E mode \in Modes : setPlaybackMode(mode)
    \/ \E pos \in 0 .. Count, items \in {<<m>> : m \in Media} \cup (Media \X Media) :
          insertMedia(pos, items)
    \/ \E end \in 0 .. Count - 1 : \E start \in 0 .. end : removeMedia(start, end)

Next == \/ Calls /\ Len(randomModePositions') <= MaxHistory
        \/ DeliverIndex \/ DeliverMedia \/ Hear

Spec == Init /\ [][Next]_vars

-----------------------------------------------------------------------------
(* Properties.                                                             *)

\* Whatever is inserted, removed or shuffled, the current item is the item of
\* the list at the current position, and that position exists.
CurrentIsItem == currentPos \in -1 .. Count - 1 /\ currentItem = itemAt(currentPos)

\* When everything is delivered the player has heard of the current item last,
\* even if a slot has moved on while it was announced.
PlayerHeardLast == agenda = <<>> => heardMedia = currentItem

\* The history of random mode is never indexed out of its range.
HistoryInRange == ~fault

\* What nextIndex and previousIndex announce is where as many calls of next()
\* or previous() lead, if nothing else happens in between; in random mode, too.
PromiseKept == promise # <<>> /\ promise[1].left = 0 => currentPos = promise[1].at

\* currentIndexChanged tells every change of the position.
IndexSignalled == agenda = <<>> => heardIndex = currentPos
=============================================================================
